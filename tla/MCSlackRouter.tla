---------------------------- MODULE MCSlackRouter ----------------------------
(***************************************************************************)
(* Two events in every way they meet: in one thread or in two.             *)
(***************************************************************************)
EXTENDS SlackRouter, TLC

CONSTANTS e1, e2, t1, t2, planner, gateway

Root(route, mode) == [thread |-> t1, root |-> TRUE, mode |-> mode, route |-> route]
Reply(route) == [Root(route, "sync") EXCEPT !.root = FALSE]
Elsewhere(route, mode) == [Root(route, mode) EXCEPT !.thread = t2]

Pair(first, second) == (e1 :> first) @@ (e2 :> second)

\* The deployed consumers: the one of Hermes plans V2 missions.
Targets == (planner :> "hermes") @@ (gateway :> "ana")

InOneThread ==
  {Pair(Root("codex", "sync"), Reply("grok")),
   Pair(Root("grok", "sync"), Reply("mission")),
   Pair(Root("mission", "async"), Reply("hermes")),
   Pair(Root("refused", "sync"), Reply("mission")),
   Pair(Root("native", "sync"), Reply("ana")),
   Pair(Root("devin", "sync"), Reply("ana"))}

InTwoThreads ==
  {Pair(Root("grok", "sync"), Elsewhere("grok", "sync")),
   Pair(Root("native", "sync"), Elsewhere("hermes", "sync")),
   Pair(Root("native", "sync"), Elsewhere("ana", "async"))}

Conversed == InOneThread \cup InTwoThreads
MissionAfterMessage == {Pair(Root("hermes", "sync"), Reply("mission"))}
=============================================================================
