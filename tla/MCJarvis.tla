------------------------------- MODULE MCJarvis -------------------------------
(***************************************************************************)
(* Deployments and clients: with the store, one identifier for two         *)
(* missions; with the registry, starts of one attempt that share their     *)
(* approval, or that meet every gate.                                      *)
(***************************************************************************)
EXTENDS Jarvis, TLC

CONSTANTS c1, c2, r1, r2, r3, hermes, admin, t1, t2, a1, p1

Basic ==
  [do |-> "status.get", title |-> t1, mission |-> 1, workspace |-> 1, attempt |-> a1,
   worker |-> "codex", fence |-> 1, approval |-> NoApproval,
   lowRisk |-> FALSE, complete |-> TRUE, publishes |-> FALSE]

Asks(i, body) == [id |-> i, actor |-> hermes, body |-> body]
Does(action) == [Basic EXCEPT !.do = action]
Create(title) == [Does("mission.create") EXCEPT !.title = title]
StartWith(approval) == [Does("agent.start") EXCEPT !.approval = approval]

Used(level) == [present |-> TRUE, reached |-> "no", used |-> level]

Deployed ==
  [store |-> TRUE, mutations |-> TRUE, v2 |-> TRUE, agents |-> TRUE, armed |-> FALSE,
   hook |-> FALSE, lowRiskAuto |-> FALSE, requests |-> {}, payloads |-> {},
   missions |-> [m \in Records |-> "absent"],
   workspaces |-> [w \in Records |-> NoWorkspace]]

\* One identifier for two missions and by two principals, and a cancellation.
WithStore ==
  [Deployed EXCEPT !.requests =
     {Asks(r1, Create(t1)), Asks(r1, Create(t2)),
      [Asks(r1, Create(t1)) EXCEPT !.actor = admin],
      Asks(r2, Does("mission.cancel")), Asks(r3, StartWith(NoApproval))}]

\* The registry alone: missions, then fences, names and duplicates.
InMemory == [Deployed EXCEPT !.store = FALSE]
WithRegistry ==
  {[InMemory EXCEPT !.requests =
      {Asks(r1, Create(t1)), Asks(r2, Does("mission.cancel"))}],
   [InMemory EXCEPT !.missions[1] = "queued", !.requests =
      {Asks(r1, Does("workspace.create")),
       Asks(r2, [Does("workspace.delete") EXCEPT !.fence = 2]),
       Asks(r3, Does("agent.stop"))}]}

\* Everything is there for an agent to start.
Canary ==
  [InMemory EXCEPT !.armed = TRUE, !.hook = TRUE,
     !.payloads = {Used("low")},
     !.missions[1] = "queued",
     !.workspaces[1] = [mission |-> 1, attempt |-> a1, title |-> t1, deleted |-> FALSE]]

\* Two requests for one attempt with one approval, and a cancellation.
Starts ==
  [Canary EXCEPT !.requests =
     {Asks(r1, StartWith(p1)), Asks(r2, [StartWith(p1) EXCEPT !.fence = 2]),
      Asks(r3, Does("mission.cancel"))}]

\* One gate closed, or a start that lacks something.
Gates ==
  {[Canary EXCEPT !.agents = FALSE, !.requests = {Asks(r1, StartWith(p1))}],
   [Canary EXCEPT !.mutations = FALSE, !.lowRiskAuto = TRUE, !.requests =
      {Asks(r1, [StartWith(NoApproval) EXCEPT !.lowRisk = TRUE]),
       Asks(r2, [StartWith(NoApproval) EXCEPT !.lowRisk = TRUE, !.fence = 0]),
       Asks(r1, StartWith(NoApproval)), Asks(r3, Create(t1))}]}

SetupsOfAll == {WithStore, Starts} \cup WithRegistry \cup Gates
ApprovalFor == p1 :> [attempt |-> a1, worker |-> "codex"]
=============================================================================
