------------------------------ MODULE OneWriter ------------------------------
(***************************************************************************)
(* What execution control promises about concurrency: at any time at most  *)
(* one generation acts for a mission, a generation acts during one         *)
(* interval only, resources are never shared by two generations, and a     *)
(* closed mission is never acted for again.                                *)
(***************************************************************************)
CONSTANTS
  Missions,     \* what is worked for
  Generations,  \* one-shot executions
  Nobody,       \* no generation
  Resources     \* what a generation needs for itself alone

VARIABLES
  acting,  \* the generation that acts for each mission, or Nobody
  spent,   \* the generations that were ever started
  uses,    \* the resources of each generation
  closed   \* missions that reached their end

vars == <<acting, spent, uses, closed>>

Init ==
  /\ acting = [m \in Missions |-> Nobody]
  /\ spent = {}
  /\ uses = [g \in Generations |-> {}]
  /\ closed = {}

\* A new generation starts for an idle mission with resources nobody uses.
Begin(m, g, R) ==
  /\ acting[m] = Nobody
  /\ m \notin closed
  /\ g \notin spent
  /\ \A h \in Generations : uses[h] \cap R = {}
  /\ acting' = [acting EXCEPT ![m] = g]
  /\ spent' = spent \cup {g}
  /\ uses' = [uses EXCEPT ![g] = R]
  /\ UNCHANGED closed

\* The generation acting for m stops and gives its resources back.  This may
\* close the mission.
End(m) ==
  /\ acting[m] # Nobody
  /\ acting' = [acting EXCEPT ![m] = Nobody]
  /\ uses' = [uses EXCEPT ![acting[m]] = {}]
  /\ closed' \in {closed, closed \cup {m}}
  /\ UNCHANGED spent

\* An idle mission is closed.
Close(m) ==
  /\ acting[m] = Nobody
  /\ m \notin closed
  /\ closed' = closed \cup {m}
  /\ UNCHANGED <<acting, spent, uses>>

Next ==
  \E m \in Missions :
    \/ \E g \in Generations, R \in SUBSET Resources : Begin(m, g, R)
    \/ End(m)
    \/ Close(m)

Spec == Init /\ [][Next]_vars
=============================================================================
