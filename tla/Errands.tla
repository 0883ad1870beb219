------------------------------ MODULE Errands ------------------------------
(***************************************************************************)
(* What Jarvis promises to those who send it requests: a request has one   *)
(* mission, for good, and is told of that one only; for one attempt there  *)
(* is one messenger under way at a time, who has an errand for it and the  *)
(* means, whose errand does not change under way, and who is not replaced  *)
(* once an agent is at work, for as long as the process lives.             *)
(***************************************************************************)
CONSTANTS
  Requests,
  Facts,       \* what may be told: records of a mission and its contents
  Attempts,    \* what an agent may be started for
  Messengers,
  Nobody       \* an attempt that is free

VARIABLES
  created,  \* what was created for each request
  over,     \* the missions that are over
  told,     \* what was told of each request
  errand,   \* the attempt that each messenger may start an agent for, if any
  way,      \* how far each messenger has come
  holder    \* the messenger of each attempt

vars == <<created, over, told, errand, way, holder>>

Init ==
  /\ created = [r \in Requests |-> {}]
  /\ over = {}
  /\ told = [r \in Requests |-> {}]
  /\ errand \in [Messengers -> SUBSET Attempts]
  /\ way = [m \in Messengers |-> "home"]
  /\ holder = [a \in Attempts |-> Nobody]

missionVars == <<created, over, told>>
agentVars == <<errand, way, holder>>

-----------------------------------------------------------------------------
\* The first and only mission of a request, and of no other.
Create(r, f) ==
  /\ created[r] = {}
  /\ \A q \in Requests : \A g \in created[q] : g.mission # f.mission
  /\ created' = [created EXCEPT ![r] = {f}]
  /\ UNCHANGED <<over, told, agentVars>>

End(r, f) ==
  /\ f \in created[r]
  /\ over' = over \cup {f.mission}
  /\ UNCHANGED <<created, told, agentVars>>

Tell(r, f) ==
  /\ f \in created[r]
  /\ told' = [told EXCEPT ![r] = @ \cup {f}]
  /\ UNCHANGED <<created, over, agentVars>>

-----------------------------------------------------------------------------
\* The errands of those who are at home come and go.
Turn ==
  /\ UNCHANGED <<missionVars, way, holder>>
  /\ errand' \in [Messengers -> SUBSET Attempts]
  /\ \A m \in Messengers : way[m] # "home" => errand'[m] = errand[m]

Goes(m, from, to) ==
  /\ way[m] = from
  /\ way' = [way EXCEPT ![m] = to]
  /\ UNCHANGED <<missionVars, errand>>

\* Means are given to one who has an errand.
Equip(m) ==
  /\ errand[m] # {}
  /\ Goes(m, "home", "equipped")
  /\ UNCHANGED holder

Hold(m, a) ==
  /\ a \in errand[m]
  /\ holder[a] = Nobody
  /\ holder' = [holder EXCEPT ![a] = m]
  /\ Goes(m, "equipped", "holding")

Ask(m) == Goes(m, "holding", "asking") /\ UNCHANGED holder

\* The agent is at work, and stays.
Start(m) == Goes(m, "asking", "working") /\ UNCHANGED holder

\* Who turns back gives everything back, and takes from nobody else.
TurnBack(m) ==
  /\ \E from \in {"equipped", "holding", "asking"} : Goes(m, from, "home")
  /\ holder' = [a \in Attempts |-> IF holder[a] = m THEN Nobody ELSE holder[a]]

\* Everything but the missions and what was told of them is forgotten.
Restart ==
  /\ errand' = [m \in Messengers |-> {}]
  /\ way' = [m \in Messengers |-> "home"]
  /\ holder' = [a \in Attempts |-> Nobody]
  /\ UNCHANGED missionVars

Next ==
  \/ Turn
  \/ \E m \in Messengers :
       \/ Equip(m) \/ Ask(m) \/ Start(m) \/ TurnBack(m)
       \/ \E a \in Attempts : Hold(m, a)
  \/ \E r \in Requests, f \in Facts : Create(r, f) \/ End(r, f) \/ Tell(r, f)
  \/ Restart

Spec == Init /\ [][Next]_vars
=============================================================================
