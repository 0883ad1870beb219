------------------------------ MODULE Consent ------------------------------
(***************************************************************************)
(* What the V1 actions promise to those who decide on them: each action is *)
(* decided on once, by somebody else than its proposer if it is approved;  *)
(* what it does to the world it does after that approval, and once; a      *)
(* mission goes out once and only with consent; whatever was moved for it  *)
(* can be taken back; and who asks to be left alone is left alone.         *)
(***************************************************************************)
EXTENDS Naturals

CONSTANTS
  Things,    \* what is proposed
  People,    \* who may decide
  Proposer,  \* who proposed each thing
  Items      \* what may be moved on behalf of a thing

VARIABLES
  decisions,  \* what was decided, and by whom
  done,       \* how often each thing had its effect
  away,       \* the items moved on behalf of each thing
  mission,    \* where the mission of each thing is: home, out, over
  barred      \* things that may have no effect any more

vars == <<decisions, done, away, mission, barred>>

Init ==
  /\ decisions = {}
  /\ done = [t \in Things |-> 0]
  /\ away = [t \in Things |-> {}]
  /\ mission = [t \in Things |-> "home"]
  /\ barred = {}

Undecided(t) == \A d \in decisions : d.thing # t

Granted(t) ==
  \E d \in decisions : d.thing = t /\ d.decision = "approved" /\ d.by # Proposer[t]

\* The one effect of a thing, unless somebody asked for none.
Effect(t) ==
  /\ t \notin barred
  /\ done[t] = 0
  /\ done' = [done EXCEPT ![t] = 1]

Decision(t, what, who) == [thing |-> t, decision |-> what, by |-> who]

\* Somebody else than the proposer consents.  An effect that needs nothing but
\* the consent may come with it.
Approve(t, who) ==
  /\ Undecided(t)
  /\ who # Proposer[t]
  /\ decisions' = decisions \cup {Decision(t, "approved", who)}
  /\ UNCHANGED done \/ Effect(t)
  /\ UNCHANGED <<away, mission, barred>>

Refuse(t, who) ==
  /\ Undecided(t)
  /\ decisions' = decisions \cup {Decision(t, "rejected", who)}
  /\ UNCHANGED <<done, away, mission, barred>>

Perform(t) ==
  /\ Granted(t)
  /\ Effect(t)
  /\ UNCHANGED <<decisions, away, mission, barred>>

Move(t, i) ==
  /\ Granted(t)
  /\ away' = [away EXCEPT ![t] = @ \cup {i}]
  /\ UNCHANGED <<decisions, done, mission, barred>>

TakeBack(t, i) ==
  /\ away' = [away EXCEPT ![t] = @ \ {i}]
  /\ UNCHANGED <<decisions, done, mission, barred>>

GoOut(t) ==
  /\ Granted(t)
  /\ mission[t] = "home"
  /\ mission' = [mission EXCEPT ![t] = "out"]
  /\ UNCHANGED <<decisions, done, away, barred>>

\* The mission is over, whether or not it ever went out.
ComeBack(t) ==
  /\ mission[t] # "over"
  /\ mission' = [mission EXCEPT ![t] = "over"]
  /\ UNCHANGED <<decisions, done, away, barred>>

Bar(t) ==
  /\ barred' = barred \cup {t}
  /\ UNCHANGED <<decisions, done, away, mission>>

Next ==
  \E t \in Things :
    \/ \E who \in People : Approve(t, who) \/ Refuse(t, who)
    \/ Perform(t) \/ GoOut(t) \/ ComeBack(t) \/ Bar(t)
    \/ \E i \in Items : Move(t, i) \/ TakeBack(t, i)

Spec == Init /\ [][Next]_vars
=============================================================================
