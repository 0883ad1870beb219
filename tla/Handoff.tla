------------------------------ MODULE Handoff ------------------------------
(***************************************************************************)
(* What the router promises to those who write in Slack: a message goes on *)
(* record once, and what it needs is recorded with it; a thread belongs to *)
(* one agent for good, and that agent alone works on its messages, once    *)
(* each; a message that waits at a desk is taken up before it is worked on *)
(* and its plan is not forgotten; it is answered once at most, or given    *)
(* the receipt of the desk as often as it is asked for, and never both;    *)
(* what opens a thread in earnest is not forgotten by its sender before it *)
(* is on record, nor refused; and no start is announced after an end.      *)
(***************************************************************************)
EXTENDS Naturals

CONSTANTS
  Messages,
  Threads,
  Agents,
  Nobody,  \* a thread that belongs to no agent
  Desks    \* the agents whose messages wait to be taken up

VARIABLES
  text,       \* the thread of each message, whether it opens it, and is in earnest
  belongs,    \* the agent of each thread
  recorded,   \* the messages on record
  stage,      \* the way of each message over a desk
  unplanned,  \* the messages that still need a plan
  works,      \* how often each agent has worked on each message
  answers,    \* how many answers each message got
  receipts,   \* how often the receipt for it was given
  refusals,   \* how often it was refused
  told,       \* the messages that the sender may forget
  notice      \* the last thing announced about each message

vars == <<text, belongs, recorded, stage, unplanned, works, answers, receipts, refusals,
          told, notice>>
replyVars == <<answers, receipts, refusals>>

Init ==
  /\ text \in [Messages -> [thread : Threads, opens : BOOLEAN, proper : BOOLEAN]]
  /\ belongs = [t \in Threads |-> Nobody]
  /\ recorded = {}
  /\ stage = [m \in Messages |-> "out"]
  /\ unplanned = {}
  /\ works = [m \in Messages |-> [a \in Agents |-> 0]]
  /\ answers = [m \in Messages |-> 0]
  /\ receipts = [m \in Messages |-> 0]
  /\ refusals = [m \in Messages |-> 0]
  /\ told = {}
  /\ notice = [m \in Messages |-> "nothing"]

Agent(m) == belongs[text[m].thread]

\* Who gets a message: only the one that opens a thread brings it an agent.
GoesTo(m, agent) == IF text[m].opens /\ Agent(m) = Nobody THEN agent ELSE Agent(m)

\* The agent of the thread, the record and the place at the desk come together,
\* and a message that opens a thread is never without its place.
Record(m, agent) ==
  LET to == GoesTo(m, agent) IN
  /\ m \notin recorded
  /\ recorded' = recorded \cup {m}
  /\ belongs' = [belongs EXCEPT ![text[m].thread] = to]
  /\ \/ /\ to \in Desks
        /\ stage' = [stage EXCEPT ![m] = "waiting"]
        /\ unplanned' \in {unplanned, unplanned \cup {m}}
     \/ /\ ~ (text[m].opens /\ to \in Desks)
        /\ UNCHANGED <<stage, unplanned>>
  /\ UNCHANGED <<text, works, replyVars, told, notice>>

\* A plan is made, or not needed any more.
Plan(m) ==
  /\ unplanned' = unplanned \ {m}
  /\ UNCHANGED <<text, belongs, recorded, stage, works, replyVars, told, notice>>

Take(m) ==
  /\ stage[m] = "waiting"
  /\ stage' = [stage EXCEPT ![m] = "taken"]
  /\ UNCHANGED <<text, belongs, recorded, unplanned, works, replyVars, told, notice>>

Close(m) ==
  /\ stage[m] = "taken"
  /\ m \notin unplanned
  /\ stage' = [stage EXCEPT ![m] = "closed"]
  /\ UNCHANGED <<text, belongs, recorded, unplanned, works, replyVars, told, notice>>

\* Nobody has worked on the message yet, and its place at a desk is still open.
Work(m, a) ==
  /\ m \in recorded
  /\ Agent(m) = a
  /\ a \in Desks => stage[m] = "taken"
  /\ \A b \in Agents : works[m][b] = 0
  /\ works' = [works EXCEPT ![m][a] = 1]
  /\ UNCHANGED <<text, belongs, recorded, stage, unplanned, replyVars, told, notice>>

\* A message that opens a thread in earnest.
Opening(m) == text[m].opens /\ text[m].proper

Tell(m) ==
  /\ Opening(m) => m \in recorded
  /\ told' = told \cup {m}
  /\ UNCHANGED <<text, belongs, recorded, stage, unplanned, works, replyVars, notice>>

Answer(m) ==
  /\ m \in recorded
  /\ answers[m] = 0 /\ receipts[m] = 0
  /\ answers' = [answers EXCEPT ![m] = 1]
  /\ UNCHANGED <<text, belongs, recorded, stage, unplanned, works, receipts, refusals, told,
                 notice>>

\* The message has its place at a desk; nobody else has worked on it.
Receipt(m) ==
  /\ m \in recorded /\ stage[m] # "out"
  /\ answers[m] = 0 /\ \A a \in Agents \ Desks : works[m][a] = 0
  /\ receipts' = [receipts EXCEPT ![m] = @ + 1]
  /\ UNCHANGED <<text, belongs, recorded, stage, unplanned, works, answers, refusals, told,
                 notice>>

Refuse(m) ==
  /\ ~ Opening(m)
  /\ refusals' = [refusals EXCEPT ![m] = @ + 1]
  /\ UNCHANGED <<text, belongs, recorded, stage, unplanned, works, answers, receipts, told,
                 notice>>

Announce(m, what) ==
  /\ IF what = "final" THEN stage[m] = "closed" ELSE notice[m] # "final"
  /\ notice' = [notice EXCEPT ![m] = what]
  /\ UNCHANGED <<text, belongs, recorded, stage, unplanned, works, replyVars, told>>

Next ==
  \E m \in Messages :
    \/ \E a \in Agents : Record(m, a) \/ Work(m, a)
    \/ Plan(m) \/ Take(m) \/ Close(m)
    \/ Tell(m) \/ Answer(m) \/ Receipt(m) \/ Refuse(m)
    \/ \E what \in {"start", "final"} : Announce(m, what)

Spec == Init /\ [][Next]_vars
=============================================================================
