----------------------------- MODULE GatewayInbox -----------------------------
(***************************************************************************)
(* The inbox of the Hermes and Ana gateways: the rows of                   *)
(* slack_gateway_inbox, the two routes that consumers call                 *)
(* (src/src/api/gateway-inbox.ts) and the consumers themselves             *)
(* (src/infra/scripts/gateway-inbox-consumer.py).                          *)
(*                                                                         *)
(* An item and the V2 mission admitted with it are named by the Slack      *)
(* event they come from (both columns are unique).  A claim is one         *)
(* transaction.  The completion of a planned (V2) item is four: between    *)
(* two of them operators act on the mission, the consumer gives up or the  *)
(* API is restarted.  A consumer handles one item at a time and never      *)
(* repeats a call; a call whose answer it does not wait for any longer     *)
(* goes on in the API.                                                     *)
(***************************************************************************)
EXTENDS Naturals

CONSTANTS
  Events,     \* Slack events
  NoEvent,    \* a consumer holds no item
  Consumers,  \* running consumers
  NoConsumer, \* nobody claimed the item
  TargetOf,   \* GATEWAY_INBOX_TARGET of each consumer
  Planners    \* the consumers with the planner token and V2 planning enabled

ASSUME InboxAssumption ==
  /\ NoEvent \notin Events
  /\ NoConsumer \notin Consumers
  /\ Planners \subseteq Consumers
  /\ TargetOf \in [Consumers -> {"hermes", "ana"}]
  /\ \A c \in Planners : TargetOf[c] = "hermes"

VARIABLES
  lifecycle, planVersion, current, dependencies,  \* the V2 missions
  item,       \* the row of each event
  claimer,    \* who claimed it
  consumer,   \* what each consumer does, with which item
  call,       \* how far the API is with the completion of an item
  hermesRuns  \* how often the model was run for the item

Store == INSTANCE MissionStore WITH
  Missions <- Events, Attempts <- {}, NoAttempt <- "none",
  Heads <- {}, NoHead <- "none", Plans <- {{}}, MaxPlans <- 1

missionVars == <<lifecycle, planVersion, current, dependencies>>
inboxVars == <<missionVars, item, claimer, consumer, call, hermesRuns>>

-----------------------------------------------------------------------------
Ended == {"done", "failed", "timeout", "cancelled"}
Statuses == {"none", "pending", "processing"} \cup Ended

Item ==
  [status : Statuses, target : {"hermes", "ana"}, version : {1, 2},
   mode : {"sync", "async"}, started : BOOLEAN, notified : BOOLEAN]

NewItem(target, version, mode) ==
  [status |-> "pending", target |-> target, version |-> version, mode |-> mode,
   started |-> FALSE, notified |-> FALSE]

NoItem == [NewItem("hermes", 1, "sync") EXCEPT !.status = "none"]

Consumer == [pc : {"idle", "claimed", "ran"}, item : Events \cup {NoEvent}]
Idle == [pc |-> "idle", item |-> NoEvent]

\* What a call brings, then what is left of the completion of a plan.
Outcomes == {"answer", "plan", "error", "timeout"}
Calls == {"none"} \cup Outcomes \cup {"start", "save", "close", "block", "fail"}

InboxInit ==
  /\ Store!StoreInit
  /\ item = [e \in Events |-> NoItem]
  /\ claimer = [e \in Events |-> NoConsumer]
  /\ consumer = [c \in Consumers |-> Idle]
  /\ call = [e \in Events |-> "none"]
  /\ hermesRuns = [e \in Events |-> 0]

-----------------------------------------------------------------------------
(* Consumers *)

\* Mutant: the query forgets the status of the row.
ClaimableTaken(c, e) ==
  /\ item[e].status \in {"pending", "processing"}
  /\ item[e].target = TargetOf[c]
  /\ item[e].version = 2 => c \in Planners

\* POST /claim: a pending row for the target, V2 rows for planners only.
Claimable(c, e) ==
  /\ item[e].status = "pending"
  /\ item[e].target = TargetOf[c]
  /\ item[e].version = 2 => c \in Planners

\* The response may be lost: the item is then claimed and nobody works on it.
Claim(c, e) ==
  /\ consumer[c] = Idle
  /\ Claimable(c, e)
  /\ item' = [item EXCEPT ![e].status = "processing"]
  /\ claimer' = [claimer EXCEPT ![e] = c]
  /\ \/ consumer' = [consumer EXCEPT ![c] = [pc |-> "claimed", item |-> e]]
     \/ UNCHANGED consumer
  /\ UNCHANGED <<missionVars, call, hermesRuns>>

RunHermes(c) ==
  /\ consumer[c].pc = "claimed"
  /\ consumer' = [consumer EXCEPT ![c].pc = "ran"]
  /\ hermesRuns' = [hermesRuns EXCEPT ![consumer[c].item] = @ + 1]
  /\ UNCHANGED <<missionVars, item, claimer, call>>

\* What a consumer may report: an error when it was told to stop before or
\* after the run, or when the run or the reading of its plan failed.
Reports(c) ==
  CASE consumer[c].pc = "claimed" -> {"error"}
    [] consumer[c].pc = "ran" ->
         {"error", "timeout", IF item[consumer[c].item].version = 2
                              THEN "plan" ELSE "answer"}
    [] OTHER -> {}

\* POST /:id/complete leaves the consumer, which takes up the next item when
\* the answer or the end of its patience comes.
Report(c, outcome) ==
  /\ outcome \in Reports(c)
  /\ call' = [call EXCEPT ![consumer[c].item] = outcome]
  /\ consumer' = [consumer EXCEPT ![c] = Idle]
  /\ UNCHANGED <<missionVars, item, claimer, hermesRuns>>

\* The consumer dies, or its call does not reach the API.
GiveUp(c) ==
  /\ consumer[c] # Idle
  /\ consumer' = [consumer EXCEPT ![c] = Idle]
  /\ UNCHANGED <<missionVars, item, claimer, call, hermesRuns>>

-----------------------------------------------------------------------------
(* POST /:id/complete *)

Processing(e) == item[e].status = "processing"

\* An UPDATE that only takes a row in status processing.
Close(e, status) ==
  item' = IF Processing(e) THEN [item EXCEPT ![e].status = status] ELSE item

Goes(e, step) == call' = [call EXCEPT ![e] = step]

Refused(e) ==
  \/ item[e].version = 1 /\ claimer[e] \in Planners
  \/ item[e].version = 2 /\ (claimer[e] \notin Planners \/ ~ Processing(e))

Refuse(e) ==
  /\ call[e] \in Outcomes
  /\ Refused(e)
  /\ Goes(e, "none")
  /\ UNCHANGED <<missionVars, item, claimer, consumer, hermesRuns>>

StatusFor(outcome) ==
  CASE outcome = "answer" -> "done" [] outcome = "timeout" -> "timeout" [] OTHER -> "failed"

CompleteV1(e) ==
  /\ call[e] \in Outcomes
  /\ item[e].version = 1 /\ ~ Refused(e)
  /\ Close(e, StatusFor(call[e]))
  /\ Goes(e, "none")
  /\ UNCHANGED <<missionVars, claimer, consumer, hermesRuns>>

\* Mutant: the item is closed first, and the mission is planned afterwards.
CompleteV2Early(e) ==
  /\ call[e] \in Outcomes
  /\ item[e].version = 2 /\ ~ Refused(e)
  /\ Goes(e, IF call[e] = "plan"
             THEN CASE lifecycle[e] = "queued" -> "start"
                    [] lifecycle[e] = "planning" -> "save"
                    [] OTHER -> "close"
             ELSE IF lifecycle[e] \in {"queued", "planning"} THEN "block" ELSE "fail")
  /\ Close(e, IF call[e] = "plan" THEN "done" ELSE "failed")
  /\ UNCHANGED <<missionVars, claimer, consumer, hermesRuns>>

\* The mission is read and decides what is left to do.
CompleteV2(e) ==
  /\ call[e] \in Outcomes
  /\ item[e].version = 2 /\ ~ Refused(e)
  /\ Goes(e, IF call[e] = "plan"
             THEN CASE lifecycle[e] = "queued" -> "start"
                    [] lifecycle[e] = "planning" -> "save"
                    [] OTHER -> "close"
             ELSE IF lifecycle[e] \in {"queued", "planning"} THEN "block" ELSE "fail")
  /\ UNCHANGED <<missionVars, item, claimer, consumer, hermesRuns>>

StartPlanning(e) ==
  /\ call[e] = "start"
  /\ Store!Transition(e, "planning")
  /\ Goes(e, "save")
  /\ UNCHANGED <<item, claimer, consumer, hermesRuns>>

SaveTypedPlan(e) ==
  /\ call[e] = "save"
  /\ Store!SavePlan(e, {})
  /\ Goes(e, "close")
  /\ UNCHANGED <<item, claimer, consumer, hermesRuns>>

BlockMission(e) ==
  /\ call[e] = "block"
  /\ Store!Transition(e, "blocked")
  /\ Goes(e, "fail")
  /\ UNCHANGED <<item, claimer, consumer, hermesRuns>>

CloseV2(e) ==
  /\ call[e] \in {"close", "fail"}
  /\ Close(e, IF call[e] = "close" THEN "done" ELSE "failed")
  /\ Goes(e, "none")
  /\ UNCHANGED <<missionVars, claimer, consumer, hermesRuns>>

\* The mission has moved since it was read (the transaction answers with an
\* error), or the API is restarted: what is left is not done.
Abandon(e) ==
  /\ call[e] # "none"
  /\ Goes(e, "none")
  /\ UNCHANGED <<missionVars, item, claimer, consumer, hermesRuns>>

Complete(e) ==
  \/ Refuse(e) \/ CompleteV1(e) \/ CompleteV2(e) \/ StartPlanning(e)
  \/ SaveTypedPlan(e) \/ BlockMission(e) \/ CloseV2(e)

\* Operators on the mission: CANCEL in Slack or over HTTP, and transitions.
Operator(e) ==
  /\ Store!Cancel(e) \/ \E to \in Store!States : Store!Transition(e, to)
  /\ UNCHANGED <<item, claimer, consumer, call, hermesRuns>>

Serve(c) ==
  \/ \E e \in Events : Claim(c, e)
  \/ RunHermes(c)
  \/ \E outcome \in Outcomes : Report(c, outcome)

InboxNext ==
  \/ \E c \in Consumers : Serve(c) \/ GiveUp(c)
  \/ \E e \in Events : Complete(e) \/ Abandon(e) \/ Operator(e)

-----------------------------------------------------------------------------
InboxTypeOK ==
  /\ lifecycle \in [Events -> Store!States]
  /\ planVersion \in [Events -> Nat]
  /\ current = [e \in Events |-> "none"]
  /\ dependencies = {}
  /\ item \in [Events -> Item]
  /\ claimer \in [Events -> Consumers \cup {NoConsumer}]
  /\ consumer \in [Consumers -> Consumer]
  /\ call \in [Events -> Calls]
  /\ hermesRuns \in [Events -> Nat]

\* An item is closed only after its mission has left the queue: a crash or a
\* refusal between the transactions of /complete may leave an item that looks
\* unfinished, but never a queued mission that no item will ever plan.
ClosedItemLeavesQueue ==
  \A e \in Events :
    item[e].version = 2 /\ item[e].status \in Ended => lifecycle[e] # "queued"

\* 'refuse toute revendication V1 au token planner': the identity that plans V2
\* missions never takes a V1 message, whose completion it would be refused.
PlannerTakesV2Only ==
  \A e \in Events : claimer[e] \in Planners => item[e].version = 2
=============================================================================
