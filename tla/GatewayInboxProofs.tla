------------------------- MODULE GatewayInboxProofs -------------------------
(***************************************************************************)
(* What every operation of the inbox preserves, for every set of events    *)
(* and consumers: the part of the invariant of SlackRouter that is about   *)
(* GatewayInbox, what the router may rely on, and that a step moves one    *)
(* item by one stage.                                                      *)
(***************************************************************************)
EXTENDS GatewayInbox, TLAPS

-----------------------------------------------------------------------------
(* The inductive invariant of the inbox.                                   *)

\* A consumer is busy with an event or with none.
ConsumerAgrees(c) == consumer[c].pc = "idle" <=> consumer[c].item = NoEvent

\* An item that nobody claimed yet, or that does not exist.
Untouched(e) == hermesRuns[e] = 0 /\ \A c \in Consumers : consumer[c].item # e

ItemAgrees(e) ==
  /\ item[e].status = "none" => Untouched(e) /\ lifecycle[e] = "absent" /\ call[e] = "none"
  /\ item[e].status = "pending" => Untouched(e) /\ call[e] = "none"
  /\ \A c \in Consumers : consumer[c].item = e => item[e].status = "processing" /\ call[e] = "none"
  /\ hermesRuns[e] <= 1
  /\ \A c \in Consumers :
       consumer[c].item = e /\ consumer[c].pc = "claimed" => hermesRuns[e] = 0
  /\ \A c, d \in Consumers : consumer[c].item = e /\ consumer[d].item = e => c = d
  /\ call[e] \in {"start", "save", "close", "block", "fail"} => item[e].version = 2
  /\ call[e] \in {"close", "fail"} => lifecycle[e] # "queued"
  /\ item[e].version = 2 /\ item[e].status \in Ended => lifecycle[e] # "queued"

InboxAgrees ==
  /\ \A c \in Consumers : ConsumerAgrees(c)
  /\ \A e \in Events : ItemAgrees(e)

\* What the gateways and the API may do to the items of the router.
ItemsGoOn ==
  \A e \in Events :
    /\ item'[e].status = "none" <=> item[e].status = "none"
    /\ item'[e].target = item[e].target /\ item'[e].version = item[e].version
    /\ item'[e].mode = item[e].mode
    /\ item[e].status \in Ended => item'[e].status = item[e].status
    /\ item[e].status = "none" => hermesRuns'[e] = hermesRuns[e]
    /\ lifecycle'[e] = "absent" <=> lifecycle[e] = "absent"

-----------------------------------------------------------------------------
(* The inbox: types.                                                       *)

LEMMA ItemTypes ==
  ASSUME NEW o \in {"hermes", "ana"}, NEW v \in {1, 2}, NEW m \in {"sync", "async"}
  PROVE  NewItem(o, v, m) \in Item /\ NoItem \in Item /\ Idle \in Consumer
  BY DEF NewItem, NoItem, Item, Statuses, Ended, Idle, Consumer

LEMMA InboxInitTypes == InboxInit => InboxTypeOK /\ InboxAgrees
<1> SUFFICES ASSUME InboxInit PROVE InboxTypeOK /\ InboxAgrees
  OBVIOUS
<1>1. NoItem \in Item /\ Idle \in Consumer /\ NoItem.status = "none" /\ NoItem.version = 1
      /\ Idle.pc = "idle" /\ Idle.item = NoEvent
  BY DEF NewItem, NoItem, Item, Statuses, Ended, Idle, Consumer
<1>2. InboxTypeOK
  BY <1>1 DEF InboxInit, InboxTypeOK, Store!StoreInit, Store!States, Calls
<1>3. InboxAgrees
  BY <1>1, InboxAssumption DEF InboxInit, InboxAgrees, ConsumerAgrees, ItemAgrees, Untouched,
     Store!StoreInit, Ended
<1> QED
  BY <1>2, <1>3

\* A mission that is planned without dependencies stays without.
LEMMA StoreTypes ==
  ASSUME InboxTypeOK, NEW e \in Events,
         \/ \E to \in Store!States : Store!Transition(e, to)
         \/ Store!Cancel(e) \/ Store!SavePlan(e, {})
         \/ Store!Admit(e) \/ UNCHANGED missionVars
  PROVE  /\ lifecycle' \in [Events -> Store!States]
         /\ planVersion' \in [Events -> Nat]
         /\ current' = [x \in Events |-> "none"]
         /\ dependencies' = {}
         /\ \A x \in Events \ {e} : lifecycle'[x] = lifecycle[x]
<1>1. CASE \E to \in Store!States : Store!Transition(e, to)
  BY <1>1 DEF InboxTypeOK, Store!Transition
<1>2. CASE Store!Cancel(e)
  BY <1>2 DEF InboxTypeOK, Store!Cancel, Store!States
<1>3. CASE Store!SavePlan(e, {})
  <2>1. dependencies' = {}
    BY <1>3 DEF InboxTypeOK, Store!SavePlan, Store!PlanRows
  <2> QED
    BY <1>3, <2>1 DEF InboxTypeOK, Store!SavePlan, Store!States
<1>4. CASE Store!Admit(e)
  BY <1>4 DEF InboxTypeOK, Store!Admit, Store!States
<1>5. CASE UNCHANGED missionVars
  BY <1>5 DEF InboxTypeOK, missionVars
<1> QED
  BY <1>1, <1>2, <1>3, <1>4, <1>5

LEMMA ServeTypes ==
  ASSUME InboxTypeOK, InboxAgrees, NEW c \in Consumers, Serve(c) \/ GiveUp(c)
  PROVE  InboxTypeOK'
<1>0. UNCHANGED missionVars
  BY DEF Serve, GiveUp, Claim, RunHermes, Report
<1>1. UNCHANGED <<lifecycle, planVersion, current, dependencies>>
  BY <1>0 DEF missionVars
<1>2. consumer[c] \in Consumer /\ Idle \in Consumer
  BY DEF InboxTypeOK, Idle, Consumer
<1>3. CASE \E e \in Events : Claim(c, e)
  <2>1. PICK e \in Events : Claim(c, e)
    BY <1>3
  <2>a. item[e] \in Item
    BY DEF InboxTypeOK
  <2>2. [item[e] EXCEPT !.status = "processing"] \in Item
    BY <2>a DEF Item, Statuses
  <2>3. [pc |-> "claimed", item |-> e] \in Consumer
    BY DEF Consumer
  <2> QED
    BY <1>1, <2>1, <2>2, <2>3 DEF Claim, InboxTypeOK
<1>4. CASE RunHermes(c)
  <2>1. consumer[c].item \in Events
    BY <1>2, <1>4 DEF RunHermes, InboxAgrees, ConsumerAgrees, Consumer
  <2>2. [consumer[c] EXCEPT !.pc = "ran"] \in Consumer
    BY <1>2 DEF Consumer
  <2>3. hermesRuns' \in [Events -> Nat]
    BY <1>4, <2>1 DEF RunHermes, InboxTypeOK
  <2>4. consumer' \in [Consumers -> Consumer]
    BY <1>4, <2>2 DEF RunHermes, InboxTypeOK
  <2> QED
    BY <1>1, <1>4, <2>3, <2>4 DEF RunHermes, InboxTypeOK
<1>5. CASE \E outcome \in Outcomes : Report(c, outcome)
  <2>1. PICK outcome \in Outcomes : Report(c, outcome)
    BY <1>5
  <2>2. call' \in [Events -> Calls] /\ consumer' \in [Consumers -> Consumer]
    BY <1>2, <2>1 DEF Report, InboxTypeOK, Calls
  <2> QED
    BY <1>1, <2>1, <2>2 DEF Report, InboxTypeOK
<1>6. CASE GiveUp(c)
  BY <1>1, <1>2, <1>6 DEF GiveUp, InboxTypeOK
<1> QED
  BY <1>3, <1>4, <1>5, <1>6 DEF Serve

\* A completion, an abandoned one or an operator keeps the items and missions.
LEMMA CompleteTypes ==
  ASSUME InboxTypeOK, NEW e \in Events, Complete(e) \/ Abandon(e) \/ Operator(e)
  PROVE  InboxTypeOK'
<1>1. UNCHANGED <<claimer, consumer, hermesRuns>>
  BY DEF Complete, Refuse, CompleteV1, CompleteV2, StartPlanning, SaveTypedPlan, BlockMission,
     CloseV2, Abandon, Operator
<1>2. \/ \E to \in Store!States : Store!Transition(e, to)
      \/ Store!Cancel(e) \/ Store!SavePlan(e, {})
      \/ Store!Admit(e) \/ UNCHANGED missionVars
  <2>1. {"planning", "blocked"} \subseteq Store!States
    BY DEF Store!States
  <2> QED
    BY <2>1 DEF Complete, Refuse, CompleteV1, CompleteV2, StartPlanning, SaveTypedPlan,
       BlockMission, CloseV2, Abandon, Operator
<1>3. call' = call \/ \E step \in Calls : Goes(e, step)
  BY DEF Complete, Refuse, CompleteV1, CompleteV2, StartPlanning, SaveTypedPlan, BlockMission,
     CloseV2, Abandon, Operator, Calls
<1>4. call' \in [Events -> Calls]
  BY <1>3 DEF InboxTypeOK, Goes
<1>5. item' = item \/ \E status \in Statuses : Close(e, status)
  BY DEF Complete, Refuse, CompleteV1, CompleteV2, StartPlanning, SaveTypedPlan, BlockMission,
     CloseV2, Abandon, Operator, StatusFor, Statuses, Ended
<1>6. \A status \in Statuses : [item[e] EXCEPT !.status = status] \in Item
  BY DEF InboxTypeOK, Item
<1>7. item' \in [Events -> Item]
  BY <1>5, <1>6 DEF InboxTypeOK, Close
<1> QED
  BY <1>1, <1>2, <1>4, <1>7, StoreTypes DEF InboxTypeOK

-----------------------------------------------------------------------------
(* The inbox: items, missions and consumers.                               *)

LEMMA ServeAgrees ==
  ASSUME InboxTypeOK, InboxAgrees, NEW c \in Consumers, Serve(c) \/ GiveUp(c)
  PROVE  InboxAgrees' /\ ItemsGoOn
<1>0. /\ item \in [Events -> Item] /\ consumer \in [Consumers -> Consumer]
      /\ call \in [Events -> Calls] /\ hermesRuns \in [Events -> Nat]
      /\ NoEvent \notin Events
  BY InboxAssumption DEF InboxTypeOK
<1>1. UNCHANGED lifecycle
  BY DEF Serve, GiveUp, Claim, RunHermes, Report, missionVars
<1>2. ConsumerAgrees(c) /\ \A e \in Events : ItemAgrees(e)
  BY DEF InboxAgrees
<1>3. ASSUME \A d \in Consumers \ {c} : consumer'[d] = consumer[d], ConsumerAgrees(c)'
      PROVE  \A d \in Consumers : ConsumerAgrees(d)'
  BY <1>3 DEF InboxAgrees, ConsumerAgrees
<1>4. CASE \E e \in Events : Claim(c, e)
  <2>1. PICK e \in Events : Claim(c, e)
    BY <1>4
  <2>2. consumer[c].item = NoEvent /\ item[e].status = "pending"
    BY <2>1 DEF Claim, Claimable, Idle
  <2>3. /\ item'[e] = [item[e] EXCEPT !.status = "processing"]
        /\ \A x \in Events \ {e} : item'[x] = item[x]
    BY <1>0, <2>1 DEF Claim
  <2>4. item'[e].status = "processing" /\ item'[e].version = item[e].version
        /\ item'[e].target = item[e].target /\ item'[e].mode = item[e].mode
    BY <1>0, <2>3 DEF Item
  <2>5. /\ consumer'[c] = consumer[c] \/ consumer'[c] = [pc |-> "claimed", item |-> e]
        /\ \A d \in Consumers \ {c} : consumer'[d] = consumer[d]
    BY <1>0, <2>1 DEF Claim
  <2>6. ConsumerAgrees(c)'
    BY <1>0, <1>2, <2>5 DEF ConsumerAgrees
  <2>7. UNCHANGED <<call, hermesRuns>>
    BY <2>1 DEF Claim
  <2>8. ItemAgrees(e)'
    <3>1. Untouched(e)
      BY <1>2, <2>2 DEF ItemAgrees
    <3> QED
      BY <1>1, <1>2, <2>2, <2>4, <2>5, <2>7, <3>1 DEF ItemAgrees, Untouched, Ended
  <2>9. \A x \in Events \ {e} : ItemAgrees(x)'
    BY <1>1, <1>2, <2>3, <2>5, <2>7 DEF ItemAgrees, Untouched
  <2>10. ItemsGoOn
    BY <1>1, <2>2, <2>3, <2>4, <2>7 DEF ItemsGoOn, Ended
  <2> QED
    BY <1>3, <2>5, <2>6, <2>8, <2>9, <2>10 DEF InboxAgrees
<1>5. CASE RunHermes(c)
  <2>0. consumer[c].pc = "claimed" /\ consumer[c].item \in Events
    BY <1>0, <1>2, <1>5 DEF RunHermes, ConsumerAgrees, Consumer
  <2>1. PICK e \in Events : consumer[c].item = e /\ hermesRuns[e] = 0
    BY <1>2, <2>0 DEF ItemAgrees
  <2>2. /\ consumer'[c] = [consumer[c] EXCEPT !.pc = "ran"]
        /\ \A d \in Consumers \ {c} : consumer'[d] = consumer[d]
    BY <1>0, <1>5 DEF RunHermes
  <2>3. consumer'[c].pc = "ran" /\ consumer'[c].item = e
    BY <1>0, <2>1, <2>2 DEF Consumer
  <2>4. ConsumerAgrees(c)'
    BY <1>0, <2>1, <2>3 DEF ConsumerAgrees
  <2>5. hermesRuns'[e] = 1 /\ \A x \in Events \ {e} : hermesRuns'[x] = hermesRuns[x]
    BY <1>0, <1>5, <2>1 DEF RunHermes
  <2>6. UNCHANGED <<item, call>>
    BY <1>5 DEF RunHermes
  <2>7. item[e].status \notin {"none", "pending"}
    BY <1>2, <2>1 DEF ItemAgrees, Untouched
  <2>8. \A d \in Consumers :
          /\ consumer'[d].item = consumer[d].item
          /\ consumer'[d].pc = "claimed" => consumer[d].pc = "claimed" /\ d # c
    BY <2>1, <2>2, <2>3
  <2>9. ASSUME NEW x \in Events PROVE ItemAgrees(x)'
    <3>1. ItemAgrees(x) /\ consumer[c].item = e
      BY <1>2, <2>1
    <3>2. CASE x = e
      <4>1. hermesRuns'[x] = 1 /\ item'[x] = item[x] /\ item[x].status \notin {"none", "pending"}
        BY <2>5, <2>6, <2>7, <3>2
      <4>2. \A d \in Consumers : consumer'[d].item = x => consumer'[d].pc # "claimed"
        BY <2>8, <3>1, <3>2 DEF ItemAgrees
      <4> QED
        BY <1>1, <2>6, <2>8, <3>1, <4>1, <4>2 DEF ItemAgrees
    <3>3. CASE x # e
      BY <1>1, <2>5, <2>6, <2>8, <3>1, <3>3 DEF ItemAgrees, Untouched
    <3> QED
      BY <3>2, <3>3
  <2>10. ItemsGoOn
    BY <1>1, <2>5, <2>6, <2>7 DEF ItemsGoOn
  <2> QED
    BY <1>3, <2>2, <2>4, <2>9, <2>10 DEF InboxAgrees
<1>6. CASE (\E outcome \in Outcomes : Report(c, outcome)) \/ GiveUp(c)
  <2>1. /\ consumer'[c] = Idle
        /\ \A d \in Consumers \ {c} : consumer'[d] = consumer[d]
    BY <1>0, <1>6 DEF Report, GiveUp
  <2>2. ConsumerAgrees(c)' /\ consumer'[c].item = NoEvent /\ consumer'[c].pc = "idle"
    BY <2>1 DEF ConsumerAgrees, Idle
  <2>3. UNCHANGED <<item, hermesRuns>>
    BY <1>6 DEF Report, GiveUp
  <2>4. \A x \in Events :
          call'[x] = call[x] \/ (call'[x] \in Outcomes /\ x = consumer[c].item)
    <3>1. CASE \E outcome \in Outcomes : Report(c, outcome)
      <4>1. PICK outcome \in Outcomes : Report(c, outcome)
        BY <3>1
      <4> QED
        BY <1>0, <4>1 DEF Report
    <3> QED
      BY <1>6, <3>1 DEF GiveUp
  <2>5. ASSUME NEW x \in Events PROVE ItemAgrees(x)'
    <3>1. item[x].status = "none" => call'[x] = "none"
      BY <1>2, <2>4 DEF ItemAgrees, Untouched
    <3>2. call'[x] = call[x] \/ call'[x] \notin {"start", "save", "close", "block", "fail"}
      BY <2>4 DEF Outcomes
    <3>3. \A d \in Consumers :
            consumer'[d].item = x => d # c /\ consumer[d].item = x /\ call'[x] = call[x]
      BY <1>0, <1>2, <2>1, <2>2, <2>4 DEF ItemAgrees
    <3> QED
      BY <1>0, <1>1, <1>2, <2>1, <2>2, <2>3, <2>4, <3>1, <3>2, <3>3 DEF ItemAgrees, Untouched
  <2>6. ItemsGoOn
    BY <1>1, <2>3 DEF ItemsGoOn
  <2> QED
    BY <1>3, <2>1, <2>2, <2>5, <2>6 DEF InboxAgrees
<1> QED
  BY <1>4, <1>5, <1>6 DEF Serve

LEMMA CompleteAgrees ==
  ASSUME InboxTypeOK, InboxAgrees, NEW e \in Events, Complete(e) \/ Abandon(e) \/ Operator(e)
  PROVE  InboxAgrees' /\ ItemsGoOn
<1>0. /\ item \in [Events -> Item] /\ call \in [Events -> Calls]
      /\ lifecycle \in [Events -> Store!States]
  BY DEF InboxTypeOK
<1>1. UNCHANGED <<consumer, hermesRuns>>
  BY DEF Complete, Refuse, CompleteV1, CompleteV2, StartPlanning, SaveTypedPlan, BlockMission,
     CloseV2, Abandon, Operator
<1>2. \A x \in Events \ {e} : lifecycle'[x] = lifecycle[x] /\ item'[x] = item[x] /\ call'[x] = call[x]
  BY <1>0 DEF Complete, Refuse, CompleteV1, CompleteV2, StartPlanning, SaveTypedPlan,
     BlockMission, CloseV2, Abandon, Operator, Goes, Close, missionVars,
     Store!Transition, Store!Cancel, Store!SavePlan
<1>3. ItemAgrees(e)
  BY DEF InboxAgrees
<1>4. lifecycle[e] # "queued" => lifecycle'[e] # "queued"
  BY <1>0 DEF Complete, Refuse, CompleteV1, CompleteV2, StartPlanning, SaveTypedPlan,
     BlockMission, CloseV2, Abandon, Operator, missionVars, Store!FoundationTransitions,
     Store!Transition, Store!Cancel, Store!SavePlan
<1>5. lifecycle[e] = "absent" <=> lifecycle'[e] = "absent"
  BY <1>0 DEF Complete, Refuse, CompleteV1, CompleteV2, StartPlanning, SaveTypedPlan,
     BlockMission, CloseV2, Abandon, Operator, missionVars, Store!FoundationTransitions,
     Store!Transition, Store!Cancel, Store!SavePlan
<1>6. /\ item'[e].target = item[e].target /\ item'[e].version = item[e].version
      /\ item'[e].mode = item[e].mode
      /\ \/ item'[e] = item[e]
         \/ /\ item[e].status = "processing" /\ item'[e].status \in Ended
            /\ \/ call[e] \in Outcomes /\ item[e].version = 1
               \/ call[e] \in {"close", "fail"} /\ UNCHANGED lifecycle
  <2>1. item' = item
        \/ /\ \E status \in Ended : Close(e, status)
           /\ \/ call[e] \in Outcomes /\ item[e].version = 1
              \/ call[e] \in {"close", "fail"} /\ UNCHANGED lifecycle
    BY DEF Complete, Refuse, CompleteV1, CompleteV2, StartPlanning, SaveTypedPlan,
       BlockMission, CloseV2, Abandon, Operator, StatusFor, Ended, missionVars
  <2>2. \A status \in Ended : Close(e, status) =>
          \/ item' = item
          \/ item[e].status = "processing" /\ item'[e] = [item[e] EXCEPT !.status = status]
    BY <1>0 DEF Close, Processing
  <2> QED
    BY <1>0, <2>1, <2>2 DEF Item
<1>7. /\ call'[e] \in {"start", "save", "close", "block", "fail"} => item[e].version = 2
      /\ call'[e] \in {"close", "fail"} => lifecycle'[e] # "queued"
      /\ call[e] = "none" => call'[e] = "none"
  <2>1. CASE Refuse(e) \/ CompleteV1(e) \/ CloseV2(e) \/ Abandon(e)
    BY <1>0, <2>1 DEF Refuse, CompleteV1, CloseV2, Abandon, Goes
  <2>2. CASE CompleteV2(e)
    BY <1>0, <2>2 DEF CompleteV2, Goes, Outcomes, missionVars
  <2>3. CASE StartPlanning(e) \/ SaveTypedPlan(e)
    BY <1>0, <1>3, <2>3 DEF StartPlanning, SaveTypedPlan, Goes, ItemAgrees, Store!SavePlan
  <2>4. CASE BlockMission(e)
    BY <1>0, <1>3, <2>4 DEF BlockMission, Goes, ItemAgrees, Store!Transition
  <2>5. CASE Operator(e)
    BY <1>3, <1>4, <2>5 DEF Operator, ItemAgrees
  <2> QED
    BY <2>1, <2>2, <2>3, <2>4, <2>5 DEF Complete
<1>8. ItemAgrees(e)'
  <2>1. CASE item'[e] = item[e]
    BY <1>1, <1>3, <1>4, <1>5, <1>7, <2>1 DEF ItemAgrees, Untouched
  <2>2. CASE item'[e] # item[e]
    BY <1>1, <1>3, <1>4, <1>6, <1>7, <2>2 DEF ItemAgrees, Untouched, Ended, Outcomes
  <2> QED
    BY <2>1, <2>2
<1>9. \A x \in Events \ {e} : ItemAgrees(x)'
  BY <1>1, <1>2 DEF InboxAgrees, ItemAgrees, Untouched
<1>10. ItemsGoOn
  BY <1>1, <1>2, <1>5, <1>6 DEF ItemsGoOn, Ended
<1>11. \A c \in Consumers : ConsumerAgrees(c)'
  BY <1>1 DEF InboxAgrees, ConsumerAgrees
<1> QED
  BY <1>8, <1>9, <1>10, <1>11 DEF InboxAgrees

\* What happens in the inbox on its own keeps its types and its invariant, and
\* does to an item what the router may rely on.
LEMMA InboxStep ==
  ASSUME InboxTypeOK, InboxAgrees, InboxNext
  PROVE  InboxTypeOK' /\ InboxAgrees' /\ ItemsGoOn
  BY ServeTypes, ServeAgrees, CompleteTypes, CompleteAgrees DEF InboxNext

-----------------------------------------------------------------------------
(* What a step of the inbox does to the one item it is about. *)

\* Nothing that others see of the item changes.
Rests(e) ==
  /\ item'[e].status = item[e].status
  /\ hermesRuns'[e] = hermesRuns[e]
  /\ lifecycle'[e] = lifecycle[e]

IsTaken(e) ==
  /\ item[e].status = "pending" /\ item'[e].status = "processing"
  /\ hermesRuns'[e] = hermesRuns[e] /\ lifecycle'[e] = lifecycle[e]

IsRun(e) ==
  /\ hermesRuns[e] = 0 /\ hermesRuns'[e] = 1
  /\ item[e].status = "processing" /\ item'[e].status = item[e].status
  /\ lifecycle'[e] = lifecycle[e]

IsClosed(e) ==
  /\ item[e].status = "processing" /\ item'[e].status \in Ended
  /\ item[e].version = 2 => lifecycle[e] # "queued"
  /\ hermesRuns'[e] = hermesRuns[e] /\ lifecycle'[e] = lifecycle[e]

\* The mission goes on, and never back into the queue.
IsMoved(e) ==
  /\ item'[e].status = item[e].status /\ hermesRuns'[e] = hermesRuns[e]
  /\ lifecycle'[e] = "queued" => lifecycle[e] = "queued"

LEMMA ServedItem ==
  ASSUME InboxTypeOK, InboxAgrees, NEW c \in Consumers, Serve(c) \/ GiveUp(c)
  PROVE  \E e \in Events :
           /\ Rests(e) \/ IsTaken(e) \/ IsRun(e)
           /\ \A x \in Events \ {e} : Rests(x)
<1>0. /\ item \in [Events -> Item] /\ hermesRuns \in [Events -> Nat] /\ NoEvent \notin Events
      /\ consumer[c] \in Consumer /\ ConsumerAgrees(c)
  BY InboxAssumption DEF InboxTypeOK, InboxAgrees
<1>1. UNCHANGED lifecycle
  BY DEF Serve, GiveUp, Claim, RunHermes, Report, missionVars
<1>2. CASE \E e \in Events : Claim(c, e)
  BY <1>0, <1>1, <1>2 DEF Claim, Claimable, Rests, IsTaken, Item
<1>3. CASE RunHermes(c)
  <2>1. PICK e \in Events : e = consumer[c].item
    BY <1>0, <1>3 DEF RunHermes, ConsumerAgrees, Consumer
  <2>2. hermesRuns[e] = 0 /\ item[e].status = "processing"
    BY <1>3, <2>1 DEF RunHermes, InboxAgrees, ItemAgrees
  <2>3. UNCHANGED item /\ hermesRuns' = [hermesRuns EXCEPT ![e] = @ + 1]
    BY <1>3, <2>1 DEF RunHermes
  <2> QED
    BY <1>0, <1>1, <2>2, <2>3 DEF IsRun, Rests
<1>4. CASE (\E outcome \in Outcomes : Report(c, outcome)) \/ GiveUp(c)
  <2>1. PICK e \in Events : e = consumer[c].item
    BY <1>0, <1>4 DEF Report, Reports, GiveUp, ConsumerAgrees, Consumer, Idle
  <2>2. UNCHANGED <<item, hermesRuns>>
    BY <1>4 DEF Report, GiveUp
  <2> QED
    BY <1>1, <2>2 DEF Rests
<1> QED
  BY <1>2, <1>3, <1>4 DEF Serve

LEMMA CompletedItem ==
  ASSUME InboxTypeOK, InboxAgrees, NEW e \in Events, Complete(e) \/ Abandon(e) \/ Operator(e)
  PROVE  /\ IsClosed(e) \/ IsMoved(e)
         /\ \A x \in Events \ {e} : Rests(x)
<1>0. /\ item \in [Events -> Item] /\ lifecycle \in [Events -> Store!States] /\ ItemAgrees(e)
  BY DEF InboxTypeOK, InboxAgrees
<1>1. UNCHANGED hermesRuns
  BY DEF Complete, Refuse, CompleteV1, CompleteV2, StartPlanning, SaveTypedPlan, BlockMission,
     CloseV2, Abandon, Operator
<1>2. CASE CompleteV1(e) \/ CloseV2(e)
  <2>1. UNCHANGED lifecycle /\ (item[e].version = 2 => lifecycle[e] # "queued")
    BY <1>0, <1>2 DEF CompleteV1, CloseV2, ItemAgrees, missionVars
  <2>2. PICK status \in Ended : Close(e, status)
    BY <1>2 DEF CompleteV1, CloseV2, StatusFor, Ended
  <2>3. CASE Processing(e)
    <3>1. item' = [item EXCEPT ![e].status = status] /\ item[e].status = "processing"
      BY <2>2, <2>3 DEF Close, Processing
    <3> QED
      BY <1>0, <1>1, <2>1, <3>1 DEF IsClosed, Rests, Item
  <2>4. CASE ~ Processing(e)
    BY <1>1, <2>1, <2>2, <2>4 DEF Close, IsMoved, Rests
  <2> QED
    BY <2>3, <2>4
<1>3. CASE ~ (CompleteV1(e) \/ CloseV2(e))
  <2>1. UNCHANGED item
    BY <1>3 DEF Complete, Refuse, CompleteV2, StartPlanning, SaveTypedPlan, BlockMission,
       Abandon, Operator
  <2>2. /\ \A x \in Events \ {e} : lifecycle'[x] = lifecycle[x]
        /\ lifecycle'[e] = "queued" => lifecycle[e] = "queued"
    BY <1>0, <1>3 DEF Complete, Refuse, CompleteV2, StartPlanning, SaveTypedPlan, BlockMission,
       Abandon, Operator, missionVars, Store!FoundationTransitions, Store!Transition,
       Store!Cancel, Store!SavePlan
  <2> QED
    BY <1>1, <2>1, <2>2 DEF IsMoved, Rests
<1> QED
  BY <1>2, <1>3

\* A step of the inbox is about one item, which it takes up, runs, closes or
\* leaves where it is.
LEMMA OneItemGoesOn ==
  ASSUME InboxTypeOK, InboxAgrees, InboxNext
  PROVE  \E e \in Events :
           /\ Rests(e) \/ IsTaken(e) \/ IsRun(e) \/ IsClosed(e) \/ IsMoved(e)
           /\ \A x \in Events \ {e} : Rests(x)
  BY ServedItem, CompletedItem DEF InboxNext
=============================================================================
