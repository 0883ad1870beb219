--------------------------- MODULE ActionsProofs ---------------------------
(***************************************************************************)
(* Theorems of Actions for every set of actions, requests, files and       *)
(* approvers and every window, daily limit and clock, and that the         *)
(* handlers implement Consent, proved with TLAPS.                          *)
(***************************************************************************)
EXTENDS Actions, TLAPS

-----------------------------------------------------------------------------
(* Types.                                                                  *)

\* A row whose status or window changes stays a row.
LEMMA RowTypes ==
  ASSUME TypeOK, NEW a \in Action, NEW s \in Statuses
  PROVE  /\ SetStatus(a, s) => actions' \in [Action -> ActionRow]
         /\ \A e \in Expiries :
              actions' = [actions EXCEPT ![a].status = s, ![a].expiry = e] =>
                actions' \in [Action -> ActionRow]
         /\ clock + Window \in Expiries
         /\ Null \in Expiries
         /\ Expiry(a) \in Expiries
<1>1. SetStatus(a, s) => actions' \in [Action -> ActionRow]
  BY DEF TypeOK, SetStatus, ActionRow
<1>2. \A e \in Expiries :
        actions' = [actions EXCEPT ![a].status = s, ![a].expiry = e] =>
          actions' \in [Action -> ActionRow]
  <2> SUFFICES ASSUME NEW e \in Expiries,
                      actions' = [actions EXCEPT ![a].status = s, ![a].expiry = e]
               PROVE  actions' \in [Action -> ActionRow]
    OBVIOUS
  <2>1. actions \in [Action -> ActionRow]
    BY DEF TypeOK
  <2> DEFINE set == [actions EXCEPT ![a].status = s]
  <2>2. set \in [Action -> ActionRow]
    BY <2>1 DEF ActionRow
  <2>3. actions' = [set EXCEPT ![a].expiry = e]
    BY <2>1
  <2> HIDE DEF set
  <2> QED
    BY <2>2, <2>3 DEF ActionRow
<1>3. clock + Window \in Expiries /\ Null \in Expiries
  BY ActionsAssumption DEF TypeOK, Expiries, Null
<1>4. Expiry(a) \in Expiries
  BY DEF TypeOK, Expiry, ActionRow
<1> QED
  BY <1>1, <1>2, <1>3, <1>4

\* So does a request that begins, goes on or ends.
LEMMA CallTypes ==
  ASSUME TypeOK, NEW p \in Caller
  PROVE  /\ Return(p) => calls' \in [Caller -> Call]
         /\ \A s \in Steps : Continue(p, s) => calls' \in [Caller -> Call]
         /\ \A s \in Steps, a \in Action, fs \in SUBSET File :
              Begin(p, s, a, fs) => calls' \in [Caller -> Call]
         /\ {} \in SUBSET File
<1>1. Return(p) => calls' \in [Caller -> Call]
  BY DEF TypeOK, Return, Idle, Call, Steps
<1>2. \A s \in Steps : Continue(p, s) => calls' \in [Caller -> Call]
  BY DEF TypeOK, Continue, Call
<1>3. \A s \in Steps, a \in Action, fs \in SUBSET File :
        Begin(p, s, a, fs) => calls' \in [Caller -> Call]
  BY DEF TypeOK, Begin, Call
<1> QED
  BY <1>1, <1>2, <1>3

\* And so does a decision.
LEMMA DecisionTypes ==
  ASSUME TypeOK, NEW a \in Action, NEW d \in {"approved", "rejected"},
         NEW approver \in Approver \cup {HumanAdmin, PolicyName}
  PROVE  /\ \A e \in Expiries : Decide(a, d, approver, e) => approvals' \subseteq ApprovalRow
         /\ RecordDecision(a, d, approver) =>
              approvals' \subseteq ApprovalRow /\ actions' \in [Action -> ActionRow]
<1>1. \A e \in Expiries : Decide(a, d, approver, e) => approvals' \subseteq ApprovalRow
  BY DEF TypeOK, Decide, ApprovalRow
<1>2. d \in Statuses /\ "rejected" \in Statuses
  BY DEF Statuses
<1>3. RecordDecision(a, d, approver) => approvals' \subseteq ApprovalRow
  <2> SUFFICES ASSUME RecordDecision(a, d, approver)
               PROVE  approvals' \subseteq ApprovalRow
    OBVIOUS
  <2>1. Expiry(a) \in Expiries
    BY <1>2, RowTypes
  <2>2. UNCHANGED approvals \/ Decide(a, d, approver, Expiry(a))
    BY DEF RecordDecision
  <2> QED
    BY <1>1, <2>1, <2>2 DEF TypeOK
<1>4. RecordDecision(a, d, approver) => actions' \in [Action -> ActionRow]
  BY <1>2, RowTypes DEF RecordDecision
<1> QED
  BY <1>1, <1>3, <1>4

\* Every handler keeps the types.
LEMMA TypeStep ==
  ASSUME TypeOK, CallsKeepIntent, [Next]_vars
  PROVE  TypeOK'
<1>1. ASSUME NEW a \in Action, CreateAction(a)
      PROVE  TypeOK'
  BY <1>1, RowTypes DEF TypeOK, CreateAction, Insert, Statuses, Approvable
<1>2. ASSUME NEW a \in Action, Propose(a)
      PROVE  TypeOK'
  BY <1>2, RowTypes DEF TypeOK, Propose, Insert, Statuses, Approvable
<1>3. ASSUME NEW a \in Action, PromoteProposal(a)
      PROVE  TypeOK'
  BY <1>3, RowTypes DEF TypeOK, PromoteProposal, Insert, Statuses, Approvable, MissionStatuses
<1>4. ASSUME NEW a \in Action, Prepare(a)
      PROVE  TypeOK'
  BY <1>4, RowTypes DEF TypeOK, Prepare, Insert, Statuses, Approvable
<1>5. ASSUME NEW a \in Action, NEW p \in Caller, CreateMission(p, a)
      PROVE  TypeOK'
  <2>1. actions' \in [Action -> ActionRow]
    BY <1>5, RowTypes DEF CreateMission, Insert, Statuses, Approvable
  <2>2. missions' \in [Action -> MissionStatuses]
    BY <1>5 DEF CreateMission, TypeOK, MissionStatuses
  <2>3. calls' \in [Caller -> Call]
    BY <1>5, CallTypes DEF CreateMission, TypeOK, Steps
  <2> QED
    BY <1>5, <2>1, <2>2, <2>3 DEF CreateMission, TypeOK
<1>6. ASSUME NEW a \in Action, NEW d \in {"approved", "rejected"}, HumanDecision(a, d)
      PROVE  TypeOK'
  BY <1>6, DecisionTypes DEF TypeOK, HumanDecision
<1>7. ASSUME NEW a \in Action, NEW d \in {"approved", "rejected"},
             NEW u \in Approver \cup {HumanAdmin}, OperatorDecision(a, d, u)
      PROVE  TypeOK'
  BY <1>7, DecisionTypes, RowTypes DEF TypeOK, OperatorDecision, Statuses
<1>8. ASSUME NEW a \in Action, NEW u \in Approver, DashboardApprove(a, u)
      PROVE  TypeOK'
  <2>1. actions' \in [Action -> ActionRow]
    BY <1>8, RowTypes DEF DashboardApprove, Statuses
  <2>2. Null \in Expiries
    BY RowTypes DEF Statuses
  <2>3. approvals' \subseteq ApprovalRow
    BY <1>8, <2>2, DecisionTypes DEF DashboardApprove
  <2>4. effects' \in [Action -> Nat]
    BY <1>8 DEF DashboardApprove, TypeOK
  <2> QED
    BY <1>8, <2>1, <2>2, <2>3, <2>4 DEF DashboardApprove, TypeOK
<1>9. ASSUME NEW a \in Action, Dispatch(a)
      PROVE  TypeOK'
  BY <1>9 DEF TypeOK, Dispatch, MissionStatuses
<1>10. ASSUME NEW a \in Action, NEW r \in Results, Result(a, r)
      PROVE  TypeOK'
  <2>1. ActionStatusForResult(r) \in Statuses
    BY <1>10 DEF Results, ActionStatusForResult, Statuses
  <2>2. actions' \in [Action -> ActionRow]
    BY <1>10, <2>1, RowTypes DEF Result
  <2>3. missions' \in [Action -> MissionStatuses]
    BY <1>10 DEF Result, Results, TypeOK, MissionStatuses
  <2> QED
    BY <1>10, <2>1, <2>2, <2>3 DEF Result, TypeOK
<1>11. ASSUME NEW a \in Action, AddSuppression(a)
      PROVE  TypeOK'
  BY <1>11 DEF TypeOK, AddSuppression
<1>12. ASSUME NEW a \in Action, DeployClaim(a)
      PROVE  TypeOK'
  <2>1. actions' \in [Action -> ActionRow]
    BY <1>12, RowTypes DEF DeployClaim, Statuses
  <2>2. effects' \in [Action -> Nat]
    BY <1>12 DEF DeployClaim, TypeOK
  <2> QED
    BY <1>12, <2>1, <2>2 DEF DeployClaim, TypeOK
<1>13. ASSUME NEW a \in Action, DeployFinish(a)
      PROVE  TypeOK'
  BY <1>13, RowTypes DEF TypeOK, DeployFinish, Statuses
<1>14. ASSUME NEW a \in Action, NEW p \in Caller, RequestRead(p, a)
      PROVE  TypeOK'
  <2>1. calls' \in [Caller -> Call]
    BY <1>14, CallTypes DEF RequestRead, Steps
  <2> QED
    BY <1>14, <2>1 DEF RequestRead, TypeOK
<1>15. ASSUME NEW a \in Action, NEW p \in Caller, RejectRead(p, a)
      PROVE  TypeOK'
  <2>1. calls' \in [Caller -> Call]
    BY <1>15, CallTypes DEF RejectRead, Steps
  <2> QED
    BY <1>15, <2>1 DEF RejectRead, TypeOK
<1>16. ASSUME NEW a \in Action, NEW p \in Caller, IssueRead(p, a)
      PROVE  TypeOK'
  BY <1>16, CallTypes DEF TypeOK, IssueRead, Steps
<1>17. ASSUME NEW a \in Action, NEW p \in Caller, DriveRead(p, a)
      PROVE  TypeOK'
  BY <1>17, CallTypes DEF TypeOK, DriveRead, Steps
<1>18. ASSUME NEW a \in Action, NEW p \in Caller, RollbackRead(p, a)
      PROVE  TypeOK'
  BY <1>18, CallTypes DEF TypeOK, RollbackRead, Steps
<1>19. ASSUME NEW a \in Action, NEW p \in Caller, SendRead(p, a)
      PROVE  TypeOK'
  <2>1. calls' \in [Caller -> Call]
    BY <1>19, CallTypes DEF SendRead, Steps
  <2> QED
    BY <1>19, <2>1 DEF SendRead, TypeOK
<1>20. ASSUME NEW p \in Caller, ~At(p, "idle")
      PROVE  calls[p].action \in Action
  BY <1>20 DEF CallsKeepIntent
<1>21. ASSUME NEW p \in Caller
      PROVE  calls[p].left \in SUBSET File /\ calls[p].done \in SUBSET File
  BY DEF TypeOK, Call
<1>22. ASSUME NEW p \in Caller, AutopilotDecision(p)
      PROVE  TypeOK'
  <2>1. calls[p].action \in Action
    BY <1>20, <1>22 DEF AutopilotDecision, At
  <2> QED
    BY <1>22, <2>1, DecisionTypes, CallTypes DEF TypeOK, AutopilotDecision
<1>23. ASSUME NEW p \in Caller, RequestWrite(p)
      PROVE  TypeOK'
  <2>1. calls[p].action \in Action
    BY <1>20, <1>23 DEF RequestWrite, At
  <2> QED
    BY <1>23, <2>1, RowTypes, CallTypes DEF TypeOK, RequestWrite, Statuses, Approvable
<1>24. ASSUME NEW p \in Caller, RejectWrite(p)
      PROVE  TypeOK'
  <2>1. calls[p].action \in Action
    BY <1>20, <1>24 DEF RejectWrite, At
  <2> QED
    BY <1>24, <2>1, RowTypes, CallTypes DEF TypeOK, RejectWrite, Statuses
<1>25. ASSUME NEW p \in Caller, IssueClaim(p)
      PROVE  TypeOK'
  <2>1. calls[p].action \in Action
    BY <1>20, <1>25 DEF IssueClaim, At
  <2> QED
    BY <1>25, <2>1, RowTypes, CallTypes DEF TypeOK, IssueClaim, Statuses, Steps
<1>26. ASSUME NEW p \in Caller, IssueCall(p)
      PROVE  TypeOK'
  <2>1. calls[p].action \in Action
    BY <1>20, <1>26 DEF IssueCall, At
  <2> QED
    BY <1>26, <2>1, CallTypes DEF TypeOK, IssueCall, Steps
<1>27. ASSUME NEW p \in Caller, IssueFinish(p)
      PROVE  TypeOK'
  <2>1. calls[p].action \in Action
    BY <1>20, <1>27 DEF IssueFinish, At
  <2> QED
    BY <1>27, <2>1, RowTypes, CallTypes DEF TypeOK, IssueFinish, Statuses
<1>28. ASSUME NEW p \in Caller, DriveClaim(p)
      PROVE  TypeOK'
  <2>1. calls[p].action \in Action
    BY <1>20, <1>28 DEF DriveClaim, At
  <2> QED
    BY <1>28, <2>1, RowTypes, CallTypes DEF TypeOK, DriveClaim, Statuses, Steps
<1>29. ASSUME NEW p \in Caller, DriveFinish(p)
      PROVE  TypeOK'
  <2>1. calls[p].action \in Action
    BY <1>20, <1>29 DEF DriveFinish, At
  <2> QED
    BY <1>29, <2>1, <1>21, RowTypes, CallTypes DEF TypeOK, DriveFinish, Statuses, Call
<1>30. ASSUME NEW p \in Caller, RollbackFinish(p)
      PROVE  TypeOK'
  <2>1. calls[p].action \in Action
    BY <1>20, <1>30 DEF RollbackFinish, At
  <2> QED
    BY <1>30, <2>1, RowTypes, CallTypes DEF TypeOK, RollbackFinish, Statuses
<1>31. ASSUME NEW p \in Caller, SendClaim(p)
      PROVE  TypeOK'
  <2>1. calls[p].action \in Action
    BY <1>20, <1>31 DEF SendClaim, At
  <2> QED
    BY <1>31, <2>1, RowTypes, CallTypes DEF TypeOK, SendClaim, Statuses, Steps
<1>32. ASSUME NEW p \in Caller, SendLock(p)
      PROVE  TypeOK'
  <2>1. calls[p].action \in Action
    BY <1>20, <1>32 DEF SendLock, At
  <2> QED
    BY <1>32, <2>1, RowTypes, CallTypes DEF TypeOK, SendLock, Statuses, Steps, Locking
<1>33. ASSUME NEW p \in Caller, SendCall(p)
      PROVE  TypeOK'
  <2>1. calls[p].action \in Action
    BY <1>20, <1>33 DEF SendCall, At
  <2> QED
    BY <1>33, <2>1, CallTypes DEF TypeOK, SendCall, Steps, Locking
<1>34. ASSUME NEW p \in Caller, SendFinish(p)
      PROVE  TypeOK'
  <2>1. calls[p].action \in Action
    BY <1>20, <1>34 DEF SendFinish, At
  <2> QED
    BY <1>34, <2>1, RowTypes, CallTypes DEF TypeOK, SendFinish, Statuses, Steps
<1>35. ASSUME NEW p \in Caller, DriveMove(p)
      PROVE  TypeOK'
  <2>1. calls[p].action \in Action
    BY <1>20, <1>35 DEF DriveMove, At
  <2>2. moved' \in [Action -> SUBSET File]
    BY <1>35, <1>21, <2>1 DEF DriveMove, MoveNext, TypeOK
  <2>3. calls' \in [Caller -> Call]
    <3>1. PICK f \in calls[p].left, ok \in BOOLEAN :
            calls' = [calls EXCEPT ![p].left = @ \ {f},
                                   ![p].done = IF ok THEN @ \cup {f} ELSE @]
      BY <1>35 DEF DriveMove, MoveNext
    <3> DEFINE left == calls[p].left \ {f}
               done == IF ok THEN calls[p].done \cup {f} ELSE calls[p].done
    <3>2. left \in SUBSET File /\ done \in SUBSET File
      BY <1>21
    <3>a. calls \in [Caller -> Call]
      BY DEF TypeOK
    <3>3. calls' = [calls EXCEPT ![p] = [@ EXCEPT !.left = left, !.done = done]]
      BY <3>1, <3>a DEF Call
    <3> HIDE DEF left, done
    <3> QED
      BY <3>2, <3>3 DEF TypeOK, Call
  <2> QED
    BY <1>35, <2>2, <2>3 DEF DriveMove, MoveNext, TypeOK
<1>36. ASSUME NEW p \in Caller, RollbackMove(p)
      PROVE  TypeOK'
  <2>1. calls[p].action \in Action
    BY <1>20, <1>36 DEF RollbackMove, At
  <2>2. moved' \in [Action -> SUBSET File]
    BY <1>36, <1>21, <2>1 DEF RollbackMove, MoveNext, TypeOK
  <2>3. calls' \in [Caller -> Call]
    <3>1. PICK f \in calls[p].left, ok \in BOOLEAN :
            calls' = [calls EXCEPT ![p].left = @ \ {f},
                                   ![p].done = IF ok THEN @ \cup {f} ELSE @]
      BY <1>36 DEF RollbackMove, MoveNext
    <3> DEFINE left == calls[p].left \ {f}
               done == IF ok THEN calls[p].done \cup {f} ELSE calls[p].done
    <3>2. left \in SUBSET File /\ done \in SUBSET File
      BY <1>21
    <3>a. calls \in [Caller -> Call]
      BY DEF TypeOK
    <3>3. calls' = [calls EXCEPT ![p] = [@ EXCEPT !.left = left, !.done = done]]
      BY <3>1, <3>a DEF Call
    <3> HIDE DEF left, done
    <3> QED
      BY <3>2, <3>3 DEF TypeOK, Call
  <2> QED
    BY <1>36, <2>2, <2>3 DEF RollbackMove, MoveNext, TypeOK
<1>37. ASSUME Crash
      PROVE  TypeOK'
  <2>1. Idle \in Call
    BY DEF Idle, Call, Steps
  <2> QED
    BY <1>37, <2>1 DEF Crash, TypeOK
<1>38. ASSUME Tick
      PROVE  TypeOK'
  BY <1>38, ActionsAssumption DEF Tick, TypeOK
<1>39. ASSUME UNCHANGED vars
      PROVE  TypeOK'
  BY <1>39 DEF vars, TypeOK
<1> QED
  BY <1>1, <1>2, <1>3, <1>4, <1>5, <1>6, <1>7, <1>8, <1>9, <1>10, <1>11,
     <1>12, <1>13, <1>14, <1>15, <1>16, <1>17, <1>18, <1>19, <1>22, <1>23,
     <1>24, <1>25, <1>26, <1>27, <1>28, <1>29, <1>30, <1>31, <1>32, <1>33,
     <1>34, <1>35, <1>36, <1>37, <1>38, <1>39
  DEF Next, Creating, Deciding, Reading, Proceeding

-----------------------------------------------------------------------------
(* What a step does to the requests, and to the status of an action.       *)

\* Steps of a request from which it may still lead to an effect or an approval.
Trusted == Spending \cup {"policy", "issue_read", "drive_read", "drive", "send_read"}

\* Requests other than those of ps lead to nothing they did not lead to.
Undisturbed(ps) ==
  \A q \in Caller :
    /\ calls'[q].step # "idle" => calls'[q].action \in Action
    /\ q \notin ps /\ calls'[q].step \in Trusted =>
         calls'[q].step = calls[q].step /\ calls'[q].action = calls[q].action

LEMMA BeginCalls ==
  ASSUME TypeOK, CallsKeepIntent, NEW p \in Caller, NEW s \in Steps, NEW a \in Action, NEW fs,
         Begin(p, s, a, fs)
  PROVE  /\ calls'[p].step = s /\ calls'[p].action = a
         /\ Undisturbed({p})
         /\ \A q \in Caller : q # p => calls'[q] = calls[q]
BY DEF Begin, TypeOK, CallsKeepIntent, Undisturbed, At

LEMMA ContinueCalls ==
  ASSUME TypeOK, CallsKeepIntent, NEW p \in Caller, ~At(p, "idle"), NEW s, Continue(p, s)
  PROVE  /\ calls'[p].step = s /\ calls'[p].action = calls[p].action
         /\ Undisturbed({p})
         /\ \A q \in Caller : q # p => calls'[q] = calls[q]
BY DEF Continue, TypeOK, CallsKeepIntent, Undisturbed, At, Call

LEMMA ReturnCalls ==
  ASSUME TypeOK, CallsKeepIntent, NEW p \in Caller, Return(p)
  PROVE  Undisturbed({}) /\ calls'[p].step = "idle"
BY DEF Return, Idle, TypeOK, CallsKeepIntent, Undisturbed, At, Trusted, Spending

LEMMA SameCalls ==
  ASSUME CallsKeepIntent, UNCHANGED calls
  PROVE  Undisturbed({})
BY DEF CallsKeepIntent, Undisturbed, At

\* Intents stay, and no action but those of as becomes approved.
Unapproved(as) ==
  \A a \in Action :
    /\ actions'[a].intent = actions[a].intent
    /\ actions'[a].status = "approved" /\ a \notin as => actions[a].status = "approved"

LEMMA StatusRow ==
  ASSUME TypeOK, NEW a \in Action, NEW s, SetStatus(a, s)
  PROVE  /\ Unapproved({a})
         /\ s # "approved" => Unapproved({})
         /\ actions'[a].status = s
BY DEF SetStatus, TypeOK, Unapproved, ActionRow

-----------------------------------------------------------------------------
(* Most steps approve nothing, begin nothing that leads to an effect, and  *)
(* have none.                                                              *)

Quiet ==
  /\ UNCHANGED <<approvals, effects, suppressed>>
  /\ Unapproved({})
  /\ Undisturbed({})
  /\ \A a \in Action : moved'[a] \subseteq moved[a]
  /\ \A a \in Action : missions'[a] = "in_progress" => missions[a] = "in_progress"

LEMMA QuietSafe ==
  ASSUME IInv, TypeOK', Quiet
  PROVE  IInv'
<1> USE DEF IInv, Quiet, Undisturbed, Unapproved, Trusted, Spending, SpendingOn,
            Authorised, ApprovedBy, Status, Intent, At
<1>1. OneDecision'
  BY DEF OneDecision
<1>2. ApprovedIsUnspent'
  BY DEF ApprovedIsUnspent
<1>3. ClaimIsExclusive'
  BY DEF ClaimIsExclusive
<1>4. EffectNeedsApproval'
  BY DEF EffectNeedsApproval, Touched
<1>5. EffectAtMostOnce'
  BY DEF EffectAtMostOnce
<1>6. DispatchNeedsApproval'
  BY DEF DispatchNeedsApproval
<1>7. DriveIsAuthorised'
  BY DEF DriveIsAuthorised
<1>8. CallsKeepIntent'
  BY DEF CallsKeepIntent
<1>9. OnlyHumansDeploy'
  BY DEF OnlyHumansDeploy, TypeOK, ApprovalRow
<1>10. LockedIsWelcome'
  BY DEF LockedIsWelcome
<1> QED
  BY <1>1, <1>2, <1>3, <1>4, <1>5, <1>6, <1>7, <1>8, <1>9, <1>10

-----------------------------------------------------------------------------
(* A decision is the first one of its action, so an approval finds it      *)
(* without an effect and without a request that spends it.                 *)

LEMMA DecisionSafe ==
  ASSUME IInv, TypeOK', NEW a \in Action, NEW d \in {"approved", "rejected"},
         NEW u, NEW e,
         Decide(a, d, u, e),
         d = "approved" => u # ProfileOf[a],
         Intent(a) = "deploy_release" /\ d = "approved" /\ e # Null => u = HumanAdmin,
         Unapproved({a}),
         actions'[a].status = "approved" => d = "approved",
         \/ effects' = effects
         \/ /\ effects' = [effects EXCEPT ![a] = @ + 1]
            /\ d = "approved"
            /\ actions'[a].status # "approved",
         Undisturbed({}),
         UNCHANGED <<missions, moved, suppressed>>
  PROVE  IInv'
<1> DEFINE row == [action |-> a, approver |-> u, decision |-> d, expiry |-> e]
<1>1. /\ \A f \in approvals : f.action # a
      /\ approvals' = approvals \cup {row}
      /\ row.action = a /\ row.approver = u /\ row.decision = d /\ row.expiry = e
  BY DEF Decide, Decided
<1>2. /\ \A b \in Action : Authorised(b) => Authorised(b)'
      /\ d = "approved" => Authorised(a)'
      /\ ~Authorised(a)
  <2> HIDE DEF row
  <2> QED
    BY <1>1 DEF Authorised, ApprovedBy
<1>3. /\ effects[a] = 0 /\ moved[a] = {}
      /\ \A p \in Caller : ~SpendingOn(p, a)
  BY <1>2 DEF IInv, EffectNeedsApproval, ClaimIsExclusive, Touched, TypeOK
<1>4. /\ \A b \in Action : b # a => effects'[b] = effects[b]
      /\ \/ effects'[a] = effects[a]
         \/ effects'[a] = 1 /\ d = "approved" /\ actions'[a].status # "approved"
  <2>1. CASE effects' = effects
    BY <2>1
  <2>2. CASE /\ effects' = [effects EXCEPT ![a] = @ + 1]
             /\ d = "approved"
             /\ actions'[a].status # "approved"
    <3>1. effects'[a] = 0 + 1
      BY <1>3, <2>2 DEF IInv, TypeOK
    <3> QED
      BY <2>2, <3>1 DEF IInv, TypeOK
  <2> QED
    BY <2>1, <2>2
<1>5. \A p \in Caller, b \in Action : SpendingOn(p, b)' => SpendingOn(p, b)
  BY DEF SpendingOn, Undisturbed, Trusted
<1> HIDE DEF row
<1>6. OneDecision'
  BY <1>1 DEF IInv, OneDecision
<1>7. ApprovedIsUnspent'
  BY <1>3, <1>4, <1>5 DEF IInv, ApprovedIsUnspent, Unapproved, Status
<1>8. ClaimIsExclusive'
  BY <1>2, <1>3, <1>4, <1>5 DEF IInv, ClaimIsExclusive
<1>9. EffectNeedsApproval'
  BY <1>2, <1>3, <1>4 DEF IInv, EffectNeedsApproval, Touched, Unapproved, Status
<1>10. EffectAtMostOnce'
  BY <1>3, <1>4 DEF IInv, EffectAtMostOnce
<1>11. DispatchNeedsApproval'
  BY <1>1 DEF IInv, DispatchNeedsApproval, ApprovedBy
<1>12. DriveIsAuthorised'
  BY <1>2 DEF IInv, DriveIsAuthorised, Undisturbed, Trusted, CallsKeepIntent, At
<1>13. CallsKeepIntent'
  BY DEF IInv, CallsKeepIntent, Undisturbed, Unapproved, Trusted, Spending, Intent, At
<1>14. OnlyHumansDeploy'
  BY <1>1 DEF IInv, OnlyHumansDeploy, Unapproved, Intent, TypeOK, ApprovalRow
<1>15. LockedIsWelcome'
  BY DEF IInv, LockedIsWelcome, Undisturbed, Trusted, Spending, At
<1> QED
  BY <1>6, <1>7, <1>8, <1>9, <1>10, <1>11, <1>12, <1>13, <1>14, <1>15 DEF IInv

\* recordDecision is a decision or a late rejection.
LEMMA RecordSafe ==
  ASSUME IInv, TypeOK', NEW a \in Action, NEW d \in {"approved", "rejected"}, NEW u,
         RecordDecision(a, d, u),
         Intent(a) = "deploy_release" /\ d = "approved" => u = HumanAdmin,
         Undisturbed({}),
         UNCHANGED <<missions, effects, moved, suppressed>>
  PROVE  IInv'
<1>1. CASE SetStatus(a, "rejected") /\ UNCHANGED approvals
  <2>1. Unapproved({})
    BY <1>1, StatusRow DEF IInv
  <2> QED
    BY <1>1, <2>1, QuietSafe DEF Quiet
<1>2. CASE /\ d = "approved" => u # ProfileOf[a]
           /\ Decide(a, d, u, Expiry(a))
           /\ SetStatus(a, d)
  <2>1. Unapproved({a}) /\ actions'[a].status = d
    BY <1>2, StatusRow DEF IInv
  <2> QED
    BY <1>2, <2>1, DecisionSafe
<1> QED
  BY <1>1, <1>2 DEF RecordDecision

-----------------------------------------------------------------------------
(* A claim takes the action out of 'approved', so that one request spends  *)
(* the approval; spending it has one effect.                               *)

LEMMA ClaimSafe ==
  ASSUME IInv, TypeOK', NEW p \in Caller, NEW s \in {"issue", "send_claimed"},
         ~At(p, "idle"),
         Status(calls[p].action) = "approved",
         SetStatus(calls[p].action, "executing"),
         Continue(p, s),
         s = "issue" => Intent(calls[p].action) = "github_create_issue",
         s = "send_claimed" => Intent(calls[p].action) = "outreach_send",
         UNCHANGED <<approvals, missions, effects, moved, suppressed>>
  PROVE  IInv'
<1> DEFINE a == calls[p].action
<1>1. a \in Action
  BY DEF IInv, CallsKeepIntent
<1>2. /\ calls'[p].step = s /\ calls'[p].action = a
      /\ Undisturbed({p})
      /\ \A q \in Caller : q # p => calls'[q] = calls[q]
  BY ContinueCalls DEF IInv
<1>3. Unapproved({}) /\ actions'[a].status = "executing"
  BY <1>1, StatusRow DEF IInv
<1>4. effects[a] = 0 /\ Authorised(a) /\ \A q \in Caller : ~SpendingOn(q, a)
  BY <1>1 DEF IInv, ApprovedIsUnspent, EffectNeedsApproval
<1>5. \A b \in Action : Authorised(b)' <=> Authorised(b)
  BY DEF Authorised, ApprovedBy
<1> HIDE DEF a
<1>6. OneDecision'
  BY DEF IInv, OneDecision
<1>7. ApprovedIsUnspent'
  BY <1>2, <1>3 DEF IInv, ApprovedIsUnspent, Unapproved, Status, SpendingOn
<1>8. ClaimIsExclusive'
  BY <1>1, <1>2, <1>4, <1>5 DEF IInv, ClaimIsExclusive, SpendingOn
<1>9. EffectNeedsApproval'
  BY <1>3, <1>5 DEF IInv, EffectNeedsApproval, Touched, Unapproved, Status
<1>10. EffectAtMostOnce'
  BY DEF IInv, EffectAtMostOnce
<1>11. DispatchNeedsApproval'
  BY DEF IInv, DispatchNeedsApproval, ApprovedBy
<1>12. DriveIsAuthorised'
  BY <1>2, <1>5 DEF IInv, DriveIsAuthorised, CallsKeepIntent, At
<1>13. CallsKeepIntent'
  BY <1>1, <1>2, <1>3 DEF IInv, CallsKeepIntent, Unapproved, Intent, At, a
<1>14. OnlyHumansDeploy'
  BY <1>3 DEF IInv, OnlyHumansDeploy, Unapproved, Intent, TypeOK, ApprovalRow
<1>15. LockedIsWelcome'
  BY <1>2 DEF IInv, LockedIsWelcome, At
<1> QED
  BY <1>6, <1>7, <1>8, <1>9, <1>10, <1>11, <1>12, <1>13, <1>14, <1>15 DEF IInv

LEMMA SpendSafe ==
  ASSUME IInv, TypeOK', NEW p \in Caller, NEW n \in {0, 1},
         calls[p].step \in Spending,
         effects' = [effects EXCEPT ![calls[p].action] = @ + n],
         Undisturbed({}), calls'[p].step \notin Spending,
         UNCHANGED <<actions, approvals, missions, moved, suppressed>>
  PROVE  IInv'
<1> DEFINE a == calls[p].action
<1>1. a \in Action
  BY DEF IInv, CallsKeepIntent, At, Spending
<1>2. SpendingOn(p, a)
  BY DEF SpendingOn
<1>3. effects[a] = 0 /\ Authorised(a) /\ \A q \in Caller : SpendingOn(q, a) => q = p
  BY <1>1, <1>2 DEF IInv, ClaimIsExclusive
<1>4. effects'[a] \in {0, 1} /\ \A b \in Action : b # a => effects'[b] = effects[b]
  <2>1. effects'[a] = 0 + n
    BY <1>1, <1>3 DEF IInv, TypeOK
  <2> QED
    BY <2>1 DEF IInv, TypeOK
<1>5. \A b \in Action : Authorised(b)' <=> Authorised(b)
  BY DEF Authorised, ApprovedBy
<1>6. \A q \in Caller, b \in Action : SpendingOn(q, b)' => SpendingOn(q, b) /\ q # p
  BY DEF SpendingOn, Undisturbed, Trusted
<1>7. Status(a) # "approved"
  BY <1>1, <1>2 DEF IInv, ApprovedIsUnspent
<1> HIDE DEF a
<1>8. OneDecision'
  BY DEF IInv, OneDecision
<1>9. ApprovedIsUnspent'
  BY <1>4, <1>6, <1>7 DEF IInv, ApprovedIsUnspent, Status
<1>10. ClaimIsExclusive'
  BY <1>3, <1>4, <1>5, <1>6 DEF IInv, ClaimIsExclusive
<1>11. EffectNeedsApproval'
  BY <1>3, <1>4, <1>5 DEF IInv, EffectNeedsApproval, Touched, Status
<1>12. EffectAtMostOnce'
  BY <1>4 DEF IInv, EffectAtMostOnce
<1>13. DispatchNeedsApproval'
  BY DEF IInv, DispatchNeedsApproval, ApprovedBy
<1>14. DriveIsAuthorised'
  BY <1>5 DEF IInv, DriveIsAuthorised, Undisturbed, Trusted, CallsKeepIntent, At
<1>15. CallsKeepIntent'
  BY DEF IInv, CallsKeepIntent, Undisturbed, Trusted, Spending, Intent, At
<1>16. OnlyHumansDeploy'
  BY DEF IInv, OnlyHumansDeploy, Intent
<1>17. LockedIsWelcome'
  BY DEF IInv, LockedIsWelcome, Undisturbed, Trusted, Spending, At
<1> QED
  BY <1>8, <1>9, <1>10, <1>11, <1>12, <1>13, <1>14, <1>15, <1>16, <1>17 DEF IInv

-----------------------------------------------------------------------------
(* The other steps that matter to the invariant.                           *)

\* A request that begins to work on an action, or to decide on it.
LEMMA BeginSafe ==
  ASSUME IInv, TypeOK', NEW p \in Caller, NEW a \in Action, NEW fs,
         NEW s \in {"policy", "issue_read", "drive_read", "send_read"},
         Begin(p, s, a, fs),
         s = "policy" => Intent(a) = "create_agent_mission",
         s = "issue_read" => Intent(a) = "github_create_issue",
         s = "send_read" => Intent(a) = "outreach_send",
         s = "drive_read" => Authorised(a),
         Unapproved({}),
         \A b \in Action : missions'[b] = "in_progress" => missions[b] = "in_progress",
         UNCHANGED <<approvals, effects, moved, suppressed>>
  PROVE  IInv'
<1>1. /\ calls'[p].step = s /\ calls'[p].action = a
      /\ \A q \in Caller : q # p => calls'[q] = calls[q]
  <2>1. s \in Steps
    BY DEF Steps
  <2> QED
    BY <2>1, BeginCalls DEF IInv
<1>2. \A b \in Action : Authorised(b)' <=> Authorised(b)
  BY DEF Authorised, ApprovedBy
<1>3. \A q \in Caller, b \in Action : SpendingOn(q, b)' => SpendingOn(q, b)
  BY <1>1 DEF SpendingOn, Spending
<1>4. OneDecision'
  BY DEF IInv, OneDecision
<1>5. ApprovedIsUnspent'
  BY <1>3 DEF IInv, ApprovedIsUnspent, Unapproved, Status
<1>6. ClaimIsExclusive'
  BY <1>2, <1>3 DEF IInv, ClaimIsExclusive
<1>7. EffectNeedsApproval' /\ EffectAtMostOnce'
  BY <1>2 DEF IInv, EffectNeedsApproval, EffectAtMostOnce, Touched, Unapproved, Status
<1>8. DispatchNeedsApproval'
  BY DEF IInv, DispatchNeedsApproval, ApprovedBy
<1>9. DriveIsAuthorised'
  BY <1>1, <1>2 DEF IInv, DriveIsAuthorised, CallsKeepIntent, At
<1>10. CallsKeepIntent'
  BY <1>1 DEF IInv, CallsKeepIntent, Unapproved, Intent, At
<1>11. OnlyHumansDeploy'
  BY DEF IInv, OnlyHumansDeploy, Unapproved, Intent, TypeOK, ApprovalRow
<1>12. LockedIsWelcome'
  BY <1>1 DEF IInv, LockedIsWelcome, At
<1> QED
  BY <1>4, <1>5, <1>6, <1>7, <1>8, <1>9, <1>10, <1>11, <1>12 DEF IInv

LEMMA DispatchSafe ==
  ASSUME IInv, TypeOK', NEW a \in Action, Dispatch(a)
  PROVE  IInv'
<1>1. ApprovedBy(a) # {}
  BY DEF Dispatch, CanDispatch, IInv, EffectNeedsApproval, Authorised
<1>2. DispatchNeedsApproval'
  BY <1>1 DEF IInv, DispatchNeedsApproval, Dispatch, ApprovedBy, TypeOK
<1> QED
  BY <1>2
  DEF IInv, Dispatch, OneDecision, ApprovedIsUnspent, ClaimIsExclusive, EffectNeedsApproval,
      EffectAtMostOnce, DriveIsAuthorised, CallsKeepIntent, OnlyHumansDeploy, LockedIsWelcome,
      Touched, Authorised, ApprovedBy, Status, Intent, SpendingOn, At

LEMMA SuppressionSafe ==
  ASSUME IInv, TypeOK', NEW a \in Action, AddSuppression(a)
  PROVE  IInv'
<1>1. LockedIsWelcome'
  BY DEF IInv, LockedIsWelcome, AddSuppression, LockFree, Locking, At
<1> QED
  BY <1>1
  DEF IInv, AddSuppression, OneDecision, ApprovedIsUnspent, ClaimIsExclusive,
      EffectNeedsApproval, EffectAtMostOnce, DispatchNeedsApproval, DriveIsAuthorised,
      CallsKeepIntent, OnlyHumansDeploy, Touched, Authorised, ApprovedBy, Status, Intent,
      SpendingOn, At

\* The claim of a Drive batch may come late, but it approves nothing, and the
\* approval that its request has seen is still recorded.
LEMMA DriveClaimSafe ==
  ASSUME IInv, TypeOK', NEW p \in Caller, DriveClaim(p)
  PROVE  IInv'
<1>1. ~At(p, "idle") /\ calls[p].action \in Action
  BY DEF DriveClaim, At, IInv, CallsKeepIntent
<1>2. /\ calls'[p].step = "drive" /\ calls'[p].action = calls[p].action
      /\ \A q \in Caller : q # p => calls'[q] = calls[q]
  BY <1>1, ContinueCalls DEF IInv, DriveClaim
<1>3. Unapproved({})
  <2>1. TypeOK /\ SetStatus(calls[p].action, "executing")
    BY DEF IInv, DriveClaim
  <2>2. \A x : SetStatus(calls[p].action, x) /\ x # "approved" => Unapproved({})
    BY <1>1, <2>1, StatusRow
  <2> QED
    BY <2>1, <2>2
<1>4. \A q \in Caller, b \in Action : SpendingOn(q, b)' => SpendingOn(q, b)
  BY <1>2 DEF SpendingOn, Spending
<1>5. OneDecision' /\ EffectAtMostOnce' /\ DispatchNeedsApproval'
  BY DEF IInv, DriveClaim, OneDecision, EffectAtMostOnce, DispatchNeedsApproval, ApprovedBy
<1>6. ApprovedIsUnspent'
  BY <1>3, <1>4 DEF IInv, DriveClaim, ApprovedIsUnspent, Unapproved, Status
<1>7. ClaimIsExclusive' /\ EffectNeedsApproval'
  BY <1>3, <1>4
  DEF IInv, DriveClaim, ClaimIsExclusive, EffectNeedsApproval, Touched, Unapproved, Status,
      Authorised, ApprovedBy
<1>8. DriveIsAuthorised'
  BY <1>2 DEF IInv, DriveClaim, DriveIsAuthorised, Authorised, ApprovedBy, At
<1>9. CallsKeepIntent' /\ LockedIsWelcome'
  BY <1>1, <1>2, <1>3
  DEF IInv, DriveClaim, CallsKeepIntent, LockedIsWelcome, Unapproved, Intent, At
<1>10. OnlyHumansDeploy'
  BY <1>3 DEF IInv, DriveClaim, OnlyHumansDeploy, Unapproved, Intent, TypeOK, ApprovalRow
<1> QED
  BY <1>5, <1>6, <1>7, <1>8, <1>9, <1>10 DEF IInv

LEMMA DriveMoveSafe ==
  ASSUME IInv, TypeOK', NEW p \in Caller, DriveMove(p)
  PROVE  IInv'
<1>1. calls[p].action \in Action /\ Authorised(calls[p].action)
  BY DEF DriveMove, At, IInv, CallsKeepIntent, DriveIsAuthorised
<1>2. /\ \A q \in Caller : calls'[q].step = calls[q].step /\ calls'[q].action = calls[q].action
      /\ \A b \in Action : b # calls[p].action => moved'[b] = moved[b]
      /\ UNCHANGED <<actions, approvals, missions, effects, suppressed>>
  BY DEF DriveMove, MoveNext, IInv, TypeOK, Call
<1>3. EffectNeedsApproval'
  BY <1>1, <1>2 DEF IInv, EffectNeedsApproval, Touched, Authorised, ApprovedBy, Status
<1> QED
  BY <1>2, <1>3
  DEF IInv, OneDecision, ApprovedIsUnspent, ClaimIsExclusive, EffectAtMostOnce,
      DispatchNeedsApproval, DriveIsAuthorised, CallsKeepIntent, OnlyHumansDeploy,
      LockedIsWelcome, Authorised, ApprovedBy, Status, Intent, SpendingOn, At

\* The request that has claimed a mail takes the lock of its recipient.
LEMMA SendLockSafe ==
  ASSUME IInv, TypeOK', NEW p \in Caller, SendLock(p)
  PROVE  IInv'
<1> DEFINE a == calls[p].action
<1>1. ~At(p, "idle") /\ a \in Action
  BY DEF SendLock, At, IInv, CallsKeepIntent
<1>2. CASE a \in suppressed
  <2>1. Undisturbed({})
    BY <1>2, ReturnCalls DEF SendLock, IInv
  <2>2. Unapproved({})
    BY <1>1, <1>2, StatusRow DEF SendLock, IInv, Unapproved
  <2> QED
    BY <2>1, <2>2, QuietSafe DEF SendLock, Quiet
<1>3. CASE a \notin suppressed
  <2>1. Continue(p, "send_locked")
    BY <1>3 DEF SendLock
  <2>2. /\ calls'[p].step = "send_locked" /\ calls'[p].action = a
        /\ \A q \in Caller : q # p => calls'[q] = calls[q]
    BY <1>1, <2>1, ContinueCalls DEF IInv
  <2>3. /\ UNCHANGED <<actions, approvals, missions, effects, moved, suppressed>>
        /\ At(p, "send_claimed")
    BY <1>3 DEF SendLock
  <2>4. \A q \in Caller, b \in Action : SpendingOn(q, b)' <=> SpendingOn(q, b)
    BY <2>2, <2>3 DEF SpendingOn, Spending, At
  <2>5. CallsKeepIntent' /\ LockedIsWelcome' /\ DriveIsAuthorised'
    BY <1>1, <1>3, <2>2, <2>3
    DEF IInv, CallsKeepIntent, LockedIsWelcome, DriveIsAuthorised, Authorised, ApprovedBy,
        Intent, At
  <2> QED
    BY <2>3, <2>4, <2>5
    DEF IInv, OneDecision, ApprovedIsUnspent, ClaimIsExclusive, EffectNeedsApproval,
        EffectAtMostOnce, DispatchNeedsApproval, OnlyHumansDeploy, Touched, Authorised,
        ApprovedBy, Status, Intent
<1> QED
  BY <1>2, <1>3

\* deploy.sh consumes the approval and starts in one step.
LEMMA DeployClaimSafe ==
  ASSUME IInv, TypeOK', NEW a \in Action, DeployClaim(a)
  PROVE  IInv'
<1>1. Unapproved({}) /\ actions'[a].status = "executing"
  <2>1. TypeOK /\ SetStatus(a, "executing")
    BY DEF IInv, DeployClaim
  <2>2. \A x : SetStatus(a, x) => actions'[a].status = x /\ (x # "approved" => Unapproved({}))
    BY <2>1, StatusRow
  <2> QED
    BY <2>1, <2>2
<1>2. effects[a] = 0 /\ Authorised(a) /\ \A q \in Caller : ~SpendingOn(q, a)
  BY DEF DeployClaim, IInv, ApprovedIsUnspent, EffectNeedsApproval
<1>3. effects'[a] = 1 /\ \A b \in Action : b # a => effects'[b] = effects[b]
  <2>1. effects'[a] = 0 + 1
    BY <1>2 DEF DeployClaim, IInv, TypeOK
  <2> QED
    BY <2>1 DEF DeployClaim, IInv, TypeOK
<1>4. UNCHANGED <<approvals, missions, calls, moved, suppressed>>
  BY DEF DeployClaim
<1>5. ApprovedIsUnspent' /\ ClaimIsExclusive' /\ EffectNeedsApproval' /\ EffectAtMostOnce'
  BY <1>1, <1>2, <1>3, <1>4
  DEF IInv, ApprovedIsUnspent, ClaimIsExclusive, EffectNeedsApproval, EffectAtMostOnce, Touched,
      Unapproved, Status, Authorised, ApprovedBy, SpendingOn
<1>6. OneDecision' /\ DispatchNeedsApproval' /\ DriveIsAuthorised' /\ LockedIsWelcome'
  BY <1>4
  DEF IInv, OneDecision, DispatchNeedsApproval, DriveIsAuthorised, LockedIsWelcome, Authorised,
      ApprovedBy, At
<1>7. CallsKeepIntent' /\ OnlyHumansDeploy'
  BY <1>1, <1>4
  DEF IInv, CallsKeepIntent, OnlyHumansDeploy, Unapproved, Intent, At, TypeOK, ApprovalRow
<1> QED
  BY <1>5, <1>6, <1>7 DEF IInv

-----------------------------------------------------------------------------
(* Every step keeps the invariant, a family of actions at a time.          *)

LEMMA InsertRow ==
  ASSUME TypeOK, NEW a \in Action, NEW s, NEW e, s # "approved", Insert(a, s, e)
  PROVE  Unapproved({})
BY DEF Insert, TypeOK, Unapproved, ActionRow

LEMMA CreatingSafe ==
  ASSUME IInv, TypeOK', NEW a \in Action, Creating(a)
  PROVE  IInv'
<1> USE DEF IInv
<1>1. ASSUME CreateAction(a) \/ Propose(a) \/ PromoteProposal(a) \/ Prepare(a)
      PROVE  IInv'
  <2>1. Unapproved({})
    BY <1>1, InsertRow DEF CreateAction, Propose, PromoteProposal, Prepare
  <2>2. Undisturbed({}) /\ UNCHANGED <<approvals, effects, moved, suppressed>>
    BY <1>1, SameCalls DEF CreateAction, Propose, PromoteProposal, Prepare
  <2>3. \A b \in Action : missions'[b] = "in_progress" => missions[b] = "in_progress"
    BY <1>1 DEF CreateAction, Propose, PromoteProposal, Prepare, TypeOK
  <2> QED
    BY <2>1, <2>2, <2>3, QuietSafe DEF Quiet
<1>2. ASSUME NEW p \in Caller, CreateMission(p, a)
      PROVE  IInv'
  <2>1. Unapproved({})
    BY <1>2, InsertRow DEF CreateMission
  <2>2. \A b \in Action : missions'[b] = "in_progress" => missions[b] = "in_progress"
    BY <1>2 DEF CreateMission, TypeOK
  <2>3. UNCHANGED <<approvals, effects, moved, suppressed>>
    BY <1>2 DEF CreateMission
  <2>4. CASE Begin(p, "policy", a, {})
    <3>1. Intent(a) = "create_agent_mission"
      BY <1>2 DEF CreateMission
    <3> QED
      BY <2>1, <2>2, <2>3, <2>4, <3>1, BeginSafe
  <2>5. CASE UNCHANGED calls
    BY <2>1, <2>2, <2>3, <2>5, SameCalls, QuietSafe DEF Quiet
  <2> QED
    BY <1>2, <2>4, <2>5 DEF CreateMission
<1> QED
  BY <1>1, <1>2 DEF Creating

LEMMA DecidingSafe ==
  ASSUME IInv, TypeOK', NEW a \in Action, Deciding(a)
  PROVE  IInv'
<1>1. ASSUME NEW d \in {"approved", "rejected"}, HumanDecision(a, d)
      PROVE  IInv'
  BY <1>1, RecordSafe, SameCalls DEF HumanDecision, IInv
<1>2. ASSUME NEW d \in {"approved", "rejected"}, NEW u \in Approver \cup {HumanAdmin},
             OperatorDecision(a, d, u)
      PROVE  IInv'
  <2>1. Unapproved({a}) /\ actions'[a].status = d
    BY <1>2, StatusRow DEF OperatorDecision, IInv
  <2>2. Undisturbed({})
    BY <1>2, SameCalls DEF OperatorDecision, IInv
  <2> QED
    BY <1>2, <2>1, <2>2, DecisionSafe DEF OperatorDecision
<1>3. ASSUME NEW u \in Approver, DashboardApprove(a, u)
      PROVE  IInv'
  <2>1. Undisturbed({})
    BY <1>3, SameCalls DEF DashboardApprove, IInv
  <2>2. PICK s \in {"executed", "approved"} :
          /\ SetStatus(a, s)
          /\ \/ s = "executed" /\ effects' = [effects EXCEPT ![a] = @ + 1]
             \/ effects' = effects
    BY <1>3 DEF DashboardApprove
  <2>3. Unapproved({a}) /\ actions'[a].status = s
    BY <2>2, StatusRow DEF IInv
  <2>4. /\ Decide(a, "approved", u, Null)
        /\ u # ProfileOf[a]
        /\ UNCHANGED <<missions, moved, suppressed>>
    BY <1>3 DEF DashboardApprove
  <2> QED
    BY <2>1, <2>2, <2>3, <2>4, DecisionSafe
<1> QED
  BY <1>1, <1>2, <1>3 DEF Deciding

LEMMA ReadingSafe ==
  ASSUME IInv, TypeOK', NEW p \in Caller, NEW a \in Action, Reading(p, a)
  PROVE  IInv'
<1> USE DEF IInv
<1>1. UNCHANGED <<actions, approvals, missions, effects, moved, suppressed>>
  BY DEF Reading, RequestRead, RejectRead, IssueRead, DriveRead, RollbackRead, SendRead
<1>2. Unapproved({})
  BY <1>1 DEF Unapproved
<1>3. ASSUME NEW s \in {"request", "reject", "rollback"}, NEW fs, Begin(p, s, a, fs)
      PROVE  IInv'
  <2>1. s \in Steps \ Trusted
    BY DEF Steps, Trusted, Spending
  <2>2. Undisturbed({})
    BY <1>3, <2>1, BeginCalls DEF Undisturbed
  <2> QED
    BY <1>1, <1>2, <2>2, QuietSafe DEF Quiet
<1>4. CASE RequestRead(p, a) \/ RejectRead(p, a) \/ RollbackRead(p, a)
  BY <1>3, <1>4 DEF RequestRead, RejectRead, RollbackRead
<1>5. CASE IssueRead(p, a)
  BY <1>1, <1>2, <1>5, BeginSafe DEF IssueRead
<1>6. CASE SendRead(p, a)
  BY <1>1, <1>2, <1>6, BeginSafe DEF SendRead
<1>7. CASE DriveRead(p, a)
  <2>1. Authorised(a)
    BY <1>7 DEF DriveRead, EffectNeedsApproval
  <2> QED
    BY <1>1, <1>2, <1>7, <2>1, BeginSafe DEF DriveRead
<1> QED
  BY <1>4, <1>5, <1>6, <1>7 DEF Reading

\* Writes of a status that is not 'approved' by a request that then returns.
LEMMA WriteSafe ==
  ASSUME IInv, TypeOK', NEW p \in Caller, NEW a \in Action, Return(p),
         \/ UNCHANGED actions
         \/ \E x \in Statuses \ {"approved"} : SetStatus(a, x)
         \/ \E e : actions' = [actions EXCEPT ![a].status = "approval_requested",
                                             ![a].expiry = e],
         UNCHANGED <<approvals, missions, effects, moved, suppressed>>
  PROVE  IInv'
<1> USE DEF IInv
<1>1. Undisturbed({})
  BY ReturnCalls
<1>2. CASE UNCHANGED actions
  BY <1>1, <1>2, QuietSafe DEF Quiet, Unapproved
<1>3. ASSUME NEW x \in Statuses \ {"approved"}, SetStatus(a, x)
      PROVE  IInv'
  <2>1. Unapproved({})
    <3>1. \A y : SetStatus(a, y) /\ y # "approved" => Unapproved({})
      BY StatusRow
    <3> QED
      BY <1>3, <3>1
  <2> QED
    BY <1>1, <2>1, QuietSafe DEF Quiet
<1>4. ASSUME NEW e, actions' = [actions EXCEPT ![a].status = "approval_requested",
                                             ![a].expiry = e]
      PROVE  IInv'
  <2>1. Unapproved({})
    <3>1. /\ \A b \in Action : actions'[b].intent = actions[b].intent
          /\ \A b \in Action : b # a => actions'[b] = actions[b]
          /\ actions'[a].status = "approval_requested"
      <4>1. actions' = [actions EXCEPT ![a] = [@ EXCEPT !.status = "approval_requested",
                                                       !.expiry = e]]
        BY <1>4 DEF TypeOK
      <4>2. /\ actions'[a] = [actions[a] EXCEPT !.status = "approval_requested", !.expiry = e]
            /\ \A b \in Action : b # a => actions'[b] = actions[b]
        BY <4>1 DEF TypeOK
      <4>3. /\ actions'[a].intent = actions[a].intent
            /\ actions'[a].status = "approval_requested"
        <5>1. actions[a] \in ActionRow
          BY DEF TypeOK
        <5> QED
          BY <4>2, <5>1 DEF ActionRow
      <4> QED
        BY <4>2, <4>3
    <3> QED
      BY <3>1 DEF Unapproved
  <2> QED
    BY <1>1, <2>1, QuietSafe DEF Quiet
<1> QED
  BY <1>2, <1>3, <1>4

LEMMA ProceedingSafe ==
  ASSUME IInv, TypeOK', NEW p \in Caller, Proceeding(p)
  PROVE  IInv'
<1> DEFINE a == calls[p].action
<1>1. ASSUME ~At(p, "idle")
      PROVE  a \in Action
  BY <1>1 DEF IInv, CallsKeepIntent
<1>2. ASSUME AutopilotDecision(p)
      PROVE  IInv'
  <2>1. a \in Action /\ Intent(a) = "create_agent_mission"
    BY <1>2 DEF AutopilotDecision, At, IInv, CallsKeepIntent
  <2>2. CASE UNCHANGED <<actions, approvals>>
    BY <1>2, <2>1, <2>2, WriteSafe DEF AutopilotDecision
  <2>3. CASE RecordDecision(a, "approved", PolicyName)
    <3>1. Undisturbed({})
      BY <1>2, ReturnCalls DEF AutopilotDecision, IInv
    <3>2. UNCHANGED <<missions, effects, moved, suppressed>>
      BY <1>2 DEF AutopilotDecision
    <3> QED
      BY <2>1, <2>3, <3>1, <3>2, RecordSafe
  <2> QED
    BY <1>2, <2>2, <2>3 DEF AutopilotDecision
<1>3. ASSUME RequestWrite(p)
      PROVE  IInv'
  BY <1>1, <1>3, WriteSafe DEF RequestWrite, At
<1>4. ASSUME RejectWrite(p) \/ IssueFinish(p) \/ RollbackFinish(p) \/ DriveFinish(p)
      PROVE  IInv'
  <2>1. a \in Action
    BY <1>1, <1>4 DEF RejectWrite, IssueFinish, RollbackFinish, DriveFinish, At
  <2>2. PICK x \in Statuses \ {"approved"} : SetStatus(a, x)
    BY <1>4 DEF RejectWrite, IssueFinish, RollbackFinish, DriveFinish, Statuses
  <2>3. Return(p) /\ UNCHANGED <<approvals, missions, effects, moved, suppressed>>
    BY <1>4 DEF RejectWrite, IssueFinish, RollbackFinish, DriveFinish
  <2> QED
    BY <2>1, <2>2, <2>3, WriteSafe
<1>5. ASSUME SendFinish(p)
      PROVE  IInv'
  <2>1. a \in Action
    BY <1>1, <1>5 DEF SendFinish, At
  <2>2. UNCHANGED actions \/ \E x \in Statuses \ {"approved"} : SetStatus(a, x)
    BY <1>5 DEF SendFinish, Statuses
  <2>3. Return(p) /\ UNCHANGED <<approvals, missions, effects, moved, suppressed>>
    BY <1>5 DEF SendFinish
  <2> QED
    BY <2>1, <2>2, <2>3, WriteSafe
<1>6. ASSUME IssueClaim(p)
      PROVE  IInv'
  <2>1. a \in Action /\ ~At(p, "idle") /\ Intent(a) = "github_create_issue"
    BY <1>1, <1>6 DEF IssueClaim, At, IInv, CallsKeepIntent
  <2>2. CASE Status(a) = "approved"
    BY <1>6, <2>1, <2>2, ClaimSafe DEF IssueClaim
  <2>3. CASE Status(a) # "approved"
    BY <1>6, <2>1, <2>3, WriteSafe DEF IssueClaim
  <2> QED
    BY <2>2, <2>3
<1>7. ASSUME SendClaim(p)
      PROVE  IInv'
  <2>1. a \in Action /\ ~At(p, "idle") /\ Intent(a) = "outreach_send"
    BY <1>1, <1>7 DEF SendClaim, At, IInv, CallsKeepIntent
  <2>2. \/ /\ Status(a) = "approved"
           /\ SetStatus(a, "executing")
           /\ Continue(p, "send_claimed")
        \/ UNCHANGED actions /\ Return(p)
    BY <1>7 DEF SendClaim
  <2>3. UNCHANGED <<approvals, missions, effects, moved, suppressed>>
    BY <1>7 DEF SendClaim
  <2> QED
    BY <2>1, <2>2, <2>3, ClaimSafe, WriteSafe
<1>8. ASSUME IssueCall(p)
      PROVE  IInv'
  <2>1. calls[p].step \in Spending /\ ~At(p, "idle")
    BY <1>8 DEF IssueCall, At, Spending
  <2>2. PICK n \in {0, 1} : effects' = [effects EXCEPT ![a] = @ + n]
    BY <1>8 DEF IssueCall
  <2>3. Return(p) \/ \E s \in {"issue_opened", "issue_refused"} : Continue(p, s)
    BY <1>8 DEF IssueCall
  <2>4. Undisturbed({}) /\ calls'[p].step \notin Spending
    BY <2>1, <2>3, ContinueCalls, ReturnCalls DEF IInv, Undisturbed, Trusted, Spending
  <2>5. UNCHANGED <<actions, approvals, missions, moved, suppressed>>
    BY <1>8 DEF IssueCall
  <2> QED
    BY <2>1, <2>2, <2>4, <2>5, SpendSafe
<1>9. ASSUME SendCall(p)
      PROVE  IInv'
  <2>1. calls[p].step \in Spending /\ ~At(p, "idle")
    BY <1>9 DEF SendCall, At, Spending
  <2>2. PICK n \in {0, 1} : effects' = [effects EXCEPT ![a] = @ + n]
    BY <1>9 DEF SendCall
  <2>3. \E s \in {"send_accepted", "send_rejected", "send_unknown"} : Continue(p, s)
    BY <1>9 DEF SendCall
  <2>4. Undisturbed({}) /\ calls'[p].step \notin Spending
    BY <2>1, <2>3, ContinueCalls DEF IInv, Undisturbed, Trusted, Spending
  <2>5. UNCHANGED <<actions, approvals, missions, moved, suppressed>>
    BY <1>9 DEF SendCall
  <2> QED
    BY <2>1, <2>2, <2>4, <2>5, SpendSafe
<1>10. ASSUME RollbackMove(p)
       PROVE  IInv'
  <2>1. a \in Action
    BY <1>1, <1>10 DEF RollbackMove, At
  <2>2. \A b \in Action : moved'[b] \subseteq moved[b]
    BY <1>10, <2>1 DEF RollbackMove, MoveNext, IInv, TypeOK
  <2>3. \A q \in Caller : calls'[q].step = calls[q].step /\ calls'[q].action = calls[q].action
    BY <1>10 DEF RollbackMove, MoveNext, IInv, TypeOK, Call
  <2>4. UNCHANGED <<actions, approvals, missions, effects, suppressed>>
    BY <1>10 DEF RollbackMove, MoveNext
  <2>5. Undisturbed({}) /\ Unapproved({})
    BY <2>3, <2>4 DEF IInv, CallsKeepIntent, At, Undisturbed, Unapproved
  <2> QED
    BY <2>2, <2>4, <2>5, QuietSafe DEF Quiet
<1> QED
  BY <1>2, <1>3, <1>4, <1>5, <1>6, <1>7, <1>8, <1>9, <1>10, DriveClaimSafe, DriveMoveSafe,
     SendLockSafe
  DEF Proceeding

LEMMA OtherSafe ==
  ASSUME IInv, TypeOK',
         \/ \E a \in Action, r \in Results : Result(a, r)
         \/ \E a \in Action : DeployFinish(a)
         \/ Crash
         \/ Tick
         \/ UNCHANGED vars
  PROVE  IInv'
<1> USE DEF IInv
<1>1. ASSUME NEW a \in Action, NEW r \in Results, Result(a, r)
      PROVE  IInv'
  <2>1. PICK x \in Statuses \ {"approved"} : SetStatus(a, x)
    BY <1>1 DEF Result, Results, ActionStatusForResult, Statuses
  <2>2. Unapproved({})
    BY <2>1, StatusRow
  <2>3. Undisturbed({}) /\ UNCHANGED <<approvals, effects, moved, suppressed>>
    BY <1>1, SameCalls DEF Result
  <2>4. \A b \in Action : missions'[b] = "in_progress" => missions[b] = "in_progress"
    BY <1>1 DEF Result, Results, TypeOK
  <2> QED
    BY <2>2, <2>3, <2>4, QuietSafe DEF Quiet
<1>2. ASSUME NEW a \in Action, DeployFinish(a)
      PROVE  IInv'
  <2>1. PICK x \in {"executed", "failed"} : SetStatus(a, x)
    BY <1>2 DEF DeployFinish
  <2>2. Unapproved({})
    BY <2>1, StatusRow
  <2>3. Undisturbed({})
    BY <1>2, SameCalls DEF DeployFinish
  <2> QED
    BY <1>2, <2>2, <2>3, QuietSafe DEF DeployFinish, Quiet
<1>3. ASSUME Crash
      PROVE  IInv'
  <2>1. Undisturbed({})
    BY <1>3 DEF Crash, Undisturbed, CallsKeepIntent, At, Idle, Trusted, Spending
  <2>2. Unapproved({})
    BY <1>3 DEF Crash, Unapproved
  <2> QED
    BY <1>3, <2>1, <2>2, QuietSafe DEF Crash, Quiet
<1>4. ASSUME Tick \/ UNCHANGED vars
      PROVE  IInv'
  <2>1. UNCHANGED <<actions, approvals, missions, calls, effects, moved, suppressed>>
    BY <1>4 DEF Tick, vars
  <2>2. Undisturbed({}) /\ Unapproved({})
    BY <2>1, SameCalls DEF Unapproved
  <2> QED
    BY <2>1, <2>2, QuietSafe DEF Quiet
<1> QED
  BY <1>1, <1>2, <1>3, <1>4

-----------------------------------------------------------------------------
(* Theorems.                                                               *)

LEMMA InitSafe == Init => IInv
<1> SUFFICES ASSUME Init PROVE IInv
  OBVIOUS
<1> USE DEF Init
<1>1. TypeOK
  <2>1. actions \in [Action -> ActionRow]
    BY ActionsAssumption DEF ActionRow, Statuses, Expiries, Null
  <2>2. calls \in [Caller -> Call]
    BY DEF Idle, Call, Steps
  <2> QED
    BY <2>1, <2>2, ActionsAssumption DEF TypeOK, MissionStatuses
<1>2. \A a \in Action : Status(a) = "none"
  BY DEF Status
<1>3. \A p \in Caller : calls[p].step = "idle"
  BY DEF Idle
<1>4. OneDecision /\ OnlyHumansDeploy /\ EffectAtMostOnce /\ DispatchNeedsApproval
  BY DEF OneDecision, OnlyHumansDeploy, EffectAtMostOnce, DispatchNeedsApproval
<1>5. ApprovedIsUnspent /\ EffectNeedsApproval
  BY <1>2 DEF ApprovedIsUnspent, EffectNeedsApproval, Touched
<1>6. ClaimIsExclusive /\ DriveIsAuthorised /\ CallsKeepIntent /\ LockedIsWelcome
  BY <1>3
  DEF ClaimIsExclusive, DriveIsAuthorised, CallsKeepIntent, LockedIsWelcome, SpendingOn,
      Spending, At
<1> QED
  BY <1>1, <1>4, <1>5, <1>6 DEF IInv

LEMMA StepSafe ==
  ASSUME IInv, [Next]_vars
  PROVE  IInv'
<1>1. TypeOK'
  BY TypeStep DEF IInv
<1> QED
  BY <1>1, CreatingSafe, DecidingSafe, ReadingSafe, ProceedingSafe, DispatchSafe,
     SuppressionSafe, DeployClaimSafe, OtherSafe
  DEF Next

\* The inductive invariant holds in every state.
THEOREM ActionsInvariance == Spec => []IInv
<1>1. Init => IInv
  BY InitSafe
<1>2. IInv /\ [Next]_vars => IInv'
  BY StepSafe
<1> QED
  BY <1>1, <1>2, PTL DEF Spec

\* Every variable keeps the type of the rows and requests it stands for.
THEOREM ActionsTypeCorrect == Spec => []TypeOK
<1>1. IInv => TypeOK
  BY DEF IInv
<1> QED
  BY <1>1, ActionsInvariance, PTL

\* No handler, however late it writes, gives an action an effect that somebody
\* else than its proposer did not approve.
THEOREM EffectsAreApproved == Spec => []EffectNeedsApproval
<1>1. IInv => EffectNeedsApproval
  BY DEF IInv
<1> QED
  BY <1>1, ActionsInvariance, PTL

\* One approval is good for one lead, issue, mail or deployment, with any number
\* of requests racing for it, crashes and lost answers.
THEOREM OneEffectPerApproval == Spec => []EffectAtMostOnce
<1>1. IInv => EffectAtMostOnce
  BY DEF IInv
<1> QED
  BY <1>1, ActionsInvariance, PTL

\* A mission is only sent to its agent after an approval of its action.
THEOREM DispatchesAreApproved == Spec => []DispatchNeedsApproval
<1>1. IInv => DispatchNeedsApproval
  BY DEF IInv
<1> QED
  BY <1>1, ActionsInvariance, PTL

\* A refused action has no effect and its mission does not go out: the refusal
\* is its only decision, and an effect would need another.
THEOREM RefusalsStand == Spec => []RefusalStands
<1>1. IInv => RefusalStands
  <2> SUFFICES ASSUME IInv, NEW d \in approvals, d.decision = "rejected"
               PROVE  ~Touched(d.action) /\ missions[d.action] # "in_progress"
    BY DEF RefusalStands
  <2>1. d.action \in Action
    BY DEF IInv, TypeOK, ApprovalRow
  <2>2. ApprovedBy(d.action) = {}
    BY DEF IInv, OneDecision, ApprovedBy
  <2> QED
    BY <2>1, <2>2 DEF IInv, EffectNeedsApproval, DispatchNeedsApproval, Authorised
<1> QED
  BY <1>1, ActionsInvariance, PTL

\* The steps that have an effect on an action, by its intent.
LEMMA EffectSteps ==
  ASSUME IInv, [Next]_vars, NEW a \in Action, effects'[a] # effects[a]
  PROVE  \/ Intent(a) = "create_lead"
         \/ Intent(a) = "github_create_issue"
         \/ Intent(a) = "outreach_send" /\ a \notin suppressed
         \/ Intent(a) = "deploy_release" /\ DeployClaim(a)
<1>1. effects' # effects
  OBVIOUS
<1>2. \/ \E b \in Action : DeployClaim(b) \/ \E u \in Approver : DashboardApprove(b, u)
      \/ \E p \in Caller : IssueCall(p) \/ SendCall(p)
  <2>1. ASSUME NEW b \in Action, Creating(b) PROVE effects' = effects
    BY <2>1 DEF Creating, CreateAction, Propose, PromoteProposal, Prepare, CreateMission
  <2>2. ASSUME NEW b \in Action, Deciding(b), \A u \in Approver : ~DashboardApprove(b, u)
        PROVE  effects' = effects
    BY <2>2 DEF Deciding, HumanDecision, OperatorDecision
  <2>3. ASSUME NEW b \in Action, NEW p \in Caller, Reading(p, b) PROVE effects' = effects
    BY <2>3 DEF Reading, RequestRead, RejectRead, IssueRead, DriveRead, RollbackRead, SendRead
  <2>4. ASSUME NEW p \in Caller, Proceeding(p), ~IssueCall(p), ~SendCall(p)
        PROVE  effects' = effects
    <3>1. CASE AutopilotDecision(p) \/ RequestWrite(p) \/ RejectWrite(p)
      BY <3>1 DEF AutopilotDecision, RequestWrite, RejectWrite
    <3>2. CASE IssueClaim(p) \/ IssueFinish(p) \/ DriveClaim(p) \/ DriveFinish(p)
      BY <3>2 DEF IssueClaim, IssueFinish, DriveClaim, DriveFinish
    <3>3. CASE DriveMove(p) \/ RollbackMove(p) \/ RollbackFinish(p)
      BY <3>3 DEF DriveMove, RollbackMove, MoveNext, RollbackFinish
    <3>4. CASE SendClaim(p) \/ SendLock(p) \/ SendFinish(p)
      BY <3>4 DEF SendClaim, SendLock, SendFinish
    <3> QED
      BY <2>4, <3>1, <3>2, <3>3, <3>4 DEF Proceeding
  <2>5. ASSUME NEW b \in Action,
               Dispatch(b) \/ AddSuppression(b) \/ DeployFinish(b) \/ \E r \in Results : Result(b, r)
        PROVE  effects' = effects
    BY <2>5 DEF Dispatch, AddSuppression, DeployFinish, Result
  <2>6. Crash \/ Tick \/ UNCHANGED vars => effects' = effects
    BY DEF Crash, Tick, vars
  <2> QED
    BY <1>1, <2>1, <2>2, <2>3, <2>4, <2>5, <2>6 DEF Next
<1>3. ASSUME NEW b \in Action, DeployClaim(b)
      PROVE  Intent(a) = "deploy_release" /\ DeployClaim(a)
  <2>1. a = b
    BY <1>3 DEF DeployClaim, IInv, TypeOK
  <2> QED
    BY <1>3, <2>1 DEF DeployClaim
<1>4. ASSUME NEW b \in Action, NEW u \in Approver, DashboardApprove(b, u)
      PROVE  Intent(a) = "create_lead"
  BY <1>4 DEF DashboardApprove, IInv, TypeOK
<1>5. ASSUME NEW p \in Caller, IssueCall(p)
      PROVE  Intent(a) = "github_create_issue"
  <2>1. a = calls[p].action
    BY <1>5 DEF IssueCall, IInv, TypeOK
  <2> QED
    BY <1>5, <2>1 DEF IssueCall, IInv, CallsKeepIntent, At
<1>6. ASSUME NEW p \in Caller, SendCall(p)
      PROVE  Intent(a) = "outreach_send" /\ a \notin suppressed
  <2>1. a = calls[p].action
    BY <1>6 DEF SendCall, IInv, TypeOK
  <2> QED
    BY <1>6, <2>1 DEF SendCall, IInv, CallsKeepIntent, LockedIsWelcome, At
<1> QED
  BY <1>2, <1>3, <1>4, <1>5, <1>6

\* Only a human decision whose window is open starts a deployment.
THEOREM DeploymentsAreFresh == Spec => DeployOnFreshDecision
<1> DEFINE Fresh(a) ==
      Intent(a) = "deploy_release" /\ effects'[a] # effects[a] =>
        \E d \in ApprovedBy(a) : d.approver = HumanAdmin /\ d.expiry > clock
<1>1. ASSUME IInv, [Next]_vars, NEW a \in Action
      PROVE  Fresh(a)
  <2> SUFFICES ASSUME Intent(a) = "deploy_release", effects'[a] # effects[a]
               PROVE  \E d \in ApprovedBy(a) : d.approver = HumanAdmin /\ d.expiry > clock
    OBVIOUS
  <2>1. DeployClaim(a)
    BY <1>1, EffectSteps
  <2>2. PICK d \in ApprovedBy(a) : InWindow(d.expiry)
    BY <2>1 DEF DeployClaim
  <2>3. d.approver = HumanAdmin
    BY <1>1, <2>2 DEF IInv, OnlyHumansDeploy, ApprovedBy, InWindow
  <2> QED
    BY <2>2, <2>3 DEF InWindow
<1>2. IInv /\ [Next]_vars => [\A a \in Action : Fresh(a)]_vars
  BY <1>1
<1> QED
  BY <1>2, ActionsInvariance, PTL DEF Spec, DeployOnFreshDecision

\* A suppressed recipient gets no more mail.
THEOREM SuppressionHolds == Spec => SuppressedStaysUnsent
<1> DEFINE Unsent == \A a \in suppressed :
      Intent(a) = "outreach_send" => effects'[a] = effects[a]
<1>1. IInv /\ [Next]_vars => [Unsent]_vars
  BY EffectSteps DEF IInv, TypeOK
<1> QED
  BY <1>1, ActionsInvariance, PTL DEF Spec, SuppressedStaysUnsent

-----------------------------------------------------------------------------
(* Refinement: each step of a handler is a step of Consent for its action, *)
(* or changes nothing that Consent speaks of.                              *)

\* No handler changes what an action is for.
LEMMA IntentsLast ==
  ASSUME IInv, [Next]_vars, NEW x \in Action
  PROVE  Intent(x)' = Intent(x)
<1>0. actions \in [Action -> ActionRow] /\ \A p \in Caller : ~At(p, "idle") => calls[p].action \in Action
  BY DEF IInv, TypeOK, CallsKeepIntent
<1>1. UNCHANGED actions => Intent(x)' = Intent(x)
  BY DEF Intent
<1>2. ASSUME NEW a, NEW s, SetStatus(a, s) PROVE Intent(x)' = Intent(x)
  BY <1>0, <1>2 DEF SetStatus, Intent, ActionRow
<1>3. ASSUME NEW a, NEW s, NEW e, actions' = [actions EXCEPT ![a].status = s, ![a].expiry = e]
      PROVE  Intent(x)' = Intent(x)
  BY <1>0, <1>3 DEF Intent, ActionRow
<1>4. ASSUME NEW a \in Action, Creating(a) PROVE Intent(x)' = Intent(x)
  <2>1. \E s, e : Insert(a, s, e)
    BY <1>4 DEF Creating, CreateAction, Propose, PromoteProposal, Prepare, CreateMission
  <2> QED
    BY <1>3, <2>1 DEF Insert
<1>5. ASSUME NEW a \in Action, Deciding(a) PROVE Intent(x)' = Intent(x)
  BY <1>2, <1>5 DEF Deciding, HumanDecision, RecordDecision, OperatorDecision, DashboardApprove
<1>6. ASSUME NEW p \in Caller, NEW a \in Action, Reading(p, a) PROVE Intent(x)' = Intent(x)
  BY <1>1, <1>6 DEF Reading, RequestRead, RejectRead, IssueRead, DriveRead, RollbackRead, SendRead
<1>7. ASSUME NEW p \in Caller, Proceeding(p) PROVE Intent(x)' = Intent(x)
  <2>1. CASE AutopilotDecision(p)
    BY <1>1, <1>2, <2>1 DEF AutopilotDecision, RecordDecision
  <2>2. CASE RequestWrite(p) \/ RejectWrite(p)
    BY <1>2, <1>3, <2>2 DEF RequestWrite, RejectWrite
  <2>3. CASE IssueClaim(p) \/ IssueCall(p) \/ IssueFinish(p)
    BY <1>1, <1>2, <2>3 DEF IssueClaim, IssueCall, IssueFinish
  <2>4. CASE DriveClaim(p) \/ DriveMove(p) \/ DriveFinish(p) \/ RollbackMove(p) \/ RollbackFinish(p)
    BY <1>1, <1>2, <2>4 DEF DriveClaim, DriveMove, DriveFinish, RollbackMove, RollbackFinish, MoveNext
  <2>5. CASE SendClaim(p) \/ SendLock(p)
    BY <1>1, <1>2, <2>5 DEF SendClaim, SendLock
  <2>6. CASE SendCall(p) \/ SendFinish(p)
    BY <1>1, <1>2, <2>6 DEF SendCall, SendFinish
  <2> QED
    BY <1>7, <2>1, <2>2, <2>3, <2>4, <2>5, <2>6 DEF Proceeding
<1>8. ASSUME NEW a \in Action,
             Dispatch(a) \/ AddSuppression(a) \/ DeployClaim(a) \/ DeployFinish(a)
               \/ \E r \in Results : Result(a, r)
      PROVE  Intent(x)' = Intent(x)
  BY <1>1, <1>2, <1>8 DEF Dispatch, AddSuppression, DeployClaim, DeployFinish, Result
<1>9. Crash \/ Tick \/ UNCHANGED vars => Intent(x)' = Intent(x)
  BY <1>1 DEF Crash, Tick, vars
<1> QED
  BY <1>4, <1>5, <1>6, <1>7, <1>8, <1>9 DEF Next

\* What is recorded of an action, as Consent has it.
LEMMA Recorded ==
  ASSUME NEW a \in Action
  PROVE  /\ Promise!Undecided(a) <=> ~Decided(a)
         /\ Promise!Granted(a) <=> Authorised(a)
<1> DEFINE Row(d) == [thing |-> d.action, decision |-> d.decision, by |-> d.approver]
<1>1. \A d : Row(d).thing = d.action /\ Row(d).decision = d.decision /\ Row(d).by = d.approver
  OBVIOUS
<1>2. Decisions = {Row(d) : d \in approvals}
  BY DEF Decisions
<1> HIDE DEF Row
<1>3. Promise!Undecided(a) <=> ~Decided(a)
  BY <1>1, <1>2 DEF Promise!Undecided, Decided
<1>4. Promise!Granted(a) <=> Authorised(a)
  BY <1>1, <1>2 DEF Promise!Granted, Authorised, ApprovedBy
<1> QED
  BY <1>3, <1>4

\* An action may have its effect once it is authorised, as long as it had none.
LEMMA Performs ==
  ASSUME IInv, NEW a \in Action, Authorised(a), effects[a] = 0, a \notin Unwelcome,
         effects' = [effects EXCEPT ![a] = @ + 1],
         UNCHANGED <<approvals, moved, missions, suppressed>>,
         \A x \in Action : Intent(x)' = Intent(x)
  PROVE  Promise!Perform(a)
<1>1. effects' = [effects EXCEPT ![a] = 1]
  BY DEF IInv, TypeOK
<1>2. UNCHANGED <<Decisions, moved, MissionAt, Unwelcome>>
  BY DEF Decisions, MissionAt, Unwelcome, IInv, TypeOK
<1> QED
  BY <1>1, <1>2, Recorded DEF Promise!Perform, Promise!Effect

\* Nothing that Consent speaks of.
LEMMA Silent ==
  ASSUME IInv, UNCHANGED <<approvals, effects, moved, suppressed>>,
         \A x \in Action : MissionAt'[x] = MissionAt[x] /\ Intent(x)' = Intent(x)
  PROVE  UNCHANGED Promise!vars
<1>1. Decisions' = Decisions
  BY DEF Decisions
<1>2. Unwelcome' = Unwelcome
  BY DEF Unwelcome, IInv, TypeOK
<1>3. MissionAt' = MissionAt
  BY DEF MissionAt
<1> QED
  BY <1>1, <1>2, <1>3 DEF Promise!vars

\* A decision, as each of the three ways to take it records it.
LEMMA Decides ==
  ASSUME IInv, NEW a \in Action, NEW what \in {"approved", "rejected"},
         NEW who \in Approver \cup {HumanAdmin, PolicyName}, NEW e,
         what = "approved" => who # ProfileOf[a], Decide(a, what, who, e),
         UNCHANGED <<moved, missions, suppressed>>,
         \/ UNCHANGED effects
         \/ /\ what = "approved" /\ Intent(a) = "create_lead"
            /\ effects' = [effects EXCEPT ![a] = @ + 1],
         \A x \in Action : Intent(x)' = Intent(x)
  PROVE  Promise!Next
<1> DEFINE Row(d) == [thing |-> d.action, decision |-> d.decision, by |-> d.approver]
           added == [action |-> a, approver |-> who, decision |-> what, expiry |-> e]
<1>1. Decisions' = Decisions \cup {[thing |-> a, decision |-> what, by |-> who]}
  <2>1. Row(added) = [thing |-> a, decision |-> what, by |-> who]
    OBVIOUS
  <2>2. approvals' = approvals \cup {added}
    BY DEF Decide
  <2>3. Decisions = {Row(d) : d \in approvals} /\ Decisions' = {Row(d) : d \in approvals'}
    BY DEF Decisions
  <2> HIDE DEF Row, added
  <2> QED
    BY <2>1, <2>2, <2>3
<1>2. UNCHANGED <<moved, MissionAt, Unwelcome>>
  BY DEF MissionAt, Unwelcome, IInv, TypeOK
<1>3. Promise!Undecided(a)
  BY Recorded DEF Decide
<1>4. CASE what = "approved"
  <2>1. UNCHANGED effects \/ Promise!Effect(a)
    <3>1. CASE UNCHANGED effects
      BY <3>1
    <3>2. CASE Intent(a) = "create_lead" /\ effects' = [effects EXCEPT ![a] = @ + 1]
      <4>1. a \notin Unwelcome
        BY <3>2 DEF Unwelcome
      <4>2. effects[a] = 0
        <5>1. ~Authorised(a)
          BY DEF Decide, Decided, Authorised, ApprovedBy
        <5> QED
          BY <5>1 DEF IInv, EffectNeedsApproval, Touched, TypeOK
      <4>3. effects' = [effects EXCEPT ![a] = 1]
        BY <3>2, <4>2 DEF IInv, TypeOK
      <4> QED
        BY <4>1, <4>2, <4>3 DEF Promise!Effect
    <3> QED
      BY <3>1, <3>2
  <2>2. Promise!Approve(a, who)
    BY <1>1, <1>2, <1>3, <1>4, <2>1 DEF Promise!Approve, Promise!Decision
  <2> QED
    BY <2>2 DEF Promise!Next
<1>5. CASE what = "rejected"
  <2>1. Promise!Refuse(a, who)
    BY <1>1, <1>2, <1>3, <1>5 DEF Promise!Refuse, Promise!Decision
  <2> QED
    BY <2>1 DEF Promise!Next
<1> QED
  BY <1>4, <1>5

\* An action that was not created yet has no mission.
MissionsFollow == \A a \in Action : Status(a) = "none" => missions[a] = "none"

\* Nobody takes an action away again, and its mission starts with it at the
\* earliest.
LEMMA MissionsFollowStep ==
  ASSUME IInv, MissionsFollow, [Next]_vars
  PROVE  MissionsFollow'
<1> SUFFICES ASSUME NEW x \in Action, Status(x)' = "none"
             PROVE  missions'[x] = "none"
  BY DEF MissionsFollow
<1>0. /\ actions \in [Action -> ActionRow] /\ missions \in [Action -> MissionStatuses]
      /\ \A p \in Caller : ~At(p, "idle") => calls[p].action \in Action
  BY DEF IInv, TypeOK, CallsKeepIntent
<1>1. ASSUME UNCHANGED <<actions, missions>> PROVE missions'[x] = "none"
  BY <1>1 DEF Status, MissionsFollow
<1>2. ASSUME NEW a \in Action, NEW s, s # "none", SetStatus(a, s),
             \A y \in Action \ {a} : missions'[y] = missions[y]
      PROVE  missions'[x] = "none"
  BY <1>0, <1>2 DEF SetStatus, Status, ActionRow, MissionsFollow
<1>3. ASSUME NEW a \in Action, NEW s, s # "none", NEW e,
             actions' = [actions EXCEPT ![a].status = s, ![a].expiry = e],
             \A y \in Action \ {a} : missions'[y] = missions[y]
      PROVE  missions'[x] = "none"
  BY <1>0, <1>3 DEF Status, ActionRow, MissionsFollow
<1>4. ASSUME NEW a \in Action, Creating(a) PROVE missions'[x] = "none"
  <2>1. \E s, e : s # "none" /\ Insert(a, s, e)
    BY <1>4 DEF Creating, CreateAction, Propose, PromoteProposal, Prepare, CreateMission
  <2>2. \A y \in Action \ {a} : missions'[y] = missions[y]
    BY <1>0, <1>4 DEF Creating, CreateAction, Propose, PromoteProposal, Prepare, CreateMission
  <2> QED
    BY <1>3, <2>1, <2>2 DEF Insert
<1>5. ASSUME NEW a \in Action, Deciding(a) PROVE missions'[x] = "none"
  BY <1>2, <1>5 DEF Deciding, HumanDecision, RecordDecision, OperatorDecision, DashboardApprove
<1>6. ASSUME NEW p \in Caller, NEW a \in Action, Reading(p, a) PROVE missions'[x] = "none"
  BY <1>1, <1>6 DEF Reading, RequestRead, RejectRead, IssueRead, DriveRead, RollbackRead, SendRead
<1>7. ASSUME NEW p \in Caller, Proceeding(p) PROVE missions'[x] = "none"
  <2>1. CASE AutopilotDecision(p)
    BY <1>0, <1>1, <1>2, <2>1 DEF AutopilotDecision, RecordDecision, At
  <2>2. CASE RequestWrite(p) \/ RejectWrite(p)
    BY <1>0, <1>2, <1>3, <2>2 DEF RequestWrite, RejectWrite, At
  <2>3. CASE IssueClaim(p) \/ IssueCall(p) \/ IssueFinish(p)
    BY <1>0, <1>1, <1>2, <2>3 DEF IssueClaim, IssueCall, IssueFinish, At
  <2>4. CASE DriveClaim(p) \/ DriveMove(p) \/ DriveFinish(p) \/ RollbackMove(p) \/ RollbackFinish(p)
    BY <1>0, <1>1, <1>2, <2>4
    DEF DriveClaim, DriveMove, DriveFinish, RollbackMove, RollbackFinish, MoveNext, At
  <2>5. CASE SendClaim(p) \/ SendLock(p)
    BY <1>0, <1>1, <1>2, <2>5 DEF SendClaim, SendLock, At
  <2>6. CASE SendCall(p) \/ SendFinish(p)
    BY <1>0, <1>1, <1>2, <2>6 DEF SendCall, SendFinish, At
  <2> QED
    BY <1>7, <2>1, <2>2, <2>3, <2>4, <2>5, <2>6 DEF Proceeding
<1>8. ASSUME NEW a \in Action, Dispatch(a)
      PROVE  missions'[x] = "none"
  <2>1. Status(x) = "none" /\ Status(a) = "approved"
    BY <1>8 DEF Dispatch, CanDispatch, Status
  <2> QED
    BY <1>0, <1>8, <2>1 DEF Dispatch, MissionsFollow
<1>9. ASSUME NEW a \in Action, NEW r \in Results, Result(a, r)
      PROVE  missions'[x] = "none"
  <2>1. ActionStatusForResult(r) # "none"
    BY DEF Results, ActionStatusForResult
  <2>2. \A y \in Action \ {a} : missions'[y] = missions[y]
    BY <1>0, <1>9 DEF Result
  <2> QED
    BY <1>2, <1>9, <2>1, <2>2 DEF Result
<1>10. ASSUME NEW a \in Action, AddSuppression(a) \/ DeployClaim(a) \/ DeployFinish(a)
       PROVE  missions'[x] = "none"
  BY <1>1, <1>2, <1>10 DEF AddSuppression, DeployClaim, DeployFinish
<1>11. Crash \/ Tick \/ UNCHANGED vars => missions'[x] = "none"
  BY <1>1 DEF Crash, Tick, vars
<1> QED
  BY <1>4, <1>5, <1>6, <1>7, <1>8, <1>9, <1>10, <1>11 DEF Next

LEMMA CreatingMaps ==
  ASSUME IInv, MissionsFollow, [Next]_vars, NEW a \in Action, Creating(a)
  PROVE  UNCHANGED Promise!vars
<1>1. UNCHANGED <<approvals, effects, moved, suppressed>>
  BY DEF Creating, CreateAction, Propose, PromoteProposal, Prepare, CreateMission
<1>2. Status(a) = "none"
  BY DEF Creating, CreateAction, Propose, PromoteProposal, Prepare, CreateMission, Insert
<1>3. missions' = missions \/ missions' = [missions EXCEPT ![a] = "pending"]
  BY DEF Creating, CreateAction, Propose, PromoteProposal, Prepare, CreateMission
<1>4. \A x \in Action : MissionAt'[x] = MissionAt[x]
  BY <1>2, <1>3 DEF MissionAt, MissionsFollow, IInv, TypeOK
<1> QED
  BY <1>1, <1>4, Silent, IntentsLast

\* Requests that decide nothing and reach nobody.
LEMMA Unheard ==
  ASSUME IInv, [Next]_vars, UNCHANGED <<approvals, effects, moved, missions, suppressed>>
  PROVE  UNCHANGED Promise!vars
<1>1. \A x \in Action : MissionAt'[x] = MissionAt[x]
  BY DEF MissionAt
<1> QED
  BY <1>1, Silent, IntentsLast

LEMMA RecordMaps ==
  ASSUME IInv, [Next]_vars, NEW a \in Action, NEW what \in {"approved", "rejected"},
         NEW who \in {HumanAdmin, PolicyName}, RecordDecision(a, what, who),
         UNCHANGED <<effects, moved, missions, suppressed>>
  PROVE  Promise!Next \/ UNCHANGED Promise!vars
<1>1. CASE UNCHANGED approvals
  BY <1>1, Unheard
<1>2. CASE Decide(a, what, who, Expiry(a)) /\ (what = "approved" => who # ProfileOf[a])
  BY <1>2, Decides, IntentsLast
<1> QED
  BY <1>1, <1>2 DEF RecordDecision

LEMMA DecidingMaps ==
  ASSUME IInv, [Next]_vars, NEW a \in Action, Deciding(a)
  PROVE  Promise!Next \/ UNCHANGED Promise!vars
<1>1. ASSUME NEW d \in {"approved", "rejected"}, HumanDecision(a, d)
      PROVE  Promise!Next \/ UNCHANGED Promise!vars
  BY <1>1, RecordMaps DEF HumanDecision
<1>2. ASSUME NEW d \in {"approved", "rejected"}, NEW who \in Approver \cup {HumanAdmin},
             OperatorDecision(a, d, who)
      PROVE  Promise!Next
  BY <1>2, Decides, IntentsLast DEF OperatorDecision
<1>3. ASSUME NEW who \in Approver, DashboardApprove(a, who)
      PROVE  Promise!Next
  <2>1. /\ Decide(a, "approved", who, Null) /\ who # ProfileOf[a]
        /\ UNCHANGED <<moved, missions, suppressed>>
    BY <1>3 DEF DashboardApprove
  <2>2. \/ UNCHANGED effects
        \/ Intent(a) = "create_lead" /\ effects' = [effects EXCEPT ![a] = @ + 1]
    BY <1>3 DEF DashboardApprove
  <2> QED
    BY <2>1, <2>2, Decides, IntentsLast
<1> QED
  BY <1>1, <1>2, <1>3 DEF Deciding

LEMMA MissionMaps ==
  ASSUME IInv, [Next]_vars, NEW a \in Action, Dispatch(a) \/ \E r \in Results : Result(a, r)
  PROVE  Promise!Next
<1>1. UNCHANGED <<Decisions, effects, moved, Unwelcome>>
  BY IntentsLast DEF Dispatch, Result, Decisions, Unwelcome, IInv, TypeOK
<1>2. CASE Dispatch(a)
  <2>1. MissionAt[a] = "home" /\ MissionAt' = [MissionAt EXCEPT ![a] = "out"]
    BY <1>2 DEF Dispatch, CanDispatch, MissionAt, IInv, TypeOK
  <2>2. Authorised(a)
    BY <1>2 DEF Dispatch, CanDispatch, IInv, EffectNeedsApproval
  <2>3. Promise!GoOut(a)
    BY <1>1, <2>1, <2>2, Recorded DEF Promise!GoOut
  <2> QED
    BY <2>3 DEF Promise!Next
<1>3. ASSUME NEW r \in Results, Result(a, r)
      PROVE  Promise!Next
  <2>1. MissionAt[a] # "over" /\ MissionAt' = [MissionAt EXCEPT ![a] = "over"]
    BY <1>3 DEF Result, Results, MissionAt, IInv, TypeOK
  <2>2. Promise!ComeBack(a)
    BY <1>1, <2>1 DEF Promise!ComeBack
  <2> QED
    BY <2>2 DEF Promise!Next
<1> QED
  BY <1>2, <1>3

LEMMA SuppressionMaps ==
  ASSUME IInv, [Next]_vars, NEW a \in Action, AddSuppression(a)
  PROVE  Promise!Next \/ UNCHANGED Promise!vars
<1>1. UNCHANGED <<Decisions, effects, moved, MissionAt>>
  BY DEF AddSuppression, Decisions, MissionAt
<1>2. Unwelcome' = Unwelcome \/ Unwelcome' = Unwelcome \cup {a}
  <2>1. \A x \in Action : Intent(x)' = Intent(x)
    BY IntentsLast
  <2> QED
    BY <2>1 DEF AddSuppression, Unwelcome, IInv, TypeOK
<1> QED
  BY <1>1, <1>2 DEF Promise!Next, Promise!Bar, Promise!vars

LEMMA DeployMaps ==
  ASSUME IInv, [Next]_vars, NEW a \in Action, DeployClaim(a)
  PROVE  Promise!Next
<1>1. Authorised(a) /\ effects[a] = 0
  BY DEF DeployClaim, IInv, EffectNeedsApproval, ApprovedIsUnspent
<1>2. a \notin Unwelcome
  BY DEF DeployClaim, Unwelcome
<1>3. Promise!Perform(a)
  BY <1>1, <1>2, Performs, IntentsLast DEF DeployClaim
<1> QED
  BY <1>3 DEF Promise!Next

\* A file that is moved or taken back.
LEMMA MoveMaps ==
  ASSUME IInv, [Next]_vars, NEW p \in Caller, DriveMove(p) \/ RollbackMove(p)
  PROVE  Promise!Next \/ UNCHANGED Promise!vars
<1> DEFINE a == calls[p].action
<1>1. a \in Action /\ calls[p].left \subseteq File
  BY DEF DriveMove, RollbackMove, At, IInv, CallsKeepIntent, TypeOK, Call
<1>2. UNCHANGED <<approvals, effects, missions, suppressed>>
  BY DEF DriveMove, RollbackMove, MoveNext
<1>3. UNCHANGED <<Decisions, effects, MissionAt, Unwelcome>>
  BY <1>2, IntentsLast DEF Decisions, MissionAt, Unwelcome, IInv, TypeOK
<1>4. CASE UNCHANGED moved
  BY <1>3, <1>4 DEF Promise!vars
<1>5. CASE DriveMove(p) /\ moved' # moved
  <2>1. PICK f \in File : moved' = [moved EXCEPT ![a] = @ \cup {f}]
    BY <1>1, <1>5 DEF DriveMove, MoveNext
  <2>2. Authorised(a)
    BY <1>5 DEF DriveMove, At, IInv, DriveIsAuthorised
  <2>3. Promise!Move(a, f)
    BY <1>1, <1>3, <2>1, <2>2, Recorded DEF Promise!Move
  <2> QED
    BY <1>1, <2>3 DEF Promise!Next
<1>6. CASE RollbackMove(p) /\ moved' # moved
  <2>1. PICK f \in File : moved' = [moved EXCEPT ![a] = @ \ {f}]
    BY <1>1, <1>6 DEF RollbackMove, MoveNext
  <2>2. Promise!TakeBack(a, f)
    BY <1>3, <2>1 DEF Promise!TakeBack
  <2> QED
    BY <1>1, <2>2 DEF Promise!Next
<1> QED
  BY <1>4, <1>5, <1>6

\* A call to GitHub or to Brevo: it may have its effect whatever it answers.
LEMMA CallMaps ==
  ASSUME IInv, [Next]_vars, NEW p \in Caller, IssueCall(p) \/ SendCall(p)
  PROVE  Promise!Next \/ UNCHANGED Promise!vars
<1> DEFINE a == calls[p].action
<1>1. a \in Action /\ SpendingOn(p, a)
  BY DEF IssueCall, SendCall, At, IInv, CallsKeepIntent, SpendingOn, Spending
<1>2. effects[a] = 0 /\ Authorised(a)
  BY <1>1 DEF IInv, ClaimIsExclusive
<1>3. a \notin Unwelcome
  BY DEF IssueCall, SendCall, Unwelcome, IInv, CallsKeepIntent, LockedIsWelcome, At
<1>4. UNCHANGED <<approvals, moved, missions, suppressed>>
  BY DEF IssueCall, SendCall
<1>5. UNCHANGED effects \/ effects' = [effects EXCEPT ![a] = @ + 1]
  BY <1>1 DEF IssueCall, SendCall, IInv, TypeOK
<1>6. CASE UNCHANGED effects
  BY <1>4, <1>6, Unheard
<1>7. CASE effects' = [effects EXCEPT ![a] = @ + 1]
  <2>1. Promise!Perform(a)
    BY <1>1, <1>2, <1>3, <1>4, <1>7, Performs, IntentsLast
  <2> QED
    BY <1>1, <2>1 DEF Promise!Next
<1> QED
  BY <1>5, <1>6, <1>7

LEMMA ProceedingMaps ==
  ASSUME IInv, [Next]_vars, NEW p \in Caller, Proceeding(p)
  PROVE  Promise!Next \/ UNCHANGED Promise!vars
<1>1. CASE AutopilotDecision(p)
  <2>1. calls[p].action \in Action
    BY <1>1 DEF AutopilotDecision, At, IInv, CallsKeepIntent
  <2>2. CASE UNCHANGED approvals
    BY <1>1, <2>2, Unheard DEF AutopilotDecision
  <2> QED
    BY <1>1, <2>1, <2>2, RecordMaps DEF AutopilotDecision
<1>2. CASE RequestWrite(p) \/ RejectWrite(p)
  BY <1>2, Unheard DEF RequestWrite, RejectWrite
<1>3. CASE IssueClaim(p) \/ IssueFinish(p)
  BY <1>3, Unheard DEF IssueClaim, IssueFinish
<1>4. CASE DriveClaim(p) \/ DriveFinish(p) \/ RollbackFinish(p)
  BY <1>4, Unheard DEF DriveClaim, DriveFinish, RollbackFinish
<1>5. CASE SendClaim(p) \/ SendLock(p) \/ SendFinish(p)
  BY <1>5, Unheard DEF SendClaim, SendLock, SendFinish
<1> QED
  BY <1>1, <1>2, <1>3, <1>4, <1>5, MoveMaps, CallMaps DEF Proceeding

LEMMA ConsentStep ==
  IInv /\ MissionsFollow /\ [Next]_vars => [Promise!Next]_(Promise!vars)
<1> SUFFICES ASSUME IInv, MissionsFollow, [Next]_vars
             PROVE  Promise!Next \/ UNCHANGED Promise!vars
  OBVIOUS
<1>1. ASSUME NEW p \in Caller, NEW a \in Action, Reading(p, a)
      PROVE  UNCHANGED Promise!vars
  BY <1>1, Unheard DEF Reading, RequestRead, RejectRead, IssueRead, DriveRead, RollbackRead,
     SendRead
<1>2. ASSUME NEW a \in Action, DeployFinish(a)
      PROVE  UNCHANGED Promise!vars
  BY <1>2, Unheard DEF DeployFinish
<1>3. Crash \/ Tick \/ UNCHANGED vars => UNCHANGED Promise!vars
  BY Unheard DEF Crash, Tick, vars
<1> QED
  BY <1>1, <1>2, <1>3, CreatingMaps, DecidingMaps, MissionMaps, SuppressionMaps, DeployMaps,
     ProceedingMaps DEF Next

\* The handlers implement Consent: whatever requests race, repeat or die, an
\* action is decided on once, has its effect after somebody else approved it and
\* only once, and its files move and its mission goes out with consent only.
THEOREM ConsentKept == Spec => ImplementsConsent
<1>1. Init => Promise!Init /\ MissionsFollow
  BY DEF Init, Promise!Init, Decisions, MissionAt, Unwelcome, MissionsFollow
<1>2. IInv /\ MissionsFollow /\ [Next]_vars => MissionsFollow'
  BY MissionsFollowStep
<1>3. IInv /\ MissionsFollow /\ [Next]_vars => [Promise!Next]_(Promise!vars)
  BY ConsentStep
<1> QED
  BY <1>1, <1>2, <1>3, ActionsInvariance, PTL DEF Spec, ImplementsConsent, Promise!Spec
=============================================================================
