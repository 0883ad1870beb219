------------------------ MODULE ExecutionStepProofs ------------------------
(***************************************************************************)
(* What no step of ExecutionControl may do, what the verification of the   *)
(* prerequisites of an attempt is worth afterwards, that the foundation's  *)
(* promises survive it, that it implements OneWriter, and that             *)
(* reservations fit into the quota, for every value of the constants.      *)
(***************************************************************************)
EXTENDS ExecutionControlProofs

-----------------------------------------------------------------------------
(* Every step is one of these, whoever takes it.                           *)

Begins(m, a, o) == Queue(m, a, o) \/ Retry(m, a, o)

\* Only time limits and approvals differ afterwards.
Quiet == UNCHANGED <<missionVars, attemptVars, heldVars>>

Refused(m) ==
  /\ Block(m)
  /\ lifecycle[m] \notin TerminalMissions \cup Stopping

LEMMA RefusalsBlock ==
  ASSUME IInv,
         \/ \E m \in Missions, o \in Options : QueueBlocked(m, o) \/ RetryBlocked(m, o)
         \/ \E a \in Attempts : ClaimBlocked(a) \/ StartBlocked(a)
  PROVE  \E m \in Missions : Refused(m)
<1>1. ASSUME NEW m \in Missions, NEW o \in Options, QueueBlocked(m, o) \/ RetryBlocked(m, o)
      PROVE  Refused(m)
  BY <1>1 DEF QueueBlocked, Queueable, RetryBlocked, RetryPermitted, Refused, TerminalMissions,
     Stopping
<1>2. ASSUME NEW a \in Attempts, ClaimBlocked(a) \/ StartBlocked(a)
      PROVE  /\ MissionOf(a) \in Missions
             /\ Refused(MissionOf(a))
  <2>1. Verified(a, TRUE) /\ Block(MissionOf(a))
    BY <1>2 DEF ClaimBlocked, Claimable, StartBlocked, Startable
  <2>2. MissionOf(a) \in Missions /\ Unstopped(a)
    BY <2>1 DEF Verified, BindingCurrent, Unstopped
  <2> QED
    BY <2>1, <2>2, AtRest DEF TerminalAtRest, Refused, Verified
<1> QED
  BY <1>1, <1>2

LEMMA StepCases ==
  ASSUME IInv, [Next]_vars
  PROVE  \/ Foundation
         \/ \E m \in Missions, a \in Attempts, o \in Options : Begins(m, a, o)
         \/ \E a \in Attempts : Claim(a) \/ Start(a) \/ Progress(a)
         \/ \E S \in SUBSET {a \in Attempts : Live(a)} : Expire(S)
         \/ \E a \in Attempts, outcome \in Outcomes, h \in Heads \cup {NoHead} :
              Complete(a, outcome, h)
         \/ \E a \in Attempts : Supervisor(a)
         \/ \E m \in Missions : Refused(m) \/ Review(m)
         \/ \E m, d \in Missions : RecordMergeEvidence(m, d)
         \/ Quiet
<1>1. ASSUME NEW m \in Missions, Operator(m)
      PROVE  \/ \E a \in Attempts, o \in Options : Begins(m, a, o)
             \/ \E n \in Missions : Refused(n) \/ Review(n)
             \/ \E d \in Missions : RecordMergeEvidence(m, d)
  BY <1>1, RefusalsBlock DEF Operator, Begins
<1>2. ASSUME NEW a \in Attempts, Worker(a)
      PROVE  \/ Claim(a) \/ Start(a) \/ Progress(a)
             \/ \E S \in SUBSET {b \in Attempts : Live(b)} : Expire(S)
             \/ \E outcome \in Outcomes, h \in Heads \cup {NoHead} : Complete(a, outcome, h)
             \/ \E n \in Missions : Refused(n)
             \/ Quiet
  <2>1. CASE LateCallback(a)
    <3>1. {a} \in SUBSET {b \in Attempts : Live(b)}
      BY <2>1 DEF LateCallback
    <3> QED
      BY <2>1, <3>1 DEF LateCallback
  <2>2. CASE ClaimBlocked(a) \/ StartBlocked(a)
    BY <2>2, RefusalsBlock
  <2>3. CASE Heartbeat(a)
    BY <2>3 DEF Heartbeat, Quiet
  <2> QED
    BY <1>2, <2>1, <2>2, <2>3 DEF Worker
<1>3. CASE ScanExpired
  <2>1. {a \in Attempts : Live(a) /\ Expired(a)} \in SUBSET {a \in Attempts : Live(a)}
    OBVIOUS
  <2> QED
    BY <1>3, <2>1 DEF ScanExpired
<1>4. CASE \/ \E a \in Attempts, type \in ApprovalTypes : BindApproval(a, type)
           \/ \E g \in granted : ApprovalLapses(g)
           \/ Tick
           \/ UNCHANGED vars
  BY <1>4 DEF BindApproval, ApprovalLapses, Tick, vars, Quiet
<1> QED
  BY <1>1, <1>2, <1>3, <1>4 DEF Next

\* A generation that may still act is the one its mission names, and the mission
\* has not ended.
LEMMA ActingMission ==
  ASSUME IInv, NEW a \in Attempts, Unstopped(a)
  PROVE  /\ MissionOf(a) \in Missions
         /\ current[MissionOf(a)] = a
         /\ lifecycle[MissionOf(a)] \notin TerminalMissions
BY AtRest DEF IInv, OneGeneration, TerminalAtRest

-----------------------------------------------------------------------------
(* Action properties.                                                      *)

\* What a late callback, a scan or a reconciliation may never do to an attempt
\* that stopped acting.
AttemptStep ==
  \A a \in Attempts :
    status[a] # "none" =>
      /\ ~ Live(a) => ~ Live(a)'
      /\ status[a] \in TerminalStatus => status'[a] = status[a]
      /\ stopProof[a] => stopProof'[a]

LEMMA AttemptStepHolds == IInv /\ [Next]_vars => AttemptStep
<1> SUFFICES ASSUME IInv, [Next]_vars PROVE AttemptStep
  OBVIOUS
<1> USE DEF AttemptStep, Live, IInv, TypeOK
<1>1. CASE UNCHANGED <<status, stopProof>>
  BY <1>1
<1>2. ASSUME NEW m \in Missions, NEW a \in Attempts, NEW o \in Options, Begins(m, a, o)
      PROVE  AttemptStep
  BY <1>2 DEF Begins, Queue, Retry, Create
<1>3. ASSUME NEW a \in Attempts, Claim(a) \/ Start(a)
      PROVE  AttemptStep
  BY <1>3 DEF Claim, Claimable, Start, Startable, LiveStatus, TerminalStatus
<1>4. ASSUME NEW S \in SUBSET {a \in Attempts : Live(a)}, Expire(S)
      PROVE  AttemptStep
  BY <1>4 DEF Expire, LiveStatus, TerminalStatus
<1>5. ASSUME NEW a \in Attempts, NEW outcome \in Outcomes, NEW h \in Heads \cup {NoHead},
             Complete(a, outcome, h)
      PROVE  AttemptStep
  BY <1>5 DEF Complete, LiveStatus, TerminalStatus
<1>6. ASSUME NEW a \in Attempts, ReconcileStopped(a)
      PROVE  AttemptStep
  BY <1>6 DEF ReconcileStopped, StopRecorded, LiveStatus, TerminalStatus
<1>7. CASE \/ \E a \in Attempts : Progress(a) \/ ReconcileEnded(a) \/ ReconcileUnknown(a)
           \/ \E m \in Missions : Refused(m) \/ Review(m)
           \/ \E m, d \in Missions : RecordMergeEvidence(m, d)
           \/ Foundation
           \/ Quiet
  BY <1>1, <1>7 DEF Progress, ReconcileEnded, ReconcileUnknown, Refused, Block, Review,
     RecordMergeEvidence, Foundation, Quiet, attemptVars
<1> QED
  BY <1>2, <1>3, <1>4, <1>5, <1>6, <1>7, StepCases DEF Supervisor

\* No late callback, scan or reconciliation brings a generation back, changes
\* how it ended, or takes the proof of its stop away.
THEOREM NothingRevives == Spec => NoRevival
<1>1. IInv /\ [Next]_vars => [AttemptStep]_vars
  BY AttemptStepHolds
<1> QED
  BY <1>1, Invariance, PTL DEF Spec, NoRevival, AttemptStep

\* What no step does to a mission that ended.
MissionStep ==
  \A m \in Missions :
    lifecycle[m] \in TerminalMissions =>
      /\ lifecycle'[m] = lifecycle[m]
      /\ lifecycle[m] = "completed" => head'[m] = head[m]

\* A step that only touches missions that have not ended.
LEMMA OnlyOpenMissions ==
  ASSUME IInv, NEW m \in Missions, lifecycle[m] \notin TerminalMissions,
         \A n \in Missions \ {m} : lifecycle'[n] = lifecycle[n] /\ head'[n] = head[n]
  PROVE  MissionStep
BY DEF MissionStep

LEMMA MissionStepHolds == IInv /\ [Next]_vars => MissionStep
<1> SUFFICES ASSUME IInv, [Next]_vars PROVE MissionStep
  OBVIOUS
<1> DEFINE Only(m) == \A n \in Missions \ {m} : lifecycle'[n] = lifecycle[n] /\ head'[n] = head[n]
<1>1. CASE Foundation
  BY <1>1 DEF Foundation, StoreNext, Admit, Transition, FoundationTransitions, SavePlan,
     Cancel, TerminalMissions, MissionStep, IInv, TypeOK, StoreTypeOK
<1>2. ASSUME NEW m \in Missions, NEW a \in Attempts, NEW o \in Options, Begins(m, a, o)
      PROVE  MissionStep
  <2>1. lifecycle[m] \notin TerminalMissions
    BY <1>2 DEF Begins, Queue, Queueable, Retry, RetryPermitted, TerminalMissions
  <2>2. Only(m)
    BY <1>2 DEF Begins, Queue, Retry, Create, IInv, TypeOK, StoreTypeOK
  <2> QED
    BY <2>1, <2>2, OnlyOpenMissions
<1>3. ASSUME NEW a \in Attempts, Claim(a) \/ Start(a) \/ Progress(a)
      PROVE  MissionStep
  <2>1. Unstopped(a)
    BY <1>3 DEF Claim, Claimable, Start, Startable, Progress, Verified, Unstopped
  <2>2. Only(MissionOf(a))
    BY <1>3 DEF Claim, Start, Progress, IInv, TypeOK, StoreTypeOK
  <2> QED
    BY <2>1, <2>2, ActingMission, OnlyOpenMissions
<1>4. ASSUME NEW S \in SUBSET {a \in Attempts : Live(a)}, Expire(S)
      PROVE  MissionStep
  <2>1. \A a \in S : lifecycle[MissionOf(a)] \notin TerminalMissions
    BY ActingMission DEF Unstopped
  <2> QED
    BY <1>4, <2>1 DEF Expire, MissionStep
<1>5. ASSUME NEW a \in Attempts, NEW outcome \in Outcomes, NEW h \in Heads \cup {NoHead},
             Complete(a, outcome, h)
      PROVE  MissionStep
  <2>1. Unstopped(a)
    BY <1>5 DEF Complete, Verified, Unstopped
  <2>2. Only(MissionOf(a))
    BY <1>5 DEF Complete, IInv, TypeOK, StoreTypeOK
  <2> QED
    BY <2>1, <2>2, ActingMission, OnlyOpenMissions
<1>6. ASSUME NEW a \in Attempts, Supervisor(a)
      PROVE  MissionStep
  <2>1. Reconcilable(a)
    BY <1>6 DEF Supervisor, ReconcileEnded, ReconcileStopped, ReconcileUnknown
  <2>2. MissionOf(a) \in Missions /\ lifecycle[MissionOf(a)] \notin TerminalMissions
    <3>1. CASE Cancelling(MissionOf(a))
      BY <2>1, <3>1 DEF Reconcilable, Cancelling, Stopping, TerminalMissions
    <3>2. CASE status[a] = "stale" /\ ~ stopProof[a]
      BY <3>2, ActingMission DEF Unstopped
    <3> QED
      BY <2>1, <3>1, <3>2 DEF Reconcilable
  <2>3. Only(MissionOf(a))
    BY <1>6 DEF Supervisor, ReconcileEnded, ReconcileStopped, ReconcileUnknown,
       IInv, TypeOK, StoreTypeOK
  <2> QED
    BY <2>2, <2>3, OnlyOpenMissions
<1>7. ASSUME NEW m \in Missions, Refused(m) \/ Review(m)
      PROVE  MissionStep
  <2>1. lifecycle[m] \notin TerminalMissions
    BY <1>7 DEF Refused, Review, ReviewStep, TerminalMissions
  <2>2. Only(m)
    BY <1>7 DEF Refused, Block, Review, IInv, TypeOK, StoreTypeOK
  <2> QED
    BY <2>1, <2>2, OnlyOpenMissions
<1>8. CASE \/ \E m, d \in Missions : RecordMergeEvidence(m, d)
           \/ Quiet
  BY <1>8 DEF RecordMergeEvidence, storeVars, Quiet, missionVars, MissionStep
<1> QED
  BY <1>1, <1>2, <1>3, <1>4, <1>5, <1>6, <1>7, <1>8, StepCases

\* A mission that ended keeps its state, and a completed one the commit that
\* its dependents verified.
THEOREM EndsAreFinal == Spec => EndIsFinal
<1>1. IInv /\ [Next]_vars => [MissionStep]_vars
  BY MissionStepHolds
<1> QED
  BY <1>1, Invariance, PTL DEF Spec, EndIsFinal, MissionStep

\* What a generation owes to the one before it.
SuccessorStep ==
  \A m \in Missions :
    LET former == current[m]
        next   == current'[m]
    IN next # former /\ former # NoAttempt =>
         /\ stopProof[former]
         /\ status'[next] = "queued"
         /\ identity'[next].number = identity[former].number + 1
         /\ identity[former].approval => identity'[next].approval

LEMMA RetrySucceeds ==
  ASSUME IInv, NEW m \in Missions, NEW a \in Attempts, NEW o \in Options, Retry(m, a, o)
  PROVE  SuccessorStep
<1> DEFINE former == current[m]
           approval == identity[former].approval \/ o.approval
<1>1. former \in Attempts /\ former # NoAttempt /\ stopProof[former]
  BY DEF Retry, RetryPermitted, IInv, TypeOK, StoreTypeOK
<1>2. Create(m, a, o, approval)
  BY DEF Retry
<1>3. current' = [current EXCEPT ![m] = a] /\ status'[a] = "queued"
  BY <1>2 DEF Create, IInv, TypeOK
<1>4. Max({identity[b].number : b \in OwnedBy(m)} \cup {0}) = identity[former].number
  BY <1>1, NextNumber DEF IInv
<1>5. identity'[a].number = 1 + identity[former].number
  BY <1>2, <1>4 DEF Create, IInv, TypeOK
<1>6. identity'[a].approval = (o.kind = "codex" \/ approval)
  BY <1>2 DEF Create, IInv, TypeOK
<1>7. identity[former].approval => identity'[a].approval
  BY <1>6
<1>8. identity[former].number \in Nat
  BY <1>1 DEF IInv, TypeOK, Identity
<1>9. identity'[a].number = identity[former].number + 1
  BY <1>5, <1>8
<1>10. \A n \in Missions \ {m} : current'[n] = current[n]
  BY <1>3 DEF IInv, TypeOK, StoreTypeOK
<1>11. current'[m] = a
  BY <1>3 DEF IInv, TypeOK, StoreTypeOK
<1> QED
  BY <1>1, <1>3, <1>7, <1>9, <1>10, <1>11 DEF SuccessorStep

LEMMA SuccessorStepHolds == IInv /\ [Next]_vars => SuccessorStep
<1> SUFFICES ASSUME IInv, [Next]_vars PROVE SuccessorStep
  OBVIOUS
<1>1. CASE UNCHANGED current
  BY <1>1 DEF SuccessorStep
<1>2. ASSUME NEW m \in Missions, NEW a \in Attempts, NEW o \in Options, Begins(m, a, o)
      PROVE  SuccessorStep
  <2>1. CASE Queue(m, a, o)
    BY <2>1 DEF Queue, Queueable, Create, SuccessorStep, IInv, TypeOK, StoreTypeOK
  <2> QED
    BY <1>2, <2>1, RetrySucceeds DEF Begins
<1>3. CASE Foundation
  BY <1>1, <1>3 DEF Foundation, StoreNext, Admit, Transition, SavePlan, Cancel
<1>4. CASE \/ \E a \in Attempts : Claim(a) \/ Start(a) \/ Progress(a)
           \/ \E S \in SUBSET {a \in Attempts : Live(a)} : Expire(S)
           \/ \E a \in Attempts, outcome \in Outcomes, h \in Heads \cup {NoHead} :
                Complete(a, outcome, h)
           \/ \E a \in Attempts : Supervisor(a)
  BY <1>1, <1>4 DEF Claim, Start, Progress, Expire, Complete, Supervisor, ReconcileEnded,
     ReconcileStopped, ReconcileUnknown
<1>5. CASE \/ \E m \in Missions : Refused(m) \/ Review(m)
           \/ \E m, d \in Missions : RecordMergeEvidence(m, d)
           \/ Quiet
  BY <1>1, <1>5 DEF Refused, Block, Review, RecordMergeEvidence, storeVars, Quiet, missionVars
<1> QED
  BY <1>2, <1>3, <1>4, <1>5, StepCases

\* A mission gets a new generation only after the stop of the former one is
\* proved, with the next attempt number and no less need for approval.
THEOREM SuccessorsWait == Spec => SuccessorWaits
<1>1. IInv /\ [Next]_vars => [SuccessorStep]_vars
  BY SuccessorStepHolds
<1> QED
  BY <1>1, Invariance, PTL DEF Spec, SuccessorWaits, SuccessorStep

-----------------------------------------------------------------------------
(* Prerequisites stand: what an attempt was created on is never taken      *)
(* away, because ended missions do not change and plans are saved only     *)
(* while the mission has no attempt.                                       *)

\* A mission with an attempt keeps its plan and its dependencies, and evidence
\* is only ever added.
PlanStep ==
  /\ \A m \in Missions :
       current[m] # NoAttempt =>
         /\ planVersion'[m] = planVersion[m]
         /\ \A e \in dependencies' : e.mission = m => e \in dependencies
  /\ evidence \subseteq evidence'

LEMMA PlanStepHolds == IInv /\ [Next]_vars => PlanStep
<1> SUFFICES ASSUME IInv, [Next]_vars PROVE PlanStep
  OBVIOUS
<1>1. CASE UNCHANGED <<planVersion, dependencies, evidence>>
  BY <1>1 DEF PlanStep
<1>2. CASE Foundation
  <2>1. ASSUME NEW m \in Missions, NEW plan \in Plans, SavePlan(m, plan)
        PROVE  PlanStep
    BY <1>2, <2>1 DEF SavePlan, PlanRows, Foundation, PlanStep, IInv, TypeOK, StoreTypeOK
  <2> QED
    BY <1>1, <1>2, <2>1 DEF Foundation, StoreNext, Admit, Transition, Cancel
<1>3. ASSUME NEW m \in Missions, NEW d \in Missions, RecordMergeEvidence(m, d)
      PROVE  PlanStep
  BY <1>3 DEF RecordMergeEvidence, storeVars, PlanStep
<1>4. ASSUME NEW m \in Missions, NEW a \in Attempts, NEW o \in Options, Begins(m, a, o)
      PROVE  PlanStep
  BY <1>1, <1>4 DEF Begins, Queue, Retry, Create
<1>5. CASE \/ \E a \in Attempts : Claim(a) \/ Start(a) \/ Progress(a)
           \/ \E S \in SUBSET {a \in Attempts : Live(a)} : Expire(S)
           \/ \E a \in Attempts, outcome \in Outcomes, h \in Heads \cup {NoHead} :
                Complete(a, outcome, h)
           \/ \E a \in Attempts : Supervisor(a)
  BY <1>1, <1>5 DEF Claim, Start, Progress, Expire, Complete, Supervisor, ReconcileEnded,
     ReconcileStopped, ReconcileUnknown
<1>6. CASE \/ \E m \in Missions : Refused(m) \/ Review(m)
           \/ Quiet
  BY <1>1, <1>6 DEF Refused, Block, Review, Quiet, missionVars
<1> QED
  BY <1>2, <1>3, <1>4, <1>5, <1>6, StepCases

LEMMA PrerequisitesKept ==
  ASSUME IInv, [Next]_vars, NEW m \in Missions, NEW base,
         DependenciesMet(m, base),
         \A e \in dependencies' : e.mission = m => e \in dependencies
  PROVE  DependenciesMet(m, base)'
<1>1. MissionStep /\ evidence \subseteq evidence'
  BY MissionStepHolds, PlanStepHolds DEF PlanStep
<1> SUFFICES ASSUME NEW e \in dependencies', e.mission = m
             PROVE  /\ lifecycle'[e.on] = "completed"
                    /\ e.type # "artifact" => GitMatches(e, base)'
                    /\ e.type = "human_merge" => e \in evidence'
  BY DEF DependenciesMet
<1>2. e \in dependencies /\ e.on \in Missions
  BY DEF IInv, TypeOK, StoreTypeOK, DependencyRow
<1>3. /\ lifecycle[e.on] = "completed"
      /\ e.type # "artifact" => GitMatches(e, base)
      /\ e.type = "human_merge" => e \in evidence
  BY <1>2 DEF DependenciesMet
<1>4. lifecycle'[e.on] = "completed" /\ head'[e.on] = head[e.on]
  BY <1>1, <1>2, <1>3 DEF MissionStep, TerminalMissions
<1> QED
  BY <1>1, <1>3, <1>4 DEF GitMatches

\* What an attempt of m relies on.
Relies(m, a) == DependenciesMet(m, identity[a].base) /\ planVersion[m] = identity[a].plan

LEMMA PrerequisitesStep ==
  ASSUME IInv, PrerequisitesStand, [Next]_vars
  PROVE  PrerequisitesStand'
<1> USE DEF MissionOf
<1>1. SUFFICES ASSUME NEW a \in Attempts, NEW m \in Missions, identity'[a].mission = m
               PROVE  Relies(m, a)'
  BY DEF PrerequisitesStand, Relies
<1>2. CASE identity'[a] = identity[a]
  <2>1. Relies(m, a) /\ current[m] # NoAttempt
    BY <1>1, <1>2 DEF PrerequisitesStand, Relies, IInv, Ownership
  <2>2. /\ planVersion'[m] = planVersion[m]
        /\ \A e \in dependencies' : e.mission = m => e \in dependencies
    BY <2>1, PlanStepHolds DEF PlanStep
  <2>3. DependenciesMet(m, identity[a].base)'
    <3> DEFINE base == identity[a].base
    <3>1. PICK b : b = base
      OBVIOUS
    <3>2. DependenciesMet(m, b)
      BY <2>1, <3>1 DEF Relies
    <3> HIDE DEF base
    <3>3. DependenciesMet(m, b)'
      BY <2>2, <3>2, PrerequisitesKept
    <3> QED
      BY <1>2, <3>1, <3>3 DEF DependenciesMet, GitMatches, base
  <2> QED
    BY <1>2, <2>1, <2>2, <2>3 DEF Relies
<1>3. ASSUME NEW n \in Missions, NEW b \in Attempts, NEW o \in Options, Begins(n, b, o)
      PROVE  Relies(m, a)'
  <2> PICK approval \in BOOLEAN : Create(n, b, o, approval)
    BY <1>3, ExecutionAssumption DEF Begins, Queue, Retry, Options
  <2>1. CASE a # b
    <3>1. identity'[a] = identity[a]
      BY <2>1 DEF Create, IInv, TypeOK
    <3> QED
      BY <3>1, <1>2
  <2>2. CASE a = b
    <3>1. /\ m = n
          /\ identity'[a].base = o.base
          /\ identity'[a].plan = planVersion[m]
      BY <1>1, <2>2 DEF Create, IInv, TypeOK
    <3>2. UNCHANGED <<planVersion, dependencies>> /\ DependenciesMet(m, o.base)
      BY <3>1 DEF Create, Admissible
    <3>3. DependenciesMet(m, o.base)'
      BY <3>2, PrerequisitesKept
    <3> QED
      BY <3>1, <3>2, <3>3 DEF Relies, DependenciesMet, GitMatches
  <2> QED
    BY <2>1, <2>2
<1>4. CASE UNCHANGED identity
  BY <1>2, <1>4
<1>5. CASE \/ \E b \in Attempts : Claim(b) \/ Start(b) \/ Progress(b)
           \/ \E S \in SUBSET {b \in Attempts : Live(b)} : Expire(S)
           \/ \E b \in Attempts, outcome \in Outcomes, h \in Heads \cup {NoHead} :
                Complete(b, outcome, h)
           \/ \E b \in Attempts : Supervisor(b)
  BY <1>4, <1>5 DEF Claim, Start, Progress, Expire, Complete, Supervisor, ReconcileEnded,
     ReconcileStopped, ReconcileUnknown, attemptVars
<1>6. CASE \/ \E n \in Missions : Refused(n) \/ Review(n)
           \/ \E n, d \in Missions : RecordMergeEvidence(n, d)
           \/ Foundation
           \/ Quiet
  BY <1>4, <1>6 DEF Refused, Block, Review, RecordMergeEvidence, Foundation, Quiet, attemptVars
<1> QED
  BY <1>3, <1>5, <1>6, StepCases

\* The prerequisites verified when an attempt was created, and its plan, stand
\* for as long as its mission keeps it.
THEOREM PrerequisitesLast == Spec => []PrerequisitesStand
<1>1. Init => PrerequisitesStand
  BY ExecutionAssumption DEF Init, NoIdentity, PrerequisitesStand, MissionOf
<1>2. IInv /\ PrerequisitesStand /\ [Next]_vars => PrerequisitesStand'
  BY PrerequisitesStep
<1> QED
  BY <1>1, <1>2, Invariance, PTL DEF Spec

-----------------------------------------------------------------------------
(* What the foundation promises survives execution control, which writes   *)
(* the same rows: only the foundation adds dependencies, and no operation  *)
(* on attempts makes a mission ready that has none.                        *)

\* Everybody but the foundation leaves the dependencies as they are, and whoever
\* makes a mission ready gives it an attempt.
LEMMA OnlyFoundationPlans ==
  ASSUME IInv, [Next]_vars
  PROVE  \/ StoreNext
         \/ /\ UNCHANGED dependencies
            /\ \A m \in Missions :
                 /\ lifecycle'[m] = "ready" => lifecycle[m] = "ready" \/ current'[m] # NoAttempt
                 /\ current'[m] = NoAttempt => current[m] = NoAttempt
<1> DEFINE Others ==
      /\ UNCHANGED dependencies
      /\ \A m \in Missions :
           /\ lifecycle'[m] = "ready" => lifecycle[m] = "ready" \/ current'[m] # NoAttempt
           /\ current'[m] = NoAttempt => current[m] = NoAttempt
<1> USE DEF IInv, TypeOK, StoreTypeOK
<1>1. ASSUME NEW m \in Missions, NEW a \in Attempts, NEW o \in Options, Begins(m, a, o)
      PROVE  Others
  BY <1>1, StoreAssumption DEF Begins, Queue, Retry, Create
<1>2. ASSUME NEW a \in Attempts, Claim(a) \/ Start(a) \/ Progress(a)
      PROVE  Others
  BY <1>2 DEF Claim, Start, Progress
<1>3. ASSUME NEW S \in SUBSET {a \in Attempts : Live(a)}, Expire(S)
      PROVE  Others
  BY <1>3 DEF Expire
<1>4. ASSUME NEW a \in Attempts, NEW outcome \in Outcomes, NEW h \in Heads \cup {NoHead},
             Complete(a, outcome, h)
      PROVE  Others
  BY <1>4 DEF Complete, Outcomes, Verdict
<1>5. ASSUME NEW a \in Attempts, Supervisor(a)
      PROVE  Others
  BY <1>5 DEF Supervisor, ReconcileEnded, ReconcileStopped, ReconcileUnknown
<1>6. ASSUME NEW m \in Missions, Refused(m) \/ Review(m)
      PROVE  Others
  BY <1>6 DEF Refused, Block, Review, ReviewStep
<1>7. CASE Quiet \/ \E m, d \in Missions : RecordMergeEvidence(m, d)
  BY <1>7 DEF Quiet, missionVars, RecordMergeEvidence, storeVars
<1> QED
  BY <1>1, <1>2, <1>3, <1>4, <1>5, <1>6, <1>7, StepCases DEF Foundation

\* Attempts may come and go, fail, expire and be run again: the missions never
\* wait for each other in a circle.
THEOREM PlansStayAcyclic == Spec => []Acyclic
<1>1. Init => Acyclic
  BY DEF Init, StoreInit, Acyclic
<1>2. IInv /\ Acyclic /\ [Next]_vars => Acyclic'
  <2> SUFFICES ASSUME IInv, Acyclic, [Next]_vars PROVE Acyclic'
    OBVIOUS
  <2>1. CASE StoreNext
    BY <2>1, AcyclicStep DEF IInv, TypeOK
  <2>2. CASE UNCHANGED dependencies
    BY <2>2 DEF Acyclic
  <2> QED
    BY <2>1, <2>2, OnlyFoundationPlans
<1> QED
  BY <1>1, <1>2, Invariance, PTL DEF Spec

\* Of however many missions, one has all its prerequisites outside of them: as
\* long as missions wait, some mission waits for none that waits.
THEOREM MissionsGoOn == Spec => []NoMutualWait
<1>1. IInv /\ Acyclic => NoMutualWait
  BY AcyclicOrders DEF IInv, TypeOK
<1> QED
  BY <1>1, Invariance, PlansStayAcyclic, PTL

\* A mission that shows itself ready without an attempt has no prerequisite in
\* any plan, although attempts make missions ready too.
THEOREM PlansAreWaitedFor == Spec => []WaitsForEveryPlan
<1>1. Init => WaitsForEveryPlan
  BY DEF Init, StoreInit, WaitsForEveryPlan
<1>2. IInv /\ WaitsForEveryPlan /\ [Next]_vars => WaitsForEveryPlan'
  <2> SUFFICES ASSUME IInv, WaitsForEveryPlan, [Next]_vars PROVE WaitsForEveryPlan'
    OBVIOUS
  <2>1. CASE StoreNext
    BY <2>1, WaitsStep DEF IInv, TypeOK
  <2>2. CASE ~ StoreNext
    BY <2>2, OnlyFoundationPlans DEF WaitsForEveryPlan
  <2> QED
    BY <2>1, <2>2
<1> QED
  BY <1>1, <1>2, Invariance, PTL DEF Spec

-----------------------------------------------------------------------------
(* Refinement: every step of execution control begins, ends or closes a    *)
(* generation of OneWriter, or stutters.                                   *)

\* Steps under which nothing that OneWriter speaks of changes.
LEMMA Stutter ==
  ASSUME UNCHANGED <<current, identity>>,
         \A a \in Attempts :
           /\ Unstopped(a)' <=> Unstopped(a)
           /\ status'[a] = "none" <=> status[a] = "none"
           /\ worktree'[a] \in HeldWorktree <=> worktree[a] \in HeldWorktree,
         \A m \in Missions : lifecycle'[m] \in TerminalMissions <=> lifecycle[m] \in TerminalMissions,
         \A m \in Missions : current[m] \in Attempts \cup {NoAttempt}
  PROVE  UNCHANGED Abstract!vars
<1>1. Acting' = Acting
  BY DEF Acting, Unstopped, Live
<1>2. Spent' = Spent
  BY DEF Spent
<1>3. Uses' = Uses
  BY DEF Uses
<1>4. Ended' = Ended
  BY DEF Ended
<1> QED
  BY <1>1, <1>2, <1>3, <1>4 DEF Abstract!vars

\* create begins a generation.
LEMMA CreateBegins ==
  ASSUME IInv, NEW m \in Missions, NEW a \in Attempts, NEW o \in Options,
         NEW approval \in BOOLEAN, Create(m, a, o, approval),
         current[m] # NoAttempt => ~ Unstopped(current[m]),
         lifecycle[m] \notin TerminalMissions
  PROVE  Abstract!Next
<1> DEFINE R == IF o.workspace = NoWorkspace THEN {}
                ELSE {<<o.workspace.repo, o.workspace.branch>>}
<1> USE StoreAssumption, ExecutionAssumption
<1>1. /\ identity' = [identity EXCEPT ![a] = identity'[a]]
      /\ identity'[a].workspace = o.workspace
      /\ status' = [status EXCEPT ![a] = "queued"]
      /\ current' = [current EXCEPT ![m] = a]
      /\ lifecycle' = [lifecycle EXCEPT ![m] = "ready"]
      /\ worktree' = [worktree EXCEPT ![a] =
                        IF o.workspace = NoWorkspace THEN "none" ELSE "reserved"]
      /\ UNCHANGED stopProof
      /\ status[a] = "none"
  BY DEF Create, IInv, TypeOK
<1>2. R \in SUBSET Branches
  BY DEF Options, Branches
<1>3. Acting[m] = NoAttempt
  BY DEF Acting
<1>4. m \notin Ended /\ a \notin Spent
  BY <1>1 DEF Ended, Spent
<1>5. \A b \in Attempts : Uses[b] \cap R = {}
  <2> SUFFICES ASSUME NEW b \in Attempts, Uses[b] \cap R # {} PROVE FALSE
    OBVIOUS
  <2>1. worktree[b] \in HeldWorktree /\ o.workspace # NoWorkspace
    BY DEF Uses
  <2>2. /\ o.workspace.repo = identity[b].workspace.repo
        /\ o.workspace.branch = identity[b].workspace.branch
    BY <2>1 DEF Uses
  <2> QED
    BY <2>1, <2>2 DEF Create, WorkspaceFree, Clash
<1>6. Acting' = [Acting EXCEPT ![m] = a]
  <2>1. Acting'[m] = a
    BY <1>1 DEF Acting, Unstopped, Live, LiveStatus, IInv, TypeOK, StoreTypeOK
  <2>2. ASSUME NEW n \in Missions, n # m
        PROVE  Acting'[n] = Acting[n]
    <3>1. current[n] # a
      BY <1>1, UnusedAttempt DEF IInv
    <3>2. current'[n] = current[n]
      BY <1>1, <2>2 DEF IInv, TypeOK, StoreTypeOK
    <3>3. current[n] # NoAttempt =>
            status'[current[n]] = status[current[n]] /\ stopProof'[current[n]] = stopProof[current[n]]
      BY <1>1, <3>1 DEF IInv, TypeOK, StoreTypeOK
    <3> QED
      BY <3>2, <3>3 DEF Acting, Unstopped, Live
  <2> QED
    BY <2>1, <2>2 DEF Acting
<1>7. Spent' = Spent \cup {a}
  BY <1>1 DEF Spent, IInv, TypeOK
<1>8. Uses' = [Uses EXCEPT ![a] = R]
  BY <1>1 DEF Uses, HeldWorktree, IInv, TypeOK
<1>9. Ended' = Ended
  BY <1>1 DEF Ended, TerminalMissions, IInv, TypeOK, StoreTypeOK
<1>10. Abstract!Begin(m, a, R)
  BY <1>3, <1>4, <1>5, <1>6, <1>7, <1>8, <1>9 DEF Abstract!Begin
<1> QED
  BY <1>2, <1>10 DEF Abstract!Next

\* A proof of stop ends the generation that acts, and may close its mission.
LEMMA StopEnds ==
  ASSUME IInv, NEW m \in Missions, NEW a \in Attempts, MissionOf(a) = m,
         Unstopped(a), status'[a] \in {"completed", "failed", "cancelled", "stale"},
         stopProof' = [stopProof EXCEPT ![a] = TRUE],
         status' = [status EXCEPT ![a] = status'[a]],
         lifecycle' = [lifecycle EXCEPT ![m] = lifecycle'[m]],
         NEW end, Release(a, end),
         UNCHANGED <<current, identity>>
  PROVE  Abstract!Next
<1> USE StoreAssumption, ExecutionAssumption
<1>1. current[m] = a /\ m \notin Ended
  BY ActingMission DEF Ended
<1>2. Acting[m] = a
  BY <1>1 DEF Acting
<1>3. Acting' = [Acting EXCEPT ![m] = NoAttempt]
  <2>1. ~ (status'[a] \in LiveStatus \/ (status'[a] = "stale" /\ ~ stopProof'[a]))
    BY DEF LiveStatus, IInv, TypeOK
  <2>2. Acting'[m] = NoAttempt
    BY <1>1, <2>1 DEF Acting, Unstopped, Live
  <2>3. ASSUME NEW n \in Missions, n # m
        PROVE  Acting'[n] = Acting[n]
    <3>1. current[n] # a
      BY <2>3 DEF IInv, Ownership
    <3>2. current[n] # NoAttempt =>
            status'[current[n]] = status[current[n]] /\ stopProof'[current[n]] = stopProof[current[n]]
      BY <3>1 DEF IInv, TypeOK, StoreTypeOK
    <3> QED
      BY <3>2 DEF Acting, Unstopped, Live
  <2> QED
    BY <2>2, <2>3 DEF Acting
<1>4. Spent' = Spent
  BY DEF Spent, Unstopped, Live, LiveStatus, IInv, TypeOK
<1>5. Uses' = [Uses EXCEPT ![a] = {}]
  BY DEF Uses, Release, HeldWorktree, IInv, TypeOK
<1>6. Ended' \in {Ended, Ended \cup {m}}
  BY <1>1 DEF Ended, IInv, TypeOK, StoreTypeOK
<1>7. Abstract!End(m)
  BY <1>2, <1>3, <1>4, <1>5, <1>6 DEF Abstract!End
<1> QED
  BY <1>7 DEF Abstract!Next

\* An idle mission reaches its end.
LEMMA EndCloses ==
  ASSUME NEW m \in Missions,
         current[m] # NoAttempt => ~ Unstopped(current[m]),
         lifecycle \in [Missions -> States],
         lifecycle[m] \notin TerminalMissions,
         NEW end \in TerminalMissions,
         lifecycle' = [lifecycle EXCEPT ![m] = end],
         UNCHANGED <<current, identity, status, stopProof, worktree>>
  PROVE  Abstract!Next
<1>1. Acting[m] = NoAttempt /\ m \notin Ended
  BY DEF Acting, Ended
<1>2. UNCHANGED <<Acting, Spent, Uses>>
  BY DEF Acting, Spent, Uses, Unstopped, Live
<1>3. Ended' = Ended \cup {m}
  BY DEF Ended
<1>4. Abstract!Close(m)
  BY <1>1, <1>2, <1>3 DEF Abstract!Close
<1> QED
  BY <1>4 DEF Abstract!Next

\* A mission that has not ended moves to a state that is not its end.
LEMMA OpenStutters ==
  ASSUME IInv, NEW m \in Missions,
         lifecycle[m] \notin TerminalMissions, lifecycle'[m] \notin TerminalMissions,
         \A n \in Missions \ {m} : lifecycle'[n] = lifecycle[n],
         UNCHANGED <<current, identity, status, stopProof, worktree>>
  PROVE  UNCHANGED Abstract!vars
<1>1. \A a \in Attempts : Unstopped(a)' <=> Unstopped(a)
  BY DEF Unstopped, Live
<1>2. \A n \in Missions : lifecycle'[n] \in TerminalMissions <=> lifecycle[n] \in TerminalMissions
  OBVIOUS
<1> QED
  BY <1>1, <1>2, Stutter DEF IInv, TypeOK, StoreTypeOK

LEMMA FoundationMaps ==
  ASSUME IInv, Foundation
  PROVE  Abstract!Next \/ UNCHANGED Abstract!vars
<1> USE DEF IInv, TypeOK, StoreTypeOK, attemptVars, heldVars
<1>1. UNCHANGED <<current, identity, status, stopProof, worktree>>
  BY DEF Foundation, StoreNext, Admit, Transition, SavePlan, Cancel
<1>2. ASSUME NEW m \in Missions,
             \/ Admit(m)
             \/ \E to \in States : Transition(m, to)
             \/ \E plan \in Plans : SavePlan(m, plan)
             \/ Cancel(m) /\ current[m] # NoAttempt
      PROVE  UNCHANGED Abstract!vars
  <2>1. lifecycle[m] \notin TerminalMissions /\ lifecycle'[m] \notin TerminalMissions
    BY <1>2 DEF Admit, Transition, FoundationTransitions, SavePlan, Cancel, TerminalMissions
  <2>2. \A n \in Missions \ {m} : lifecycle'[n] = lifecycle[n]
    BY <1>2 DEF Admit, Transition, SavePlan, Cancel
  <2> QED
    BY <1>1, <2>1, <2>2, OpenStutters
<1>3. ASSUME NEW m \in Missions, Cancel(m), current[m] = NoAttempt
      PROVE  Abstract!Next
  <2>1. lifecycle[m] \notin TerminalMissions /\ lifecycle' = [lifecycle EXCEPT ![m] = "cancelled"]
    BY <1>3 DEF Cancel
  <2> QED
    BY <1>1, <1>3, <2>1, EndCloses DEF TerminalMissions
<1> QED
  BY <1>2, <1>3 DEF Foundation, StoreNext

LEMMA BeginsMaps ==
  ASSUME IInv, NEW m \in Missions, NEW a \in Attempts, NEW o \in Options, Begins(m, a, o)
  PROVE  Abstract!Next
<1>1. PICK approval \in BOOLEAN : Create(m, a, o, approval)
  BY ExecutionAssumption DEF Begins, Queue, Retry, Options
<1>2. lifecycle[m] \notin TerminalMissions
  BY DEF Begins, Queue, Queueable, Retry, RetryPermitted, TerminalMissions
<1>3. current[m] # NoAttempt => ~ Unstopped(current[m])
  BY DEF Begins, Queue, Queueable, Retry, RetryPermitted, Unstopped, Live, LiveStatus
<1> QED
  BY <1>1, <1>2, <1>3, CreateBegins

LEMMA WorkerMaps ==
  ASSUME IInv,
         \/ \E a \in Attempts : Claim(a) \/ Start(a) \/ Progress(a)
         \/ \E m \in Missions : Refused(m)
  PROVE  UNCHANGED Abstract!vars
<1> USE DEF IInv, TypeOK, StoreTypeOK, attemptVars, heldVars
<1>1. ASSUME NEW a \in Attempts, Claim(a)
      PROVE  UNCHANGED Abstract!vars
  <2>1. Unstopped(a) /\ status[a] = "queued" /\ worktree[a] = "reserved"
    BY <1>1 DEF Claim, Claimable, Verified, Unstopped
  <2> PICK m \in Missions : m = MissionOf(a)
    BY <2>1, ActingMission
  <2>2. lifecycle[m] \notin TerminalMissions
    BY <2>1, ActingMission
  <2>3. /\ status' = [status EXCEPT ![a] = "claimed"]
        /\ worktree' = [worktree EXCEPT ![a] = "leased"]
        /\ lifecycle' = [lifecycle EXCEPT ![m] = "running"]
        /\ UNCHANGED <<current, identity, stopProof>>
    BY <1>1 DEF Claim
  <2>4. \A b \in Attempts :
          /\ Unstopped(b)' <=> Unstopped(b)
          /\ status'[b] = "none" <=> status[b] = "none"
          /\ worktree'[b] \in HeldWorktree <=> worktree[b] \in HeldWorktree
    BY <2>1, <2>3 DEF Unstopped, Live, LiveStatus, HeldWorktree
  <2>5. \A n \in Missions : lifecycle'[n] \in TerminalMissions <=> lifecycle[n] \in TerminalMissions
    BY <2>2, <2>3 DEF TerminalMissions
  <2> QED
    BY <2>3, <2>4, <2>5, Stutter
<1>2. ASSUME NEW a \in Attempts, Start(a)
      PROVE  UNCHANGED Abstract!vars
  <2>1. Unstopped(a) /\ status[a] = "claimed"
    BY <1>2 DEF Start, Startable, Verified, Unstopped
  <2> PICK m \in Missions : m = MissionOf(a)
    BY <2>1, ActingMission
  <2>2. lifecycle[m] \notin TerminalMissions
    BY <2>1, ActingMission
  <2>3. /\ status' = [status EXCEPT ![a] = "running"]
        /\ lifecycle' = [lifecycle EXCEPT ![m] = "running"]
        /\ UNCHANGED <<current, identity, stopProof, worktree>>
    BY <1>2 DEF Start
  <2>4. \A b \in Attempts :
          /\ Unstopped(b)' <=> Unstopped(b)
          /\ status'[b] = "none" <=> status[b] = "none"
    BY <2>1, <2>3 DEF Unstopped, Live, LiveStatus
  <2>5. \A n \in Missions : lifecycle'[n] \in TerminalMissions <=> lifecycle[n] \in TerminalMissions
    BY <2>2, <2>3 DEF TerminalMissions
  <2> QED
    BY <2>3, <2>4, <2>5, Stutter
<1>3. ASSUME NEW a \in Attempts, Progress(a)
      PROVE  UNCHANGED Abstract!vars
  <2>1. Unstopped(a)
    BY <1>3 DEF Progress, Verified, Unstopped
  <2> PICK m \in Missions : m = MissionOf(a)
    BY <2>1, ActingMission
  <2>2. lifecycle[m] \notin TerminalMissions
    BY <2>1, ActingMission
  <2>3. lifecycle' = [lifecycle EXCEPT ![m] = "running"]
    BY <1>3 DEF Progress
  <2> QED
    BY <1>3, <2>2, <2>3, OpenStutters DEF Progress, TerminalMissions
<1>4. ASSUME NEW m \in Missions, Refused(m)
      PROVE  UNCHANGED Abstract!vars
  BY <1>4, OpenStutters DEF Refused, Block, TerminalMissions
<1> QED
  BY <1>1, <1>2, <1>3, <1>4

\* An expired generation was not seen to stop: it still acts.
LEMMA ExpireMaps ==
  ASSUME IInv, NEW S \in SUBSET {a \in Attempts : Live(a)}, Expire(S)
  PROVE  UNCHANGED Abstract!vars
<1>1. UNCHANGED <<current, identity, stopProof>>
  BY DEF Expire
<1>2. ASSUME NEW a \in Attempts
      PROVE  /\ Unstopped(a)' <=> Unstopped(a)
             /\ status'[a] = "none" <=> status[a] = "none"
             /\ worktree'[a] \in HeldWorktree <=> worktree[a] \in HeldWorktree
  BY DEF Expire, Unstopped, Live, LiveStatus, HeldWorktree, IInv, StopRecorded
<1>3. ASSUME NEW m \in Missions
      PROVE  lifecycle'[m] \in TerminalMissions <=> lifecycle[m] \in TerminalMissions
  <2>1. \A a \in S : lifecycle[MissionOf(a)] \notin TerminalMissions
    BY ActingMission DEF Unstopped
  <2> QED
    BY <2>1 DEF Expire, TerminalMissions
<1> QED
  BY <1>1, <1>2, <1>3, Stutter DEF IInv, TypeOK, StoreTypeOK

LEMMA CompleteMaps ==
  ASSUME IInv, NEW a \in Attempts, NEW outcome \in Outcomes, NEW h \in Heads \cup {NoHead},
         Complete(a, outcome, h)
  PROVE  Abstract!Next
<1>1. Unstopped(a)
  BY DEF Complete, Verified, Unstopped
<1> PICK m \in Missions : m = MissionOf(a)
  BY <1>1, ActingMission
<1>2. status'[a] \in {"completed", "failed"} /\ status' = [status EXCEPT ![a] = status'[a]]
  BY DEF Complete, IInv, TypeOK
<1>3. lifecycle' = [lifecycle EXCEPT ![m] = lifecycle'[m]]
  BY DEF Complete, IInv, TypeOK, StoreTypeOK
<1>4. /\ stopProof' = [stopProof EXCEPT ![a] = TRUE]
      /\ Release(a, "released")
      /\ UNCHANGED <<current, identity>>
  BY DEF Complete
<1> QED
  BY <1>1, <1>2, <1>3, <1>4, StopEnds

LEMMA SupervisorMaps ==
  ASSUME IInv, NEW a \in Attempts, Supervisor(a)
  PROVE  Abstract!Next \/ UNCHANGED Abstract!vars
<1> PICK m \in Missions : m = MissionOf(a)
  BY DEF Supervisor, ReconcileEnded, ReconcileStopped, ReconcileUnknown, Reconcilable
<1>1. Reconcilable(a) /\ current[m] = a
  BY DEF Supervisor, ReconcileEnded, ReconcileStopped, ReconcileUnknown, Reconcilable
<1>2. lifecycle[m] \notin TerminalMissions
  <2>1. CASE Cancelling(m)
    BY <2>1 DEF Cancelling, Stopping, TerminalMissions
  <2>2. CASE status[a] = "stale" /\ ~ stopProof[a]
    BY <2>2, ActingMission DEF Unstopped
  <2> QED
    BY <1>1, <2>1, <2>2 DEF Reconcilable
<1>3. status[a] # "none"
  BY ExecutionAssumption DEF IInv, Ownership
<1>4. CASE ReconcileEnded(a)
  <2>1. ~ Unstopped(a)
    BY <1>4 DEF ReconcileEnded, Unstopped, Live, IInv, StopRecorded
  <2>2. /\ lifecycle' = [lifecycle EXCEPT ![m] = "cancelled"]
        /\ UNCHANGED <<current, identity, status, stopProof, worktree>>
    BY <1>4 DEF ReconcileEnded, attemptVars, heldVars
  <2>3. Abstract!Next
    BY <1>1, <1>2, <2>1, <2>2, EndCloses DEF IInv, TypeOK, StoreTypeOK, TerminalMissions
  <2> QED
    BY <2>3
<1>5. CASE ReconcileStopped(a)
  <2>1. Unstopped(a)
    BY <1>3, <1>5
    DEF ReconcileStopped, Unstopped, Live, IInv, TypeOK, Status, StopRecorded
  <2>2. status'[a] \in {"cancelled", "stale"} /\ status' = [status EXCEPT ![a] = status'[a]]
    BY <1>5 DEF ReconcileStopped, IInv, TypeOK
  <2>3. lifecycle' = [lifecycle EXCEPT ![m] = lifecycle'[m]]
    BY <1>5 DEF ReconcileStopped, IInv, TypeOK, StoreTypeOK
  <2>4. PICK end : Release(a, end)
    BY <1>5 DEF ReconcileStopped
  <2>5. stopProof' = [stopProof EXCEPT ![a] = TRUE] /\ UNCHANGED <<current, identity>>
    BY <1>5 DEF ReconcileStopped
  <2>6. Abstract!Next
    BY <2>1, <2>2, <2>3, <2>4, <2>5, StopEnds
  <2> QED
    BY <2>6
<1>6. CASE ReconcileUnknown(a)
  <2>1. /\ UNCHANGED <<current, identity, status, stopProof>>
        /\ \A b \in Attempts :
             worktree'[b] \in HeldWorktree <=> worktree[b] \in HeldWorktree
    BY <1>6 DEF ReconcileUnknown, attemptVars, HeldWorktree, IInv, TypeOK
  <2>2. \A n \in Missions :
          lifecycle'[n] \in TerminalMissions <=> lifecycle[n] \in TerminalMissions
    BY <1>2, <1>6 DEF ReconcileUnknown, TerminalMissions, IInv, TypeOK, StoreTypeOK
  <2>3. \A b \in Attempts : Unstopped(b)' <=> Unstopped(b)
    BY <2>1 DEF Unstopped, Live
  <2>4. UNCHANGED Abstract!vars
    BY <2>1, <2>2, <2>3, Stutter DEF IInv, TypeOK, StoreTypeOK
  <2> QED
    BY <2>4
<1> QED
  BY <1>4, <1>5, <1>6 DEF Supervisor

\* The review closes a mission whose attempt completed.
LEMMA ReviewMaps ==
  ASSUME IInv, NEW m \in Missions, Review(m)
  PROVE  Abstract!Next \/ UNCHANGED Abstract!vars
<1>1. /\ current[m] # NoAttempt => ~ Unstopped(current[m])
      /\ lifecycle[m] \notin TerminalMissions
      /\ ReviewStep[lifecycle[m]] \in {"awaiting_nadir_approval", "completed"}
      /\ lifecycle' = [lifecycle EXCEPT ![m] = ReviewStep[lifecycle[m]]]
      /\ UNCHANGED <<current, identity, status, stopProof, worktree>>
  BY DEF Review, ReviewStep, Unstopped, Live, LiveStatus, TerminalMissions, attemptVars, heldVars
<1>2. CASE ReviewStep[lifecycle[m]] = "completed"
  <2>1. Abstract!Next
    BY <1>1, <1>2, EndCloses DEF IInv, TypeOK, StoreTypeOK, TerminalMissions
  <2> QED
    BY <2>1
<1>3. CASE ReviewStep[lifecycle[m]] = "awaiting_nadir_approval"
  <2>1. UNCHANGED Abstract!vars
    BY <1>1, <1>3, OpenStutters DEF IInv, TypeOK, StoreTypeOK, TerminalMissions
  <2> QED
    BY <2>1
<1> QED
  BY <1>1, <1>2, <1>3

LEMMA RowsMap ==
  ASSUME IInv, Quiet \/ \E m, d \in Missions : RecordMergeEvidence(m, d)
  PROVE  UNCHANGED Abstract!vars
<1>1. UNCHANGED <<lifecycle, current, identity, status, stopProof, worktree>>
  BY DEF Quiet, RecordMergeEvidence, storeVars, missionVars, attemptVars, heldVars
<1> QED
  BY <1>1, Stutter DEF Unstopped, Live, IInv, TypeOK, StoreTypeOK

LEMMA StepMaps == IInv /\ [Next]_vars => [Abstract!Next]_(Abstract!vars)
<1> SUFFICES ASSUME IInv, [Next]_vars
             PROVE  Abstract!Next \/ UNCHANGED Abstract!vars
  OBVIOUS
<1> QED
  BY StepCases, FoundationMaps, BeginsMaps, WorkerMaps, ExpireMaps, CompleteMaps,
     SupervisorMaps, ReviewMaps, RowsMap

\* Execution control implements OneWriter: whatever happens, a mission has at
\* most one generation that acts, each acts once, no branch has two writers, and
\* an ended mission is never worked for again.
THEOREM Refinement == Spec => ImplementsOneWriter
<1>1. Init => Abstract!Init
  BY DEF Init, StoreInit, Abstract!Init, Acting, Spent, Uses, Ended, HeldWorktree,
     TerminalMissions
<1>2. IInv /\ [Next]_vars => [Abstract!Next]_(Abstract!vars)
  BY StepMaps
<1> QED
  BY <1>1, <1>2, Invariance, PTL DEF Spec, ImplementsOneWriter, Abstract!Spec

-----------------------------------------------------------------------------
(* The quota.  A sum over a set is the number of the units that its        *)
(* elements contribute, which turns every fact about reservations into one *)
(* about subsets and disjoint unions.                                      *)

\* The units of the amounts of some rows, one by one: a sum is their number.
Units(row, s) == {u \in s \X Nat : u[2] < row[u[1]].amount}

\* A row has as many units as its amount says.
LEMMA UnitsOfOne ==
  ASSUME NEW row, NEW x, row[x].amount \in Nat
  PROVE  IsFiniteSet(Units(row, {x})) /\ Cardinality(Units(row, {x})) = row[x].amount
<1> DEFINE I == 0 .. (row[x].amount - 1)
           b == [k \in I |-> <<x, k>>]
<1>1. b \in Bijection(I, Units(row, {x}))
  <2>1. b \in [I -> Units(row, {x})]
    BY DEF Units
  <2>2. \A k, l \in I : b[k] = b[l] => k = l
    OBVIOUS
  <2>3. \A u \in Units(row, {x}) : \E k \in I : b[k] = u
    <3>1. ASSUME NEW u \in Units(row, {x})
          PROVE  u[2] \in I /\ b[u[2]] = u
      BY DEF Units
    <3> QED
      BY <3>1
  <2> HIDE DEF b, I
  <2> QED
    BY <2>1, <2>2, <2>3 DEF Bijection, Injection, Surjection, IsInjective
<1>2. IsFiniteSet(I) /\ Cardinality(I) = row[x].amount
  <2> DEFINE n == row[x].amount
  <2>1. n \in Nat
    OBVIOUS
  <2> HIDE DEF n
  <2>2. 0 \in Int /\ n - 1 \in Int
    BY <2>1
  <2>3. IsFiniteSet(0 .. (n - 1)) /\ Cardinality(0 .. (n - 1)) = n
    BY <2>1, <2>2, FS_Interval
  <2> QED
    BY <2>3 DEF n
<1> QED
  BY <1>1, <1>2, FS_Bijection DEF ExistsBijection

\* One row more, and its units are added.
LEMMA UnitsOfMore ==
  ASSUME NEW row, NEW s, NEW x \in s, NEW t, t = s \ {x},
         row[x].amount \in Nat, IsFiniteSet(Units(row, t))
  PROVE  /\ IsFiniteSet(Units(row, s))
         /\ Cardinality(Units(row, s)) = row[x].amount + Cardinality(Units(row, t))
<1> DEFINE all == Units(row, s)
           one == Units(row, {x})
           rest == Units(row, t)
<1>1. all = one \cup rest /\ one \cap rest = {}
  BY DEF Units
<1>2. IsFiniteSet(one) /\ Cardinality(one) = row[x].amount
  BY UnitsOfOne
<1> HIDE DEF all, one, rest
<1>3. IsFiniteSet(rest)
  BY DEF rest
<1>4. Cardinality(rest) \in Nat
  BY <1>3, FS_CardinalityType
<1>5. /\ IsFiniteSet(all)
      /\ Cardinality(all) = Cardinality(one) + Cardinality(rest) - Cardinality({})
  BY ONLY <1>1, <1>2, <1>3, FS_Union
<1>6. Cardinality({}) = 0
  BY FS_EmptySet
<1>7. Cardinality(all) = row[x].amount + Cardinality(rest)
  BY <1>2, <1>4, <1>5, <1>6
<1> QED
  BY <1>5, <1>7 DEF all, rest

\* Finitely many rows have finitely many units.
LEMMA UnitsFinite ==
  ASSUME NEW S, IsFiniteSet(S), NEW row, \A x \in S : row[x].amount \in Nat
  PROVE  \A s \in SUBSET S : IsFiniteSet(Units(row, s))
<1> DEFINE T == {s \in SUBSET S : ~ IsFiniteSet(Units(row, s))}
<1> SUFFICES ASSUME T # {} PROVE FALSE
  OBVIOUS
<1>1. PICK s \in T : \A t \in T : t \subseteq s => t = s
  <2> HIDE DEF T
  <2>1. T \subseteq SUBSET S
    BY DEF T
  <2> QED
    BY <2>1, SmallestSet
<1>2. s # {}
  <2>1. Units(row, {}) = {}
    BY DEF Units
  <2> QED
    BY <2>1, FS_EmptySet
<1>3. PICK x \in s : TRUE
  BY <1>2
<1>4. IsFiniteSet(Units(row, s \ {x}))
  BY <1>1, <1>3
<1> QED
  BY <1>3, <1>4, UnitsOfMore

\* What the fold of BudgetUsed computes, in whatever order it takes the rows.
LEMMA SumIsUnits ==
  ASSUME NEW S, IsFiniteSet(S), NEW row, \A x \in S : row[x].amount \in Nat
  PROVE  Total(row, S) = Cardinality(Units(row, S))
<1> DEFINE Chosen(s) == CHOOSE x \in s : TRUE
           Body(h, s) == IF s = {} THEN 0 ELSE row[Chosen(s)].amount + h[s \ {Chosen(s)}]
           count == [s \in SUBSET S |-> Cardinality(Units(row, s))]
           sum == CHOOSE h : h = [s \in SUBSET S |-> Body(h, s)]
<1>1. \A s \in SUBSET S : count[s] = Body(count, s)
  <2>1. Cardinality(Units(row, {})) = 0
    <3>1. Units(row, {}) = {}
      BY DEF Units
    <3> QED
      BY <3>1, FS_EmptySet
  <2>2. ASSUME NEW s \in SUBSET S, s # {}
        PROVE  Cardinality(Units(row, s)) =
                 row[Chosen(s)].amount + Cardinality(Units(row, s \ {Chosen(s)}))
    <3> DEFINE x == Chosen(s)
    <3>1. x \in s
      BY <2>2
    <3> HIDE DEF x
    <3>2. row[x].amount \in Nat /\ IsFiniteSet(Units(row, s \ {x}))
      BY <3>1, UnitsFinite
    <3>3. Cardinality(Units(row, s)) = row[x].amount + Cardinality(Units(row, s \ {x}))
      BY <3>1, <3>2, UnitsOfMore
    <3> QED
      BY <3>3 DEF x
  <2> QED
    BY <2>1, <2>2
<1>2. sum = [s \in SUBSET S |-> Body(sum, s)]
  <2>1. count = [s \in SUBSET S |-> Body(count, s)]
    BY <1>1
  <2>2. \E h : h = [s \in SUBSET S |-> Body(h, s)]
    BY <2>1
  <2> QED
    BY <2>2
<1>3. \A s \in SUBSET S : sum[s] = count[s]
  <2> DEFINE T == {s \in SUBSET S : sum[s] # count[s]}
  <2> SUFFICES ASSUME T # {} PROVE FALSE
    OBVIOUS
  <2> HIDE DEF sum, count, Chosen
  <2>1. PICK s \in T : \A t \in T : t \subseteq s => t = s
    <3> HIDE DEF T
    <3>1. T \subseteq SUBSET S
      BY DEF T
    <3> QED
      BY <3>1, SmallestSet
  <2>2. s \in SUBSET S /\ sum[s] # count[s] /\ sum[s] = Body(sum, s) /\ count[s] = Body(count, s)
    BY <1>1, <1>2
  <2>3. s # {}
    BY <2>2
  <2>4. Chosen(s) \in s
    BY <2>3 DEF Chosen
  <2>5. sum[s \ {Chosen(s)}] = count[s \ {Chosen(s)}]
    BY <2>1, <2>4
  <2> QED
    BY <2>2, <2>3, <2>5
<1>4. Total(row, S) = sum[S]
  BY DEF Total, MapThenSumSet, MapThenFoldSet
<1> QED
  BY <1>3, <1>4

\* Attempts whose reservation counts.
Held == {a \in Attempts : budget[a] \in HeldBudget}

\* BudgetUsed is the total over the reservations that count.
LEMMA HeldTotal ==
  BudgetUsed = Total(identity, Held) /\ BudgetUsed' = Total(identity', Held')
BY DEF BudgetUsed, Held

\* Finitely many reservations count, and they fit into the quota.
QuotaKept == IsFiniteSet(Held) /\ WithinQuota

\* Reservations that are given back only lower the sum.
LEMMA LessHeld ==
  ASSUME IInv, QuotaKept, UNCHANGED identity, Held' \subseteq Held
  PROVE  QuotaKept'
<1>1. /\ \A a \in Held : identity[a].amount \in Nat
      /\ IsFiniteSet(Held) /\ IsFiniteSet(Held')
  BY FS_Subset DEF QuotaKept, Held, IInv, TypeOK, Identity
<1>2. /\ BudgetUsed = Cardinality(Units(identity, Held))
      /\ BudgetUsed' = Cardinality(Units(identity, Held'))
  BY <1>1, SumIsUnits, HeldTotal
<1>3. Units(identity, Held') \subseteq Units(identity, Held)
  BY DEF Units
<1>4. IsFiniteSet(Units(identity, Held))
  BY <1>1, UnitsFinite
<1>5. /\ Cardinality(Units(identity, Held')) <= Cardinality(Units(identity, Held))
      /\ Cardinality(Units(identity, Held)) \in Nat
      /\ Cardinality(Units(identity, Held')) \in Nat
  BY <1>3, <1>4, FS_Subset, FS_CardinalityType
<1> QED
  BY <1>1, <1>2, <1>5, ExecutionAssumption DEF QuotaKept, WithinQuota

\* A new reservation was compared with what is left.
LEMMA OneMoreHeld ==
  ASSUME IInv, QuotaKept, NEW a \in Attempts, a \notin Held, NEW amount \in Nat,
         BudgetUsed + amount <= Quota,
         Held' = Held \cup {a}, identity'[a].amount = amount,
         \A b \in Held : identity'[b] = identity[b]
  PROVE  QuotaKept'
<1>1. \A b \in Held : identity[b].amount \in Nat
  BY DEF Held, IInv, TypeOK, Identity
<1>a. IsFiniteSet(Held) /\ IsFiniteSet(Held')
  BY FS_AddElement DEF QuotaKept
<1>b. \A b \in Held' : identity'[b].amount \in Nat
  BY <1>1
<1>2. BudgetUsed = Cardinality(Units(identity, Held))
  BY <1>1, <1>a, SumIsUnits, HeldTotal
<1>c. BudgetUsed' = Cardinality(Units(identity', Held'))
  BY <1>b, <1>a, SumIsUnits, HeldTotal
<1>3. Held' \ {a} = Held /\ a \in Held'
  OBVIOUS
<1>4. Units(identity', Held' \ {a}) = Units(identity, Held)
  BY <1>3 DEF Units
<1>5. IsFiniteSet(Units(identity, Held))
  BY <1>1, <1>a, UnitsFinite
<1>6. identity'[a].amount \in Nat /\ IsFiniteSet(Units(identity', Held' \ {a}))
  BY <1>4, <1>5
<1>7. Cardinality(Units(identity', Held'))
        = identity'[a].amount + Cardinality(Units(identity', Held' \ {a}))
  <2> DEFINE row == identity'
             s == Held'
             t == Held' \ {a}
  <2>1. a \in s /\ t = s \ {a} /\ row[a].amount \in Nat /\ IsFiniteSet(Units(row, t))
    BY <1>3, <1>6
  <2> HIDE DEF row, s, t
  <2>2. Cardinality(Units(row, s)) = row[a].amount + Cardinality(Units(row, t))
    BY ONLY <2>1, UnitsOfMore
  <2> QED
    BY <2>2 DEF row, s, t
<1>8. BudgetUsed' <= Quota
  BY <1>2, <1>c, <1>4, <1>5, <1>7, FS_CardinalityType, ExecutionAssumption
<1> QED
  BY <1>a, <1>8 DEF QuotaKept, WithinQuota

\* A generation that reserves nothing.
LEMMA SameHeld ==
  ASSUME IInv, QuotaKept, Held' = Held, \A b \in Held : identity'[b] = identity[b]
  PROVE  QuotaKept'
<1>1. /\ \A a \in Held : identity[a].amount \in Nat /\ identity'[a].amount \in Nat
      /\ IsFiniteSet(Held) /\ IsFiniteSet(Held')
  BY DEF QuotaKept, Held, IInv, TypeOK, Identity
<1>2. /\ BudgetUsed = Cardinality(Units(identity, Held))
      /\ BudgetUsed' = Cardinality(Units(identity', Held'))
  BY <1>1, SumIsUnits, HeldTotal
<1>3. Units(identity', Held') = Units(identity, Held)
  BY DEF Units
<1> QED
  BY <1>1, <1>2, <1>3, ExecutionAssumption DEF QuotaKept, WithinQuota

LEMMA QuotaStep == IInv /\ QuotaKept /\ [Next]_vars => QuotaKept'
<1> SUFFICES ASSUME IInv, QuotaKept, [Next]_vars PROVE QuotaKept'
  OBVIOUS
<1>0. budget \in [Attempts -> HeldBudget \cup {"none", "released", "cancelled"}]
  BY DEF IInv, TypeOK
<1>1. CASE UNCHANGED <<identity, budget>>
  BY <1>1, LessHeld DEF Held
<1>2. ASSUME NEW m \in Missions, NEW a \in Attempts, NEW o \in Options, Begins(m, a, o)
      PROVE  QuotaKept'
  <2>1. /\ status[a] = "none" /\ Admissible(m, o)
        /\ budget' = [budget EXCEPT ![a] = IF o.amount = 0 THEN "none" ELSE "reserved"]
    BY <1>2 DEF Begins, Queue, Retry, Create
  <2>2. a \notin Held /\ budget[a] = "none"
    BY <2>1 DEF Held, HeldBudget, IInv, Ownership
  <2>3. identity \in [Attempts -> Identity] /\ o.amount \in Nat
    BY ExecutionAssumption DEF Options, IInv, TypeOK
  <2>4. /\ identity'[a].amount = o.amount
        /\ \A b \in Held : identity'[b] = identity[b]
    BY <1>2, <2>2, <2>3 DEF Held, Begins, Queue, Retry, Create
  <2>5. CASE o.amount = 0
    <3>1. Held' = Held
      BY <1>0, <2>1, <2>2, <2>5 DEF Held
    <3> QED
      BY <2>4, <3>1, SameHeld
  <2>6. CASE o.amount # 0
    <3>1. Held' = Held \cup {a}
      BY <1>0, <2>1, <2>6 DEF Held, HeldBudget
    <3>2. BudgetUsed + o.amount <= Quota
      BY <2>1, <2>3, <2>6 DEF Admissible
    <3> QED
      BY <2>2, <2>3, <2>4, <3>1, <3>2, OneMoreHeld
  <2> QED
    BY <2>5, <2>6
<1>3. ASSUME NEW a \in Attempts, Claim(a)
      PROVE  QuotaKept'
  BY <1>0, <1>3, LessHeld DEF Claim, MayLaunch, Held, HeldBudget
<1>4. CASE \E a \in Attempts : Start(a) \/ Progress(a)
  BY <1>1, <1>4 DEF Start, Progress, attemptVars, heldVars
<1>5. CASE \E S \in SUBSET {a \in Attempts : Live(a)} : Expire(S)
  BY <1>1, <1>5 DEF Expire, heldVars
<1>6. ASSUME NEW a \in Attempts, NEW outcome \in Outcomes, NEW h \in Heads \cup {NoHead},
             Complete(a, outcome, h)
      PROVE  QuotaKept'
  BY <1>0, <1>6, LessHeld DEF Complete, Release, Held, HeldBudget
<1>7. ASSUME NEW a \in Attempts, ReconcileStopped(a)
      PROVE  QuotaKept'
  BY <1>0, <1>7, LessHeld DEF ReconcileStopped, Release, Held, HeldBudget
<1>8. CASE \/ \E a \in Attempts : ReconcileEnded(a) \/ ReconcileUnknown(a)
           \/ \E m \in Missions : Refused(m) \/ Review(m)
           \/ \E m, d \in Missions : RecordMergeEvidence(m, d)
           \/ Foundation
           \/ Quiet
  BY <1>1, <1>8, LessHeld DEF ReconcileEnded, ReconcileUnknown, Refused, Block, Review,
     RecordMergeEvidence, Foundation, Quiet, attemptVars, heldVars
<1> QED
  BY <1>2, <1>3, <1>4, <1>5, <1>6, <1>7, <1>8, StepCases DEF Supervisor

\* The reservations that count never exceed the quota, however many missions
\* ask, retry and are reconciled: each was compared with what the others leave,
\* and none grows.
THEOREM ReservationsFit == Spec => []WithinQuota
<1>1. Init => QuotaKept
  <2> SUFFICES ASSUME Init PROVE QuotaKept
    OBVIOUS
  <2>1. Held = {}
    BY DEF Init, Held, HeldBudget
  <2>2. BudgetUsed = Cardinality(Units(identity, {}))
    BY <2>1, FS_EmptySet, SumIsUnits, HeldTotal
  <2>3. Units(identity, {}) = {}
    BY DEF Units
  <2> QED
    BY <2>1, <2>2, <2>3, FS_EmptySet, ExecutionAssumption DEF QuotaKept, WithinQuota
<1>2. IInv /\ QuotaKept /\ [Next]_vars => QuotaKept'
  BY QuotaStep
<1>3. QuotaKept => WithinQuota
  BY DEF QuotaKept
<1> QED
  BY <1>1, <1>2, <1>3, Invariance, PTL DEF Spec
=============================================================================
