----------------------- MODULE ExecutionControlProofs -----------------------
(***************************************************************************)
(* Theorems of ExecutionControl for every set of missions, attempts,       *)
(* workspaces and plans and every quota and time limit, proved with TLAPS. *)
(***************************************************************************)
EXTENDS ExecutionControl, MissionStoreProofs

-----------------------------------------------------------------------------
(* Max and Min of FiniteSetsExt are CHOOSEs: they are known where an       *)
(* element of the set is known to be extreme.                              *)

LEMMA MaxUnique ==
  ASSUME NEW S \in SUBSET Nat, NEW x \in S, \A y \in S : y <= x
  PROVE  Max(S) = x
<1>1. Max(S) \in S /\ \A y \in S : Max(S) >= y
  BY DEF Max
<1> DEFINE top == Max(S)
<1>2. /\ top \in Nat /\ x \in Nat
      /\ top >= x /\ top <= x
  BY <1>1
<1> HIDE DEF top
<1>3. top = x
  BY <1>2
<1> QED
  BY <1>3 DEF top

LEMMA MinOfTwo ==
  ASSUME NEW i \in Nat, NEW j \in Nat
  PROVE  Min({i, j}) \in Nat
<1>1. \E x \in {i, j} : \A y \in {i, j} : x =< y
  OBVIOUS
<1>2. Min({i, j}) \in {i, j}
  BY <1>1 DEF Min
<1> QED
  BY <1>2

\* A renewed lease is a time.
LEMMA RenewedType ==
  ASSUME TypeOK, NEW a \in Attempts
  PROVE  Renewed(a) \in Nat
BY MinOfTwo, ExecutionAssumption DEF TypeOK, Renewed

\* The attempt number that create gives follows the number of the attempt the
\* mission names, which is the newest.
LEMMA NextNumber ==
  ASSUME TypeOK, Ownership, NEW m \in Missions
  PROVE  LET top == IF current[m] = NoAttempt THEN 0 ELSE identity[current[m]].number
         IN  /\ top \in Nat
             /\ Max({identity[b].number : b \in OwnedBy(m)} \cup {0}) = top
<1> DEFINE S == {identity[b].number : b \in OwnedBy(m)} \cup {0}
<1>1. \A b \in Attempts : identity[b].number \in Nat
  BY DEF TypeOK, Identity
<1>2. S \in SUBSET Nat
  BY <1>1 DEF OwnedBy
<1>3. CASE current[m] = NoAttempt
  <2>1. \A b \in Attempts : MissionOf(b) \in Missions => current[MissionOf(b)] # NoAttempt
    BY DEF Ownership
  <2>a. OwnedBy(m) = {}
    BY <1>3, <2>1 DEF OwnedBy, MissionOf
  <2>2. S = {0}
    BY <2>a
  <2>3. 0 \in S /\ \A y \in S : y <= 0
    BY <2>2
  <2> HIDE DEF S
  <2>4. Max(S) = 0
    BY <1>2, <2>3, MaxUnique
  <2> QED
    BY <1>3, <2>4 DEF S
<1>4. CASE current[m] # NoAttempt
  <2>1. current[m] \in Attempts
    BY <1>4 DEF TypeOK, StoreTypeOK
  <2>2. current[m] \in OwnedBy(m)
    BY <1>4, <2>1 DEF Ownership, OwnedBy, MissionOf
  <2>3. \A b \in OwnedBy(m) : identity[b].number <= identity[current[m]].number
    BY DEF Ownership, OwnedBy, MissionOf
  <2>4. identity[current[m]].number \in Nat
    BY <1>1, <2>1
  <2>5. identity[current[m]].number \in S
    BY <2>2
  <2>6. \A y \in S : y <= identity[current[m]].number
    BY <2>3, <2>4
  <2> HIDE DEF S
  <2>7. Max(S) = identity[current[m]].number
    BY <1>2, <2>5, <2>6, MaxUnique
  <2> QED
    BY <1>4, <2>4, <2>7 DEF S
<1> QED
  BY <1>3, <1>4

-----------------------------------------------------------------------------
(* Type correctness.                                                       *)

LEMMA CreateType ==
  ASSUME TypeOK, Ownership, NEW m \in Missions, NEW a \in Attempts, NEW o \in Options,
         NEW approval \in BOOLEAN, Create(m, a, o, approval)
  PROVE  TypeOK'
<1>1. Max({identity[b].number : b \in OwnedBy(m)} \cup {0}) \in Nat
  BY NextNumber
<1> DEFINE n == 1 + Max({identity[b].number : b \in OwnedBy(m)} \cup {0})
<1>2. n \in Nat
  BY <1>1
<1>3. /\ o.kind \in Kinds /\ o.head \in Heads \cup {NoHead} /\ o.base \in Heads \cup {NoHead}
      /\ o.workspace \in Workspaces \cup {NoWorkspace} /\ o.amount \in Nat
  BY ExecutionAssumption DEF Options
<1>4. planVersion[m] \in Nat
  BY DEF TypeOK, StoreTypeOK
<1> HIDE DEF n
<1>5. [mission |-> m, number |-> n, plan |-> planVersion[m], kind |-> o.kind,
       approval |-> o.kind = "codex" \/ approval, head |-> o.head, base |-> o.base,
       workspace |-> o.workspace, amount |-> o.amount] \in Identity
  BY <1>2, <1>3, <1>4 DEF Identity
<1>6. identity' \in [Attempts -> Identity]
  BY <1>5 DEF Create, TypeOK, n
<1>7. StoreTypeOK'
  BY DEF Create, TypeOK, StoreTypeOK, States
<1>8. head' \in [Missions -> Heads \cup {NoHead}] /\ UNCHANGED <<evidence, retryable, stopProof, lease, granted>>
  BY <1>3 DEF Create, TypeOK
<1>9. status' \in [Attempts -> Status] /\ deadline' \in [Attempts -> Nat]
  BY ExecutionAssumption DEF Create, TypeOK, Status, LiveStatus
<1>10. /\ worktree' \in [Attempts -> HeldWorktree \cup {"none", "released"}]
       /\ budget' \in [Attempts -> HeldBudget \cup {"none", "released", "cancelled"}]
  BY DEF Create, TypeOK, HeldWorktree, HeldBudget
<1> QED
  BY <1>6, <1>7, <1>8, <1>9, <1>10 DEF TypeOK

LEMMA BlockType ==
  ASSUME TypeOK, NEW m \in Missions, Block(m)
  PROVE  TypeOK'
BY DEF TypeOK, StoreTypeOK, Block, attemptVars, timeVars, heldVars, States

LEMMA ExpireType ==
  ASSUME TypeOK, NEW S \in SUBSET Attempts, Expire(S)
  PROVE  TypeOK'
<1>1. StoreTypeOK'
  BY DEF TypeOK, StoreTypeOK, Expire, States
<1>2. /\ status' \in [Attempts -> Status]
      /\ retryable' \in [Attempts -> BOOLEAN]
      /\ deadline' \in [Attempts -> Nat]
      /\ lease' \in [Attempts -> Nat]
  BY DEF TypeOK, Expire, Status
<1>3. worktree' \in [Attempts -> HeldWorktree \cup {"none", "released"}]
  BY DEF TypeOK, Expire, HeldWorktree
<1> QED
  BY <1>1, <1>2, <1>3 DEF TypeOK, Expire

LEMMA ReleaseType ==
  ASSUME TypeOK, NEW a \in Attempts, NEW end \in {"released", "cancelled"}, Release(a, end)
  PROVE  /\ worktree' \in [Attempts -> HeldWorktree \cup {"none", "released"}]
         /\ budget' \in [Attempts -> HeldBudget \cup {"none", "released", "cancelled"}]
BY DEF TypeOK, Release

-----------------------------------------------------------------------------
(* create: the step every generation begins with.                          *)

\* No mission names an attempt id that was never used.
LEMMA UnusedAttempt ==
  ASSUME TypeOK, Ownership, NEW a \in Attempts, status[a] = "none"
  PROVE  /\ MissionOf(a) = NoMission
         /\ \A n \in Missions : current[n] # a
BY StoreAssumption, ExecutionAssumption DEF TypeOK, StoreTypeOK, Ownership, MissionOf

\* A generation that begins when the former one of its mission can no longer
\* act leaves the invariant intact.
LEMMA CreateSafe ==
  ASSUME IInv, NEW m \in Missions, NEW a \in Attempts, NEW o \in Options,
         NEW approval \in BOOLEAN, Create(m, a, o, approval),
         current[m] # NoAttempt => ~ Unstopped(current[m])
  PROVE  IInv'
<1> USE DEF MissionOf
<1>1. TypeOK'
  BY CreateType DEF IInv
<1>2. /\ status[a] = "none"
      /\ identity[a].mission = NoMission
      /\ \A n \in Missions : current[n] # a
  BY UnusedAttempt DEF IInv, Create
<1>3. /\ identity'[a].mission = m
      /\ \A b \in Attempts \ {a} : identity'[b] = identity[b]
      /\ status' = [status EXCEPT ![a] = "queued"]
      /\ current' = [current EXCEPT ![m] = a]
      /\ lifecycle' = [lifecycle EXCEPT ![m] = "ready"]
      /\ UNCHANGED <<retryable, stopProof>>
  BY DEF Create, IInv, TypeOK
<1>4. /\ \A b \in Attempts : b # a => /\ worktree'[b] = worktree[b]
                                      /\ budget'[b] = budget[b]
      /\ worktree'[a] \in {"none", "reserved"}
      /\ budget'[a] \in {"none", "reserved"}
  BY DEF Create, IInv, TypeOK
<1>5. Ownership'
  <2> DEFINE top == IF current[m] = NoAttempt THEN 0 ELSE identity[current[m]].number
  <2>1. top \in Nat /\ Max({identity[b].number : b \in OwnedBy(m)} \cup {0}) = top
    BY NextNumber DEF IInv
  <2>2. identity'[a].number = 1 + top
    BY <2>1 DEF Create, IInv, TypeOK
  <2>3. ASSUME NEW b \in Attempts
        PROVE  /\ status'[b] = "none" <=> identity'[b].mission = NoMission
               /\ status'[b] = "none" => worktree'[b] = "none" /\ budget'[b] = "none"
    BY <1>3, <1>4, ExecutionAssumption DEF IInv, Ownership, TypeOK
  <2>4. ASSUME NEW b \in Attempts, identity'[b].mission \in Missions
        PROVE  LET n == identity'[b].mission IN
               current'[n] # NoAttempt /\ identity'[b].number <= identity'[current'[n]].number
    <3>1. CASE b = a
      BY <1>3, <2>1, <2>2, <3>1, StoreAssumption DEF IInv, TypeOK, StoreTypeOK
    <3>2. CASE b # a /\ identity[b].mission = m
      <4>1. identity[b].number <= top
        BY <3>2 DEF IInv, Ownership
      <4>2. identity[b].number \in Nat
        BY DEF IInv, TypeOK, Identity
      <4>3. identity'[b].number <= 1 + top
        BY <1>3, <2>1, <3>2, <4>1, <4>2
      <4> HIDE DEF top
      <4> QED
        BY <1>3, <2>2, <3>2, <4>3, StoreAssumption DEF IInv, TypeOK, StoreTypeOK
    <3>3. CASE b # a /\ identity[b].mission # m
      <4> DEFINE n == identity[b].mission
      <4>1. n \in Missions /\ current[n] # NoAttempt /\ current[n] # a
        BY <1>2, <1>3, <2>4, <3>3 DEF IInv, Ownership
      <4>2. current[n] \in Attempts
        BY <4>1 DEF IInv, TypeOK, StoreTypeOK
      <4>3. current'[n] = current[n] /\ identity'[current[n]] = identity[current[n]]
        BY <1>3, <3>3, <4>1, <4>2 DEF IInv, TypeOK, StoreTypeOK
      <4>4. identity[b].number <= identity[current[n]].number
        BY <4>1 DEF IInv, Ownership
      <4> QED
        BY <1>3, <3>3, <4>1, <4>3, <4>4
    <3> QED
      BY <3>1, <3>2, <3>3
  <2>5. ASSUME NEW n \in Missions, current'[n] # NoAttempt
        PROVE  identity'[current'[n]].mission = n
    BY <1>2, <1>3, <2>5 DEF IInv, Ownership, TypeOK, StoreTypeOK
  <2> QED
    BY <2>3, <2>4, <2>5 DEF Ownership
<1>6. StopRecorded'
  BY <1>2, <1>3 DEF IInv, StopRecorded, TypeOK, LiveStatus, TerminalStatus
<1>7. OneGeneration'
  <2> SUFFICES ASSUME NEW b \in Attempts, Unstopped(b)'
               PROVE  /\ identity'[b].mission \in Missions
                      /\ current'[identity'[b].mission] = b
    BY DEF OneGeneration
  <2>1. CASE b = a
    BY <1>3, <2>1 DEF IInv, TypeOK, StoreTypeOK
  <2>2. CASE b # a
    <3>1. Unstopped(b)
      BY <1>3, <2>2 DEF Unstopped, Live, IInv, TypeOK
    <3>2. identity[b].mission \in Missions /\ current[identity[b].mission] = b
      BY <3>1 DEF IInv, OneGeneration
    <3>3. identity[b].mission # m
      BY <3>1, <3>2, StoreAssumption
    <3> QED
      BY <1>3, <2>2, <3>2, <3>3 DEF IInv, TypeOK, StoreTypeOK
  <2> QED
    BY <2>1, <2>2
<1>8. HeldUntilStopped'
  BY <1>2, <1>3, <1>4
  DEF IInv, HeldUntilStopped, Holds, StopRecorded, LiveStatus, TypeOK
<1>9. LifecycleAgrees'
  BY <1>2, <1>3 DEF IInv, LifecycleAgrees, Agrees, TypeOK, StoreTypeOK
<1> QED
  BY <1>1, <1>5, <1>6, <1>7, <1>8, <1>9 DEF IInv

LEMMA QueueSafe ==
  ASSUME IInv, NEW m \in Missions, NEW a \in Attempts, NEW o \in Options, Queue(m, a, o)
  PROVE  IInv'
BY CreateSafe, ExecutionAssumption DEF Queue, Queueable, Options

LEMMA RetrySafe ==
  ASSUME IInv, NEW m \in Missions, NEW a \in Attempts, NEW o \in Options, Retry(m, a, o)
  PROVE  IInv'
<1>1. current[m] \in Attempts
  BY DEF IInv, TypeOK, StoreTypeOK, Retry, RetryPermitted
<1>2. (identity[current[m]].approval \/ o.approval) \in BOOLEAN
  OBVIOUS
<1>3. ~ Unstopped(current[m])
  BY DEF Retry, RetryPermitted, Unstopped, Live, LiveStatus
<1> QED
  BY <1>2, <1>3, CreateSafe DEF Retry

-----------------------------------------------------------------------------
(* The operations that leave the rows of attempts and what they hold alone *)
(* can disturb the types and the agreement of mission and attempt only.    *)

LEMMA RowsKept ==
  ASSUME IInv, UNCHANGED <<current, identity, status, stopProof, heldVars>>
  PROVE  Ownership' /\ StopRecorded' /\ OneGeneration' /\ HeldUntilStopped'
BY DEF IInv, heldVars, Ownership, MissionOf, StopRecorded, OneGeneration,
       Unstopped, Live, HeldUntilStopped, Holds

\* Neither does the state of any mission change.
LEMMA LifecycleKept ==
  ASSUME IInv, TypeOK', UNCHANGED <<lifecycle, current, attemptVars, heldVars>>
  PROVE  IInv'
<1>1. LifecycleAgrees'
  BY DEF IInv, LifecycleAgrees, Agrees, attemptVars
<1> QED
  BY <1>1, RowsKept DEF IInv, attemptVars

\* A refused operation may block a mission whose attempt has not started or
\* waits to be run again.
LEMMA BlockSafe ==
  ASSUME IInv, NEW m \in Missions, Block(m),
         LET a == current[m] IN
         \/ a = NoAttempt
         \/ status[a] \in {"queued", "claimed", "stale"}
         \/ status[a] = "failed" /\ retryable[a]
  PROVE  IInv'
<1>1. TypeOK'
  BY BlockType DEF IInv
<1>2. LifecycleAgrees'
  BY DEF IInv, TypeOK, StoreTypeOK, LifecycleAgrees, Agrees, Block, attemptVars
<1> QED
  BY <1>1, <1>2, RowsKept DEF IInv, Block, attemptVars

LEMMA RefusalSafe ==
  ASSUME IInv,
         \/ \E m \in Missions, o \in Options : QueueBlocked(m, o) \/ RetryBlocked(m, o)
         \/ \E a \in Attempts : ClaimBlocked(a) \/ StartBlocked(a)
  PROVE  IInv'
<1>1. ASSUME NEW m \in Missions, NEW o \in Options, QueueBlocked(m, o)
      PROVE  IInv'
  BY <1>1, BlockSafe DEF QueueBlocked, Queueable
<1>2. ASSUME NEW m \in Missions, NEW o \in Options, RetryBlocked(m, o)
      PROVE  IInv'
  BY <1>2, BlockSafe DEF RetryBlocked, RetryPermitted
<1>3. ASSUME NEW a \in Attempts, ClaimBlocked(a)
      PROVE  IInv'
  BY <1>3, BlockSafe DEF ClaimBlocked, Claimable, Verified, BindingCurrent
<1>4. ASSUME NEW a \in Attempts, StartBlocked(a)
      PROVE  IInv'
  BY <1>4, BlockSafe DEF StartBlocked, Startable, Verified, BindingCurrent
<1> QED
  BY <1>1, <1>2, <1>3, <1>4

LEMMA FoundationSafe ==
  ASSUME IInv, Foundation
  PROVE  IInv'
<1>1. StoreTypeOK'
  BY StoreTypeStep DEF IInv, TypeOK, Foundation
<1>2. TypeOK'
  BY <1>1 DEF IInv, TypeOK, Foundation, attemptVars, timeVars, heldVars
<1>3. UNCHANGED <<current, attemptVars, heldVars>>
  BY DEF Foundation, StoreNext, Admit, Transition, SavePlan, Cancel
<1>4. LifecycleAgrees'
  <2> USE <1>3 DEF IInv, TypeOK, StoreTypeOK, LifecycleAgrees, Agrees, attemptVars
  <2>1. ASSUME NEW m \in Missions, Admit(m)
        PROVE  LifecycleAgrees'
    BY <2>1 DEF Admit, Status, LiveStatus, TerminalStatus, Stopping, Ownership
  <2>2. ASSUME NEW m \in Missions, NEW to \in States, Transition(m, to)
        PROVE  LifecycleAgrees'
    BY <2>2 DEF Transition, FoundationTransitions
  <2>3. ASSUME NEW m \in Missions, NEW plan \in Plans, SavePlan(m, plan)
        PROVE  LifecycleAgrees'
    BY <2>3 DEF SavePlan
  <2>4. ASSUME NEW m \in Missions, Cancel(m)
        PROVE  LifecycleAgrees'
    BY <2>4 DEF Cancel, TerminalMissions, Stopping
  <2> QED
    BY <2>1, <2>2, <2>3, <2>4 DEF Foundation, StoreNext
<1> QED
  BY <1>2, <1>3, <1>4, RowsKept DEF IInv, attemptVars

LEMMA ProgressSafe ==
  ASSUME IInv, NEW a \in Attempts, Progress(a)
  PROVE  IInv'
<1>1. TypeOK'
  BY DEF IInv, TypeOK, StoreTypeOK, States, Progress, attemptVars, timeVars, heldVars
<1>2. LifecycleAgrees'
  BY StoreAssumption DEF IInv, TypeOK, StoreTypeOK, LifecycleAgrees, Agrees,
         Progress, Verified,
         BindingCurrent, attemptVars
<1> QED
  BY <1>1, <1>2, RowsKept DEF IInv, Progress, attemptVars

LEMMA ReviewSafe ==
  ASSUME IInv, NEW m \in Missions, Review(m)
  PROVE  IInv'
<1>1. lifecycle[m] \in {"reviewing", "awaiting_nadir_approval"}
      /\ ReviewStep[lifecycle[m]] \in {"awaiting_nadir_approval", "completed"}
  BY DEF Review, ReviewStep
<1>2. TypeOK'
  BY <1>1 DEF IInv, TypeOK, StoreTypeOK, States, Review, attemptVars, timeVars, heldVars
<1>3. LifecycleAgrees'
  BY <1>1 DEF IInv, TypeOK, StoreTypeOK, LifecycleAgrees, Agrees, Review, attemptVars
<1> QED
  BY <1>2, <1>3, RowsKept DEF IInv, Review, attemptVars

LEMMA ReconcileEndedSafe ==
  ASSUME IInv, NEW a \in Attempts, ReconcileEnded(a)
  PROVE  IInv'
<1>1. TypeOK'
  BY DEF IInv, TypeOK, StoreTypeOK, States, ReconcileEnded, Reconcilable,
         attemptVars, timeVars, heldVars
<1>2. LifecycleAgrees'
  BY DEF IInv, TypeOK, StoreTypeOK, LifecycleAgrees, Agrees, ReconcileEnded,
         Reconcilable,
         Cancelling, Stopping, TerminalStatus, attemptVars
<1> QED
  BY <1>1, <1>2, RowsKept DEF IInv, ReconcileEnded, attemptVars

LEMMA TimeSafe ==
  ASSUME IInv, Tick \/ \E a \in Attempts : Heartbeat(a)
  PROVE  IInv'
<1>1. CASE Tick
  <2>1. TypeOK'
    BY <1>1 DEF IInv, TypeOK, StoreTypeOK, Tick, missionVars, attemptVars, heldVars
  <2> QED
    BY <1>1, <2>1, LifecycleKept DEF Tick, missionVars
<1>2. ASSUME NEW a \in Attempts, Heartbeat(a)
      PROVE  IInv'
  <2>1. TypeOK'
    BY <1>2, RenewedType
    DEF IInv, TypeOK, StoreTypeOK, Heartbeat, missionVars, attemptVars, heldVars
  <2> QED
    BY <1>2, <2>1, LifecycleKept DEF Heartbeat, missionVars
<1> QED
  BY <1>1, <1>2

LEMMA RecordSafe ==
  ASSUME IInv,
         \/ \E a \in Attempts, type \in ApprovalTypes : BindApproval(a, type)
         \/ \E g \in granted : ApprovalLapses(g)
         \/ \E m, d \in Missions : RecordMergeEvidence(m, d)
  PROVE  IInv'
<1> USE DEF IInv, TypeOK, StoreTypeOK, missionVars, attemptVars, timeVars, heldVars
<1>1. ASSUME NEW a \in Attempts, NEW type \in ApprovalTypes, BindApproval(a, type)
      PROVE  TypeOK' /\ UNCHANGED <<lifecycle, current, attemptVars, heldVars>>
  BY <1>1 DEF BindApproval, BindingCurrent, MissionOf, Grant, Identity
<1>2. ASSUME NEW g \in granted, ApprovalLapses(g)
      PROVE  TypeOK' /\ UNCHANGED <<lifecycle, current, attemptVars, heldVars>>
  BY <1>2 DEF ApprovalLapses
<1>3. ASSUME NEW m \in Missions, NEW d \in Missions, RecordMergeEvidence(m, d)
      PROVE  TypeOK' /\ UNCHANGED <<lifecycle, current, attemptVars, heldVars>>
  BY <1>3 DEF RecordMergeEvidence, storeVars
<1> QED
  BY <1>1, <1>2, <1>3, LifecycleKept

-----------------------------------------------------------------------------
(* The operations that move an attempt.                                    *)

LEMMA ClaimSafe ==
  ASSUME IInv, NEW a \in Attempts, Claim(a)
  PROVE  IInv'
<1> USE StoreAssumption DEF IInv, TypeOK, StoreTypeOK, MissionOf, LiveStatus, TerminalStatus
<1>1. TypeOK'
  BY RenewedType DEF Claim, Claimable, Verified, BindingCurrent, Status, States,
         HeldWorktree, HeldBudget
<1>2. Ownership'
  BY DEF Claim, Claimable, Verified, BindingCurrent, Ownership, Live
<1>3. StopRecorded'
  BY DEF Claim, Claimable, Verified, BindingCurrent, StopRecorded
<1>4. OneGeneration'
  BY DEF Claim, Claimable, Verified, BindingCurrent, OneGeneration, Unstopped, Live
<1>5. HeldUntilStopped'
  BY DEF Claim, Claimable, Verified, BindingCurrent, HeldUntilStopped, Holds,
         StopRecorded, HeldWorktree, HeldBudget
<1>6. LifecycleAgrees'
  BY DEF Claim, Claimable, Verified, BindingCurrent, LifecycleAgrees, Agrees, Ownership
<1> QED
  BY <1>1, <1>2, <1>3, <1>4, <1>5, <1>6

LEMMA StartSafe ==
  ASSUME IInv, NEW a \in Attempts, Start(a)
  PROVE  IInv'
<1> USE StoreAssumption DEF IInv, TypeOK, StoreTypeOK, MissionOf, LiveStatus, TerminalStatus
<1>1. TypeOK'
  BY DEF Start, Startable, Verified, BindingCurrent, Status, States, timeVars, heldVars
<1>2. Ownership'
  BY DEF Start, Startable, Verified, BindingCurrent, Ownership, heldVars
<1>3. StopRecorded'
  BY DEF Start, Startable, Verified, BindingCurrent, StopRecorded
<1>4. OneGeneration'
  BY DEF Start, Startable, Verified, BindingCurrent, OneGeneration, Unstopped, Live
<1>5. HeldUntilStopped'
  BY DEF Start, Startable, Verified, BindingCurrent, HeldUntilStopped, Holds,
         StopRecorded, HeldWorktree, HeldBudget, heldVars
<1>6. LifecycleAgrees'
  BY DEF Start, Startable, Verified, BindingCurrent, LifecycleAgrees, Agrees, Ownership
<1> QED
  BY <1>1, <1>2, <1>3, <1>4, <1>5, <1>6

\* The attempts a scan or a late callback expires were live.
LEMMA ExpireSafe ==
  ASSUME IInv, NEW S \in SUBSET {a \in Attempts : Live(a)}, Expire(S)
  PROVE  IInv'
<1> USE StoreAssumption DEF IInv, TypeOK, StoreTypeOK, MissionOf, LiveStatus, TerminalStatus
<1>1. TypeOK'
  BY ExpireType DEF Expire, Status, States
<1>2. Ownership'
  BY DEF Expire, Ownership, Live, HeldWorktree
<1>3. StopRecorded'
  BY DEF Expire, StopRecorded, Live
<1>4. OneGeneration'
  BY DEF Expire, OneGeneration, Unstopped, Live
<1>5. HeldUntilStopped'
  BY DEF Expire, HeldUntilStopped, Holds, StopRecorded, HeldWorktree, HeldBudget
<1>6. LifecycleAgrees'
  BY DEF Expire, LifecycleAgrees, Agrees, Ownership, StopRecorded, Cancelling,
         Stopping, Live,
         OneGeneration, Unstopped
<1> QED
  BY <1>1, <1>2, <1>3, <1>4, <1>5, <1>6

LEMMA ReconcileStoppedSafe ==
  ASSUME IInv, NEW a \in Attempts, ReconcileStopped(a)
  PROVE  IInv'
<1> USE StoreAssumption DEF IInv, TypeOK, StoreTypeOK, MissionOf, LiveStatus, TerminalStatus
<1>1. TypeOK'
  BY ReleaseType DEF ReconcileStopped, Reconcilable, Status, States
<1>2. Ownership'
  BY ExecutionAssumption DEF ReconcileStopped, Reconcilable, Ownership, Release,
         HeldBudget
<1>3. StopRecorded'
  BY DEF ReconcileStopped, Reconcilable, StopRecorded
<1>4. OneGeneration'
  BY DEF ReconcileStopped, Reconcilable, OneGeneration, Unstopped, Live
<1>5. HeldUntilStopped'
  BY DEF ReconcileStopped, Reconcilable, HeldUntilStopped, Holds, StopRecorded,
         HeldWorktree, HeldBudget, Release
<1>6. LifecycleAgrees'
  BY DEF ReconcileStopped, Reconcilable, LifecycleAgrees, Agrees, Ownership, Status,
         StopRecorded, Cancelling, Stopping, OneGeneration, Unstopped, Live
<1> QED
  BY <1>1, <1>2, <1>3, <1>4, <1>5, <1>6

LEMMA ReconcileUnknownSafe ==
  ASSUME IInv, NEW a \in Attempts, ReconcileUnknown(a)
  PROVE  IInv'
<1> USE StoreAssumption DEF IInv, TypeOK, StoreTypeOK, MissionOf, LiveStatus, TerminalStatus
<1>1. TypeOK'
  BY DEF ReconcileUnknown, Reconcilable, Status, States, HeldWorktree, attemptVars,
         timeVars
<1>2. Ownership'
  BY DEF ReconcileUnknown, Reconcilable, Ownership, HeldWorktree, attemptVars
<1>3. StopRecorded'
  BY DEF ReconcileUnknown, Reconcilable, StopRecorded, attemptVars
<1>4. OneGeneration'
  BY DEF ReconcileUnknown, Reconcilable, OneGeneration, Unstopped, Live, attemptVars
<1>5. HeldUntilStopped'
  BY DEF ReconcileUnknown, Reconcilable, HeldUntilStopped, Holds, StopRecorded,
         HeldWorktree, HeldBudget, attemptVars
<1>6. LifecycleAgrees'
  BY DEF ReconcileUnknown, Reconcilable, LifecycleAgrees, Agrees, Cancelling,
         Stopping, attemptVars, StopRecorded
<1> QED
  BY <1>1, <1>2, <1>3, <1>4, <1>5, <1>6

LEMMA CompleteSafe ==
  ASSUME IInv, NEW a \in Attempts, NEW outcome \in Outcomes, NEW h \in Heads \cup {NoHead}, Complete(a, outcome, h)
  PROVE  IInv'
<1> USE StoreAssumption DEF IInv, TypeOK, StoreTypeOK, MissionOf, LiveStatus, TerminalStatus
<1>1. TypeOK'
  BY ReleaseType DEF Complete, Verified, BindingCurrent, Status, States, Outcomes,
         Verdict
<1>2. Ownership'
  BY DEF Complete, Verified, BindingCurrent, Ownership, Release, HeldBudget
<1>3. StopRecorded'
  BY DEF Complete, Verified, BindingCurrent, StopRecorded
<1>4. OneGeneration'
  BY DEF Complete, Verified, BindingCurrent, OneGeneration, Unstopped, Live
<1>5. HeldUntilStopped'
  BY DEF Complete, Verified, BindingCurrent, HeldUntilStopped, Holds, StopRecorded,
         HeldWorktree, HeldBudget, Release
<1>6. LifecycleAgrees'
  <2> PICK m \in Missions : m = MissionOf(a)
    BY DEF Complete, Verified, BindingCurrent
  <2>1. /\ lifecycle' = [lifecycle EXCEPT ![m] = Verdict[outcome]]
        /\ status' = [status EXCEPT ![a] = IF outcome = "completed" THEN "completed" ELSE "failed"]
        /\ retryable' = [retryable EXCEPT ![a] = outcome = "failed_retryable"]
        /\ stopProof' = [stopProof EXCEPT ![a] = TRUE]
        /\ m \in Missions /\ current[m] = a
        /\ UNCHANGED current
    BY DEF Complete, Verified, BindingCurrent
  <2>2. Agrees(m)'
    <3>1. /\ lifecycle'[m] = Verdict[outcome]
          /\ status'[a] = IF outcome = "completed" THEN "completed" ELSE "failed"
          /\ current'[m] = a
      BY <2>1
    <3>2. CASE outcome = "completed"
      BY <3>1, <3>2 DEF Agrees, Verdict
    <3>3. CASE outcome = "failed_retryable"
      <4>1. retryable'[a]
        BY <2>1, <3>3
      <4> QED
        BY <3>1, <3>3, <4>1 DEF Agrees, Verdict
    <3>4. CASE outcome = "failed_permanent"
      <4>1. ~ retryable'[a]
        BY <2>1, <3>4
      <4> QED
        BY <3>1, <3>4, <4>1 DEF Agrees, Verdict
    <3> QED
      BY <3>2, <3>3, <3>4 DEF Outcomes, Verdict
  <2>3. ASSUME NEW n \in Missions, n # m
        PROVE  Agrees(n)'
    <3>1. current[n] # a
      BY <2>3 DEF Ownership
    <3>2. /\ lifecycle'[n] = lifecycle[n]
          /\ current[n] # NoAttempt => /\ status'[current[n]] = status[current[n]]
                                       /\ retryable'[current[n]] = retryable[current[n]]
                                       /\ stopProof'[current[n]] = stopProof[current[n]]
      BY <2>1, <2>3, <3>1
    <3>3. Agrees(n)
      BY DEF LifecycleAgrees
    <3> QED
      BY <2>1, <3>2, <3>3 DEF Agrees
  <2> QED
    BY <2>2, <2>3 DEF LifecycleAgrees
<1> QED
  BY <1>1, <1>2, <1>3, <1>4, <1>5, <1>6

-----------------------------------------------------------------------------
(* The inductive invariant and what it implies.                            *)

LEMMA InvInit == Init => IInv
<1> SUFFICES ASSUME Init PROVE IInv
  OBVIOUS
<1>1. TypeOK
  BY StoreTypeInit DEF Init, TypeOK, Identity, NoIdentity, Status
<1>2. Ownership /\ StopRecorded /\ OneGeneration /\ HeldUntilStopped /\ LifecycleAgrees
  BY ExecutionAssumption
  DEF Init, StoreInit, NoIdentity, Ownership, MissionOf, StopRecorded, TerminalStatus,
      LiveStatus, OneGeneration, Unstopped, Live, HeldUntilStopped, Holds, HeldWorktree,
      HeldBudget, LifecycleAgrees, Agrees
<1> QED
  BY <1>1, <1>2 DEF IInv

LEMMA InvStutter == IInv /\ UNCHANGED vars => IInv'
<1> SUFFICES ASSUME IInv, UNCHANGED vars PROVE IInv'
  OBVIOUS
<1> USE DEF vars, missionVars, attemptVars, timeVars, heldVars
<1>1. TypeOK'
  BY DEF IInv, TypeOK, StoreTypeOK
<1> QED
  BY <1>1, LifecycleKept

LEMMA InvStep == IInv /\ [Next]_vars => IInv'
<1> SUFFICES ASSUME IInv, [Next]_vars PROVE IInv'
  OBVIOUS
<1>1. CASE Foundation
  BY <1>1, FoundationSafe
<1>2. ASSUME NEW m \in Missions, Operator(m) PROVE IInv'
  BY <1>2, QueueSafe, RetrySafe, RefusalSafe, ReviewSafe, RecordSafe DEF Operator
<1>3. ASSUME NEW a \in Attempts, Worker(a) PROVE IInv'
  <2>1. CASE LateCallback(a)
    <3>1. {a} \in SUBSET {b \in Attempts : Live(b)}
      BY <2>1 DEF LateCallback
    <3> QED
      BY <2>1, <3>1, ExpireSafe DEF LateCallback
  <2>2. CASE ClaimBlocked(a) \/ StartBlocked(a)
    BY <2>2, RefusalSafe
  <2>3. CASE Heartbeat(a)
    BY <2>3, TimeSafe
  <2> QED
    BY <1>3, <2>1, <2>2, <2>3, ClaimSafe, StartSafe, ProgressSafe, CompleteSafe DEF Worker
<1>4. ASSUME NEW a \in Attempts, Supervisor(a) PROVE IInv'
  BY <1>4, ReconcileEndedSafe, ReconcileStoppedSafe, ReconcileUnknownSafe DEF Supervisor
<1>5. CASE ScanExpired
  <2>1. {a \in Attempts : Live(a) /\ Expired(a)} \in SUBSET {a \in Attempts : Live(a)}
    OBVIOUS
  <2> QED
    BY <1>5, <2>1, ExpireSafe DEF ScanExpired
<1>6. CASE \/ \E a \in Attempts, type \in ApprovalTypes : BindApproval(a, type)
           \/ \E g \in granted : ApprovalLapses(g)
  BY <1>6, RecordSafe
<1>7. CASE Tick
  BY <1>7, TimeSafe
<1>8. CASE UNCHANGED vars
  BY <1>8, InvStutter
<1> QED
  BY <1>1, <1>2, <1>3, <1>4, <1>5, <1>6, <1>7, <1>8 DEF Next

\* Whatever operators, workers, the scanner, the supervisor and the clock do,
\* in any order, the tables of execution control stay consistent.
THEOREM Invariance == Spec => []IInv
<1>1. Init => IInv
  BY InvInit
<1>2. IInv /\ [Next]_vars => IInv'
  BY InvStep
<1> QED
  BY <1>1, <1>2, PTL DEF Spec

\* Every column of every table keeps a value of its domain.
THEOREM TypeCorrect == Spec => []TypeOK
<1>1. IInv => TypeOK
  BY DEF IInv
<1> QED
  BY <1>1, Invariance, PTL

\* No mission ever has two generations that may still act, and the one it has is
\* the one its row names.
THEOREM AtMostOneGeneration == Spec => []OneGeneration
<1>1. IInv => OneGeneration
  BY DEF IInv
<1> QED
  BY <1>1, Invariance, PTL

\* The workspace and the budget of an attempt are released exactly when its stop
\* is proved.
THEOREM ReleasedWhenStopped == Spec => []HeldUntilStopped
<1>1. IInv => HeldUntilStopped
  BY DEF IInv
<1> QED
  BY <1>1, Invariance, PTL

\* The state a mission shows agrees with what its attempt went through.
THEOREM MissionAgreesWithAttempt == Spec => []LifecycleAgrees
<1>1. IInv => LifecycleAgrees
  BY DEF IInv
<1> QED
  BY <1>1, Invariance, PTL

\* The attempt of a finished mission was seen to stop.
LEMMA AtRest ==
  ASSUME IInv
  PROVE  TerminalAtRest
<1> SUFFICES ASSUME NEW a \in Attempts, MissionOf(a) \in Missions,
                    lifecycle[MissionOf(a)] \in TerminalMissions
             PROVE  ~ Unstopped(a) /\ ~ Holds(a)
  BY DEF TerminalAtRest
<1>1. ~ Unstopped(a)
  <2> SUFFICES ASSUME Unstopped(a) PROVE FALSE
    OBVIOUS
  <2>1. current[MissionOf(a)] = a
    BY DEF IInv, OneGeneration
  <2>2. Agrees(MissionOf(a))
    BY DEF IInv, LifecycleAgrees
  <2> QED
    BY <2>1, <2>2, StoreAssumption
    DEF Agrees, Unstopped, Live, LiveStatus, TerminalMissions, Stopping
<1>2. status[a] # "none"
  BY ExecutionAssumption DEF IInv, Ownership
<1>3. stopProof[a]
  BY <1>1, <1>2
  DEF IInv, TypeOK, Status, StopRecorded, TerminalStatus, Unstopped, Live
<1> QED
  BY <1>1, <1>3 DEF IInv, HeldUntilStopped

\* A finished mission has no worker that may still act and holds no resource.
THEOREM FinishedAtRest == Spec => []TerminalAtRest
<1>1. IInv => TerminalAtRest
  BY AtRest
<1> QED
  BY <1>1, Invariance, PTL
=============================================================================
