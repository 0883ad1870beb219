-------------------------- MODULE ExecutionControl --------------------------
(***************************************************************************)
(* V2 execution control: attempts of a mission, the workspace lease and    *)
(* the budget reservation each of them owns, their time limits, and the    *)
(* operations of ExecutionControl on them                                  *)
(* (src/src/core/missions-v2/execution.ts, migrations 005 to 009), over    *)
(* the mission rows of MissionStore.                                       *)
(*                                                                         *)
(* Every operation is one transaction under the lock of agent_missions,    *)
(* hence one step.  A refusal that rolls back is not a step; a refusal     *)
(* that commits a state change (DurableRejection: the mission is blocked,  *)
(* or the attempt expires) is one.  A callback names its attempt by its    *)
(* id; the worker and the fencing token it also carries are compared with  *)
(* the row of that attempt, so they single out nothing the id does not,    *)
(* and an attempt that is no longer the current one is refused.  Replaying *)
(* an idempotency key, phases, error codes, event rows and counters change *)
(* nothing a later operation reads, and are left out.  So are a NULL quota *)
(* (budget_unknown: the configuration always sets one) and a Codex attempt *)
(* without its policy row (create always writes it).                       *)
(*                                                                         *)
(* Time: deadline[a] and lease[a] are what is left of deadline_at and      *)
(* lease_expires_at, counted down by Tick; 0 is "at or before now".  They  *)
(* are reset to 0 when the attempt ends, as nothing reads them afterwards. *)
(***************************************************************************)
EXTENDS MissionStore, FiniteSetsExt

CONSTANTS
  NoMission,         \* owner of an attempt id no attempt uses yet
  Kinds,             \* worker types in use, among "fake" and "codex"
  Workspaces,        \* workspaces that requests name: [repo, branch, path]
  NoWorkspace,       \* no workspace requested
  Amounts,           \* budget amounts that requests reserve; 0: no budget
  ApprovalChoices,   \* values of approval_required that requests carry
  ApprovalTypes,     \* effects the human approves, among "execute" and "review"
  Quota,             \* quotaAmount of the configuration
  LeaseTime,         \* leaseSeconds, in ticks
  DeadlineTime,      \* deadlineSeconds, in ticks
  MaxCodexAttempts   \* max_attempts of the Codex policy

ASSUME ExecutionAssumption ==
  /\ NoMission \notin Missions
  /\ NoWorkspace \notin Workspaces
  /\ Kinds \subseteq {"fake", "codex"}
  /\ Amounts \subseteq Nat
  /\ ApprovalChoices \subseteq BOOLEAN
  /\ ApprovalTypes \subseteq {"execute", "review"}
  /\ Quota \in Nat
  /\ LeaseTime \in Nat \ {0}
  /\ DeadlineTime \in Nat \ {0}
  /\ MaxCodexAttempts \in Nat

VARIABLES
  head,      \* head_sha of each mission
  evidence,  \* rows of mission_dependencies whose human merge is recorded
  identity,  \* columns of an attempt that its INSERT fixes
  status,    \* status of an attempt, "none" before its INSERT
  retryable, \* retryable
  stopProof, \* stop_proof_at and reconciled_at are set, always together
  deadline,  \* time left before deadline_at
  lease,     \* time left before lease_expires_at
  worktree,  \* status of the attempt's row in worktree_leases, "none" if absent
  budget,    \* status of its row in budget_reservations, "none" if absent
  granted    \* approvals bound to an attempt and still valid

missionVars == <<lifecycle, planVersion, current, dependencies, head, evidence>>
attemptVars == <<identity, status, retryable, stopProof>>
timeVars    == <<deadline, lease>>
heldVars    == <<worktree, budget>>
vars == <<missionVars, attemptVars, timeVars, heldVars, granted>>

-----------------------------------------------------------------------------
LiveStatus     == {"queued", "claimed", "running"}
TerminalStatus == {"completed", "failed", "cancelled"}
Status         == LiveStatus \cup TerminalStatus \cup {"none", "stale"}

\* A worktree lease or a reservation in these states excludes other attempts.
HeldWorktree == {"reserved", "leased", "quarantined"}
HeldBudget   == {"reserved", "consuming"}

Identity ==
  [mission : Missions \cup {NoMission}, number : Nat, plan : Nat,
   kind : Kinds \cup {"none"}, approval : BOOLEAN,
   head : Heads \cup {NoHead}, base : Heads \cup {NoHead},
   workspace : Workspaces \cup {NoWorkspace}, amount : Nat]

NoIdentity ==
  [mission |-> NoMission, number |-> 0, plan |-> 0, kind |-> "none",
   approval |-> FALSE, head |-> NoHead, base |-> NoHead,
   workspace |-> NoWorkspace, amount |-> 0]

\* A binding of mission_approval_bindings whose decision still stands.
Grant == [attempt : Attempts, type : ApprovalTypes, head : Heads \cup {NoHead}]

\* The options of queue and retry.  base_sha comes with the workspace.
Options ==
  {o \in [kind : Kinds, approval : ApprovalChoices, head : Heads \cup {NoHead},
          base : Heads \cup {NoHead}, workspace : Workspaces \cup {NoWorkspace},
          amount : Amounts] :
     o.workspace = NoWorkspace <=> o.base = NoHead}

OwnedBy(m)  == {a \in Attempts : identity[a].mission = m}
MissionOf(a) == identity[a].mission
Live(a)     == status[a] \in LiveStatus
Cancelling(m) == lifecycle[m] \in Stopping

\* deadline_at <= now, or lease_expires_at set and <= now: a lease is set from
\* the claim to the end of the attempt.
Expired(a) ==
  deadline[a] = 0 \/ (status[a] # "queued" /\ lease[a] = 0)

-----------------------------------------------------------------------------
\* The reference commit of a commit or human_merge dependency is the one its
\* target completed with, and the base the work starts from.
GitMatches(e, base) ==
  /\ head[e.on] # NoHead
  /\ e.reference = head[e.on]
  /\ base \in {NoHead, head[e.on]}

\* dependencyReason returns null.
DependenciesMet(m, base) ==
  \A e \in dependencies : e.mission = m =>
    /\ lifecycle[e.on] = "completed"
    /\ e.type # "artifact" => GitMatches(e, base)
    /\ e.type = "human_merge" => e \in evidence

\* sum(amount) over some reservations.
Total(row, S) == MapThenSumSet(LAMBDA a : row[a].amount, S)

BudgetUsed == Total(identity, {a \in Attempts : budget[a] \in HeldBudget})

\* Two leases that one of the unique indexes on worktree_leases keeps apart.
\* The path of a Codex workspace is derived from the attempt id.
Clash(w, kind, v, other) ==
  \/ w.repo = v.repo /\ w.branch = v.branch
  \/ w.path = v.path /\ kind = "fake" /\ other = "fake"
  \/ w.repo = v.repo /\ kind = "codex" /\ other = "codex"

\* Mutant: a quarantined workspace is free again.
WorkspaceFreeNow(o) ==
  \A b \in Attempts :
    worktree[b] \in {"reserved", "leased"} /\ o.workspace # NoWorkspace
    => ~ Clash(o.workspace, o.kind, identity[b].workspace, identity[b].kind)

WorkspaceFree(o) ==
  \A b \in Attempts :
    worktree[b] \in HeldWorktree /\ o.workspace # NoWorkspace
    => ~ Clash(o.workspace, o.kind, identity[b].workspace, identity[b].kind)

\* Mutant: a request is compared with the quota on its own.
AdmissibleAlone(m, o) ==
  DependenciesMet(m, o.base) /\ o.amount <= Quota

\* Mutant: the dependencies are left to the claim.
AdmissibleUnverified(m, o) ==
  o.amount > 0 => BudgetUsed + o.amount <= Quota

\* Neither a dependency nor the budget blocks the creation of an attempt.
Admissible(m, o) ==
  /\ DependenciesMet(m, o.base)
  /\ o.amount > 0 => BudgetUsed + o.amount <= Quota

\* create: the attempt, its lease and its reservation, and the mission row.
Create(m, a, o, approval) ==
  /\ status[a] = "none"
  /\ Admissible(m, o)
  /\ WorkspaceFree(o)
  /\ identity' = [identity EXCEPT ![a] =
       [mission |-> m,
        number |-> 1 + Max({identity[b].number : b \in OwnedBy(m)} \cup {0}),
        plan |-> planVersion[m], kind |-> o.kind,
        approval |-> o.kind = "codex" \/ approval,
        head |-> o.head, base |-> o.base,
        workspace |-> o.workspace, amount |-> o.amount]]
  /\ status' = [status EXCEPT ![a] = "queued"]
  /\ deadline' = [deadline EXCEPT ![a] = DeadlineTime]
  /\ worktree' = [worktree EXCEPT ![a] =
       IF o.workspace = NoWorkspace THEN "none" ELSE "reserved"]
  /\ budget' = [budget EXCEPT ![a] = IF o.amount = 0 THEN "none" ELSE "reserved"]
  /\ current' = [current EXCEPT ![m] = a]
  /\ head' = [head EXCEPT ![m] = o.head]
  /\ lifecycle' = [lifecycle EXCEPT ![m] = "ready"]
  /\ UNCHANGED <<planVersion, dependencies, evidence, retryable, stopProof,
                 lease, granted>>

\* block: the only trace of the refused operation.
Block(m) ==
  /\ lifecycle' = [lifecycle EXCEPT ![m] = "blocked"]
  /\ UNCHANGED <<planVersion, current, dependencies, head, evidence,
                 attemptVars, timeVars, heldVars, granted>>

Queueable(m) ==
  /\ current[m] = NoAttempt
  /\ lifecycle[m] \in {"ready", "waiting_dependencies", "blocked"}
  /\ planVersion[m] >= 1

Queue(m, a, o) ==
  /\ Queueable(m)
  /\ Create(m, a, o, o.approval)

QueueBlocked(m, o) ==
  /\ Queueable(m)
  /\ ~ Admissible(m, o)
  /\ Block(m)

\* Mutant: a retry does not ask for the proof that the worker stopped.
RetryPermittedUnproved(m) ==
  LET previous == current[m] IN
  /\ previous # NoAttempt
  /\ lifecycle[m] \in {"retry_wait", "blocked"}
  /\ retryable[previous]
  /\ status[previous] \in {"failed", "stale"}
  /\ identity[previous].kind = "codex" => identity[previous].number < MaxCodexAttempts

\* retry: the previous attempt can no longer act, and asked to be run again.
RetryPermitted(m) ==
  LET previous == current[m] IN
  /\ previous # NoAttempt
  /\ lifecycle[m] \in {"retry_wait", "blocked"}
  /\ retryable[previous]
  /\ status[previous] \in {"failed", "stale"}
  /\ stopProof[previous]
  /\ identity[previous].kind = "codex" => identity[previous].number < MaxCodexAttempts

\* Mutant: a retry takes the approval policy of its own options.
RetryForgetsApproval(m, a, o) ==
  /\ RetryPermitted(m)
  /\ Create(m, a, o, o.approval)

Retry(m, a, o) ==
  /\ RetryPermitted(m)
  /\ Create(m, a, o, identity[current[m]].approval \/ o.approval)

RetryBlocked(m, o) ==
  /\ RetryPermitted(m)
  /\ ~ Admissible(m, o)
  /\ Block(m)

-----------------------------------------------------------------------------
\* bindingCurrent: the attempt is the mission's current one and was created for
\* its present plan; to launch it, also from its present commit.
BindingCurrent(a, launch) ==
  LET m == MissionOf(a) IN
  /\ m \in Missions
  /\ current[m] = a
  /\ planVersion[m] = identity[a].plan
  /\ launch => head[m] = identity[a].head

\* Mutant: callbacks are accepted while the mission is being cancelled.
VerifiedWhileCancelling(a, launch) ==
  /\ BindingCurrent(a, launch)
  /\ Live(a)
  /\ ~ Expired(a)

\* verify: the callback of a live attempt is accepted.
Verified(a, launch) ==
  /\ BindingCurrent(a, launch)
  /\ Live(a)
  /\ ~ Expired(a)
  /\ lifecycle[MissionOf(a)] \notin Stopping \cup {"cancelled"}

\* expire, for every attempt of S: what it holds stays held.
Expire(S) ==
  LET stopping == {m \in Missions : Cancelling(m)}
      hit      == {MissionOf(a) : a \in S}
  IN
  /\ status' = [a \in Attempts |-> IF a \in S THEN "stale" ELSE status[a]]
  /\ retryable' = [a \in Attempts |-> a \in S \/ retryable[a]]
  /\ deadline' = [a \in Attempts |-> IF a \in S THEN 0 ELSE deadline[a]]
  /\ lease' = [a \in Attempts |-> IF a \in S THEN 0 ELSE lease[a]]
  /\ worktree' = [a \in Attempts |->
       IF a \in S /\ worktree[a] \in HeldWorktree THEN "quarantined" ELSE worktree[a]]
  /\ lifecycle' = [m \in Missions |->
       IF m \notin hit THEN lifecycle[m]
       ELSE IF m \in stopping THEN "cancelling" ELSE "blocked"]
  /\ UNCHANGED <<planVersion, current, dependencies, head, evidence, identity,
                 stopProof, budget, granted>>

\* A callback that arrives after a time limit expires its attempt itself.
LateCallback(a) ==
  /\ BindingCurrent(a, FALSE)
  /\ Live(a)
  /\ Expired(a)
  /\ Expire({a})

\* Mutant: the scanner does not filter on the status.
ScanExpiredAll ==
  LET S == {a \in Attempts : status[a] # "none" /\ Expired(a)} IN
  /\ S # {}
  /\ Expire(S)

\* Mutant: the scanner leaves alone what no worker claimed.
ScanExpiredClaimed ==
  LET S == {a \in Attempts : status[a] \in {"claimed", "running"} /\ Expired(a)} IN
  /\ S # {}
  /\ Expire(S)

ScanExpired ==
  LET S == {a \in Attempts : Live(a) /\ Expired(a)} IN
  /\ S # {}
  /\ Expire(S)
-----------------------------------------------------------------------------
Approved(a, type, h) == [attempt |-> a, type |-> type, head |-> h] \in granted

\* What claim and start read again before the attempt moves on.
MayLaunch(a, budgetStatus) ==
  /\ DependenciesMet(MissionOf(a), identity[a].base)
  /\ budget[a] = budgetStatus
  /\ BudgetUsed <= Quota
  /\ identity[a].approval => Approved(a, "execute", identity[a].head)

Renewed(a) == Min({deadline[a], LeaseTime})

Claimable(a) ==
  /\ Verified(a, TRUE)
  /\ status[a] = "queued"
  /\ lifecycle[MissionOf(a)] \in {"ready", "blocked"}

Claim(a) ==
  /\ Claimable(a)
  /\ worktree[a] = "reserved"
  /\ MayLaunch(a, "reserved")
  /\ status' = [status EXCEPT ![a] = "claimed"]
  /\ lease' = [lease EXCEPT ![a] = Renewed(a)]
  /\ worktree' = [worktree EXCEPT ![a] = "leased"]
  /\ budget' = [budget EXCEPT ![a] = "consuming"]
  /\ lifecycle' = [lifecycle EXCEPT ![MissionOf(a)] = "running"]
  /\ UNCHANGED <<planVersion, current, dependencies, head, evidence, identity,
                 retryable, stopProof, deadline, granted>>

ClaimBlocked(a) ==
  /\ Claimable(a)
  /\ ~ (worktree[a] = "reserved" /\ MayLaunch(a, "reserved"))
  /\ Block(MissionOf(a))

Startable(a) ==
  /\ Verified(a, TRUE)
  /\ status[a] = "claimed"

\* start does not look at the workspace lease again, nor at lifecycle_state.
Start(a) ==
  /\ Startable(a)
  /\ MayLaunch(a, "consuming")
  /\ status' = [status EXCEPT ![a] = "running"]
  /\ lifecycle' = [lifecycle EXCEPT ![MissionOf(a)] = "running"]
  /\ UNCHANGED <<planVersion, current, dependencies, head, evidence, identity,
                 retryable, stopProof, timeVars, heldVars, granted>>

StartBlocked(a) ==
  /\ Startable(a)
  /\ ~ MayLaunch(a, "consuming")
  /\ Block(MissionOf(a))

\* heartbeat: the lease starts again, never past the deadline.
Heartbeat(a) ==
  /\ Verified(a, FALSE)
  /\ status[a] \in {"claimed", "running"}
  /\ lease' = [lease EXCEPT ![a] = Renewed(a)]
  /\ UNCHANGED <<missionVars, attemptVars, deadline, heldVars, granted>>

\* progress: only the phase differs once the mission is running.
Progress(a) ==
  /\ Verified(a, FALSE)
  /\ status[a] = "running"
  /\ lifecycle' = [lifecycle EXCEPT ![MissionOf(a)] = "running"]
  /\ UNCHANGED <<planVersion, current, dependencies, head, evidence,
                 attemptVars, timeVars, heldVars, granted>>

-----------------------------------------------------------------------------
\* Mutant: a reservation that was being consumed is not given back.
ReleaseReservedOnly(a, budgetEnd) ==
  /\ worktree' = [worktree EXCEPT ![a] = IF @ = "none" THEN "none" ELSE "released"]
  /\ budget' = [budget EXCEPT ![a] = IF @ = "reserved" THEN budgetEnd ELSE @]

\* release, with the status the reservation ends in.
Release(a, budgetEnd) ==
  /\ worktree' = [worktree EXCEPT ![a] = IF @ = "none" THEN "none" ELSE "released"]
  /\ budget' = [budget EXCEPT ![a] = IF @ \in HeldBudget THEN budgetEnd ELSE @]

\* The state a mission goes to for each outcome that a worker reports.
Verdict == [completed |-> "reviewing",
            failed_retryable |-> "retry_wait",
            failed_permanent |-> "failed_permanent"]

Outcomes == DOMAIN Verdict

\* complete: the first completion of a running attempt.  It proves the stop,
\* and the commit it reports becomes the mission's.
Complete(a, outcome, h) ==
  LET m == MissionOf(a) IN
  /\ Verified(a, FALSE)
  /\ status[a] = "running"
  /\ status' = [status EXCEPT ![a] = IF outcome = "completed" THEN "completed" ELSE "failed"]
  /\ retryable' = [retryable EXCEPT ![a] = outcome = "failed_retryable"]
  /\ stopProof' = [stopProof EXCEPT ![a] = TRUE]
  /\ deadline' = [deadline EXCEPT ![a] = 0]
  /\ lease' = [lease EXCEPT ![a] = 0]
  /\ head' = [head EXCEPT ![m] = IF h = NoHead THEN @ ELSE h]
  /\ Release(a, "released")
  /\ lifecycle' = [lifecycle EXCEPT ![m] = Verdict[outcome]]
  /\ UNCHANGED <<planVersion, current, dependencies, evidence, identity, granted>>

-----------------------------------------------------------------------------
\* Mutant: reconcile does not ask whether reconciliation is required.
ReconcilableAlways(a) ==
  MissionOf(a) \in Missions /\ current[MissionOf(a)] = a

\* Mutant: only cancellations are reconciled.
ReconcilableCancelled(a) ==
  ReconcilableAlways(a) /\ Cancelling(MissionOf(a))

\* reconcile is called with the current attempt of a mission that is being
\* cancelled, or with a stale one whose stop is not proved yet.
Reconcilable(a) ==
  LET m == MissionOf(a) IN
  /\ m \in Missions
  /\ current[m] = a
  /\ Cancelling(m) \/ (status[a] = "stale" /\ ~ stopProof[a])

\* The attempt had ended before the cancellation: whatever the inspection says.
ReconcileEnded(a) ==
  /\ Reconcilable(a)
  /\ stopProof[a]
  /\ status[a] \in TerminalStatus \cup {"stale"}
  /\ lifecycle' = [lifecycle EXCEPT ![MissionOf(a)] = "cancelled"]
  /\ UNCHANGED <<planVersion, current, dependencies, head, evidence,
                 attemptVars, timeVars, heldVars, granted>>

\* The worker is known to have stopped.
ReconcileStopped(a) ==
  LET m == MissionOf(a) IN
  /\ Reconcilable(a)
  /\ ~ stopProof[a]
  /\ status' = [status EXCEPT ![a] = IF Cancelling(m) THEN "cancelled" ELSE "stale"]
  /\ stopProof' = [stopProof EXCEPT ![a] = TRUE]
  /\ deadline' = [deadline EXCEPT ![a] = 0]
  /\ lease' = [lease EXCEPT ![a] = 0]
  /\ Release(a, IF Cancelling(m) THEN "cancelled" ELSE "released")
  /\ lifecycle' = [lifecycle EXCEPT ![m] =
       IF Cancelling(m) THEN "cancelled" ELSE "retry_wait"]
  /\ UNCHANGED <<planVersion, current, dependencies, head, evidence, identity,
                 retryable, granted>>

\* Whether the worker stopped is not known: nothing is released.
ReconcileUnknown(a) ==
  LET m == MissionOf(a) IN
  /\ Reconcilable(a)
  /\ ~ stopProof[a]
  /\ worktree' = [worktree EXCEPT ![a] = IF @ \in HeldWorktree THEN "quarantined" ELSE @]
  /\ lifecycle' = [lifecycle EXCEPT ![m] =
       IF Cancelling(m) THEN "cancelling" ELSE "blocked"]
  /\ UNCHANGED <<planVersion, current, dependencies, head, evidence,
                 attemptVars, timeVars, budget, granted>>
-----------------------------------------------------------------------------
\* bindApproval: a human approved the exact payload after the attempt existed
\* (see Approvals); nothing else about the mission's state is looked at.
BindApproval(a, type) ==
  /\ BindingCurrent(a, type = "execute")
  /\ granted' = granted \cup
       {[attempt |-> a, type |-> type,
         head |-> IF type = "review" THEN head[MissionOf(a)] ELSE identity[a].head]}
  /\ UNCHANGED <<missionVars, attemptVars, timeVars, heldVars>>

\* The decision or its binding expires, or its action leaves "approved".
ApprovalLapses(g) ==
  /\ g \in granted
  /\ granted' = granted \ {g}
  /\ UNCHANGED <<missionVars, attemptVars, timeVars, heldVars>>

ReviewStep == [reviewing |-> "awaiting_nadir_approval",
               awaiting_nadir_approval |-> "completed"]

\* review: the last step needs a review of the commit the mission now has.
Review(m) ==
  LET a == current[m] IN
  /\ lifecycle[m] \in DOMAIN ReviewStep
  /\ a # NoAttempt
  /\ BindingCurrent(a, FALSE)
  /\ status[a] = "completed"
  /\ ReviewStep[lifecycle[m]] = "completed" => Approved(a, "review", head[m])
  /\ lifecycle' = [lifecycle EXCEPT ![m] = ReviewStep[@]]
  /\ UNCHANGED <<planVersion, current, dependencies, head, evidence,
                 attemptVars, timeVars, heldVars, granted>>

\* recordMergeEvidence, for every plan of m that requires the merge; evidence
\* that exists already refuses the whole request.
RecordMergeEvidence(m, d) ==
  LET rows == {e \in dependencies : /\ e.mission = m /\ e.on = d
                                    /\ e.type = "human_merge"
                                    /\ e.reference = head[d]}
  IN
  /\ lifecycle[d] = "completed"
  /\ head[d] # NoHead
  /\ rows # {} /\ rows \cap evidence = {}
  /\ evidence' = evidence \cup rows
  /\ UNCHANGED <<storeVars, head, attemptVars, timeVars, heldVars, granted>>

\* The database clock advances.
Tick ==
  LET countDown(f) == [a \in Attempts |-> IF Live(a) /\ f[a] > 0 THEN f[a] - 1 ELSE f[a]]
  IN
  /\ \E a \in Attempts : Live(a) /\ deadline[a] > 0
  /\ deadline' = countDown(deadline)
  /\ lease' = countDown(lease)
  /\ UNCHANGED <<missionVars, attemptVars, heldVars, granted>>

-----------------------------------------------------------------------------
Init ==
  /\ StoreInit
  /\ head = [m \in Missions |-> NoHead]
  /\ evidence = {}
  /\ identity = [a \in Attempts |-> NoIdentity]
  /\ status = [a \in Attempts |-> "none"]
  /\ retryable = [a \in Attempts |-> TRUE]
  /\ stopProof = [a \in Attempts |-> FALSE]
  /\ deadline = [a \in Attempts |-> 0]
  /\ lease = [a \in Attempts |-> 0]
  /\ worktree = [a \in Attempts |-> "none"]
  /\ budget = [a \in Attempts |-> "none"]
  /\ granted = {}

Foundation ==
  /\ StoreNext
  /\ UNCHANGED <<head, evidence, attemptVars, timeVars, heldVars, granted>>

Operator(m) ==
  \/ \E o \in Options :
       \/ \E a \in Attempts : Queue(m, a, o) \/ Retry(m, a, o)
       \/ QueueBlocked(m, o)
       \/ RetryBlocked(m, o)
  \/ Review(m)
  \/ \E d \in Missions : RecordMergeEvidence(m, d)

Worker(a) ==
  \/ Claim(a) \/ ClaimBlocked(a)
  \/ Start(a) \/ StartBlocked(a)
  \/ Heartbeat(a) \/ Progress(a)
  \/ \E outcome \in Outcomes, h \in Heads \cup {NoHead} : Complete(a, outcome, h)
  \/ LateCallback(a)

Supervisor(a) ==
  \/ ReconcileEnded(a) \/ ReconcileStopped(a) \/ ReconcileUnknown(a)

Next ==
  \/ Foundation
  \/ \E m \in Missions : Operator(m)
  \/ \E a \in Attempts : Worker(a) \/ Supervisor(a)
  \/ \E a \in Attempts, type \in ApprovalTypes : BindApproval(a, type)
  \/ \E g \in granted : ApprovalLapses(g)
  \/ ScanExpired
  \/ Tick

Spec == Init /\ [][Next]_vars

\* The clock runs; the scanner is called every scanSeconds; the supervisor
\* inspects what is pending on every tick and, an assumption on the host rather
\* than on the code, it finds every worker stopped in the end.
Fairness ==
  /\ WF_vars(Tick)
  /\ WF_vars(ScanExpired)
  /\ \A a \in Attempts : WF_vars(ReconcileEnded(a) \/ ReconcileStopped(a))

FairSpec == Spec /\ Fairness
-----------------------------------------------------------------------------
\* The columns of every table hold values of their domains.
TypeOK ==
  /\ StoreTypeOK
  /\ head \in [Missions -> Heads \cup {NoHead}]
  /\ evidence \in SUBSET DependencyRow
  /\ identity \in [Attempts -> Identity]
  /\ status \in [Attempts -> Status]
  /\ retryable \in [Attempts -> BOOLEAN]
  /\ stopProof \in [Attempts -> BOOLEAN]
  /\ deadline \in [Attempts -> Nat]
  /\ lease \in [Attempts -> Nat]
  /\ worktree \in [Attempts -> HeldWorktree \cup {"none", "released"}]
  /\ budget \in [Attempts -> HeldBudget \cup {"none", "released", "cancelled"}]
  /\ granted \in SUBSET Grant

\* A generation that may still act: it was never seen to stop.
Unstopped(a) == Live(a) \/ (status[a] = "stale" /\ ~ stopProof[a])

Holds(a) == worktree[a] \in HeldWorktree \/ budget[a] \in HeldBudget

\* A mission never has two generations that may still act, and the one it has
\* is the one its row names: the unique index mission_attempts_one_active is
\* never what saves it, and no callback of a live worker is refused as obsolete.
OneGeneration ==
  \A a \in Attempts : Unstopped(a) => MissionOf(a) \in Missions /\ current[MissionOf(a)] = a

\* What an attempt holds is released exactly when its stop is proved: before,
\* another worker could write the same workspace; after, it would be lost.
HeldUntilStopped ==
  \A a \in Attempts :
    /\ worktree[a] = "released" \/ budget[a] \in {"released", "cancelled"} => stopProof[a]
    /\ stopProof[a] => ~ Holds(a)

\* A finished mission has no worker that may still act and holds no resource.
TerminalAtRest ==
  \A a \in Attempts :
    MissionOf(a) \in Missions /\ lifecycle[MissionOf(a)] \in TerminalMissions
    => ~ Unstopped(a) /\ ~ Holds(a)

\* The prerequisites verified when an attempt was created stand for as long as
\* its mission keeps it, over every plan, with the commit they completed with;
\* and the plan it was created for stays the mission's plan.
PrerequisitesStand ==
  \A a \in Attempts :
    LET m == MissionOf(a) IN
    m \in Missions =>
      /\ DependenciesMet(m, identity[a].base)
      /\ planVersion[m] = identity[a].plan

\* The states a mission may show given what its current attempt went through.
Agrees(m) ==
  LET a == current[m] IN
  /\ a = NoAttempt =>
       lifecycle[m] \in {"absent", "queued", "planning", "ready", "waiting_dependencies",
                        "blocked", "cancelled"}
  /\ a # NoAttempt =>
       /\ status[a] = "queued" => lifecycle[m] \in {"ready", "blocked"} \cup Stopping
       /\ status[a] = "claimed" => lifecycle[m] \in {"running", "blocked"} \cup Stopping
       /\ status[a] = "running" => lifecycle[m] \in {"running"} \cup Stopping
       /\ status[a] = "completed" =>
            lifecycle[m] \in {"reviewing", "awaiting_nadir_approval", "completed",
                             "cancelled"} \cup Stopping
       /\ status[a] = "failed" /\ retryable[a] =>
            lifecycle[m] \in {"retry_wait", "blocked", "cancelled"} \cup Stopping
       /\ status[a] = "failed" /\ ~ retryable[a] => lifecycle[m] = "failed_permanent"
       /\ status[a] = "stale" /\ stopProof[a] =>
            lifecycle[m] \in {"retry_wait", "blocked", "cancelled"} \cup Stopping
       /\ status[a] = "stale" /\ ~ stopProof[a] => lifecycle[m] \in {"blocked"} \cup Stopping
       /\ status[a] = "cancelled" => lifecycle[m] = "cancelled"

\* The state a mission shows and the status of its attempt agree, whichever
\* of operator, worker, scanner and supervisor moved last.
LifecycleAgrees == \A m \in Missions : Agrees(m)

\* Attempts belong to the mission that created them, which names the newest.
Ownership ==
  /\ \A a \in Attempts :
       /\ status[a] = "none" <=> MissionOf(a) = NoMission
       /\ status[a] = "none" => worktree[a] = "none" /\ budget[a] = "none"
       /\ MissionOf(a) \in Missions =>
            /\ current[MissionOf(a)] # NoAttempt
            /\ identity[a].number <= identity[current[MissionOf(a)]].number
  /\ \A m \in Missions : current[m] # NoAttempt => MissionOf(current[m]) = m

\* The stop of an attempt that ended is proved, that of a live one is not.
StopRecorded ==
  \A a \in Attempts :
    /\ status[a] \in LiveStatus \cup {"none"} => ~ stopProof[a]
    /\ status[a] \in TerminalStatus => stopProof[a]

\* The inductive invariant of the proofs: what the operations rely on when they
\* find a mission, its attempt and what the attempt holds.
IInv ==
  /\ TypeOK
  /\ Ownership
  /\ StopRecorded
  /\ OneGeneration
  /\ HeldUntilStopped
  /\ LifecycleAgrees

\* The active reservations of all missions together stay within the quota, so
\* the test that claim and start repeat never fails.
WithinQuota == BudgetUsed <= Quota

\* A mission that ended keeps the state it ended in, and a completed one the
\* commit that its dependents verified.
EndIsFinal ==
  [][\A m \in Missions :
       lifecycle[m] \in TerminalMissions =>
         /\ lifecycle'[m] = lifecycle[m]
         /\ lifecycle[m] = "completed" => head'[m] = head[m]]_vars

\* No late callback brings a generation back: one that is not live stays so, an
\* ended one keeps its result, and a proved stop is never taken back.
NoRevival ==
  [][\A a \in Attempts :
       status[a] # "none" =>
         /\ ~ Live(a) => ~ Live(a)'
         /\ status[a] \in TerminalStatus => status'[a] = status[a]
         /\ stopProof[a] => stopProof'[a]]_vars

\* A mission gets a new generation only after the stop of the former one is
\* proved, with the next attempt number, and never loses the need for approval.
SuccessorWaits ==
  [][\A m \in Missions :
       LET former == current[m]
           next   == current'[m]
       IN next # former /\ former # NoAttempt =>
            /\ stopProof[former]
            /\ status'[next] = "queued"
            /\ identity'[next].number = identity[former].number + 1
            /\ identity[former].approval => identity'[next].approval]_vars

\* Every dependency on a human merge that a completed mission satisfies can still
\* be given its proof.  A request that meets one recorded row is refused as a
\* whole, so a row left out when another plan's row of the same merge was
\* recorded is left out for ever, and its mission never runs.
EveryMergeProvable ==
  \A e, f \in dependencies :
    /\ e.type = "human_merge" /\ lifecycle[e.on] = "completed" /\ e.reference = head[e.on]
    /\ f.mission = e.mission /\ f.on = e.on /\ f.type = "human_merge"
    /\ f.reference = e.reference
    => (f \in evidence => e \in evidence)

\* However long a worker keeps renewing its lease, every generation ends.
EveryGenerationEnds == \A a \in Attempts : Live(a) ~> ~ Live(a)

\* A cancellation that was accepted is carried out, and a stale generation is
\* reconciled, whoever else acts in between.
CancellationConverges ==
  \A m \in Missions : Cancelling(m) ~> lifecycle[m] = "cancelled"

StaleIsReconciled ==
  \A a \in Attempts : (status[a] = "stale" /\ ~ stopProof[a]) ~> stopProof[a]
-----------------------------------------------------------------------------
(* Execution control implements OneWriter: the generation that acts is the *)
(* one whose stop is not proved yet, and its resource is its branch.       *)

Branches == {<<w.repo, w.branch>> : w \in Workspaces}

Acting == [m \in Missions |->
  IF current[m] # NoAttempt /\ Unstopped(current[m]) THEN current[m] ELSE NoAttempt]

Spent == {a \in Attempts : status[a] # "none"}

Uses == [a \in Attempts |->
  IF worktree[a] \in HeldWorktree
  THEN {<<identity[a].workspace.repo, identity[a].workspace.branch>>}
  ELSE {}]

Ended == {m \in Missions : lifecycle[m] \in TerminalMissions}

Abstract == INSTANCE OneWriter
  WITH Generations <- Attempts, Nobody <- NoAttempt, Resources <- Branches,
       acting <- Acting, spent <- Spent, uses <- Uses, closed <- Ended

\* Whatever operators, workers, scanner and supervisor do, at most one
\* generation acts for a mission, and no branch has two writers.
ImplementsOneWriter == Abstract!Spec
=============================================================================
