-------------------------- MODULE CodexWorkerProofs --------------------------
(***************************************************************************)
(* The worker, control and the supervisor together take the steps of       *)
(* ExecutionControl only, and a stop that is on record has happened, for   *)
(* every value of the constants, proved with TLAPS.                        *)
(***************************************************************************)
EXTENDS CodexWorker, ExecutionStepProofs

-----------------------------------------------------------------------------
(* What the rows of an attempt tell of its worker.                         *)

\* The claim has been made: it is what starts to consume the reservation.
Claimed(a) == budget[a] \notin {"none", "reserved"}

BudgetAgrees(a) == status[a] \in {"claimed", "running"} => budget[a] = "consuming"

\* An attempt that exists and can no longer be claimed, nor is.
Settled(a) ==
  /\ status[a] \notin {"none", "claimed", "running"}
  /\ status[a] = "queued" => Cancelling(MissionOf(a))

LEMMA ClaimsKept ==
  ASSUME IInv, \A a \in Attempts : BudgetAgrees(a), [Next]_vars, NEW b \in Attempts
  PROVE  /\ Claimed(b) => Claimed(b)'
         /\ BudgetAgrees(b)'
<1>0. /\ status \in [Attempts -> Status] /\ BudgetAgrees(b)
      /\ budget \in [Attempts -> HeldBudget \cup {"none", "released", "cancelled"}]
  BY DEF IInv, TypeOK
<1>1. CASE UNCHANGED <<status, budget>>
  BY <1>0, <1>1 DEF Claimed, BudgetAgrees
<1>2. CASE \E m \in Missions, a \in Attempts, o \in Options : Begins(m, a, o)
  <2>1. PICK a \in Attempts : /\ status[a] = "none" /\ status' = [status EXCEPT ![a] = "queued"]
                              /\ \E v \in {"none", "reserved"} : budget' = [budget EXCEPT ![a] = v]
    BY <1>2 DEF Begins, Queue, Retry, Create
  <2>2. ~ Claimed(a)
    BY <2>1 DEF IInv, Ownership, Claimed
  <2> QED
    BY <1>0, <2>1, <2>2 DEF Claimed, BudgetAgrees
<1>3. CASE \E a \in Attempts : Claim(a)
  BY <1>0, <1>3 DEF Claim, Claimed, BudgetAgrees
<1>4. CASE \E a \in Attempts : Start(a)
  BY <1>0, <1>4 DEF Start, Startable, Claimed, BudgetAgrees, heldVars
<1>5. CASE \E S \in SUBSET {a \in Attempts : Live(a)} : Expire(S)
  BY <1>0, <1>5 DEF Expire, Claimed, BudgetAgrees
<1>6. CASE \E a \in Attempts, outcome \in Outcomes, h \in Heads \cup {NoHead} :
             Complete(a, outcome, h)
  BY <1>0, <1>6 DEF Complete, Release, Claimed, BudgetAgrees, HeldBudget
<1>7. CASE \E a \in Attempts : ReconcileStopped(a)
  BY <1>0, <1>7 DEF ReconcileStopped, Release, Claimed, BudgetAgrees, HeldBudget
<1>8. CASE \/ \E a \in Attempts : Progress(a) \/ ReconcileEnded(a) \/ ReconcileUnknown(a)
           \/ \E m \in Missions : Refused(m) \/ Review(m)
           \/ \E m, d \in Missions : RecordMergeEvidence(m, d)
           \/ Foundation
           \/ Quiet
  BY <1>1, <1>8 DEF Progress, ReconcileEnded, ReconcileUnknown, Refused, Block, Review,
     RecordMergeEvidence, Foundation, Quiet, attemptVars, heldVars
<1> QED
  BY <1>2, <1>3, <1>4, <1>5, <1>6, <1>7, <1>8, StepCases DEF Supervisor

LEMMA SettledKept ==
  ASSUME IInv, [Next]_vars, NEW b \in Attempts, Settled(b)
  PROVE  Settled(b)'
<1> DEFINE m == MissionOf(b)
<1>0. /\ status \in [Attempts -> Status] /\ lifecycle \in [Missions -> States]
      /\ identity \in [Attempts -> Identity] /\ m \in Missions
      /\ current \in [Missions -> Attempts \cup {NoAttempt}]
  <2>1. MissionOf(b) # NoMission
    BY DEF Settled, IInv, Ownership
  <2> QED
    BY <2>1 DEF IInv, TypeOK, StoreTypeOK, MissionOf, Identity
<1>1. status[b] = "queued" => current[m] = b /\ lifecycle[m] \in Stopping /\ ~ stopProof[b]
  BY DEF Settled, IInv, OneGeneration, Unstopped, Live, LiveStatus, Cancelling, StopRecorded
<1>2. ASSUME status'[b] = status[b], identity'[b] = identity[b],
             status[b] = "queued" => lifecycle'[m] \in Stopping
      PROVE  Settled(b)'
  BY <1>2 DEF Settled, MissionOf, Cancelling
<1>3. CASE Foundation
  <2>1. UNCHANGED <<status, identity>> /\ \E x \in Missions :
          \/ Admit(x) \/ Cancel(x)
          \/ \E to \in States : Transition(x, to)
          \/ \E plan \in Plans : SavePlan(x, plan)
    BY <1>3 DEF Foundation, StoreNext, attemptVars
  <2>2. lifecycle[m] \in Stopping => lifecycle'[m] \in Stopping
    BY <1>0, <2>1 DEF Admit, Cancel, Transition, SavePlan, FoundationTransitions, Stopping
  <2> QED
    BY <1>1, <1>2, <2>1, <2>2
<1>4. CASE \E x \in Missions, a \in Attempts, o \in Options : Begins(x, a, o)
  <2>1. PICK x \in Missions, a \in Attempts, o \in Options : Begins(x, a, o)
    BY <1>4
  <2>2. /\ status[a] = "none" /\ lifecycle[x] \notin Stopping
        /\ status' = [status EXCEPT ![a] = "queued"]
        /\ lifecycle' = [lifecycle EXCEPT ![x] = "ready"]
    BY <2>1 DEF Begins, Queue, Queueable, Retry, RetryPermitted, Create, Stopping
  <2>3. a # b
    BY <2>2 DEF Settled
  <2>4. identity'[b] = identity[b]
    BY <1>0, <2>1, <2>3 DEF Begins, Queue, Retry, Create
  <2> QED
    BY <1>0, <1>1, <1>2, <2>2, <2>3, <2>4
<1>5. CASE \E a \in Attempts : Claim(a) \/ Start(a) \/ Progress(a)
  <2>1. PICK a \in Attempts : Claim(a) \/ Start(a) \/ Progress(a)
    BY <1>5
  <2>2. /\ lifecycle[MissionOf(a)] \notin Stopping /\ UNCHANGED identity
        /\ lifecycle' = [lifecycle EXCEPT ![MissionOf(a)] = "running"]
        /\ status' = status \/ \E v \in Status : status' = [status EXCEPT ![a] = v]
    BY <2>1 DEF Claim, Claimable, Start, Startable, Progress, Verified, attemptVars, Status,
       LiveStatus
  <2>3. b = a => status'[b] = status[b]
    BY <1>1, <2>1, <2>2 DEF Claim, Claimable, Start, Startable, Progress, Settled, attemptVars
  <2> QED
    BY <1>0, <1>1, <1>2, <2>2, <2>3
<1>6. CASE \E S \in SUBSET {a \in Attempts : Live(a)} : Expire(S)
  <2>1. PICK S \in SUBSET {a \in Attempts : Live(a)} : Expire(S)
    BY <1>6
  <2>2. CASE b \in S
    BY <2>1, <2>2 DEF Expire, Settled
  <2>3. CASE b \notin S
    BY <1>0, <1>1, <1>2, <2>1, <2>3 DEF Expire, Cancelling, Stopping
  <2> QED
    BY <2>2, <2>3
<1>7. CASE \E a \in Attempts, outcome \in Outcomes, h \in Heads \cup {NoHead} :
             Complete(a, outcome, h)
  <2>1. PICK a \in Attempts, outcome \in Outcomes, h \in Heads \cup {NoHead} :
          Complete(a, outcome, h)
    BY <1>7
  <2>2. b # a /\ lifecycle[MissionOf(a)] \notin Stopping /\ UNCHANGED identity
    BY <2>1 DEF Complete, Verified, Settled
  <2> QED
    BY <1>0, <1>1, <1>2, <2>1, <2>2 DEF Complete
<1>8. CASE \E a \in Attempts : Supervisor(a)
  <2>1. PICK a \in Attempts : Supervisor(a)
    BY <1>8
  <2>2. UNCHANGED identity /\ current[MissionOf(a)] = a
    BY <2>1 DEF Supervisor, ReconcileEnded, ReconcileStopped, ReconcileUnknown, Reconcilable,
       attemptVars
  <2>3. CASE ReconcileEnded(a)
    BY <1>0, <1>1, <1>2, <2>2, <2>3 DEF ReconcileEnded, attemptVars
  <2>4. CASE ReconcileUnknown(a)
    BY <1>0, <1>1, <1>2, <2>2, <2>4 DEF ReconcileUnknown, attemptVars, Cancelling, Stopping
  <2>5. CASE ReconcileStopped(a) /\ a = b
    BY <1>0, <2>5 DEF ReconcileStopped, Settled
  <2>6. CASE ReconcileStopped(a) /\ a # b
    BY <1>0, <1>1, <1>2, <2>2, <2>6 DEF ReconcileStopped
  <2> QED
    BY <2>1, <2>3, <2>4, <2>5, <2>6 DEF Supervisor
<1>9. CASE \E x \in Missions : Refused(x) \/ Review(x)
  <2>1. PICK x \in Missions : Refused(x) \/ Review(x)
    BY <1>9
  <2>2. lifecycle[x] \notin Stopping /\ UNCHANGED <<status, identity>>
    BY <2>1 DEF Refused, Block, Review, ReviewStep, Stopping, attemptVars
  <2>3. \A y \in Missions \ {x} : lifecycle'[y] = lifecycle[y]
    BY <1>0, <2>1 DEF Refused, Block, Review
  <2> QED
    BY <1>0, <1>1, <1>2, <2>2, <2>3
<1>10. CASE \/ \E x, d \in Missions : RecordMergeEvidence(x, d)
            \/ Quiet
  BY <1>1, <1>2, <1>10 DEF RecordMergeEvidence, Quiet, storeVars, missionVars, attemptVars
<1> QED
  BY <1>3, <1>4, <1>5, <1>6, <1>7, <1>8, <1>9, <1>10, StepCases

-----------------------------------------------------------------------------
(* The steps are those of ExecutionControl.                                *)

\* Whatever a worker, control or the supervisor does, the rows change as an
\* operation of ExecutionControl changes them, or not at all.
LEMMA ControlStep == [WorkerNext]_allVars => [Next]_vars
<1> SUFFICES ASSUME [WorkerNext]_allVars PROVE [Next]_vars
  OBVIOUS
<1>0. {"completed", "failed_retryable", "failed_permanent"} = Outcomes
  BY DEF Outcomes, Verdict
<1>1. UNCHANGED controlVars => UNCHANGED vars
  BY DEF controlVars, vars
<1>2. ASSUME NEW a \in Attempts, WorkerStep(a) \/ Inspect(a)
      PROVE  UNCHANGED controlVars
  BY <1>2 DEF WorkerStep, StartUnit, Prepared, LaunchModel, ModelEnds, SendHeartbeat,
     DeadlinePasses, Kill, KillTakes, Collect, SendCompletion, Exit, GroupKilled, Inspect
<1>3. ASSUME NEW a \in Attempts, ReconcileVerdict(a) \/ AnswerStop(a)
      PROVE  Supervisor(a) \/ UNCHANGED controlVars
  BY <1>3 DEF ReconcileVerdict, AnswerStop, Supervisor
<1>4. ASSUME NEW a \in Attempts, AnswerMain(a)
      PROVE  Worker(a)
  BY <1>0, <1>4 DEF AnswerMain, Worker
<1>5. ASSUME NEW a \in Attempts, RefuseMain(a) \/ AnswerHeartbeat(a) \/ RefuseHeartbeat(a)
      PROVE  Worker(a) \/ UNCHANGED controlVars
  BY <1>5 DEF RefuseMain, AnswerHeartbeat, RefuseHeartbeat, Worker
<1>6. ASSUME NEW a \in Attempts, AssignmentAges(a) \/ Validate(a) \/ AnswerStatus(a)
      PROVE  UNCHANGED controlVars
  BY <1>6 DEF AssignmentAges, Validate, AnswerStatus
<1>7. ControlRestarts => UNCHANGED controlVars
  BY DEF ControlRestarts
<1>8. Control => Next \/ UNCHANGED controlVars
  BY <1>3, <1>4, <1>5, <1>6, <1>7 DEF Control, Next
<1>9. Surroundings => Next
  BY DEF Surroundings, Next
<1>10. UNCHANGED allVars => UNCHANGED controlVars
  BY DEF allVars
<1> QED
  BY <1>1, <1>2, <1>3, <1>8, <1>9, <1>10 DEF WorkerNext, Next

-----------------------------------------------------------------------------
(* The inductive invariant.                                                *)

Begun(a) == daemon[a] \in {"starting", "launching"}
BeforeModel(a) == daemon[a] \in {"off", "preparing", "claiming"} \/ Begun(a)

\* What allows a verdict to say "stopped": the unit is gone and its model with
\* it, or the attempt is one that no worker will ever be given.
StopSeen(a) ==
  \/ daemon[a] = "gone" /\ model[a] # "running"
  \/ ~ Begun(a) /\ model[a] = "none" /\ Settled(a)

WorkerAgrees(a) ==
  /\ BeforeModel(a) => model[a] = "none"
  /\ Timers(a) => model[a] # "none"
  /\ daemon[a] \in {"collected", "completing"} => model[a] = "exited"
  /\ model[a] = "running" => daemon[a] \in {"running", "gone"}
  /\ failed[a] => cancelling[a] # "no"
  /\ cancelling[a] # "no" \/ stop[a] # "none" => model[a] # "none"
  /\ stop[a] = "stopped" \/ main[a] \in {"complete", "passed", "quarantined"} =>
       model[a] = "exited"
  /\ Begun(a) \/ model[a] # "none" => Claimed(a)
  /\ verdict[a] = "stopped" => StopSeen(a)
  /\ stopProof[a] => ~ Begun(a) /\ model[a] # "running"

WInv ==
  /\ IInv
  /\ WorkerTypeOK
  /\ \A a \in Attempts : BudgetAgrees(a) /\ WorkerAgrees(a)

\* The part of WorkerTypeOK that is about the processes.
WorkerTypes ==
  /\ daemon \in [Attempts -> Stages]
  /\ model \in [Attempts -> {"none", "running", "exited"}]
  /\ \A a \in Attempts : daemon[a] = "off" <=> assignment[a] = "none"
  /\ assignment \in [Attempts -> {"none", "fresh", "cached", "old"}]
  /\ main \in [Attempts -> DOMAIN WaitsIn]
  /\ beat \in [Attempts -> {"none", "heartbeat", "status"}]
  /\ stop \in [Attempts -> {"none", "stopped", "unknown"}]
  /\ cancelling \in [Attempts -> {"no", "ordered", "reported", "answered"}]
  /\ failed \in [Attempts -> BOOLEAN]
  /\ verdict \in [Attempts -> {"none", "stopped", "unknown"}]

\* What other workers, operators and the clock do to an attempt.
LEMMA OthersAgree ==
  ASSUME NEW b \in Attempts, WorkerAgrees(b),
         Claimed(b) => Claimed(b)', Settled(b) => Settled(b)', stopProof'[b] = stopProof[b],
         daemon'[b] = daemon[b], model'[b] = model[b], main'[b] = main[b], stop'[b] = stop[b],
         cancelling'[b] = cancelling[b], failed'[b] = failed[b], verdict'[b] = verdict[b]
  PROVE  WorkerAgrees(b)'
<1>1. /\ Begun(b)' <=> Begun(b)
      /\ BeforeModel(b)' <=> BeforeModel(b)
      /\ Timers(b)' <=> Timers(b)
      /\ StopSeen(b) => StopSeen(b)'
  BY DEF Begun, BeforeModel, Timers, StopSeen
<1> QED
  BY <1>1 DEF WorkerAgrees

\* What every step keeps of the rows.
LEMMA RowsGoOn ==
  ASSUME WInv, [WorkerNext]_allVars
  PROVE  /\ IInv'
         /\ \A b \in Attempts : /\ BudgetAgrees(b)'
                                /\ Claimed(b) => Claimed(b)'
                                /\ Settled(b) => Settled(b)'
<1>1. IInv /\ [Next]_vars /\ \A a \in Attempts : BudgetAgrees(a)
  BY ControlStep DEF WInv
<1>2. IInv'
  BY <1>1, InvStep
<1> QED
  BY <1>1, <1>2, ClaimsKept, SettledKept

\* The host and the timers of a worker change no row.
LEMMA WorkerStepAgrees ==
  ASSUME WInv, NEW a \in Attempts, WorkerStep(a)
  PROVE  WorkerTypeOK' /\ \A b \in Attempts : WorkerAgrees(b)'
<1>0. WorkerTypes
  BY DEF WInv, WorkerTypeOK, WorkerTypes
<1>1. DOMAIN WaitsIn = {"none", "claim", "start", "complete", "passed", "quarantined"}
  BY DEF WaitsIn
<1>2. [WorkerNext]_allVars /\ UNCHANGED controlVars
  BY DEF WorkerNext, WorkerStep, StartUnit, Prepared, LaunchModel, ModelEnds, SendHeartbeat,
     DeadlinePasses, Kill, KillTakes, Collect, SendCompletion, Exit, GroupKilled
<1>3. UNCHANGED <<status, stopProof, lifecycle, identity, budget>>
  BY <1>2 DEF controlVars, missionVars, attemptVars, heldVars
<1>4. TypeOK' /\ \A b \in Attempts : (Claimed(b) => Claimed(b)') /\ (Settled(b) => Settled(b)')
  BY <1>2, RowsGoOn DEF IInv
<1>5. ASSUME \A b \in Attempts \ {a} :
               /\ daemon'[b] = daemon[b] /\ model'[b] = model[b] /\ main'[b] = main[b]
               /\ stop'[b] = stop[b] /\ cancelling'[b] = cancelling[b]
               /\ failed'[b] = failed[b] /\ verdict'[b] = verdict[b]
      PROVE  \A b \in Attempts \ {a} : WorkerAgrees(b)'
  BY <1>3, <1>4, <1>5, OthersAgree DEF WInv
<1>6. WorkerAgrees(a)
  BY DEF WInv
<1> USE DEF Sets, WorkerTypes
<1>7. CASE StartUnit(a)
  <2>1. WorkerTypeOK'
    BY <1>0, <1>1, <1>4, <1>7 DEF StartUnit, callVars, WorkerTypeOK, Stages
  <2>2. WorkerAgrees(a)'
    BY <1>0, <1>3, <1>4, <1>6, <1>7 DEF StartUnit, callVars, WorkerAgrees, Begun, BeforeModel,
       Timers, StopSeen
  <2> QED
    BY <1>0, <1>5, <1>7, <2>1, <2>2 DEF StartUnit, callVars
<1>8. CASE Prepared(a)
  <2>1. WorkerTypeOK'
    BY <1>0, <1>1, <1>4, <1>8 DEF Prepared, callVars, WorkerTypeOK, Stages
  <2>2. WorkerAgrees(a)'
    BY <1>0, <1>3, <1>4, <1>6, <1>8 DEF Prepared, callVars, WorkerAgrees, Begun, BeforeModel,
       Timers, StopSeen
  <2> QED
    BY <1>0, <1>5, <1>8, <2>1, <2>2 DEF Prepared, callVars
<1>9. CASE LaunchModel(a)
  <2>1. WorkerTypeOK'
    BY <1>0, <1>1, <1>4, <1>9 DEF LaunchModel, callVars, WorkerTypeOK, Stages
  <2>2. WorkerAgrees(a)'
    BY <1>0, <1>3, <1>4, <1>6, <1>9 DEF LaunchModel, callVars, WorkerAgrees, Begun, BeforeModel,
       Timers, StopSeen
  <2> QED
    BY <1>0, <1>5, <1>9, <2>1, <2>2 DEF LaunchModel, callVars
<1>10. CASE ModelEnds(a)
  <2>1. WorkerTypeOK'
    BY <1>0, <1>1, <1>4, <1>10 DEF ModelEnds, callVars, WorkerTypeOK, Stages
  <2>2. WorkerAgrees(a)'
    BY <1>0, <1>3, <1>4, <1>6, <1>10 DEF ModelEnds, callVars, WorkerAgrees, Begun, BeforeModel,
       Timers, StopSeen
  <2> QED
    BY <1>0, <1>5, <1>10, <2>1, <2>2 DEF ModelEnds, callVars
<1>11. CASE SendHeartbeat(a)
  <2>1. WorkerTypeOK'
    BY <1>0, <1>1, <1>4, <1>11 DEF SendHeartbeat, callVars, WorkerTypeOK, Stages
  <2>2. WorkerAgrees(a)'
    BY <1>0, <1>3, <1>4, <1>6, <1>11 DEF SendHeartbeat, callVars, WorkerAgrees, Begun, BeforeModel,
       Timers, StopSeen
  <2> QED
    BY <1>0, <1>5, <1>11, <2>1, <2>2 DEF SendHeartbeat, callVars
<1>12. CASE DeadlinePasses(a)
  <2>1. WorkerTypeOK'
    BY <1>0, <1>1, <1>4, <1>12 DEF DeadlinePasses, callVars, WorkerTypeOK, Stages, Ordered
  <2>2. WorkerAgrees(a)'
    BY <1>0, <1>3, <1>4, <1>6, <1>12 DEF DeadlinePasses, callVars, WorkerAgrees, Begun, BeforeModel,
       Timers, StopSeen, Ordered
  <2> QED
    BY <1>0, <1>5, <1>12, <2>1, <2>2 DEF DeadlinePasses, callVars, Ordered
<1>13. CASE Kill(a)
  <2>1. WorkerTypeOK'
    BY <1>0, <1>1, <1>4, <1>13 DEF Kill, callVars, WorkerTypeOK, Stages
  <2>2. WorkerAgrees(a)'
    BY <1>0, <1>3, <1>4, <1>6, <1>13 DEF Kill, callVars, WorkerAgrees, Begun, BeforeModel,
       Timers, StopSeen
  <2> QED
    BY <1>0, <1>5, <1>13, <2>1, <2>2 DEF Kill, callVars
<1>14. CASE KillTakes(a)
  <2>1. WorkerTypeOK'
    BY <1>0, <1>1, <1>4, <1>14 DEF KillTakes, callVars, WorkerTypeOK, Stages
  <2>2. WorkerAgrees(a)'
    BY <1>0, <1>3, <1>4, <1>6, <1>14 DEF KillTakes, callVars, WorkerAgrees, Begun, BeforeModel,
       Timers, StopSeen
  <2> QED
    BY <1>0, <1>5, <1>14, <2>1, <2>2 DEF KillTakes, callVars
<1>15. CASE Collect(a)
  <2>1. WorkerTypeOK'
    BY <1>0, <1>1, <1>4, <1>15 DEF Collect, callVars, WorkerTypeOK, Stages
  <2>2. WorkerAgrees(a)'
    BY <1>0, <1>3, <1>4, <1>6, <1>15 DEF Collect, callVars, WorkerAgrees, Begun, BeforeModel,
       Timers, StopSeen
  <2> QED
    BY <1>0, <1>5, <1>15, <2>1, <2>2 DEF Collect, callVars
<1>16. CASE SendCompletion(a)
  <2>1. WorkerTypeOK'
    BY <1>0, <1>1, <1>4, <1>16 DEF SendCompletion, callVars, WorkerTypeOK, Stages
  <2>2. WorkerAgrees(a)'
    BY <1>0, <1>3, <1>4, <1>6, <1>16 DEF SendCompletion, callVars, WorkerAgrees, Begun, BeforeModel,
       Timers, StopSeen
  <2> QED
    BY <1>0, <1>5, <1>16, <2>1, <2>2 DEF SendCompletion, callVars
<1>17. CASE Exit(a)
  <2>1. WorkerTypeOK'
    BY <1>0, <1>1, <1>4, <1>17 DEF Exit, callVars, WorkerTypeOK, Stages, Alive
  <2>2. WorkerAgrees(a)'
    BY <1>0, <1>3, <1>4, <1>6, <1>17 DEF Exit, callVars, WorkerAgrees, Begun, BeforeModel,
       Timers, StopSeen, Alive
  <2> QED
    BY <1>0, <1>5, <1>17, <2>1, <2>2 DEF Exit, callVars, Alive
<1>18. CASE GroupKilled(a)
  <2>1. WorkerTypeOK'
    BY <1>0, <1>1, <1>4, <1>18 DEF GroupKilled, callVars, WorkerTypeOK, Stages
  <2>2. WorkerAgrees(a)'
    BY <1>0, <1>3, <1>4, <1>6, <1>18 DEF GroupKilled, callVars, WorkerAgrees, Begun, BeforeModel,
       Timers, StopSeen
  <2> QED
    BY <1>0, <1>5, <1>18, <2>1, <2>2 DEF GroupKilled, callVars
<1> QED
  BY <1>7, <1>8, <1>9, <1>10, <1>11, <1>12, <1>13, <1>14, <1>15, <1>16, <1>17, <1>18 DEF WorkerStep

\* A call that is answered, refused or dropped: the answer moves the worker
\* only from the stage in which it waits for it.
LEMMA Answered ==
  ASSUME WorkerTypes, NEW a \in Attempts, NEW stage, NEW next, Answers(a, stage, next)
  PROVE  /\ \A b \in Attempts \ {a} : daemon'[b] = daemon[b] /\ main'[b] = main[b]
         /\ \/ /\ daemon[a] \in {"claiming", "starting", "completing"}
               /\ daemon' = Sets(daemon, a, stage) /\ main' = Sets(main, a, next)
               /\ main[a] = "claim" => daemon[a] = "claiming"
               /\ main[a] = "start" => daemon[a] = "starting"
               /\ main[a] \in {"complete", "passed", "quarantined"} => daemon[a] = "completing"
            \/ UNCHANGED daemon /\ main' = Sets(main, a, "none")
<1>1. /\ DOMAIN WaitsIn = {"none", "claim", "start", "complete", "passed", "quarantined"}
      /\ WaitsIn["none"] = {} /\ WaitsIn["claim"] = {"claiming"}
      /\ WaitsIn["start"] = {"starting"} /\ WaitsIn["complete"] = {"completing"}
      /\ WaitsIn["passed"] = {"completing"} /\ WaitsIn["quarantined"] = {"completing"}
  BY DEF WaitsIn
<1> QED
  BY <1>1 DEF Answers, Sets, WorkerTypes

\* The main line: the claim begins what the model needs, and only the result of
\* a model that has exited is reported.
LEMMA MainAgrees ==
  ASSUME WInv, NEW a \in Attempts, AnswerMain(a) \/ RefuseMain(a)
  PROVE  WorkerTypeOK' /\ \A b \in Attempts : WorkerAgrees(b)'
<1>0. WorkerTypes /\ status \in [Attempts -> Status] /\ stopProof \in [Attempts -> BOOLEAN]
      /\ budget \in [Attempts -> HeldBudget \cup {"none", "released", "cancelled"}]
  BY DEF WInv, WorkerTypeOK, WorkerTypes, IInv, TypeOK
<1>1. [WorkerNext]_allVars
  BY DEF WorkerNext, Control
<1>2. TypeOK' /\ \A b \in Attempts : (Claimed(b) => Claimed(b)') /\ (Settled(b) => Settled(b)')
  BY <1>1, RowsGoOn DEF IInv
<1>3. WorkerAgrees(a)
  BY DEF WInv
<1>4. \A b \in Attempts \ {a} :
        stopProof'[b] = stopProof[b]
  BY <1>0 DEF AnswerMain, RefuseMain, Claim, Start, Complete, ClaimBlocked, StartBlocked, Block,
     LateCallback, Expire, controlVars, attemptVars
<1>5. PICK stage \in {"starting", "launching", "over"}, next \in {"none", "start"} :
        /\ Answers(a, stage, next)
        /\ stage = "starting" => main[a] = "claim" /\ Claim(a)
        /\ stage = "launching" => main[a] = "start" /\ UNCHANGED stopProof
        /\ main[a] \notin {"complete", "passed", "quarantined"} => UNCHANGED stopProof
  BY DEF AnswerMain, RefuseMain, Claim, Start, ClaimBlocked, StartBlocked, Block, LateCallback,
     Expire, controlVars, attemptVars
<1>6. /\ \A b \in Attempts \ {a} : daemon'[b] = daemon[b] /\ main'[b] = main[b]
      /\ \/ /\ daemon[a] \in {"claiming", "starting", "completing"}
            /\ daemon' = Sets(daemon, a, stage) /\ main' = Sets(main, a, next)
            /\ main[a] = "claim" => daemon[a] = "claiming"
            /\ main[a] = "start" => daemon[a] = "starting"
            /\ main[a] \in {"complete", "passed", "quarantined"} => daemon[a] = "completing"
         \/ UNCHANGED daemon /\ main' = Sets(main, a, "none")
  BY <1>0, <1>5, Answered
<1>7. UNCHANGED <<model, beat, stop, cancelling, failed, verdict>>
      /\ (UNCHANGED assignment \/ Admitted(a))
  BY DEF AnswerMain, RefuseMain, controlVars
<1>8. assignment' \in [Attempts -> {"none", "fresh", "cached", "old"}]
      /\ \A b \in Attempts : assignment'[b] = "none" <=> assignment[b] = "none"
  BY <1>0, <1>7 DEF WorkerTypes, Admitted, Sets
<1>9. daemon' \in [Attempts -> Stages] /\ main' \in [Attempts -> DOMAIN WaitsIn]
      /\ \A b \in Attempts : daemon'[b] = "off" <=> daemon[b] = "off"
  <2>1. DOMAIN WaitsIn = {"none", "claim", "start", "complete", "passed", "quarantined"}
    BY DEF WaitsIn
  <2> QED
    BY <1>0, <1>6, <2>1 DEF WorkerTypes, Sets, Stages
<1>10. WorkerTypeOK'
  BY <1>0, <1>2, <1>7, <1>8, <1>9 DEF WorkerTypeOK, WorkerTypes
<1>11. \A b \in Attempts \ {a} : WorkerAgrees(b)'
  BY <1>2, <1>4, <1>6, <1>7, OthersAgree DEF WInv
<1>12. WorkerAgrees(a)'
  <2>1. stage = "starting" => Claimed(a)' /\ ~ Settled(a) /\ ~ stopProof[a]
    BY <1>0, <1>5 DEF Claim, Claimable, Verified, Claimed, Settled, Cancelling, WInv, IInv,
       StopRecorded, LiveStatus
  <2>2. main'[a] \notin {"complete", "passed", "quarantined"}
    BY <1>0, <1>6 DEF WorkerTypes, Sets
  <2>3. CASE UNCHANGED daemon
    BY <1>0, <1>2, <1>3, <1>5, <1>7, <2>2, <2>3 DEF WorkerAgrees, WorkerTypes, Begun, BeforeModel,
       Timers, StopSeen
  <2>4. CASE /\ daemon[a] \in {"claiming", "starting", "completing"}
             /\ daemon' = Sets(daemon, a, stage) /\ main' = Sets(main, a, next)
             /\ main[a] = "claim" => daemon[a] = "claiming"
             /\ main[a] = "start" => daemon[a] = "starting"
             /\ main[a] \in {"complete", "passed", "quarantined"} => daemon[a] = "completing"
    <3>1. daemon'[a] = stage
      BY <1>0, <2>4 DEF WorkerTypes, Sets
    <3>2. CASE stage = "starting"
      BY <1>2, <1>3, <1>5, <1>7, <2>1, <2>2, <2>4, <3>1, <3>2 DEF WorkerAgrees, Begun,
         BeforeModel, Timers, StopSeen
    <3>3. CASE stage = "launching"
      BY <1>2, <1>3, <1>5, <1>7, <2>2, <2>4, <3>1, <3>3 DEF WorkerAgrees, Begun,
         BeforeModel, Timers, StopSeen
    <3>4. CASE stage = "over"
      BY <1>2, <1>3, <1>5, <1>7, <2>2, <2>4, <3>1, <3>4 DEF WorkerAgrees, Begun,
         BeforeModel, Timers, StopSeen
    <3> QED
      BY <3>2, <3>3, <3>4
  <2> QED
    BY <1>6, <2>3, <2>4
<1> QED
  BY <1>10, <1>11, <1>12

\* Steps of control and of the supervisor that put no stop on record.
LEMMA QuietControl ==
  ASSUME WInv, NEW a \in Attempts,
         \/ AssignmentAges(a) \/ Validate(a) \/ AnswerHeartbeat(a) \/ AnswerStatus(a)
         \/ RefuseHeartbeat(a) \/ ControlRestarts \/ Inspect(a)
  PROVE  WorkerTypeOK' /\ \A b \in Attempts : WorkerAgrees(b)'
<1>0. WorkerTypes
  BY DEF WInv, WorkerTypeOK, WorkerTypes
<1>1. [WorkerNext]_allVars
  BY DEF WorkerNext, Control
<1>2. TypeOK' /\ \A b \in Attempts : (Claimed(b) => Claimed(b)') /\ (Settled(b) => Settled(b)')
  BY <1>1, RowsGoOn DEF IInv
<1>3. WorkerAgrees(a)
  BY DEF WInv
<1>4. UNCHANGED <<stopProof, daemon, model, stop>>
  BY DEF AssignmentAges, Validate, AnswerHeartbeat, AnswerStatus, RefuseHeartbeat, ControlRestarts,
     Inspect, Heartbeat, LateCallback, Expire, controlVars, attemptVars, callVars
<1>5. ASSUME \A b \in Attempts \ {a} : /\ main'[b] = main[b] /\ verdict'[b] = verdict[b]
                                       /\ cancelling'[b] = cancelling[b] /\ failed'[b] = failed[b]
      PROVE  \A b \in Attempts \ {a} : WorkerAgrees(b)'
  BY <1>2, <1>4, <1>5, OthersAgree DEF WInv
<1>6. DOMAIN WaitsIn = {"none", "claim", "start", "complete", "passed", "quarantined"}
  BY DEF WaitsIn
<1> USE DEF Sets
<1>7. CASE Validate(a)
  <2>1. WorkerTypeOK'
    BY <1>0, <1>2, <1>6, <1>7 DEF Validate, Admitted, WorkerTypeOK, WorkerTypes
  <2>2. main[a] = "complete" /\ UNCHANGED <<cancelling, failed, verdict>>
        /\ \A b \in Attempts \ {a} : main'[b] = main[b]
    BY <1>0, <1>7 DEF Validate, WorkerTypes
  <2>3. WorkerAgrees(a)'
    BY <1>2, <1>3, <1>4, <2>2 DEF WorkerAgrees, Begun, BeforeModel, Timers, StopSeen
  <2> QED
    BY <1>5, <2>1, <2>2, <2>3
<1>8. CASE Inspect(a)
  <2>1. WorkerTypeOK'
    BY <1>0, <1>2, <1>8 DEF Inspect, callVars, WorkerTypeOK, WorkerTypes
  <2>2. UNCHANGED <<main, cancelling, failed>> /\ \A b \in Attempts \ {a} : verdict'[b] = verdict[b]
    BY <1>0, <1>8 DEF Inspect, callVars, WorkerTypes
  <2>3. verdict'[a] = "stopped" => NeverStarted(a) \/ SeenStopped(a)
    BY <1>0, <1>8 DEF Inspect, WorkerTypes
  <2>4. NeverStarted(a) => ~ Begun(a) /\ model[a] = "none"
    BY <1>3 DEF WorkerAgrees, NeverStarted, Claimed
  <2>5. NeverStarted(a) => Settled(a)
    <3>1. Reconcilable(a)
      BY <1>8 DEF Inspect
    <3>2. status[a] # "none"
      BY <3>1, ExecutionAssumption DEF Reconcilable, WInv, IInv, Ownership
    <3>3. NeverStarted(a) => status[a] \notin {"claimed", "running"}
      BY DEF WInv, BudgetAgrees, NeverStarted
    <3> QED
      BY <3>1, <3>2, <3>3 DEF Reconcilable, Settled
  <2>6. SeenStopped(a) => StopSeen(a)'
    BY <1>4 DEF SeenStopped, StopSeen
  <2>7. NeverStarted(a) => StopSeen(a)'
    BY <1>2, <1>4, <2>4, <2>5 DEF StopSeen, Begun
  <2>8. WorkerAgrees(a)'
    BY <1>2, <1>3, <1>4, <2>2, <2>3, <2>6, <2>7 DEF WorkerAgrees, Begun, BeforeModel, Timers
  <2> QED
    BY <1>5, <2>1, <2>2, <2>8
<1>9. CASE AssignmentAges(a) \/ ControlRestarts
  <2>1. WorkerTypeOK' /\ UNCHANGED <<main, cancelling, failed, verdict>>
    BY <1>0, <1>2, <1>9 DEF AssignmentAges, ControlRestarts, callVars, WorkerTypeOK, WorkerTypes
  <2>2. WorkerAgrees(a)'
    BY <1>2, <1>3, <1>4, <2>1 DEF WorkerAgrees, Begun, BeforeModel, Timers, StopSeen
  <2> QED
    BY <1>5, <2>1, <2>2
<1>10. CASE AnswerHeartbeat(a) \/ AnswerStatus(a) \/ RefuseHeartbeat(a)
  <2>1. /\ assignment' \in [Attempts -> {"none", "fresh", "cached", "old"}]
        /\ \A b \in Attempts : assignment'[b] = "none" <=> assignment[b] = "none"
    BY <1>0, <1>10 DEF AnswerHeartbeat, AnswerStatus, RefuseHeartbeat, Admitted, controlVars,
       WorkerTypes
  <2>2. /\ UNCHANGED <<main, verdict>>
        /\ cancelling' = cancelling \/ (cancelling' = Ordered(cancelling, a) /\ Timers(a))
        /\ \/ failed' = failed
           \/ failed' = [failed EXCEPT ![a] = TRUE] /\ cancelling' = Ordered(cancelling, a)
        /\ beat' \in [Attempts -> {"none", "heartbeat", "status"}]
    <3>1. CASE AnswerHeartbeat(a)
      BY <1>0, <3>1 DEF AnswerHeartbeat, WorkerTypes
    <3>2. CASE AnswerStatus(a)
      BY <1>0, <3>2 DEF AnswerStatus, WorkerTypes
    <3>3. CASE RefuseHeartbeat(a)
      BY <1>0, <3>3 DEF RefuseHeartbeat, WorkerTypes
    <3> QED
      BY <1>10, <3>1, <3>2, <3>3
  <2>3. /\ cancelling' \in [Attempts -> {"no", "ordered", "reported", "answered"}]
        /\ failed' \in [Attempts -> BOOLEAN]
        /\ \A b \in Attempts \ {a} : cancelling'[b] = cancelling[b] /\ failed'[b] = failed[b]
        /\ cancelling'[a] = cancelling[a] \/ Timers(a)
        /\ cancelling[a] # "no" => cancelling'[a] # "no"
        /\ failed'[a] => failed[a] \/ cancelling'[a] # "no"
    <3>0. /\ cancelling \in [Attempts -> {"no", "ordered", "reported", "answered"}]
          /\ failed \in [Attempts -> BOOLEAN]
      BY <1>0 DEF WorkerTypes
    <3>1. /\ Ordered(cancelling, a) \in [Attempts -> {"no", "ordered", "reported", "answered"}]
          /\ \A b \in Attempts \ {a} : Ordered(cancelling, a)[b] = cancelling[b]
          /\ Ordered(cancelling, a)[a] # "no"
      BY <3>0 DEF Ordered
    <3>2. /\ cancelling' \in [Attempts -> {"no", "ordered", "reported", "answered"}]
          /\ \A b \in Attempts \ {a} : cancelling'[b] = cancelling[b]
          /\ cancelling'[a] = cancelling[a] \/ Timers(a)
          /\ cancelling[a] # "no" => cancelling'[a] # "no"
      <4>1. CASE cancelling' = cancelling
        BY <3>0, <4>1
      <4>2. CASE cancelling' = Ordered(cancelling, a) /\ Timers(a)
        BY <3>1, <4>2
      <4> QED
        BY <2>2, <4>1, <4>2
    <3>3. /\ failed' \in [Attempts -> BOOLEAN]
          /\ \A b \in Attempts \ {a} : failed'[b] = failed[b]
          /\ failed'[a] => failed[a] \/ cancelling'[a] # "no"
      <4>1. CASE failed' = failed
        BY <3>0, <4>1
      <4>2. CASE failed' = [failed EXCEPT ![a] = TRUE] /\ cancelling' = Ordered(cancelling, a)
        <5>1. cancelling'[a] # "no"
          BY <3>1, <4>2
        <5>2. failed' = [failed EXCEPT ![a] = TRUE]
          BY <4>2
        <5> QED
          BY <3>0, <5>1, <5>2
      <4> QED
        BY <2>2, <4>1, <4>2
    <3> QED
      BY <3>2, <3>3
  <2>4. WorkerTypeOK'
    BY <1>0, <1>2, <1>4, <2>1, <2>2, <2>3 DEF WorkerTypeOK, WorkerTypes
  <2>5. WorkerAgrees(a)'
    BY <1>2, <1>3, <1>4, <2>2, <2>3 DEF WorkerAgrees, Begun, BeforeModel, Timers, StopSeen
  <2> QED
    BY <1>5, <2>2, <2>3, <2>4, <2>5
<1> QED
  BY <1>7, <1>8, <1>9, <1>10

\* The two ways a stop comes on record other than by a result.
LEMMA StopAgrees ==
  ASSUME WInv, NEW a \in Attempts, AnswerStop(a) \/ ReconcileVerdict(a)
  PROVE  WorkerTypeOK' /\ \A b \in Attempts : WorkerAgrees(b)'
<1>0. WorkerTypes /\ stopProof \in [Attempts -> BOOLEAN]
  BY DEF WInv, WorkerTypeOK, WorkerTypes, IInv, TypeOK
<1>1. [WorkerNext]_allVars
  BY DEF WorkerNext, Control
<1>2. TypeOK' /\ \A b \in Attempts : (Claimed(b) => Claimed(b)') /\ (Settled(b) => Settled(b)')
  BY <1>1, RowsGoOn DEF IInv
<1>3. WorkerAgrees(a)
  BY DEF WInv
<1>4. UNCHANGED <<daemon, model, main, beat>>
  BY DEF AnswerStop, ReconcileVerdict, callVars
<1>5. /\ \A b \in Attempts \ {a} : stopProof'[b] = stopProof[b]
      /\ stopProof'[a] = stopProof[a] \/ stop[a] = "stopped" \/ verdict[a] = "stopped"
  BY <1>0 DEF AnswerStop, ReconcileVerdict, ReconcileStopped, ReconcileEnded, ReconcileUnknown,
     controlVars, attemptVars
<1>6. /\ assignment' \in [Attempts -> {"none", "fresh", "cached", "old"}]
      /\ \A b \in Attempts : assignment'[b] = "none" <=> assignment[b] = "none"
  BY <1>0 DEF AnswerStop, ReconcileVerdict, Admitted, controlVars, WorkerTypes, Sets
<1>7. /\ \/ stop' = Sets(stop, a, "none") /\ UNCHANGED verdict
         \/ verdict' = Sets(verdict, a, "none") /\ UNCHANGED stop
      /\ \/ UNCHANGED <<cancelling, failed>>
         \/ /\ stop[a] # "none"
            /\ failed' = Sets(failed, a, TRUE) /\ cancelling' = Sets(cancelling, a, "answered")
  BY DEF AnswerStop, ReconcileVerdict, callVars
<1>8. WorkerTypeOK'
  <2>1. /\ stop' \in [Attempts -> {"none", "stopped", "unknown"}]
        /\ verdict' \in [Attempts -> {"none", "stopped", "unknown"}]
    BY <1>0, <1>7 DEF WorkerTypes, Sets
  <2>2. /\ cancelling' \in [Attempts -> {"no", "ordered", "reported", "answered"}]
        /\ failed' \in [Attempts -> BOOLEAN]
    <3>1. CASE UNCHANGED <<cancelling, failed>>
      BY <1>0, <3>1 DEF WorkerTypes
    <3>2. CASE failed' = Sets(failed, a, TRUE) /\ cancelling' = Sets(cancelling, a, "answered")
      BY <1>0, <3>2 DEF WorkerTypes, Sets
    <3> QED
      BY <1>7, <3>1, <3>2
  <2> QED
    BY <1>0, <1>2, <1>4, <1>6, <2>1, <2>2 DEF WorkerTypeOK, WorkerTypes
<1>9. /\ \A b \in Attempts \ {a} : /\ stop'[b] = stop[b] /\ verdict'[b] = verdict[b]
                                 /\ cancelling'[b] = cancelling[b] /\ failed'[b] = failed[b]
      /\ stop'[a] = stop[a] \/ stop'[a] = "none"
      /\ verdict'[a] = verdict[a] \/ verdict'[a] = "none"
      /\ cancelling'[a] = cancelling[a] \/ stop[a] # "none"
      /\ (failed'[a] = failed[a] /\ cancelling'[a] = cancelling[a]) \/ cancelling'[a] # "no"
  BY <1>0, <1>7 DEF WorkerTypes, Sets
<1>10. \A b \in Attempts \ {a} : WorkerAgrees(b)'
  BY <1>2, <1>4, <1>5, <1>9, OthersAgree DEF WInv
<1>11. WorkerAgrees(a)'
  <2>1. stop[a] = "stopped" \/ verdict[a] = "stopped" => ~ Begun(a) /\ model[a] # "running"
    BY <1>3 DEF WorkerAgrees, StopSeen, BeforeModel, Begun
  <2> QED
    BY <1>2, <1>3, <1>4, <1>5, <1>9, <2>1 DEF WorkerAgrees, Begun, BeforeModel, Timers, StopSeen
<1> QED
  BY <1>8, <1>10, <1>11

\* Operators, approvals, the scanner and the clock prove no stop.
LEMMA SurroundingsAgree ==
  ASSUME WInv, Surroundings \/ UNCHANGED allVars
  PROVE  WorkerTypeOK' /\ \A b \in Attempts : WorkerAgrees(b)'
<1>1. [WorkerNext]_allVars
  BY DEF WorkerNext
<1>2. TypeOK' /\ \A b \in Attempts : (Claimed(b) => Claimed(b)') /\ (Settled(b) => Settled(b)')
  BY <1>1, RowsGoOn DEF IInv
<1>3. UNCHANGED <<daemon, model, assignment, main, beat, stop, cancelling, failed, verdict>>
  BY DEF Surroundings, allVars, workerVars
<1>4. UNCHANGED stopProof
  <2>1. ASSUME NEW m \in Missions, Operator(m) PROVE UNCHANGED stopProof
    BY <2>1 DEF Operator, Queue, Retry, Create, QueueBlocked, RetryBlocked, Block, Review,
       RecordMergeEvidence, attemptVars
  <2>2. CASE UNCHANGED allVars
    BY <2>2 DEF allVars, controlVars, attemptVars
  <2>3. CASE Foundation \/ ScanExpired \/ Tick
    BY <2>3 DEF Foundation, ScanExpired, Expire, Tick, attemptVars
  <2>4. CASE \/ \E a \in Attempts, type \in ApprovalTypes : BindApproval(a, type)
             \/ \E g \in granted : ApprovalLapses(g)
    BY <2>4 DEF BindApproval, ApprovalLapses, attemptVars
  <2> QED
    BY <2>1, <2>2, <2>3, <2>4 DEF Surroundings
<1>5. WorkerTypeOK'
  BY <1>2, <1>3 DEF WInv, WorkerTypeOK
<1>6. \A b \in Attempts : WorkerAgrees(b)'
  BY <1>2, <1>3, <1>4, OthersAgree DEF WInv
<1> QED
  BY <1>5, <1>6

-----------------------------------------------------------------------------
LEMMA WorkerInvInit == WorkerInit => WInv
<1> SUFFICES ASSUME WorkerInit PROVE WInv
  OBVIOUS
<1>1. IInv
  BY InvInit DEF WorkerInit
<1>2. DOMAIN WaitsIn = {"none", "claim", "start", "complete", "passed", "quarantined"}
  BY DEF WaitsIn
<1>3. WorkerTypeOK
  BY <1>1, <1>2 DEF WorkerInit, WorkerTypeOK, IInv, Stages
<1>4. ASSUME NEW a \in Attempts PROVE BudgetAgrees(a) /\ WorkerAgrees(a)
  BY DEF WorkerInit, Init, BudgetAgrees, WorkerAgrees, Begun, BeforeModel, Timers
<1> QED
  BY <1>1, <1>3, <1>4 DEF WInv

LEMMA WorkerInvStep == WInv /\ [WorkerNext]_allVars => WInv'
<1> SUFFICES ASSUME WInv, [WorkerNext]_allVars PROVE WInv'
  OBVIOUS
<1>1. IInv' /\ \A a \in Attempts : BudgetAgrees(a)'
  BY RowsGoOn
<1>2. WorkerTypeOK' /\ \A a \in Attempts : WorkerAgrees(a)'
  <2>1. CASE \E a \in Attempts : WorkerStep(a)
    BY <2>1, WorkerStepAgrees
  <2>2. CASE \E a \in Attempts : AnswerMain(a) \/ RefuseMain(a)
    BY <2>2, MainAgrees
  <2>3. CASE \E a \in Attempts :
               \/ AssignmentAges(a) \/ Validate(a) \/ AnswerHeartbeat(a) \/ AnswerStatus(a)
               \/ RefuseHeartbeat(a) \/ Inspect(a)
    BY <2>3, QuietControl
  <2>4. CASE ControlRestarts
    BY <2>4, QuietControl DEF ControlRestarts
  <2>5. CASE \E a \in Attempts : AnswerStop(a) \/ ReconcileVerdict(a)
    BY <2>5, StopAgrees
  <2>6. CASE Surroundings \/ UNCHANGED allVars
    BY <2>6, SurroundingsAgree
  <2> QED
    BY <2>1, <2>2, <2>3, <2>4, <2>5, <2>6 DEF WorkerNext, Control
<1> QED
  BY <1>1, <1>2 DEF WInv

\* What the rows, the unit, its model, the calls under way and the verdict of the
\* supervisor tell of each other in every state.
THEOREM WorkerInvariance == WorkerSpec => []WInv
<1> QED
  BY WorkerInvInit, WorkerInvStep, PTL DEF WorkerSpec

\* Workers, control and supervisor together do to the rows what ExecutionControl
\* allows, so its theorems hold of them: a mission has one generation at most,
\* and what it holds is released when its stop is proved.
THEOREM WorkersObeyControl == WorkerSpec => Spec
<1>1. WorkerInit => Init
  BY DEF WorkerInit
<1> QED
  BY <1>1, ControlStep, PTL DEF WorkerSpec, Spec

\* Every variable of the worker, of control and of the supervisor keeps its type.
THEOREM WorkerTypeCorrect == WorkerSpec => []WorkerTypeOK
<1>1. WInv => WorkerTypeOK
  BY DEF WInv
<1> QED
  BY <1>1, WorkerInvariance, PTL

\* Whether a worker reported its result, its stop, or the supervisor found the
\* unit gone or the attempt never claimed: when a stop is on record, no model of
\* that attempt runs, nor will one be launched.
THEOREM ProvedStopsAreTrue == WorkerSpec => []StopProofIsTrue
<1>1. WInv => StopProofIsTrue
  BY DEF WInv, WorkerAgrees, StopProofIsTrue
<1> QED
  BY <1>1, WorkerInvariance, PTL

\* A model that runs is never left alone: its daemon lives and has its timers
\* armed, or it is dead and its group is killed; and whoever noted a reason to
\* stop the model has ordered its stop.
THEOREM ModelsAreWatched == WorkerSpec => []RunningModelIsWatched
<1>1. WInv => RunningModelIsWatched
  BY DEF WInv, WorkerAgrees, RunningModelIsWatched
<1> QED
  BY <1>1, WorkerInvariance, PTL

-----------------------------------------------------------------------------
(* Two models never work in one place.                                     *)

SameBranch(a, b) ==
  /\ identity[a].workspace.repo = identity[b].workspace.repo
  /\ identity[a].workspace.branch = identity[b].workspace.branch

\* A branch has one lease, and a claimed attempt has one.
LeasesApart ==
  /\ \A a, b \in Attempts :
       worktree[a] \in HeldWorktree /\ worktree[b] \in HeldWorktree /\ SameBranch(a, b) => a = b
  /\ \A a \in Attempts : budget[a] = "consuming" => worktree[a] # "none"

LEMMA LeaseStep ==
  ASSUME IInv, \A a \in Attempts : BudgetAgrees(a), LeasesApart, [Next]_vars
  PROVE  LeasesApart'
<1>0. /\ worktree \in [Attempts -> HeldWorktree \cup {"none", "released"}]
      /\ budget \in [Attempts -> HeldBudget \cup {"none", "released", "cancelled"}]
      /\ identity \in [Attempts -> Identity]
  BY DEF IInv, TypeOK
<1>1. ASSUME UNCHANGED identity,
             \A a \in Attempts : /\ worktree'[a] \in HeldWorktree => worktree[a] \in HeldWorktree
                                 /\ worktree'[a] = "none" => worktree[a] = "none"
                                 /\ budget'[a] = "consuming" => budget[a] = "consuming" \/ worktree[a] # "none"
      PROVE  LeasesApart'
  BY <1>1 DEF LeasesApart, SameBranch
<1>2. CASE UNCHANGED <<identity, worktree, budget>>
  BY <1>1, <1>2
<1>3. CASE \E m \in Missions, a \in Attempts, o \in Options : Begins(m, a, o)
  <2>1. PICK m \in Missions, a \in Attempts, o \in Options : Begins(m, a, o)
    BY <1>3
  <2>2. /\ status[a] = "none" /\ WorkspaceFree(o)
        /\ worktree' = [worktree EXCEPT ![a] =
             IF o.workspace = NoWorkspace THEN "none" ELSE "reserved"]
        /\ budget' = [budget EXCEPT ![a] = IF o.amount = 0 THEN "none" ELSE "reserved"]
        /\ \A b \in Attempts \ {a} : identity'[b] = identity[b]
    BY <1>0, <2>1 DEF Begins, Queue, Retry, Create
  <2>3. identity'[a].workspace = o.workspace
    BY <1>0, <2>1 DEF Begins, Queue, Retry, Create
  <2>4. worktree[a] = "none" /\ budget'[a] # "consuming"
    BY <1>0, <2>2 DEF IInv, Ownership
  <2>5. ASSUME NEW b \in Attempts \ {a}, worktree[b] \in HeldWorktree, o.workspace # NoWorkspace
        PROVE  ~ SameBranch(a, b)' /\ ~ SameBranch(b, a)'
    BY <2>2, <2>3, <2>5 DEF WorkspaceFree, Clash, SameBranch
  <2>6. \A b \in Attempts \ {a} : worktree'[b] = worktree[b] /\ budget'[b] = budget[b]
    BY <1>0, <2>2
  <2>7. worktree'[a] \in HeldWorktree => o.workspace # NoWorkspace
    BY <1>0, <2>2 DEF HeldWorktree
  <2>8. ASSUME NEW b \in Attempts \ {a}, NEW c \in Attempts \ {a}
        PROVE  SameBranch(b, c)' <=> SameBranch(b, c)
    BY <2>2 DEF SameBranch
  <2>9. ASSUME NEW b \in Attempts, NEW c \in Attempts,
               worktree'[b] \in HeldWorktree, worktree'[c] \in HeldWorktree, SameBranch(b, c)'
        PROVE  b = c
    BY <2>5, <2>6, <2>7, <2>8, <2>9 DEF LeasesApart
  <2> QED
    BY <2>4, <2>6, <2>9 DEF LeasesApart
<1>4. CASE \E a \in Attempts : Claim(a)
  BY <1>0, <1>1, <1>4 DEF Claim, HeldWorktree
<1>5. CASE \E S \in SUBSET {a \in Attempts : Live(a)} : Expire(S)
  BY <1>0, <1>1, <1>5 DEF Expire, HeldWorktree
<1>6. CASE \E a \in Attempts : ReconcileUnknown(a)
  BY <1>0, <1>1, <1>6 DEF ReconcileUnknown, attemptVars, HeldWorktree
<1>7. ASSUME NEW a \in Attempts, NEW end \in {"cancelled", "released"}, Release(a, end),
             UNCHANGED identity
      PROVE  LeasesApart'
  BY <1>0, <1>1, <1>7 DEF Release, HeldWorktree, HeldBudget
<1>8. CASE \E a \in Attempts : ReconcileStopped(a)
  BY <1>7, <1>8 DEF ReconcileStopped
<1>9. CASE \E a \in Attempts, outcome \in Outcomes, h \in Heads \cup {NoHead} :
             Complete(a, outcome, h)
  BY <1>7, <1>9 DEF Complete
<1>10. CASE \/ \E a \in Attempts : Start(a) \/ Progress(a) \/ ReconcileEnded(a)
            \/ \E m \in Missions : Refused(m) \/ Review(m)
            \/ \E m, d \in Missions : RecordMergeEvidence(m, d)
            \/ Foundation
            \/ Quiet
  BY <1>2, <1>10 DEF Start, Progress, ReconcileEnded, Refused, Block, Review,
     RecordMergeEvidence, Foundation, Quiet, attemptVars, heldVars
<1> QED
  BY <1>3, <1>4, <1>5, <1>6, <1>8, <1>9, <1>10, StepCases DEF Supervisor

LEMMA LeaseInvariance == WorkerSpec => []LeasesApart
<1>1. WorkerInit => LeasesApart
  BY DEF WorkerInit, Init, LeasesApart, HeldWorktree
<1>2. WInv /\ LeasesApart /\ [WorkerNext]_allVars => LeasesApart'
  BY ControlStep, LeaseStep DEF WInv
<1> QED
  BY <1>1, <1>2, WorkerInvariance, PTL DEF WorkerSpec

\* No two models ever work for one mission, or on one branch: an attempt whose
\* model runs still holds its lease, whatever became of its mission, its worker
\* and the calls under way.
THEOREM ModelsApart ==
  WorkerSpec => [](\A a, b \in Attempts :
                     /\ model[a] = "running" /\ model[b] = "running"
                     /\ MissionOf(a) = MissionOf(b) \/ SameBranch(a, b)
                     => a = b)
<1>1. ASSUME WInv, LeasesApart, NEW a \in Attempts, model[a] = "running"
      PROVE  /\ MissionOf(a) \in Missions /\ current[MissionOf(a)] = a
             /\ worktree[a] \in HeldWorktree
  <2>1. Claimed(a) /\ ~ stopProof[a]
    BY <1>1 DEF WInv, WorkerAgrees
  <2>2. status[a] # "none" /\ budget[a] = "consuming"
    BY <2>1, <1>1 DEF Claimed, WInv, IInv, TypeOK, Ownership, HeldUntilStopped, HeldBudget
  <2>3. Unstopped(a)
    BY <1>1, <2>1, <2>2 DEF WInv, IInv, TypeOK, StopRecorded, Unstopped, Live, Status
  <2>4. worktree[a] \notin {"none", "released"}
    BY <1>1, <2>1, <2>2 DEF LeasesApart, WInv, IInv, HeldUntilStopped
  <2> QED
    BY <1>1, <2>3, <2>4 DEF WInv, IInv, TypeOK, OneGeneration
<1>2. ASSUME WInv, LeasesApart, NEW a \in Attempts, NEW b \in Attempts,
             model[a] = "running", model[b] = "running",
             MissionOf(a) = MissionOf(b) \/ SameBranch(a, b)
      PROVE  a = b
  BY <1>1, <1>2 DEF LeasesApart
<1>3. WInv /\ LeasesApart =>
        \A a, b \in Attempts :
          /\ model[a] = "running" /\ model[b] = "running"
          /\ MissionOf(a) = MissionOf(b) \/ SameBranch(a, b)
          => a = b
  BY <1>2
<1> QED
  BY <1>3, WorkerInvariance, LeaseInvariance, PTL
=============================================================================
