----------------------------- MODULE CodexWorker -----------------------------
(***************************************************************************)
(* The Codex worker, the daemon it reports to, and the supervisor that     *)
(* looks for workers that are gone, over the attempts of ExecutionControl. *)
(*                                                                         *)
(*   worker     src/src/codex-worker/daemon.ts, codex-worker.ts: one       *)
(*              systemd unit per attempt, which prepares the workspace,    *)
(*              claims, starts, runs the model as a child and reports      *)
(*   control    src/src/codex-worker/control-daemon.ts, codex-controller.ts*)
(*              and codex-transport.ts: it carries out the signed calls    *)
(*   supervisor src/src/core/missions-v2/codex-supervisor.ts               *)
(*                                                                         *)
(* Heartbeats, the deadline timer, the end of the model and the main line  *)
(* of the worker interleave.  A call that control has received goes on     *)
(* when the worker has stopped waiting for it; a call whose answer the     *)
(* worker does not get is an error to the worker.  A unit is started once. *)
(* A worker has one heartbeat under way at most.  Signatures and nonces    *)
(* are left out: every message here is one its sender signed.              *)
(***************************************************************************)
EXTENDS ExecutionControl

VARIABLES
  daemon,      \* how far the main line of each worker has come
  model,       \* its child process
  assignment,  \* the signed assignment of an attempt, as control sees it
  main,        \* the call of the main line that control has, and its stage
  beat,        \* the same for heartbeats
  stop,        \* the report of a stop that control has
  cancelling,  \* the stop of the model: not ordered, ordered, reported, answered
  failed,      \* heartbeatError is set
  verdict      \* what the supervisor found and has not reconciled yet

controlVars == <<missionVars, attemptVars, timeVars, heldVars, granted>>
callVars    == <<main, beat, stop>>
workerVars  == <<daemon, model, assignment, main, beat, stop, cancelling, failed, verdict>>
allVars     == <<controlVars, workerVars>>

Stages == {"off", "preparing", "claiming", "starting", "launching", "running",
           "collected", "completing", "over", "gone"}

\* The stage in which the worker waits for the answer of a call.
WaitsIn == [none |-> {}, claim |-> {"claiming"}, start |-> {"starting"},
            complete |-> {"completing"}, passed |-> {"completing"},
            quarantined |-> {"completing"}]

WorkerInit ==
  /\ Init
  /\ daemon = [a \in Attempts |-> "off"]
  /\ model = [a \in Attempts |-> "none"]
  /\ assignment = [a \in Attempts |-> "none"]
  /\ main = [a \in Attempts |-> "none"]
  /\ beat = [a \in Attempts |-> "none"]
  /\ stop = [a \in Attempts |-> "none"]
  /\ cancelling = [a \in Attempts |-> "no"]
  /\ failed = [a \in Attempts |-> FALSE]
  /\ verdict = [a \in Attempts |-> "none"]

Sets(f, a, value) == [f EXCEPT ![a] = value]
Alive(a) == daemon[a] \notin {"off", "gone"}
Timers(a) == daemon[a] \in {"running", "collected", "completing"}

-----------------------------------------------------------------------------
(* The worker *)

\* The operator writes the assignment of a queued attempt and starts its unit.
StartUnit(a) ==
  /\ daemon[a] = "off" /\ status[a] = "queued"
  /\ daemon' = Sets(daemon, a, "preparing")
  /\ assignment' = Sets(assignment, a, "fresh")
  /\ UNCHANGED <<controlVars, model, callVars, cancelling, failed, verdict>>

\* The workspace is cloned, checked out and compared; then the attempt is claimed.
Prepared(a) ==
  /\ daemon[a] = "preparing"
  /\ daemon' = Sets(daemon, a, "claiming")
  /\ main' = Sets(main, a, "claim")
  /\ UNCHANGED <<controlVars, model, assignment, beat, stop, cancelling, failed, verdict>>

LaunchModel(a) ==
  /\ daemon[a] = "launching"
  /\ daemon' = Sets(daemon, a, "running")
  /\ model' = Sets(model, a, "running")
  /\ UNCHANGED <<controlVars, assignment, callVars, cancelling, failed, verdict>>

\* The model is done, or writes too much and is told to stop.
ModelEnds(a) ==
  /\ model[a] = "running"
  /\ model' = Sets(model, a, "exited")
  /\ UNCHANGED <<controlVars, daemon, assignment, callVars, cancelling, failed, verdict>>

SendHeartbeat(a) ==
  /\ Timers(a) /\ beat[a] = "none"
  /\ beat' = Sets(beat, a, "heartbeat")
  /\ UNCHANGED <<controlVars, daemon, model, assignment, main, stop, cancelling,
                 failed, verdict>>

\* The first reason to stop the model orders it; a later one finds it ordered.
Ordered(f, a) == [f EXCEPT ![a] = IF @ = "no" THEN "ordered" ELSE @]

\* Mutant: the end of the time is noted for the collection of the result.
DeadlineNoted(a) ==
  /\ Timers(a) /\ deadline[a] = 0 /\ cancelling[a] = "no" /\ ~ failed[a]
  /\ failed' = Sets(failed, a, TRUE)
  /\ UNCHANGED <<controlVars, daemon, model, assignment, callVars, cancelling, verdict>>

DeadlinePasses(a) ==
  /\ Timers(a) /\ deadline[a] = 0 /\ cancelling[a] = "no"
  /\ failed' = Sets(failed, a, TRUE)
  /\ cancelling' = Ordered(cancelling, a)
  /\ UNCHANGED <<controlVars, daemon, model, assignment, callVars, verdict>>

\* runtime.cancel: SIGTERM, a grace, SIGKILL; the stop is reported as a fact
\* when the child has exited, as unknown when it has not by then.
Kill(a) ==
  /\ cancelling[a] = "ordered"
  /\ \/ /\ model' = Sets(model, a, "exited")
        /\ stop' = Sets(stop, a, "stopped")
     \/ /\ model[a] = "running"
        /\ stop' = Sets(stop, a, "unknown")
        /\ UNCHANGED model
  /\ cancelling' = Sets(cancelling, a, "reported")
  /\ UNCHANGED <<controlVars, daemon, assignment, main, beat, failed, verdict>>

\* A child that was sent SIGKILL exits, if only after the stop was reported.
KillTakes(a) ==
  /\ model[a] = "running" /\ cancelling[a] \in {"reported", "answered"}
  /\ model' = Sets(model, a, "exited")
  /\ UNCHANGED <<controlVars, daemon, assignment, callVars, cancelling, failed, verdict>>

\* runtime.collect, and the test of heartbeatError that follows it.
Collect(a) ==
  /\ daemon[a] = "running" /\ model[a] = "exited"
  /\ \/ /\ ~ failed[a]
        /\ daemon' = Sets(daemon, a, "collected")
     \/ daemon' = Sets(daemon, a, "over")
  /\ UNCHANGED <<controlVars, model, assignment, callVars, cancelling, failed, verdict>>

SendCompletion(a) ==
  /\ daemon[a] = "collected"
  /\ daemon' = Sets(daemon, a, "completing")
  /\ main' = Sets(main, a, "complete")
  /\ UNCHANGED <<controlVars, model, assignment, beat, stop, cancelling, failed, verdict>>

\* The process ends when its main line and the report of a stop are through, or
\* it dies at any moment, and its memory with it; systemd then kills what is
\* left in its control group.
Exit(a) ==
  /\ Alive(a)
  /\ daemon' = Sets(daemon, a, "gone")
  /\ cancelling' = Sets(cancelling, a, "no")
  /\ failed' = Sets(failed, a, FALSE)
  /\ UNCHANGED <<controlVars, model, assignment, callVars, verdict>>

GroupKilled(a) ==
  /\ daemon[a] = "gone" /\ model[a] = "running"
  /\ model' = Sets(model, a, "exited")
  /\ UNCHANGED <<controlVars, daemon, assignment, callVars, cancelling, failed, verdict>>

WorkerStep(a) ==
  \/ StartUnit(a) \/ Prepared(a) \/ LaunchModel(a) \/ ModelEnds(a)
  \/ SendHeartbeat(a) \/ DeadlinePasses(a) \/ Kill(a) \/ KillTakes(a)
  \/ Collect(a) \/ SendCompletion(a) \/ Exit(a) \/ GroupKilled(a)

-----------------------------------------------------------------------------
(* The control daemon *)

\* The assignment is read once, while its timestamp is recent, and then kept in
\* memory; without it no call for the attempt gets through.
Admitted(a) ==
  /\ assignment[a] \in {"fresh", "cached"}
  /\ assignment' = Sets(assignment, a, "cached")

AssignmentAges(a) ==
  /\ assignment[a] = "fresh"
  /\ assignment' = Sets(assignment, a, "old")
  /\ UNCHANGED <<controlVars, daemon, model, callVars, cancelling, failed, verdict>>

\* The answer of a call reaches a worker that still waits for it.
Answers(a, stage, next) ==
  IF daemon[a] \in WaitsIn[main[a]]
  THEN daemon' = Sets(daemon, a, stage) /\ main' = Sets(main, a, next)
  ELSE UNCHANGED daemon /\ main' = Sets(main, a, "none")

AnswerMain(a) ==
  /\ Admitted(a)
  /\ \/ main[a] = "claim" /\ Claim(a) /\ Answers(a, "starting", "start")
     \/ main[a] = "start" /\ Start(a) /\ Answers(a, "launching", "none")
     \/ /\ main[a] = "complete"
        /\ \E outcome \in {"failed_retryable", "failed_permanent"} :
             Complete(a, outcome, NoHead)
        /\ Answers(a, "over", "none")
     \/ /\ main[a] = "passed"
        /\ Complete(a, "completed", NoHead)
        /\ Answers(a, "over", "none")
     \/ /\ main[a] = "quarantined"
        /\ Complete(a, "failed_permanent", NoHead)
        /\ Answers(a, "over", "none")
  /\ UNCHANGED <<model, beat, stop, cancelling, failed, verdict>>

\* The validator compares the workspace and runs the tests again, before the
\* transaction that completes the attempt.
Validate(a) ==
  /\ main[a] = "complete"
  /\ Admitted(a)
  /\ \E result \in {"passed", "quarantined"} : main' = Sets(main, a, result)
  /\ UNCHANGED <<controlVars, daemon, model, beat, stop, cancelling, failed, verdict>>

\* A refusal, durable or not, a call that is lost, or a worker whose patience
\* is over: an error ends the main line.
RefuseMain(a) ==
  /\ main[a] # "none"
  /\ \/ /\ \/ main[a] = "claim" /\ ClaimBlocked(a)
           \/ main[a] = "start" /\ StartBlocked(a)
           \/ LateCallback(a)
        /\ Admitted(a)
     \/ UNCHANGED <<controlVars, assignment>>
  /\ Answers(a, "over", "none")
  /\ UNCHANGED <<model, beat, stop, cancelling, failed, verdict>>

\* The lease is renewed, then the state of the mission is read.
AnswerHeartbeat(a) ==
  /\ beat[a] = "heartbeat"
  /\ Admitted(a)
  /\ Heartbeat(a)
  /\ beat' = Sets(beat, a, "status")
  /\ UNCHANGED <<daemon, model, main, stop, cancelling, failed, verdict>>

AnswerStatus(a) ==
  /\ beat[a] = "status" /\ assignment[a] = "cached"
  /\ beat' = Sets(beat, a, "none")
  /\ cancelling' = IF Cancelling(MissionOf(a)) /\ Timers(a)
                   THEN Ordered(cancelling, a) ELSE cancelling
  /\ UNCHANGED <<controlVars, daemon, model, assignment, main, stop, failed, verdict>>

\* The heartbeat of an attempt that expired, was lost or is being cancelled is
\* an error, as are a lost call and a late answer: the model is stopped.
RefuseHeartbeat(a) ==
  /\ beat[a] # "none"
  /\ \/ beat[a] = "heartbeat" /\ LateCallback(a) /\ Admitted(a)
     \/ UNCHANGED <<controlVars, assignment>>
  /\ beat' = Sets(beat, a, "none")
  /\ IF Timers(a)
     THEN failed' = Sets(failed, a, TRUE) /\ cancelling' = Ordered(cancelling, a)
     ELSE UNCHANGED <<failed, cancelling>>
  /\ UNCHANGED <<daemon, model, main, stop, verdict>>

\* The report of a stop: reconcile by the worker itself, or its refusal.
AnswerStop(a) ==
  /\ stop[a] # "none"
  /\ \/ /\ Admitted(a)
        /\ \/ ReconcileEnded(a)
           \/ stop[a] = "stopped" /\ ReconcileStopped(a)
           \/ stop[a] = "unknown" /\ ReconcileUnknown(a)
     \/ UNCHANGED <<controlVars, assignment>>
  /\ stop' = Sets(stop, a, "none")
  /\ IF Alive(a)
     THEN failed' = Sets(failed, a, TRUE) /\ cancelling' = Sets(cancelling, a, "answered")
     ELSE UNCHANGED <<failed, cancelling>>
  /\ UNCHANGED <<daemon, model, main, beat, verdict>>

\* Mutant: what was in memory is forgotten altogether.
RestartForgets ==
  /\ \E a \in Attempts : assignment[a] = "cached"
  /\ assignment' = [a \in Attempts |-> "none"]
  /\ UNCHANGED <<controlVars, daemon, model, callVars, cancelling, failed, verdict>>

\* Control is restarted more than thirty seconds after the assignment was
\* written, and will not read it again.  The calls it had go no further: they
\* are errors to those who wait (RefuseMain and the others).
ControlRestarts ==
  /\ \E a \in Attempts : assignment[a] = "cached"
  /\ assignment' = [a \in Attempts |-> IF assignment[a] = "cached" THEN "old" ELSE assignment[a]]
  /\ UNCHANGED <<controlVars, daemon, model, callVars, cancelling, failed, verdict>>

Control ==
  \/ \E a \in Attempts :
       \/ AssignmentAges(a) \/ AnswerMain(a) \/ Validate(a) \/ RefuseMain(a)
       \/ AnswerHeartbeat(a) \/ AnswerStatus(a) \/ RefuseHeartbeat(a) \/ AnswerStop(a)
  \/ ControlRestarts

-----------------------------------------------------------------------------
(* The supervisor *)

\* started_at and heartbeat_at are null: the claim sets the second, in the
\* transaction that starts to consume the reservation.
NeverStarted(a) == budget[a] \in {"none", "reserved"}

\* The unit is not active and its control group is empty.
SeenStopped(a) == daemon[a] = "gone" /\ model[a] # "running"

\* Mutant: a unit that is not active is a worker that has stopped.
InspectUnit(a) ==
  /\ Reconcilable(a) /\ verdict[a] = "none"
  /\ verdict' = Sets(verdict, a, IF NeverStarted(a) \/ ~ Alive(a) THEN "stopped" ELSE "unknown")
  /\ UNCHANGED <<controlVars, daemon, model, assignment, callVars, cancelling, failed>>

\* tick, for one attempt of the list: an active unit is left alone, and whatever
\* systemd does not tell is unknown.
Inspect(a) ==
  /\ Reconcilable(a) /\ verdict[a] = "none"
  /\ \/ /\ NeverStarted(a) \/ SeenStopped(a)
        /\ verdict' = Sets(verdict, a, "stopped")
     \/ /\ ~ NeverStarted(a) /\ ~ Alive(a)
        /\ verdict' = Sets(verdict, a, "unknown")
  /\ UNCHANGED <<controlVars, daemon, model, assignment, callVars, cancelling, failed>>

\* The attempt may have moved since it was listed: then the tick goes on.
ReconcileVerdict(a) ==
  /\ verdict[a] # "none"
  /\ \/ ReconcileEnded(a)
     \/ verdict[a] = "stopped" /\ ReconcileStopped(a)
     \/ verdict[a] = "unknown" /\ ReconcileUnknown(a)
     \/ ~ Reconcilable(a) /\ UNCHANGED controlVars
  /\ verdict' = Sets(verdict, a, "none")
  /\ UNCHANGED <<daemon, model, assignment, callVars, cancelling, failed>>

\* Operators, approvals, the scanner and the clock, as in ExecutionControl.
Surroundings ==
  /\ \/ Foundation
     \/ \E m \in Missions : Operator(m)
     \/ \E a \in Attempts, type \in ApprovalTypes : BindApproval(a, type)
     \/ \E g \in granted : ApprovalLapses(g)
     \/ ScanExpired
     \/ Tick
  /\ UNCHANGED workerVars

WorkerNext ==
  \/ \E a \in Attempts : WorkerStep(a) \/ Inspect(a) \/ ReconcileVerdict(a)
  \/ Control
  \/ Surroundings

WorkerSpec == WorkerInit /\ [][WorkerNext]_allVars

\* The clock runs, the timers of a living worker fire, and systemd kills what a
\* dead one leaves.  SIGKILL is what makes the stop of a model certain.
WorkerFairness ==
  /\ WF_allVars(Tick /\ UNCHANGED workerVars)
  /\ \A a \in Attempts :
       /\ WF_allVars(DeadlinePasses(a))
       /\ WF_allVars(Kill(a)) /\ WF_allVars(KillTakes(a))
       /\ WF_allVars(GroupKilled(a))

FairWorkerSpec == WorkerSpec /\ WorkerFairness

-----------------------------------------------------------------------------
WorkerTypeOK ==
  /\ TypeOK
  /\ daemon \in [Attempts -> Stages]
  /\ model \in [Attempts -> {"none", "running", "exited"}]
  /\ \A a \in Attempts : daemon[a] = "off" <=> assignment[a] = "none"
  /\ assignment \in [Attempts -> {"none", "fresh", "cached", "old"}]
  /\ main \in [Attempts -> DOMAIN WaitsIn]
  /\ beat \in [Attempts -> {"none", "heartbeat", "status"}]
  /\ stop \in [Attempts -> {"none", "stopped", "unknown"}]
  /\ cancelling \in [Attempts -> {"no", "ordered", "reported", "answered"}]
  /\ failed \in [Attempts -> BOOLEAN]
  /\ verdict \in [Attempts -> {"none", "stopped", "unknown"}]

\* A stop that is on record has happened: whoever reported it, no model of that
\* attempt runs any more, so its workspace may be given to another.
StopProofIsTrue ==
  \A a \in Attempts : stopProof[a] => model[a] # "running"

\* No model runs that nobody is going to stop: the timers of its daemon are
\* armed, and its stop is ordered as soon as a call of the attempt has failed or
\* its time is over; or its daemon is dead, and systemd ends what it left.
RunningModelIsWatched ==
  \A a \in Attempts : model[a] = "running" =>
    \/ daemon[a] = "gone"
    \/ daemon[a] = "running" /\ (failed[a] => cancelling[a] # "no")

\* Every model that is launched comes to its end: control may be away, the
\* attempt lost, the worker dead, or the model deaf to SIGTERM.
EveryModelEnds ==
  \A a \in Attempts : model[a] = "running" ~> model[a] # "running"
=============================================================================
