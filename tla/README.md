# Agent Impact control plane: verification project

The repository is the control plane of a small agency: agents (Hermes
profiles, Codex workers, Grok, Superset sessions) ask for missions and actions,
humans approve them, and the control plane decides what may run, where, and when
it is over. Its state is in PostgreSQL; several processes (HTTP API, Slack router,
supervisors, worker daemons, host bridges) read and write it concurrently. These
modules model that machinery, from what everything else rests on, V2 missions
and the control of their execution, to the processes around it.

## 1. Inventory

Paths are relative to `src/src/` of the repository unless they start with `infra/`.

**Mission foundation** (`core/missions-v2/store.ts`, `model.ts`, migration 004).
State: the rows of `agent_missions` (lifecycle, plan version, current attempt, state
version), `mission_dependencies`, receipts and events. Operations: `admit`,
`transition`, `savePlan`, `cancel`, each one transaction under a table lock, with a
trigger that refuses cycles. Hard: dependencies of all plans ever saved count,
the trigger sees one row at a time, and the foundation must let go once an attempt
exists. Correct when: dependencies are acyclic, replanning loses no prerequisite,
an ended mission stays ended.

**Execution control** (`core/missions-v2/execution.ts`, migrations 005 to 009).
State: `mission_attempts`, `worktree_leases`, `budget_reservations`,
`mission_approval_bindings`, `mission_dependency_evidence`. Operations: `queue`,
`retry` (called by the operator), `claim`, `start`, `heartbeat`, `progress`,
`complete` (called by a worker, with its id and fencing token), `scanExpired`,
`pendingReconciliation`, `reconcile` (called by a supervisor), `bindApproval`,
`review`, `recordMergeEvidence`. Hard: late callbacks, a worker that vanished but may
still write, cancellation at any point, refusals that nevertheless commit a state,
resources held over several tables. Correct when: at most one generation of a
mission may act, what it holds is released exactly when its stop is proved, quota and
workspaces are never shared, every generation ends and every cancellation arrives.

**Worker supervision** (`core/missions-v2/supervisor.ts`, `codex-supervisor.ts`).
State: sessions of worker processes (a map, or systemd units). Operations: start,
stop, inspect, `tick` (scan, then reconcile a list read before). Hard: the list is
stale when it is used, a stop may be answered while a start is awaiting. Correct
when a stop is reported only of a worker that cannot act any more.

**Codex worker and its control channel** (`core/missions-v2/codex-*.ts`,
`codex-worker/daemon.ts`, `control-daemon.ts`). State: a signed assignment, nonces
seen, heartbeat and deadline timers, the model as a child process. Operations: assignment,
claim, start, heartbeat, inspect, cancel, collect, validate, complete. Hard: timers race
with the collection of the result, answers are lost while the call goes on, daemons
restart. Correct when no model runs once its stop is on record, and every model ends.

**Superset adapter** (`core/missions-v2/superset/`, migration 010). No state of its own:
each method is one call of an executor outside of the repository.

**V1 actions** (`api/approvals.ts`, `api/autopilot.ts`, `api/server.ts`,
`core/approval-rules.ts`, `core/autopilot-rules.ts`). State: `agent_actions` (status,
approval window), `agent_approvals` (one row per action and payload hash).
Operations: create, ask for approval, decide through four doors (admin API,
dashboard, autopilot, operator API). Hard: the request for approval and the
dashboard's refusal read without a lock and write unconditionally; the four doors
check and record different things; the circuit breaker reads a count before it
approves. Correct when nothing has an effect without an approval by somebody else
than its proposer, and each approval is spent once.

**V1 missions** (`api/missions.ts`, `core/mission-rules.ts`, `api/proposals.ts`).
State: the status of a mission beside that of its action. Operations: create,
promote, dispatch, result. Correct when a mission is sent out only after an approval.

**Execution of actions** (`api/github.ts`, `api/drive.ts`, `api/outreach.ts`,
`infra/deploy/deploy.sh`). State: claims in the status of the action, drafts sent, the
suppression list, rollback lists, and what happened outside. Operations: open an issue,
move a batch of files and take it back, send a mail, deploy. Hard: external calls
between two writes, answers that are lost, two requests for one action, a quota over
mails in flight, a recipient who unsubscribes meanwhile. Correct when no race,
loss or restart doubles an effect.

**Operator service** (`core/operator/service.ts`). State: prepared actions, request
nonces. Operations: prepare, decide, claim a publisher action, report, stop an agent.
Hard: claims race, a report of a stop is computed from an older row.

**Slack router** (`slack-router/`). State: events seen, thread owners, inbox links,
dispatches, one Grok slot in memory, notifications sent. Operations: handle an
event, admit a V2 mission, dispatch, relay to the inbox, to Grok and to Codex, notify,
reconnect. Hard: Slack delivers twice and
out of order, posts happen outside transactions, replies to V2 commands and refusals are
posted again at every delivery (`docs/v2-a-mission-foundation.md:130` calls them best-effort).
Correct when each message is dispatched at most once, a dispatched one is answered at most
once, repeated replies never contradict each other, and a thread has one owner.

**Gateway inbox** (`api/gateway-inbox.ts`, `infra/scripts/gateway-inbox-consumer.py`).
State: inbox rows. Operations: claim (`SKIP LOCKED`), complete (several
transactions). Hard: a consumer that dies between the two. Correct when an item is
planned once and none is lost.

**Jarvis** (`core/missions-v2/jarvis/`). State: maps of leases, budgets, fences, cached
approvals and idempotency keys in memory; rows of quota, approvals and mutations.
Operations: start an agent, mutate a mission or a workspace, observe quotas. Hard: an
await between any two gates, caches of the database, restarts. Correct when an attempt
has one agent at most, a refusal holds nothing back, and a request creates one mission.

**Grok worker** (`grok-worker/server.ts`). One slot in memory, which refuses a second prompt;
what can go wrong is the slot that the router keeps of it (`slack-router/event-handler.ts:183`),
which must be neither leaked nor doubled.

**Not modelled**: canary tooling, workflow engine and lead
scoring (pure functions), other business endpoints (single-row CRUD, reads),
authentication (stateless), host bridges, Ansible and the other shell scripts.

How they interact: Slack router and Jarvis admit missions through `MissionStore`; the
gateway inbox plans them; operators, workers and supervisors call
`ExecutionControl` through `api/missions-v2.ts` and the control daemon; V1 approvals provide
the decisions that `bindApproval` attaches to an attempt and that every execution of
an action consumes; the Codex worker
performs what an attempt asks for, and worker or supervisor prove that it stopped.

## 2. Modules

| Module | Models |
|---|---|
| `MissionStore` | mission rows, dependency rows, the cycle trigger; `admit`, `transition`, `savePlan`, `cancel` |
| `ExecutionControl` | extends it with attempts, leases, reservations, approvals and evidence; all operations of execution control |
| `OneWriter` | what execution control promises, in four variables and three actions |
| `CodexWorker` | extends `ExecutionControl` with the processes that call it: the worker of an attempt and its model, the control daemon, the supervisor |
| `Actions` | V1 actions, decisions and missions, and the handlers that execute an approved action |
| `Consent` | what V1 actions promise: decisions, effects, moved items, missions and barred recipients, without any handler |
| `GatewayInbox` | the inbox rows, its two routes and its consumers, over an instance of `MissionStore` |
| `SlackRouter` | extends it with Slack's deliveries, the router and its relays, the Grok worker and the notifier |
| `Handoff` | what router, inbox and gateways promise about a message: one record, one place at a desk, one agent, one effect, one answer or any number of receipts, announcements in order |
| `AgentQuota` | what a quota row allows, and who writes it |
| `Jarvis` | extends it with the typed requests, their idempotency, the mutations and the gates of `agent.start` |
| `Errands` | what Jarvis promises: one mission per request and true answers, one entitled messenger per attempt |
| `MCMissionStore`, `MCExecutionControl`, `MCCodexWorker`, `MCActions`, `MCSlackRouter`, `MCJarvis` | finite instances |
| `MissionStoreProofs`, `ExecutionControlProofs`, `ExecutionStepProofs`, `CodexWorkerProofs`, `ActionsProofs`, `GatewayInboxProofs`, `SlackRouterProofs`, `JarvisProofs` | theorems and proofs |

### Correspondence with the code

#### Missions and execution control

A transaction takes `agent_missions` in `SHARE ROW EXCLUSIVE` mode first, so an
operation is one step. A refusal that rolls back is not a step. A refusal that
commits (`DurableRejection`, `block`, `expire` inside a callback) is one:
`QueueBlocked`, `RetryBlocked`, `ClaimBlocked`, `StartBlocked`, `LateCallback`. A row of
a table is the value of functions indexed by its key: `lifecycle`, `planVersion`,
`current`, `head` for a mission; `identity` (the columns the guard trigger freezes),
`status`, `retryable`, `stopProof`, `deadline`, `lease` for an attempt; `worktree` and
`budget` for the status of the lease and of the reservation it owns. `dependencies`,
`evidence` and `granted` are sets of rows.

- **Time.** `deadline_at` and `lease_expires_at` are counted down by `Tick`; zero is "at or
  before now". `Renewed` is `least(now + leaseSeconds, deadline_at)`. Nothing reads the
  time limits of an ended attempt, so they are zero.
- **Callbacks.** `verify` compares worker id and fencing token with the row of the attempt
  that the callback names. Every attempt has one worker and one token, so the id
  alone is modelled; a callback of an obsolete generation is one whose attempt is not
  `current`.
- **Approvals.** `granted` holds the bindings whose decision stands; `ApprovalLapses`
  takes one away at any time (expiry, or an action that left `approved`).
- **The supervisor** may call `reconcile` at any time for any attempt that
  `pendingReconciliation` would list, with either answer of the inspection.
- **Workspaces.** `Clash` is the union of the unique indexes on `worktree_leases`: repository
  and branch, canonical path, one Codex writer per repository.

Left out: replays of an idempotency key (they return the recorded result and change
nothing), event rows and `state_version` (they refuse a caller who read an older row,
who may read again), phases and error codes, a NULL quota (the configuration
always sets one), reads and metrics.

#### Actions

`Actions` has a grain of its own. A handler that holds the row locked from read to
write (`recordDecision`, the dashboard's approval, the operator's decision, dispatch) is
one step, and so is a single SQL statement (`IssueClaim`, `DeployClaim`). A handler that
awaits between its reads and writes is several, and `calls[p]` says where request `p`
stands:

| Handler | Steps |
|---|---|
| `POST /api/approvals/request` | `RequestRead`, `RequestWrite` |
| `PATCH /actions/:id/reject` | `RejectRead`, `RejectWrite` |
| `POST /missions`, then `tryAutopilot` | `CreateMission`, `AutopilotDecision` |
| `POST /api/github/execute` | `IssueRead`, `IssueClaim`, `IssueCall`, `IssueFinish` |
| `POST /api/drive/execute` | `DriveRead`, `DriveClaim`, `DriveMove` per file, `DriveFinish` |
| `POST /api/drive/rollback` | `RollbackRead`, `RollbackMove` per file, `RollbackFinish` |
| `POST /api/outreach/send` | `SendRead`, `SendClaim` (first transaction), `SendLock`, `SendCall`, `SendFinish` (second) |

- **Writes by id.** The update at the end of most handlers names the id alone, so its action
  has no guard on the status: that is what the properties are tested against.
- **Crash** ends any set of requests at any point: the process, or one request by an
  exception. Advisory locks are the `Locking` steps, so they go with it; rows, sent mails and
  moved files stay.
- **Lost answers.** `IssueCall` and `SendCall` may have their effect and not learn of it;
  a lost answer of a move counts as a failure although the file has moved (the `catch`).
- **The outside.** `effects` counts leads, issues, mails and started deployments of an action;
  `moved` is the set of its files in the target folder. No variable of the program holds them.
- **Time.** `clock` runs to `MaxClock`; an expiry is an instant, `Null` a NULL column, which
  `isExpired` takes as "never" and SQL's `>` as "no window".
- **The autopilot** engages or not, freely: the counts of its circuit breaker and its
  policy row are left out, what it may approve is not.

Left out of `Actions`: FullEnrich and publisher actions, the publisher evidence that
`deploy.sh` asks for, the change of day in the quota, drafts that share a recipient,
files that somebody else moves, a payload that is created with a rollback list in it.

#### The Codex worker

`CodexWorker` replaces the free choices of `ExecutionControl` (any worker may call at any time, an
inspection may answer anything) by the processes that make them. Per attempt, `daemon`
is the main line of `runCodexWorker`, `model` its child; a heartbeat (`beat`), the deadline
timer and the cancellation (`cancelling`, `failed`) interleave with it. A call is sent, carried
out by control and answered in steps of its own: `main`, `beat` and `stop` hold what control
has received. A worker that stops waiting (`RefuseMain`, `RefuseHeartbeat`) takes an error
while the call goes on in control; that is how an attempt may be expired while its model runs. `assignment` is what control can still know of an attempt: it reads the
signed file within thirty seconds only, so a restart (`ControlRestarts`) makes it refuse every
further call, and preparation that takes longer makes it refuse the claim. `Exit` is the end
of the process at any point, by itself or killed; `GroupKilled` is systemd with what is left.
The supervisor inspects (`Inspect`) and reconciles (`ReconcileVerdict`) in two steps, since the
rows and the unit move in between; the repository instantiates it in tests only.

Left out: what signatures and nonces refuse (each message is one its sender signed),
`codex_attempt_metadata` (no decision reads it), publication (an interface and a fake). The
answers of systemd, Git and the file system are external; for systemd, an empty control
group of an inactive unit is the only proof, everything else is unknown.

#### Slack router and gateway inbox

| Code | Steps |
|---|---|
| an event arrives, again if its acknowledgement is late | `Deliver` |
| `handleV2Command` | `ReadThread` (`allowsThread`), `AdmitMission` (one transaction, or the receipt of an earlier one, or a refusal), `AcceptMission` (`accepted()`), then `PostReceipt` or `PostRefusal` at every delivery |
| `dispatchSlackMessage` | `Prepare` (deduplication, owner and inbox item in one transaction; an escalation is rejected before it, and `PostRefusal` follows at every delivery), `Dispatch` (by the owner of the thread; the slot of Grok is tested and taken in one stretch; a slot that is taken, the kill switch and the rate limit are answers) |
| the relays | `RelayInbox`, `RelayCodex`, `GrokAccepts` and `GrokReturns`, then `PostAnswer`; `GrokEnds` is the worker, which may run on after the router gave up |
| the promise of the handler resolves | `Return` (the acknowledgement, unless `accepted()` gave it before) |
| `drainAsyncInboxNotifications` | `ReadNotices`, then `PostNotice` and `RecordNotice` for each |
| `POST /claim` of the inbox | `Claim` |
| `POST /:id/complete` | V1: `CompleteV1`. V2: `CompleteV2` (checks), `StartPlanning`, `SaveTypedPlan` or `BlockMission`, `CloseV2`, with `Abandon` in between |
| `gateway-inbox-consumer.py` | `Claim`, `RunHermes`, `Report`, `GiveUp`; it never repeats a call |

An item and its mission are named by the event they come from, because both columns are
unique. A handler that throws ends the router, and systemd starts it again: `Crash` forgets
the handlers, the slot and the drain and leaves rows, posted messages and the prompt in the
Grok worker. `grokRuns`, `proposals`, `answers`, `receipts`, `refusals`, `hermesRuns` and
`announced` count what happens outside; no variable of the program holds them. `parseRoute` and
the wording are abstracted to the route of a message: an agent, `mission` for a well-formed
`MISSION V2`, `refused` for a command that is refused whatever the rows are (a project that is
not allowed, an invalid admission), `devin` for a text that is rejected before the
deduplication. A prompt written to the socket of the Grok worker is read while its router
still waits for it, or not at all. A STATUS command only reads. CANCEL and RETRY are operations of the foundation and of
execution control; `core/slack-router/router.ts` is the same routing in memory, for tests.

#### Jarvis

One process; `pc[c]` says at which await call `c` stands, and a step is the stretch from one
await to the next, with what it has read before in `seen` and `late`. `Receive` looks into the
caches, `Decide` applies the policy, a mutation goes to the store (`DispatchToStore`) or to the
registry (`DispatchToRegistry`), and `agent.start` passes the gates of `evaluate` one by one, in
their order: `Hydrate`, `SetQuotas`, `CheckMission`, `LoadApproval`, `QueryApproval`,
`ReserveBudget`, `TakeLease`, `PassGate`, `ProviderStarts` or `ProviderFails`. Each refusal releases
what its branch releases. `setup` is a deployment: what is configured and the requests
that clients send to it. `Restart` forgets everything but the rows. The audit log never
fails (the Postgres one swallows its errors); it only separates two steps.

Percentages, dates and thresholds of a quota are abstracted to the sides of the thresholds
that the code compares them with (`AgentQuota`). Left out: the planner (a pure function of
the text), `bindWorkspace`, `setQuota` and `issueApproval` (only tests and the canary call
them), a plan handed over by Hermes (the configured service never has one). With the
production configuration the registry knows no missions and no provider may be invoked, so
starts end at an early gate; the setups that pass further gates are those of the tests and of
the canary.

## 3. What the runs check

Bounds are constants of the configurations: `MaxPlans` bounds `plan_version`, the set
`Attempts` bounds the number of generations, `LeaseTime` and `DeadlineTime` are the
number of ticks, `MaxCodexAttempts` is a parameter of the code, `MaxDeliveries` and `MaxFaults`
bound what Slack and failures do, `Records` and `MaxRestarts` what Jarvis creates and survives.

| Run | Instance | Question |
|---|---|---|
| `store` | 3 missions, 2 plans each, up to 2 prerequisites | `NoMutualWait`: of any group of missions one waits for none of the others, so no cycle runs over the dependencies of all plans, although the trigger checks one row at a time. `WaitsForEveryPlan`: a mission without an attempt is ready only if no plan of its history named a prerequisite. Three missions are the least for a cycle that no single edge closes. |
| `single` | 1 mission, 2 generations, both kinds of worker, with and without budget, workspace and approval, deadline longer than lease, fairness | `LifecycleAgrees` relates mission and attempt over all interleavings of operator, worker, scanner, supervisor and clock; `OneGeneration`; `EndIsFinal` and `NoRevival` say what a late callback, scan or reconciliation may never do; `EveryGenerationEnds`, `CancellationConverges`, `StaleIsReconciled`. Two generations are the least for an obsolete one. |
| `generations` | 1 mission, 3 generations, one workspace, one unit of quota | `IInv`, the inductive invariant of the proofs; `HeldUntilStopped`, `TerminalAtRest`; `SuccessorWaits` along a chain of retries. With one workspace and one unit, a resource that leaks stops the third generation. |
| `sharing` | 2 missions, one workspace, amounts 0 and 1 of a quota of 1; one mission may need the human merge of the other | `WithinQuota`; `PrerequisitesStand`: what was verified when an attempt was created stands for as long as its mission keeps it; `ImplementsOneWriter`, the refinement of `OneWriter`. |
| `worker` | 1 mission, 1 Codex attempt, fairness | `StopProofIsTrue`: a stop on record has happened, whoever reported it and in whatever order heartbeats, deadline, cancellation, end of the model, losses of calls and restarts come. `RunningModelIsWatched`: as long as a model runs, its timers are armed or systemd will end it, and a failed call has ordered its stop. `EveryModelEnds`. |
| `actions` | 1 action of any of the 6 intents, 2 requests in flight, 2 files, a window of 1 tick, a clock to 3 | `EffectNeedsApproval`, `EffectAtMostOnce`, `RefusalStands` over all interleavings of the handlers with each other, with lost answers and with crashes; `DeployOnFreshDecision`, `SuppressedStaysUnsent`; `ImplementsConsent`, the refinement of `Consent`; `IInv`, the inductive invariant of the proofs, which contains the types and `DispatchNeedsApproval`. |
| `intake` | 2 messages in one thread or two, on every route, refused commands and escalations included, 2 deliveries each, 2 faults, a planner and a gateway, fairness | `OneExecution`, `OneAgentPerThread`, `AcceptedIsDurable`: what Slack delivers twice or forgets, and a router that dies. `ClosedItemLeavesQueue`: the four transactions of a completion with operators in between. `GrokSlotIsHeld`: the slot of Grok is taken exactly while one handler waits for the worker. `EndIsAnnounced`. `ImplementsHandoff`, the refinement of `Handoff`, whose `Announce` is `NoticeOrder`. |
| `jarvis` | 6 deployments with 1 to 5 requests, 2 calls at a time, 1 attempt, 1 approval, 1 restart | `LeaseGuardsAgent`: one agent per attempt, and no lease or budget left behind by any refusal. `OneMissionPerRequest`: repeated, concurrent and changed requests. `ImplementsErrands`, the refinement of `Errands`. |
| `evidence` | 2 missions, 2 plans | a violation, see below. |
| `quota` | 2 mails, a limit of 1, 2 requests in flight | a violation, see below. |
| `drive` | 1 batch of 2 files, 2 requests in flight | a violation, see below. |
| `planner` | 2 messages, a planner and a gateway | a violation, see below. |

Actions do not touch each other but through the quota, so one of them, of every intent in
turn, meets everything a handler can do to it; two requests are the least for a race, and a
crash lets further ones follow. A window of one tick lets a request arm it a second time
after a decision. The proofs remove these bounds. A pair of messages has every race of the router, since a handler
touches the rows of its own event, its thread and the one slot of Grok. Two calls are all
that can be between two gates of one attempt's start. One attempt is enough for `StopProofIsTrue`,
which is about each attempt by itself; that two of them keep apart is a theorem (`ModelsApart`).

Deadlock is not checked: a system whose missions have all ended stops.

### Fairness

`FairSpec` assumes weak fairness of three things. The database clock runs (`Tick`). The
scanner is called again and again: the supervisors call `scanExpired` on every tick,
every `scanSeconds`. The supervisor reconciles what is pending on every tick, and
in the end its inspection answers that the worker stopped; that last part is an
assumption on the host, since an inspection that never succeeds quarantines the
attempt for ever by design (`ReconcileUnknown` is not a fair action). Nothing is assumed
of operators and workers: they may renew leases, retry and cancel for ever, or never act.

`FairWorkerSpec` assumes that the clock runs, the deadline timer of a living worker fires, the
escalation to SIGKILL is carried out and a killed child exits, and systemd kills what a
dead worker leaves behind. Nothing is assumed of control: the model must end even when every
call is refused.

`SlackRouter`'s `FairSpec` assumes that each consumer goes on polling and serving, and that the
notifier ticks (every two seconds) and posts in the end, after at most `MaxFaults` failures.
Slack need not deliver, and operators need not act.

### Findings

**Merge evidence** (run `evidence`, `EveryMergeProvable`). `recordMergeEvidence` inserts
one evidence row for every plan of the mission that requires the merge, and a unique
constraint refuses the statement as a whole when one of them exists. A mission that is
planned again with the same human merge after its evidence was recorded has a row that
can never get its evidence, while `dependencyReason` asks for it: the mission stays
blocked until it is cancelled.

**Daily quota** (run `quota`, `WithinDailyLimit`). The count of `POST /api/outreach/send`
relies on the status `executing` of a mail in flight. A request for approval that read the
action before it was approved writes `approval_requested` over it; the mail is not
counted until it is marked sent, and another one passes the limit.

**Drive rollback** (run `drive`, `RollbackCoversMoves`). The header of `drive.ts` promises an
exact rollback because the original parents are recorded before the move. The list the
rollback reads is written after the last move: a crash, a lost answer or a second
execution leaves moved files outside of it.

**Planner and V1 messages** (run `planner`, `PlannerTakesV2Only`). The claim route lets the planner's
identity take any pending item of its target, and the completion refuses it a V1 item: the
message stays `processing` for ever. See the finding in `PROJECT.json` for the line that says
otherwise.

Not runs, but worth a look by the maintainers: a refusal by the dashboard inserts no row in
`agent_approvals`, so a request for approval in flight reopens the action (a recorded
refusal does stand, `RefusalStands`); approvals by the dashboard carry no expiry, so they can
be spent at any later time, but not on a mail or a deployment; `canRecordResult` is
commented as asking for a mission in progress and accepts a pending one. Leases, budgets and fences of Jarvis live
in memory although migration 014 creates tables for "durable gates": after a restart nothing
keeps a second start of the same attempt from reaching the provider, so `LeaseGuardsAgent` is
about the life of one process. An approval may serve twice when the first agent fails to start,
because a slow load of the row writes over its consumption in the cache. Two requests with
one identifier in flight may leave the refusal of the second (a lease conflict) in the
idempotency cache in place of the first one's success. An inbox item whose consumer dies
stays `processing`. A control daemon restarted while an attempt runs refuses its
completion, and the attempt ends by expiry.

## 4. What is proved

Each of the four abstract specifications (`OneWriter`, `Consent`, `Handoff`, `Errands`) is a
promise without the machinery that keeps it: no claims, windows, caches or requests in
flight. Each refinement is checked by a run and proved for every value of the constants.

The theorems about missions hold for every value of the constants that satisfies `StoreAssumption`
and `ExecutionAssumption` (null values are outside the sets they extend, time limits are
positive, plans and options range over the types the request schemas accept). The sets of
missions, attempts and workspaces may be infinite and plans are as many as one likes.

`MissionStoreProofs`: `StoreTypeCorrect`, `StoreAcyclic`, `StoreGoesOn`, `StoreWaitsForEveryPlan`.
Acyclicity is inductive because the least closed set of a target grows only by what the
inserting mission reaches, and the trigger refused exactly the targets that reach it. From
acyclicity, `StoreGoesOn` is that no group of missions waits for itself: of a finite group,
the member whose ancestors take in the fewest of the group waits for none of it (an infinite
group may wait along an endless chain, so `NoMutualWait` speaks of finite ones).

`ExecutionControlProofs`: `Invariance` is `Spec => []IInv`, and
`TypeCorrect`, `AtMostOneGeneration`, `ReleasedWhenStopped`,
`MissionAgreesWithAttempt` and `FinishedAtRest` follow from it. None of these is inductive by
itself. That a retry leaves one generation needs to know that the attempt it replaces is the
only one that may act (`OneGeneration`), that the stop of a live attempt is not proved
(`StopRecorded`), that the mission's row names its newest attempt (`Ownership`). That a
finished mission is at rest needs `LifecycleAgrees` (a mission with a live attempt is not
finished) and `HeldUntilStopped`. `IInv` is their conjunction. There is one lemma per
operation, with one step per conjunct; `NextNumber` is the fact about `Max` that the numbering
rests on: the mission's row names the attempt with the greatest number.

`ExecutionStepProofs`: a step is one of nine kinds (`StepCases`), and each theorem goes
through them. `NothingRevives`, `EndsAreFinal` and `SuccessorsWait` are the action properties
of the runs. `PlansStayAcyclic`, `MissionsGoOn` and `PlansAreWaitedFor` carry the properties of the
mission rows over to the whole of execution control: none of its operations plans a mission
but by `savePlan`, and an attempt stands in the way of planning. `PrerequisitesLast` uses `EndsAreFinal` for the targets of the dependencies
and `PlanStep` (a mission with an attempt is not planned) for the dependencies themselves.
`Refinement` is `Spec => ImplementsOneWriter`: creating an attempt begins a generation
(the unique indexes keep its branch apart from those of the others), a completion or a
proved stop ends it, a review, an immediate cancellation or the reconciliation of an
ended attempt closes a mission, all else stutters. An expired attempt still
acts until its stop is proved, which is why its workspace stays held.
`ReservationsFit` is `Spec => []WithinQuota`. The sum folds a set in an order that nobody fixes, and
induction over sets is out of the prover's reach; so `SumIsUnits` shows, by a smallest
counterexample among the subsets of a finite set, that the sum is the number of pairs
`<<attempt, unit>>`. Then one more reservation adds a disjoint set of units, and a release
leaves a subset. The invariant adds that finitely many reservations count (`QuotaKept`).

`ActionsProofs` is about any number of actions, requests and files, and any window, under
`ActionsAssumption`. `ActionsInvariance` is `Spec => []IInv`; `ActionsTypeCorrect`,
`EffectsAreApproved`, `OneEffectPerApproval`, `DispatchesAreApproved` and `RefusalsStand` follow,
and from the same invariant the action properties `DeploymentsAreFresh` and
`SuppressionHolds`. That an approval is spent once rests on three facts together: there is at
most one decision on an action (`OneDecision`, the unique constraint), so whatever puts an
action back to `approval_requested` after its decision leaves it there without a way to
`approved`; an approved action has had no effect and no request is spending it
(`ApprovedIsUnspent`); one request at a time is between a claim and its effect
(`ClaimIsExclusive`). The unlocked writers are harmless to all three because they never write
`approved`. The proof sorts the handlers by what they do to requests and status: most
only take an action away from `approved` and start no trusted step (`Quiet`), and
the few that decide, claim or cause an effect are treated one by one.
`DeploymentsAreFresh` needs `OnlyHumansDeploy`: of the four doors, those that record an expiry for a
deployment are the ones behind which a human stands. `ConsentKept` is `Spec => ImplementsConsent`:
each handler's steps map to at most one step of `Consent`, for which `IInv` supplies what the
handler does not look at when it acts: that the claim it made long ago still stands on an
approval, and that the effect it is about to have is the first.

`CodexWorkerProofs` is about any number of attempts, under the same assumptions. `WorkersObeyControl` is
`WorkerSpec => Spec`: workers, control daemon and supervisor together only do to the rows
what execution control allows, so its theorems hold of them. `WorkerInvariance` is
`WorkerSpec => []WInv`, from which `WorkerTypeCorrect`, `ProvedStopsAreTrue` and `ModelsAreWatched`
follow. That a stop
on record is true is not inductive: the proof must know who may still report one. `WInv`
says that a call to complete, a report "stopped" and a verdict "stopped" exist only once the
model has exited or can never start (`WorkerAgrees`, which also says that a daemon with a running model
is in its main loop or dead, and that a failed call has begun the cancellation), and for the verdict from the rows alone,
that an attempt without consumption has not been claimed and, being stale, will not be
(`BudgetAgrees`, and the lemmas `ClaimsKept` and `SettledKept` about every step of
`ExecutionControl`). `ModelsApart` composes the two levels: two running models belong to
different missions and to different branches, because a running model's attempt is not
proved stopped, hence current and in possession of its lease (`LeaseInvariance`).

`SlackRouterProofs`, with the lemmas of `GatewayInboxProofs`, is about any set of messages, threads,
consumers, deliveries and faults, under `InboxAssumption` and `RouterAssumption`; the latter
says that one message opens a thread (its time stamp names it). `RouterInvariance` is
`Spec => [](IInv /\ RepliesAgree)`; `RouterTypeCorrect`, `ClosedItemsArePlanned`, `OneExecutionPerEvent`,
`OneAgentDoesAll`, `AcceptedEventsDurable` and the action property `NoticesInOrder`
follow. `OneExecution` counts effects, so its invariant says, per event, which delivery works on it
(`Works`: at most one, because the row of the deduplication is inserted by one) and how far the
effects can be at each of its steps (`StepAgrees`); what a consumer does is bounded by the
state of the item (`ItemAgrees`). Over this layer, `RepliesAgree` says what each delivery knows of
the mission of its event: a handler that works on a message has no mission, one that posts a
receipt has one, and the command that opens a thread is never on its way to a refusal; without
it a repeated delivery could post a receipt beside the answer of another. `GrokSlotKept` needs only the
types: the handlers that wait for the worker (`GrokCalls`) are none or one, and the flag says
which. Acknowledged events are durable because a handler past the
transaction is one whose event is in the table (`Leaving`). `ClosedItemLeavesQueue` needs, for
each stage of a completion, what state the mission can be in (`InboxAgrees`).
`HandoffKept` is `Spec => ImplementsHandoff`. A step of the inbox takes up, runs, closes or moves one
item and leaves the others (`OneItemGoesOn`); that Hermes works only on an item that is still
open needs that a consumer with an item holds it in `processing` with no completion under way
(`ItemAgrees`).

`JarvisProofs` is about any number of calls, requests, attempts, approvals and restarts, under
`JarvisAssumption`. `JarvisInvariance` is `Spec => []IInv`; `JarvisTypeCorrect`,
`OneAgentPerAttempt` and `MissionsOncePerRequest` follow. `LeaseGuardsAgent` is inductive once every
await is known to keep what its call holds (`CallsAgree`): the test and the taking of the lease
are in one stretch, which is the reason why the stale reads at the other gates cannot put two
calls at the provider. `OneMissionPerRequest` needs that an answer, wherever it is cached or on
its way, names the mission of its own request (`AnswersName`).
`ErrandsKept` is `Spec => ImplementsErrands`. Two facts carry it. A start that passed a gate is still
entitled to it awaits later (`StartsAgree`): its deployment and request do not change, and the
missions that are known stay known while the process lives. What a refused call gives back
is its own lease (`ActiveReleased`), because `LeaseGuardsAgent` makes the attempt's entry its own. A
known mission may have been cancelled since `CheckMission` looked at it, and its agent still
starts: no gate looks again, and `Errands` does not promise otherwise.

Only model-checked: the liveness properties (`EveryGenerationEnds`, `CancellationConverges`,
`StaleIsReconciled`, `EveryModelEnds`, `EndIsAnnounced`), since fairness is out of the prover's reach,
and the findings. Some proved properties are not checked by a run of their own, because a
stronger one contains them: `Acyclic` (`NoMutualWait`), `NoticeOrder` (`ImplementsHandoff`), the types and
`DispatchNeedsApproval` of `Actions` and the types of `ExecutionControl` (`IInv`).

## 5. Not modelled

- **Superset adapter.** A client without state over an executor outside of the repository;
  nothing in it decides, and nothing starts a session for an attempt through it.
- **Operator service, the rest.** Reads; nonces, which only refuse a repeated call; claims of publisher actions,
  whose effects are outside. Its decisions are in `Actions`, its stop of an agent is `Cancel`.
- **Autopilot counts.** The circuit breaker is a free choice in `Actions`: the properties hold
  whatever it answers. How many approvals may exceed its limit is not examined.
- **Fake worker and supervisor** (`supervisor.ts`). Test doubles; `ExecutionControl` contains
  every call they make.
- **Codex publisher and metadata, canary tooling.** An interface with a fake; columns no decision reads;
  scripts run by hand.
- **Authentication, business endpoints, workflow engine, lead scoring.** Stateless checks,
  single-row reads and writes, pure functions.
- **Host.** Ansible, shell scripts, bridges, containers, backups; of `deploy.sh` only what it does
  to the approval of its action.
- **Time outs as durations.** A time-out may fire at any point of a call; that one is longer than
  another (ten seconds of a worker, thirty of an assignment) orders nothing in the models.
