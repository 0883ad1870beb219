------------------------------ MODULE Actions ------------------------------
(***************************************************************************)
(* V1 actions: the rows of agent_actions, the decisions of agent_approvals *)
(* on them, the V1 missions that follow them, and the handlers that give   *)
(* an approved action its effect (src/src/api, src/src/core/operator,      *)
(* src/infra/deploy/deploy.sh).                                            *)
(*                                                                         *)
(* A handler that keeps the row locked from its read to its write is one   *)
(* step.  One that reads the row, lets go of it and writes later takes     *)
(* several: calls[p] is where the request that p serves stands, and what   *)
(* it remembers.  Requests of one process interleave at every await; Crash *)
(* is the end of that process, which forgets them all and frees the        *)
(* advisory locks they held.                                               *)
(*                                                                         *)
(* The payload_hash of an action never changes, so it stands for the       *)
(* action: a decision that carries another hash is refused and changes     *)
(* nothing, like every refusal that only answers an error.  Audit events,  *)
(* Slack messages and error texts are left out.  Each mail has a recipient *)
(* of its own, each Drive batch its own files, and a file is either in its *)
(* original folder or in the target of its batch.                          *)
(***************************************************************************)
EXTENDS Integers, FiniteSets

CONSTANTS
  Action,      \* ids of agent_actions
  NoAction,    \* the action of an idle call
  Caller,      \* HTTP requests in flight at the same time
  File,        \* files of a Drive batch
  InUse,       \* intents of the actions of an instance, among Intents
  Approver,    \* names that requests give for the person who approves
  ProfileOf,   \* profile of each action
  Window,      \* approval window, in ticks
  DailyLimit,  \* dailySendLimit of the day
  MaxClock     \* bound of the clock

Intents == {"create_agent_mission", "create_lead", "github_create_issue",
            "drive_move_files", "outreach_send", "deploy_release"}

ASSUME ActionsAssumption ==
  /\ InUse \subseteq Intents
  /\ NoAction \notin Action
  /\ Window \in Nat \ {0}
  /\ DailyLimit \in Nat
  /\ MaxClock \in Nat

HumanAdmin == "human-admin"      \* HUMAN_APPROVER_IDENTITY
PolicyName == "policy:create_agent_mission"

Approvable == {"proposed", "approval_requested"}

Statuses == Approvable \cup
  {"none", "approved", "rejected", "executing", "executed", "failed", "rolled_back"}

MissionStatuses == {"none", "pending", "in_progress", "completed", "failed", "rejected"}

Results == {"completed", "failed", "rejected"}

VARIABLES
  actions,     \* intent, status and approval_expires_at of each action
  approvals,   \* rows of agent_approvals
  missions,    \* status of the V1 mission of each action
  calls,       \* the requests in flight
  effects,     \* leads, issues, mails or deployments each action has caused
  moved,       \* files of each Drive batch that are in its target folder
  rollback,    \* payload.rollback of each Drive batch
  sent,        \* mails whose draft has status 'sent'
  suppressed,  \* mails whose recipient is in suppression_list
  clock

vars == <<actions, approvals, missions, calls, effects, moved, rollback, sent,
          suppressed, clock>>

Null == 0    \* a NULL approval_expires_at: every other one is after the start

Expiries == 0 .. (MaxClock + Window)

Locking == {"send_locked", "send_accepted", "send_rejected", "send_unknown"}

Steps == Locking \cup
  {"idle", "policy", "request", "reject", "issue_read", "issue", "issue_opened",
   "issue_refused", "drive_read", "drive", "rollback", "send_read", "send_claimed"}

ActionRow == [intent : Intents, status : Statuses, expiry : Expiries]

ApprovalRow == [action : Action, approver : Approver \cup {HumanAdmin, PolicyName},
                decision : {"approved", "rejected"}, expiry : Expiries]

Call == [step : Steps, action : Action \cup {NoAction},
         left : SUBSET File, done : SUBSET File]

TypeOK ==
  /\ actions \in [Action -> ActionRow]
  /\ approvals \subseteq ApprovalRow
  /\ missions \in [Action -> MissionStatuses]
  /\ calls \in [Caller -> Call]
  /\ effects \in [Action -> Nat]
  /\ moved \in [Action -> SUBSET File]
  /\ rollback \in [Action -> SUBSET File]
  /\ sent \subseteq Action
  /\ suppressed \subseteq Action
  /\ clock \in 0 .. MaxClock

Idle == [step |-> "idle", action |-> NoAction, left |-> {}, done |-> {}]

Init ==
  /\ actions \in [Action -> [intent : InUse, status : {"none"}, expiry : {Null}]]
  /\ approvals = {}
  /\ missions = [a \in Action |-> "none"]
  /\ calls = [p \in Caller |-> Idle]
  /\ effects = [a \in Action |-> 0]
  /\ moved = [a \in Action |-> {}]
  /\ rollback = [a \in Action |-> {}]
  /\ sent = {}
  /\ suppressed = {}
  /\ clock = 0

-----------------------------------------------------------------------------
Intent(a) == actions[a].intent
Status(a) == actions[a].status
Expiry(a) == actions[a].expiry

SetStatus(a, s) == actions' = [actions EXCEPT ![a].status = s]

Expired(e)  == e # Null /\ e <= clock     \* isExpired: NULL never expires
InWindow(e) == e # Null /\ e > clock      \* SQL: NULL is no window at all

Decided(a)    == \E d \in approvals : d.action = a
ApprovedBy(a) == {d \in approvals : d.action = a /\ d.decision = "approved"}

At(p, step)            == calls[p].step = step
Begin(p, step, a, fs)  ==
  /\ At(p, "idle")
  /\ calls' = [calls EXCEPT ![p] = [step |-> step, action |-> a, left |-> fs, done |-> {}]]
Continue(p, step)      == calls' = [calls EXCEPT ![p].step = step]
Return(p)              == calls' = [calls EXCEPT ![p] = Idle]

-----------------------------------------------------------------------------
(* Actions are proposed.                                                   *)

Insert(a, status, expiry) ==
  /\ Status(a) = "none"
  /\ actions' = [actions EXCEPT ![a].status = status, ![a].expiry = expiry]

\* POST /actions and POST /api/actions, whatever the intent; a mail without the
\* draft that /api/growth/draft inserts with its action is never sent.
CreateAction(a) ==
  /\ Intent(a) # "outreach_send"
  /\ Insert(a, "proposed", clock + Window)
  /\ UNCHANGED <<approvals, missions, calls, effects, moved, rollback, sent, suppressed, clock>>

\* POST /leads, /api/github/spec, /api/drive/propose and /api/growth/draft.
Propose(a) ==
  /\ Intent(a) \in {"create_lead", "github_create_issue", "drive_move_files", "outreach_send"}
  /\ Insert(a, "proposed", Null)
  /\ UNCHANGED <<approvals, missions, calls, effects, moved, rollback, sent, suppressed, clock>>

\* POST /missions: the action and its mission, then tryAutopilot, which goes on
\* to a decision when the policy read after the commit engages.
CreateMission(p, a) ==
  /\ Intent(a) = "create_agent_mission"
  /\ Insert(a, "proposed", Null)
  /\ missions' = [missions EXCEPT ![a] = "pending"]
  /\ \/ Begin(p, "policy", a, {})
     \/ UNCHANGED calls
  /\ UNCHANGED <<approvals, effects, moved, rollback, sent, suppressed, clock>>

\* POST /api/proposals/:id/promote: never the autopilot.
PromoteProposal(a) ==
  /\ Intent(a) = "create_agent_mission"
  /\ Insert(a, "proposed", clock + Window)
  /\ missions' = [missions EXCEPT ![a] = "pending"]
  /\ UNCHANGED <<approvals, calls, effects, moved, rollback, sent, suppressed, clock>>

\* OperatorService.prepareAction.
Prepare(a) ==
  /\ Intent(a) = "deploy_release"
  /\ Insert(a, "approval_requested", clock + Window)
  /\ UNCHANGED <<approvals, missions, calls, effects, moved, rollback, sent, suppressed, clock>>

-----------------------------------------------------------------------------
(* Decisions.  UNIQUE(action_id, payload_hash) rolls a second one back.    *)

\* Mutant: no UNIQUE(action_id, payload_hash).
DecideAgain(a, decision, approver, expiry) ==
  approvals' = approvals \cup
    {[action |-> a, approver |-> approver, decision |-> decision, expiry |-> expiry]}

Decide(a, decision, approver, expiry) ==
  /\ ~Decided(a)
  /\ approvals' = approvals \cup
       {[action |-> a, approver |-> approver, decision |-> decision, expiry |-> expiry]}

\* recordDecision: a late one rejects the action, and that is committed.
RecordDecision(a, decision, approver) ==
  /\ Status(a) \in Approvable
  /\ \/ /\ Expired(Expiry(a))
        /\ SetStatus(a, "rejected")
        /\ UNCHANGED approvals
     \/ /\ ~Expired(Expiry(a))
        /\ decision = "approved" => approver # ProfileOf[a]
        /\ Decide(a, decision, approver, Expiry(a))
        /\ SetStatus(a, decision)

\* POST /api/approvals, with the admin scope.
HumanDecision(a, decision) ==
  /\ RecordDecision(a, decision, HumanAdmin)
  /\ UNCHANGED <<missions, calls, effects, moved, rollback, sent, suppressed, clock>>

\* tryAutopilot after its policy has engaged; a refused decision is only logged.
AutopilotDecision(p) ==
  /\ At(p, "policy")
  /\ \/ RecordDecision(calls[p].action, "approved", PolicyName)
     \/ UNCHANGED <<actions, approvals>>
  /\ Return(p)
  /\ UNCHANGED <<missions, effects, moved, rollback, sent, suppressed, clock>>

\* POST /api/approvals/request reads the status ...
RequestRead(p, a) ==
  /\ Status(a) \in Approvable
  /\ Begin(p, "request", a, {})
  /\ UNCHANGED <<actions, approvals, missions, effects, moved, rollback, sent, suppressed, clock>>

\* ... and arms the window whatever the status has become.
RequestWrite(p) ==
  /\ At(p, "request")
  /\ actions' = [actions EXCEPT ![calls[p].action].status = "approval_requested",
                                ![calls[p].action].expiry = clock + Window]
  /\ Return(p)
  /\ UNCHANGED <<approvals, missions, effects, moved, rollback, sent, suppressed, clock>>

\* PATCH /actions/:id/reject: updateActionStatus reads without a lock ...
RejectRead(p, a) ==
  /\ Status(a) \in Approvable
  /\ Begin(p, "reject", a, {})
  /\ UNCHANGED <<actions, approvals, missions, effects, moved, rollback, sent, suppressed, clock>>

\* ... and writes by id.  No row of agent_approvals records this refusal.
RejectWrite(p) ==
  /\ At(p, "reject")
  /\ SetStatus(calls[p].action, "rejected")
  /\ Return(p)
  /\ UNCHANGED <<approvals, missions, effects, moved, rollback, sent, suppressed, clock>>

\* Mutant: the one who proposed may approve.
DashboardApproveOwn(a, approver) ==
  /\ ~Expired(Expiry(a))
  /\ Status(a) \in Approvable
  /\ Decide(a, "approved", approver, Null)
  /\ IF Intent(a) = "create_lead"
     THEN SetStatus(a, "executed") /\ effects' = [effects EXCEPT ![a] = @ + 1]
     ELSE SetStatus(a, "approved") /\ UNCHANGED effects
  /\ UNCHANGED <<missions, calls, moved, rollback, sent, suppressed, clock>>

\* PATCH /actions/:id/approve: the decision carries no expiry, and a lead is
\* inserted in the same transaction.
DashboardApprove(a, approver) ==
  /\ ~Expired(Expiry(a))
  /\ approver # ProfileOf[a]
  /\ Status(a) \in Approvable
  /\ Decide(a, "approved", approver, Null)
  /\ IF Intent(a) = "create_lead"
     THEN /\ SetStatus(a, "executed")
          /\ effects' = [effects EXCEPT ![a] = @ + 1]
     ELSE /\ SetStatus(a, "approved")
          /\ UNCHANGED effects
  /\ UNCHANGED <<missions, calls, moved, rollback, sent, suppressed, clock>>

\* OperatorService.approvalDecision: only the admin API approves, and a window
\* must be open.
OperatorDecision(a, decision, approver) ==
  /\ decision = "approved" => approver = HumanAdmin
  /\ approver # ProfileOf[a]
  /\ Status(a) \in Approvable
  /\ InWindow(Expiry(a))
  /\ Decide(a, decision, approver, Expiry(a))
  /\ SetStatus(a, decision)
  /\ UNCHANGED <<missions, calls, effects, moved, rollback, sent, suppressed, clock>>

-----------------------------------------------------------------------------
(* V1 missions.                                                            *)

CanDispatch(a) == missions[a] = "pending" /\ Status(a) = "approved"

\* POST /missions/:id/dispatch, both rows locked.
Dispatch(a) ==
  /\ CanDispatch(a)
  /\ missions' = [missions EXCEPT ![a] = "in_progress"]
  /\ UNCHANGED <<actions, approvals, calls, effects, moved, rollback, sent, suppressed, clock>>

ActionStatusForResult(result) ==
  [completed |-> "executed", failed |-> "failed", rejected |-> "rejected"][result]

\* PATCH /missions/:id/result: the mission is locked, its action is not.
Result(a, result) ==
  /\ missions[a] \in {"pending", "in_progress"}
  /\ missions' = [missions EXCEPT ![a] = result]
  /\ SetStatus(a, ActionStatusForResult(result))
  /\ UNCHANGED <<approvals, calls, effects, moved, rollback, sent, suppressed, clock>>

-----------------------------------------------------------------------------
(* POST /api/github/execute.                                               *)

IssueRead(p, a) ==
  /\ Intent(a) = "github_create_issue"
  /\ Status(a) = "approved"
  /\ Begin(p, "issue_read", a, {})
  /\ UNCHANGED <<actions, approvals, missions, effects, moved, rollback, sent, suppressed, clock>>

\* Mutant: UPDATE ... WHERE id, without the status.
IssueClaimAlways(p) ==
  /\ At(p, "issue_read")
  /\ SetStatus(calls[p].action, "executing")
  /\ Continue(p, "issue")
  /\ UNCHANGED <<approvals, missions, effects, moved, rollback, sent, suppressed, clock>>

\* UPDATE ... WHERE status = 'approved'; one request wins.
IssueClaim(p) ==
  /\ At(p, "issue_read")
  /\ IF Status(calls[p].action) = "approved"
     THEN SetStatus(calls[p].action, "executing") /\ Continue(p, "issue")
     ELSE UNCHANGED actions /\ Return(p)
  /\ UNCHANGED <<approvals, missions, effects, moved, rollback, sent, suppressed, clock>>

\* GitHub opens the issue or refuses; when its answer is lost the handler
\* throws, and the action stays 'executing' with or without an issue.
IssueCall(p) ==
  /\ At(p, "issue")
  /\ \E opened \in BOOLEAN :
       /\ effects' = [effects EXCEPT ![calls[p].action] = @ + (IF opened THEN 1 ELSE 0)]
       /\ \/ Continue(p, IF opened THEN "issue_opened" ELSE "issue_refused")
          \/ Return(p)
  /\ UNCHANGED <<actions, approvals, missions, moved, rollback, sent, suppressed, clock>>

IssueFinish(p) ==
  /\ calls[p].step \in {"issue_opened", "issue_refused"}
  /\ SetStatus(calls[p].action, IF At(p, "issue_opened") THEN "executed" ELSE "failed")
  /\ Return(p)
  /\ UNCHANGED <<approvals, missions, effects, moved, rollback, sent, suppressed, clock>>

-----------------------------------------------------------------------------
(* POST /api/drive/execute and /api/drive/rollback.                        *)

\* Mutant: a batch that is still to be approved is executed too.
DriveReadUnchecked(p, a) ==
  /\ Intent(a) = "drive_move_files"
  /\ Status(a) \in Approvable \cup {"approved"}
  /\ Begin(p, "drive_read", a, File)
  /\ UNCHANGED <<actions, approvals, missions, effects, moved, rollback, sent, suppressed, clock>>

DriveRead(p, a) ==
  /\ Intent(a) = "drive_move_files"
  /\ Status(a) = "approved"
  /\ Begin(p, "drive_read", a, File)
  /\ UNCHANGED <<actions, approvals, missions, effects, moved, rollback, sent, suppressed, clock>>

\* The claim does not look at the status again.
DriveClaim(p) ==
  /\ At(p, "drive_read")
  /\ SetStatus(calls[p].action, "executing")
  /\ Continue(p, "drive")
  /\ UNCHANGED <<approvals, missions, effects, moved, rollback, sent, suppressed, clock>>

\* driveMove of the next file: it succeeds, fails, or its answer is lost and
\* the failure is counted though the file has moved.
MoveNext(p, away) ==
  \E f \in calls[p].left, reached \in BOOLEAN, ok \in BOOLEAN :
    /\ ok => reached
    /\ \/ ~reached /\ UNCHANGED moved
       \/ /\ reached
          /\ moved' = [moved EXCEPT ![calls[p].action] = IF away THEN @ \cup {f} ELSE @ \ {f}]
    /\ calls' = [calls EXCEPT ![p].left = @ \ {f},
                              ![p].done = IF ok THEN @ \cup {f} ELSE @]
    /\ UNCHANGED <<actions, approvals, missions, effects, rollback, sent, suppressed, clock>>

DriveMove(p) ==
  /\ At(p, "drive")
  /\ MoveNext(p, TRUE)

\* payload || {rollback: moved} replaces the list of an earlier run.
DriveFinish(p) ==
  /\ At(p, "drive") /\ calls[p].left = {}
  /\ SetStatus(calls[p].action, IF calls[p].done = File THEN "executed" ELSE "failed")
  /\ rollback' = [rollback EXCEPT ![calls[p].action] = calls[p].done]
  /\ Return(p)
  /\ UNCHANGED <<approvals, missions, effects, moved, sent, suppressed, clock>>

\* The rollback handler asks for a list, whatever the status.
RollbackRead(p, a) ==
  /\ rollback[a] # {}
  /\ Begin(p, "rollback", a, rollback[a])
  /\ UNCHANGED <<actions, approvals, missions, effects, moved, rollback, sent, suppressed, clock>>

RollbackMove(p) ==
  /\ At(p, "rollback")
  /\ MoveNext(p, FALSE)

RollbackFinish(p) ==
  /\ At(p, "rollback") /\ calls[p].left = {}
  /\ SetStatus(calls[p].action, "rolled_back")
  /\ Return(p)
  /\ UNCHANGED <<approvals, missions, effects, moved, rollback, sent, suppressed, clock>>

-----------------------------------------------------------------------------
(* POST /api/outreach/send, and the writers of suppression_list.  A call   *)
(* in one of the Locking steps holds the advisory lock of its recipient.   *)

\* Mutant: no advisory lock on the recipient.
LockFreeAlways(a) == TRUE

LockFree(a) == \A q \in Caller : calls[q].step \in Locking => calls[q].action # a

\* Mails of the day: those sent, and those executing.
Counted == sent \cup {a \in Action : Intent(a) = "outreach_send" /\ Status(a) = "executing"}

SendRead(p, a) ==
  /\ Intent(a) = "outreach_send"
  /\ a \notin sent
  /\ Status(a) = "approved"
  /\ Begin(p, "send_read", a, {})
  /\ UNCHANGED <<actions, approvals, missions, effects, moved, rollback, sent, suppressed, clock>>

CanSend(a) == a \notin suppressed /\ Cardinality(Counted) < DailyLimit

\* One transaction under the locks of the quota and of the recipient.
SendClaim(p) ==
  LET a == calls[p].action IN
  /\ At(p, "send_read")
  /\ LockFree(a)
  /\ IF /\ CanSend(a)
        /\ Status(a) = "approved"
        /\ InWindow(Expiry(a))
        /\ \E d \in ApprovedBy(a) : InWindow(d.expiry)
     THEN SetStatus(a, "executing") /\ Continue(p, "send_claimed")
     ELSE UNCHANGED actions /\ Return(p)
  /\ UNCHANGED <<approvals, missions, effects, moved, rollback, sent, suppressed, clock>>

\* Mutant: the second transaction trusts what the first one saw.
SendLockUnchecked(p) ==
  /\ At(p, "send_claimed")
  /\ LockFree(calls[p].action)
  /\ Continue(p, "send_locked")
  /\ UNCHANGED <<actions, approvals, missions, effects, moved, rollback, sent, suppressed, clock>>

\* The second transaction takes the lock of the recipient and looks again.
SendLock(p) ==
  LET a == calls[p].action IN
  /\ At(p, "send_claimed")
  /\ LockFree(a)
  /\ IF a \notin suppressed
     THEN Continue(p, "send_locked") /\ UNCHANGED actions
     ELSE /\ Return(p)
          /\ IF Status(a) = "executing" THEN SetStatus(a, "failed") ELSE UNCHANGED actions
  /\ UNCHANGED <<approvals, missions, effects, moved, rollback, sent, suppressed, clock>>

\* Brevo accepts, rejects, or its answer is lost.
SendCall(p) ==
  /\ At(p, "send_locked")
  /\ \E mailed \in BOOLEAN :
       /\ effects' = [effects EXCEPT ![calls[p].action] = @ + (IF mailed THEN 1 ELSE 0)]
       /\ \/ Continue(p, IF mailed THEN "send_accepted" ELSE "send_rejected")
          \/ Continue(p, "send_unknown")
  /\ UNCHANGED <<actions, approvals, missions, moved, rollback, sent, suppressed, clock>>

\* The end of the second transaction; an unknown outcome keeps 'executing'.
SendFinish(p) ==
  LET a == calls[p].action IN
  /\ \/ /\ At(p, "send_accepted")
        /\ sent' = sent \cup {a}
        /\ SetStatus(a, "executed")
     \/ /\ At(p, "send_rejected")
        /\ IF Status(a) = "executing" THEN SetStatus(a, "failed") ELSE UNCHANGED actions
        /\ UNCHANGED sent
     \/ /\ At(p, "send_unknown")
        /\ UNCHANGED <<actions, sent>>
  /\ Return(p)
  /\ UNCHANGED <<approvals, missions, effects, moved, rollback, suppressed, clock>>

\* addSuppression waits for the lock of the recipient.
AddSuppression(a) ==
  /\ LockFree(a)
  /\ suppressed' = suppressed \cup {a}
  /\ UNCHANGED <<actions, approvals, missions, calls, effects, moved, rollback, sent, clock>>

-----------------------------------------------------------------------------
(* deploy.sh.                                                              *)

\* Mutant: the status of the action is trusted, without its decision.
DeployClaimStale(a) ==
  /\ Intent(a) = "deploy_release"
  /\ Status(a) = "approved"
  /\ InWindow(Expiry(a))
  /\ SetStatus(a, "executing")
  /\ effects' = [effects EXCEPT ![a] = @ + 1]
  /\ UNCHANGED <<approvals, missions, calls, moved, rollback, sent, suppressed, clock>>

\* One statement consumes the approval before the first live change.
DeployClaim(a) ==
  /\ Intent(a) = "deploy_release"
  /\ Status(a) = "approved"
  /\ InWindow(Expiry(a))
  /\ \E d \in ApprovedBy(a) : InWindow(d.expiry)
  /\ SetStatus(a, "executing")
  /\ effects' = [effects EXCEPT ![a] = @ + 1]
  /\ UNCHANGED <<approvals, missions, calls, moved, rollback, sent, suppressed, clock>>

\* The release is live, or it was rolled back; a script that dies ends nothing.
DeployFinish(a) ==
  /\ Intent(a) = "deploy_release"
  /\ Status(a) = "executing"
  /\ \E s \in {"executed", "failed"} : SetStatus(a, s)
  /\ UNCHANGED <<approvals, missions, calls, effects, moved, rollback, sent, suppressed, clock>>

-----------------------------------------------------------------------------
\* The API process ends; an exception that ends one request is a part of this.
Crash ==
  /\ \E dead \in SUBSET Caller :
       calls' = [p \in Caller |-> IF p \in dead THEN Idle ELSE calls[p]]
  /\ UNCHANGED <<actions, approvals, missions, effects, moved, rollback, sent, suppressed, clock>>

Tick ==
  /\ clock < MaxClock
  /\ clock' = clock + 1
  /\ UNCHANGED <<actions, approvals, missions, calls, effects, moved, rollback, sent, suppressed>>

Creating(a) ==
  \/ CreateAction(a) \/ Propose(a) \/ PromoteProposal(a) \/ Prepare(a)
  \/ \E p \in Caller : CreateMission(p, a)

Deciding(a) ==
  \/ \E d \in {"approved", "rejected"} :
       \/ HumanDecision(a, d)
       \/ \E approver \in Approver \cup {HumanAdmin} : OperatorDecision(a, d, approver)
  \/ \E approver \in Approver : DashboardApprove(a, approver)

Reading(p, a) ==
  \/ RequestRead(p, a) \/ RejectRead(p, a) \/ IssueRead(p, a)
  \/ DriveRead(p, a) \/ RollbackRead(p, a) \/ SendRead(p, a)

Proceeding(p) ==
  \/ AutopilotDecision(p) \/ RequestWrite(p) \/ RejectWrite(p)
  \/ IssueClaim(p) \/ IssueCall(p) \/ IssueFinish(p)
  \/ DriveClaim(p) \/ DriveMove(p) \/ DriveFinish(p)
  \/ RollbackMove(p) \/ RollbackFinish(p)
  \/ SendClaim(p) \/ SendLock(p) \/ SendCall(p) \/ SendFinish(p)

Next ==
  \/ \E a \in Action :
       \/ Creating(a) \/ Deciding(a)
       \/ Dispatch(a) \/ \E r \in Results : Result(a, r)
       \/ AddSuppression(a) \/ DeployClaim(a) \/ DeployFinish(a)
       \/ \E p \in Caller : Reading(p, a)
  \/ \E p \in Caller : Proceeding(p)
  \/ Crash
  \/ Tick

Spec == Init /\ [][Next]_vars

-----------------------------------------------------------------------------
(* Properties.                                                             *)

Touched(a) == effects[a] > 0 \/ moved[a] # {}

Authorised(a) == \E d \in ApprovedBy(a) : d.approver # ProfileOf[a]

\* Nothing reaches the outside world, and nothing is on its way there, without a
\* recorded approval by somebody else than the profile that proposed the action
\* (approval-rules.ts:4, "la seule chose qui empeche un agent d'ecrire sans
\* accord"), though several handlers write the status without a lock.
EffectNeedsApproval ==
  \A a \in Action :
    Touched(a) \/ Status(a) = "approved" => Authorised(a)

\* One approval gives at most one lead, issue, mail or deployment, whatever the
\* requests that race for it, the answers that are lost and the restarts
\* (approvals.ts:7, "une approbation ne peut pas etre rejouee").
EffectAtMostOnce == \A a \in Action : effects[a] <= 1

\* A recorded refusal stands: no request that was in flight when it was made
\* brings the action back to an effect or sends its mission out.
RefusalStands ==
  \A d \in approvals :
    d.decision = "rejected" =>
      ~Touched(d.action) /\ missions[d.action] # "in_progress"

\* A mission is sent to its agent only after an approval of its action
\* (mission-rules.ts:31, canDispatch), and that approval cannot be withdrawn.
DispatchNeedsApproval ==
  \A a \in Action : missions[a] = "in_progress" => ApprovedBy(a) # {}

\* A deployment starts only on a human decision whose window is still open
\* (deploy.sh:103): neither the autopilot nor the dashboard can lead to one.
DeployOnFreshDecision ==
  [][\A a \in Action :
       Intent(a) = "deploy_release" /\ effects'[a] # effects[a] =>
         \E d \in ApprovedBy(a) : d.approver = HumanAdmin /\ d.expiry > clock]_vars

\* A recipient who is on the suppression list gets no mail from then on, also
\* when the request that mails him was already claimed (outreach.ts:164).
SuppressedStaysUnsent ==
  [][\A a \in suppressed :
       Intent(a) = "outreach_send" => effects'[a] = effects[a]]_vars

\* The mails of a day stay within its quota (outreach.ts:111).
WithinDailyLimit ==
  Cardinality({a \in Action : Intent(a) = "outreach_send" /\ effects[a] > 0}) <= DailyLimit

\* When no request works on a batch, each file that it left in the target
\* folder is in its rollback list (drive.ts:8).
RollbackCoversMoves ==
  \A a \in Action :
    (\A p \in Caller : calls[p].action # a) => moved[a] \subseteq rollback[a]

-----------------------------------------------------------------------------
(* The inductive invariant.                                                *)

\* Steps of a request that has consumed an approval and has had no effect yet.
Spending == {"issue", "send_claimed", "send_locked"}

SpendingOn(p, a) == calls[p].step \in Spending /\ calls[p].action = a

OneDecision == \A d, e \in approvals : d.action = e.action => d = e

\* An approval that is still to be consumed, and one that is being spent.
ApprovedIsUnspent ==
  \A a \in Action :
    Status(a) = "approved" => effects[a] = 0 /\ \A p \in Caller : ~SpendingOn(p, a)

ClaimIsExclusive ==
  \A a \in Action, p \in Caller :
    SpendingOn(p, a) =>
      effects[a] = 0 /\ Authorised(a) /\ \A q \in Caller : SpendingOn(q, a) => q = p

DriveIsAuthorised ==
  \A p \in Caller : calls[p].step \in {"drive_read", "drive"} => Authorised(calls[p].action)

CallsKeepIntent ==
  \A p \in Caller :
    /\ ~At(p, "idle") => calls[p].action \in Action
    /\ At(p, "policy") => Intent(calls[p].action) = "create_agent_mission"
    /\ calls[p].step \in {"issue_read", "issue"} =>
         Intent(calls[p].action) = "github_create_issue"
    /\ calls[p].step \in {"send_read", "send_claimed", "send_locked"} =>
         Intent(calls[p].action) = "outreach_send"

OnlyHumansDeploy ==
  \A d \in approvals :
    Intent(d.action) = "deploy_release" /\ d.decision = "approved" /\ d.expiry # Null =>
      d.approver = HumanAdmin

LockedIsWelcome ==
  \A p \in Caller : At(p, "send_locked") => calls[p].action \notin suppressed

\* What the handlers keep true between them, from which the properties above
\* follow: a decision is never doubled, an approval is either unspent or spent by
\* one request, and each request works on an action of its own intent.
IInv ==
  /\ TypeOK
  /\ OneDecision
  /\ ApprovedIsUnspent
  /\ ClaimIsExclusive
  /\ EffectNeedsApproval
  /\ EffectAtMostOnce
  /\ DispatchNeedsApproval
  /\ DriveIsAuthorised
  /\ CallsKeepIntent
  /\ OnlyHumansDeploy
  /\ LockedIsWelcome
-----------------------------------------------------------------------------
(* The handlers implement Consent: the windows, the claims, the statuses   *)
(* and the requests under way are how they keep what it promises.          *)

Decisions == {[thing |-> d.action, decision |-> d.decision, by |-> d.approver] : d \in approvals}

MissionAt == [a \in Action |->
  IF missions[a] \in {"none", "pending"} THEN "home"
  ELSE IF missions[a] = "in_progress" THEN "out" ELSE "over"]

Unwelcome == {a \in suppressed : Intent(a) = "outreach_send"}

Promise == INSTANCE Consent
  WITH Things <- Action, People <- Approver \cup {HumanAdmin, PolicyName},
       Proposer <- ProfileOf, Items <- File,
       decisions <- Decisions, done <- effects, away <- moved,
       mission <- MissionAt, barred <- Unwelcome

\* Whatever requests race, crash or repeat, each action is decided on once, has
\* its effect after an approval by somebody else, and has it once.
ImplementsConsent == Promise!Spec
=============================================================================
