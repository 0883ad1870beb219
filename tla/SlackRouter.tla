----------------------------- MODULE SlackRouter -----------------------------
(***************************************************************************)
(* The Slack router (src/src/slack-router) over the inbox: Socket Mode     *)
(* deliveries that may be repeated, one asynchronous handler per delivery, *)
(* the transaction that deduplicates, assigns the thread and fills the     *)
(* inbox, the relays, the Grok worker behind its socket, and the notifier  *)
(* of asynchronous missions.                                               *)
(*                                                                         *)
(* The router is one process: a handler runs without interruption from one *)
(* await to the next, and such a stretch is one step.  A reply that cannot *)
(* be posted, storage that cannot be reached and a socket that is lost for *)
(* good all end the process (systemd starts it again): Crash.  The         *)
(* transactions are single steps: with the unique keys they insert into,   *)
(* READ COMMITTED leaves no interleaving that some order of whole          *)
(* transactions does not give.                                             *)
(***************************************************************************)
EXTENDS GatewayInbox

CONSTANTS
  Threads,        \* Slack threads
  NoOwner,        \* a thread without row in slack_thread_owners
  Conversations,  \* the assignments of messages to events that are examined
  MaxDeliveries,  \* bound: how often Slack delivers one event
  MaxFaults       \* bound: repeated deliveries, crashes and failed notices together

Owners == {"hermes", "ana", "grok", "codex", "native"}

\* The command of a mission, and one that is refused whatever the rows are (of a
\* project that is not allowed, for one).
Commands == {"mission", "refused"}

\* What parseRoute, the mention of a native agent or the syntax of a command
\* make of a text, and whether it reads as a long mission.
Message ==
  [thread : Threads, root : BOOLEAN, mode : {"sync", "async"},
   route : Owners \cup Commands \cup {"devin"}]

\* A thread is named by the time stamp of the one message that opens it.
ASSUME RouterAssumption ==
  /\ NoOwner \notin Owners
  /\ Conversations \subseteq [Events -> Message]
  /\ \A texts \in Conversations : \A e, f \in Events :
       texts[e].root /\ texts[f].root /\ texts[e].thread = texts[f].thread => e = f
  /\ MaxDeliveries \in Nat /\ MaxFaults \in Nat

VARIABLES
  message,      \* the text of each event
  handler,      \* where the handler of each delivery of an event is
  acked,        \* events acknowledged to Slack
  dedup,        \* rows of slack_event_dedup
  owner,        \* rows of slack_thread_owners
  grokInFlight, \* stores.grokInFlight.active
  grokRunning,  \* events whose prompt the Grok worker runs now
  grokRuns, proposals,           \* per event: Grok runs, Codex proposals
  answers, receipts, refusals,   \* per event: what was posted in reply
  notifier,     \* the drain of asynchronous notifications
  announced,    \* the last notice posted about each event
  faults                         \* what MaxFaults counts

noticeVars == <<notifier, announced>>
replyVars == <<answers, receipts, refusals>>
effectVars == <<grokRunning, grokRuns, proposals, replyVars>>
routerVars == <<message, handler, acked, dedup, owner, grokInFlight,
                effectVars, noticeVars, faults>>
vars == <<inboxVars, routerVars>>

Slots == 1..MaxDeliveries
Steps == {"none", "received", "dispatching", "admitting", "admitted", "receipt",
          "refusing", "prepared", "relay", "codex", "grok", "running", "answering",
          "returning", "over"}

\* One notice at a time: what is read and not yet posted, what is posted and
\* not yet recorded.
Notifier == [pc : {"idle", "start", "final"}, left : SUBSET Events,
             posted : Events \cup {NoEvent}]
Resting == [pc |-> "idle", left |-> {}, posted |-> NoEvent]

Init ==
  /\ InboxInit
  /\ message \in Conversations
  /\ handler = [e \in Events |-> [d \in Slots |-> "none"]]
  /\ acked = {} /\ dedup = {}
  /\ owner = [t \in Threads |-> NoOwner]
  /\ grokInFlight = FALSE /\ grokRunning = {}
  /\ grokRuns = [e \in Events |-> 0]
  /\ proposals = [e \in Events |-> 0]
  /\ answers = [e \in Events |-> 0]
  /\ receipts = [e \in Events |-> 0]
  /\ refusals = [e \in Events |-> 0]
  /\ notifier = Resting
  /\ announced = [e \in Events |-> "nothing"]
  /\ faults = 0

-----------------------------------------------------------------------------
Thread(e) == message[e].thread
At(e, d, step) == handler[e][d] = step
Moves(e, d, step) == handler' = [handler EXCEPT ![e][d] = step]
IsCommand(e) == message[e].route \in Commands
Bump(counter, e) == [counter EXCEPT ![e] = @ + 1]

\* Slack delivers an event, and again when the acknowledgement is late or lost.
Deliver(e, d) ==
  /\ At(e, d, "none")
  /\ \A x \in 1..(d - 1) : ~ At(e, x, "none")
  /\ d > 1 => faults < MaxFaults
  /\ faults' = IF d > 1 THEN faults + 1 ELSE faults
  /\ Moves(e, d, IF IsCommand(e) THEN "received" ELSE "dispatching")
  /\ UNCHANGED <<inboxVars, message, acked, dedup, owner, grokInFlight, effectVars,
                 noticeVars>>

\* handleV2Command: allowsThread, then store.admit.
ReadThread(e, d) ==
  /\ At(e, d, "received")
  /\ Moves(e, d, IF owner[Thread(e)] \in {NoOwner, "hermes"}
                 THEN "admitting" ELSE "dispatching")
  /\ UNCHANGED <<inboxVars, message, acked, dedup, owner, grokInFlight, effectVars,
                 noticeVars, faults>>

\* INSERT ... ON CONFLICT DO NOTHING on the owner of a thread, by its root only.
OwnerAfter(e, candidate) ==
  IF message[e].root /\ owner[Thread(e)] = NoOwner
  THEN [owner EXCEPT ![Thread(e)] = candidate] ELSE owner

\* The receipt of the first admission answers a repeated one; a thread of
\* another agent, one that nobody owns and a project that is not allowed refuse.
AdmitMission(e, d) ==
  LET owners == OwnerAfter(e, "hermes")
      admits == /\ lifecycle[e] = "absent" /\ e \notin dedup
                /\ message[e].route = "mission" /\ owners[Thread(e)] = "hermes"
  IN
  /\ At(e, d, "admitting")
  /\ IF admits
     THEN /\ Store!Admit(e)
          /\ owner' = owners
          /\ dedup' = dedup \cup {e}
          /\ item' = [item EXCEPT ![e] = NewItem("hermes", 2, "async")]
     ELSE UNCHANGED <<missionVars, owner, dedup, item>>
  /\ Moves(e, d, IF admits \/ lifecycle[e] # "absent" THEN "admitted" ELSE "refusing")
  /\ UNCHANGED <<claimer, consumer, call, hermesRuns, message, acked, grokInFlight,
                 effectVars, noticeVars, faults>>

\* accepted() comes before the receipt is posted.
AcceptMission(e, d) ==
  /\ At(e, d, "admitted")
  /\ acked' = acked \cup {e}
  /\ Moves(e, d, "receipt")
  /\ UNCHANGED <<inboxVars, message, dedup, owner, grokInFlight, effectVars, noticeVars,
                 faults>>

\* Every delivery of the command has the receipt posted; its envelope is
\* acknowledged already.
PostReceipt(e, d) ==
  /\ At(e, d, "receipt")
  /\ receipts' = Bump(receipts, e)
  /\ Moves(e, d, "over")
  /\ UNCHANGED <<inboxVars, message, acked, dedup, owner, grokInFlight, grokRunning,
                 grokRuns, proposals, answers, refusals, noticeVars, faults>>

\* So has every delivery of a command or of an escalation that is refused: neither
\* is in the table of events seen.
PostRefusal(e, d) ==
  /\ At(e, d, "refusing")
  /\ refusals' = Bump(refusals, e)
  /\ Moves(e, d, "returning")
  /\ UNCHANGED <<inboxVars, message, acked, dedup, owner, grokInFlight, grokRunning,
                 grokRuns, proposals, answers, receipts, noticeVars, faults>>

-----------------------------------------------------------------------------
\* The candidate of a text: the command of a mission is not a route of its own.
Candidate(e) == IF IsCommand(e) THEN "hermes" ELSE message[e].route

InboxWith(e, o) == [item EXCEPT ![e] = NewItem(o, 1, message[e].mode)]

V2Thread(e) ==
  \E x \in Events : /\ item[x].status # "none" /\ item[x].version = 2
                    /\ Thread(x) = Thread(e)

\* Mutant: an escalation is prepared before its text is looked at.
RoutedAlways(e) == TRUE

\* dispatchSlackMessage rejects an escalation before it prepares anything.
Routed(e) == message[e].route # "devin"

\* Mutant: the row of slack_event_dedup is written but not looked at.
FreshAlways(e) == TRUE

Fresh(e) == e \notin dedup

\* Mutant: the message enters the inbox when it is relayed.
EntersLater(e, o) == FALSE

\* The messages that enter the inbox in the transaction of Prepare.
Enters(e, o) == o \in {"hermes", "ana"} /\ ~ V2Thread(e)

\* An escalation is refused before anything is prepared.  prepareDispatchTx: an
\* event seen before, a reply in a thread nobody owns or a V2 mission owns, and a
\* native thread are not dispatched; a message for Hermes or Ana enters the inbox
\* in the same transaction.
Prepare(e, d) ==
  LET owners == OwnerAfter(e, Candidate(e))
      o == owners[Thread(e)]
  IN
  /\ At(e, d, "dispatching")
  /\ \/ /\ ~ Routed(e)
        /\ Moves(e, d, "refusing")
        /\ UNCHANGED <<dedup, owner, item>>
     \/ /\ Routed(e) /\ ~ Fresh(e)
        /\ Moves(e, d, "returning")
        /\ UNCHANGED <<dedup, owner, item>>
     \/ /\ Routed(e) /\ Fresh(e)
        /\ dedup' = dedup \cup {e}
        /\ owner' = owners
        /\ item' = IF Enters(e, o) THEN InboxWith(e, o) ELSE item
        /\ Moves(e, d, IF \/ o \in {NoOwner, "native"}
                          \/ o \in {"hermes", "ana"} /\ V2Thread(e)
                       THEN "returning" ELSE "prepared")
  /\ UNCHANGED <<missionVars, claimer, consumer, call, hermesRuns, message, acked,
                 grokInFlight, effectVars, noticeVars, faults>>

\* Mutant: the message goes where its text says.
TargetByText(e) == Candidate(e)

\* The thread decides who gets the message, whatever its text asks for.
DispatchTarget(e) == owner[Thread(e)]

\* The rest of dispatchSlackMessage and what follows without an await: a free slot
\* of Grok is taken at once; that Grok is busy, switched off or rate limited is
\* the answer.  (No message of Socket Mode has a source that Grok ignores, and the
\* one that opens a thread of Grok names it.)
Dispatch(e, d) ==
  LET target == DispatchTarget(e) IN
  /\ At(e, d, "prepared")
  /\ \/ /\ target \in {"hermes", "ana"}
        /\ acked' = acked \cup {e}
        /\ Moves(e, d, "relay")
        /\ UNCHANGED grokInFlight
     \/ /\ target = "codex"
        /\ Moves(e, d, "codex")
        /\ UNCHANGED <<acked, grokInFlight>>
     \/ /\ target = "grok" /\ ~ grokInFlight
        /\ grokInFlight' = TRUE
        /\ Moves(e, d, "grok")
        /\ UNCHANGED acked
     \/ /\ target = "grok"
        /\ Moves(e, d, "answering")
        /\ UNCHANGED <<acked, grokInFlight>>
  /\ UNCHANGED <<inboxVars, message, dedup, owner, effectVars, noticeVars, faults>>

-----------------------------------------------------------------------------
(* Relays *)

\* insertOrGetInbox finds the item of the event, or makes it.
RelayInbox(e, d) ==
  /\ At(e, d, "relay")
  /\ item' = IF item[e].status = "none" THEN InboxWith(e, owner[Thread(e)]) ELSE item
  /\ Moves(e, d, "answering")
  /\ UNCHANGED <<missionVars, claimer, consumer, call, hermesRuns, message, acked, dedup,
                 owner, grokInFlight, effectVars, noticeVars, faults>>

\* POST /api/proposals, which may not reach the control plane.
RelayCodex(e, d) ==
  /\ At(e, d, "codex")
  /\ proposals' \in {proposals, Bump(proposals, e)}
  /\ Moves(e, d, "answering")
  /\ UNCHANGED <<inboxVars, message, acked, dedup, owner, grokInFlight, grokRunning,
                 grokRuns, replyVars, noticeVars, faults>>

\* The worker starts the prompt unless it runs one, perhaps of a router that died.
GrokAccepts(e, d) ==
  /\ At(e, d, "grok")
  /\ grokRunning = {}
  /\ grokRunning' = {e}
  /\ grokRuns' = Bump(grokRuns, e)
  /\ Moves(e, d, "running")
  /\ UNCHANGED <<inboxVars, message, acked, dedup, owner, grokInFlight, proposals,
                 replyVars, noticeVars, faults>>

\* Mutant: the slot is given back only when the worker took the prompt.
GrokReturnsRun(e, d) ==
  /\ At(e, d, "grok") \/ At(e, d, "running")
  /\ grokInFlight' = At(e, d, "grok")
  /\ Moves(e, d, "answering")
  /\ UNCHANGED <<inboxVars, message, acked, dedup, owner, effectVars, noticeVars,
                 faults>>

\* An answer of the worker, the refusal of a busy one, a broken socket or the
\* timeout of the call: in every case the slot is given back.
GrokReturns(e, d) ==
  /\ At(e, d, "grok") \/ At(e, d, "running")
  /\ grokInFlight' = FALSE
  /\ Moves(e, d, "answering")
  /\ UNCHANGED <<inboxVars, message, acked, dedup, owner, effectVars, noticeVars,
                 faults>>

\* The wrapper exits or is killed, or the worker dies with it.
GrokEnds ==
  /\ grokRunning # {}
  /\ grokRunning' = {}
  /\ UNCHANGED <<inboxVars, message, handler, acked, dedup, owner, grokInFlight,
                 grokRuns, proposals, replyVars, noticeVars, faults>>

\* The answer is what the relay returned: for the inbox, that an asynchronous
\* item is waiting, or what a synchronous one became while it was polled.
PostAnswer(e, d) ==
  /\ At(e, d, "answering")
  /\ answers' = Bump(answers, e)
  /\ Moves(e, d, "returning")
  /\ UNCHANGED <<inboxVars, message, acked, dedup, owner, grokInFlight, grokRunning,
                 grokRuns, proposals, receipts, refusals, noticeVars, faults>>

\* The promise of the handler resolves, after the post if there is one, and the
\* envelope is acknowledged unless it has been.
Return(e, d) ==
  /\ At(e, d, "returning")
  /\ acked' = acked \cup {e}
  /\ Moves(e, d, "over")
  /\ UNCHANGED <<inboxVars, message, dedup, owner, grokInFlight, effectVars,
                 noticeVars, faults>>

Handle(e, d) ==
  \/ ReadThread(e, d) \/ AdmitMission(e, d) \/ AcceptMission(e, d)
  \/ PostReceipt(e, d) \/ PostRefusal(e, d)
  \/ Prepare(e, d) \/ Dispatch(e, d)
  \/ RelayInbox(e, d) \/ RelayCodex(e, d)
  \/ GrokAccepts(e, d) \/ GrokReturns(e, d)
  \/ PostAnswer(e, d) \/ Return(e, d)

-----------------------------------------------------------------------------
(* The notifier *)

Async(e) == item[e].version = 1 /\ item[e].mode = "async"

StartCandidates ==
  {e \in Events : Async(e) /\ item[e].status = "processing" /\ ~ item[e].started}

\* Mutant: only missions that succeed are announced.
FinalCandidatesDone ==
  {e \in Events : Async(e) /\ item[e].status = "done" /\ ~ item[e].notified}

FinalCandidates ==
  {e \in Events : Async(e) /\ item[e].status \in Ended /\ ~ item[e].notified}

notifierUnchanged ==
  <<missionVars, claimer, consumer, call, hermesRuns, message, handler, acked, dedup,
    owner, grokInFlight, effectVars>>

\* A drain reads the rows that have started, posts and records each, then does
\* the same with the rows that have ended.  To read none changes nothing, so a
\* drain may as well begin with the ended ones.
ReadNotices ==
  /\ notifier = Resting
  /\ \/ /\ StartCandidates # {}
        /\ notifier' = [notifier EXCEPT !.pc = "start", !.left = StartCandidates]
     \/ /\ FinalCandidates # {}
        /\ notifier' = [notifier EXCEPT !.pc = "final", !.left = FinalCandidates]
  /\ UNCHANGED <<notifierUnchanged, item, announced, faults>>

PostNotice(e) ==
  /\ notifier.posted = NoEvent /\ e \in notifier.left
  /\ notifier' = [notifier EXCEPT !.left = @ \ {e}, !.posted = e]
  /\ announced' = [announced EXCEPT ![e] = notifier.pc]
  /\ UNCHANGED <<notifierUnchanged, item, faults>>

RecordNotice ==
  LET e == notifier.posted IN
  /\ e # NoEvent
  /\ item' = IF notifier.pc = "start" THEN [item EXCEPT ![e].started = TRUE]
                                      ELSE [item EXCEPT ![e].notified = TRUE]
  /\ notifier' = IF notifier.left = {} THEN Resting ELSE [notifier EXCEPT !.posted = NoEvent]
  /\ UNCHANGED <<notifierUnchanged, announced, faults>>

\* A post or an update fails: the rest is left to the next tick.
DrainFails ==
  /\ notifier # Resting
  /\ faults < MaxFaults
  /\ faults' = faults + 1
  /\ notifier' = Resting
  /\ UNCHANGED <<notifierUnchanged, item, announced>>

Notify == ReadNotices \/ (\E e \in Events : PostNotice(e)) \/ RecordNotice

\* The router dies: handlers, the slot of Grok and the drain are gone.
Crash ==
  /\ faults < MaxFaults
  /\ faults' = faults + 1
  /\ handler' = [e \in Events |-> [d \in Slots |->
                   IF At(e, d, "none") THEN "none" ELSE "over"]]
  /\ grokInFlight' = FALSE
  /\ notifier' = Resting
  /\ UNCHANGED <<inboxVars, message, acked, dedup, owner, effectVars, announced>>

Gateway == InboxNext /\ UNCHANGED routerVars

Next ==
  \/ \E e \in Events, d \in Slots : Deliver(e, d) \/ Handle(e, d)
  \/ Notify \/ DrainFails \/ GrokEnds \/ Crash
  \/ Gateway

\* The consumers poll without end, the notifier ticks every two seconds.
Fairness ==
  /\ \A c \in Consumers : WF_vars(Serve(c) /\ UNCHANGED routerVars)
  /\ WF_vars(Notify)

Spec == Init /\ [][Next]_vars
FairSpec == Spec /\ Fairness

-----------------------------------------------------------------------------
TypeOK ==
  /\ InboxTypeOK
  /\ message \in Conversations
  /\ handler \in [Events -> [Slots -> Steps]]
  /\ acked \subseteq Events /\ dedup \subseteq Events
  /\ owner \in [Threads -> Owners \cup {NoOwner}]
  /\ grokInFlight \in BOOLEAN /\ grokRunning \subseteq Events
  /\ grokRuns \in [Events -> Nat] /\ proposals \in [Events -> Nat]
  /\ answers \in [Events -> Nat]
  /\ receipts \in [Events -> Nat] /\ refusals \in [Events -> Nat]
  /\ notifier \in Notifier
  /\ announced \in [Events -> {"nothing", "start", "final"}]
  /\ faults \in 0..MaxFaults

\* Neither an escalation nor a command that is refused whatever the rows are.
Proper(e) == message[e].route \notin {"devin", "refused"}

\* However often Slack delivers a message, and whoever dies in between, one
\* agent at most works on it, once.  A message that is dispatched is answered
\* once at most.  A command is replied to at every delivery ('les reponses Slack
\* sont best-effort'), but never in contradiction: the receipt is that of a
\* mission on record with its item, which is not dispatched as well, and the
\* command of a mission that opens its thread is never refused.
OneExecution ==
  \A e \in Events :
    /\ hermesRuns[e] + grokRuns[e] + proposals[e] <= 1
    /\ answers[e] <= 1
    /\ receipts[e] > 0 =>
         /\ lifecycle[e] # "absent" /\ item[e].status # "none"
         /\ grokRuns[e] + proposals[e] + answers[e] = 0
    /\ refusals[e] > 0 => ~ (message[e].root /\ Proper(e))

\* 'un seul agent par fil': everything the messages of a thread ever cause is
\* done by the agent that owns it, so the owner cannot have changed.
OneAgentPerThread ==
  \A e \in Events :
    /\ item[e].status # "none" => owner[Thread(e)] = item[e].target
    /\ grokRuns[e] > 0 => owner[Thread(e)] = "grok"
    /\ proposals[e] > 0 => owner[Thread(e)] = "codex"

\* Slack forgets an acknowledged event.  One that opens a thread is then on
\* record, with its item when the thread is one of Hermes or Ana.
AcceptedIsDurable ==
  \A e \in acked :
    message[e].root /\ Proper(e) =>
      /\ e \in dedup
      /\ owner[Thread(e)] \in {"hermes", "ana"} => item[e].status # "none"

\* The handlers that wait for the Grok worker.
GrokCalls == {c \in Events \X Slots : handler[c[1]][c[2]] \in {"grok", "running"}}

\* The slot of Grok is neither doubled nor lost: it is taken while one handler
\* waits for the worker, and free as soon as none does, over refusals, answers
\* that come too late and the death of either process.
GrokSlotIsHeld ==
  /\ \A first, second \in GrokCalls : first = second
  /\ grokInFlight <=> GrokCalls # {}

\* A mission is not announced as started once its end has been announced.
NoticeOrder ==
  [][\A e \in Events : announced[e] = "final" => announced'[e] = "final"]_vars

\* Every message gets out of the queue, and the end of an asynchronous mission
\* is announced, although the router and its database may fail in between.
EndIsAnnounced ==
  \A e \in Events :
    /\ item[e].status = "pending" ~> item[e].status # "pending"
    /\ Async(e) /\ item[e].status \in Ended ~> item[e].notified /\ announced[e] = "final"

-----------------------------------------------------------------------------
(* What the router and the inbox promise together. *)

Texts ==
  [e \in Events |-> [thread |-> Thread(e), opens |-> message[e].root, proper |-> Proper(e)]]

\* The way of a message through the inbox.
StageOf(e) ==
  CASE item[e].status = "none" -> "out"
    [] item[e].status = "pending" -> "waiting"
    [] item[e].status = "processing" -> "taken"
    [] OTHER -> "closed"

Stages == [e \in Events |-> StageOf(e)]

Unplanned == {e \in Events : item[e].version = 2 /\ lifecycle[e] = "queued"}

\* The gateway of Hermes or of Ana runs a model, Grok a prompt, and for Codex a
\* proposal is made.
RunsOf(e, agent) ==
  CASE agent = "grok" -> grokRuns[e]
    [] agent = "codex" -> proposals[e]
    [] agent = item[e].target -> hermesRuns[e]
    [] OTHER -> 0

Worked == [e \in Events |-> [agent \in Owners |-> RunsOf(e, agent)]]

Promise == INSTANCE Handoff WITH
  Messages <- Events, Agents <- Owners, Nobody <- NoOwner, Desks <- {"hermes", "ana"},
  text <- Texts, belongs <- owner, recorded <- dedup, stage <- Stages,
  unplanned <- Unplanned, works <- Worked, told <- acked, notice <- announced

\* Whatever Slack repeats and whoever dies, the router, its inbox and the
\* gateways never do more, or in another order, than Handoff promises.
ImplementsHandoff == Promise!Spec
=============================================================================
