-------------------------- MODULE SlackRouterProofs --------------------------
(***************************************************************************)
(* Theorems of SlackRouter for every set of events, threads, consumers and *)
(* conversations and every number of deliveries and faults, and that the   *)
(* router and the inbox implement Handoff, proved with TLAPS.              *)
(***************************************************************************)
EXTENDS SlackRouter, GatewayInboxProofs

-----------------------------------------------------------------------------
(* The inductive invariant.                                                *)

\* The steps of a handler between the transaction that dispatched the message
\* and the answer.
Working == {"prepared", "relay", "codex", "grok", "running", "answering"}
Works(e, d) == handler[e][d] \in Working

HasItem(e) == owner[Thread(e)] \in {"hermes", "ana"} => item[e].status # "none"

\* What a handler at a step knows of the thread and of what was done so far.
StepAgrees(e, step) ==
  /\ step \in {"prepared", "relay", "codex", "grok"} => grokRuns[e] = 0 /\ proposals[e] = 0
  /\ step = "prepared" => owner[Thread(e)] # NoOwner /\ HasItem(e)
  /\ step = "relay" => owner[Thread(e)] \in {"hermes", "ana"} /\ item[e].status # "none"
  /\ step = "codex" => owner[Thread(e)] = "codex"
  /\ step \in {"grok", "running"} => owner[Thread(e)] = "grok"

\* Nothing was done for an event before its row of slack_event_dedup.
NothingDone(e) ==
  /\ item[e].status = "none"
  /\ grokRuns[e] = 0 /\ proposals[e] = 0 /\ answers[e] = 0
  /\ \A d \in Slots : ~ Works(e, d)

OwnerDoesAll(e) ==
  /\ item[e].status # "none" => owner[Thread(e)] = item[e].target
  /\ grokRuns[e] > 0 => owner[Thread(e)] = "grok"
  /\ proposals[e] > 0 => owner[Thread(e)] = "codex"

\* What opens a thread and is neither an escalation nor refused in any case.
Opens(e) == message[e].root /\ Proper(e)

Leaving(e) == e \in acked \/ \E d \in Slots : handler[e][d] = "returning"

EventAgrees(e) ==
  /\ e \notin dedup => NothingDone(e)
  /\ \A d, x \in Slots : Works(e, d) /\ Works(e, x) => d = x
  /\ \A d \in Slots : Works(e, d) => answers[e] = 0 /\ StepAgrees(e, handler[e][d])
  /\ grokRuns[e] <= 1 /\ proposals[e] <= 1 /\ answers[e] <= 1
  /\ OwnerDoesAll(e)
  /\ Leaving(e) /\ Opens(e) => e \in dedup
  /\ e \in dedup /\ message[e].root => owner[Thread(e)] # NoOwner /\ HasItem(e)

\* Only the message that opens a thread gives it an owner.
OwnerAgrees(t) ==
  owner[t] # NoOwner => \E r \in dedup : message[r].root /\ Thread(r) = t

NoticesAgree ==
  /\ \A e \in Events : announced[e] = "final" => item[e].status \in Ended
  /\ \A e \in notifier.left :
       /\ notifier.pc # "idle"
       /\ notifier.pc = "start" => announced[e] # "final"
       /\ notifier.pc = "final" => item[e].status \in Ended

RouterAgrees ==
  /\ \A e \in Events : EventAgrees(e)
  /\ \A t \in Threads : OwnerAgrees(t)
  /\ NoticesAgree

IInv == TypeOK /\ InboxAgrees /\ RouterAgrees

\* What a handler at a step knows of the mission of its event.
StepReplies(e, step) ==
  /\ step \in {"received", "admitting"} => IsCommand(e)
  /\ step \in {"admitted", "receipt"} => lifecycle[e] # "absent"
  /\ step \in Working => lifecycle[e] = "absent"
  /\ Opens(e) => step # "refusing"
  /\ Opens(e) /\ IsCommand(e) => step # "dispatching"

\* A mission is not dispatched, and the command that opens a thread goes on
\* record as a mission or not at all.
EventReplies(e) ==
  /\ \A d \in Slots : StepReplies(e, handler[e][d])
  /\ receipts[e] > 0 => lifecycle[e] # "absent"
  /\ lifecycle[e] # "absent" =>
       item[e].target = "hermes" /\ grokRuns[e] = 0 /\ proposals[e] = 0 /\ answers[e] = 0
  /\ Opens(e) => refusals[e] = 0
  /\ Opens(e) /\ IsCommand(e) /\ e \in dedup => lifecycle[e] # "absent"

RepliesAgree == \A e \in Events : EventReplies(e)

-----------------------------------------------------------------------------
(* Lemmas about the parts of the state.                                    *)

LEMMA MessageTypes ==
  ASSUME TypeOK, NEW e \in Events
  PROVE  /\ message[e] \in Message /\ Thread(e) \in Threads
         /\ owner[Thread(e)] \in Owners \cup {NoOwner}
         /\ NoOwner \notin Owners
<1>1. message \in [Events -> Message] /\ NoOwner \notin Owners
  BY RouterAssumption DEF TypeOK
<1>2. message[e] \in Message
  BY <1>1
<1>3. Thread(e) \in Threads
  BY <1>2 DEF Message, Thread
<1> QED
  BY <1>1, <1>2, <1>3 DEF TypeOK

\* The root of a thread is one message.
LEMMA OneRoot ==
  ASSUME TypeOK, NEW e \in Events, NEW r \in Events,
         message[e].root, message[r].root, Thread(e) = Thread(r)
  PROVE  e = r
  BY RouterAssumption DEF TypeOK, Thread

\* A root that is not on record finds its thread without owner, and nobody's.
LEMMA FreshRoot ==
  ASSUME IInv, NEW e \in Events, message[e].root, e \notin dedup
  PROVE  owner[Thread(e)] = NoOwner /\ ~ V2Thread(e)
<1>0. dedup \subseteq Events /\ TypeOK /\ Thread(e) \in Threads /\ item \in [Events -> Item]
  BY MessageTypes DEF IInv, TypeOK, InboxTypeOK
<1>1. owner[Thread(e)] = NoOwner
  BY <1>0, OneRoot DEF IInv, RouterAgrees, OwnerAgrees
<1>2. ASSUME V2Thread(e) PROVE FALSE
  <2>1. PICK x \in Events : item[x].status # "none" /\ Thread(x) = Thread(e)
    BY <1>2 DEF V2Thread
  <2>2. owner[Thread(x)] = item[x].target /\ item[x].target \in Owners
    BY <1>0, <2>1 DEF IInv, RouterAgrees, EventAgrees, OwnerDoesAll, Item, Owners
  <2> QED
    BY <1>1, <2>1, <2>2, RouterAssumption
<1> QED
  BY <1>1, <1>2

LEMMA MovesTo ==
  ASSUME TypeOK, NEW e \in Events, NEW d \in Slots, NEW s \in Steps, Moves(e, d, s)
  PROVE  /\ handler' \in [Events -> [Slots -> Steps]]
         /\ handler'[e][d] = s
         /\ \A x \in Slots \ {d} : handler'[e][x] = handler[e][x]
         /\ \A f \in Events \ {e} : handler'[f] = handler[f]
  BY DEF TypeOK, Moves

LEMMA Bumped ==
  ASSUME NEW counter \in [Events -> Nat], NEW e \in Events
  PROVE  /\ Bump(counter, e) \in [Events -> Nat]
         /\ Bump(counter, e)[e] = counter[e] + 1
         /\ \A f \in Events \ {e} : Bump(counter, e)[f] = counter[f]
  BY DEF Bump

\* Nothing about an event changes, but its thread may get an owner and its item
\* may go on.
LEMMA EventKept ==
  ASSUME TypeOK, NEW e \in Events, EventAgrees(e), message' = message,
         handler'[e] = handler[e], grokRuns'[e] = grokRuns[e],
         proposals'[e] = proposals[e], answers'[e] = answers[e],
         (e \in dedup') <=> (e \in dedup), (e \in acked') <=> (e \in acked),
         (item'[e].status = "none") <=> (item[e].status = "none"),
         item'[e].target = item[e].target,
         owner[Thread(e)] # NoOwner => owner'[Thread(e)] = owner[Thread(e)]
  PROVE  EventAgrees(e)'
<1>1. NoOwner \notin {"hermes", "ana", "grok", "codex"}
  BY MessageTypes DEF Owners
<1>2. Thread(e)' = Thread(e)
  BY DEF Thread
<1>3. item[e] \in Item
  BY DEF TypeOK, InboxTypeOK
<1>4. \A d \in Slots : Works(e, d)' <=> Works(e, d)
  BY DEF Works
<1>5. OwnerDoesAll(e)'
  BY <1>1, <1>2, <1>3 DEF EventAgrees, OwnerDoesAll, Item
<1>6. owner[Thread(e)] # NoOwner /\ HasItem(e) => owner'[Thread(e)'] # NoOwner /\ HasItem(e)'
  BY <1>2 DEF HasItem
<1>7. ASSUME NEW d \in Slots, Works(e, d)
      PROVE  StepAgrees(e, handler[e][d])'
  <2>1. StepAgrees(e, handler[e][d]) /\ handler'[e][d] = handler[e][d]
    BY <1>7 DEF EventAgrees
  <2> QED
    BY <1>1, <1>2, <1>6, <2>1 DEF StepAgrees
<1>8. (Leaving(e)' => Leaving(e)) /\ Opens(e)' = Opens(e)
  BY DEF Leaving, Opens, Proper
<1>9. NothingDone(e) => NothingDone(e)'
  BY <1>4 DEF NothingDone
<1> QED
  BY <1>2, <1>4, <1>5, <1>6, <1>7, <1>8, <1>9 DEF EventAgrees

\* What is in the inbox goes on, and nothing that it depends on changes.
LEMMA InboxKept ==
  ASSUME IInv, UNCHANGED inboxVars
  PROVE  InboxTypeOK' /\ InboxAgrees'
  BY DEF IInv, TypeOK, inboxVars, missionVars, InboxTypeOK, InboxAgrees, ConsumerAgrees,
     ItemAgrees, Untouched

LEMMA NoticesKept ==
  ASSUME NoticesAgree, UNCHANGED noticeVars, notifier.left \subseteq Events,
         \A e \in Events : item[e].status \in Ended => item'[e].status \in Ended
  PROVE  NoticesAgree'
  BY DEF NoticesAgree, noticeVars

-----------------------------------------------------------------------------
(* What Handoff sees of a step.                                            *)

Promised == Promise!Next \/ UNCHANGED Promise!vars

\* Nothing that Handoff sees of an item changes, but its row may be written.
SameItem(e) ==
  /\ item'[e].status = item[e].status /\ item'[e].target = item[e].target
  /\ item'[e].version = item[e].version
  /\ lifecycle'[e] = lifecycle[e] /\ hermesRuns'[e] = hermesRuns[e]

LEMMA TextOf ==
  ASSUME IInv, NEW e \in Events
  PROVE  /\ Texts[e].thread = Thread(e) /\ Texts[e].opens = message[e].root
         /\ Promise!Agent(e) = owner[Thread(e)] /\ Promise!Opening(e) = Opens(e)
  BY DEF Texts, Promise!Agent, Promise!Opening, Opens

LEMMA TextsKept ==
  ASSUME UNCHANGED message
  PROVE  UNCHANGED Texts
  BY DEF Texts, Thread, Proper

LEMMA StagesAfter ==
  ASSUME NEW e \in Events, NEW stage, StageOf(e)' = stage,
         \A x \in Events \ {e} : item'[x].status = item[x].status
  PROVE  Stages' = [Stages EXCEPT ![e] = stage]
<1>1. \A x \in Events \ {e} : StageOf(x)' = StageOf(x)
  BY DEF StageOf
<1> QED
  BY <1>1 DEF Stages

LEMMA StagesKept ==
  ASSUME \A x \in Events : item'[x].status = item[x].status
  PROVE  UNCHANGED Stages
<1>1. \A x \in Events : StageOf(x)' = StageOf(x)
  BY DEF StageOf
<1> QED
  BY <1>1 DEF Stages

LEMMA RunsKept ==
  ASSUME NEW e \in Events, hermesRuns'[e] = hermesRuns[e], grokRuns'[e] = grokRuns[e],
         proposals'[e] = proposals[e],
         item'[e].target = item[e].target \/ hermesRuns[e] = 0
  PROVE  \A agent : RunsOf(e, agent)' = RunsOf(e, agent)
<1> SUFFICES ASSUME NEW agent PROVE RunsOf(e, agent)' = RunsOf(e, agent)
  OBVIOUS
<1>1. CASE agent = "grok" \/ agent = "codex"
  BY <1>1 DEF RunsOf
<1>2. CASE agent \notin {"grok", "codex"}
  BY <1>2 DEF RunsOf
<1> QED
  BY <1>1, <1>2

LEMMA WorksKept ==
  ASSUME UNCHANGED <<grokRuns, proposals>>,
         \A x \in Events : /\ hermesRuns'[x] = hermesRuns[x]
                           /\ item'[x].target = item[x].target \/ hermesRuns[x] = 0
  PROVE  UNCHANGED Worked
<1>1. \A x \in Events, agent \in Owners : RunsOf(x, agent)' = RunsOf(x, agent)
  BY RunsKept
<1> QED
  BY <1>1 DEF Worked

\* A run of Grok or a proposal for Codex is one of no other agent.
LEMMA OthersRest ==
  ASSUME NEW e \in Events, NEW agent \in {"grok", "codex"}, UNCHANGED <<item, hermesRuns>>,
         item[e].target \in {"hermes", "ana"},
         IF agent = "grok" THEN grokRuns'[e] = 1 /\ proposals'[e] = proposals[e]
                           ELSE proposals'[e] = 1 /\ grokRuns'[e] = grokRuns[e]
  PROVE  /\ RunsOf(e, agent)' = 1
         /\ \A b \in Owners \ {agent} : RunsOf(e, b)' = RunsOf(e, b)
<1>1. RunsOf(e, agent)' = 1
  <2>1. CASE agent = "grok"
    BY <2>1 DEF RunsOf
  <2>2. CASE agent = "codex"
    BY <2>2 DEF RunsOf
  <2> QED
    BY <2>1, <2>2
<1>2. ASSUME NEW b \in Owners \ {agent} PROVE RunsOf(e, b)' = RunsOf(e, b)
  <2>1. CASE b = "grok"
    BY <2>1 DEF RunsOf
  <2>2. CASE b = "codex"
    BY <2>2 DEF RunsOf
  <2>3. CASE b \notin {"grok", "codex"}
    BY <2>3 DEF RunsOf
  <2> QED
    BY <2>1, <2>2, <2>3
<1> QED
  BY <1>1, <1>2

\* The first run of an agent, with nothing before it.
LEMMA WorksOnce ==
  ASSUME NEW e \in Events, NEW agent \in Owners,
         \A b \in Owners : RunsOf(e, b) = 0,
         RunsOf(e, agent)' = 1,
         \A b \in Owners \ {agent} : RunsOf(e, b)' = RunsOf(e, b),
         \A x \in Events \ {e}, b \in Owners : RunsOf(x, b)' = RunsOf(x, b)
  PROVE  /\ \A b \in Owners : Worked[e][b] = 0
         /\ Worked' = [Worked EXCEPT ![e][agent] = 1]
<1>1. Worked = [x \in Events |-> [b \in Owners |-> RunsOf(x, b)]]
  BY DEF Worked
<1>2. Worked' = [x \in Events |-> [b \in Owners |-> RunsOf(x, b)']]
  BY DEF Worked
<1>3. [Worked[e] EXCEPT ![agent] = 1] = [b \in Owners |-> RunsOf(e, b)']
  BY <1>1
<1>4. \A x \in Events \ {e} : Worked[x] = [b \in Owners |-> RunsOf(x, b)']
  BY <1>1
<1>5. \A b \in Owners : Worked[e][b] = 0
  BY <1>1
<1>6. Worked' = [Worked EXCEPT ![e][agent] = 1]
  <2>1. DOMAIN Worked = Events
    BY <1>1
  <2> HIDE DEF Worked
  <2>2. [Worked EXCEPT ![e][agent] = 1] =
          [x \in Events |-> IF x = e THEN [Worked[e] EXCEPT ![agent] = 1] ELSE Worked[x]]
    BY <1>1, <2>1
  <2>3. \A x \in Events : (IF x = e THEN [Worked[e] EXCEPT ![agent] = 1] ELSE Worked[x])
                         = [b \in Owners |-> RunsOf(x, b)']
    BY <1>3, <1>4
  <2> QED
    BY <1>2, <2>2, <2>3
<1> QED
  BY <1>5, <1>6

\* Nothing happens but that Slack may forget an event that is on record, or that
\* does not open a thread.
LEMMA NothingSeen ==
  ASSUME IInv, UNCHANGED <<message, owner, dedup, grokRuns, proposals, replyVars, announced>>,
         \A x \in Events : SameItem(x),
         acked' = acked \/ \E e \in Events :
           acked' = acked \cup {e} /\ (Opens(e) => e \in dedup)
  PROVE  Promised
<1>1. UNCHANGED <<Texts, Stages, Worked, answers, receipts, refusals>>
  BY TextsKept, StagesKept, WorksKept DEF SameItem, replyVars
<1>2. UNCHANGED Unplanned
  BY DEF Unplanned, SameItem
<1>3. CASE UNCHANGED acked
  BY <1>1, <1>2, <1>3 DEF Promised, Promise!vars
<1>4. ASSUME NEW e \in Events, acked' = acked \cup {e}, Opens(e) => e \in dedup
      PROVE  Promised
  <2>1. Promise!Opening(e) => e \in dedup
    BY <1>4, TextOf
  <2>2. Promise!Tell(e)
    BY <1>1, <1>2, <1>4, <2>1 DEF Promise!Tell, Promise!replyVars
  <2> QED
    BY <2>2 DEF Promised, Promise!Next
<1> QED
  BY <1>3, <1>4

-----------------------------------------------------------------------------
(* The steps of a handler.                                                 *)

\* A step of a handler that starts no work; it may post a receipt or a refusal.
LEMMA QuietMove ==
  ASSUME IInv, NEW e \in Events, NEW d \in Slots, NEW s \in Steps, Moves(e, d, s),
         UNCHANGED <<inboxVars, message, dedup, owner, grokRunning, grokRuns, proposals,
                     answers, noticeVars>>,
         receipts' \in [Events -> Nat], refusals' \in [Events -> Nat],
         acked' \in {acked, acked \cup {e}},
         grokInFlight' \in BOOLEAN, faults' \in 0..MaxFaults,
         s \in Working => Works(e, d) /\ StepAgrees(e, s),
         s = "returning" \/ acked' # acked => (Opens(e) => e \in dedup)
  PROVE  IInv' /\ (UNCHANGED replyVars => Promised)
<1>1. TypeOK /\ InboxTypeOK' /\ InboxAgrees' /\ RouterAgrees
  BY InboxKept DEF IInv
<1>2. /\ handler' \in [Events -> [Slots -> Steps]]
      /\ handler'[e][d] = s
      /\ \A x \in Slots \ {d} : handler'[e][x] = handler[e][x]
      /\ \A f \in Events \ {e} : handler'[f] = handler[f]
  BY <1>1, MovesTo
<1>3. UNCHANGED <<item, message, dedup, owner, grokRunning, grokRuns, proposals, answers,
                  notifier, announced>>
  BY DEF inboxVars, noticeVars
<1>4. TypeOK'
  BY <1>1, <1>2, <1>3 DEF TypeOK
<1>5. Thread(e)' = Thread(e) /\ HasItem(e)' = HasItem(e) /\ OwnerDoesAll(e)' = OwnerDoesAll(e)
      /\ Opens(e)' = Opens(e)
  BY <1>3 DEF Thread, HasItem, OwnerDoesAll, Opens, Proper
<1>6. EventAgrees(e)'
  <2>1. EventAgrees(e)
    BY <1>1 DEF RouterAgrees
  <2>2. \A x \in Slots : Works(e, x)' => Works(e, x)
    BY <1>2 DEF Works
  <2>3. ASSUME NEW x \in Slots, Works(e, x)'
        PROVE  StepAgrees(e, handler'[e][x])
    <3>1. CASE x = d
      BY <1>2, <2>3, <3>1 DEF Works
    <3>2. CASE x # d
      BY <1>2, <2>1, <2>2, <2>3, <3>2 DEF EventAgrees
    <3> QED
      BY <3>1, <3>2
  <2>4. ASSUME NEW x \in Slots, Works(e, x)'
        PROVE  StepAgrees(e, handler[e][x])'
    BY <1>3, <1>5, <2>3, <2>4 DEF StepAgrees
  <2>5. Leaving(e)' => Leaving(e) \/ s = "returning" \/ acked' # acked
    BY <1>2 DEF Leaving
  <2>6. NothingDone(e) => NothingDone(e)'
    BY <1>3, <2>2 DEF NothingDone
  <2> QED
    BY <1>3, <1>5, <2>1, <2>2, <2>4, <2>5, <2>6 DEF EventAgrees
<1>7. \A f \in Events \ {e} : EventAgrees(f)'
  BY <1>1, <1>2, <1>3, EventKept DEF RouterAgrees
<1>8. \A t \in Threads : OwnerAgrees(t)'
  BY <1>1, <1>3 DEF RouterAgrees, OwnerAgrees, Thread
<1>9. NoticesAgree'
  BY <1>1, <1>3 DEF RouterAgrees, NoticesAgree
<1>10. UNCHANGED replyVars => Promised
  <2>1. \A x \in Events : SameItem(x)
    BY <1>3 DEF SameItem, inboxVars, missionVars
  <2>2. acked' = acked \/ (acked' = acked \cup {e} /\ (Opens(e) => e \in dedup))
    OBVIOUS
  <2> QED
    BY <1>3, <2>1, <2>2, NothingSeen
<1> QED
  BY <1>1, <1>4, <1>6, <1>7, <1>8, <1>9, <1>10 DEF IInv, RouterAgrees

\* The handler that works on an event is on record.
LEMMA WorkIsOnRecord ==
  ASSUME IInv, NEW e \in Events, NEW d \in Slots, Works(e, d)
  PROVE  e \in dedup /\ answers[e] = 0 /\ StepAgrees(e, handler[e][d])
  BY DEF IInv, RouterAgrees, EventAgrees, NothingDone

\* The mission of an event is on record with it.
LEMMA MissionIsOnRecord ==
  ASSUME IInv, NEW e \in Events, lifecycle[e] # "absent"
  PROVE  e \in dedup /\ item[e].status # "none"
  BY DEF IInv, InboxAgrees, ItemAgrees, RouterAgrees, EventAgrees, NothingDone

LEMMA QuietSteps ==
  ASSUME IInv, RepliesAgree, NEW e \in Events, NEW d \in Slots,
         \/ Deliver(e, d) \/ ReadThread(e, d) \/ Dispatch(e, d) \/ AcceptMission(e, d)
         \/ RelayInbox(e, d) \/ GrokReturns(e, d) \/ Return(e, d)
  PROVE  IInv' /\ Promised
<1>a. UNCHANGED effectVars
  BY DEF Deliver, ReadThread, Dispatch, AcceptMission, RelayInbox, GrokReturns, Return
<1>b. /\ UNCHANGED <<grokRunning, grokRuns, proposals, answers, replyVars>>
      /\ receipts' \in [Events -> Nat] /\ refusals' \in [Events -> Nat]
  BY <1>a DEF effectVars, replyVars, IInv, TypeOK
<1>0. /\ grokInFlight \in BOOLEAN /\ faults \in 0..MaxFaults /\ MaxFaults \in Nat
      /\ item \in [Events -> Item]
  BY RouterAssumption DEF IInv, TypeOK, InboxTypeOK
<1>1. CASE Deliver(e, d)
  <2>1. PICK s \in {"received", "dispatching"} : Moves(e, d, s)
    BY <1>1 DEF Deliver
  <2>2. faults' \in 0..MaxFaults
    BY <1>0, <1>1 DEF Deliver
  <2> QED
    BY <1>b, <1>0, <1>1, <2>1, <2>2, QuietMove DEF Deliver, Working, Steps
<1>2. CASE ReadThread(e, d)
  <2>1. PICK s \in {"admitting", "dispatching"} : Moves(e, d, s)
    BY <1>2 DEF ReadThread
  <2> QED
    BY <1>b, <1>0, <1>2, <2>1, QuietMove DEF ReadThread, Working, Steps
<1>3. CASE Dispatch(e, d)
  <2>1. Works(e, d) /\ handler[e][d] = "prepared"
    BY <1>3 DEF Dispatch, At, Works, Working
  <2>2. e \in dedup /\ StepAgrees(e, "prepared")
    BY <2>1, WorkIsOnRecord
  <2>3. PICK s \in {"relay", "codex", "grok", "answering"} :
          /\ Moves(e, d, s)
          /\ s = "relay" => owner[Thread(e)] \in {"hermes", "ana"}
          /\ s = "codex" => owner[Thread(e)] = "codex"
          /\ s = "grok" => owner[Thread(e)] = "grok"
          /\ grokInFlight' \in BOOLEAN
          /\ acked' \in {acked, acked \cup {e}}
    BY <1>0, <1>3 DEF Dispatch, DispatchTarget
  <2>4. StepAgrees(e, s) /\ s \in Steps
    BY <2>2, <2>3 DEF StepAgrees, HasItem, Steps
  <2> QED
    BY <1>b, <1>0, <1>3, <2>1, <2>2, <2>3, <2>4, QuietMove DEF Dispatch
<1>4. CASE RelayInbox(e, d)
  <2>1. Works(e, d) /\ handler[e][d] = "relay"
    BY <1>4 DEF RelayInbox, At, Works, Working
  <2>2. e \in dedup /\ item[e].status # "none"
    BY <2>1, WorkIsOnRecord DEF StepAgrees
  <2>3. UNCHANGED <<inboxVars, message, dedup, owner, noticeVars, faults, acked,
                    grokInFlight>> /\ Moves(e, d, "answering")
    BY <1>4, <2>2 DEF RelayInbox, inboxVars
  <2>4. StepAgrees(e, "answering") /\ "answering" \in Steps
    BY DEF StepAgrees, Steps
  <2> QED
    BY <1>b, <1>0, <2>1, <2>2, <2>3, <2>4, QuietMove
<1>5. CASE GrokReturns(e, d)
  <2>1. Works(e, d)
    BY <1>5 DEF GrokReturns, At, Works, Working
  <2>2. StepAgrees(e, "answering") /\ "answering" \in Steps
    BY DEF StepAgrees, Steps
  <2> QED
    BY <1>b, <1>0, <1>5, <2>1, <2>2, QuietMove DEF GrokReturns
<1>6. CASE Return(e, d)
  <2>1. Leaving(e)
    BY <1>6 DEF Return, At, Leaving
  <2>2. Opens(e) => e \in dedup
    BY <2>1 DEF IInv, RouterAgrees, EventAgrees
  <2> QED
    BY <1>b, <1>0, <1>6, <2>2, QuietMove DEF Return, Working, Steps
<1>7. CASE AcceptMission(e, d)
  <2>1. StepReplies(e, "admitted")
    BY <1>7 DEF AcceptMission, At, RepliesAgree, EventReplies
  <2>2. e \in dedup
    BY <2>1, MissionIsOnRecord DEF StepReplies
  <2> QED
    BY <1>b, <1>0, <1>7, <2>2, QuietMove DEF AcceptMission, Working, Steps
<1> QED
  BY <1>1, <1>2, <1>3, <1>4, <1>5, <1>6, <1>7

\* A receipt is posted for a mission on record, a refusal for no message that
\* opens a thread.
LEMMA PostSteps ==
  ASSUME IInv, RepliesAgree, NEW e \in Events, NEW d \in Slots,
         PostReceipt(e, d) \/ PostRefusal(e, d)
  PROVE  IInv' /\ Promised
<1>0. /\ grokInFlight \in BOOLEAN /\ faults \in 0..MaxFaults
      /\ receipts \in [Events -> Nat] /\ refusals \in [Events -> Nat]
      /\ EventReplies(e)
  BY DEF IInv, TypeOK, RepliesAgree
<1>1. UNCHANGED <<item, lifecycle, hermesRuns, message, acked, owner, dedup, announced, grokRuns,
                  proposals, answers>>
  BY DEF PostReceipt, PostRefusal, inboxVars, missionVars, noticeVars
<1>2. UNCHANGED <<Texts, Stages, Unplanned, Worked>>
  BY <1>1, TextsKept, StagesKept, WorksKept DEF Unplanned
<1>3. CASE PostReceipt(e, d)
  <2>1. StepReplies(e, "receipt") /\ receipts' = Bump(receipts, e) /\ UNCHANGED refusals
    BY <1>0, <1>3 DEF PostReceipt, At, EventReplies
  <2>2. lifecycle[e] # "absent" /\ e \in dedup /\ item[e].status # "none"
    BY <2>1, MissionIsOnRecord DEF StepReplies
  <2>3. receipts' \in [Events -> Nat]
    BY <1>0, <2>1, Bumped
  <2>4. IInv'
    BY <1>0, <1>3, <2>2, <2>3, QuietMove DEF PostReceipt, Working, Steps
  <2>5. Stages[e] # "out"
    BY <2>2 DEF Stages, StageOf
  <2>6. /\ answers[e] = 0
        /\ \A a \in Owners \ {"hermes", "ana"} : Worked[e][a] = 0
    <3>1. grokRuns[e] = 0 /\ proposals[e] = 0 /\ answers[e] = 0 /\ item[e].target = "hermes"
      BY <1>0, <2>2 DEF EventReplies
    <3>2. \A a \in Owners \ {"hermes", "ana"} : RunsOf(e, a) = 0
      BY <3>1 DEF RunsOf, Owners
    <3> QED
      BY <3>1, <3>2 DEF Worked
  <2>7. receipts' = [receipts EXCEPT ![e] = @ + 1]
    BY <2>1 DEF Bump
  <2>8. Promise!Receipt(e)
    BY <1>1, <1>2, <2>1, <2>2, <2>5, <2>6, <2>7 DEF Promise!Receipt
  <2> QED
    BY <2>4, <2>8 DEF Promised, Promise!Next
<1>4. CASE PostRefusal(e, d)
  <2>1. StepReplies(e, "refusing") /\ refusals' = Bump(refusals, e) /\ UNCHANGED receipts
    BY <1>0, <1>4 DEF PostRefusal, At, EventReplies
  <2>2. ~ Opens(e)
    BY <2>1 DEF StepReplies
  <2>3. refusals' \in [Events -> Nat]
    BY <1>0, <2>1, Bumped
  <2>4. IInv'
    BY <1>0, <1>4, <2>2, <2>3, QuietMove DEF PostRefusal, Working, Steps
  <2>5. refusals' = [refusals EXCEPT ![e] = @ + 1]
    BY <2>1 DEF Bump
  <2>6. ~ Promise!Opening(e)
    BY <2>2, TextOf
  <2>7. Promise!Refuse(e)
    BY <1>1, <1>2, <2>1, <2>5, <2>6 DEF Promise!Refuse
  <2> QED
    BY <2>4, <2>7 DEF Promised, Promise!Next
<1> QED
  BY <1>3, <1>4

-----------------------------------------------------------------------------
(* An event goes on record.                                                *)

LEMMA OwnersAfter ==
  ASSUME IInv, NEW e \in Events, NEW candidate \in Owners
  PROVE  /\ OwnerAfter(e, candidate) \in [Threads -> Owners \cup {NoOwner}]
         /\ \A t \in Threads : owner[t] # NoOwner => OwnerAfter(e, candidate)[t] = owner[t]
         /\ \A t \in Threads : OwnerAfter(e, candidate)[t] # owner[t] =>
              t = Thread(e) /\ message[e].root
         /\ message[e].root => OwnerAfter(e, candidate)[Thread(e)] # NoOwner
         /\ e \notin dedup /\ message[e].root =>
              OwnerAfter(e, candidate)[Thread(e)] = candidate
<1>1. TypeOK /\ Thread(e) \in Threads /\ NoOwner \notin Owners
      /\ owner \in [Threads -> Owners \cup {NoOwner}]
  BY MessageTypes DEF IInv, TypeOK
<1>2. e \notin dedup /\ message[e].root => owner[Thread(e)] = NoOwner
  BY FreshRoot
<1> QED
  BY <1>1, <1>2 DEF OwnerAfter

\* The transactions that put an event on record.
LEMMA GoesOnRecord ==
  ASSUME IInv, NEW e \in Events, NEW d \in Slots, e \notin dedup,
         NEW s \in {"prepared", "returning", "admitted"}, Moves(e, d, s),
         NEW candidate \in Owners, owner' = OwnerAfter(e, candidate),
         dedup' = dedup \cup {e},
         NEW row \in Item, row.status = "pending",
         item' = item \/ row.target = owner'[Thread(e)],
         item' = item \/ item' = [item EXCEPT ![e] = row],
         s = "prepared" => owner'[Thread(e)] # NoOwner,
         (s = "prepared" \/ message[e].root) /\ owner'[Thread(e)] \in {"hermes", "ana"} =>
           item' = [item EXCEPT ![e] = row],
         (Store!Admit(e) /\ item' = [item EXCEPT ![e] = row]) \/ UNCHANGED missionVars,
         UNCHANGED <<claimer, consumer, call, hermesRuns, message, acked, grokInFlight,
                     effectVars, noticeVars, faults>>
  PROVE  IInv' /\ Promised
<1>1. TypeOK /\ InboxTypeOK /\ InboxAgrees /\ RouterAgrees /\ item \in [Events -> Item]
  BY DEF IInv, TypeOK, InboxTypeOK
<1>2. /\ handler' \in [Events -> [Slots -> Steps]]
      /\ handler'[e][d] = s
      /\ \A x \in Slots \ {d} : handler'[e][x] = handler[e][x]
      /\ \A f \in Events \ {e} : handler'[f] = handler[f]
  <2>1. s \in Steps
    BY DEF Steps
  <2> QED
    BY <1>1, <2>1, MovesTo
<1>3. /\ owner' \in [Threads -> Owners \cup {NoOwner}]
      /\ \A t \in Threads : owner[t] # NoOwner => owner'[t] = owner[t]
      /\ \A t \in Threads : owner'[t] # owner[t] => t = Thread(e) /\ message[e].root
      /\ message[e].root => owner'[Thread(e)] # NoOwner
  BY OwnersAfter
<1>4. UNCHANGED <<message, acked, grokRunning, grokRuns, proposals, answers, receipts, refusals,
                  notifier, announced, grokInFlight, faults>>
  BY DEF effectVars, replyVars, noticeVars
<1>5. /\ item' \in [Events -> Item]
      /\ \A f \in Events \ {e} : item'[f] = item[f]
      /\ item'[e] = item[e] \/ item'[e] = row
      /\ (s = "prepared" \/ message[e].root) /\ owner'[Thread(e)] \in {"hermes", "ana"} =>
           item'[e] = row
  BY <1>1
<1>6. EventAgrees(e) /\ NothingDone(e) /\ item[e].status = "none"
  BY <1>1 DEF RouterAgrees, EventAgrees, NothingDone
<1>7. InboxTypeOK'
  BY <1>1, <1>5, StoreTypes DEF InboxTypeOK
<1>8. InboxAgrees'
  <2>1. \A f \in Events \ {e} : lifecycle'[f] = lifecycle[f]
    BY <1>1, StoreTypes
  <2>2. item'[e] = item[e] => UNCHANGED lifecycle
    BY <1>1, <1>6 DEF missionVars
  <2>3. \A f \in Events \ {e} : ItemAgrees(f)'
    BY <1>1, <1>5, <2>1 DEF InboxAgrees, ItemAgrees, Untouched
  <2>4. ItemAgrees(e)
    BY <1>1 DEF InboxAgrees
  <2>5. CASE item'[e] = item[e]
    BY <1>1, <2>2, <2>3, <2>4, <2>5 DEF InboxAgrees, ItemAgrees, Untouched, ConsumerAgrees
  <2>6. CASE item'[e] = row
    <3>1. Untouched(e)' /\ call'[e] = "none"
      BY <1>6, <2>4 DEF ItemAgrees, Untouched
    <3>2. ItemAgrees(e)'
      BY <2>4, <2>6, <3>1 DEF ItemAgrees, Untouched, Ended
    <3> QED
      BY <1>1, <2>3, <3>2 DEF InboxAgrees, ConsumerAgrees
  <2> QED
    BY <1>5, <2>5, <2>6
<1>9. TypeOK'
  BY <1>1, <1>2, <1>3, <1>4, <1>7 DEF TypeOK
<1>10. Thread(e)' = Thread(e) /\ Thread(e) \in Threads /\ NoOwner \notin Owners
  BY <1>1, <1>4, MessageTypes DEF Thread
<1>11. EventAgrees(e)'
  <2>1. \A x \in Slots : Works(e, x)' => x = d /\ s = "prepared"
    BY <1>2, <1>6 DEF NothingDone, Works, Working
  <2>2. (s = "prepared" \/ message[e].root) => HasItem(e)'
    BY <1>5, <1>10 DEF HasItem
  <2>3. grokRuns'[e] = 0 /\ proposals'[e] = 0 /\ answers'[e] = 0 /\ e \in dedup'
    BY <1>4, <1>6 DEF NothingDone
  <2>4. OwnerDoesAll(e)'
    BY <1>5, <1>6, <1>10, <2>3 DEF OwnerDoesAll
  <2>5. \A x \in Slots : Works(e, x)' => StepAgrees(e, handler[e][x])'
    BY <1>2, <1>10, <2>1, <2>2, <2>3 DEF StepAgrees
  <2> QED
    BY <1>3, <1>4, <1>10, <2>1, <2>2, <2>3, <2>4, <2>5 DEF EventAgrees
<1>12. \A f \in Events \ {e} : EventAgrees(f)'
  <2> SUFFICES ASSUME NEW f \in Events \ {e} PROVE EventAgrees(f)'
    OBVIOUS
  <2>1. EventAgrees(f) /\ Thread(f) \in Threads
    BY <1>1, MessageTypes DEF RouterAgrees
  <2> QED
    BY <1>1, <1>2, <1>3, <1>4, <1>5, <2>1, EventKept
<1>13. \A t \in Threads : OwnerAgrees(t)'
  <2> SUFFICES ASSUME NEW t \in Threads, owner'[t] # NoOwner
               PROVE  \E r \in dedup' : message'[r].root /\ Thread(r)' = t
    BY DEF OwnerAgrees
  <2>1. CASE owner'[t] = owner[t]
    BY <1>1, <1>4, <2>1 DEF RouterAgrees, OwnerAgrees, Thread
  <2>2. CASE owner'[t] # owner[t]
    BY <1>3, <1>4, <1>10, <2>2
  <2> QED
    BY <2>1, <2>2
<1>14. NoticesAgree'
  <2>1. \A f \in Events : item[f].status \in Ended => item'[f].status \in Ended
    BY <1>5, <1>6 DEF Ended
  <2>2. notifier.left \subseteq Events
    BY <1>1 DEF TypeOK, Notifier
  <2> QED
    BY <1>1, <1>4, <2>1, <2>2, NoticesKept DEF RouterAgrees
<1>15. Promised
  <2>1. UNCHANGED <<Texts, Worked, acked, Promise!replyVars>>
    <3>1. \A x \in Events : /\ hermesRuns'[x] = hermesRuns[x]
                            /\ item'[x].target = item[x].target \/ hermesRuns[x] = 0
      BY <1>1, <1>5, <1>6 DEF InboxAgrees, ItemAgrees, Untouched
    <3> QED
      BY <1>4, <3>1, TextsKept, WorksKept DEF Promise!replyVars
  <2>2. /\ owner' = [owner EXCEPT ![Texts[e].thread] = Promise!GoesTo(e, candidate)]
        /\ Promise!GoesTo(e, candidate) = owner'[Thread(e)]
    <3>1. owner \in [Threads -> Owners \cup {NoOwner}]
      BY <1>1 DEF TypeOK
    <3>2. /\ Texts[e].thread = Thread(e) /\ Texts[e].opens = message[e].root
          /\ Promise!Agent(e) = owner[Thread(e)]
      BY TextOf
    <3>3. Promise!GoesTo(e, candidate) =
            IF message[e].root /\ owner[Thread(e)] = NoOwner
            THEN candidate ELSE owner[Thread(e)]
      BY <3>2 DEF Promise!GoesTo
    <3> QED
      BY <1>10, <3>1, <3>2, <3>3 DEF OwnerAfter
  <2>3. CASE item' = [item EXCEPT ![e] = row]
    <3>1. /\ item'[e] = row /\ row.target \in {"hermes", "ana"}
          /\ Promise!GoesTo(e, candidate) \in {"hermes", "ana"}
      BY <1>1, <1>6, <2>2, <2>3 DEF Item
    <3>2. StageOf(e)' = "waiting"
      BY <3>1 DEF StageOf
    <3>3. Stages' = [Stages EXCEPT ![e] = "waiting"]
      BY <1>5, <3>2, StagesAfter
    <3>4. \A x \in Events \ {e} : lifecycle'[x] = lifecycle[x]
      BY <1>1, StoreTypes
    <3>5. e \notin Unplanned
      BY <1>1, <1>6 DEF Unplanned, InboxAgrees, ItemAgrees
    <3>6. Unplanned' \in {Unplanned, Unplanned \cup {e}}
      BY <1>5, <3>4, <3>5 DEF Unplanned
    <3>7. Promise!Record(e, candidate)
      BY <1>4, <2>1, <2>2, <3>1, <3>3, <3>6 DEF Promise!Record
    <3> QED
      BY <3>7 DEF Promised, Promise!Next
  <2>4. CASE item' = item
    <3>1. item' # [item EXCEPT ![e] = row]
      BY <1>1, <1>6, <2>4
    <3>2. UNCHANGED <<Stages, Unplanned>>
      BY <2>4, <3>1, StagesKept DEF missionVars, Unplanned
    <3>3. ~ (Texts[e].opens /\ Promise!GoesTo(e, candidate) \in {"hermes", "ana"})
      BY <2>2, <3>1, TextOf
    <3>4. Promise!Record(e, candidate)
      BY <1>4, <2>1, <2>2, <3>2, <3>3 DEF Promise!Record
    <3> QED
      BY <3>4 DEF Promised, Promise!Next
  <2> QED
    BY <2>3, <2>4
<1> QED
  BY <1>8, <1>9, <1>11, <1>12, <1>13, <1>14, <1>15 DEF IInv, RouterAgrees

LEMMA AdmitStep ==
  ASSUME IInv, NEW e \in Events, NEW d \in Slots, AdmitMission(e, d)
  PROVE  IInv' /\ Promised
<1> DEFINE owners == OwnerAfter(e, "hermes")
<1> DEFINE admits == /\ lifecycle[e] = "absent" /\ e \notin dedup
                     /\ message[e].route = "mission" /\ owners[Thread(e)] = "hermes"
<1>0. "hermes" \in Owners /\ {"admitted", "refusing"} \subseteq Steps /\ item \in [Events -> Item]
      /\ grokInFlight \in BOOLEAN /\ faults \in 0..MaxFaults
      /\ receipts \in [Events -> Nat] /\ refusals \in [Events -> Nat]
  BY DEF Owners, Steps, IInv, TypeOK, InboxTypeOK
<1>1. CASE admits
  <2>1. PICK row \in {NewItem("hermes", 2, "async")} : row \in Item
    BY ItemTypes
  <2>2. row.status = "pending" /\ row.target = "hermes"
    BY <2>1 DEF NewItem
  <2>3. /\ owner' = OwnerAfter(e, "hermes") /\ dedup' = dedup \cup {e} /\ Store!Admit(e)
        /\ item' = [item EXCEPT ![e] = row] /\ Moves(e, d, "admitted")
    BY <1>1, <2>1 DEF AdmitMission
  <2>4. UNCHANGED <<claimer, consumer, call, hermesRuns, message, acked, grokInFlight,
                    effectVars, noticeVars, faults>>
    BY DEF AdmitMission
  <2> QED
    BY <1>0, <1>1, <2>1, <2>2, <2>3, <2>4, GoesOnRecord
<1>2. CASE ~ admits
  <2>1. UNCHANGED <<inboxVars, message, dedup, owner, effectVars, noticeVars, acked,
                    grokInFlight, faults>>
    BY <1>2 DEF AdmitMission, inboxVars
  <2>2. UNCHANGED <<grokRunning, grokRuns, proposals, answers, receipts, refusals, replyVars>>
    BY <2>1 DEF effectVars, replyVars
  <2>3. PICK s \in {"admitted", "refusing"} : Moves(e, d, s)
    BY DEF AdmitMission
  <2> QED
    BY <1>0, <2>1, <2>2, <2>3, QuietMove DEF Working
<1> QED
  BY <1>1, <1>2

LEMMA PrepareStep ==
  ASSUME IInv, NEW e \in Events, NEW d \in Slots, Prepare(e, d)
  PROVE  IInv' /\ Promised
<1>0. /\ {"returning", "refusing"} \subseteq Steps /\ item \in [Events -> Item]
      /\ message[e] \in Message
      /\ grokInFlight \in BOOLEAN /\ faults \in 0..MaxFaults
      /\ receipts \in [Events -> Nat] /\ refusals \in [Events -> Nat]
  BY MessageTypes DEF Steps, IInv, TypeOK, InboxTypeOK
<1>1. UNCHANGED <<missionVars, claimer, consumer, call, hermesRuns, message, acked,
                  grokInFlight, effectVars, noticeVars, faults>>
  BY DEF Prepare
<1>2. CASE ~ (Routed(e) /\ Fresh(e))
  <2>1. UNCHANGED <<dedup, owner, item>>
    BY <1>2 DEF Prepare
  <2>2. PICK s \in {"returning", "refusing"} :
          Moves(e, d, s) /\ (s = "returning" => e \in dedup)
    BY <1>2 DEF Prepare, Fresh
  <2>3. UNCHANGED <<grokRunning, grokRuns, proposals, answers, receipts, refusals, replyVars>>
    BY <1>1 DEF effectVars, replyVars
  <2> QED
    BY <1>0, <1>1, <2>1, <2>2, <2>3, QuietMove DEF Working, inboxVars
<1>3. CASE Routed(e) /\ Fresh(e)
  <2>1. Candidate(e) \in Owners /\ e \notin dedup
    BY <1>0, <1>3 DEF Routed, Fresh, Candidate, IsCommand, Message, Owners
  <2>2. PICK o \in Owners \cup {NoOwner} : o = OwnerAfter(e, Candidate(e))[Thread(e)]
    BY <2>1, OwnersAfter, MessageTypes DEF IInv
  <2>3. PICK s \in {"prepared", "returning"} :
          /\ Moves(e, d, s)
          /\ s = "prepared" => o \notin {NoOwner, "native"}
          /\ s = "prepared" /\ o \in {"hermes", "ana"} => ~ V2Thread(e)
    BY <1>3, <2>2 DEF Prepare
  <2>4. dedup' = dedup \cup {e} /\ owner' = OwnerAfter(e, Candidate(e)) /\ owner'[Thread(e)] = o
    BY <1>3, <2>2 DEF Prepare
  <2>5. item' = IF Enters(e, o) THEN InboxWith(e, o) ELSE item
    BY <1>3, <2>2 DEF Prepare
  <2>6. message[e].root => ~ V2Thread(e)
    BY <2>1, FreshRoot
  <2>7. CASE o \in {"hermes", "ana"}
    <3>1. PICK row \in {NewItem(o, 1, message[e].mode)} : row \in Item
      BY <1>0, <2>7, ItemTypes DEF Message
    <3>2. row.status = "pending" /\ row.target = o
      BY <3>1 DEF NewItem
    <3>3. item' = item \/ item' = [item EXCEPT ![e] = row]
      BY <2>5, <3>1 DEF InboxWith
    <3>4. s = "prepared" \/ message[e].root => item' = [item EXCEPT ![e] = row]
      BY <2>3, <2>5, <2>6, <2>7, <3>1 DEF Enters, InboxWith
    <3> QED
      BY <1>1, <2>1, <2>3, <2>4, <3>1, <3>2, <3>3, <3>4, GoesOnRecord
  <2>8. CASE o \notin {"hermes", "ana"}
    <3>1. item' = item
      BY <2>5, <2>8 DEF Enters
    <3>2. PICK row \in {NewItem("hermes", 1, "sync")} : row \in Item
      BY ItemTypes
    <3>3. row.status = "pending"
      BY <3>2 DEF NewItem
    <3> QED
      BY <1>1, <2>1, <2>3, <2>4, <2>8, <3>1, <3>2, <3>3, GoesOnRecord
  <2> QED
    BY <2>7, <2>8
<1> QED
  BY <1>2, <1>3

-----------------------------------------------------------------------------
(* A handler works.                                                        *)

LEMMA CountedMove ==
  ASSUME IInv, NEW e \in Events, NEW d \in Slots, NEW s \in {"running", "answering", "returning"},
         Moves(e, d, s), Works(e, d),
         UNCHANGED <<inboxVars, message, acked, dedup, owner, receipts, refusals, noticeVars,
                     faults, grokInFlight>>,
         grokRuns' \in [Events -> Nat], proposals' \in [Events -> Nat],
         answers' \in [Events -> Nat], grokRunning' \subseteq Events,
         \A f \in Events \ {e} : /\ grokRuns'[f] = grokRuns[f] /\ answers'[f] = answers[f]
                                 /\ proposals'[f] = proposals[f],
         grokRuns'[e] <= 1, proposals'[e] <= 1, answers'[e] <= 1,
         s # "returning" => answers'[e] = 0,
         s = "running" \/ grokRuns'[e] > 0 => owner[Thread(e)] = "grok",
         proposals'[e] > 0 => owner[Thread(e)] = "codex"
  PROVE  IInv'
<1>1. TypeOK /\ InboxTypeOK' /\ InboxAgrees' /\ RouterAgrees
  BY InboxKept DEF IInv
<1>2. /\ handler' \in [Events -> [Slots -> Steps]]
      /\ handler'[e][d] = s
      /\ \A x \in Slots \ {d} : handler'[e][x] = handler[e][x]
      /\ \A f \in Events \ {e} : handler'[f] = handler[f]
  <2>1. s \in Steps
    BY DEF Steps
  <2> QED
    BY <1>1, <2>1, MovesTo
<1>3. UNCHANGED <<item, message, dedup, owner, notifier, announced>>
  BY DEF inboxVars, noticeVars
<1>4. TypeOK'
  BY <1>1, <1>2, <1>3 DEF TypeOK
<1>5. Thread(e)' = Thread(e) /\ HasItem(e)' = HasItem(e)
  BY <1>3 DEF Thread, HasItem
<1>6. EventAgrees(e)'
  <2>1. EventAgrees(e) /\ e \in dedup
    BY <1>1, WorkIsOnRecord DEF RouterAgrees
  <2>2. \A x \in Slots : Works(e, x)' => x = d /\ s # "returning"
    BY <1>2, <2>1 DEF Works, EventAgrees, Working
  <2>3. OwnerDoesAll(e)'
    BY <1>3, <1>5, <2>1 DEF OwnerDoesAll, EventAgrees
  <2>4. ASSUME NEW x \in Slots, Works(e, x)'
        PROVE  StepAgrees(e, handler[e][x])'
    <3>1. handler'[e][x] = s
      BY <1>2, <2>2, <2>4
    <3> QED
      BY <1>3, <1>5, <3>1 DEF StepAgrees
  <2> QED
    BY <1>3, <1>5, <2>1, <2>2, <2>3, <2>4 DEF EventAgrees
<1>7. \A f \in Events \ {e} : EventAgrees(f)'
  BY <1>1, <1>2, <1>3, EventKept DEF RouterAgrees
<1>8. \A t \in Threads : OwnerAgrees(t)'
  BY <1>1, <1>3 DEF RouterAgrees, OwnerAgrees, Thread
<1>9. NoticesAgree'
  BY <1>1, <1>3 DEF RouterAgrees, NoticesAgree
<1> QED
  BY <1>1, <1>4, <1>6, <1>7, <1>8, <1>9 DEF IInv, RouterAgrees

LEMMA CountedSteps ==
  ASSUME IInv, NEW e \in Events, NEW d \in Slots,
         RelayCodex(e, d) \/ GrokAccepts(e, d) \/ PostAnswer(e, d)
  PROVE  IInv'
<1>1. /\ EventAgrees(e) /\ OwnerDoesAll(e) /\ NoOwner \notin Owners
      /\ grokRuns[e] <= 1 /\ proposals[e] <= 1 /\ answers[e] <= 1
  BY RouterAssumption DEF IInv, RouterAgrees, EventAgrees
<1>2. /\ grokRuns \in [Events -> Nat] /\ proposals \in [Events -> Nat]
      /\ answers \in [Events -> Nat] /\ grokRunning \subseteq Events
  BY DEF IInv, TypeOK
<1>3. CASE RelayCodex(e, d)
  <2>1. Works(e, d) /\ handler[e][d] = "codex"
    BY <1>3 DEF RelayCodex, At, Works, Working
  <2>2. answers[e] = 0 /\ proposals[e] = 0 /\ grokRuns[e] = 0 /\ owner[Thread(e)] = "codex"
    BY <2>1, WorkIsOnRecord DEF StepAgrees
  <2>3. /\ proposals' \in [Events -> Nat] /\ proposals'[e] <= 1
        /\ \A f \in Events \ {e} : proposals'[f] = proposals[f]
    BY <1>2, <1>3, <2>2, Bumped DEF RelayCodex
  <2>4. /\ UNCHANGED <<inboxVars, message, acked, dedup, owner, grokInFlight, grokRunning,
                       grokRuns, answers, receipts, refusals, noticeVars, faults>>
        /\ Moves(e, d, "answering")
    BY <1>3 DEF RelayCodex, replyVars
  <2> QED
    BY <1>2, <2>1, <2>2, <2>3, <2>4, CountedMove
<1>4. CASE GrokAccepts(e, d)
  <2>1. Works(e, d) /\ handler[e][d] = "grok"
    BY <1>4 DEF GrokAccepts, At, Works, Working
  <2>2. answers[e] = 0 /\ grokRuns[e] = 0 /\ proposals[e] = 0 /\ owner[Thread(e)] = "grok"
    BY <2>1, WorkIsOnRecord DEF StepAgrees
  <2>3. /\ grokRuns' \in [Events -> Nat] /\ grokRuns'[e] <= 1
        /\ \A f \in Events \ {e} : grokRuns'[f] = grokRuns[f]
    BY <1>2, <1>4, <2>2, Bumped DEF GrokAccepts
  <2>4. /\ UNCHANGED <<inboxVars, message, acked, dedup, owner, grokInFlight, proposals,
                       answers, receipts, refusals, noticeVars, faults>>
        /\ Moves(e, d, "running") /\ grokRunning' = {e}
    BY <1>4 DEF GrokAccepts, replyVars
  <2> QED
    BY <1>2, <2>1, <2>2, <2>3, <2>4, CountedMove
<1>5. CASE PostAnswer(e, d)
  <2>1. Works(e, d)
    BY <1>5 DEF PostAnswer, At, Works, Working
  <2>2. answers[e] = 0
    BY <2>1, WorkIsOnRecord
  <2>3. /\ answers' \in [Events -> Nat] /\ answers'[e] <= 1
        /\ \A f \in Events \ {e} : answers'[f] = answers[f]
    BY <1>2, <1>5, <2>2, Bumped DEF PostAnswer
  <2>4. /\ UNCHANGED <<inboxVars, message, acked, dedup, owner, grokInFlight, grokRunning,
                       grokRuns, proposals, receipts, refusals, noticeVars, faults>>
        /\ Moves(e, d, "returning")
    BY <1>5 DEF PostAnswer
  <2> QED
    BY <1>1, <1>2, <2>1, <2>3, <2>4, CountedMove DEF OwnerDoesAll
<1> QED
  BY <1>3, <1>4, <1>5

-----------------------------------------------------------------------------
(* The gateways, the notifier, the Grok worker and the death of the router. *)

LEMMA EventsKept ==
  ASSUME IInv, UNCHANGED <<message, handler, acked, dedup, owner, grokRuns, proposals, answers>>,
         \A e \in Events :
           /\ (item'[e].status = "none") <=> (item[e].status = "none")
           /\ item'[e].target = item[e].target
  PROVE  /\ \A e \in Events : EventAgrees(e)'
         /\ \A t \in Threads : OwnerAgrees(t)'
<1>1. \A e \in Events : EventAgrees(e)'
  BY EventKept DEF IInv, RouterAgrees
<1>2. \A t \in Threads : OwnerAgrees(t)'
  BY DEF IInv, RouterAgrees, OwnerAgrees, Thread
<1> QED
  BY <1>1, <1>2

LEMMA GatewayStep ==
  ASSUME IInv, Gateway
  PROVE  IInv'
<1>1. InboxTypeOK' /\ InboxAgrees' /\ ItemsGoOn
  BY InboxStep DEF IInv, TypeOK, Gateway
<1>2. UNCHANGED <<message, handler, acked, dedup, owner, grokInFlight, grokRunning, grokRuns,
                  proposals, answers, receipts, refusals, notifier, announced, faults>>
  BY DEF Gateway, routerVars, effectVars, replyVars, noticeVars
<1>3. TypeOK'
  BY <1>1, <1>2 DEF IInv, TypeOK
<1>4. \A e \in Events : EventAgrees(e)'
  BY <1>1, <1>2, EventsKept DEF ItemsGoOn
<1>5. \A t \in Threads : OwnerAgrees(t)'
  BY <1>1, <1>2, EventsKept DEF ItemsGoOn
<1>6. NoticesAgree'
  <2>1. notifier.left \subseteq Events
    BY DEF IInv, TypeOK, Notifier
  <2> QED
    BY <1>1, <1>2, <2>1, NoticesKept DEF IInv, RouterAgrees, ItemsGoOn, noticeVars
<1> QED
  BY <1>1, <1>3, <1>4, <1>5, <1>6 DEF IInv, RouterAgrees

LEMMA NotifierSteps ==
  ASSUME IInv, Notify \/ DrainFails
  PROVE  IInv'
<1>0. /\ item \in [Events -> Item] /\ notifier \in Notifier
      /\ announced \in [Events -> {"nothing", "start", "final"}]
      /\ faults \in 0..MaxFaults /\ MaxFaults \in Nat /\ NoticesAgree /\ Resting \in Notifier
      /\ NoEvent \notin Events
  BY RouterAssumption, InboxAssumption
     DEF IInv, TypeOK, InboxTypeOK, RouterAgrees, Resting, Notifier
<1>1. UNCHANGED <<lifecycle, planVersion, current, dependencies, claimer, consumer, call,
                  hermesRuns, message, handler, acked, dedup, owner, grokInFlight, grokRunning,
                  grokRuns, proposals, answers, receipts, refusals>>
  BY DEF Notify, ReadNotices, PostNotice, RecordNotice, DrainFails, notifierUnchanged,
     missionVars, effectVars, replyVars
<1>2. /\ item' \in [Events -> Item]
      /\ \A e \in Events : /\ item'[e].status = item[e].status
                          /\ item'[e].version = item[e].version
                          /\ item'[e].target = item[e].target
  <2>1. CASE RecordNotice
    <3>1. PICK e \in Events : e = notifier.posted
      BY <1>0, <2>1 DEF RecordNotice, Notifier
    <3>2. PICK row \in {[item[e] EXCEPT !.started = TRUE], [item[e] EXCEPT !.notified = TRUE]} :
            item' = [item EXCEPT ![e] = row]
      BY <1>0, <2>1, <3>1 DEF RecordNotice
    <3>3. item[e] \in Item
      BY <1>0
    <3>4. /\ row \in Item /\ row.status = item[e].status
          /\ row.version = item[e].version /\ row.target = item[e].target
      BY <3>3 DEF Item
    <3> QED
      BY <1>0, <3>2, <3>4
  <2>2. CASE UNCHANGED item
    BY <1>0, <2>2
  <2> QED
    BY <2>1, <2>2 DEF Notify, ReadNotices, PostNotice, DrainFails
<1>3. /\ notifier' \in Notifier /\ faults' \in 0..MaxFaults
      /\ announced' \in [Events -> {"nothing", "start", "final"}]
      /\ NoticesAgree'
  <2>1. CASE ReadNotices
    <3>1. StartCandidates \subseteq Events /\ FinalCandidates \subseteq Events
      BY DEF StartCandidates, FinalCandidates
    <3>2. \/ /\ notifier' = [notifier EXCEPT !.pc = "start", !.left = StartCandidates]
             /\ notifier'.pc = "start" /\ notifier'.left = StartCandidates
          \/ /\ notifier' = [notifier EXCEPT !.pc = "final", !.left = FinalCandidates]
             /\ notifier'.pc = "final" /\ notifier'.left = FinalCandidates
      BY <1>0, <2>1 DEF ReadNotices, Notifier
    <3>3. notifier' \in Notifier
      BY <1>0, <3>1, <3>2 DEF Notifier
    <3>4. UNCHANGED <<item, announced, faults>>
      BY <2>1 DEF ReadNotices
    <3>5. NoticesAgree'
      BY <1>0, <3>2, <3>4 DEF NoticesAgree, StartCandidates, FinalCandidates, Ended
    <3> QED
      BY <1>0, <3>3, <3>4, <3>5
  <2>2. CASE \E e \in Events : PostNotice(e)
    <3>1. PICK e \in Events : PostNotice(e)
      BY <2>2
    <3>2. /\ notifier' = [notifier EXCEPT !.left = @ \ {e}, !.posted = e]
          /\ e \in notifier.left /\ UNCHANGED <<item, faults>>
          /\ announced' = [announced EXCEPT ![e] = notifier.pc]
      BY <3>1 DEF PostNotice
    <3>3. notifier' \in Notifier /\ notifier'.pc = notifier.pc
          /\ notifier'.left = notifier.left \ {e}
      BY <1>0, <3>2 DEF Notifier
    <3>4. notifier.pc \in {"start", "final"}
      BY <1>0, <3>2 DEF NoticesAgree, Notifier
    <3>5. /\ announced' \in [Events -> {"nothing", "start", "final"}]
          /\ announced'[e] = notifier.pc
          /\ \A f \in Events \ {e} : announced'[f] = announced[f]
      BY <1>0, <3>2, <3>4
    <3>6. NoticesAgree'
      BY <1>0, <3>2, <3>3, <3>4, <3>5 DEF NoticesAgree, Notifier
    <3> QED
      BY <1>0, <3>2, <3>3, <3>5, <3>6
  <2>3. CASE RecordNotice
    <3>1. UNCHANGED <<announced, faults>>
      BY <2>3 DEF RecordNotice
    <3>2. \/ notifier' = Resting
          \/ notifier' = [notifier EXCEPT !.posted = NoEvent]
      BY <2>3 DEF RecordNotice
    <3>3. notifier' \in Notifier
      BY <1>0, <3>2 DEF Notifier
    <3>4. notifier'.left = {} \/ (notifier'.pc = notifier.pc /\ notifier'.left = notifier.left)
      BY <1>0, <3>2 DEF Notifier, Resting
    <3>5. NoticesAgree'
      BY <1>0, <1>2, <3>1, <3>3, <3>4 DEF NoticesAgree, Notifier
    <3> QED
      BY <1>0, <3>1, <3>3, <3>5
  <2>4. CASE DrainFails
    <3>1. /\ notifier' = Resting /\ UNCHANGED <<item, announced>> /\ faults' \in 0..MaxFaults
          /\ notifier'.left = {}
      BY <1>0, <2>4 DEF DrainFails, Resting
    <3> QED
      BY <1>0, <3>1 DEF NoticesAgree
  <2> QED
    BY <2>1, <2>2, <2>3, <2>4 DEF Notify
<1>4. InboxTypeOK'
  BY <1>1, <1>2 DEF IInv, TypeOK, InboxTypeOK
<1>5. InboxAgrees'
  BY <1>1, <1>2 DEF IInv, InboxAgrees, ConsumerAgrees, ItemAgrees, Untouched
<1>6. TypeOK'
  BY <1>1, <1>3, <1>4 DEF IInv, TypeOK
<1>7. /\ \A e \in Events : EventAgrees(e)'
      /\ \A t \in Threads : OwnerAgrees(t)'
  BY <1>1, <1>2, EventsKept
<1> QED
  BY <1>3, <1>5, <1>6, <1>7 DEF IInv, RouterAgrees

LEMMA GrokEndsStep ==
  ASSUME IInv, GrokEnds
  PROVE  IInv'
<1>1. UNCHANGED <<inboxVars, item, message, handler, acked, dedup, owner, grokInFlight, grokRuns,
                  proposals, answers, receipts, refusals, notifier, announced, faults>>
      /\ grokRunning' = {}
  BY DEF GrokEnds, inboxVars, replyVars, noticeVars
<1>2. InboxTypeOK' /\ InboxAgrees'
  BY <1>1, InboxKept
<1>3. TypeOK'
  BY <1>1, <1>2 DEF IInv, TypeOK
<1>4. /\ \A e \in Events : EventAgrees(e)'
      /\ \A t \in Threads : OwnerAgrees(t)'
  BY <1>1, EventsKept
<1>5. NoticesAgree'
  BY <1>1 DEF IInv, RouterAgrees, NoticesAgree
<1> QED
  BY <1>2, <1>3, <1>4, <1>5 DEF IInv, RouterAgrees

LEMMA CrashStep ==
  ASSUME IInv, Crash
  PROVE  IInv'
<1>1. /\ UNCHANGED <<inboxVars, item, message, acked, dedup, owner, grokRunning, grokRuns,
                     proposals, answers, receipts, refusals, announced>>
      /\ grokInFlight' = FALSE /\ notifier' = Resting
  BY DEF Crash, inboxVars, effectVars, replyVars
<1>2. InboxTypeOK' /\ InboxAgrees'
  BY <1>1, InboxKept
<1>3. /\ handler' \in [Events -> [Slots -> Steps]]
      /\ \A e \in Events, d \in Slots : handler'[e][d] \in {"none", "over"}
  BY DEF Crash, Steps
<1>4. faults' \in 0..MaxFaults /\ Resting \in Notifier /\ Resting.left = {}
  BY RouterAssumption DEF Crash, IInv, TypeOK, Resting, Notifier
<1>5. TypeOK'
  BY <1>1, <1>2, <1>3, <1>4 DEF IInv, TypeOK
<1>6. ASSUME NEW e \in Events PROVE EventAgrees(e)'
  <2>1. EventAgrees(e)
    BY DEF IInv, RouterAgrees
  <2>2. \A d \in Slots : ~ Works(e, d)'
    BY <1>3 DEF Works, Working
  <2>3. Leaving(e)' => Leaving(e)
    BY <1>1, <1>3 DEF Leaving
  <2>4. Thread(e)' = Thread(e) /\ HasItem(e)' = HasItem(e) /\ OwnerDoesAll(e)' = OwnerDoesAll(e)
        /\ Opens(e)' = Opens(e)
    BY <1>1 DEF Thread, HasItem, OwnerDoesAll, Opens, Proper
  <2> QED
    BY <1>1, <2>1, <2>2, <2>3, <2>4 DEF EventAgrees, NothingDone
<1>7. \A t \in Threads : OwnerAgrees(t)'
  BY <1>1 DEF IInv, RouterAgrees, OwnerAgrees, Thread
<1>8. NoticesAgree'
  BY <1>1, <1>4 DEF IInv, RouterAgrees, NoticesAgree
<1> QED
  BY <1>2, <1>5, <1>6, <1>7, <1>8 DEF IInv, RouterAgrees

-----------------------------------------------------------------------------
(* The work, the answers and the notices that Handoff sees.                *)

LEMMA FirstRun ==
  ASSUME IInv, NEW e \in Events, NEW agent \in Owners, e \in dedup,
         owner[Thread(e)] = agent, agent \in {"hermes", "ana"} => StageOf(e) = "taken",
         hermesRuns[e] = 0, grokRuns[e] = 0, proposals[e] = 0,
         RunsOf(e, agent)' = 1,
         \A b \in Owners \ {agent} : RunsOf(e, b)' = RunsOf(e, b),
         \A x \in Events \ {e}, b \in Owners : RunsOf(x, b)' = RunsOf(x, b),
         \A x \in Events : /\ item'[x].status = item[x].status
                           /\ item'[x].version = item[x].version
                           /\ lifecycle'[x] = lifecycle[x],
         UNCHANGED <<message, owner, dedup, acked, replyVars, announced>>
  PROVE  Promised
<1>1. \A b \in Owners : RunsOf(e, b) = 0
  BY DEF RunsOf
<1>2. /\ \A b \in Owners : Worked[e][b] = 0
      /\ Worked' = [Worked EXCEPT ![e][agent] = 1]
  BY <1>1, WorksOnce
<1>3. UNCHANGED <<Texts, Stages, Unplanned, Promise!replyVars>>
  BY TextsKept, StagesKept DEF Unplanned, replyVars, Promise!replyVars
<1>4. Promise!Agent(e) = agent /\ Stages[e] = StageOf(e)
  BY TextOf DEF Stages
<1>5. Promise!Work(e, agent)
  BY <1>2, <1>3, <1>4 DEF Promise!Work
<1> QED
  BY <1>5 DEF Promised, Promise!Next

\* Who works on a message that is none of Hermes or Ana has not run a model.
LEMMA NoGateway ==
  ASSUME IInv, NEW e \in Events, owner[Thread(e)] \in {"grok", "codex"}
  PROVE  hermesRuns[e] = 0
<1>1. item[e] \in Item /\ OwnerDoesAll(e) /\ ItemAgrees(e)
  BY DEF IInv, TypeOK, InboxTypeOK, RouterAgrees, EventAgrees, InboxAgrees
<1>2. item[e].status = "none"
  BY <1>1 DEF OwnerDoesAll, Item
<1> QED
  BY <1>1, <1>2 DEF ItemAgrees, Untouched

LEMMA CountedMaps ==
  ASSUME IInv, RepliesAgree, NEW e \in Events, NEW d \in Slots,
         RelayCodex(e, d) \/ GrokAccepts(e, d) \/ PostAnswer(e, d)
  PROVE  Promised
<1>1. /\ grokRuns \in [Events -> Nat] /\ proposals \in [Events -> Nat]
      /\ answers \in [Events -> Nat] /\ {"grok", "codex"} \subseteq Owners
      /\ item[e].target \in {"hermes", "ana"}
  BY DEF IInv, TypeOK, Owners, InboxTypeOK, Item
<1>2. UNCHANGED <<item, lifecycle, hermesRuns, message, owner, dedup, announced>>
  BY DEF RelayCodex, GrokAccepts, PostAnswer, inboxVars, missionVars, noticeVars
<1>3. \A x \in Events : SameItem(x)
  BY <1>2 DEF SameItem
<1>4. CASE RelayCodex(e, d)
  <2>1. Works(e, d) /\ handler[e][d] = "codex"
    BY <1>4 DEF RelayCodex, At, Works, Working
  <2>2. e \in dedup /\ proposals[e] = 0 /\ grokRuns[e] = 0 /\ owner[Thread(e)] = "codex"
    BY <2>1, WorkIsOnRecord DEF StepAgrees
  <2>3. UNCHANGED <<acked, grokRuns, replyVars>>
    BY <1>4 DEF RelayCodex
  <2>4. CASE proposals' = proposals
    BY <1>2, <1>3, <2>3, <2>4, NothingSeen
  <2>5. CASE proposals' = Bump(proposals, e)
    <3>1. proposals'[e] = 1 /\ \A x \in Events \ {e} : proposals'[x] = proposals[x]
      BY <1>1, <2>2, <2>5, Bumped
    <3>2. hermesRuns[e] = 0
      BY <2>2, NoGateway
    <3>3. /\ RunsOf(e, "codex")' = 1
          /\ \A b \in Owners \ {"codex"} : RunsOf(e, b)' = RunsOf(e, b)
      BY <1>1, <1>2, <2>3, <3>1, OthersRest
    <3>4. \A x \in Events \ {e}, b \in Owners : RunsOf(x, b)' = RunsOf(x, b)
      BY <1>2, <2>3, <3>1, RunsKept
    <3> QED
      BY <1>1, <1>2, <2>2, <2>3, <3>2, <3>3, <3>4, FirstRun
  <2> QED
    BY <1>4, <2>4, <2>5 DEF RelayCodex
<1>5. CASE GrokAccepts(e, d)
  <2>1. Works(e, d) /\ handler[e][d] = "grok"
    BY <1>5 DEF GrokAccepts, At, Works, Working
  <2>2. e \in dedup /\ proposals[e] = 0 /\ grokRuns[e] = 0 /\ owner[Thread(e)] = "grok"
    BY <2>1, WorkIsOnRecord DEF StepAgrees
  <2>3. UNCHANGED <<acked, proposals, replyVars>>
    BY <1>5 DEF GrokAccepts
  <2>4. grokRuns'[e] = 1 /\ \A x \in Events \ {e} : grokRuns'[x] = grokRuns[x]
    BY <1>1, <1>5, <2>2, Bumped DEF GrokAccepts
  <2>5. hermesRuns[e] = 0
    BY <2>2, NoGateway
  <2>6. /\ RunsOf(e, "grok")' = 1
        /\ \A b \in Owners \ {"grok"} : RunsOf(e, b)' = RunsOf(e, b)
    BY <1>1, <1>2, <2>3, <2>4, OthersRest
  <2>7. \A x \in Events \ {e}, b \in Owners : RunsOf(x, b)' = RunsOf(x, b)
    BY <1>2, <2>3, <2>4, RunsKept
  <2> QED
    BY <1>1, <1>2, <2>2, <2>3, <2>5, <2>6, <2>7, FirstRun
<1>6. CASE PostAnswer(e, d)
  <2>1. Works(e, d)
    BY <1>6 DEF PostAnswer, At, Works, Working
  <2>2. e \in dedup /\ answers[e] = 0
    BY <2>1, WorkIsOnRecord
  <2>3. receipts[e] = 0
    <3>1. lifecycle[e] = "absent" /\ EventReplies(e)
      BY <2>1 DEF RepliesAgree, EventReplies, StepReplies, Works
    <3>2. receipts[e] \in Nat
      BY DEF IInv, TypeOK
    <3> QED
      BY <3>1, <3>2 DEF EventReplies
  <2>4. answers' = [answers EXCEPT ![e] = 1]
    BY <1>1, <1>6, <2>2 DEF PostAnswer, Bump
  <2>5. UNCHANGED <<acked, grokRuns, proposals, receipts, refusals>>
    BY <1>6 DEF PostAnswer
  <2>6. UNCHANGED <<Texts, Stages, Unplanned, Worked>>
    BY <1>2, <1>3, <2>5, TextsKept, StagesKept, WorksKept DEF SameItem, Unplanned
  <2>7. Promise!Answer(e)
    BY <1>2, <2>2, <2>3, <2>4, <2>5, <2>6 DEF Promise!Answer
  <2> QED
    BY <2>7 DEF Promised, Promise!Next
<1> QED
  BY <1>4, <1>5, <1>6

LEMMA NoticeMaps ==
  ASSUME IInv, Notify \/ DrainFails
  PROVE  Promised
<1>0. /\ item \in [Events -> Item] /\ notifier \in Notifier
      /\ announced \in [Events -> {"nothing", "start", "final"}]
      /\ NoticesAgree
  BY DEF IInv, TypeOK, InboxTypeOK, RouterAgrees
<1>1. UNCHANGED <<lifecycle, hermesRuns, message, acked, dedup, owner, grokRuns, proposals,
                  replyVars>>
  BY DEF Notify, ReadNotices, PostNotice, RecordNotice, DrainFails, notifierUnchanged,
     missionVars, effectVars
<1>2. CASE \E e \in Events : PostNotice(e)
  <2>1. PICK e \in Events : PostNotice(e)
    BY <1>2
  <2>2. e \in notifier.left /\ announced' = [announced EXCEPT ![e] = notifier.pc]
        /\ UNCHANGED item
    BY <2>1 DEF PostNotice
  <2>3. /\ notifier.pc \in {"start", "final"}
        /\ notifier.pc = "start" => announced[e] # "final"
        /\ notifier.pc = "final" => item[e].status \in Ended
    BY <1>0, <2>2 DEF NoticesAgree, Notifier
  <2>4. UNCHANGED <<Texts, Stages, Unplanned, Worked, Promise!replyVars>>
    BY <1>1, <2>2, TextsKept, StagesKept, WorksKept DEF Unplanned, replyVars, Promise!replyVars
  <2>5. item[e].status \in Ended => Stages[e] = "closed"
    BY DEF Stages, StageOf, Ended
  <2>6. Promise!Announce(e, notifier.pc)
    BY <1>1, <2>2, <2>3, <2>4, <2>5 DEF Promise!Announce
  <2> QED
    BY <2>3, <2>6 DEF Promised, Promise!Next
<1>3. CASE RecordNotice
  <2>1. PICK e \in Events : e = notifier.posted
    BY <1>0, <1>3 DEF RecordNotice, Notifier
  <2>2. PICK row \in {[item[e] EXCEPT !.started = TRUE], [item[e] EXCEPT !.notified = TRUE]} :
          item' = [item EXCEPT ![e] = row]
    BY <1>0, <1>3, <2>1 DEF RecordNotice
  <2>3. item[e] \in Item
    BY <1>0
  <2>4. /\ row.status = item[e].status /\ row.version = item[e].version
        /\ row.target = item[e].target
    BY <2>3 DEF Item
  <2>5. \A x \in Events : SameItem(x)
    BY <1>0, <1>1, <2>2, <2>4 DEF SameItem
  <2>6. UNCHANGED announced
    BY <1>3 DEF RecordNotice
  <2> QED
    BY <1>1, <2>5, <2>6, NothingSeen
<1>4. CASE ReadNotices \/ DrainFails
  <2>1. UNCHANGED <<item, announced>>
    BY <1>4 DEF ReadNotices, DrainFails
  <2>2. \A x \in Events : SameItem(x)
    BY <1>1, <2>1 DEF SameItem
  <2> QED
    BY <1>1, <2>1, <2>2, NothingSeen
<1> QED
  BY <1>2, <1>3, <1>4 DEF Notify

\* The death of the Grok worker or of the router promises nothing and breaks no
\* promise.
LEMMA UnseenSteps ==
  ASSUME IInv, GrokEnds \/ Crash \/ UNCHANGED vars
  PROVE  Promised
<1>1. UNCHANGED <<item, lifecycle, hermesRuns, message, acked, dedup, owner, grokRuns,
                  proposals, replyVars, announced>>
  BY DEF GrokEnds, Crash, vars, inboxVars, missionVars, routerVars, effectVars, noticeVars
<1>2. \A x \in Events : SameItem(x)
  BY <1>1 DEF SameItem
<1> QED
  BY <1>1, <1>2, NothingSeen

LEMMA GatewayMaps ==
  ASSUME IInv, Gateway
  PROVE  Promised
<1>0. /\ item \in [Events -> Item] /\ hermesRuns \in [Events -> Nat]
      /\ grokRuns \in [Events -> Nat] /\ proposals \in [Events -> Nat]
  BY DEF IInv, TypeOK, InboxTypeOK
<1>1. UNCHANGED <<message, acked, dedup, owner, grokRuns, proposals, replyVars, announced>>
  BY DEF Gateway, routerVars, effectVars, noticeVars
<1>2. ItemsGoOn
  BY InboxStep DEF IInv, TypeOK, Gateway
<1>3. PICK e \in Events :
        /\ Rests(e) \/ IsTaken(e) \/ IsRun(e) \/ IsClosed(e) \/ IsMoved(e)
        /\ \A x \in Events \ {e} : Rests(x)
  BY OneItemGoesOn DEF IInv, TypeOK, Gateway
<1>4. UNCHANGED <<Texts, answers, receipts, refusals, Promise!replyVars>>
  BY <1>1, TextsKept DEF replyVars, Promise!replyVars
<1>5. \A x \in Events \ {e} : item'[x].status = item[x].status /\ SameItem(x)
  BY <1>2, <1>3 DEF Rests, ItemsGoOn, SameItem
<1>6. ~ IsRun(e) => UNCHANGED Worked
  BY <1>1, <1>2, <1>3, <1>5, WorksKept
     DEF Rests, IsTaken, IsClosed, IsMoved, SameItem, ItemsGoOn
<1>7. ~ IsMoved(e) => UNCHANGED Unplanned
  BY <1>2, <1>3, <1>5 DEF Rests, IsTaken, IsRun, IsClosed, SameItem, ItemsGoOn, Unplanned
<1>8. CASE Rests(e)
  BY <1>1, <1>2, <1>5, <1>8, NothingSeen DEF Rests, SameItem, ItemsGoOn
<1>9. CASE IsTaken(e)
  <2>1. Stages' = [Stages EXCEPT ![e] = "taken"] /\ Stages[e] = "waiting"
    BY <1>5, <1>9, StagesAfter DEF IsTaken, StageOf, Stages
  <2>2. ~ IsRun(e) /\ UNCHANGED Unplanned
    BY <1>2, <1>5, <1>9 DEF IsTaken, IsRun, Unplanned, SameItem, ItemsGoOn
  <2>3. Promise!Take(e)
    BY <1>1, <1>4, <1>6, <2>1, <2>2 DEF Promise!Take
  <2> QED
    BY <2>3 DEF Promised, Promise!Next
<1>10. CASE IsClosed(e)
  <2>1. Stages' = [Stages EXCEPT ![e] = "closed"] /\ Stages[e] = "taken"
    BY <1>5, <1>10, StagesAfter DEF IsClosed, StageOf, Stages, Ended
  <2>2. ~ IsRun(e) /\ UNCHANGED Unplanned /\ e \notin Unplanned
    BY <1>2, <1>5, <1>10 DEF IsClosed, IsRun, Unplanned, SameItem, ItemsGoOn, Ended
  <2>3. Promise!Close(e)
    BY <1>1, <1>4, <1>6, <2>1, <2>2 DEF Promise!Close
  <2> QED
    BY <2>3 DEF Promised, Promise!Next
<1>11. CASE IsMoved(e)
  <2>1. UNCHANGED Stages /\ UNCHANGED Worked
    BY <1>1, <1>2, <1>5, <1>11, StagesKept, WorksKept DEF IsMoved, SameItem, ItemsGoOn
  <2>2. Unplanned' \in {Unplanned, Unplanned \ {e}}
    BY <1>2, <1>5, <1>11 DEF IsMoved, SameItem, ItemsGoOn, Unplanned
  <2>3. Promise!Plan(e) \/ UNCHANGED Promise!vars
    BY <1>1, <1>4, <2>1, <2>2 DEF Promise!Plan, Promise!vars
  <2> QED
    BY <2>3 DEF Promised, Promise!Next
<1>12. CASE IsRun(e)
  <2>1. item[e].status = "processing" /\ item[e] \in Item
    BY <1>0, <1>12 DEF IsRun
  <2>2. PICK agent \in {"hermes", "ana"} : agent = item[e].target
    BY <2>1 DEF Item
  <2>3. /\ EventAgrees(e) /\ owner[Thread(e)] = agent /\ agent \in Owners
        /\ e \in dedup
    BY <2>1, <2>2 DEF IInv, RouterAgrees, EventAgrees, OwnerDoesAll, NothingDone, Owners
  <2>4. grokRuns[e] = 0 /\ proposals[e] = 0
    BY <1>0, <2>3 DEF EventAgrees, OwnerDoesAll
  <2>5. hermesRuns[e] = 0 /\ hermesRuns'[e] = 1 /\ StageOf(e) = "taken"
    BY <1>12 DEF IsRun, StageOf
  <2>6. /\ RunsOf(e, agent)' = 1
        /\ \A b \in Owners \ {agent} : RunsOf(e, b)' = RunsOf(e, b)
    BY <1>1, <1>2, <2>2, <2>5 DEF RunsOf, ItemsGoOn
  <2>7. \A x \in Events \ {e}, b \in Owners : RunsOf(x, b)' = RunsOf(x, b)
    BY <1>1, <1>5, RunsKept DEF SameItem
  <2>8. \A x \in Events : /\ item'[x].status = item[x].status
                          /\ item'[x].version = item[x].version
                          /\ lifecycle'[x] = lifecycle[x]
    BY <1>2, <1>5, <1>12 DEF IsRun, ItemsGoOn, SameItem
  <2> QED
    BY <1>1, <2>3, <2>4, <2>5, <2>6, <2>7, <2>8, FirstRun
<1> QED
  BY <1>3, <1>8, <1>9, <1>10, <1>11, <1>12

-----------------------------------------------------------------------------
(* Missions, commands and their replies.                                   *)

\* The work and the answers of an event that is no mission are not its concern.
SameMission(e) ==
  lifecycle[e] # "absent" => /\ item'[e].target = item[e].target
                             /\ grokRuns'[e] = grokRuns[e] /\ proposals'[e] = proposals[e]
                             /\ answers'[e] = answers[e]

LEMMA RepliesKept ==
  ASSUME NEW e \in Events, EventReplies(e), message' = message, SameMission(e),
         \A x \in Slots : handler'[e][x] = handler[e][x] \/ StepReplies(e, handler'[e][x]),
         lifecycle'[e] = "absent" <=> lifecycle[e] = "absent",
         receipts'[e] = receipts[e] \/ lifecycle[e] # "absent",
         refusals'[e] = refusals[e] \/ ~ Opens(e),
         e \in dedup' => e \in dedup \/ ~ (Opens(e) /\ IsCommand(e))
  PROVE  EventReplies(e)'
<1>1. Opens(e)' = Opens(e) /\ IsCommand(e)' = IsCommand(e)
  BY DEF Opens, Proper, IsCommand
<1>2. ASSUME NEW x \in Slots PROVE StepReplies(e, handler[e][x])'
  <2>1. StepReplies(e, handler'[e][x])
    BY DEF EventReplies
  <2> QED
    BY <1>1, <2>1 DEF StepReplies
<1> QED
  BY <1>1, <1>2 DEF EventReplies, SameMission

\* A step of a handler that leaves the missions alone.
LEMMA RepliesMove ==
  ASSUME IInv, RepliesAgree, NEW e \in Events, NEW d \in Slots, NEW s \in Steps,
         Moves(e, d, s), StepReplies(e, s), UNCHANGED <<message, lifecycle>>,
         \A x \in Events : /\ SameMission(x)
                           /\ receipts'[x] = receipts[x] \/ lifecycle[x] # "absent"
                           /\ refusals'[x] = refusals[x] \/ ~ Opens(x)
                           /\ x \in dedup' => x \in dedup \/ ~ (Opens(x) /\ IsCommand(x))
  PROVE  RepliesAgree'
<1>1. /\ handler'[e][d] = s
      /\ \A x \in Slots \ {d} : handler'[e][x] = handler[e][x]
      /\ \A f \in Events \ {e} : handler'[f] = handler[f]
  BY MovesTo DEF IInv
<1>2. \A f \in Events, x \in Slots :
        handler'[f][x] = handler[f][x] \/ StepReplies(f, handler'[f][x])
  BY <1>1
<1>3. \A f \in Events : EventReplies(f)'
  BY <1>2, RepliesKept DEF RepliesAgree
<1> QED
  BY <1>3 DEF RepliesAgree

\* The command that opens a thread finds it without owner or as its own mission's.
LEMMA CommandThread ==
  ASSUME IInv, NEW e \in Events, EventReplies(e), Opens(e), IsCommand(e)
  PROVE  owner[Thread(e)] \in {NoOwner, "hermes"}
<1>1. SUFFICES ASSUME owner[Thread(e)] # NoOwner PROVE owner[Thread(e)] = "hermes"
  OBVIOUS
<1>2. TypeOK /\ Thread(e) \in Threads /\ dedup \subseteq Events
  BY MessageTypes DEF IInv, TypeOK
<1>3. PICK r \in dedup : message[r].root /\ Thread(r) = Thread(e)
  BY <1>1, <1>2 DEF IInv, RouterAgrees, OwnerAgrees
<1>4. e \in dedup
  BY <1>2, <1>3, OneRoot DEF Opens
<1>5. lifecycle[e] # "absent" /\ item[e].target = "hermes"
  BY <1>4 DEF EventReplies
<1>6. item[e].status # "none"
  BY <1>5, MissionIsOnRecord
<1> QED
  BY <1>5, <1>6 DEF IInv, RouterAgrees, EventAgrees, OwnerDoesAll

LEMMA AdmitReplies ==
  ASSUME IInv, RepliesAgree, NEW e \in Events, NEW d \in Slots, AdmitMission(e, d)
  PROVE  RepliesAgree'
<1> DEFINE owners == OwnerAfter(e, "hermes")
<1> DEFINE admits == /\ lifecycle[e] = "absent" /\ e \notin dedup
                     /\ message[e].route = "mission" /\ owners[Thread(e)] = "hermes"
<1>1. /\ EventReplies(e) /\ handler[e][d] = "admitting" /\ IsCommand(e)
      /\ {"admitted", "refusing"} \subseteq Steps /\ message' = message /\ TypeOK
      /\ InboxTypeOK /\ item \in [Events -> Item]
  BY DEF RepliesAgree, EventReplies, StepReplies, AdmitMission, At, Steps, IInv, TypeOK,
     InboxTypeOK
<1>2. UNCHANGED <<grokRuns, proposals, answers, receipts, refusals>>
  BY DEF AdmitMission, effectVars, replyVars
<1>3. CASE ~ admits
  <2>1. UNCHANGED <<lifecycle, dedup, item>>
    BY <1>3 DEF AdmitMission, missionVars
  <2>2. PICK s \in {"admitted", "refusing"} :
          Moves(e, d, s) /\ (s = "refusing" <=> lifecycle[e] = "absent")
    BY <1>3 DEF AdmitMission
  <2>3. lifecycle[e] = "absent" => ~ Opens(e)
    <3>1. SUFFICES ASSUME lifecycle[e] = "absent", Opens(e) PROVE FALSE
      OBVIOUS
    <3>2. e \notin dedup
      BY <1>1, <3>1 DEF EventReplies
    <3>3. message[e].route = "mission"
      BY <1>1, <3>1 DEF Opens, Proper, IsCommand, Commands
    <3>4. owners[Thread(e)] = "hermes"
      BY <3>1, <3>2, OwnersAfter DEF Opens, Owners
    <3> QED
      BY <1>3, <3>1, <3>2, <3>3, <3>4
  <2>4. StepReplies(e, s)
    BY <2>2, <2>3 DEF StepReplies, Working
  <2>5. \A x \in Events : SameMission(x)
    BY <1>2, <2>1 DEF SameMission
  <2> QED
    BY <1>1, <1>2, <2>1, <2>2, <2>4, <2>5, RepliesMove
<1>4. CASE admits
  <2>1. /\ Store!Admit(e) /\ dedup' = dedup \cup {e} /\ Moves(e, d, "admitted")
        /\ item' = [item EXCEPT ![e] = NewItem("hermes", 2, "async")]
    BY <1>4 DEF AdmitMission
  <2>2. /\ handler'[e][d] = "admitted"
        /\ \A x \in Slots \ {d} : handler'[e][x] = handler[e][x]
        /\ \A f \in Events \ {e} : handler'[f] = handler[f]
    BY <1>1, <2>1, MovesTo
  <2>3. lifecycle'[e] # "absent" /\ \A f \in Events \ {e} : lifecycle'[f] = lifecycle[f]
    BY <1>1, <2>1 DEF Store!Admit, InboxTypeOK
  <2>4. NothingDone(e)
    BY <1>4 DEF IInv, RouterAgrees, EventAgrees
  <2>5. Opens(e)' = Opens(e) /\ IsCommand(e)' = IsCommand(e)
    BY <1>1 DEF Opens, Proper, IsCommand
  <2>6. ASSUME NEW x \in Slots PROVE StepReplies(e, handler[e][x])'
    <3>1. StepReplies(e, handler[e][x]) /\ handler[e][x] \notin Working
      BY <1>1, <2>4 DEF EventReplies, NothingDone, Works
    <3>2. handler'[e][x] \in {handler[e][x], "admitted"}
      BY <2>2
    <3> QED
      BY <2>3, <2>5, <3>1, <3>2 DEF StepReplies, Working
  <2>7. item'[e].target = "hermes" /\ \A f \in Events \ {e} : item'[f] = item[f]
    BY <1>1, <2>1 DEF NewItem
  <2>8. EventReplies(e)'
    BY <1>1, <1>2, <2>3, <2>4, <2>5, <2>6, <2>7 DEF EventReplies, NothingDone
  <2>9. \A f \in Events \ {e} : SameMission(f)
    BY <1>2, <2>7 DEF SameMission
  <2>10. \A f \in Events \ {e} : EventReplies(f)'
    BY <1>1, <1>2, <2>1, <2>2, <2>3, <2>9, RepliesKept DEF RepliesAgree
  <2> QED
    BY <2>8, <2>10 DEF RepliesAgree
<1> QED
  BY <1>3, <1>4

LEMMA HandlerReplies ==
  ASSUME IInv, RepliesAgree, NEW e \in Events, NEW d \in Slots, Deliver(e, d) \/ Handle(e, d)
  PROVE  RepliesAgree'
<1>1. /\ EventReplies(e) /\ StepReplies(e, handler[e][d]) /\ message' = message
      /\ grokRuns \in [Events -> Nat] /\ proposals \in [Events -> Nat]
      /\ answers \in [Events -> Nat] /\ receipts \in [Events -> Nat]
      /\ refusals \in [Events -> Nat] /\ item \in [Events -> Item]
  BY DEF RepliesAgree, EventReplies, IInv, TypeOK, InboxTypeOK, Deliver, Handle, ReadThread,
     AdmitMission, AcceptMission, PostReceipt, PostRefusal, Prepare, Dispatch, RelayInbox,
     RelayCodex, GrokAccepts, GrokReturns, PostAnswer, Return
<1>2. CASE AdmitMission(e, d)
  BY <1>2, AdmitReplies
<1>3. CASE \/ Deliver(e, d) \/ ReadThread(e, d) \/ AcceptMission(e, d) \/ Dispatch(e, d)
           \/ RelayInbox(e, d) \/ GrokReturns(e, d) \/ Return(e, d)
  <2>1. UNCHANGED <<lifecycle, dedup, grokRuns, proposals, answers, receipts, refusals>>
    BY <1>3 DEF Deliver, ReadThread, AcceptMission, Dispatch, RelayInbox, GrokReturns, Return,
       inboxVars, missionVars, effectVars, replyVars
  <2>2. UNCHANGED item
    <3>1. RelayInbox(e, d) => item[e].status # "none"
      BY WorkIsOnRecord DEF RelayInbox, At, Works, Working, StepAgrees
    <3> QED
      BY <1>3, <3>1 DEF Deliver, ReadThread, AcceptMission, Dispatch, RelayInbox, GrokReturns,
         Return, inboxVars
  <2>3. PICK s \in Steps : Moves(e, d, s) /\ StepReplies(e, s)
    <3>1. CASE Deliver(e, d)
      <4>1. CASE IsCommand(e)
        BY <3>1, <4>1 DEF Deliver, StepReplies, Working, Steps
      <4>2. CASE ~ IsCommand(e)
        BY <3>1, <4>2 DEF Deliver, StepReplies, Working, Steps
      <4> QED
        BY <4>1, <4>2
    <3>2. CASE ReadThread(e, d)
      <4>1. IsCommand(e) /\ (Opens(e) => owner[Thread(e)] \in {NoOwner, "hermes"})
        BY <1>1, <3>2, CommandThread DEF ReadThread, At, StepReplies
      <4>2. CASE owner[Thread(e)] \in {NoOwner, "hermes"}
        BY <3>2, <4>1, <4>2 DEF ReadThread, StepReplies, Working, Steps
      <4>3. CASE owner[Thread(e)] \notin {NoOwner, "hermes"}
        BY <3>2, <4>1, <4>3 DEF ReadThread, StepReplies, Working, Steps
      <4> QED
        BY <4>2, <4>3
    <3>3. CASE AcceptMission(e, d)
      BY <1>1, <3>3 DEF AcceptMission, At, StepReplies, Working, Steps
    <3>4. CASE Dispatch(e, d) \/ RelayInbox(e, d) \/ GrokReturns(e, d)
      <4>1. lifecycle[e] = "absent"
        BY <1>1, <3>4 DEF Dispatch, RelayInbox, GrokReturns, At, StepReplies, Working
      <4>2. PICK s \in {"relay", "codex", "grok", "answering"} : Moves(e, d, s)
        BY <3>4 DEF Dispatch, RelayInbox, GrokReturns
      <4> QED
        BY <4>1, <4>2 DEF StepReplies, Working, Steps
    <3>5. CASE Return(e, d)
      BY <3>5 DEF Return, StepReplies, Working, Steps
    <3> QED
      BY <1>3, <3>1, <3>2, <3>3, <3>4, <3>5
  <2>4. \A x \in Events : SameMission(x)
    BY <2>1, <2>2 DEF SameMission
  <2> QED
    BY <1>1, <2>1, <2>3, <2>4, RepliesMove
<1>4. CASE Prepare(e, d)
  <2>1. UNCHANGED <<lifecycle, grokRuns, proposals, answers, receipts, refusals>>
    BY <1>4 DEF Prepare, missionVars, effectVars, replyVars
  <2>2. ~ (Opens(e) /\ IsCommand(e))
    BY <1>1, <1>4 DEF Prepare, At, StepReplies
  <2>3. e \notin dedup => lifecycle[e] = "absent"
    BY MissionIsOnRecord
  <2>4. PICK s \in {"refusing", "returning", "prepared"} :
          /\ Moves(e, d, s)
          /\ s = "refusing" => ~ Routed(e)
          /\ s = "prepared" => e \notin dedup
    BY <1>4 DEF Prepare, Fresh
  <2>5. StepReplies(e, s) /\ s \in Steps
    BY <2>3, <2>4 DEF StepReplies, Working, Steps, Routed, Opens, Proper
  <2>6. /\ \A x \in Events : x \in dedup' => x \in dedup \/ ~ (Opens(x) /\ IsCommand(x))
        /\ \A x \in Events \ {e} : item'[x] = item[x]
        /\ e \in dedup => item' = item
    BY <1>1, <1>4, <2>2 DEF Prepare, Fresh, InboxWith
  <2>7. \A x \in Events : SameMission(x)
    BY <2>1, <2>3, <2>6 DEF SameMission
  <2> QED
    BY <1>1, <2>1, <2>4, <2>5, <2>6, <2>7, RepliesMove
<1>5. CASE RelayCodex(e, d) \/ GrokAccepts(e, d) \/ PostAnswer(e, d)
  <2>1. UNCHANGED <<lifecycle, item, dedup, receipts, refusals>>
    BY <1>5 DEF RelayCodex, GrokAccepts, PostAnswer, inboxVars, missionVars, replyVars
  <2>2. lifecycle[e] = "absent"
    BY <1>1, <1>5 DEF RelayCodex, GrokAccepts, PostAnswer, At, StepReplies, Working
  <2>3. PICK s \in {"answering", "running", "returning"} : Moves(e, d, s)
    BY <1>5 DEF RelayCodex, GrokAccepts, PostAnswer
  <2>4. StepReplies(e, s) /\ s \in Steps
    BY <2>2, <2>3 DEF StepReplies, Working, Steps
  <2>5. \A x \in Events \ {e} : /\ grokRuns'[x] = grokRuns[x] /\ proposals'[x] = proposals[x]
                               /\ answers'[x] = answers[x]
    BY <1>1, <1>5, Bumped DEF RelayCodex, GrokAccepts, PostAnswer, replyVars
  <2>6. \A x \in Events : SameMission(x)
    BY <2>1, <2>2, <2>5 DEF SameMission
  <2> QED
    BY <1>1, <2>1, <2>3, <2>4, <2>6, RepliesMove
<1>6. CASE PostReceipt(e, d) \/ PostRefusal(e, d)
  <2>1. UNCHANGED <<lifecycle, item, dedup, grokRuns, proposals, answers>>
    BY <1>6 DEF PostReceipt, PostRefusal, inboxVars, missionVars
  <2>2. PICK s \in {"over", "returning"} : Moves(e, d, s)
    BY <1>6 DEF PostReceipt, PostRefusal
  <2>3. StepReplies(e, s) /\ s \in Steps
    BY <2>2 DEF StepReplies, Working, Steps
  <2>4. \A x \in Events : /\ receipts'[x] = receipts[x] \/ lifecycle[x] # "absent"
                          /\ refusals'[x] = refusals[x] \/ ~ Opens(x)
    BY <1>1, <1>6, Bumped DEF PostReceipt, PostRefusal, At, StepReplies
  <2>5. \A x \in Events : SameMission(x)
    BY <2>1 DEF SameMission
  <2> QED
    BY <1>1, <2>1, <2>2, <2>3, <2>4, <2>5, RepliesMove
<1> QED
  BY <1>2, <1>3, <1>4, <1>5, <1>6 DEF Handle

LEMMA RepliesInit == Init => RepliesAgree
<1> SUFFICES ASSUME Init, NEW e \in Events PROVE EventReplies(e)
  BY DEF RepliesAgree
<1>1. \A d \in Slots : handler[e][d] = "none"
  BY DEF Init
<1>2. /\ receipts[e] = 0 /\ refusals[e] = 0 /\ dedup = {}
      /\ lifecycle[e] = "absent"
  BY DEF Init, InboxInit, Store!StoreInit
<1> QED
  BY <1>1, <1>2 DEF EventReplies, StepReplies, Working

LEMMA RepliesNext == IInv /\ RepliesAgree /\ [Next]_vars => RepliesAgree'
<1> SUFFICES ASSUME IInv, RepliesAgree, [Next]_vars PROVE RepliesAgree'
  OBVIOUS
<1>1. CASE \E e \in Events, d \in Slots : Deliver(e, d) \/ Handle(e, d)
  BY <1>1, HandlerReplies
<1>2. CASE Notify \/ DrainFails \/ GrokEnds \/ Crash \/ Gateway \/ UNCHANGED vars
  <2>1. UNCHANGED <<message, dedup, grokRuns, proposals, answers, receipts, refusals>>
    BY <1>2 DEF Notify, ReadNotices, PostNotice, RecordNotice, DrainFails, notifierUnchanged,
       GrokEnds, Crash, Gateway, vars, routerVars, effectVars, replyVars
  <2>2. \A e \in Events, d \in Slots :
          handler'[e][d] = handler[e][d] \/ StepReplies(e, handler'[e][d])
    <3>1. CASE Crash
      BY <3>1 DEF Crash, At, StepReplies, Working
    <3>2. CASE UNCHANGED handler
      BY <3>2
    <3> QED
      BY <1>2, <3>1, <3>2 DEF Notify, ReadNotices, PostNotice, RecordNotice, DrainFails,
         notifierUnchanged, GrokEnds, Gateway, vars, routerVars
  <2>3. \A e \in Events : /\ item'[e].target = item[e].target
                          /\ lifecycle'[e] = "absent" <=> lifecycle[e] = "absent"
    <3>1. CASE Gateway
      BY <3>1, InboxStep DEF IInv, TypeOK, Gateway, ItemsGoOn
    <3>2. CASE RecordNotice
      <4>1. item \in [Events -> Item]
        BY DEF IInv, TypeOK, InboxTypeOK
      <4>2. PICK e \in Events :
              \/ item' = [item EXCEPT ![e].started = TRUE]
              \/ item' = [item EXCEPT ![e].notified = TRUE]
        BY <3>2 DEF RecordNotice, IInv, TypeOK, Notifier
      <4>3. UNCHANGED lifecycle
        BY <3>2 DEF RecordNotice, notifierUnchanged, missionVars
      <4>4. \A x \in Events : item'[x].target = item[x].target
        BY <4>1, <4>2 DEF Item
      <4> QED
        BY <4>3, <4>4
    <3>3. CASE UNCHANGED <<item, lifecycle>>
      BY <3>3
    <3> QED
      BY <1>2, <3>1, <3>2, <3>3 DEF Notify, ReadNotices, PostNotice, DrainFails,
         notifierUnchanged, GrokEnds, Crash, vars, inboxVars, missionVars
  <2>4. \A e \in Events : SameMission(e)
    BY <2>1, <2>3 DEF SameMission
  <2>5. \A e \in Events : EventReplies(e)'
    BY <2>1, <2>2, <2>3, <2>4, RepliesKept DEF RepliesAgree
  <2> QED
    BY <2>5 DEF RepliesAgree
<1> QED
  BY <1>1, <1>2 DEF Next

-----------------------------------------------------------------------------
(* The slot of Grok.                                                       *)

Calling == {"grok", "running"}

\* A handler that does not begin or end a call of the worker.
LEMMA SlotMove ==
  ASSUME TypeOK, GrokSlotIsHeld, NEW e \in Events, NEW d \in Slots, NEW s \in Steps,
         Moves(e, d, s), s \in Calling <=> handler[e][d] \in Calling, UNCHANGED grokInFlight
  PROVE  GrokSlotIsHeld'
<1>1. /\ handler'[e][d] = s
      /\ \A x \in Slots \ {d} : handler'[e][x] = handler[e][x]
      /\ \A f \in Events \ {e} : handler'[f] = handler[f]
  BY MovesTo
<1>2. \A f \in Events, x \in Slots : handler'[f][x] \in Calling <=> handler[f][x] \in Calling
  BY <1>1
<1>3. GrokCalls' = GrokCalls
  BY <1>2 DEF GrokCalls, Calling
<1> QED
  BY <1>3 DEF GrokSlotIsHeld

LEMMA SlotTaken ==
  ASSUME TypeOK, GrokSlotIsHeld, NEW e \in Events, NEW d \in Slots,
         Moves(e, d, "grok"), ~ grokInFlight, grokInFlight' = TRUE
  PROVE  GrokSlotIsHeld'
<1>1. "grok" \in Steps
  BY DEF Steps
<1>2. /\ handler'[e][d] = "grok"
      /\ \A x \in Slots \ {d} : handler'[e][x] = handler[e][x]
      /\ \A f \in Events \ {e} : handler'[f] = handler[f]
  BY <1>1, MovesTo
<1>3. ASSUME NEW f \in Events, NEW x \in Slots PROVE handler[f][x] \notin Calling
  <2>1. <<f, x>> \notin GrokCalls
    BY DEF GrokSlotIsHeld
  <2> QED
    BY <2>1 DEF GrokCalls, Calling
<1>4. \A f \in Events, x \in Slots : handler'[f][x] \in Calling <=> f = e /\ x = d
  BY <1>2, <1>3 DEF Calling
<1>5. <<e, d>> \in GrokCalls'
  BY <1>4 DEF GrokCalls, Calling
<1>6. \A c \in GrokCalls' : c = <<e, d>>
  BY <1>4 DEF GrokCalls, Calling
<1> QED
  BY <1>5, <1>6 DEF GrokSlotIsHeld

LEMMA SlotGivenBack ==
  ASSUME TypeOK, GrokSlotIsHeld, NEW e \in Events, NEW d \in Slots, NEW s \in Steps \ Calling,
         Moves(e, d, s), handler[e][d] \in Calling, grokInFlight' = FALSE
  PROVE  GrokSlotIsHeld'
<1>1. /\ handler'[e][d] = s
      /\ \A x \in Slots \ {d} : handler'[e][x] = handler[e][x]
      /\ \A f \in Events \ {e} : handler'[f] = handler[f]
  BY MovesTo
<1>2. <<e, d>> \in GrokCalls
  BY DEF GrokCalls, Calling
<1>3. ASSUME NEW f \in Events, NEW x \in Slots, handler[f][x] \in Calling
      PROVE  f = e /\ x = d
  <2>1. <<f, x>> \in GrokCalls
    BY <1>3 DEF GrokCalls, Calling
  <2>2. <<f, x>> = <<e, d>>
    BY <1>2, <2>1 DEF GrokSlotIsHeld
  <2> QED
    BY <2>2
<1>4. \A f \in Events, x \in Slots : handler'[f][x] \notin Calling
  BY <1>1, <1>3
<1>5. GrokCalls' = {}
  BY <1>4 DEF GrokCalls, Calling
<1> QED
  BY <1>5 DEF GrokSlotIsHeld

LEMMA SlotNext == TypeOK /\ GrokSlotIsHeld /\ [Next]_vars => GrokSlotIsHeld'
<1> SUFFICES ASSUME TypeOK, GrokSlotIsHeld, [Next]_vars PROVE GrokSlotIsHeld'
  OBVIOUS
<1>1. ASSUME NEW e \in Events, NEW d \in Slots, Deliver(e, d) \/ Handle(e, d)
      PROVE  GrokSlotIsHeld'
  <2>1. CASE /\ Dispatch(e, d) /\ Moves(e, d, "grok")
             /\ ~ grokInFlight /\ grokInFlight' = TRUE
    BY <2>1, SlotTaken
  <2>2. CASE GrokReturns(e, d)
    BY <2>2, SlotGivenBack DEF GrokReturns, At, Calling, Steps
  <2>3. CASE GrokAccepts(e, d)
    BY <2>3, SlotMove DEF GrokAccepts, At, Calling, Steps
  <2>4. CASE Dispatch(e, d) /\ ~ (Moves(e, d, "grok") /\ ~ grokInFlight /\ grokInFlight' = TRUE)
    <3>1. PICK s \in {"relay", "codex", "answering"} : Moves(e, d, s)
      BY <2>4 DEF Dispatch
    <3>2. handler[e][d] = "prepared" /\ UNCHANGED grokInFlight
      BY <2>4 DEF Dispatch, At
    <3> QED
      BY <3>1, <3>2, SlotMove DEF Calling, Steps
  <2>5. CASE \/ Deliver(e, d) \/ ReadThread(e, d) \/ AdmitMission(e, d) \/ AcceptMission(e, d)
             \/ PostReceipt(e, d) \/ PostRefusal(e, d) \/ Prepare(e, d) \/ RelayInbox(e, d)
             \/ RelayCodex(e, d) \/ PostAnswer(e, d) \/ Return(e, d)
    <3>1. handler[e][d] \notin Calling /\ UNCHANGED grokInFlight
      BY <2>5 DEF Deliver, ReadThread, AdmitMission, AcceptMission, PostReceipt, PostRefusal,
         Prepare, RelayInbox, RelayCodex, PostAnswer, Return, At, Calling
    <3>2. PICK s \in Steps \ Calling : Moves(e, d, s)
      BY <2>5 DEF Deliver, ReadThread, AdmitMission, AcceptMission, PostReceipt, PostRefusal,
         Prepare, RelayInbox, RelayCodex, PostAnswer, Return, Steps, Calling
    <3> QED
      BY <3>1, <3>2, SlotMove
  <2> QED
    BY <1>1, <2>1, <2>2, <2>3, <2>4, <2>5 DEF Handle
<1>2. CASE Crash
  <2>1. \A e \in Events, d \in Slots : handler'[e][d] \notin Calling
    BY <1>2 DEF Crash, Calling
  <2>2. GrokCalls' = {} /\ grokInFlight' = FALSE
    BY <1>2, <2>1 DEF GrokCalls, Crash, Calling
  <2> QED
    BY <2>2 DEF GrokSlotIsHeld
<1>3. CASE Notify \/ DrainFails \/ GrokEnds \/ Gateway \/ UNCHANGED vars
  <2>1. UNCHANGED <<handler, grokInFlight>>
    BY <1>3 DEF Notify, ReadNotices, PostNotice, RecordNotice, DrainFails, notifierUnchanged,
       GrokEnds, Gateway, vars, routerVars
  <2> QED
    BY <2>1 DEF GrokSlotIsHeld, GrokCalls
<1> QED
  BY <1>1, <1>2, <1>3 DEF Next

-----------------------------------------------------------------------------
LEMMA RouterInit == Init => IInv
<1> SUFFICES ASSUME Init PROVE IInv
  OBVIOUS
<1>1. InboxTypeOK /\ InboxAgrees
  BY InboxInitTypes DEF Init
<1>2. TypeOK
  <2>1. Resting \in Notifier /\ "none" \in Steps
    BY DEF Resting, Notifier, Steps
  <2>2. handler \in [Events -> [Slots -> Steps]]
    BY <2>1 DEF Init
  <2>3. 0 \in 0..MaxFaults
    BY RouterAssumption
  <2> QED
    BY <1>1, <2>1, <2>2, <2>3 DEF Init, TypeOK
<1>3. \A e \in Events : item[e].status = "none"
  BY DEF Init, InboxInit, NoItem, NewItem
<1>4. ASSUME NEW e \in Events PROVE EventAgrees(e)
  <2>1. \A d \in Slots : handler[e][d] = "none"
    BY DEF Init
  <2>2. e \notin acked /\ e \notin dedup /\ grokRuns[e] = 0 /\ proposals[e] = 0 /\ answers[e] = 0
    BY DEF Init
  <2> QED
    BY <1>3, <2>1, <2>2 DEF EventAgrees, NothingDone, Works, Working, OwnerDoesAll, Leaving
<1>5. \A t \in Threads : OwnerAgrees(t)
  BY DEF Init, OwnerAgrees
<1>6. NoticesAgree
  BY DEF Init, NoticesAgree, Resting
<1> QED
  BY <1>1, <1>2, <1>4, <1>5, <1>6 DEF IInv, RouterAgrees

LEMMA RouterNext == IInv /\ RepliesAgree /\ [Next]_vars => IInv'
<1> SUFFICES ASSUME IInv, RepliesAgree, [Next]_vars PROVE IInv'
  OBVIOUS
<1>1. CASE \E e \in Events, d \in Slots : Deliver(e, d) \/ Handle(e, d)
  BY <1>1, QuietSteps, PostSteps, AdmitStep, PrepareStep, CountedSteps DEF Handle
<1>2. CASE Notify \/ DrainFails
  BY <1>2, NotifierSteps
<1>3. CASE GrokEnds
  BY <1>3, GrokEndsStep
<1>4. CASE Crash
  BY <1>4, CrashStep
<1>5. CASE Gateway
  BY <1>5, GatewayStep
<1>6. CASE UNCHANGED vars
  <2>1. UNCHANGED <<inboxVars, item, message, handler, acked, dedup, owner, grokInFlight,
                    grokRunning, grokRuns, proposals, answers, receipts, refusals, notifier,
                    announced, faults>>
    BY <1>6 DEF vars, inboxVars, routerVars, effectVars, replyVars, noticeVars
  <2>2. InboxTypeOK' /\ InboxAgrees'
    BY <2>1, InboxKept
  <2>3. TypeOK'
    BY <2>1, <2>2 DEF IInv, TypeOK
  <2>4. /\ \A e \in Events : EventAgrees(e)'
        /\ \A t \in Threads : OwnerAgrees(t)'
    BY <2>1, EventsKept
  <2>5. NoticesAgree'
    BY <2>1 DEF IInv, RouterAgrees, NoticesAgree
  <2> QED
    BY <2>2, <2>3, <2>4, <2>5 DEF IInv, RouterAgrees
<1> QED
  BY <1>1, <1>2, <1>3, <1>4, <1>5, <1>6 DEF Next

\* The invariant of the router and the inbox: what is done for an event is done
\* after its row of slack_event_dedup, by one handler, for the owner of its
\* thread; the item of an owned thread is there before the work begins; and a
\* mission is neither dispatched nor, when it opens its thread, refused.
THEOREM RouterInvariance == Spec => [](IInv /\ RepliesAgree)
<1>1. Init => IInv /\ RepliesAgree
  BY RouterInit, RepliesInit
<1>2. IInv /\ RepliesAgree /\ [Next]_vars => (IInv /\ RepliesAgree)'
  BY RouterNext, RepliesNext
<1> QED
  BY <1>1, <1>2, PTL DEF Spec

\* The variables of the router and of the inbox keep their types, whatever
\* Slack repeats and whoever dies.
THEOREM RouterTypeCorrect == Spec => []TypeOK
<1>1. IInv => TypeOK
  BY DEF IInv
<1> QED
  BY <1>1, RouterInvariance, PTL

\* No closed V2 item is left with a queued mission that nothing will plan: the
\* completion moves the mission first and closes the item last.
THEOREM ClosedItemsArePlanned == Spec => []ClosedItemLeavesQueue
<1>1. IInv => ClosedItemLeavesQueue
  BY DEF IInv, InboxAgrees, ItemAgrees, ClosedItemLeavesQueue
<1> QED
  BY <1>1, RouterInvariance, PTL

\* Repeated deliveries, crashes and consumers that die never make two agents, or
\* one agent twice, work on a message, nor answer one twice that was dispatched;
\* and what a command is told at every delivery is never contradicted.
THEOREM OneExecutionPerEvent == Spec => []OneExecution
<1>1. ASSUME IInv, NEW e \in Events
      PROVE  hermesRuns[e] + grokRuns[e] + proposals[e] <= 1 /\ answers[e] <= 1
  <2>1. EventAgrees(e) /\ ItemAgrees(e)
    BY <1>1 DEF IInv, RouterAgrees, InboxAgrees
  <2>2. /\ hermesRuns[e] \in Nat /\ grokRuns[e] \in Nat /\ proposals[e] \in Nat
        /\ answers[e] \in Nat /\ item[e].target \in {"hermes", "ana"}
    BY <1>1 DEF IInv, TypeOK, InboxTypeOK, Item
  <2>3. hermesRuns[e] > 0 => owner[Thread(e)] \in {"hermes", "ana"}
    BY <2>1, <2>2 DEF EventAgrees, OwnerDoesAll, ItemAgrees, Untouched
  <2>4. hermesRuns[e] <= 1 /\ grokRuns[e] <= 1 /\ proposals[e] <= 1 /\ answers[e] <= 1
    BY <2>1 DEF EventAgrees, ItemAgrees
  <2>5. /\ grokRuns[e] > 0 => owner[Thread(e)] = "grok"
        /\ proposals[e] > 0 => owner[Thread(e)] = "codex"
    BY <2>1 DEF EventAgrees, OwnerDoesAll
  <2>6. \/ hermesRuns[e] = 0 /\ grokRuns[e] = 0
        \/ hermesRuns[e] = 0 /\ proposals[e] = 0
        \/ grokRuns[e] = 0 /\ proposals[e] = 0
    BY <2>2, <2>3, <2>5
  <2> QED
    BY <2>2, <2>4, <2>6
<1>2. ASSUME IInv, RepliesAgree, NEW e \in Events
      PROVE  /\ receipts[e] > 0 => /\ lifecycle[e] # "absent" /\ item[e].status # "none"
                                   /\ grokRuns[e] + proposals[e] + answers[e] = 0
             /\ refusals[e] > 0 => ~ (message[e].root /\ Proper(e))
  BY <1>2, MissionIsOnRecord DEF RepliesAgree, EventReplies, Opens
<1>3. IInv /\ RepliesAgree => OneExecution
  BY <1>1, <1>2 DEF OneExecution
<1> QED
  BY <1>3, RouterInvariance, PTL

\* Whatever the texts of a thread ask for, the agent that owns it does all the
\* work the thread ever causes.
THEOREM OneAgentDoesAll == Spec => []OneAgentPerThread
<1>1. IInv => OneAgentPerThread
  BY DEF IInv, RouterAgrees, EventAgrees, OwnerDoesAll, OneAgentPerThread
<1> QED
  BY <1>1, RouterInvariance, PTL

\* An event that opens a thread is on record, with its item, before Slack is
\* told to forget it.
THEOREM AcceptedEventsDurable == Spec => []AcceptedIsDurable
<1>1. ASSUME IInv, NEW e \in acked, message[e].root, Proper(e)
      PROVE  e \in dedup /\ (owner[Thread(e)] \in {"hermes", "ana"} => item[e].status # "none")
  <2>1. e \in Events
    BY <1>1 DEF IInv, TypeOK
  <2> QED
    BY <1>1, <2>1 DEF IInv, RouterAgrees, EventAgrees, Leaving, Opens, HasItem
<1>2. IInv => AcceptedIsDurable
  BY <1>1 DEF AcceptedIsDurable
<1> QED
  BY <1>2, RouterInvariance, PTL

\* Over refusals, time-outs and deaths of router and worker, the slot of Grok is
\* taken exactly while one handler waits for the worker.
THEOREM GrokSlotKept == Spec => []GrokSlotIsHeld
<1>1. Init => GrokSlotIsHeld
  BY DEF Init, GrokSlotIsHeld, GrokCalls
<1>2. TypeOK /\ GrokSlotIsHeld /\ [Next]_vars => GrokSlotIsHeld'
  BY SlotNext
<1> QED
  BY <1>1, <1>2, RouterTypeCorrect, PTL DEF Spec

\* The end of a mission is the last thing announced about it, also when the
\* drain of the notifier fails and begins again.
THEOREM NoticesInOrder == Spec => NoticeOrder
<1>1. ASSUME IInv, [Next]_vars, NEW e \in Events, announced[e] = "final"
      PROVE  announced'[e] = "final"
  <2>1. CASE \E f \in Events : PostNotice(f)
    <3>1. PICK f \in Events : PostNotice(f)
      BY <2>1
    <3>2. f = e => notifier.pc = "final"
      BY <1>1, <3>1 DEF PostNotice, IInv, TypeOK, RouterAgrees, NoticesAgree, Notifier
    <3> QED
      BY <1>1, <3>1, <3>2 DEF PostNotice, IInv, TypeOK
  <2>2. CASE UNCHANGED announced
    BY <1>1, <2>2
  <2>3. (\E f \in Events : PostNotice(f)) \/ UNCHANGED announced
    BY <1>1 DEF Next, vars, routerVars, noticeVars, Deliver, Handle, ReadThread, AdmitMission,
       AcceptMission, PostReceipt, PostRefusal, Prepare, Dispatch, RelayInbox, RelayCodex, GrokAccepts, GrokReturns, PostAnswer, Return,
       Notify, ReadNotices, RecordNotice, DrainFails, GrokEnds, Crash, Gateway
  <2> QED
    BY <2>1, <2>2, <2>3
<1>2. IInv /\ [Next]_vars =>
        [\A e \in Events : announced[e] = "final" => announced'[e] = "final"]_vars
  BY <1>1
<1> QED
  BY <1>2, RouterInvariance, PTL DEF Spec, NoticeOrder

LEMMA HandoffInit == Init => Promise!Init
<1> SUFFICES ASSUME Init PROVE Promise!Init
  OBVIOUS
<1>1. message \in [Events -> Message]
  BY RouterAssumption DEF Init
<1>2. Texts \in [Events -> [thread : Threads, opens : BOOLEAN, proper : BOOLEAN]]
  <2>1. \A e \in Events : Proper(e) \in BOOLEAN
    BY DEF Proper
  <2> QED
    BY <1>1, <2>1 DEF Texts, Thread, Message
<1>3. /\ \A e \in Events : StageOf(e) = "out"
      /\ \A e \in Events, agent \in Owners : RunsOf(e, agent) = 0
  BY DEF Init, InboxInit, NoItem, NewItem, StageOf, RunsOf
<1>4. Stages = [e \in Events |-> "out"] /\ Worked = [e \in Events |-> [a \in Owners |-> 0]]
  BY <1>3 DEF Stages, Worked
<1>5. Unplanned = {}
  BY DEF Init, InboxInit, NoItem, NewItem, Unplanned, Store!StoreInit
<1> QED
  BY <1>2, <1>4, <1>5 DEF Init, Promise!Init

LEMMA HandoffStep == IInv /\ RepliesAgree /\ [Next]_vars => [Promise!Next]_(Promise!vars)
<1> SUFFICES ASSUME IInv, RepliesAgree, [Next]_vars PROVE Promised
  BY DEF Promised
<1>1. CASE \E e \in Events, d \in Slots : Deliver(e, d) \/ Handle(e, d)
  BY <1>1, QuietSteps, PostSteps, AdmitStep, PrepareStep, CountedMaps DEF Handle
<1> QED
  BY <1>1, NoticeMaps, UnseenSteps, GatewayMaps DEF Next

\* The router, the inbox and the gateways implement Handoff: whatever Slack
\* repeats and whoever dies, the thread, the record and the item of a message
\* come together, the owner of the thread alone works on it, once and while its
\* item is open, it is answered once or given the receipt of its mission, and
\* nothing is forgotten, refused or announced against that.
THEOREM HandoffKept == Spec => ImplementsHandoff
<1>1. Init => Promise!Init
  BY HandoffInit
<1>2. IInv /\ RepliesAgree /\ [Next]_vars => [Promise!Next]_(Promise!vars)
  BY HandoffStep
<1> QED
  BY <1>1, <1>2, RouterInvariance, PTL DEF Spec, ImplementsHandoff, Promise!Spec
=============================================================================
