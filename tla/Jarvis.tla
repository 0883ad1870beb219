-------------------------------- MODULE Jarvis --------------------------------
(***************************************************************************)
(* The Jarvis control plane (src/src/core/missions-v2/jarvis): one request *)
(* names one typed action, which the policy admits or not; a mutation runs *)
(* against the mission store or the registry in memory, and agent.start    *)
(* goes through the gates of AgentStartController.                         *)
(*                                                                         *)
(* The control plane is one process: a handler runs without interruption   *)
(* from one await to the next, and such a stretch is one step.  Writing    *)
(* the audit log never fails and changes nothing else: it only separates   *)
(* two steps.  Everything but the rows of the database is in memory and    *)
(* is gone after a restart.                                                *)
(***************************************************************************)
EXTENDS AgentQuota, Naturals

CONSTANTS
  Calls,        \* requests in progress
  NoCall,       \* an attempt without active lease
  Ids,          \* values of request_id
  Actors,       \* principals
  Titles,       \* what tells the contents of two missions apart
  Attempts,     \* attempt ids
  Approvals,    \* rows of jarvis_agent_start_approvals
  NoApproval,   \* a request without approval_id
  Bindings,     \* the attempt and the worker that each approval is for
  Fences,       \* fencing tokens, which are compared; 0 for a request without
  Records,      \* bound: mission and workspace identifiers, handed out in order
  NoRequest,    \* the request of an idle call
  NoAnswer,     \* an entry that a cache does not have
  NoMission, NoWorkspace,  \* an identifier not handed out yet
  Setups,       \* the deployments that are examined
  MaxRestarts   \* bound: how often the process is started again

HardDeny == {"secret.read", "root.exec", "docker.exec", "generic.shell"}
ApprovalActions == {"publisher.push", "publisher.pr_create", "publisher.merge",
                    "deploy", "database.migrate", "secret.write"}
SafeMutations == {"mission.create", "mission.cancel", "workspace.create",
                  "workspace.delete", "tests.run", "agent.stop"}
ReadActions == {"status.get", "mission.list", "mission.inspect", "mission.events",
                "workspace.list", "workspace.inspect", "terminal.read", "diff.read",
                "tests.status", "agent.status", "project.list"}
Actions == HardDeny \cup ApprovalActions \cup SafeMutations \cup ReadActions
             \cup {"terminal.send", "agent.start", "agent.create"}

\* What the fingerprint of a request covers.  complete: the contract of
\* agent.start is, which the planner of natural language does not ensure;
\* publishes: publisher or git_push is asked for.
Body ==
  [do : Actions, title : Titles, mission : Records, workspace : Records,
   attempt : Attempts, worker : Workers, fence : Fences,
   approval : Approvals \cup {NoApproval},
   lowRisk : BOOLEAN, complete : BOOLEAN, publishes : BOOLEAN]

Request == [id : Ids, actor : Actors, body : Body]

Answer == [body : Body, ok : BOOLEAN, mission : Nat]

\* A row of agent_missions: the request that admitted it, and what it was told.
Mission == [source : Ids, title : Titles, actor : Actors, state : {"queued", "cancelled"}]

Workspace == [mission : Records, attempt : Attempts, title : Titles, deleted : BOOLEAN]

\* The flags, the options of the controller, what its clients ask, what the
\* provider says of its limits, and what the registry holds already by requests
\* that nobody repeats.
Setup ==
  [store : BOOLEAN, mutations : BOOLEAN, v2 : BOOLEAN, agents : BOOLEAN,
   armed : BOOLEAN, hook : BOOLEAN, lowRiskAuto : BOOLEAN,
   requests : SUBSET Request, payloads : SUBSET Payload,
   missions : [Records -> {"absent", "queued"}],
   workspaces : [Records -> Workspace \cup {NoWorkspace}]]

ASSUME JarvisAssumption ==
  /\ NoCall \notin Calls /\ NoApproval \notin Approvals
  /\ NoRequest \notin Request
  /\ NoAnswer \notin Answer /\ NoMission \notin Mission /\ NoWorkspace \notin Workspace
  /\ Bindings \in [Approvals -> [attempt : Attempts, worker : Workers]]
  /\ Fences \subseteq Nat /\ Records \subseteq Nat \ {0}
  /\ \A s \in Setups : s \in Setup
  /\ MaxRestarts \in Nat

VARIABLES
  setup,
  pc, req, seen, late, answer,  \* of each call: where it is, what it has read
  svc,         \* JarvisService.idempotency
  memo,        \* JarvisMutationRegistry.idempotency
  recorded,    \* rows of jarvis_mutation_idempotency
  known,       \* AgentStartController.idempotency
  stored,      \* rows of agent_missions with their source, and their receipts
  told,        \* what was answered to the requests that created a mission
  missions, workspaces, fences, stops,  \* JarvisMutationRegistry
  approvals,   \* AgentStartController.approvals, a cache of rows
  lapsed,      \* approvals past expires_at
  quotas,      \* AgentStartController.quotas
  leases,      \* calls whose lease is 'leased'
  active,      \* activeLeaseByAttempt
  budgets,     \* calls whose budget is 'reserved'
  restarts

callVars == <<pc, req, seen, late, answer>>
cacheVars == <<svc, memo, recorded, known>>
missionVars == <<stored, told>>
registryVars == <<missions, workspaces, fences, stops>>
gateVars == <<approvals, lapsed, quotas, quotaRow>>
holdVars == <<leases, active, budgets>>
vars == <<setup, callVars, cacheVars, missionVars, registryVars, gateVars,
          holdVars, restarts>>

Steps == {"idle", "received", "replaying", "dispatching", "remembering", "recording",
          "finishing", "hydrating", "hydrated", "checking", "loading", "querying",
          "approved", "reserved", "leased", "invoking", "signalling",
          "announcing", "started"}

\* The steps at which a call has a lease, and those at which it has a budget.
\* An agent that was started stays: its call is never used again.
Leased == {"leased", "invoking", "announcing", "started"}
Budgeted == Leased \cup {"reserved"}

Unknown == [w \in Workers |-> "unknown"]

Init ==
  /\ setup \in Setups
  /\ QuotaInit
  /\ pc = [c \in Calls |-> "idle"] /\ req = [c \in Calls |-> NoRequest]
  /\ seen = [c \in Calls |-> Unknown] /\ late = [c \in Calls |-> FALSE]
  /\ answer = [c \in Calls |-> NoAnswer]
  /\ svc = [i \in Ids |-> NoAnswer] /\ memo = [i \in Ids |-> NoAnswer]
  /\ recorded = [i \in Ids |-> NoAnswer] /\ known = [i \in Ids |-> NoAnswer]
  /\ stored = [m \in Records |-> NoMission]
  /\ told = [i \in Ids |-> {}]
  /\ missions = setup.missions /\ workspaces = setup.workspaces
  /\ fences = [a \in Attempts |-> 0] /\ stops = {}
  /\ approvals = [p \in Approvals |-> "absent"] /\ lapsed = {}
  /\ quotas = Unknown
  /\ leases = {} /\ budgets = {} /\ active = [a \in Attempts |-> NoCall]
  /\ restarts = 0
-----------------------------------------------------------------------------
Id(c) == req[c].id
BodyOf(c) == req[c].body
Sets(f, c, value) == [f EXCEPT ![c] = value]
Result(c, ok, mission) == [body |-> BodyOf(c), ok |-> ok, mission |-> mission]

\* The call has its result, and will answer with it.
Finishes(c, result) ==
  pc' = Sets(pc, c, "finishing") /\ answer' = Sets(answer, c, result)

\* An exception that the call does not turn into a result: nothing is cached.
Throws(c) ==
  pc' = Sets(pc, c, "idle") /\ req' = Sets(req, c, NoRequest)

\* evaluateJarvisPolicy.
Policy(action) ==
  CASE action \in HardDeny \cup {"agent.create"} -> "DENY"
    [] action = "agent.start" -> "ALLOW"
    [] action \in ApprovalActions -> "REQUIRE_APPROVAL"
    [] action \in SafeMutations ->
         IF setup.mutations THEN "ALLOW" ELSE "BLOCKED_BY_FEATURE_FLAG"
    [] action = "terminal.send" ->
         IF setup.mutations THEN "DENY" ELSE "BLOCKED_BY_FEATURE_FLAG"
    [] action \in ReadActions -> "ALLOW"

-----------------------------------------------------------------------------
(* JarvisService.handle *)

\* A request that was answered is answered again from the cache, or refused if
\* its contents differ: no step.
Receive(c, r) ==
  /\ pc[c] = "idle"
  /\ svc[r.id] = NoAnswer
  /\ pc' = Sets(pc, c, "received") /\ req' = Sets(req, c, r)
  /\ UNCHANGED <<setup, seen, late, answer, cacheVars, missionVars, registryVars,
                 gateVars, holdVars, restarts>>

\* Reads answer at once, whatever the policy does not admit is refused.
Decide(c) ==
  LET action == BodyOf(c).do
      allowed == Policy(action) = "ALLOW"
  IN
  /\ pc[c] = "received"
  /\ action # "agent.start"
  /\ IF allowed /\ action \in SafeMutations
     THEN pc' = Sets(pc, c, "replaying") /\ UNCHANGED answer
     ELSE Finishes(c, Result(c, allowed, 0))
  /\ UNCHANGED <<setup, req, seen, late, cacheVars, missionVars, registryVars,
                 gateVars, holdVars, restarts>>

\* What a mutation that created a mission answers: its identifier.
Told(c) ==
  IF BodyOf(c).do = "mission.create" /\ answer[c].ok
  THEN [told EXCEPT ![Id(c)] = @ \cup {[title |-> BodyOf(c).title, mission |-> answer[c].mission]}]
  ELSE told

Finish(c) ==
  /\ pc[c] \in {"finishing", "announcing"}
  /\ svc' = [svc EXCEPT ![Id(c)] = answer[c]]
  /\ told' = Told(c)
  /\ answer' = Sets(answer, c, NoAnswer)
  /\ late' = Sets(late, c, FALSE)
  /\ IF pc[c] = "announcing"
     THEN pc' = Sets(pc, c, "started") /\ UNCHANGED req
     ELSE pc' = Sets(pc, c, "idle") /\ req' = Sets(req, c, NoRequest)
  /\ UNCHANGED <<setup, seen, memo, recorded, known, stored, registryVars, gateVars,
                 holdVars, restarts>>

-----------------------------------------------------------------------------
(* JarvisService.execute *)

\* replayOrConflict: memory, then the row.  A query that fails finds nothing.
Replay(c) ==
  LET i == Id(c)
      found == IF memo[i] # NoAnswer THEN memo[i] ELSE recorded[i]
  IN
  /\ pc[c] = "replaying"
  /\ \/ /\ found # NoAnswer /\ found.body = BodyOf(c)
        /\ memo' = [memo EXCEPT ![i] = found]
        /\ Finishes(c, found)
        /\ UNCHANGED req
     \/ /\ found # NoAnswer /\ found.body # BodyOf(c)
        /\ Throws(c)
        /\ UNCHANGED <<answer, memo>>
     \/ /\ memo[i] = NoAnswer
        /\ pc' = Sets(pc, c, "dispatching")
        /\ UNCHANGED <<req, answer, memo>>
  /\ UNCHANGED <<setup, seen, late, svc, recorded, known, missionVars, registryVars,
                 gateVars, holdVars, restarts>>

\* What dispatchMutation returns is remembered, what it throws is a failed result.
Succeeds(c, mission) ==
  pc' = Sets(pc, c, "remembering") /\ answer' = Sets(answer, c, Result(c, TRUE, mission))
Fails(c) == Finishes(c, Result(c, FALSE, 0))

Unused(table, none, m) == table[m] = none /\ \A n \in Records : n < m => table[n] # none

\* Mutant: an admission is named by an identifier of its own.
SourceFresh(c) ==
  IF \E i \in Ids : \A m \in Records : stored[m] = NoMission \/ stored[m].source # i
  THEN CHOOSE i \in Ids : \A m \in Records : stored[m] = NoMission \/ stored[m].source # i
  ELSE Id(c)

\* source_id of the mission, of which the idempotency key is a function.
Source(c) == Id(c)

\* store.admit: the receipt or the row of the same request answers, a request of
\* other contents or another principal is a conflict.
AdmitMission(c) ==
  LET row == [source |-> Source(c), title |-> BodyOf(c).title, actor |-> req[c].actor,
              state |-> "queued"]
      Known(m) == stored[m] # NoMission /\ stored[m].source = row.source
  IN
  \/ \E m \in Records :
       /\ Known(m)
       /\ IF stored[m].title = row.title /\ stored[m].actor = row.actor
          THEN Succeeds(c, m) ELSE Fails(c)
       /\ UNCHANGED stored
  \/ \E m \in Records :
       /\ \A n \in Records : ~ Known(n)
       /\ Unused(stored, NoMission, m)
       /\ stored' = [stored EXCEPT ![m] = row]
       /\ Succeeds(c, m)

CancelMission(c) ==
  LET m == BodyOf(c).mission IN
  /\ IF stored[m] # NoMission
     THEN stored' = [stored EXCEPT ![m].state = "cancelled"] /\ Succeeds(c, m)
     ELSE Fails(c) /\ UNCHANGED stored

\* With a store, the missions are its own and the registry has none.
DispatchToStore(c) ==
  /\ pc[c] = "dispatching" /\ setup.store
  /\ \/ BodyOf(c).do = "mission.create" /\ AdmitMission(c)
     \/ BodyOf(c).do = "mission.cancel" /\ CancelMission(c)
  /\ UNCHANGED <<setup, req, seen, late, cacheVars, told, registryVars, gateVars,
                 holdVars, restarts>>

RegistryMission(c) ==
  LET m == BodyOf(c).mission IN
  \/ \E n \in Records :
       /\ BodyOf(c).do = "mission.create"
       /\ Unused(missions, "absent", n)
       /\ missions' = [missions EXCEPT ![n] = "queued"]
       /\ Succeeds(c, n)
  \/ /\ BodyOf(c).do = "mission.cancel"
     /\ IF missions[m] # "absent"
        THEN missions' = [missions EXCEPT ![m] = "cancelled"] /\ Succeeds(c, m)
        ELSE Fails(c) /\ UNCHANGED missions

DispatchToRegistry(c) ==
  /\ pc[c] = "dispatching" /\ ~ setup.store
  /\ BodyOf(c).do \in {"mission.create", "mission.cancel"}
  /\ RegistryMission(c)
  /\ UNCHANGED <<setup, req, seen, late, cacheVars, missionVars, workspaces, fences, stops,
                 gateVars, holdVars, restarts>>

\* assertFence: a token older than the newest one seen is refused.
Stale(b) == b.fence < fences[b.attempt]
Fenced(b) == [fences EXCEPT ![b.attempt] = b.fence]

\* The names of workspaces are those of titles: what matters is when two agree.
CreateWorkspace(c) ==
  LET b == BodyOf(c)
      duplicate == \E w \in Records :
                     /\ workspaces[w] # NoWorkspace /\ ~ workspaces[w].deleted
                     /\ workspaces[w].mission = b.mission /\ workspaces[w].title = b.title
  IN
  /\ b.do = "workspace.create"
  /\ IF missions[b.mission] = "absent" \/ Stale(b)
     THEN Fails(c) /\ UNCHANGED <<workspaces, fences>>
     ELSE /\ fences' = Fenced(b)
          /\ \/ duplicate /\ Fails(c) /\ UNCHANGED workspaces
             \/ \E w \in Records :
                  /\ ~ duplicate
                  /\ Unused(workspaces, NoWorkspace, w)
                  /\ workspaces' = [workspaces EXCEPT ![w] =
                       [mission |-> b.mission, attempt |-> b.attempt, title |-> b.title,
                        deleted |-> FALSE]]
                  /\ Succeeds(c, 0)
  /\ UNCHANGED stops

DeleteWorkspace(c) ==
  LET b == BodyOf(c) IN
  /\ b.do = "workspace.delete"
  /\ IF \/ workspaces[b.workspace] = NoWorkspace
        \/ workspaces[b.workspace].mission # b.mission
        \/ workspaces[b.workspace].attempt # b.attempt
        \/ Stale(b)
     THEN Fails(c) /\ UNCHANGED <<workspaces, fences>>
     ELSE /\ fences' = Fenced(b)
          /\ workspaces' = [workspaces EXCEPT ![b.workspace].deleted = TRUE]
          /\ Succeeds(c, 0)
  /\ UNCHANGED stops

\* tests.run records a result of its own; agent.stop records the stop, and stops
\* nothing that agent.start has launched.
RunTestsOrStop(c) ==
  LET b == BodyOf(c) IN
  /\ b.do \in {"tests.run", "agent.stop"}
  /\ IF missions[b.mission] = "absent" \/ Stale(b)
     THEN Fails(c) /\ UNCHANGED <<fences, stops>>
     ELSE /\ fences' = Fenced(b)
          /\ stops' = IF b.do = "agent.stop" THEN stops \cup {<<b.mission, b.attempt>>} ELSE stops
          /\ Succeeds(c, 0)
  /\ UNCHANGED workspaces

DispatchWork(c) ==
  /\ pc[c] = "dispatching"
  /\ CreateWorkspace(c) \/ DeleteWorkspace(c) \/ RunTestsOrStop(c)
  /\ UNCHANGED <<setup, req, seen, late, cacheVars, missionVars, missions, gateVars,
                 holdVars, restarts>>

\* persistIdempotent: memory at once, then the row, which may fail to be written.
Remember(c) ==
  /\ pc[c] = "remembering"
  /\ memo' = [memo EXCEPT ![Id(c)] = answer[c]]
  /\ pc' = Sets(pc, c, "recording")
  /\ UNCHANGED <<setup, req, seen, late, answer, svc, recorded, known, missionVars,
                 registryVars, gateVars, holdVars, restarts>>

Record(c) ==
  /\ pc[c] = "recording"
  /\ \/ recorded' = [recorded EXCEPT ![Id(c)] = IF @ = NoAnswer THEN answer[c] ELSE @]
     \/ UNCHANGED recorded
  /\ pc' = Sets(pc, c, "finishing")
  /\ UNCHANGED <<setup, req, seen, late, answer, svc, memo, known, missionVars,
                 registryVars, gateVars, holdVars, restarts>>

-----------------------------------------------------------------------------
(* AgentStartController.evaluate *)

\* The identifier is looked up before the first await, and persist fills it
\* only at the end.  now is read here too.
Evaluate(c) ==
  LET cached == known[Id(c)] IN
  /\ pc[c] = "received" /\ BodyOf(c).do = "agent.start"
  /\ \/ /\ cached = NoAnswer
        /\ pc' = Sets(pc, c, "hydrating")
        /\ late' = Sets(late, c, BodyOf(c).approval \in lapsed)
        /\ UNCHANGED <<req, answer>>
     \/ /\ cached # NoAnswer /\ cached.body = BodyOf(c)
        /\ Finishes(c, cached)
        /\ UNCHANGED <<req, late>>
     \/ /\ cached # NoAnswer /\ cached.body # BodyOf(c)
        /\ Throws(c)
        /\ UNCHANGED <<answer, late>>
  /\ UNCHANGED <<setup, seen, cacheVars, missionVars, registryVars, gateVars,
                 holdVars, restarts>>

\* persist: the result of the evaluation.
Concludes(c, ok) ==
  /\ known' = [known EXCEPT ![Id(c)] = Result(c, ok, 0)]
  /\ answer' = Sets(answer, c, Result(c, ok, 0))
  /\ pc' = Sets(pc, c, IF ok THEN "announcing" ELSE "finishing")

Refuses(c) == Concludes(c, FALSE)

Proceeds(c, step) ==
  pc' = Sets(pc, c, step) /\ UNCHANGED <<answer, known>>

\* hydrateFromPool: the rows are read, and copied to memory when the answer
\* arrives; a query that fails leaves memory as it is.
Hydrate(c) ==
  /\ pc[c] = "hydrating"
  /\ \/ /\ seen' = Sets(seen, c, [w \in Workers |-> RuntimeState(quotaRow[w])])
        /\ pc' = Sets(pc, c, "hydrated")
     \/ pc' = Sets(pc, c, "checking") /\ UNCHANGED seen
  /\ UNCHANGED <<setup, req, late, answer, cacheVars, missionVars, registryVars,
                 gateVars, holdVars, restarts>>

SetQuotas(c) ==
  /\ pc[c] = "hydrated"
  /\ quotas' = seen[c]
  /\ seen' = Sets(seen, c, Unknown)
  /\ pc' = Sets(pc, c, "checking")
  /\ UNCHANGED <<setup, req, late, answer, cacheVars, missionVars, registryVars,
                 approvals, lapsed, quotaRow, holdVars, restarts>>

NeedsApproval(b) == ~ (setup.lowRiskAuto /\ b.lowRisk)

\* The mission is looked up in the registry, not in the store.
CheckMission(c) ==
  LET b == BodyOf(c) IN
  /\ pc[c] = "checking"
  /\ IF \/ ~ b.complete
        \/ missions[b.mission] # "queued"
        \/ b.publishes
        \/ ~ setup.v2
        \/ NeedsApproval(b) /\ b.approval = NoApproval
     THEN Refuses(c)
     ELSE Proceeds(c, IF NeedsApproval(b) THEN "loading" ELSE "approved")
  /\ UNCHANGED <<setup, req, seen, late, svc, memo, recorded, missionVars, registryVars,
                 gateVars, holdVars, restarts>>

\* The binding, the expiry and the consumption of an approval.
Examine(c, approval) ==
  LET b == BodyOf(c) IN
  IF \/ Bindings[b.approval] # [attempt |-> b.attempt, worker |-> b.worker]
     \/ late[c]
     \/ approval = "consumed"
  THEN Refuses(c) ELSE Proceeds(c, "approved")

\* loadApproval: what is in memory is not read again.
LoadApproval(c) ==
  LET cached == approvals[BodyOf(c).approval] IN
  /\ pc[c] = "loading"
  /\ IF cached # "absent" THEN Examine(c, cached) ELSE Proceeds(c, "querying")
  /\ UNCHANGED <<setup, req, seen, late, svc, memo, recorded, missionVars, registryVars,
                 gateVars, holdVars, restarts>>

\* consumed_at is never written, so the row that was read replaces what another
\* call may have marked in memory since.  A query that fails leaves the cache.
QueryApproval(c) ==
  LET p == BodyOf(c).approval IN
  /\ pc[c] = "querying"
  /\ \/ approvals' = [approvals EXCEPT ![p] = "fresh"] /\ Examine(c, "fresh")
     \/ /\ IF approvals[p] # "absent" THEN Examine(c, approvals[p]) ELSE Refuses(c)
        /\ UNCHANGED approvals
  /\ UNCHANGED <<setup, req, seen, late, svc, memo, recorded, missionVars, registryVars,
                 lapsed, quotas, quotaRow, holdVars, restarts>>

\* The quota in memory, by now perhaps of another call, then the budget.
ReserveBudget(c) ==
  /\ pc[c] = "approved"
  /\ IF quotas[BodyOf(c).worker] \in {"available", "limited"}
     THEN Proceeds(c, "reserved") /\ budgets' = budgets \cup {c}
     ELSE Refuses(c) /\ UNCHANGED budgets
  /\ UNCHANGED <<setup, req, seen, late, svc, memo, recorded, missionVars, registryVars,
                 gateVars, leases, active, restarts>>

\* Mutant: the lease of the attempt is given back, whoever has it.
ReleasesAttempt(c) ==
  /\ leases' = leases \ {c} /\ budgets' = budgets \ {c}
  /\ active' = [active EXCEPT ![BodyOf(c).attempt] = NoCall]

\* releaseLease and releaseBudget.
Releases(c) ==
  /\ leases' = leases \ {c} /\ budgets' = budgets \ {c}
  /\ active' = IF c \in leases THEN [active EXCEPT ![BodyOf(c).attempt] = NoCall] ELSE active

WorkspaceBound(b) ==
  /\ workspaces[b.workspace] # NoWorkspace
  /\ workspaces[b.workspace].mission = b.mission
  /\ workspaces[b.workspace].attempt = b.attempt

\* Mutant: only the lease of an agent that runs is in the way.
LeaseFreeOfAgents(b) == \A c \in leases : pc[c] = "started" => BodyOf(c).attempt # b.attempt

LeaseFree(b) == active[b.attempt] = NoCall

\* Fence, workspace and lease in one stretch.  A refused call may have moved the
\* fence; a deleted workspace still counts.
TakeLease(c) ==
  LET b == BodyOf(c)
      current == b.fence # 0 /\ ~ Stale(b)
  IN
  /\ pc[c] = "reserved"
  /\ fences' = IF current THEN Fenced(b) ELSE fences
  /\ IF current /\ WorkspaceBound(b) /\ LeaseFree(b)
     THEN /\ leases' = leases \cup {c}
          /\ active' = [active EXCEPT ![b.attempt] = c]
          /\ Proceeds(c, "leased")
          /\ UNCHANGED budgets
     ELSE Releases(c) /\ Refuses(c)
  /\ UNCHANGED <<setup, req, seen, late, svc, memo, recorded, missionVars, missions,
                 workspaces, stops, gateVars, restarts>>

\* The flag, the arming, the worker and the hook.
GateOpen(c) == setup.agents /\ setup.armed /\ BodyOf(c).worker = "codex" /\ setup.hook

\* The approval is marked in memory only.
PassGate(c) ==
  LET p == BodyOf(c).approval IN
  /\ pc[c] = "leased"
  /\ IF GateOpen(c)
     THEN /\ approvals' = IF p \in Approvals /\ approvals[p] # "absent"
                          THEN [approvals EXCEPT ![p] = "consumed"] ELSE approvals
          /\ Proceeds(c, "invoking")
          /\ UNCHANGED holdVars
     ELSE Releases(c) /\ Refuses(c) /\ UNCHANGED approvals
  /\ UNCHANGED <<setup, req, seen, late, svc, memo, recorded, missionVars, registryVars,
                 lapsed, quotas, quotaRow, restarts>>

\* The lease and the budget of an agent that was started are never released.
ProviderStarts(c) ==
  /\ pc[c] = "invoking"
  /\ Concludes(c, TRUE)
  /\ UNCHANGED <<setup, req, seen, late, svc, memo, recorded, missionVars, registryVars,
                 gateVars, holdVars, restarts>>

\* parseNegativeProviderSignal: the error may tell something about the quota.
ProviderFails(c) ==
  /\ pc[c] = "invoking"
  /\ Releases(c)
  /\ \/ Refuses(c) /\ UNCHANGED <<quotas, seen>>
     \/ \E signal \in {"limited", "exhausted"} :
          /\ quotas' = [quotas EXCEPT ![BodyOf(c).worker] = signal]
          /\ seen' = Sets(seen, c, [Unknown EXCEPT ![BodyOf(c).worker] = signal])
          /\ Proceeds(c, "signalling")
  /\ UNCHANGED <<setup, req, late, svc, memo, recorded, missionVars, registryVars,
                 approvals, lapsed, quotaRow, restarts>>

\* persistNegativeQuotaObservation, which may fail.
RecordSignal(c) ==
  LET w == BodyOf(c).worker IN
  /\ pc[c] = "signalling"
  /\ Writes(w, seen[c][w], "execution_observation") \/ UNCHANGED quotaRow
  /\ seen' = Sets(seen, c, Unknown)
  /\ Refuses(c)
  /\ UNCHANGED <<setup, req, late, svc, memo, recorded, missionVars, registryVars,
                 approvals, lapsed, quotas, holdVars, restarts>>

-----------------------------------------------------------------------------
\* Of interest as long as a client may name it.
ApprovalLapses(p) ==
  /\ p \notin lapsed
  /\ \E r \in setup.requests : r.body.approval = p
  /\ lapsed' = lapsed \cup {p}
  /\ UNCHANGED <<setup, callVars, cacheVars, missionVars, registryVars, approvals,
                 quotas, quotaRow, holdVars, restarts>>

QuotaChanges ==
  /\ (\E p \in setup.payloads : Discover(p)) \/ (\E w \in Workers : RowAges(w))
  /\ UNCHANGED <<setup, callVars, cacheVars, missionVars, registryVars, approvals,
                 lapsed, quotas, holdVars, restarts>>

\* A deployment or a crash.  The agents that were started are not told.
Restart ==
  /\ restarts < MaxRestarts
  /\ restarts' = restarts + 1
  /\ pc' = [c \in Calls |-> "idle"] /\ req' = [c \in Calls |-> NoRequest]
  /\ seen' = [c \in Calls |-> Unknown] /\ late' = [c \in Calls |-> FALSE]
  /\ answer' = [c \in Calls |-> NoAnswer]
  /\ svc' = [i \in Ids |-> NoAnswer] /\ memo' = [i \in Ids |-> NoAnswer]
  /\ known' = [i \in Ids |-> NoAnswer]
  /\ missions' = [m \in Records |-> "absent"]
  /\ workspaces' = [w \in Records |-> NoWorkspace]
  /\ fences' = [a \in Attempts |-> 0] /\ stops' = {}
  /\ approvals' = [p \in Approvals |-> "absent"]
  /\ quotas' = Unknown
  /\ leases' = {} /\ budgets' = {} /\ active' = [a \in Attempts |-> NoCall]
  /\ UNCHANGED <<setup, recorded, missionVars, lapsed, quotaRow>>

Mutation(c) ==
  \/ Replay(c) \/ DispatchToStore(c) \/ DispatchToRegistry(c) \/ DispatchWork(c)
  \/ Remember(c) \/ Record(c)

Start(c) ==
  \/ Evaluate(c) \/ Hydrate(c) \/ SetQuotas(c) \/ CheckMission(c)
  \/ LoadApproval(c) \/ QueryApproval(c) \/ ReserveBudget(c) \/ TakeLease(c)
  \/ PassGate(c) \/ ProviderStarts(c) \/ ProviderFails(c) \/ RecordSignal(c)

Next ==
  \/ \E c \in Calls :
       \/ \E r \in setup.requests : Receive(c, r)
       \/ Decide(c) \/ Mutation(c) \/ Start(c) \/ Finish(c)
  \/ \E p \in Approvals : ApprovalLapses(p)
  \/ QuotaChanges
  \/ Restart

Spec == Init /\ [][Next]_vars

-----------------------------------------------------------------------------
\* Every cache, row and field of a call holds a value of its domain.
JarvisTypeOK ==
  /\ setup \in Setups
  /\ pc \in [Calls -> Steps] /\ req \in [Calls -> Request \cup {NoRequest}]
  /\ \A c \in Calls : pc[c] = "idle" <=> req[c] = NoRequest
  /\ seen \in [Calls -> [Workers -> QuotaStates]] /\ late \in [Calls -> BOOLEAN]
  /\ \A cache \in {svc, memo, recorded, known} : cache \in [Ids -> Answer \cup {NoAnswer}]
  /\ answer \in [Calls -> Answer \cup {NoAnswer}]
  /\ stored \in [Records -> Mission \cup {NoMission}]
  /\ told \in [Ids -> SUBSET [title : Titles, mission : Nat]]
  /\ missions \in [Records -> {"absent", "queued", "cancelled"}]
  /\ workspaces \in [Records -> Workspace \cup {NoWorkspace}]
  /\ fences \in [Attempts -> Nat]
  /\ stops \subseteq Records \X Attempts
  /\ approvals \in [Approvals -> {"absent", "fresh", "consumed"}]
  /\ lapsed \subseteq Approvals
  /\ quotas \in [Workers -> QuotaStates] /\ quotaRow \in [Workers -> QuotaRow]
  /\ leases \subseteq Calls /\ budgets \subseteq Calls
  /\ active \in [Attempts -> Calls \cup {NoCall}]
  /\ restarts \in Nat

\* Of all the calls for one attempt, interleaved at every await, at most one is at
\* the provider or has an agent running in the life of the process, and it is
\* the one of the active lease; whatever the gate that refuses it, a call that
\* is over leaves neither a lease nor a budget behind.
LeaseGuardsAgent ==
  /\ \A c, d \in Calls :
       /\ pc[c] \in Leased /\ pc[d] \in Leased
       /\ BodyOf(c).attempt = BodyOf(d).attempt
       => c = d
  /\ \A c \in Calls : pc[c] \in Leased => active[BodyOf(c).attempt] = c
  /\ \A a \in Attempts : active[a] # NoCall => pc[active[a]] \in Leased
  /\ leases = {c \in Calls : pc[c] \in Leased}
  /\ budgets = {c \in Calls : pc[c] \in Budgeted}

\* With the store, a request that is repeated, sent twice at once or sent again
\* after a crash creates one mission, every answer names that mission, and
\* other contents under the same identifier are never answered as created.
OneMissionPerRequest ==
  setup.store =>
    /\ \A m, n \in Records :
         /\ stored[m] # NoMission /\ stored[n] # NoMission
         /\ stored[m].source = stored[n].source
         => m = n
    /\ \A i \in Ids : \A t \in told[i] :
         /\ stored[t.mission] # NoMission
         /\ stored[t.mission].source = i
         /\ stored[t.mission].title = t.title

-----------------------------------------------------------------------------
(* What the caches, the gates and the rows promise together. *)

\* What was admitted for each request.
Created ==
  [i \in Ids |-> {[title |-> stored[m].title, mission |-> m] :
                    m \in {n \in Records : stored[n] # NoMission /\ stored[n].source = i}}]

Over == {m \in Records : stored[m] # NoMission /\ stored[m].state = "cancelled"}

\* The registry promises nothing about the missions it creates.
ToldOfRows == [i \in Ids |-> IF setup.store THEN told[i] ELSE {}]

\* The request may start an agent: it is complete and asks for nothing that is
\* published, its mission is known, and its approval, if it needs one, is for
\* this attempt and worker and had not expired when it came.
Entitled(c) ==
  LET b == BodyOf(c) IN
  /\ pc[c] # "idle" /\ b.do = "agent.start"
  /\ b.complete /\ ~ b.publishes /\ setup.v2
  /\ missions[b.mission] # "absent"
  /\ NeedsApproval(b) =>
       /\ b.approval # NoApproval /\ ~ late[c]
       /\ Bindings[b.approval] = [attempt |-> b.attempt, worker |-> b.worker]

Errand == [c \in Calls |-> IF Entitled(c) THEN {BodyOf(c).attempt} ELSE {}]

Way ==
  [c \in Calls |->
     CASE pc[c] = "reserved" -> "equipped"
       [] pc[c] = "leased" -> "holding"
       [] pc[c] = "invoking" -> "asking"
       [] pc[c] \in {"announcing", "started"} -> "working"
       [] OTHER -> "home"]

Promise == INSTANCE Errands
  WITH Requests <- Ids, Facts <- [title : Titles, mission : Records], Messengers <- Calls,
       Nobody <- NoCall, created <- Created, over <- Over, told <- ToldOfRows,
       errand <- Errand, way <- Way, holder <- active

\* However requests are repeated and interleaved at every await, whatever the
\* gates refuse and whenever the process dies: a request has one mission and
\* hears of no other, an agent is started for an attempt by the one call that
\* holds it, which is entitled to it from its budget to its end, and a refused
\* call takes the lease of no other.
ImplementsErrands == Promise!Spec
=============================================================================
