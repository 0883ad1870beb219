---------------------------- MODULE MissionStore ----------------------------
(***************************************************************************)
(* The V2 mission foundation: the rows of agent_missions and the rows of   *)
(* mission_dependencies, and the operations of MissionStore on them        *)
(* (src/src/core/missions-v2/store.ts, migration 004).                     *)
(*                                                                         *)
(* Every operation runs in one transaction that holds agent_missions in    *)
(* SHARE ROW EXCLUSIVE mode, so an operation is one step.  A request that  *)
(* is refused rolls back and is not a step.  state_version, which orders   *)
(* the events of a mission and lets a caller detect that it read an older  *)
(* row, is left out: a caller may always read again, so it refuses         *)
(* requests without ever adding a behaviour.                               *)
(***************************************************************************)
EXTENDS Naturals, FiniteSets

CONSTANTS
  Missions,   \* the V2 missions of one project, one per (source_type, source_id)
  Attempts,   \* attempt ids
  NoAttempt,  \* current_attempt_id IS NULL
  Heads,      \* git commits
  NoHead,     \* a NULL commit
  Plans,      \* the dependency lists a plan may carry
  MaxPlans    \* bound on plan_version: how many times one mission is planned

DependencyTypes == {"artifact", "commit", "human_merge"}

\* One dependency as a plan states it.
Dependency ==
  [on : Missions, type : DependencyTypes, reference : Heads \cup {NoHead}]

ASSUME StoreAssumption ==
  /\ NoAttempt \notin Attempts
  /\ NoHead \notin Heads
  /\ Plans \subseteq SUBSET Dependency
  /\ MaxPlans \in Nat

VARIABLES
  lifecycle,    \* lifecycle_state of each mission
  planVersion,  \* plan_version: 0 before the first plan
  current,      \* current_attempt_id
  dependencies  \* rows of mission_dependencies, of every plan ever saved

storeVars == <<lifecycle, planVersion, current, dependencies>>

-----------------------------------------------------------------------------
\* "absent" stands for a mission that no request has admitted yet.
States ==
  {"absent", "queued", "planning", "ready", "waiting_dependencies", "blocked",
   "running", "reviewing", "awaiting_nadir_approval", "completed",
   "retry_wait", "failed_permanent", "cancel_requested", "cancelling",
   "cancelled", "rejected"}

TerminalMissions == {"completed", "failed_permanent", "cancelled", "rejected"}

Stopping == {"cancel_requested", "cancelling"}

FoundationTransitions ==
  {<<"queued", "planning">>, <<"queued", "blocked">>,
   <<"planning", "blocked">>, <<"blocked", "planning">>,
   <<"ready", "blocked">>, <<"ready", "planning">>,
   <<"waiting_dependencies", "blocked">>,
   <<"waiting_dependencies", "planning">>}

DependencyRow ==
  [mission : Missions, on : Missions, type : DependencyTypes,
   reference : Heads \cup {NoHead}, plan : Nat]

-----------------------------------------------------------------------------
(* The recursive query of mission_dependency_guard walks the dependencies  *)
(* of every plan from a mission.  What it collects is the least set that   *)
(* holds the mission and the prerequisites of its members.                 *)

Closed(rows, S) == \A e \in rows : e.mission \in S => e.on \in S

Ancestors(rows, m) ==
  {x \in Missions :
     \A S \in SUBSET Missions : m \in S /\ Closed(rows, S) => x \in S}

\* Mutant: the trigger looks for the opposite edge only.
InsertsAcceptedPairwise(m, plan) ==
  \A d \in plan : /\ lifecycle[d.on] # "absent" /\ d.on # m
                  /\ ~ \E e \in dependencies : e.mission = d.on /\ e.on = m

\* No insert is refused with dependency_cycle, nor one naming the mission itself.
InsertsAccepted(m, plan) ==
  \A d \in plan : /\ lifecycle[d.on] # "absent"
                  /\ m \notin Ancestors(dependencies, d.on)

\* The primary key (mission_id, depends_on_id, plan_version) takes one row each.
OneRowPerTarget(plan) == \A d, e \in plan : d.on = e.on => d = e

\* Mutant: two positional values of the INSERT are swapped.
PlanRowsSwapped(m, plan, version) ==
  {[mission |-> m, on |-> d.on, type |-> d.reference,
    reference |-> d.type, plan |-> version] : d \in plan}

PlanRows(m, plan, version) ==
  {[mission |-> m, on |-> d.on, type |-> d.type,
    reference |-> d.reference, plan |-> version] : d \in plan}

-----------------------------------------------------------------------------
StoreInit ==
  /\ lifecycle = [m \in Missions |-> "absent"]
  /\ planVersion = [m \in Missions |-> 0]
  /\ current = [m \in Missions |-> NoAttempt]
  /\ dependencies = {}

\* admit: the first request of a source inserts its mission; a repeated one
\* finds the row and returns it.
Admit(m) ==
  /\ lifecycle[m] = "absent"
  /\ lifecycle' = [lifecycle EXCEPT ![m] = "queued"]
  /\ UNCHANGED <<planVersion, current, dependencies>>

\* transition: refused once an attempt exists (assertFoundationOnly).
Transition(m, to) ==
  /\ current[m] = NoAttempt
  /\ <<lifecycle[m], to>> \in FoundationTransitions
  /\ lifecycle' = [lifecycle EXCEPT ![m] = to]
  /\ UNCHANGED <<planVersion, current, dependencies>>

\* Mutant: only the prerequisites of the new plan make the mission wait.
SavePlanForgetful(m, plan) ==
  LET version == planVersion[m] + 1 IN
  /\ current[m] = NoAttempt
  /\ lifecycle[m] = "planning"
  /\ version <= MaxPlans
  /\ OneRowPerTarget(plan)
  /\ InsertsAccepted(m, plan)
  /\ dependencies' = dependencies \cup PlanRows(m, plan, version)
  /\ planVersion' = [planVersion EXCEPT ![m] = version]
  /\ lifecycle' = [lifecycle EXCEPT ![m] =
       IF plan = {} THEN "ready" ELSE "waiting_dependencies"]
  /\ UNCHANGED current

\* savePlan: prerequisites of earlier plans are kept, and any of them makes
\* the mission wait.
SavePlan(m, plan) ==
  LET version == planVersion[m] + 1
      rows == dependencies \cup PlanRows(m, plan, version)
  IN
  /\ current[m] = NoAttempt
  /\ lifecycle[m] = "planning"
  /\ version <= MaxPlans
  /\ OneRowPerTarget(plan)
  /\ InsertsAccepted(m, plan)
  /\ dependencies' = rows
  /\ planVersion' = [planVersion EXCEPT ![m] = version]
  /\ lifecycle' = [lifecycle EXCEPT ![m] =
       IF \E e \in rows : e.mission = m THEN "waiting_dependencies" ELSE "ready"]
  /\ UNCHANGED current

\* Mutant: a terminal mission can be cancelled.
CancelAnytime(m) ==
  /\ lifecycle[m] \notin Stopping \cup {"absent"}
  /\ lifecycle' = [lifecycle EXCEPT ![m] =
       IF current[m] = NoAttempt THEN "cancelled" ELSE "cancel_requested"]
  /\ UNCHANGED <<planVersion, current, dependencies>>

\* Mutant: the cancellation does not wait for the attempt to stop.
CancelAtOnce(m) ==
  /\ lifecycle[m] \notin TerminalMissions \cup Stopping \cup {"absent"}
  /\ lifecycle' = [lifecycle EXCEPT ![m] = "cancelled"]
  /\ UNCHANGED <<planVersion, current, dependencies>>

\* cancel: at once when no attempt exists, else a request to stop it.
Cancel(m) ==
  /\ lifecycle[m] \notin TerminalMissions \cup Stopping \cup {"absent"}
  /\ lifecycle' = [lifecycle EXCEPT ![m] =
       IF current[m] = NoAttempt THEN "cancelled" ELSE "cancel_requested"]
  /\ UNCHANGED <<planVersion, current, dependencies>>

StoreNext ==
  \E m \in Missions :
    \/ Admit(m)
    \/ \E to \in States : Transition(m, to)
    \/ \E plan \in Plans : SavePlan(m, plan)
    \/ Cancel(m)

StoreSpec == StoreInit /\ [][StoreNext]_storeVars

-----------------------------------------------------------------------------
\* Every column holds a value of its domain.
StoreTypeOK ==
  /\ lifecycle \in [Missions -> States]
  /\ planVersion \in [Missions -> Nat]
  /\ current \in [Missions -> Attempts \cup {NoAttempt}]
  /\ dependencies \in SUBSET DependencyRow

\* No mission is among its own prerequisites, over the dependencies of every
\* plan ever saved: otherwise the missions of the cycle wait for each other for
\* ever.  The trigger only ever looks at one new row at a time.
Acyclic ==
  \A e \in dependencies : e.mission \notin Ancestors(dependencies, e.on)

\* However many missions are taken together, one of them waits for none of the
\* others: whoever else is done, there is always one to go on with.
NoMutualWait ==
  \A S \in SUBSET Missions :
    IsFiniteSet(S) /\ S # {} =>
      \E m \in S : \A e \in dependencies : e.mission = m => e.on \notin S

\* Planning again never drops a prerequisite: a mission released from waiting
\* by its latest plan alone would run without what an earlier plan required.
WaitsForEveryPlan ==
  \A m \in Missions :
    /\ lifecycle[m] = "ready" /\ current[m] = NoAttempt
    => ~ \E e \in dependencies : e.mission = m
=============================================================================
