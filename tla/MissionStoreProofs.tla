------------------------- MODULE MissionStoreProofs -------------------------
(***************************************************************************)
(* Theorems of MissionStore for every set of missions and of plans, proved *)
(* with TLAPS.                                                             *)
(***************************************************************************)
EXTENDS MissionStore, FiniteSetTheorems, TLAPS

-----------------------------------------------------------------------------
(* What the recursive query of mission_dependency_guard collects.          *)

\* A mission is among what the query collects from it.
LEMMA AncestorsSelf ==
  ASSUME NEW rows, NEW m \in Missions
  PROVE  m \in Ancestors(rows, m)
BY DEF Ancestors

\* Nothing the query reaches lies outside a closed set that holds its start.
LEMMA AncestorsLeast ==
  ASSUME NEW rows, NEW m, NEW S \in SUBSET Missions, m \in S, Closed(rows, S)
  PROVE  Ancestors(rows, m) \subseteq S
BY DEF Ancestors

\* The query goes on from every mission it reaches.
LEMMA AncestorsClosed ==
  ASSUME NEW rows, NEW m, \A e \in rows : e.on \in Missions
  PROVE  Closed(rows, Ancestors(rows, m))
<1> SUFFICES ASSUME NEW e \in rows, e.mission \in Ancestors(rows, m)
             PROVE  e.on \in Ancestors(rows, m)
  BY DEF Closed
<1> SUFFICES ASSUME NEW S \in SUBSET Missions, m \in S, Closed(rows, S)
             PROVE  e.on \in S
  BY DEF Ancestors
<1>1. e.mission \in S
  BY DEF Ancestors
<1> QED
  BY <1>1 DEF Closed

\* Checking the new rows of one mission against the rows that exist is enough,
\* although the trigger sees them one at a time and the missions between them
\* may be reached in any way.
LEMMA InsertKeepsAcyclic ==
  ASSUME NEW E, NEW N, NEW m \in Missions,
         \A e \in E : e.mission \in Missions /\ e.on \in Missions,
         \A e \in N : e.mission = m /\ e.on \in Missions,
         \A e \in E : e.mission \notin Ancestors(E, e.on),
         \A e \in N : m \notin Ancestors(E, e.on)
  PROVE  \A e \in E \cup N : e.mission \notin Ancestors(E \cup N, e.on)
<1> DEFINE Reach(v) == Ancestors(E, v)
<1>1. \A v : Closed(E, Reach(v)) /\ Reach(v) \in SUBSET Missions
  BY AncestorsClosed DEF Ancestors
<1>2. ASSUME NEW v \in Missions, m \notin Reach(v)
      PROVE  Ancestors(E \cup N, v) \subseteq Reach(v)
  <2>1. Closed(E \cup N, Reach(v))
    BY <1>1, <1>2 DEF Closed
  <2>2. v \in Reach(v)
    BY AncestorsSelf
  <2> HIDE DEF Reach
  <2> QED
    BY <1>1, <2>1, <2>2, AncestorsLeast
<1>3. ASSUME NEW e \in N
      PROVE  e.mission \notin Ancestors(E \cup N, e.on)
  BY <1>2, <1>3
<1>4. ASSUME NEW e \in E
      PROVE  e.mission \notin Ancestors(E \cup N, e.on)
  <2>1. CASE m \notin Reach(e.on)
    BY <1>2, <2>1
  <2>2. CASE m \in Reach(e.on)
    <3> DEFINE S == Reach(e.on) \cup UNION {Reach(d.on) : d \in N}
    <3>1. S \in SUBSET Missions
      BY <1>1
    <3>2. \A d \in N : d.on \in Reach(d.on)
      BY AncestorsSelf
    <3>3. Closed(E \cup N, S)
      <4> HIDE DEF Reach
      <4> SUFFICES ASSUME NEW f \in E \cup N, f.mission \in S
                   PROVE  f.on \in S
        BY DEF Closed
      <4>1. CASE f \in N
        BY <3>2, <4>1
      <4>2. CASE f \in E /\ f.mission \in Reach(e.on)
        BY <1>1, <4>2 DEF Closed
      <4>3. CASE f \in E /\ \E d \in N : f.mission \in Reach(d.on)
        BY <1>1, <4>3 DEF Closed
      <4> QED
        BY <4>1, <4>2, <4>3
    <3>4. e.on \in S
      BY AncestorsSelf
    <3>5. Ancestors(E \cup N, e.on) \subseteq S
      <4> HIDE DEF S
      <4> QED
        BY <3>1, <3>3, <3>4, AncestorsLeast
    <3>6. ASSUME NEW d \in N, e.mission \in Reach(d.on)
          PROVE  FALSE
      <4>1. e.on \in Reach(d.on)
        BY <1>1, <3>6 DEF Closed
      <4>2. Reach(e.on) \subseteq Reach(d.on)
        <5> HIDE DEF Reach
        <5> SUFFICES Ancestors(E, e.on) \subseteq Reach(d.on)
          BY DEF Reach
        <5> QED
          BY <1>1, <4>1, AncestorsLeast
      <4> QED
        BY <2>2, <4>2
    <3> QED
      BY <3>5, <3>6
  <2> QED
    BY <2>1, <2>2
<1> QED
  BY <1>3, <1>4

-----------------------------------------------------------------------------
\* The rows a plan inserts are rows of the table and start at its mission.
LEMMA PlanRowsType ==
  ASSUME NEW m \in Missions, NEW plan \in Plans, NEW version \in Nat
  PROVE  PlanRows(m, plan, version) \in SUBSET DependencyRow
BY StoreAssumption DEF PlanRows, DependencyRow, Dependency

\* The columns keep the values of their domains, whatever is requested.
LEMMA StoreTypeInit == StoreInit => StoreTypeOK
BY StoreAssumption DEF StoreInit, StoreTypeOK, States

LEMMA StoreTypeStep ==
  ASSUME StoreTypeOK, [StoreNext]_storeVars
  PROVE  StoreTypeOK'
<1>1. ASSUME NEW m \in Missions, Admit(m)
      PROVE  StoreTypeOK'
  BY <1>1 DEF StoreTypeOK, Admit, States
<1>2. ASSUME NEW m \in Missions, NEW to \in States, Transition(m, to)
      PROVE  StoreTypeOK'
  BY <1>2 DEF StoreTypeOK, Transition
<1>3. ASSUME NEW m \in Missions, NEW plan \in Plans, SavePlan(m, plan)
      PROVE  StoreTypeOK'
  <2>1. planVersion[m] + 1 \in Nat
    BY DEF StoreTypeOK
  <2>2. PlanRows(m, plan, planVersion[m] + 1) \in SUBSET DependencyRow
    BY <2>1, PlanRowsType
  <2>3. dependencies' \in SUBSET DependencyRow
    BY <1>3, <2>2 DEF StoreTypeOK, SavePlan
  <2>4. lifecycle' \in [Missions -> States]
    BY <1>3 DEF StoreTypeOK, SavePlan, States
  <2> QED
    BY <1>3, <2>1, <2>3, <2>4 DEF StoreTypeOK, SavePlan
<1>4. ASSUME NEW m \in Missions, Cancel(m)
      PROVE  StoreTypeOK'
  BY <1>4 DEF StoreTypeOK, Cancel, States
<1>5. CASE UNCHANGED storeVars
  BY <1>5 DEF StoreTypeOK, storeVars
<1> QED
  BY <1>1, <1>2, <1>3, <1>4, <1>5 DEF StoreNext

\* Every column of agent_missions and mission_dependencies always holds a value
\* of its domain.
THEOREM StoreTypeCorrect == StoreSpec => []StoreTypeOK
<1>1. StoreTypeOK /\ [StoreNext]_storeVars => StoreTypeOK'
  BY StoreTypeStep
<1> QED
  BY <1>1, StoreTypeInit, PTL DEF StoreSpec

-----------------------------------------------------------------------------
\* An operation of the store keeps the dependencies acyclic.
LEMMA AcyclicStep ==
  ASSUME StoreTypeOK, Acyclic, [StoreNext]_storeVars
  PROVE  Acyclic'
<1>1. CASE UNCHANGED dependencies
  BY <1>1 DEF Acyclic
<1>2. ASSUME NEW m \in Missions, NEW plan \in Plans, SavePlan(m, plan)
      PROVE  Acyclic'
  <2> DEFINE N == PlanRows(m, plan, planVersion[m] + 1)
  <2>1. dependencies' = dependencies \cup N
    BY <1>2 DEF SavePlan
  <2>2. \A e \in dependencies : e.mission \in Missions /\ e.on \in Missions
    BY DEF StoreTypeOK, DependencyRow
  <2>3. \A e \in N : \E d \in plan : e.mission = m /\ e.on = d.on
    BY DEF PlanRows
  <2>4. \A d \in plan : d.on \in Missions /\ m \notin Ancestors(dependencies, d.on)
    BY <1>2, StoreAssumption DEF SavePlan, InsertsAccepted, Dependency
  <2>5. \A e \in N : /\ e.mission = m
                     /\ e.on \in Missions
                     /\ m \notin Ancestors(dependencies, e.on)
    BY <2>3, <2>4
  <2> HIDE DEF N
  <2>6. \A e \in dependencies \cup N :
          e.mission \notin Ancestors(dependencies \cup N, e.on)
    BY <2>2, <2>5, InsertKeepsAcyclic DEF Acyclic
  <2> QED
    BY <2>1, <2>6 DEF Acyclic
<1> QED
  BY <1>1, <1>2 DEF StoreNext, Admit, Transition, Cancel, storeVars

\* However missions are planned and planned again, and whatever the
\* interleaving, the dependencies of all plans together never form a cycle.
THEOREM StoreAcyclic == StoreSpec => []Acyclic
<1>1. StoreInit => Acyclic
  BY DEF StoreInit, Acyclic
<1>2. StoreTypeOK /\ Acyclic /\ [StoreNext]_storeVars => Acyclic'
  BY AcyclicStep
<1> QED
  BY <1>1, <1>2, StoreTypeCorrect, PTL DEF StoreSpec

-----------------------------------------------------------------------------
(* Without a cycle, some mission is always the first to go on.             *)

\* Of the sets in T, all within a finite one, some has no other inside.
LEMMA SmallestSet ==
  ASSUME NEW S, IsFiniteSet(S), NEW T, T \subseteq SUBSET S, T # {}
  PROVE  \E s \in T : \A t \in T : t \subseteq s => t = s
<1>1. IsWellFoundedOn(StrictSubsetOrdering(S), SUBSET S)
  BY FS_StrictSubsetOrderingWellFounded, FS_FiniteSubsetsOfFinite
<1>2. \E s \in T : \A t \in T : ~ (<<t, s>> \in StrictSubsetOrdering(S))
  BY <1>1, WFMin
<1> QED
  BY <1>2 DEF StrictSubsetOrdering

\* In a set of missions that all wait for one another, the query collects the
\* fewest of them from some mission x; from what x waits for it collects fewer.
LEMMA AcyclicOrders ==
  ASSUME StoreTypeOK, Acyclic
  PROVE  NoMutualWait
<1> SUFFICES ASSUME NEW S \in SUBSET Missions, IsFiniteSet(S), S # {},
                    \A m \in S : \E e \in dependencies : e.mission = m /\ e.on \in S
             PROVE  FALSE
  BY DEF NoMutualWait
<1> DEFINE Within(m) == Ancestors(dependencies, m) \cap S
           T == {Within(m) : m \in S}
<1>1. PICK x \in S : \A t \in T : t \subseteq Within(x) => t = Within(x)
  <2>1. T \subseteq SUBSET S /\ T # {}
    OBVIOUS
  <2> HIDE DEF T
  <2>2. PICK s \in T : \A t \in T : t \subseteq s => t = s
    BY <2>1, SmallestSet
  <2> QED
    BY <2>2 DEF T
<1>2. PICK e \in dependencies : e.mission = x /\ e.on \in S
  OBVIOUS
<1>3. e.on \in Ancestors(dependencies, x)
  <2>1. \A d \in dependencies : d.on \in Missions
    BY DEF StoreTypeOK, DependencyRow
  <2>2. Closed(dependencies, Ancestors(dependencies, x)) /\ x \in Ancestors(dependencies, x)
    BY <2>1, AncestorsClosed, AncestorsSelf
  <2> QED
    BY <1>2, <2>2 DEF Closed
<1>4. Ancestors(dependencies, e.on) \subseteq Ancestors(dependencies, x)
  <2>1. \A d \in dependencies : d.on \in Missions
    BY DEF StoreTypeOK, DependencyRow
  <2>2. /\ Ancestors(dependencies, x) \in SUBSET Missions
        /\ Closed(dependencies, Ancestors(dependencies, x))
    BY <2>1, AncestorsClosed DEF Ancestors
  <2> QED
    BY <1>3, <2>2, AncestorsLeast
<1>5. x \notin Within(e.on) /\ x \in Within(x)
  BY <1>2, AncestorsSelf DEF Acyclic
<1>6. Within(e.on) \subseteq Within(x)
  BY <1>4
<1>7. Within(e.on) \in T
  BY <1>2
<1> HIDE DEF Within, T
<1> QED
  BY <1>1, <1>5, <1>6, <1>7

\* No set of missions waits for itself: planned as they may be, one of them has
\* all its prerequisites outside of the set.
THEOREM StoreGoesOn == StoreSpec => []NoMutualWait
<1>1. StoreTypeOK /\ Acyclic => NoMutualWait
  BY AcyclicOrders
<1> QED
  BY <1>1, StoreTypeCorrect, StoreAcyclic, PTL

-----------------------------------------------------------------------------
\* An operation of the store releases no mission that has a prerequisite.
LEMMA WaitsStep ==
  ASSUME StoreTypeOK, WaitsForEveryPlan, [StoreNext]_storeVars
  PROVE  WaitsForEveryPlan'
<1>1. ASSUME NEW m \in Missions, Admit(m)
      PROVE  WaitsForEveryPlan'
  BY <1>1 DEF StoreTypeOK, WaitsForEveryPlan, Admit
<1>2. ASSUME NEW m \in Missions, NEW to \in States, Transition(m, to)
      PROVE  WaitsForEveryPlan'
  <2>1. to # "ready"
    BY <1>2 DEF Transition, FoundationTransitions
  <2> QED
    BY <1>2, <2>1 DEF StoreTypeOK, WaitsForEveryPlan, Transition
<1>3. ASSUME NEW m \in Missions, NEW plan \in Plans, SavePlan(m, plan)
      PROVE  WaitsForEveryPlan'
  <2> DEFINE N == PlanRows(m, plan, planVersion[m] + 1)
  <2> SUFFICES ASSUME NEW n \in Missions, lifecycle'[n] = "ready",
                      current'[n] = NoAttempt
               PROVE  ~ \E e \in dependencies' : e.mission = n
    BY DEF WaitsForEveryPlan
  <2>1. dependencies' = dependencies \cup N
    BY <1>3 DEF SavePlan
  <2>2. CASE n = m
    BY <1>3, <2>2 DEF SavePlan, StoreTypeOK
  <2>3. CASE n # m
    <3>1. \A e \in N : e.mission = m
      BY DEF PlanRows
    <3>2. lifecycle[n] = "ready" /\ current[n] = NoAttempt
      BY <1>3, <2>3 DEF SavePlan, StoreTypeOK
    <3> HIDE DEF N
    <3> QED
      BY <2>1, <2>3, <3>1, <3>2 DEF WaitsForEveryPlan
  <2> QED
    BY <2>2, <2>3
<1>4. ASSUME NEW m \in Missions, Cancel(m)
      PROVE  WaitsForEveryPlan'
  BY <1>4 DEF StoreTypeOK, WaitsForEveryPlan, Cancel
<1>5. CASE UNCHANGED storeVars
  BY <1>5 DEF WaitsForEveryPlan, storeVars
<1> QED
  BY <1>1, <1>2, <1>3, <1>4, <1>5 DEF StoreNext

\* A mission that shows itself ready before it has an attempt has no
\* prerequisite in any plan ever saved.
THEOREM StoreWaitsForEveryPlan == StoreSpec => []WaitsForEveryPlan
<1>1. StoreInit => WaitsForEveryPlan
  BY DEF StoreInit, WaitsForEveryPlan
<1>2. StoreTypeOK /\ WaitsForEveryPlan /\ [StoreNext]_storeVars => WaitsForEveryPlan'
  BY WaitsStep
<1> QED
  BY <1>1, <1>2, StoreTypeCorrect, PTL DEF StoreSpec
=============================================================================
