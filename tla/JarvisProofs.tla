----------------------------- MODULE JarvisProofs -----------------------------
(***************************************************************************)
(* Theorems of Jarvis for every set of calls, identifiers, principals,     *)
(* attempts, approvals, deployments and restarts, proved with TLAPS: the   *)
(* inductive invariant, and that Jarvis implements Errands.                *)
(***************************************************************************)
EXTENDS Jarvis, TLAPS

-----------------------------------------------------------------------------
(* The inductive invariant.                                                *)

StartSteps == {"hydrating", "hydrated", "checking", "loading", "querying", "approved",
               "reserved", "leased", "invoking", "signalling", "announcing", "started"}
Answered == {"remembering", "recording", "finishing", "announcing"}

\* A call has an answer at the steps that use it, to its own request.
Agrees(c) ==
  /\ pc[c] \in StartSteps => BodyOf(c).do = "agent.start"
  /\ answer[c] # NoAnswer <=> pc[c] \in Answered
  /\ answer[c] # NoAnswer => answer[c].body = BodyOf(c)

CallsAgree == \A c \in Calls : Agrees(c)

\* A result that says a mission was created names the row that the same request
\* created.
Names(i, result) ==
  result # NoAnswer /\ result.ok /\ result.body.do = "mission.create" =>
    /\ result.mission \in Records
    /\ stored[result.mission] # NoMission
    /\ stored[result.mission].source = i
    /\ stored[result.mission].title = result.body.title

\* It does so wherever it is kept: a replay or a repeated admission may take it
\* from any cache, from the row of the database or from a call in progress.
AnswersName ==
  /\ \A i \in Ids : /\ Names(i, svc[i]) /\ Names(i, memo[i])
                    /\ Names(i, recorded[i]) /\ Names(i, known[i])
  /\ \A c \in Calls : pc[c] # "idle" => Names(Id(c), answer[c])
  /\ \A i \in Ids : \A t \in told[i] : t.mission \in Records

\* The active lease of an attempt is that of a call for this attempt.
ActiveAgrees == \A a \in Attempts : active[a] # NoCall => BodyOf(active[a]).attempt = a

LeasesAgree == LeaseGuardsAgent /\ ActiveAgrees

IInv ==
  /\ JarvisTypeOK /\ CallsAgree
  /\ LeasesAgree
  /\ OneMissionPerRequest
  /\ setup.store => AnswersName

-----------------------------------------------------------------------------
(* Types.                                                                  *)

\* The fields of a request that is being handled.
LEMMA RequestFields ==
  ASSUME JarvisTypeOK, NEW c \in Calls, pc[c] # "idle"
  PROVE  /\ req[c] \in Request /\ Id(c) \in Ids /\ req[c].actor \in Actors
         /\ BodyOf(c) \in Body
<1>1. req[c] \in Request
  BY DEF JarvisTypeOK
<1> QED
  BY <1>1 DEF Request, Id, BodyOf

\* A result of such a request is an answer.
LEMMA ResultType ==
  ASSUME JarvisTypeOK, NEW c \in Calls, pc[c] # "idle", NEW ok \in BOOLEAN, NEW m \in Nat
  PROVE  Result(c, ok, m) \in Answer /\ Result(c, ok, m) # NoAnswer
  BY RequestFields, JarvisAssumption DEF Result, Answer

\* A call that goes on, and one that ends, keep the types of calls.
CallsTyped ==
  /\ pc \in [Calls -> Steps] /\ req \in [Calls -> Request \cup {NoRequest}]
  /\ \A c \in Calls : pc[c] = "idle" <=> req[c] = NoRequest

LEMMA CallTypes ==
  ASSUME JarvisTypeOK, NEW c \in Calls, pc[c] # "idle"
  PROVE  /\ \A s \in Steps \ {"idle"} :
              pc' = Sets(pc, c, s) /\ UNCHANGED req => CallsTyped'
         /\ Throws(c) => CallsTyped'
         /\ pc' = Sets(pc, c, "idle") /\ req' = Sets(req, c, NoRequest) => CallsTyped'
         /\ UNCHANGED <<pc, req>> => CallsTyped'
         /\ \A r \in Answer : Finishes(c, r) => answer' \in [Calls -> Answer \cup {NoAnswer}]
<1>1. CallsTyped
  BY DEF CallsTyped, JarvisTypeOK
<1>2. \A s \in Steps \ {"idle"} : pc' = Sets(pc, c, s) /\ UNCHANGED req => CallsTyped'
  BY <1>1 DEF CallsTyped, Sets
<1>3. pc' = Sets(pc, c, "idle") /\ req' = Sets(req, c, NoRequest) => CallsTyped'
  BY <1>1 DEF CallsTyped, Sets, Steps
<1>4. Throws(c) => CallsTyped'
  BY <1>3 DEF Throws
<1>5. UNCHANGED <<pc, req>> => CallsTyped'
  BY <1>1 DEF CallsTyped
<1>6. \A r \in Answer : Finishes(c, r) => answer' \in [Calls -> Answer \cup {NoAnswer}]
  BY DEF JarvisTypeOK, Finishes, Sets
<1> QED
  BY <1>2, <1>3, <1>4, <1>5, <1>6

\* What the database tells of a quota, and what is told to it, are quota states.
LEMMA QuotaTypes ==
  /\ \A row \in QuotaRow : RuntimeState(row) \in QuotaStates
  /\ \A p \in Payload : ObservedState(p) \in QuotaStates
<1>1. ASSUME NEW row \in QuotaRow PROVE RuntimeState(row) \in QuotaStates
  BY DEF RuntimeState, QuotaRow, QuotaStates
<1>2. ASSUME NEW p \in Payload PROVE ObservedState(p) \in QuotaStates
  BY DEF ObservedState, Payload, QuotaStates
<1> QED
  BY <1>1, <1>2

\* The deployment is one of those the assumption speaks of.
LEMMA SetupType ==
  ASSUME JarvisTypeOK
  PROVE  /\ setup \in Setup /\ setup.store \in BOOLEAN
         /\ setup.requests \subseteq Request /\ setup.payloads \subseteq Payload
<1>1. setup \in Setup
  BY JarvisAssumption DEF JarvisTypeOK
<1> QED
  BY <1>1 DEF Setup

LEMMA TypeInit == Init => JarvisTypeOK
<1> SUFFICES ASSUME Init PROVE JarvisTypeOK
  OBVIOUS
<1>1. setup \in Setup
  BY JarvisAssumption DEF Init
<1>2. setup.missions \in [Records -> {"absent", "queued", "cancelled"}]
      /\ setup.workspaces \in [Records -> Workspace \cup {NoWorkspace}]
  BY <1>1 DEF Setup
<1>3. quotaRow \in [Workers -> QuotaRow]
  BY DEF Init, QuotaInit, QuotaRow, QuotaStates, Sources, TrustedSources
<1>4. Unknown \in [Workers -> QuotaStates]
  BY DEF Unknown, QuotaStates
<1> QED
  BY <1>2, <1>3, <1>4 DEF Init, JarvisTypeOK, Steps
-----------------------------------------------------------------------------
(* Steps and types.                                                        *)

ReadsTyped ==
  /\ seen \in [Calls -> [Workers -> QuotaStates]] /\ late \in [Calls -> BOOLEAN]
  /\ answer \in [Calls -> Answer \cup {NoAnswer}]

CachesTyped ==
  /\ svc \in [Ids -> Answer \cup {NoAnswer}] /\ memo \in [Ids -> Answer \cup {NoAnswer}]
  /\ recorded \in [Ids -> Answer \cup {NoAnswer}]
  /\ known \in [Ids -> Answer \cup {NoAnswer}]

MissionsTyped ==
  /\ stored \in [Records -> Mission \cup {NoMission}]
  /\ told \in [Ids -> SUBSET [title : Titles, mission : Nat]]

RegistryTyped ==
  /\ missions \in [Records -> {"absent", "queued", "cancelled"}]
  /\ workspaces \in [Records -> Workspace \cup {NoWorkspace}]
  /\ fences \in [Attempts -> Nat]
  /\ stops \subseteq Records \X Attempts

GatesTyped ==
  /\ approvals \in [Approvals -> {"absent", "fresh", "consumed"}]
  /\ lapsed \subseteq Approvals
  /\ quotas \in [Workers -> QuotaStates] /\ quotaRow \in [Workers -> QuotaRow]

HoldsTyped ==
  /\ leases \subseteq Calls /\ budgets \subseteq Calls
  /\ active \in [Attempts -> Calls \cup {NoCall}]

\* The type invariant by parts, of which a step disturbs few.
LEMMA TypeParts ==
  JarvisTypeOK <=>
    /\ setup \in Setups /\ restarts \in Nat
    /\ CallsTyped /\ ReadsTyped /\ CachesTyped /\ MissionsTyped /\ RegistryTyped
    /\ GatesTyped /\ HoldsTyped
  BY DEF JarvisTypeOK, CallsTyped, ReadsTyped, CachesTyped, MissionsTyped, RegistryTyped,
         GatesTyped, HoldsTyped

\* The same of the next state.
LEMMA NextTypeParts ==
  /\ setup' \in Setups /\ restarts' \in Nat
  /\ CallsTyped' /\ ReadsTyped' /\ CachesTyped' /\ MissionsTyped' /\ RegistryTyped'
  /\ GatesTyped' /\ HoldsTyped'
  => JarvisTypeOK'
  BY DEF JarvisTypeOK, CallsTyped, ReadsTyped, CachesTyped, MissionsTyped, RegistryTyped,
         GatesTyped, HoldsTyped

\* The evaluation of a start ends with a result, or goes on without.
LEMMA ConclusionTypes ==
  ASSUME JarvisTypeOK, NEW c \in Calls, pc[c] # "idle"
  PROVE  /\ \A ok \in BOOLEAN : Concludes(c, ok) =>
              /\ answer' \in [Calls -> Answer \cup {NoAnswer}]
              /\ known' \in [Ids -> Answer \cup {NoAnswer}]
         /\ Refuses(c) => /\ answer' \in [Calls -> Answer \cup {NoAnswer}]
                          /\ known' \in [Ids -> Answer \cup {NoAnswer}]
         /\ \A s \in Steps : Proceeds(c, s) =>
              /\ answer' \in [Calls -> Answer \cup {NoAnswer}]
              /\ known' \in [Ids -> Answer \cup {NoAnswer}]
<1>1. ASSUME NEW ok \in BOOLEAN, Concludes(c, ok)
      PROVE  /\ answer' \in [Calls -> Answer \cup {NoAnswer}]
             /\ known' \in [Ids -> Answer \cup {NoAnswer}]
  <2>1. Result(c, ok, 0) \in Answer
    BY ResultType
  <2> QED
    BY <1>1, <2>1 DEF Concludes, Sets, JarvisTypeOK
<1>2. \A s \in Steps : Proceeds(c, s) =>
        /\ answer' \in [Calls -> Answer \cup {NoAnswer}]
        /\ known' \in [Ids -> Answer \cup {NoAnswer}]
  BY DEF Proceeds, JarvisTypeOK
<1> QED
  BY <1>1, <1>2 DEF Refuses

\* A part whose variables do not change keeps its types.
LEMMA TypeFrame ==
  ASSUME JarvisTypeOK
  PROVE  /\ UNCHANGED <<setup, restarts>> => setup' \in Setups /\ restarts' \in Nat
         /\ UNCHANGED <<pc, req>> => CallsTyped'
         /\ UNCHANGED <<seen, late, answer>> => ReadsTyped'
         /\ UNCHANGED cacheVars => CachesTyped'
         /\ UNCHANGED missionVars => MissionsTyped'
         /\ UNCHANGED registryVars => RegistryTyped'
         /\ UNCHANGED gateVars => GatesTyped'
         /\ UNCHANGED holdVars => HoldsTyped'
  BY TypeParts DEF cacheVars, missionVars, registryVars, gateVars, holdVars, CallsTyped,
     ReadsTyped, CachesTyped, MissionsTyped, RegistryTyped, GatesTyped, HoldsTyped

LEMMA ReceiveTypes ==
  ASSUME JarvisTypeOK, NEW c \in Calls, NEW r \in setup.requests, Receive(c, r)
  PROVE  JarvisTypeOK'
<1>1. UNCHANGED <<setup, restarts, seen, late, answer, cacheVars, missionVars, registryVars, gateVars, holdVars>>
  BY DEF Receive, callVars
<1>2. r \in Request
  BY SetupType
<1>4. ReadsTyped /\ CachesTyped /\ GatesTyped /\ HoldsTyped /\ MissionsTyped /\ RegistryTyped
  BY TypeParts
<1>5. CallsTyped'
  BY <1>2, TypeParts, JarvisAssumption DEF Receive, Sets, Steps, CallsTyped
<1> QED
  BY <1>1, <1>5, TypeFrame, NextTypeParts

LEMMA DecideTypes ==
  ASSUME JarvisTypeOK, NEW c \in Calls, Decide(c)
  PROVE  JarvisTypeOK'
<1>1. UNCHANGED <<setup, restarts, cacheVars, missionVars, registryVars, gateVars, holdVars>>
  BY DEF Decide, callVars
<1>2. pc[c] # "idle" /\ Id(c) \in Ids /\ BodyOf(c) \in Body
  BY RequestFields DEF Decide
<1>3. \A ok \in BOOLEAN, m \in Nat : Result(c, ok, m) \in Answer
  BY <1>2, ResultType
<1>4. ReadsTyped /\ CachesTyped /\ GatesTyped /\ HoldsTyped /\ MissionsTyped /\ RegistryTyped
  BY TypeParts
<1>5. CallsTyped'
  BY <1>2, CallTypes DEF Decide, Finishes, Steps
<1>6. ReadsTyped'
  <2>1. CASE UNCHANGED answer
    BY <1>4, <2>1 DEF Decide, ReadsTyped
  <2>2. CASE answer' = Sets(answer, c, Result(c, TRUE, 0))
    BY <1>3, <1>4, <2>2 DEF Decide, ReadsTyped, Sets
  <2>3. CASE answer' = Sets(answer, c, Result(c, FALSE, 0))
    BY <1>3, <1>4, <2>3 DEF Decide, ReadsTyped, Sets
  <2>4. \/ UNCHANGED answer
        \/ answer' = Sets(answer, c, Result(c, Policy(BodyOf(c).do) = "ALLOW", 0))
    BY DEF Decide, Finishes
  <2>5. (Policy(BodyOf(c).do) = "ALLOW") \in BOOLEAN
    OBVIOUS
  <2> QED
    BY <2>1, <2>2, <2>3, <2>4, <2>5
<1> QED
  BY <1>1, <1>5, <1>6, TypeFrame, NextTypeParts

LEMMA ReplayTypes ==
  ASSUME JarvisTypeOK, NEW c \in Calls, Replay(c)
  PROVE  JarvisTypeOK'
<1>1. UNCHANGED <<setup, restarts, missionVars, registryVars, gateVars, holdVars>>
  BY DEF Replay, callVars
<1>2. pc[c] # "idle" /\ Id(c) \in Ids /\ BodyOf(c) \in Body
  BY RequestFields DEF Replay
<1>3. \A ok \in BOOLEAN, m \in Nat : Result(c, ok, m) \in Answer
  BY <1>2, ResultType
<1>4. ReadsTyped /\ CachesTyped /\ GatesTyped /\ HoldsTyped /\ MissionsTyped /\ RegistryTyped
  BY TypeParts
<1>5. CallsTyped'
  BY <1>2, CallTypes DEF Replay, Finishes, Steps
<1>6. ReadsTyped'
  BY <1>2, <1>3, <1>4 DEF Replay, Finishes, Throws, ReadsTyped, Sets, CachesTyped
<1>7. CachesTyped'
  BY <1>2, <1>3, <1>4 DEF Replay, CachesTyped, Sets, ReadsTyped
<1> QED
  BY <1>1, <1>5, <1>6, <1>7, TypeFrame, NextTypeParts

LEMMA RememberTypes ==
  ASSUME JarvisTypeOK, NEW c \in Calls, Remember(c)
  PROVE  JarvisTypeOK'
<1>1. UNCHANGED <<setup, restarts, seen, late, answer, missionVars, registryVars, gateVars, holdVars>>
  BY DEF Remember, callVars
<1>2. pc[c] # "idle" /\ Id(c) \in Ids /\ BodyOf(c) \in Body
  BY RequestFields DEF Remember
<1>3. \A ok \in BOOLEAN, m \in Nat : Result(c, ok, m) \in Answer
  BY <1>2, ResultType
<1>4. ReadsTyped /\ CachesTyped /\ GatesTyped /\ HoldsTyped /\ MissionsTyped /\ RegistryTyped
  BY TypeParts
<1>5. CallsTyped'
  BY <1>2, CallTypes DEF Remember, Steps
<1>6. CachesTyped'
  BY <1>2, <1>4 DEF Remember, CachesTyped, Sets, ReadsTyped
<1> QED
  BY <1>1, <1>5, <1>6, TypeFrame, NextTypeParts

LEMMA RecordTypes ==
  ASSUME JarvisTypeOK, NEW c \in Calls, Record(c)
  PROVE  JarvisTypeOK'
<1>1. UNCHANGED <<setup, restarts, seen, late, answer, missionVars, registryVars, gateVars, holdVars>>
  BY DEF Record, callVars
<1>2. pc[c] # "idle" /\ Id(c) \in Ids /\ BodyOf(c) \in Body
  BY RequestFields DEF Record
<1>3. \A ok \in BOOLEAN, m \in Nat : Result(c, ok, m) \in Answer
  BY <1>2, ResultType
<1>4. ReadsTyped /\ CachesTyped /\ GatesTyped /\ HoldsTyped /\ MissionsTyped /\ RegistryTyped
  BY TypeParts
<1>5. CallsTyped'
  BY <1>2, CallTypes DEF Record, Steps
<1>6. CachesTyped'
  BY <1>2, <1>4 DEF Record, CachesTyped, Sets, ReadsTyped
<1> QED
  BY <1>1, <1>5, <1>6, TypeFrame, NextTypeParts

LEMMA FinishTypes ==
  ASSUME JarvisTypeOK, CallsAgree, NEW c \in Calls, Finish(c)
  PROVE  JarvisTypeOK'
<1>1. UNCHANGED <<setup, restarts, registryVars, gateVars, holdVars>>
  BY DEF Finish, callVars
<1>2. pc[c] # "idle" /\ Id(c) \in Ids /\ BodyOf(c) \in Body
  BY RequestFields DEF Finish
<1>3. \A ok \in BOOLEAN, m \in Nat : Result(c, ok, m) \in Answer
  BY <1>2, ResultType
<1>4. ReadsTyped /\ CachesTyped /\ GatesTyped /\ HoldsTyped /\ MissionsTyped /\ RegistryTyped
  BY TypeParts
<1>5. CallsTyped'
  BY <1>2, CallTypes DEF Finish, Steps
<1>6. ReadsTyped'
  BY <1>2, <1>4 DEF Finish, ReadsTyped, Sets
<1>7. CachesTyped'
  BY <1>2, <1>4 DEF Finish, CachesTyped, Sets, ReadsTyped
<1>8. MissionsTyped'
  <2>1. answer[c] \in Answer /\ BodyOf(c).title \in Titles
    BY <1>2, <1>4 DEF Finish, CallsAgree, Agrees, Answered, ReadsTyped, Body
  <2>2. [title |-> BodyOf(c).title, mission |-> answer[c].mission]
          \in [title : Titles, mission : Nat]
    BY <2>1 DEF Answer
  <2> QED
    BY <1>2, <1>4, <2>2 DEF Finish, Told, MissionsTyped
<1> QED
  BY <1>1, <1>5, <1>6, <1>7, <1>8, TypeFrame, NextTypeParts

LEMMA EvaluateTypes ==
  ASSUME JarvisTypeOK, NEW c \in Calls, Evaluate(c)
  PROVE  JarvisTypeOK'
<1>1. UNCHANGED <<setup, restarts, cacheVars, missionVars, registryVars, gateVars, holdVars>>
  BY DEF Evaluate, callVars
<1>2. pc[c] # "idle" /\ Id(c) \in Ids /\ BodyOf(c) \in Body
  BY RequestFields DEF Evaluate
<1>3. \A ok \in BOOLEAN, m \in Nat : Result(c, ok, m) \in Answer
  BY <1>2, ResultType
<1>4. ReadsTyped /\ CachesTyped /\ GatesTyped /\ HoldsTyped /\ MissionsTyped /\ RegistryTyped
  BY TypeParts
<1>5. CallsTyped'
  BY <1>2, CallTypes DEF Evaluate, Finishes, Steps
<1>6. ReadsTyped'
  <2>1. answer' \in [Calls -> Answer \cup {NoAnswer}]
    BY <1>2, <1>4 DEF Evaluate, Finishes, ReadsTyped, CachesTyped, Sets
  <2>2. (BodyOf(c).approval \in lapsed) \in BOOLEAN
    OBVIOUS
  <2>3. late' = late \/ late' = [late EXCEPT ![c] = BodyOf(c).approval \in lapsed]
    BY DEF Evaluate, Sets
  <2>4. late' \in [Calls -> BOOLEAN]
    BY <1>4, <2>2, <2>3 DEF ReadsTyped
  <2> QED
    BY <1>4, <2>1, <2>4 DEF Evaluate, ReadsTyped
<1> QED
  BY <1>1, <1>5, <1>6, TypeFrame, NextTypeParts

LEMMA HydrateTypes ==
  ASSUME JarvisTypeOK, NEW c \in Calls, Hydrate(c)
  PROVE  JarvisTypeOK'
<1>1. UNCHANGED <<setup, restarts, cacheVars, missionVars, registryVars, gateVars, holdVars>>
  BY DEF Hydrate, callVars
<1>2. pc[c] # "idle" /\ Id(c) \in Ids /\ BodyOf(c) \in Body
  BY RequestFields DEF Hydrate
<1>3. \A ok \in BOOLEAN, m \in Nat : Result(c, ok, m) \in Answer
  BY <1>2, ResultType
<1>4. ReadsTyped /\ CachesTyped /\ GatesTyped /\ HoldsTyped /\ MissionsTyped /\ RegistryTyped
  BY TypeParts
<1>5. CallsTyped'
  BY <1>2, CallTypes DEF Hydrate, Steps
<1>6. ReadsTyped'
  BY <1>2, <1>4, QuotaTypes DEF Hydrate, ReadsTyped, Sets, GatesTyped
<1> QED
  BY <1>1, <1>5, <1>6, TypeFrame, NextTypeParts

LEMMA SetQuotasTypes ==
  ASSUME JarvisTypeOK, NEW c \in Calls, SetQuotas(c)
  PROVE  JarvisTypeOK'
<1>1. UNCHANGED <<setup, restarts, cacheVars, missionVars, registryVars, holdVars>>
  BY DEF SetQuotas, callVars
<1>2. pc[c] # "idle" /\ Id(c) \in Ids /\ BodyOf(c) \in Body
  BY RequestFields DEF SetQuotas
<1>3. \A ok \in BOOLEAN, m \in Nat : Result(c, ok, m) \in Answer
  BY <1>2, ResultType
<1>4. ReadsTyped /\ CachesTyped /\ GatesTyped /\ HoldsTyped /\ MissionsTyped /\ RegistryTyped
  BY TypeParts
<1>5. CallsTyped'
  BY <1>2, CallTypes DEF SetQuotas, Steps
<1>6. ReadsTyped'
  BY <1>2, <1>4 DEF SetQuotas, Unknown, QuotaStates, ReadsTyped, Sets
<1>7. GatesTyped'
  BY <1>2, <1>4 DEF SetQuotas, GatesTyped, ReadsTyped
<1> QED
  BY <1>1, <1>5, <1>6, <1>7, TypeFrame, NextTypeParts

LEMMA CheckMissionTypes ==
  ASSUME JarvisTypeOK, NEW c \in Calls, CheckMission(c)
  PROVE  JarvisTypeOK'
<1>1. UNCHANGED <<setup, restarts, missionVars, registryVars, gateVars, holdVars>>
  BY DEF CheckMission, callVars
<1>2. pc[c] # "idle" /\ Id(c) \in Ids /\ BodyOf(c) \in Body
  BY RequestFields DEF CheckMission
<1>3. \A ok \in BOOLEAN, m \in Nat : Result(c, ok, m) \in Answer
  BY <1>2, ResultType
<1>4. ReadsTyped /\ CachesTyped /\ GatesTyped /\ HoldsTyped /\ MissionsTyped /\ RegistryTyped
  BY TypeParts
<1>5. CallsTyped'
  BY <1>2, CallTypes DEF CheckMission, Refuses, Concludes, Proceeds, Steps
<1>6. ReadsTyped'
  BY <1>2, <1>4, ConclusionTypes DEF CheckMission, ReadsTyped, Sets, Steps
<1>7. CachesTyped'
  BY <1>2, <1>4, ConclusionTypes DEF CheckMission, CachesTyped, Sets, Steps,
     ReadsTyped
<1> QED
  BY <1>1, <1>5, <1>6, <1>7, TypeFrame, NextTypeParts

LEMMA LoadApprovalTypes ==
  ASSUME JarvisTypeOK, NEW c \in Calls, LoadApproval(c)
  PROVE  JarvisTypeOK'
<1>1. UNCHANGED <<setup, restarts, missionVars, registryVars, gateVars, holdVars>>
  BY DEF LoadApproval, callVars
<1>2. pc[c] # "idle" /\ Id(c) \in Ids /\ BodyOf(c) \in Body
  BY RequestFields DEF LoadApproval
<1>3. \A ok \in BOOLEAN, m \in Nat : Result(c, ok, m) \in Answer
  BY <1>2, ResultType
<1>4. ReadsTyped /\ CachesTyped /\ GatesTyped /\ HoldsTyped /\ MissionsTyped /\ RegistryTyped
  BY TypeParts
<1>5. CallsTyped'
  BY <1>2, CallTypes DEF LoadApproval, Examine, Refuses, Concludes, Proceeds, Steps
<1>6. ReadsTyped'
  BY <1>2, <1>4, ConclusionTypes DEF LoadApproval, Examine, ReadsTyped, Sets, Steps
<1>7. CachesTyped'
  BY <1>2, <1>4, ConclusionTypes DEF LoadApproval, Examine, CachesTyped, Sets,
     Steps, ReadsTyped
<1> QED
  BY <1>1, <1>5, <1>6, <1>7, TypeFrame, NextTypeParts

LEMMA QueryApprovalTypes ==
  ASSUME JarvisTypeOK, NEW c \in Calls, QueryApproval(c)
  PROVE  JarvisTypeOK'
<1>1. UNCHANGED <<setup, restarts, missionVars, registryVars, holdVars>>
  BY DEF QueryApproval, callVars
<1>2. pc[c] # "idle" /\ Id(c) \in Ids /\ BodyOf(c) \in Body
  BY RequestFields DEF QueryApproval
<1>3. \A ok \in BOOLEAN, m \in Nat : Result(c, ok, m) \in Answer
  BY <1>2, ResultType
<1>4. ReadsTyped /\ CachesTyped /\ GatesTyped /\ HoldsTyped /\ MissionsTyped /\ RegistryTyped
  BY TypeParts
<1>5. CallsTyped'
  BY <1>2, CallTypes DEF QueryApproval, Examine, Refuses, Concludes, Proceeds, Steps
<1>6. ReadsTyped'
  BY <1>2, <1>4, ConclusionTypes DEF QueryApproval, Examine, ReadsTyped, Sets, Steps
<1>7. CachesTyped'
  BY <1>2, <1>4, ConclusionTypes DEF QueryApproval, Examine, CachesTyped, Sets,
     Steps, ReadsTyped
<1>8. GatesTyped'
  BY <1>2, <1>4 DEF QueryApproval, GatesTyped
<1> QED
  BY <1>1, <1>5, <1>6, <1>7, <1>8, TypeFrame, NextTypeParts

LEMMA ReserveBudgetTypes ==
  ASSUME JarvisTypeOK, NEW c \in Calls, ReserveBudget(c)
  PROVE  JarvisTypeOK'
<1>1. UNCHANGED <<setup, restarts, missionVars, registryVars, gateVars>>
  BY DEF ReserveBudget, callVars
<1>2. pc[c] # "idle" /\ Id(c) \in Ids /\ BodyOf(c) \in Body
  BY RequestFields DEF ReserveBudget
<1>3. \A ok \in BOOLEAN, m \in Nat : Result(c, ok, m) \in Answer
  BY <1>2, ResultType
<1>4. ReadsTyped /\ CachesTyped /\ GatesTyped /\ HoldsTyped /\ MissionsTyped /\ RegistryTyped
  BY TypeParts
<1>5. CallsTyped'
  BY <1>2, CallTypes DEF ReserveBudget, Refuses, Concludes, Proceeds, Steps
<1>6. ReadsTyped'
  BY <1>2, <1>4, ConclusionTypes DEF ReserveBudget, ReadsTyped, Sets, Steps
<1>7. CachesTyped'
  BY <1>2, <1>4, ConclusionTypes DEF ReserveBudget, CachesTyped, Sets, Steps,
     ReadsTyped
<1>8. HoldsTyped'
  BY <1>2, <1>4 DEF ReserveBudget, HoldsTyped
<1> QED
  BY <1>1, <1>5, <1>6, <1>7, <1>8, TypeFrame, NextTypeParts

LEMMA TakeLeaseTypes ==
  ASSUME JarvisTypeOK, NEW c \in Calls, TakeLease(c)
  PROVE  JarvisTypeOK'
<1>1. UNCHANGED <<setup, restarts, missionVars, gateVars>>
  BY DEF TakeLease, callVars
<1>2. pc[c] # "idle" /\ Id(c) \in Ids /\ BodyOf(c) \in Body
  BY RequestFields DEF TakeLease
<1>3. \A ok \in BOOLEAN, m \in Nat : Result(c, ok, m) \in Answer
  BY <1>2, ResultType
<1>4. ReadsTyped /\ CachesTyped /\ GatesTyped /\ HoldsTyped /\ MissionsTyped /\ RegistryTyped
  BY TypeParts
<1>5. CallsTyped'
  BY <1>2, CallTypes DEF TakeLease, Refuses, Concludes, Proceeds, Steps
<1>6. ReadsTyped'
  BY <1>2, <1>4, ConclusionTypes DEF TakeLease, ReadsTyped, Sets, Steps
<1>7. CachesTyped'
  BY <1>2, <1>4, ConclusionTypes DEF TakeLease, CachesTyped, Sets, Steps, ReadsTyped
<1>8. RegistryTyped'
  BY <1>2, <1>4, JarvisAssumption DEF TakeLease, Fenced, Body, RegistryTyped
<1>9. HoldsTyped'
  BY <1>2, <1>4 DEF TakeLease, Releases, HoldsTyped
<1> QED
  BY <1>1, <1>5, <1>6, <1>7, <1>8, <1>9, TypeFrame, NextTypeParts

LEMMA PassGateTypes ==
  ASSUME JarvisTypeOK, NEW c \in Calls, PassGate(c)
  PROVE  JarvisTypeOK'
<1>1. UNCHANGED <<setup, restarts, missionVars, registryVars>>
  BY DEF PassGate, callVars
<1>2. pc[c] # "idle" /\ Id(c) \in Ids /\ BodyOf(c) \in Body
  BY RequestFields DEF PassGate
<1>3. \A ok \in BOOLEAN, m \in Nat : Result(c, ok, m) \in Answer
  BY <1>2, ResultType
<1>4. ReadsTyped /\ CachesTyped /\ GatesTyped /\ HoldsTyped /\ MissionsTyped /\ RegistryTyped
  BY TypeParts
<1>5. CallsTyped'
  BY <1>2, CallTypes DEF PassGate, Refuses, Concludes, Proceeds, Steps
<1>6. ReadsTyped'
  BY <1>2, <1>4, ConclusionTypes DEF PassGate, ReadsTyped, Sets, Steps
<1>7. CachesTyped'
  BY <1>2, <1>4, ConclusionTypes DEF PassGate, CachesTyped, Sets, Steps, ReadsTyped
<1>8. GatesTyped'
  BY <1>2, <1>4 DEF PassGate, GatesTyped
<1>9. HoldsTyped'
  BY <1>2, <1>4 DEF PassGate, Releases, holdVars, HoldsTyped
<1> QED
  BY <1>1, <1>5, <1>6, <1>7, <1>8, <1>9, TypeFrame, NextTypeParts

LEMMA ProviderStartsTypes ==
  ASSUME JarvisTypeOK, NEW c \in Calls, ProviderStarts(c)
  PROVE  JarvisTypeOK'
<1>1. UNCHANGED <<setup, restarts, missionVars, registryVars, gateVars, holdVars>>
  BY DEF ProviderStarts, callVars
<1>2. pc[c] # "idle" /\ Id(c) \in Ids /\ BodyOf(c) \in Body
  BY RequestFields DEF ProviderStarts
<1>3. \A ok \in BOOLEAN, m \in Nat : Result(c, ok, m) \in Answer
  BY <1>2, ResultType
<1>4. ReadsTyped /\ CachesTyped /\ GatesTyped /\ HoldsTyped /\ MissionsTyped /\ RegistryTyped
  BY TypeParts
<1>5. CallsTyped'
  BY <1>2, CallTypes DEF ProviderStarts, Concludes, Steps
<1>6. ReadsTyped'
  BY <1>2, <1>4, ConclusionTypes DEF ProviderStarts, ReadsTyped, Sets, Steps
<1>7. CachesTyped'
  BY <1>2, <1>4, ConclusionTypes DEF ProviderStarts, CachesTyped, Sets, Steps,
     ReadsTyped
<1> QED
  BY <1>1, <1>5, <1>6, <1>7, TypeFrame, NextTypeParts

LEMMA ProviderFailsTypes ==
  ASSUME JarvisTypeOK, NEW c \in Calls, ProviderFails(c)
  PROVE  JarvisTypeOK'
<1>1. UNCHANGED <<setup, restarts, missionVars, registryVars>>
  BY DEF ProviderFails, callVars
<1>2. pc[c] # "idle" /\ Id(c) \in Ids /\ BodyOf(c) \in Body
  BY RequestFields DEF ProviderFails
<1>3. \A ok \in BOOLEAN, m \in Nat : Result(c, ok, m) \in Answer
  BY <1>2, ResultType
<1>4. ReadsTyped /\ CachesTyped /\ GatesTyped /\ HoldsTyped /\ MissionsTyped /\ RegistryTyped
  BY TypeParts
<1>5. CallsTyped'
  BY <1>2, CallTypes DEF ProviderFails, Refuses, Concludes, Proceeds, Steps
<1>6. ReadsTyped'
  BY <1>2, <1>4, ConclusionTypes DEF ProviderFails, Unknown, QuotaStates,
     ReadsTyped, Sets, Steps
<1>7. CachesTyped'
  BY <1>2, <1>4, ConclusionTypes DEF ProviderFails, CachesTyped, Sets, Steps,
     ReadsTyped
<1>8. GatesTyped'
  BY <1>2, <1>4 DEF ProviderFails, QuotaStates, GatesTyped
<1>9. HoldsTyped'
  BY <1>2, <1>4 DEF ProviderFails, Releases, HoldsTyped
<1> QED
  BY <1>1, <1>5, <1>6, <1>7, <1>8, <1>9, TypeFrame, NextTypeParts

LEMMA RecordSignalTypes ==
  ASSUME JarvisTypeOK, NEW c \in Calls, RecordSignal(c)
  PROVE  JarvisTypeOK'
<1>1. UNCHANGED <<setup, restarts, missionVars, registryVars, holdVars>>
  BY DEF RecordSignal, callVars
<1>2. pc[c] # "idle" /\ Id(c) \in Ids /\ BodyOf(c) \in Body
  BY RequestFields DEF RecordSignal
<1>3. \A ok \in BOOLEAN, m \in Nat : Result(c, ok, m) \in Answer
  BY <1>2, ResultType
<1>4. ReadsTyped /\ CachesTyped /\ GatesTyped /\ HoldsTyped /\ MissionsTyped /\ RegistryTyped
  BY TypeParts
<1>5. CallsTyped'
  BY <1>2, CallTypes DEF RecordSignal, Refuses, Concludes, Steps
<1>6. ReadsTyped'
  BY <1>2, <1>4, ConclusionTypes DEF RecordSignal, Unknown, QuotaStates, ReadsTyped,
     Sets, Steps
<1>7. CachesTyped'
  BY <1>2, <1>4, ConclusionTypes DEF RecordSignal, CachesTyped, Sets, Steps,
     ReadsTyped
<1>8. GatesTyped'
  <2>1. BodyOf(c).worker \in Workers
    BY <1>2 DEF Body
  <2>2. seen[c][BodyOf(c).worker] \in QuotaStates
    BY <1>4, <2>1 DEF ReadsTyped
  <2>3. [state |-> seen[c][BodyOf(c).worker], source |-> "execution_observation",
         fresh |-> TRUE] \in QuotaRow
    BY <2>2 DEF QuotaRow, Sources
  <2>4. quotaRow' \in [Workers -> QuotaRow]
    BY <1>4, <2>1, <2>3 DEF RecordSignal, Writes, GatesTyped
  <2> QED
    BY <1>4, <2>4 DEF RecordSignal, GatesTyped
<1> QED
  BY <1>1, <1>5, <1>6, <1>7, <1>8, TypeFrame, NextTypeParts

-----------------------------------------------------------------------------
(* Types: mutations, the surroundings and all steps together.              *)

LEMMA MutationResultTypes ==
  ASSUME JarvisTypeOK, NEW c \in Calls, pc[c] # "idle"
  PROVE  /\ \A m \in Nat : Succeeds(c, m) =>
              CallsTyped' \/ req' # req
         /\ \A m \in Nat : Succeeds(c, m) => answer' \in [Calls -> Answer \cup {NoAnswer}]
         /\ Fails(c) => answer' \in [Calls -> Answer \cup {NoAnswer}]
         /\ Fails(c) => CallsTyped' \/ req' # req
<1>1. \A m \in Nat : Result(c, TRUE, m) \in Answer /\ Result(c, FALSE, 0) \in Answer
  BY ResultType
<1>2. answer \in [Calls -> Answer \cup {NoAnswer}]
  BY DEF JarvisTypeOK
<1>3. \A m \in Nat : Succeeds(c, m) => answer' \in [Calls -> Answer \cup {NoAnswer}]
  BY <1>1, <1>2 DEF Succeeds, Sets
<1>4. Fails(c) => answer' \in [Calls -> Answer \cup {NoAnswer}]
  BY <1>1, <1>2 DEF Fails, Finishes, Sets
<1>5. \A m \in Nat : Succeeds(c, m) => CallsTyped' \/ req' # req
  BY CallTypes DEF Succeeds, Steps
<1>6. Fails(c) => CallsTyped' \/ req' # req
  BY CallTypes DEF Fails, Finishes, Steps
<1> QED
  BY <1>3, <1>4, <1>5, <1>6

LEMMA DispatchToStoreTypes ==
  ASSUME JarvisTypeOK, NEW c \in Calls, DispatchToStore(c)
  PROVE  JarvisTypeOK'
<1>1. UNCHANGED <<setup, restarts, req, seen, late, told, cacheVars, registryVars,
                  gateVars, holdVars>>
  BY DEF DispatchToStore
<1>2. pc[c] # "idle" /\ Id(c) \in Ids /\ BodyOf(c) \in Body /\ req[c].actor \in Actors
  BY RequestFields DEF DispatchToStore
<1>3. BodyOf(c).title \in Titles /\ BodyOf(c).mission \in Records /\ Records \subseteq Nat
  BY <1>2, JarvisAssumption DEF Body
<1>4. ReadsTyped /\ MissionsTyped
  BY TypeParts
<1>5. (\E m \in Nat : Succeeds(c, m)) \/ Fails(c)
  BY <1>3 DEF DispatchToStore, AdmitMission, CancelMission
<1>6. CallsTyped' /\ ReadsTyped'
  BY <1>1, <1>2, <1>4, <1>5, MutationResultTypes DEF ReadsTyped
<1>7. stored' \in [Records -> Mission \cup {NoMission}]
  <2>1. CASE AdmitMission(c)
    <3>1. [source |-> Source(c), title |-> BodyOf(c).title, actor |-> req[c].actor,
           state |-> "queued"] \in Mission
      BY <1>2, <1>3 DEF Mission, Source
    <3> QED
      BY <1>4, <2>1, <3>1 DEF AdmitMission, MissionsTyped
  <2>2. CASE CancelMission(c)
    BY <1>3, <1>4, <2>2 DEF CancelMission, MissionsTyped, Mission
  <2> QED
    BY <2>1, <2>2 DEF DispatchToStore
<1>8. MissionsTyped'
  BY <1>1, <1>4, <1>7 DEF MissionsTyped
<1> QED
  BY <1>1, <1>6, <1>8, TypeFrame, NextTypeParts

LEMMA DispatchToRegistryTypes ==
  ASSUME JarvisTypeOK, NEW c \in Calls, DispatchToRegistry(c)
  PROVE  JarvisTypeOK'
<1>1. UNCHANGED <<setup, restarts, req, seen, late, workspaces, fences, stops, cacheVars,
                  missionVars, gateVars, holdVars>>
  BY DEF DispatchToRegistry
<1>2. pc[c] # "idle" /\ Id(c) \in Ids /\ BodyOf(c) \in Body
  BY RequestFields DEF DispatchToRegistry
<1>3. BodyOf(c).mission \in Records /\ Records \subseteq Nat
  BY <1>2, JarvisAssumption DEF Body
<1>4. ReadsTyped /\ RegistryTyped
  BY TypeParts
<1>5. (\E m \in Nat : Succeeds(c, m)) \/ Fails(c)
  BY <1>3 DEF DispatchToRegistry, RegistryMission
<1>6. CallsTyped' /\ ReadsTyped'
  BY <1>1, <1>2, <1>4, <1>5, MutationResultTypes DEF ReadsTyped
<1>7. RegistryTyped'
  BY <1>1, <1>3, <1>4 DEF DispatchToRegistry, RegistryMission, RegistryTyped
<1> QED
  BY <1>1, <1>6, <1>7, TypeFrame, NextTypeParts

LEMMA DispatchWorkTypes ==
  ASSUME JarvisTypeOK, NEW c \in Calls, DispatchWork(c)
  PROVE  JarvisTypeOK'
<1>1. UNCHANGED <<setup, restarts, req, seen, late, missions, cacheVars, missionVars,
                  gateVars, holdVars>>
  BY DEF DispatchWork
<1>2. pc[c] # "idle" /\ Id(c) \in Ids /\ BodyOf(c) \in Body
  BY RequestFields DEF DispatchWork
<1>3. /\ BodyOf(c).mission \in Records /\ BodyOf(c).workspace \in Records
      /\ BodyOf(c).attempt \in Attempts /\ BodyOf(c).title \in Titles
      /\ BodyOf(c).fence \in Nat
  BY <1>2, JarvisAssumption DEF Body
<1>4. ReadsTyped /\ RegistryTyped
  BY TypeParts
<1>5. (\E m \in Nat : Succeeds(c, m)) \/ Fails(c)
  BY DEF DispatchWork, CreateWorkspace, DeleteWorkspace, RunTestsOrStop
<1>6. CallsTyped' /\ ReadsTyped'
  BY <1>1, <1>2, <1>4, <1>5, MutationResultTypes DEF ReadsTyped
<1>7. fences' = fences \/ fences' = Fenced(BodyOf(c))
  BY DEF DispatchWork, CreateWorkspace, DeleteWorkspace, RunTestsOrStop
<1>8. fences' \in [Attempts -> Nat]
  BY <1>3, <1>4, <1>7 DEF Fenced, RegistryTyped
<1>9. workspaces' \in [Records -> Workspace \cup {NoWorkspace}]
  <2>1. CASE CreateWorkspace(c)
    <3>1. [mission |-> BodyOf(c).mission, attempt |-> BodyOf(c).attempt,
           title |-> BodyOf(c).title, deleted |-> FALSE] \in Workspace
      BY <1>3 DEF Workspace
    <3> QED
      BY <1>4, <2>1, <3>1 DEF CreateWorkspace, RegistryTyped
  <2>2. CASE DeleteWorkspace(c)
    <3>1. CASE workspaces[BodyOf(c).workspace] \in Workspace
      <4>1. [workspaces[BodyOf(c).workspace] EXCEPT !.deleted = TRUE] \in Workspace
        BY <3>1 DEF Workspace
      <4> QED
        BY <1>3, <1>4, <2>2, <4>1 DEF DeleteWorkspace, RegistryTyped
    <3>2. CASE workspaces[BodyOf(c).workspace] = NoWorkspace
      BY <1>3, <1>4, <2>2, <3>2 DEF DeleteWorkspace, RegistryTyped
    <3> QED
      BY <1>3, <1>4, <3>1, <3>2 DEF RegistryTyped
  <2>3. CASE RunTestsOrStop(c)
    BY <1>4, <2>3 DEF RunTestsOrStop, RegistryTyped
  <2> QED
    BY <2>1, <2>2, <2>3 DEF DispatchWork
<1>10. stops' \subseteq Records \X Attempts
  BY <1>3, <1>4 DEF DispatchWork, CreateWorkspace, DeleteWorkspace, RunTestsOrStop,
     RegistryTyped
<1>11. RegistryTyped'
  BY <1>1, <1>4, <1>8, <1>9, <1>10 DEF RegistryTyped
<1> QED
  BY <1>1, <1>6, <1>11, TypeFrame, NextTypeParts

\* The rows of the quotas, the approvals and the process change on their own.
LEMMA SurroundingsTypes ==
  ASSUME JarvisTypeOK,
         (\E p \in Approvals : ApprovalLapses(p)) \/ QuotaChanges \/ Restart
  PROVE  JarvisTypeOK'
<1>1. CASE \E p \in Approvals : ApprovalLapses(p)
  <2>1. UNCHANGED <<setup, restarts, callVars, cacheVars, missionVars, registryVars,
                    holdVars>>
    BY <1>1 DEF ApprovalLapses
  <2>2. GatesTyped'
    BY <1>1, TypeParts DEF ApprovalLapses, GatesTyped
  <2> QED
    BY <2>1, <2>2, TypeFrame, NextTypeParts DEF callVars
<1>2. CASE QuotaChanges
  <2>1. UNCHANGED <<setup, restarts, callVars, cacheVars, missionVars, registryVars,
                    approvals, lapsed, quotas, holdVars>>
    BY <1>2 DEF QuotaChanges
  <2>2. GatesTyped
    BY TypeParts
  <2>3. ASSUME \E p \in setup.payloads : Discover(p) PROVE GatesTyped'
    <3>1. PICK p \in setup.payloads : Discover(p)
      BY <2>3
    <3>2. ObservedState(p) \in QuotaStates
      BY <3>1, SetupType, QuotaTypes
    <3>3. [state |-> ObservedState(p), source |-> "provider_cli", fresh |-> TRUE] \in QuotaRow
      BY <3>2 DEF QuotaRow, Sources, TrustedSources
    <3> QED
      BY <2>1, <2>2, <3>1, <3>3 DEF Discover, Writes, GatesTyped, Workers
  <2>4. ASSUME \E w \in Workers : RowAges(w) PROVE GatesTyped'
    <3>1. PICK w \in Workers : RowAges(w)
      BY <2>4
    <3>2. [quotaRow[w] EXCEPT !.fresh = FALSE] \in QuotaRow
      BY <2>2 DEF GatesTyped, QuotaRow
    <3> QED
      BY <2>1, <2>2, <3>1, <3>2 DEF RowAges, GatesTyped
  <2>5. (\E p \in setup.payloads : Discover(p)) \/ (\E w \in Workers : RowAges(w))
    BY <1>2 DEF QuotaChanges
  <2>6. GatesTyped'
    BY <2>3, <2>4, <2>5
  <2> QED
    BY <2>1, <2>6, TypeFrame, NextTypeParts DEF callVars
<1>3. CASE Restart
  <2>1. UNCHANGED <<setup, missionVars>>
    BY <1>3 DEF Restart
  <2>2. CallsTyped'
    BY <1>3, JarvisAssumption DEF Restart, CallsTyped, Steps
  <2>3. Unknown \in [Workers -> QuotaStates]
    BY DEF Unknown, QuotaStates
  <2>4. ReadsTyped'
    BY <1>3, <2>3 DEF Restart, ReadsTyped
  <2>5. CachesTyped'
    BY <1>3, TypeParts DEF Restart, CachesTyped
  <2>6. RegistryTyped'
    BY <1>3 DEF Restart, RegistryTyped
  <2>7. GatesTyped'
    BY <1>3, <2>3, TypeParts DEF Restart, GatesTyped
  <2>8. HoldsTyped'
    BY <1>3 DEF Restart, HoldsTyped
  <2>9. setup' \in Setups /\ restarts' \in Nat
    BY <1>3, TypeParts DEF Restart
  <2> QED
    BY <2>1, <2>2, <2>4, <2>5, <2>6, <2>7, <2>8, <2>9, TypeFrame, NextTypeParts
<1> QED
  BY <1>1, <1>2, <1>3

\* Every step keeps the types.
LEMMA TypeStep ==
  ASSUME JarvisTypeOK, CallsAgree, [Next]_vars
  PROVE  JarvisTypeOK'
<1>1. ASSUME NEW c \in Calls, NEW r \in setup.requests, Receive(c, r) PROVE JarvisTypeOK'
  BY <1>1, ReceiveTypes
<1>2. ASSUME NEW c \in Calls, Decide(c) \/ Mutation(c) \/ Finish(c) PROVE JarvisTypeOK'
  BY <1>2, DecideTypes, FinishTypes, ReplayTypes, DispatchToStoreTypes,
     DispatchToRegistryTypes, DispatchWorkTypes, RememberTypes, RecordTypes DEF Mutation
<1>3. ASSUME NEW c \in Calls, Start(c) PROVE JarvisTypeOK'
  BY <1>3, EvaluateTypes, HydrateTypes, SetQuotasTypes, CheckMissionTypes,
     LoadApprovalTypes, QueryApprovalTypes, ReserveBudgetTypes, TakeLeaseTypes,
     PassGateTypes, ProviderStartsTypes, ProviderFailsTypes, RecordSignalTypes DEF Start
<1>4. CASE UNCHANGED vars
  BY <1>4, TypeFrame, NextTypeParts DEF vars, callVars
<1> QED
  BY <1>1, <1>2, <1>3, <1>4, SurroundingsTypes DEF Next
-----------------------------------------------------------------------------
(* Calls.                                                                  *)

\* A step of one call: everything but the request that arrives.
CallStep(c) ==
  Decide(c) \/ Mutation(c) \/ Start(c) \/ Finish(c) \/ \E r \in setup.requests : Receive(c, r)

OthersStay(c) ==
  \A d \in Calls \ {c} : pc'[d] = pc[d] /\ req'[d] = req[d] /\ answer'[d] = answer[d]

\* A step of one call leaves the others where they are.
LEMMA StepsAreOwn ==
  ASSUME JarvisTypeOK, NEW c \in Calls, CallStep(c)
  PROVE  OthersStay(c)
<1>0. pc \in [Calls -> Steps] /\ req \in [Calls -> Request \cup {NoRequest}]
      /\ answer \in [Calls -> Answer \cup {NoAnswer}]
  BY DEF JarvisTypeOK
<1>1. ASSUME NEW r \in setup.requests, Receive(c, r) PROVE OthersStay(c)
  BY <1>0, <1>1 DEF Receive, OthersStay, Sets
<1>2. CASE Decide(c)
  BY <1>0, <1>2 DEF Decide, Finishes, OthersStay, Sets
<1>3. CASE Replay(c)
  BY <1>0, <1>3 DEF Replay, Finishes, Throws, OthersStay, Sets
<1>4. ASSUME UNCHANGED req, (\E m : Succeeds(c, m)) \/ Fails(c) PROVE OthersStay(c)
  BY <1>0, <1>4 DEF Succeeds, Fails, Finishes, OthersStay, Sets
<1>5. CASE DispatchToStore(c)
  BY <1>4, <1>5 DEF DispatchToStore, AdmitMission, CancelMission
<1>6. CASE DispatchToRegistry(c)
  BY <1>4, <1>6 DEF DispatchToRegistry, RegistryMission
<1>7. CASE DispatchWork(c)
  BY <1>4, <1>7 DEF DispatchWork, CreateWorkspace, DeleteWorkspace, RunTestsOrStop
<1>8. CASE Remember(c) \/ Record(c)
  BY <1>0, <1>8 DEF Remember, Record, OthersStay, Sets
<1>9. CASE Finish(c)
  BY <1>0, <1>9 DEF Finish, OthersStay, Sets
<1>10. CASE Evaluate(c)
  BY <1>0, <1>10 DEF Evaluate, Finishes, Throws, OthersStay, Sets
<1>11. CASE Hydrate(c) \/ SetQuotas(c)
  BY <1>0, <1>11 DEF Hydrate, SetQuotas, OthersStay, Sets
<1>12. ASSUME UNCHANGED req,
              (\E s : Proceeds(c, s)) \/ Refuses(c) \/ Concludes(c, TRUE)
       PROVE  OthersStay(c)
  BY <1>0, <1>12 DEF Proceeds, Refuses, Concludes, OthersStay, Sets
<1>13. CASE CheckMission(c) \/ LoadApproval(c) \/ QueryApproval(c)
  BY <1>12, <1>13 DEF CheckMission, LoadApproval, QueryApproval, Examine
<1>14. CASE ReserveBudget(c) \/ TakeLease(c) \/ PassGate(c)
  BY <1>12, <1>14 DEF ReserveBudget, TakeLease, PassGate
<1>15. CASE ProviderStarts(c) \/ ProviderFails(c) \/ RecordSignal(c)
  BY <1>12, <1>15 DEF ProviderStarts, ProviderFails, RecordSignal
<1> QED
  BY <1>1, <1>2, <1>3, <1>5, <1>6, <1>7, <1>8, <1>9, <1>10, <1>11, <1>13, <1>14, <1>15
     DEF CallStep, Mutation, Start

\* The result of a call is about its own request.
LEMMA ResultAgrees ==
  ASSUME JarvisTypeOK, NEW c \in Calls, pc[c] # "idle", UNCHANGED req,
         NEW s \in Answered, s \in StartSteps => BodyOf(c).do = "agent.start",
         NEW ok \in BOOLEAN, NEW m \in Nat,
         pc' = Sets(pc, c, s), answer' = Sets(answer, c, Result(c, ok, m))
  PROVE  Agrees(c)'
<1>1. Result(c, ok, m) # NoAnswer /\ Result(c, ok, m).body = BodyOf(c)
  BY ResultType DEF Result
<1>2. pc'[c] = s /\ answer'[c] = Result(c, ok, m) /\ BodyOf(c)' = BodyOf(c)
  BY DEF JarvisTypeOK, Sets, BodyOf
<1> QED
  BY <1>1, <1>2 DEF Agrees

LEMMA ProgressAgrees ==
  ASSUME JarvisTypeOK, NEW c \in Calls, pc[c] # "idle", UNCHANGED <<req, answer>>,
         Agrees(c), NEW s, s \in Answered <=> pc[c] \in Answered,
         s \in StartSteps => BodyOf(c).do = "agent.start",
         pc' = Sets(pc, c, s)
  PROVE  Agrees(c)'
<1>1. pc'[c] = s /\ answer'[c] = answer[c] /\ BodyOf(c)' = BodyOf(c)
  BY DEF JarvisTypeOK, Sets, BodyOf
<1> QED
  BY <1>1 DEF Agrees

\* Each step keeps a call and its answer in agreement.
LEMMA AgreeStep ==
  ASSUME JarvisTypeOK, CallsAgree, NEW c \in Calls, CallStep(c)
  PROVE  CallsAgree'
<1>0. Agrees(c)
  BY DEF CallsAgree
<1>1. ASSUME NEW r \in setup.requests, Receive(c, r) PROVE Agrees(c)'
  BY <1>0, <1>1 DEF JarvisTypeOK, Receive, Agrees, Sets, StartSteps, Answered
<1>2. ASSUME Decide(c) PROVE Agrees(c)'
  <2>1. pc[c] = "received" /\ UNCHANGED req
    BY <1>2 DEF Decide
  <2>2. CASE pc' = Sets(pc, c, "replaying") /\ UNCHANGED answer
    BY <1>0, <2>1, <2>2, ProgressAgrees DEF Answered, StartSteps
  <2>3. ASSUME NEW ok \in BOOLEAN, Finishes(c, Result(c, ok, 0)) PROVE Agrees(c)'
    <3>1. pc[c] # "idle" /\ "finishing" \in Answered /\ "finishing" \notin StartSteps /\ 0 \in Nat
      BY <2>1 DEF Answered, StartSteps
    <3> QED
      BY <2>1, <2>3, <3>1, ResultAgrees DEF Finishes
  <2>4. (Policy(BodyOf(c).do) = "ALLOW") \in BOOLEAN
    OBVIOUS
  <2> QED
    BY <1>2, <2>2, <2>3, <2>4 DEF Decide
<1>3. ASSUME Replay(c) PROVE Agrees(c)'
  BY <1>0, <1>3 DEF JarvisTypeOK, Replay, Finishes, Throws, Agrees, Sets, StartSteps,
     Answered, BodyOf
<1>4. ASSUME pc[c] = "dispatching", UNCHANGED req,
             (\E m \in Nat : Succeeds(c, m)) \/ Fails(c)
      PROVE  Agrees(c)'
  <2>1. pc[c] # "idle" /\ {"remembering", "finishing"} \subseteq Answered
        /\ {"remembering", "finishing"} \cap StartSteps = {}
    BY <1>4 DEF Answered, StartSteps
  <2>2. CASE Fails(c)
    <3>1. FALSE \in BOOLEAN /\ 0 \in Nat
      OBVIOUS
    <3> QED
      BY <1>4, <2>1, <2>2, <3>1, ResultAgrees DEF Fails, Finishes
  <2>3. CASE \E m \in Nat : Succeeds(c, m)
    <3>1. TRUE \in BOOLEAN
      OBVIOUS
    <3> QED
      BY <1>4, <2>1, <2>3, <3>1, ResultAgrees DEF Succeeds
  <2> QED
    BY <1>4, <2>2, <2>3
<1>5. Records \subseteq Nat /\ 0 \in Nat
  BY JarvisAssumption
<1>6. ASSUME DispatchToStore(c) PROVE Agrees(c)'
  <2>1. BodyOf(c).mission \in Nat
    BY <1>5, <1>6, RequestFields DEF DispatchToStore, Body
  <2> QED
    BY <1>4, <1>5, <1>6, <2>1 DEF DispatchToStore, AdmitMission, CancelMission
<1>7. ASSUME DispatchToRegistry(c) PROVE Agrees(c)'
  <2>1. BodyOf(c).mission \in Nat
    BY <1>5, <1>7, RequestFields DEF DispatchToRegistry, Body
  <2> QED
    BY <1>4, <1>5, <1>7, <2>1 DEF DispatchToRegistry, RegistryMission
<1>8. ASSUME DispatchWork(c) PROVE Agrees(c)'
  BY <1>4, <1>5, <1>8 DEF DispatchWork, CreateWorkspace, DeleteWorkspace, RunTestsOrStop
<1>9. ASSUME Remember(c) \/ Record(c) PROVE Agrees(c)'
  BY <1>0, <1>9, ProgressAgrees DEF Remember, Record, Answered, StartSteps
<1>10. ASSUME Finish(c) PROVE Agrees(c)'
  BY <1>0, <1>10 DEF JarvisTypeOK, Finish, Agrees, Sets, StartSteps, Answered, BodyOf
<1>11. ASSUME Evaluate(c) PROVE Agrees(c)'
  BY <1>0, <1>11 DEF JarvisTypeOK, Evaluate, Finishes, Throws, Agrees, Sets, StartSteps,
     Answered, BodyOf
<1>12. ASSUME Hydrate(c) \/ SetQuotas(c) PROVE Agrees(c)'
  BY <1>0, <1>12, ProgressAgrees DEF Hydrate, SetQuotas, Agrees, Answered, StartSteps
<1>13. ASSUME pc[c] \in StartSteps \ Answered, UNCHANGED req,
              \/ \E s \in StartSteps \ Answered : Proceeds(c, s)
              \/ Refuses(c) \/ Concludes(c, TRUE)
       PROVE  Agrees(c)'
  <2>1. pc[c] # "idle" /\ BodyOf(c).do = "agent.start"
    BY <1>0, <1>13 DEF Agrees, StartSteps
  <2>2. CASE \E s \in StartSteps \ Answered : Proceeds(c, s)
    BY <1>0, <1>13, <2>1, <2>2, ProgressAgrees DEF Proceeds
  <2>3. ASSUME NEW ok \in BOOLEAN, Concludes(c, ok) PROVE Agrees(c)'
    BY <1>5, <1>13, <2>1, <2>3, ResultAgrees DEF Concludes, Answered
  <2> QED
    BY <1>13, <2>2, <2>3 DEF Refuses
<1>14. ASSUME CheckMission(c) \/ LoadApproval(c) \/ QueryApproval(c) PROVE Agrees(c)'
  BY <1>13, <1>14 DEF CheckMission, LoadApproval, QueryApproval, Examine, StartSteps, Answered
<1>15. ASSUME ReserveBudget(c) \/ TakeLease(c) \/ PassGate(c) PROVE Agrees(c)'
  BY <1>13, <1>15 DEF ReserveBudget, TakeLease, PassGate, StartSteps, Answered
<1>16. ASSUME ProviderStarts(c) \/ ProviderFails(c) \/ RecordSignal(c) PROVE Agrees(c)'
  BY <1>13, <1>16 DEF ProviderStarts, ProviderFails, RecordSignal, StartSteps, Answered
<1>17. Agrees(c)'
  BY <1>1, <1>2, <1>3, <1>6, <1>7, <1>8, <1>9, <1>10, <1>11, <1>12, <1>14, <1>15, <1>16
     DEF CallStep, Mutation, Start
<1>18. ASSUME NEW d \in Calls \ {c} PROVE Agrees(d)'
  BY StepsAreOwn DEF OthersStay, CallsAgree, Agrees, BodyOf
<1> QED
  BY <1>17, <1>18 DEF CallsAgree

-----------------------------------------------------------------------------
(* Leases.                                                                 *)

\* A step before the budget is reserved, or after it is released.
LEMMA LeaseApart ==
  ASSUME JarvisTypeOK, LeasesAgree, NEW c \in Calls, OthersStay(c),
         pc[c] \notin Budgeted, pc'[c] \notin Budgeted, UNCHANGED holdVars
  PROVE  LeasesAgree'
<1>1. active \in [Attempts -> Calls \cup {NoCall}]
  BY DEF JarvisTypeOK
<1>2. \A d \in Calls : /\ pc'[d] \in Leased <=> pc[d] \in Leased
                       /\ pc'[d] \in Budgeted <=> pc[d] \in Budgeted
                       /\ pc[d] \in Leased => BodyOf(d)' = BodyOf(d)
  BY DEF OthersStay, Budgeted, BodyOf
<1> QED
  BY <1>1, <1>2 DEF LeasesAgree, LeaseGuardsAgent, ActiveAgrees, holdVars

\* A step of a call that keeps its lease.
LEMMA LeaseKept ==
  ASSUME JarvisTypeOK, LeasesAgree, NEW c \in Calls, OthersStay(c),
         pc[c] \in Leased, pc'[c] \in Leased, req'[c] = req[c], UNCHANGED holdVars
  PROVE  LeasesAgree'
<1>1. active \in [Attempts -> Calls \cup {NoCall}]
  BY DEF JarvisTypeOK
<1>2. \A d \in Calls : /\ pc'[d] \in Leased <=> pc[d] \in Leased
                       /\ pc'[d] \in Budgeted <=> pc[d] \in Budgeted
                       /\ BodyOf(d)' = BodyOf(d)
  BY DEF OthersStay, Budgeted, BodyOf
<1> QED
  BY <1>1, <1>2 DEF LeasesAgree, LeaseGuardsAgent, ActiveAgrees, holdVars

\* What a call gives back is the lease it has, and the lease of no other.
LEMMA ActiveReleased ==
  ASSUME JarvisTypeOK, LeasesAgree, NEW c \in Calls, Releases(c)
  PROVE  active' = [a \in Attempts |-> IF active[a] = c THEN NoCall ELSE active[a]]
<1>1. active \in [Attempts -> Calls \cup {NoCall}] /\ NoCall \notin Calls
  BY JarvisAssumption DEF JarvisTypeOK
<1>2. c \in leases <=> pc[c] \in Leased
  BY DEF LeasesAgree, LeaseGuardsAgent
<1>3. CASE c \in leases
  <2>1. \A a \in Attempts : active[a] = c <=> a = BodyOf(c).attempt
    BY <1>1, <1>2, <1>3 DEF LeasesAgree, LeaseGuardsAgent, ActiveAgrees
  <2> QED
    BY <1>1, <1>3, <2>1 DEF Releases
<1>4. CASE c \notin leases
  <2>1. \A a \in Attempts : active[a] # c
    BY <1>1, <1>2, <1>4 DEF LeasesAgree, LeaseGuardsAgent
  <2> QED
    BY <1>1, <1>4, <2>1 DEF Releases
<1> QED
  BY <1>3, <1>4

\* A refusal at a gate gives back what the call has, a budget or a lease too.
LEMMA LeaseReleased ==
  ASSUME JarvisTypeOK, LeasesAgree, NEW c \in Calls, OthersStay(c),
         pc[c] \in Budgeted, pc'[c] \notin Budgeted, Releases(c)
  PROVE  LeasesAgree'
<1>1. active \in [Attempts -> Calls \cup {NoCall}] /\ NoCall \notin Calls
  BY JarvisAssumption DEF JarvisTypeOK
<1>2. \A d \in Calls : /\ pc'[d] \in Leased <=> pc[d] \in Leased /\ d # c
                       /\ pc'[d] \in Budgeted <=> pc[d] \in Budgeted /\ d # c
                       /\ d # c => BodyOf(d)' = BodyOf(d)
  BY DEF OthersStay, Budgeted, BodyOf
<1>4. \A a \in Attempts : active'[a] = IF active[a] = c THEN NoCall ELSE active[a]
  BY ActiveReleased
<1>5. leases' = leases \ {c} /\ budgets' = budgets \ {c}
  BY DEF Releases
<1>6. LeaseGuardsAgent'
  <2>1. \A d, e \in Calls :
          /\ pc'[d] \in Leased /\ pc'[e] \in Leased
          /\ BodyOf(d)'.attempt = BodyOf(e)'.attempt
          => d = e
    BY <1>2 DEF LeasesAgree, LeaseGuardsAgent
  <2>2. \A d \in Calls : pc'[d] \in Leased => active'[BodyOf(d)'.attempt] = d
    <3> SUFFICES ASSUME NEW d \in Calls, pc'[d] \in Leased
                 PROVE  active'[BodyOf(d)'.attempt] = d
      OBVIOUS
    <3>1. pc[d] # "idle" /\ d # c /\ BodyOf(d)' = BodyOf(d)
      BY <1>2 DEF Leased
    <3>2. BodyOf(d).attempt \in Attempts
      BY <3>1, RequestFields DEF Body
    <3> QED
      BY <1>2, <1>4, <3>1, <3>2 DEF LeasesAgree, LeaseGuardsAgent
  <2>3. \A a \in Attempts : active'[a] # NoCall => pc'[active'[a]] \in Leased
    BY <1>1, <1>2, <1>4 DEF LeasesAgree, LeaseGuardsAgent
  <2>4. leases' = {d \in Calls : pc'[d] \in Leased}
    BY <1>2, <1>5 DEF LeasesAgree, LeaseGuardsAgent
  <2>5. budgets' = {d \in Calls : pc'[d] \in Budgeted}
    BY <1>2, <1>5 DEF LeasesAgree, LeaseGuardsAgent
  <2> QED
    BY <2>1, <2>2, <2>3, <2>4, <2>5 DEF LeaseGuardsAgent
<1>7. ActiveAgrees'
  BY <1>1, <1>2, <1>4 DEF LeasesAgree, ActiveAgrees
<1> QED
  BY <1>6, <1>7 DEF LeasesAgree

LEMMA LeaseTaken ==
  ASSUME JarvisTypeOK, LeasesAgree, NEW c \in Calls, OthersStay(c),
         pc[c] = "reserved", pc'[c] = "leased", req'[c] = req[c],
         LeaseFree(BodyOf(c)), leases' = leases \cup {c},
         active' = [active EXCEPT ![BodyOf(c).attempt] = c], UNCHANGED budgets
  PROVE  LeasesAgree'
<1>1. active \in [Attempts -> Calls \cup {NoCall}] /\ NoCall \notin Calls
  BY JarvisAssumption DEF JarvisTypeOK
<1>2. \A d \in Calls : /\ pc'[d] \in Leased <=> pc[d] \in Leased \/ d = c
                       /\ pc'[d] \in Budgeted <=> pc[d] \in Budgeted
                       /\ BodyOf(d)' = BodyOf(d)
  BY DEF OthersStay, Budgeted, BodyOf, Leased
<1>3. \A d \in Calls : pc'[d] \in Leased => BodyOf(d).attempt \in Attempts
  <2> SUFFICES ASSUME NEW d \in Calls, pc'[d] \in Leased PROVE BodyOf(d).attempt \in Attempts
    OBVIOUS
  <2>1. pc[d] # "idle"
    BY <1>2 DEF Leased
  <2> QED
    BY <2>1, RequestFields DEF Body
<1>4. BodyOf(c).attempt \in Attempts
  BY <1>3 DEF Leased
<1>5. \A a \in Attempts : active'[a] = IF a = BodyOf(c).attempt THEN c ELSE active[a]
  BY <1>1
<1>6. \A d \in Calls : pc[d] \in Leased => BodyOf(d).attempt # BodyOf(c).attempt
  BY <1>1 DEF LeaseFree, LeasesAgree, LeaseGuardsAgent
<1>7. LeaseGuardsAgent'
  <2>1. \A d, e \in Calls :
          /\ pc'[d] \in Leased /\ pc'[e] \in Leased
          /\ BodyOf(d)'.attempt = BodyOf(e)'.attempt
          => d = e
    BY <1>2, <1>6 DEF LeasesAgree, LeaseGuardsAgent
  <2>2. \A d \in Calls : pc'[d] \in Leased => active'[BodyOf(d)'.attempt] = d
    BY <1>2, <1>3, <1>5, <1>6 DEF LeasesAgree, LeaseGuardsAgent
  <2>3. \A a \in Attempts : active'[a] # NoCall => pc'[active'[a]] \in Leased
    BY <1>1, <1>2, <1>5 DEF LeasesAgree, LeaseGuardsAgent
  <2>4. leases' = {d \in Calls : pc'[d] \in Leased}
    BY <1>2 DEF LeasesAgree, LeaseGuardsAgent
  <2>5. budgets' = {d \in Calls : pc'[d] \in Budgeted}
    BY <1>2 DEF LeasesAgree, LeaseGuardsAgent
  <2> QED
    BY <2>1, <2>2, <2>3, <2>4, <2>5 DEF LeaseGuardsAgent
<1>8. ActiveAgrees'
  BY <1>1, <1>2, <1>5 DEF LeasesAgree, ActiveAgrees
<1> QED
  BY <1>7, <1>8 DEF LeasesAgree

LEMMA BudgetReserved ==
  ASSUME JarvisTypeOK, LeasesAgree, NEW c \in Calls, OthersStay(c),
         pc[c] = "approved", pc'[c] = "reserved", req'[c] = req[c],
         budgets' = budgets \cup {c}, UNCHANGED <<leases, active>>
  PROVE  LeasesAgree'
<1>1. active \in [Attempts -> Calls \cup {NoCall}]
  BY DEF JarvisTypeOK
<1>2. \A d \in Calls : /\ pc'[d] \in Leased <=> pc[d] \in Leased
                       /\ pc'[d] \in Budgeted <=> pc[d] \in Budgeted \/ d = c
                       /\ BodyOf(d)' = BodyOf(d)
  BY DEF OthersStay, Budgeted, BodyOf, Leased
<1> QED
  BY <1>1, <1>2 DEF LeasesAgree, LeaseGuardsAgent, ActiveAgrees

\* Where a step of one call takes it.
LEMMA NextPlace ==
  ASSUME JarvisTypeOK, NEW c \in Calls
  PROVE  /\ \A s : pc' = Sets(pc, c, s) => pc'[c] = s
         /\ \A s : Proceeds(c, s) => pc'[c] = s
         /\ Refuses(c) => pc'[c] = "finishing"
         /\ Concludes(c, TRUE) => pc'[c] = "announcing"
         /\ \A r : Finishes(c, r) => pc'[c] = "finishing"
         /\ \A m : Succeeds(c, m) => pc'[c] = "remembering"
         /\ Fails(c) => pc'[c] = "finishing"
         /\ Throws(c) => pc'[c] = "idle"
<1>1. pc \in [Calls -> Steps]
  BY DEF JarvisTypeOK
<1> QED
  BY <1>1 DEF Sets, Proceeds, Refuses, Concludes, Finishes, Succeeds, Fails, Throws

\* Each step of a call keeps the leases and the calls in agreement.
LEMMA LeaseStep ==
  ASSUME JarvisTypeOK, LeasesAgree, NEW c \in Calls, CallStep(c)
  PROVE  LeasesAgree'
<1>0. OthersStay(c)
  BY StepsAreOwn
<1>1. ASSUME pc[c] \notin Budgeted, pc'[c] \notin Budgeted, UNCHANGED holdVars
      PROVE  LeasesAgree'
  BY <1>0, <1>1, LeaseApart
<1>2. ASSUME NEW r \in setup.requests, Receive(c, r) PROVE LeasesAgree'
  BY <1>1, <1>2, NextPlace DEF Receive, Budgeted, Leased
<1>3. CASE Decide(c)
  BY <1>1, <1>3, NextPlace DEF Decide, Budgeted, Leased
<1>4. CASE Replay(c)
  BY <1>1, <1>4, NextPlace DEF Replay, Budgeted, Leased
<1>5. CASE DispatchToStore(c)
  BY <1>1, <1>5, NextPlace DEF DispatchToStore, AdmitMission, CancelMission, Budgeted, Leased
<1>6. CASE DispatchToRegistry(c)
  BY <1>1, <1>6, NextPlace DEF DispatchToRegistry, RegistryMission, Budgeted, Leased
<1>7. CASE DispatchWork(c)
  BY <1>1, <1>7, NextPlace DEF DispatchWork, CreateWorkspace, DeleteWorkspace,
     RunTestsOrStop, Budgeted, Leased
<1>8. CASE Remember(c) \/ Record(c)
  BY <1>1, <1>8, NextPlace DEF Remember, Record, Budgeted, Leased
<1>9. CASE Finish(c)
  <2>1. CASE pc[c] = "finishing"
    BY <1>1, <1>9, <2>1, NextPlace DEF Finish, Budgeted, Leased
  <2>2. CASE pc[c] = "announcing"
    BY <1>0, <1>9, <2>2, NextPlace, LeaseKept DEF Finish, Leased
  <2> QED
    BY <1>9, <2>1, <2>2 DEF Finish
<1>10. CASE Evaluate(c)
  BY <1>1, <1>10, NextPlace DEF Evaluate, Budgeted, Leased
<1>11. CASE Hydrate(c) \/ SetQuotas(c)
  BY <1>1, <1>11, NextPlace DEF Hydrate, SetQuotas, Budgeted, Leased
<1>12. CASE CheckMission(c) \/ LoadApproval(c) \/ QueryApproval(c)
  BY <1>1, <1>12, NextPlace DEF CheckMission, LoadApproval, QueryApproval, Examine,
     Budgeted, Leased
<1>13. CASE ReserveBudget(c)
  <2>1. CASE Refuses(c) /\ UNCHANGED budgets
    BY <1>1, <1>13, <2>1, NextPlace DEF ReserveBudget, Budgeted, Leased, holdVars
  <2>2. CASE Proceeds(c, "reserved") /\ budgets' = budgets \cup {c}
    BY <1>0, <1>13, <2>2, NextPlace, BudgetReserved DEF ReserveBudget
  <2> QED
    BY <1>13, <2>1, <2>2 DEF ReserveBudget
<1>14. CASE TakeLease(c)
  <2>1. CASE Releases(c) /\ Refuses(c)
    BY <1>0, <1>14, <2>1, NextPlace, LeaseReleased DEF TakeLease, Budgeted, Leased
  <2>2. CASE ~ (Releases(c) /\ Refuses(c))
    BY <1>0, <1>14, <2>2, NextPlace, LeaseTaken DEF TakeLease
  <2> QED
    BY <2>1, <2>2
<1>15. CASE PassGate(c)
  <2>1. CASE Releases(c) /\ Refuses(c)
    BY <1>0, <1>15, <2>1, NextPlace, LeaseReleased DEF PassGate, Budgeted, Leased
  <2>2. CASE ~ (Releases(c) /\ Refuses(c))
    BY <1>0, <1>15, <2>2, NextPlace, LeaseKept DEF PassGate, Leased
  <2> QED
    BY <2>1, <2>2
<1>16. CASE ProviderStarts(c)
  BY <1>0, <1>16, NextPlace, LeaseKept DEF ProviderStarts, Leased
<1>17. CASE ProviderFails(c)
  BY <1>0, <1>17, NextPlace, LeaseReleased DEF ProviderFails, Budgeted, Leased
<1>18. CASE RecordSignal(c)
  BY <1>1, <1>18, NextPlace DEF RecordSignal, Budgeted, Leased
<1> QED
  BY <1>2, <1>3, <1>4, <1>5, <1>6, <1>7, <1>8, <1>9, <1>10, <1>11, <1>12, <1>13, <1>14,
     <1>15, <1>16, <1>17, <1>18 DEF CallStep, Mutation, Start

-----------------------------------------------------------------------------
(* Missions.                                                               *)

\* A row that is admitted stays, with the request and the contents it is for.
StoredStays ==
  \A m \in Records : stored[m] # NoMission =>
    /\ stored'[m] # NoMission
    /\ stored'[m].source = stored[m].source /\ stored'[m].title = stored[m].title

\* Only one step writes the rows.
LEMMA WhoStores ==
  ASSUME NEW c \in Calls, CallStep(c), ~ DispatchToStore(c)
  PROVE  UNCHANGED stored
  BY DEF CallStep, Mutation, Start, Decide, Receive, Finish, Replay, DispatchToRegistry,
     DispatchWork, Remember, Record, Evaluate, Hydrate, SetQuotas, CheckMission,
     LoadApproval, QueryApproval, ReserveBudget, TakeLease, PassGate, ProviderStarts,
     ProviderFails, RecordSignal, missionVars

LEMMA StoreStep ==
  ASSUME JarvisTypeOK, OneMissionPerRequest, setup.store, NEW c \in Calls, DispatchToStore(c)
  PROVE  /\ StoredStays
         /\ \A m, n \in Records :
              /\ stored'[m] # NoMission /\ stored'[n] # NoMission
              /\ stored'[m].source = stored'[n].source
              => m = n
         /\ \A m \in Nat : BodyOf(c).do = "mission.create" /\ Succeeds(c, m) =>
              \E n \in Records :
                /\ Succeeds(c, n)
                /\ stored'[n] # NoMission
                /\ stored'[n].source = Id(c) /\ stored'[n].title = BodyOf(c).title
<1>1. stored \in [Records -> Mission \cup {NoMission}] /\ NoMission \notin Mission
  BY JarvisAssumption DEF JarvisTypeOK
<1>2. pc[c] # "idle" /\ Id(c) \in Ids /\ BodyOf(c) \in Body /\ req[c].actor \in Actors
  BY RequestFields DEF DispatchToStore
<1>3. BodyOf(c).title \in Titles /\ BodyOf(c).mission \in Records
  BY <1>2 DEF Body
<1>4. \A m, n \in Records :
        /\ stored[m] # NoMission /\ stored[n] # NoMission
        /\ stored[m].source = stored[n].source
        => m = n
  BY DEF OneMissionPerRequest
<1>5. CASE CancelMission(c) /\ BodyOf(c).do = "mission.cancel"
  <2>1. CASE stored[BodyOf(c).mission] # NoMission
    <3>1. [stored[BodyOf(c).mission] EXCEPT !.state = "cancelled"] \in Mission
      BY <1>1, <1>3, <2>1 DEF Mission
    <3>2. \A m \in Records :
            /\ stored'[m] # NoMission <=> stored[m] # NoMission
            /\ stored[m] # NoMission => /\ stored'[m].source = stored[m].source
                                        /\ stored'[m].title = stored[m].title
      BY <1>1, <1>3, <1>5, <2>1, <3>1 DEF CancelMission, Mission
    <3> QED
      BY <1>4, <1>5, <3>2 DEF StoredStays
  <2>2. CASE stored[BodyOf(c).mission] = NoMission
    BY <1>4, <1>5, <2>2 DEF CancelMission, StoredStays
  <2> QED
    BY <2>1, <2>2
<1>6. CASE AdmitMission(c) /\ BodyOf(c).do = "mission.create"
  <2> DEFINE row == [source |-> Id(c), title |-> BodyOf(c).title, actor |-> req[c].actor,
                     state |-> "queued"]
  <2>1. row \in Mission
    BY <1>2, <1>3 DEF Mission
  <2>2. CASE \E m \in Records :
               /\ stored[m] # NoMission /\ stored[m].source = Id(c)
               /\ IF stored[m].title = BodyOf(c).title /\ stored[m].actor = req[c].actor
                  THEN Succeeds(c, m) ELSE Fails(c)
               /\ UNCHANGED stored
    <3>1. \A m : Succeeds(c, m) => ~ Fails(c)
      BY NextPlace
    <3> QED
      BY <1>4, <2>2, <3>1 DEF StoredStays
  <2>3. CASE \E m \in Records :
               /\ \A n \in Records : ~ (stored[n] # NoMission /\ stored[n].source = Id(c))
               /\ stored[m] = NoMission
               /\ stored' = [stored EXCEPT ![m] = row]
               /\ Succeeds(c, m)
    <3>1. PICK m \in Records :
               /\ \A n \in Records : ~ (stored[n] # NoMission /\ stored[n].source = Id(c))
               /\ stored[m] = NoMission
               /\ stored' = [stored EXCEPT ![m] = row]
               /\ Succeeds(c, m)
      BY <2>3
    <3>2. stored'[m] = row /\ \A n \in Records \ {m} : stored'[n] = stored[n]
      BY <1>1, <3>1
    <3>3. row # NoMission /\ row.source = Id(c) /\ row.title = BodyOf(c).title
      BY <1>1, <2>1
    <3> QED
      BY <1>4, <3>1, <3>2, <3>3 DEF StoredStays
  <2> QED
    BY <1>6, <2>2, <2>3 DEF AdmitMission, Source, Unused
<1> QED
  BY <1>5, <1>6 DEF DispatchToStore

\* An entry of a cache is replaced, or none is.
Fills(old, new, c, results) ==
  \/ new = old
  \/ pc[c] # "idle" /\ \E r \in results : new = [old EXCEPT ![Id(c)] = r]

\* What is written to the caches: the answer of the call, a copy of what
\* another cache has, or the result of a start.
LEMMA WhoRemembers ==
  ASSUME NEW c \in Calls, CallStep(c)
  PROVE  /\ Fills(svc, svc', c, {answer[c]})
         /\ Fills(memo, memo', c, {answer[c], memo[Id(c)], recorded[Id(c)]})
         /\ Fills(recorded, recorded', c, {answer[c], recorded[Id(c)]})
         /\ Fills(known, known', c, {Result(c, TRUE, 0), Result(c, FALSE, 0)})
         /\ known' = known \/ pc[c] \in StartSteps
<1> DEFINE R == {Result(c, TRUE, 0), Result(c, FALSE, 0)}
<1>1. \A f, S : Fills(f, f, c, S)
  BY DEF Fills
<1>2. \A f, g, S, r : pc[c] # "idle" /\ r \in S /\ g = [f EXCEPT ![Id(c)] = r] => Fills(f, g, c, S)
  BY DEF Fills
<1>3. svc' = svc \/ Finish(c)
  BY DEF CallStep, Mutation, Start, Receive, Decide, Replay, DispatchToStore,
     DispatchToRegistry, DispatchWork, Remember, Record, Evaluate, Hydrate, SetQuotas,
     CheckMission, LoadApproval, QueryApproval, ReserveBudget, TakeLease, PassGate,
     ProviderStarts, ProviderFails, RecordSignal, cacheVars
<1>4. memo' = memo \/ Replay(c) \/ Remember(c)
  BY DEF CallStep, Mutation, Start, Receive, Decide, Finish, DispatchToStore,
     DispatchToRegistry, DispatchWork, Record, Evaluate, Hydrate, SetQuotas,
     CheckMission, LoadApproval, QueryApproval, ReserveBudget, TakeLease, PassGate,
     ProviderStarts, ProviderFails, RecordSignal, cacheVars
<1>5. recorded' = recorded \/ Record(c)
  BY DEF CallStep, Mutation, Start, Receive, Decide, Finish, Replay, DispatchToStore,
     DispatchToRegistry, DispatchWork, Remember, Evaluate, Hydrate, SetQuotas,
     CheckMission, LoadApproval, QueryApproval, ReserveBudget, TakeLease, PassGate,
     ProviderStarts, ProviderFails, RecordSignal, cacheVars
<1>6. \/ known' = known
      \/ /\ pc[c] \in StartSteps
         /\ \/ known' = [known EXCEPT ![Id(c)] = Result(c, TRUE, 0)]
            \/ known' = [known EXCEPT ![Id(c)] = Result(c, FALSE, 0)]
  <2>1. known' = known \/ Start(c)
    BY DEF CallStep, Mutation, Receive, Decide, Finish, Replay, DispatchToStore,
       DispatchToRegistry, DispatchWork, Remember, Record, cacheVars
  <2> QED
    BY <2>1 DEF Start, Evaluate, Hydrate, SetQuotas, CheckMission, LoadApproval,
       QueryApproval, Examine, ReserveBudget, TakeLease, PassGate, ProviderStarts,
       ProviderFails, RecordSignal, Proceeds, Refuses, Concludes, StartSteps, cacheVars
<1>7. Fills(svc, svc', c, {answer[c]})
  <2>1. Finish(c) => pc[c] # "idle" /\ svc' = [svc EXCEPT ![Id(c)] = answer[c]]
    BY DEF Finish
  <2> QED
    BY <1>1, <1>2, <1>3, <2>1
<1>8. Fills(memo, memo', c, {answer[c], memo[Id(c)], recorded[Id(c)]})
  <2>1. Replay(c) =>
          /\ pc[c] # "idle"
          /\ \/ memo' = memo \/ memo' = [memo EXCEPT ![Id(c)] = memo[Id(c)]]
             \/ memo' = [memo EXCEPT ![Id(c)] = recorded[Id(c)]]
    BY DEF Replay
  <2>2. Remember(c) => pc[c] # "idle" /\ memo' = [memo EXCEPT ![Id(c)] = answer[c]]
    BY DEF Remember
  <2> QED
    BY <1>1, <1>2, <1>4, <2>1, <2>2
<1>9. Fills(recorded, recorded', c, {answer[c], recorded[Id(c)]})
  <2>1. Record(c) =>
          /\ pc[c] # "idle"
          /\ \/ recorded' = recorded \/ recorded' = [recorded EXCEPT ![Id(c)] = answer[c]]
             \/ recorded' = [recorded EXCEPT ![Id(c)] = recorded[Id(c)]]
    BY DEF Record
  <2> QED
    BY <1>1, <1>2, <1>5, <2>1
<1>10. Fills(known, known', c, R)
  <2>1. pc[c] \in StartSteps => pc[c] # "idle"
    BY DEF StartSteps
  <2> QED
    BY <1>1, <1>2, <1>6, <2>1
<1> QED
  BY <1>6, <1>7, <1>8, <1>9, <1>10

\* A cache that named missions, filled with answers that do, goes on naming them.
LEMMA FillsNames ==
  ASSUME JarvisTypeOK, NEW c \in Calls, NEW results,
         NEW old \in [Ids -> Answer \cup {NoAnswer}], NEW new, Fills(old, new, c, results),
         \A i \in Ids : Names(i, old[i]),
         new # old => \A r \in results : Names(Id(c), r)
  PROVE  \A i \in Ids : Names(i, new[i])
<1>1. CASE new = old
  BY <1>1
<1>2. CASE new # old
  <2>1. PICK r \in results : new = [old EXCEPT ![Id(c)] = r]
    BY <1>2 DEF Fills
  <2>2. \A i \in Ids : new[i] = IF i = Id(c) THEN r ELSE old[i]
    BY <2>1
  <2>3. Names(Id(c), r)
    BY <1>2
  <2> QED
    BY <2>2, <2>3
<1> QED
  BY <1>1, <1>2

\* What a call answers once the step is over: what it answered, what a cache of
\* its identifier has, nothing, a refusal, or the result of something else than
\* the creation of a mission; the store answers with the mission it has.
LEMMA WhoAnswers ==
  ASSUME JarvisTypeOK, CallsAgree, NEW c \in Calls, CallStep(c), pc'[c] # "idle"
  PROVE  \/ answer'[c] = NoAnswer
         \/ /\ pc[c] # "idle" /\ req'[c] = req[c]
            /\ \/ answer'[c] \in {answer[c], memo[Id(c)], recorded[Id(c)], known[Id(c)]}
               \/ answer'[c].body = BodyOf(c) /\ BodyOf(c).do # "mission.create"
               \/ answer'[c].ok = FALSE
               \/ /\ DispatchToStore(c) /\ BodyOf(c).do = "mission.create"
                  /\ \E m \in Nat : Succeeds(c, m)
               \/ DispatchToRegistry(c)
<1>0. /\ pc \in [Calls -> Steps] /\ answer \in [Calls -> Answer \cup {NoAnswer}]
      /\ req \in [Calls -> Request \cup {NoRequest}]
      /\ pc[c] \in StartSteps => BodyOf(c).do = "agent.start"
      /\ pc[c] \notin Answered => answer[c] = NoAnswer
  BY DEF JarvisTypeOK, CallsAgree, Agrees
<1> DEFINE Claim ==
         \/ answer'[c] = NoAnswer
         \/ /\ pc[c] # "idle" /\ req'[c] = req[c]
            /\ \/ answer'[c] \in {answer[c], memo[Id(c)], recorded[Id(c)], known[Id(c)]}
               \/ answer'[c].body = BodyOf(c) /\ BodyOf(c).do # "mission.create"
               \/ answer'[c].ok = FALSE
               \/ /\ DispatchToStore(c) /\ BodyOf(c).do = "mission.create"
                  /\ \E m \in Nat : Succeeds(c, m)
               \/ DispatchToRegistry(c)
<1>1. ASSUME NEW r \in setup.requests, Receive(c, r) PROVE Claim
  BY <1>0, <1>1 DEF Receive, Answered
<1>2. CASE Decide(c)
  <2>1. CASE UNCHANGED answer
    BY <1>0, <1>2, <2>1 DEF Decide, Answered
  <2>2. CASE pc'[c] = "finishing"
    <3>1. CASE BodyOf(c).do # "mission.create"
      BY <1>0, <1>2, <3>1 DEF Decide, Finishes, Result, Sets, Answered
    <3>2. CASE BodyOf(c).do = "mission.create"
      <4>1. Policy("mission.create") # "ALLOW"
        BY <1>0, <1>2, <2>2, <3>2 DEF Decide, Sets, SafeMutations
      <4>2. answer' = Sets(answer, c, Result(c, FALSE, 0)) \/ UNCHANGED answer
        BY <1>2, <3>2, <4>1 DEF Decide, Finishes
      <4>3. answer'[c] = NoAnswer \/ answer'[c] = Result(c, FALSE, 0)
        BY <1>0, <1>2, <4>2 DEF Decide, Answered, Sets
      <4> QED
        BY <1>2, <4>3 DEF Result, Decide
    <3> QED
      BY <3>1, <3>2
  <2>3. pc'[c] = "finishing" \/ UNCHANGED answer
    BY <1>0, <1>2 DEF Decide, Finishes, Sets
  <2> QED
    BY <2>1, <2>2, <2>3
<1>3. CASE Replay(c)
  BY <1>0, <1>3, NextPlace DEF Replay, Finishes, Sets, Answered
<1>4. ASSUME pc[c] # "idle", UNCHANGED req,
             Fails(c) \/ (\E m : Succeeds(c, m) /\ BodyOf(c).do # "mission.create")
      PROVE  Claim
  BY <1>0, <1>4 DEF Fails, Finishes, Succeeds, Result, Sets
<1>5. CASE DispatchToStore(c)
  <2>1. Records \subseteq Nat
    BY JarvisAssumption
  <2> QED
    BY <1>4, <1>5, <2>1 DEF DispatchToStore, AdmitMission, CancelMission
<1>6. CASE DispatchToRegistry(c)
  BY <1>6 DEF DispatchToRegistry
<1>7. CASE DispatchWork(c)
  BY <1>4, <1>7 DEF DispatchWork, CreateWorkspace, DeleteWorkspace, RunTestsOrStop
<1>8. CASE Remember(c) \/ Record(c)
  BY <1>8 DEF Remember, Record
<1>9. CASE Finish(c)
  BY <1>0, <1>9 DEF Finish, Sets
<1>10. CASE Evaluate(c)
  BY <1>0, <1>10, NextPlace DEF Evaluate, Finishes, Sets, Answered
<1>11. CASE Hydrate(c) \/ SetQuotas(c)
  BY <1>0, <1>11 DEF Hydrate, SetQuotas, Answered
<1>12. ASSUME pc[c] \in StartSteps, UNCHANGED req,
              UNCHANGED answer \/ Concludes(c, TRUE) \/ Concludes(c, FALSE)
       PROVE  Claim
  BY <1>0, <1>12 DEF Concludes, Result, Sets, StartSteps
<1>13. CASE CheckMission(c) \/ LoadApproval(c) \/ QueryApproval(c)
  BY <1>12, <1>13 DEF CheckMission, LoadApproval, QueryApproval, Examine, Refuses, Proceeds,
     StartSteps
<1>14. CASE ReserveBudget(c) \/ TakeLease(c) \/ PassGate(c)
  BY <1>12, <1>14 DEF ReserveBudget, TakeLease, PassGate, Refuses, Proceeds, StartSteps
<1>15. CASE ProviderStarts(c) \/ ProviderFails(c) \/ RecordSignal(c)
  BY <1>12, <1>15 DEF ProviderStarts, ProviderFails, RecordSignal, Refuses, Proceeds,
     StartSteps
<1> QED
  BY <1>1, <1>2, <1>3, <1>5, <1>6, <1>7, <1>8, <1>9, <1>10, <1>11, <1>13, <1>14, <1>15
     DEF CallStep, Mutation, Start

\* What is told besides: what a call that created a mission answers.
LEMMA WhoTells ==
  ASSUME JarvisTypeOK, CallsAgree, NEW c \in Calls, CallStep(c),
         NEW i \in Ids, NEW t \in told'[i], t \notin told[i]
  PROVE  /\ pc[c] # "idle" /\ i = Id(c) /\ BodyOf(c).do = "mission.create"
         /\ answer[c].ok /\ answer[c] # NoAnswer
         /\ t = [title |-> BodyOf(c).title, mission |-> answer[c].mission]
<1>1. told \in [Ids -> SUBSET [title : Titles, mission : Nat]]
  BY DEF JarvisTypeOK
<1>2. Finish(c)
  <2>1. ~ Finish(c) => UNCHANGED told
    BY DEF CallStep, Mutation, Start, Decide, Receive, Replay, DispatchToStore,
       DispatchToRegistry, DispatchWork, Remember, Record, Evaluate, Hydrate, SetQuotas,
       CheckMission, LoadApproval, QueryApproval, ReserveBudget, TakeLease, PassGate,
       ProviderStarts, ProviderFails, RecordSignal, missionVars
  <2> QED
    BY <2>1
<1>3. pc[c] # "idle" /\ answer[c] # NoAnswer
  BY <1>2 DEF Finish, CallsAgree, Agrees, Answered
<1>4. Id(c) \in Ids
  BY <1>3, RequestFields
<1> QED
  BY <1>1, <1>2, <1>3, <1>4 DEF Finish, Told

\* A result that names its mission goes on naming it.
LEMMA NamesStay ==
  ASSUME StoredStays
  PROVE  \A i, r : Names(i, r) => Names(i, r)'
  BY DEF StoredStays, Names

\* Each step of a call keeps one mission for each request, and every answer
\* naming it.
LEMMA MissionStep ==
  ASSUME JarvisTypeOK, CallsAgree, OneMissionPerRequest, AnswersName, setup.store,
         NEW c \in Calls, CallStep(c)
  PROVE  AnswersName' /\ (setup'.store => OneMissionPerRequest')
<1>1. StoredStays /\ \A m, n \in Records :
        /\ stored'[m] # NoMission /\ stored'[n] # NoMission
        /\ stored'[m].source = stored'[n].source
        => m = n
  <2>1. CASE DispatchToStore(c)
    BY <2>1, StoreStep
  <2>2. CASE ~ DispatchToStore(c)
    BY <2>2, WhoStores DEF StoredStays, OneMissionPerRequest
  <2> QED
    BY <2>1, <2>2
<1>2. \A i, r : Names(i, r) => Names(i, r)'
  BY <1>1, NamesStay
<1>3. /\ svc \in [Ids -> Answer \cup {NoAnswer}] /\ memo \in [Ids -> Answer \cup {NoAnswer}]
      /\ recorded \in [Ids -> Answer \cup {NoAnswer}]
      /\ known \in [Ids -> Answer \cup {NoAnswer}]
      /\ req \in [Calls -> Request \cup {NoRequest}]
  BY DEF JarvisTypeOK
<1>4. pc[c] # "idle" => Id(c) \in Ids /\ Names(Id(c), answer[c])
  BY RequestFields DEF AnswersName
<1>5. \A i \in Ids : /\ Names(i, svc[i])' /\ Names(i, memo[i])'
                    /\ Names(i, recorded[i])' /\ Names(i, known[i])'
  <2>1. \A i \in Ids : /\ Names(i, svc[i]) /\ Names(i, memo[i])
                      /\ Names(i, recorded[i]) /\ Names(i, known[i])
    BY DEF AnswersName
  <2>3. pc[c] # "idle" => /\ Names(Id(c), answer[c]) /\ Names(Id(c), memo[Id(c)])
                         /\ Names(Id(c), recorded[Id(c)])
    BY <1>4, <2>1
  <2>4. \A i \in Ids : Names(i, svc'[i])
    <3>a. Fills(svc, svc', c, {answer[c]})
      BY ONLY c \in Calls, CallStep(c), WhoRemembers
    <3>1. svc' # svc => pc[c] # "idle"
      BY <3>a DEF Fills
    <3>2. svc' # svc => \A r \in {answer[c]} : Names(Id(c), r)
      BY <2>3, <3>1
    <3> QED
      BY <1>3, <2>1, <3>2, <3>a, FillsNames
  <2>5. \A i \in Ids : Names(i, memo'[i])
    <3>a. Fills(memo, memo', c, {answer[c], memo[Id(c)], recorded[Id(c)]})
      BY ONLY c \in Calls, CallStep(c), WhoRemembers
    <3>1. memo' # memo => pc[c] # "idle"
      BY <3>a DEF Fills
    <3>2. memo' # memo =>
            \A r \in {answer[c], memo[Id(c)], recorded[Id(c)]} : Names(Id(c), r)
      BY <2>3, <3>1
    <3> QED
      BY <1>3, <2>1, <3>2, <3>a, FillsNames
  <2>6. \A i \in Ids : Names(i, recorded'[i])
    <3>a. Fills(recorded, recorded', c, {answer[c], recorded[Id(c)]})
      BY ONLY c \in Calls, CallStep(c), WhoRemembers
    <3>1. recorded' # recorded => pc[c] # "idle"
      BY <3>a DEF Fills
    <3>2. recorded' # recorded => \A r \in {answer[c], recorded[Id(c)]} : Names(Id(c), r)
      BY <2>3, <3>1
    <3> QED
      BY <1>3, <2>1, <3>2, <3>a, FillsNames
  <2>7. \A i \in Ids : Names(i, known'[i])
    <3>1. pc[c] \in StartSteps => BodyOf(c).do = "agent.start"
      BY DEF CallsAgree, Agrees
    <3>2. \A ok : Result(c, ok, 0).body = BodyOf(c)
      BY DEF Result
    <3>3. pc[c] \in StartSteps => \A ok : Names(Id(c), Result(c, ok, 0))
      BY <3>1, <3>2 DEF Names
    <3>4. known' # known =>
            \A r \in {Result(c, TRUE, 0), Result(c, FALSE, 0)} : Names(Id(c), r)
      BY <3>3, WhoRemembers
    <3> QED
      BY <1>3, <2>1, <3>4, WhoRemembers, FillsNames
  <2> TAKE i \in Ids
  <2>8. Names(i, svc[i])'
    BY <1>1, <2>4 DEF Names, StoredStays
  <2>9. Names(i, memo[i])'
    BY <1>1, <2>5 DEF Names, StoredStays
  <2>10. Names(i, recorded[i])'
    BY <1>1, <2>6 DEF Names, StoredStays
  <2>11. Names(i, known[i])'
    BY <1>1, <2>7 DEF Names, StoredStays
  <2> QED
    BY <2>8, <2>9, <2>10, <2>11
<1>6. ASSUME NEW d \in Calls, pc'[d] # "idle" PROVE Names(Id(d), answer[d])'
  <2>1. CASE d # c
    <3>1. pc[d] # "idle" /\ Id(d)' = Id(d) /\ answer'[d] = answer[d]
      BY <1>6, <2>1, StepsAreOwn DEF OthersStay, Id
    <3>2. Names(Id(d), answer[d])
      BY <3>1 DEF AnswersName
    <3> QED
      BY <1>2, <3>1, <3>2 DEF Names
  <2>2. CASE d = c /\ answer'[c] = NoAnswer
    BY <2>2 DEF Names
  <2>3. CASE d = c /\ pc[c] # "idle" /\ req'[c] = req[c]
    <3>1. Id(c)' = Id(c) /\ Id(c) \in Ids
      BY <1>4, <2>3 DEF Id
    <3>2. CASE answer'[c] \in {answer[c], memo[Id(c)], recorded[Id(c)], known[Id(c)]}
      <4>1. Names(Id(c), answer'[c])
        BY <1>4, <2>3, <3>1, <3>2 DEF AnswersName
      <4> QED
        BY <1>2, <2>3, <3>1, <4>1 DEF Names
    <3>3. CASE \/ answer'[c].body = BodyOf(c) /\ BodyOf(c).do # "mission.create"
               \/ answer'[c].ok = FALSE
      BY <2>3, <3>3 DEF Names
    <3>4. CASE /\ DispatchToStore(c) /\ BodyOf(c).do = "mission.create"
               /\ \E m \in Nat : Succeeds(c, m)
      <4>1. PICK n \in Records :
              /\ Succeeds(c, n) /\ stored'[n] # NoMission
              /\ stored'[n].source = Id(c) /\ stored'[n].title = BodyOf(c).title
        BY <3>4, StoreStep
      <4>2. answer'[c] = Result(c, TRUE, n)
        BY <4>1 DEF JarvisTypeOK, Succeeds, Sets
      <4> QED
        BY <2>3, <3>1, <4>1, <4>2 DEF Names, Result
    <3>5. ~ DispatchToRegistry(c)
      BY DEF DispatchToRegistry
    <3> QED
      BY <1>6, <2>2, <2>3, <3>2, <3>3, <3>4, <3>5, WhoAnswers
  <2> QED
    BY <1>6, <2>1, <2>2, <2>3, WhoAnswers
<1>7. \A i \in Ids : \A t \in told'[i] :
        /\ t.mission \in Records
        /\ stored'[t.mission] # NoMission
        /\ stored'[t.mission].source = i
        /\ stored'[t.mission].title = t.title
  <2> TAKE i \in Ids
  <2> TAKE t \in told'[i]
  <2>0. told \in [Ids -> SUBSET [title : Titles, mission : Nat]]
    BY DEF JarvisTypeOK
  <2>1. CASE t \in told[i]
    <3>1. /\ stored[t.mission] # NoMission
          /\ stored[t.mission].source = i /\ stored[t.mission].title = t.title
      BY <2>1 DEF OneMissionPerRequest
    <3>2. t.mission \in Records
      BY <2>1 DEF AnswersName
    <3> QED
      BY <1>1, <3>1, <3>2 DEF StoredStays
  <2>2. CASE t \notin told[i]
    <3>1. /\ pc[c] # "idle" /\ i = Id(c) /\ BodyOf(c).do = "mission.create"
          /\ answer[c].ok /\ answer[c] # NoAnswer
          /\ t = [title |-> BodyOf(c).title, mission |-> answer[c].mission]
      BY <2>0, <2>2, WhoTells
    <3>2. answer[c].body = BodyOf(c)
      BY <3>1 DEF CallsAgree, Agrees
    <3>3. /\ t.mission \in Records
          /\ stored[t.mission] # NoMission
          /\ stored[t.mission].source = i /\ stored[t.mission].title = t.title
      BY <1>4, <3>1, <3>2 DEF Names
    <3> QED
      BY <1>1, <3>3 DEF StoredStays
  <2> QED
    BY <2>1, <2>2
<1>8. AnswersName'
  BY <1>5, <1>6, <1>7 DEF AnswersName
<1> QED
  BY <1>1, <1>7, <1>8 DEF OneMissionPerRequest

-----------------------------------------------------------------------------
(* The theorems.                                                           *)

LEMMA InitInv == Init => IInv
<1> SUFFICES ASSUME Init PROVE IInv
  OBVIOUS
<1>1. JarvisTypeOK
  BY TypeInit
<1>2. CallsAgree
  BY DEF Init, CallsAgree, Agrees, StartSteps, Answered
<1>3. LeasesAgree
  BY DEF Init, LeasesAgree, LeaseGuardsAgent, ActiveAgrees, Leased, Budgeted
<1>4. OneMissionPerRequest /\ AnswersName
  BY DEF Init, OneMissionPerRequest, AnswersName, Names
<1> QED
  BY <1>1, <1>2, <1>3, <1>4 DEF IInv

LEMMA SurroundingsKeep ==
  ASSUME IInv, (\E p \in Approvals : ApprovalLapses(p)) \/ QuotaChanges \/ UNCHANGED vars
  PROVE  /\ CallsAgree' /\ LeasesAgree' /\ OneMissionPerRequest'
         /\ setup'.store => AnswersName'
<1>1. UNCHANGED <<setup, callVars, cacheVars, missionVars, holdVars>>
  BY DEF ApprovalLapses, QuotaChanges, vars
<1>2. UNCHANGED <<setup, pc, req, answer, svc, memo, recorded, known, stored, told, leases,
                  active, budgets>>
  BY <1>1 DEF callVars, cacheVars, missionVars, holdVars
<1>3. CallsAgree'
  BY <1>2 DEF IInv, CallsAgree, Agrees, BodyOf
<1>4. LeasesAgree'
  BY <1>2 DEF IInv, LeasesAgree, LeaseGuardsAgent, ActiveAgrees, BodyOf
<1>5. OneMissionPerRequest'
  BY <1>2 DEF IInv, OneMissionPerRequest
<1>6. setup'.store => AnswersName'
  BY <1>2 DEF IInv, AnswersName, Names, Id
<1> QED
  BY <1>3, <1>4, <1>5, <1>6

\* After a restart the rows are all that is left, and they still name missions.
LEMMA RestartKeeps ==
  ASSUME IInv, Restart
  PROVE  /\ CallsAgree' /\ LeasesAgree' /\ OneMissionPerRequest'
         /\ setup'.store => AnswersName'
<1>1. CallsAgree'
  BY DEF Restart, CallsAgree, Agrees, StartSteps, Answered
<1>2. LeasesAgree'
  BY DEF Restart, LeasesAgree, LeaseGuardsAgent, ActiveAgrees, Leased, Budgeted
<1>3. UNCHANGED <<setup, stored, told, recorded>>
  BY DEF Restart, missionVars
<1>4. OneMissionPerRequest'
  BY <1>3 DEF IInv, OneMissionPerRequest
<1>5. /\ \A i \in Ids : svc'[i] = NoAnswer /\ memo'[i] = NoAnswer /\ known'[i] = NoAnswer
      /\ \A c \in Calls : pc'[c] = "idle"
  BY DEF Restart
<1>6. setup'.store => AnswersName'
  BY <1>3, <1>5 DEF IInv, AnswersName, Names
<1> QED
  BY <1>1, <1>2, <1>4, <1>6

LEMMA Consecution == IInv /\ [Next]_vars => IInv'
<1> SUFFICES ASSUME IInv, [Next]_vars PROVE IInv'
  OBVIOUS
<1>1. JarvisTypeOK'
  BY TypeStep DEF IInv
<1>2. ASSUME NEW c \in Calls, CallStep(c)
      PROVE  /\ CallsAgree' /\ LeasesAgree' /\ OneMissionPerRequest'
             /\ setup'.store => AnswersName'
  <2>1. setup' = setup
    BY <1>2 DEF CallStep, Mutation, Start, Receive, Decide, Finish, Replay, DispatchToStore,
       DispatchToRegistry, DispatchWork, Remember, Record, Evaluate, Hydrate, SetQuotas,
       CheckMission, LoadApproval, QueryApproval, ReserveBudget, TakeLease, PassGate,
       ProviderStarts, ProviderFails, RecordSignal
  <2>2. CallsAgree' /\ LeasesAgree'
    BY <1>2, AgreeStep, LeaseStep DEF IInv
  <2>3. CASE setup.store
    BY <1>2, <2>1, <2>2, <2>3, MissionStep DEF IInv
  <2>4. CASE ~ setup.store
    BY <2>1, <2>2, <2>4 DEF OneMissionPerRequest
  <2> QED
    BY <2>3, <2>4
<1>3. \/ \E c \in Calls : CallStep(c)
      \/ (\E p \in Approvals : ApprovalLapses(p)) \/ QuotaChanges \/ UNCHANGED vars
      \/ Restart
  BY DEF Next, CallStep
<1> QED
  BY <1>1, <1>2, <1>3, SurroundingsKeep, RestartKeeps DEF IInv

\* The inductive invariant holds in every state: with any number of requests
\* interleaved at every await, every step of a handler preserves it.
THEOREM JarvisInvariance == Spec => []IInv
<1> QED
  BY InitInv, Consecution, PTL DEF Spec

\* Every cache, row and field of a call keeps a value of its domain.
THEOREM JarvisTypeCorrect == Spec => []JarvisTypeOK
<1>1. IInv => JarvisTypeOK
  BY DEF IInv
<1> QED
  BY <1>1, JarvisInvariance, PTL

\* However many calls ask for agents of one attempt at the same time, and at
\* whichever gate each is refused, one of them at most goes to the provider in
\* the life of the process, and every other gives back what it held.
THEOREM OneAgentPerAttempt == Spec => []LeaseGuardsAgent
<1>1. IInv => LeaseGuardsAgent
  BY DEF IInv, LeasesAgree
<1> QED
  BY <1>1, JarvisInvariance, PTL

\* With the store, for any requests and any number of restarts: one mission for
\* each request_id, and no answer that names another one.
THEOREM MissionsOncePerRequest == Spec => []OneMissionPerRequest
<1>1. IInv => OneMissionPerRequest
  BY DEF IInv
<1> QED
  BY <1>1, JarvisInvariance, PTL

-----------------------------------------------------------------------------
(* Who may start an agent.                                                 *)

\* The steps of a start after its request was looked at, and after its approval
\* was.
Looked == {"loading", "querying"}
Passed == {"approved", "reserved", "leased", "invoking", "announcing", "started"}

\* What is known of a request before its approval is looked at.
Complete(c) ==
  LET b == BodyOf(c) IN
  /\ pc[c] # "idle" /\ b.do = "agent.start"
  /\ b.complete /\ ~ b.publishes /\ setup.v2
  /\ missions[b.mission] # "absent"
  /\ b.approval # NoApproval

\* A start that passed a gate is still entitled to it, awaits later.
StartAgrees(c) ==
  /\ pc[c] \in Looked => Complete(c)
  /\ pc[c] \in Passed => Entitled(c)

StartsAgree == \A c \in Calls : StartAgrees(c)

\* A deployment stays as it is, and in the life of the process a mission that is
\* known stays known, cancelled or not.
LEMMA MissionsStayKnown ==
  ASSUME JarvisTypeOK, NEW c \in Calls, CallStep(c)
  PROVE  /\ setup' = setup
         /\ missions' = missions \/ DispatchToRegistry(c)
         /\ \A m \in Records : missions[m] # "absent" => missions'[m] # "absent"
<1>1. setup' = setup /\ (missions' = missions \/ DispatchToRegistry(c))
  BY DEF CallStep, Mutation, Start, Receive, Decide, Finish, Replay, DispatchToStore,
     DispatchToRegistry, DispatchWork, Remember, Record, Evaluate, Hydrate, SetQuotas,
     CheckMission, LoadApproval, QueryApproval, ReserveBudget, TakeLease, PassGate,
     ProviderStarts, ProviderFails, RecordSignal, registryVars
<1>2. CASE DispatchToRegistry(c)
  <2>1. missions \in [Records -> {"absent", "queued", "cancelled"}]
    BY DEF JarvisTypeOK
  <2>2. \/ missions' = missions
        \/ \E n \in Records : missions' = [missions EXCEPT ![n] = "queued"]
        \/ missions' = [missions EXCEPT ![BodyOf(c).mission] = "cancelled"]
    BY <1>2 DEF DispatchToRegistry, RegistryMission
  <2> QED
    BY <1>1, <2>1, <2>2
<1> QED
  BY <1>1, <1>2

\* What a step of one call leaves of the others' reads.
LEMMA ReadsAreOwn ==
  ASSUME JarvisTypeOK, NEW c \in Calls, CallStep(c)
  PROVE  \A d \in Calls \ {c} : late'[d] = late[d]
<1>1. late \in [Calls -> BOOLEAN]
  BY DEF JarvisTypeOK
<1>2. late' = late \/ Finish(c) \/ Evaluate(c)
  BY DEF CallStep, Mutation, Start, Receive, Decide, Replay, DispatchToStore,
     DispatchToRegistry, DispatchWork, Remember, Record, Hydrate, SetQuotas,
     CheckMission, LoadApproval, QueryApproval, ReserveBudget, TakeLease, PassGate,
     ProviderStarts, ProviderFails, RecordSignal
<1>3. \/ late' = late
      \/ \E value : late' = Sets(late, c, value)
  BY <1>2 DEF Finish, Evaluate
<1> QED
  BY <1>1, <1>3 DEF Sets

\* A call that keeps its request and what it read keeps its title to it.
LEMMA TitleStays ==
  ASSUME JarvisTypeOK, NEW d \in Calls, pc'[d] # "idle", req'[d] = req[d],
         setup' = setup,
         \A m \in Records : missions[m] # "absent" => missions'[m] # "absent"
  PROVE  /\ Complete(d) => Complete(d)'
         /\ Entitled(d) /\ (late'[d] => late[d]) => Entitled(d)'
<1>1. BodyOf(d)' = BodyOf(d)
  BY DEF BodyOf
<1>2. pc[d] # "idle" => BodyOf(d).mission \in Records
  BY RequestFields DEF Body
<1>3. NeedsApproval(BodyOf(d))' <=> NeedsApproval(BodyOf(d))
  BY <1>1 DEF NeedsApproval
<1>4. Complete(d) => Complete(d)'
  BY <1>1, <1>2 DEF Complete
<1>5. Entitled(d) /\ (late'[d] => late[d]) => Entitled(d)'
  BY <1>1, <1>2, <1>3 DEF Entitled
<1> QED
  BY <1>4, <1>5

\* An approval that is not refused is for this attempt and worker, in time.
LEMMA ExaminedIsEntitled ==
  ASSUME JarvisTypeOK, NEW c \in Calls, pc[c] \in Looked, Complete(c), NEW approval,
         Examine(c, approval), UNCHANGED <<setup, req, late, missions>>
  PROVE  StartAgrees(c)'
<1>1. \/ pc'[c] = "finishing"
      \/ /\ pc'[c] = "approved" /\ ~ late[c]
         /\ Bindings[BodyOf(c).approval] =
              [attempt |-> BodyOf(c).attempt, worker |-> BodyOf(c).worker]
  BY NextPlace DEF Examine
<1>2. BodyOf(c)' = BodyOf(c)
  BY DEF BodyOf
<1>3. pc'[c] = "approved" => Entitled(c)'
  BY <1>1, <1>2 DEF Complete, Entitled
<1> QED
  BY <1>1, <1>3 DEF StartAgrees, Looked, Passed

\* Each step of a call leaves every start that passed a gate entitled to it.
LEMMA StartsStep ==
  ASSUME JarvisTypeOK, CallsAgree, StartsAgree, NEW c \in Calls, CallStep(c)
  PROVE  StartsAgree'
<1>0. /\ OthersStay(c) /\ setup' = setup
      /\ \A m \in Records : missions[m] # "absent" => missions'[m] # "absent"
  BY StepsAreOwn, MissionsStayKnown
<1>1. ASSUME NEW d \in Calls \ {c} PROVE StartAgrees(d)'
  <2>1. pc'[d] = pc[d] /\ req'[d] = req[d] /\ late'[d] = late[d]
    BY <1>0, ReadsAreOwn DEF OthersStay
  <2>2. StartAgrees(d)
    BY DEF StartsAgree
  <2>3. pc[d] \in Looked \cup Passed => pc[d] # "idle"
    BY DEF Looked, Passed
  <2> QED
    BY <1>0, <2>1, <2>2, <2>3, TitleStays DEF StartAgrees
<1> SUFFICES StartAgrees(c)'
  BY <1>1 DEF StartsAgree
<1>2. ASSUME pc'[c] \notin Looked \cup Passed PROVE StartAgrees(c)'
  BY <1>2 DEF StartAgrees
<1>3. ASSUME pc[c] \in Passed, pc'[c] \in Passed, req'[c] = req[c], late'[c] => late[c]
      PROVE  StartAgrees(c)'
  <2>1. Entitled(c) /\ pc'[c] # "idle" /\ pc'[c] \notin Looked
    BY <1>3 DEF StartsAgree, StartAgrees, Passed, Looked
  <2> QED
    BY <1>0, <1>3, <2>1, TitleStays DEF StartAgrees
<1>4. ASSUME NEW r \in setup.requests, Receive(c, r) PROVE StartAgrees(c)'
  BY <1>2, <1>4, NextPlace DEF Receive, Looked, Passed
<1>5. CASE Decide(c)
  BY <1>2, <1>5, NextPlace DEF Decide, Looked, Passed
<1>6. CASE Replay(c)
  BY <1>2, <1>6, NextPlace DEF Replay, Looked, Passed
<1>7. CASE DispatchToStore(c)
  BY <1>2, <1>7, NextPlace DEF DispatchToStore, AdmitMission, CancelMission, Looked, Passed
<1>8. CASE DispatchToRegistry(c)
  BY <1>2, <1>8, NextPlace DEF DispatchToRegistry, RegistryMission, Looked, Passed
<1>9. CASE DispatchWork(c)
  BY <1>2, <1>9, NextPlace DEF DispatchWork, CreateWorkspace, DeleteWorkspace, RunTestsOrStop,
     Looked, Passed
<1>10. CASE Remember(c) \/ Record(c)
  BY <1>2, <1>10, NextPlace DEF Remember, Record, Looked, Passed
<1>11. CASE Finish(c)
  <2>1. CASE pc[c] = "finishing"
    BY <1>2, <1>11, <2>1, NextPlace DEF Finish, Looked, Passed
  <2>2. CASE pc[c] = "announcing"
    <3>1. late'[c] = FALSE
      BY <1>11 DEF Finish, Sets, JarvisTypeOK
    <3>2. pc'[c] = "started"
      BY <1>11, <2>2, NextPlace DEF Finish
    <3>3. req'[c] = req[c]
      BY <1>11, <2>2 DEF Finish
    <3> QED
      BY <1>3, <2>2, <3>1, <3>2, <3>3 DEF Passed
  <2> QED
    BY <1>11, <2>1, <2>2 DEF Finish
<1>12. CASE Evaluate(c)
  BY <1>2, <1>12, NextPlace DEF Evaluate, Looked, Passed
<1>13. CASE Hydrate(c) \/ SetQuotas(c)
  BY <1>2, <1>13, NextPlace DEF Hydrate, SetQuotas, Looked, Passed
<1>14. CASE CheckMission(c)
  <2> DEFINE b == BodyOf(c)
  <2>1. CASE Refuses(c)
    BY <1>2, <2>1, NextPlace DEF Looked, Passed
  <2>2. CASE ~ Refuses(c)
    <3>1. /\ b.complete /\ ~ b.publishes /\ setup.v2 /\ missions[b.mission] = "queued"
          /\ NeedsApproval(b) => b.approval # NoApproval
          /\ pc'[c] = IF NeedsApproval(b) THEN "loading" ELSE "approved"
      BY <1>14, <2>2, NextPlace DEF CheckMission
    <3>2. b.do = "agent.start" /\ pc[c] # "idle"
      BY <1>14 DEF CheckMission, CallsAgree, Agrees, StartSteps
    <3>3. req' = req /\ late' = late /\ missions' = missions
      BY <1>14 DEF CheckMission, registryVars
    <3>4. BodyOf(c)' = b /\ (NeedsApproval(b)' <=> NeedsApproval(b))
      BY <1>0, <3>3 DEF BodyOf, NeedsApproval
    <3>5. CASE NeedsApproval(b)
      <4>1. pc'[c] = "loading" /\ Complete(c)'
        BY <1>0, <3>1, <3>2, <3>3, <3>4, <3>5 DEF Complete
      <4> QED
        BY <4>1 DEF StartAgrees, Looked, Passed
    <3>6. CASE ~ NeedsApproval(b)
      <4>1. pc'[c] = "approved" /\ Entitled(c)'
        BY <1>0, <3>1, <3>2, <3>3, <3>4, <3>6 DEF Entitled
      <4> QED
        BY <4>1 DEF StartAgrees, Looked, Passed
    <3> QED
      BY <3>5, <3>6
  <2> QED
    BY <2>1, <2>2
<1>15. CASE LoadApproval(c) \/ QueryApproval(c)
  <2>1. pc[c] \in Looked /\ UNCHANGED <<setup, req, late, missions>>
    BY <1>15 DEF LoadApproval, QueryApproval, Looked, registryVars
  <2>2. Complete(c)
    BY <2>1 DEF StartsAgree, StartAgrees
  <2>3. CASE \E approval : Examine(c, approval)
    BY <2>1, <2>2, <2>3, ExaminedIsEntitled
  <2>4. CASE Proceeds(c, "querying")
    <3>1. pc'[c] = "querying" /\ req'[c] = req[c]
      BY <2>1, <2>4, NextPlace
    <3>2. Complete(c)'
      BY <1>0, <2>2, <3>1, TitleStays
    <3> QED
      BY <3>1, <3>2 DEF StartAgrees, Passed
  <2>5. CASE Refuses(c)
    BY <1>2, <2>5, NextPlace DEF Looked, Passed
  <2> QED
    BY <1>15, <2>3, <2>4, <2>5 DEF LoadApproval, QueryApproval
<1>16. CASE ReserveBudget(c) \/ TakeLease(c) \/ PassGate(c) \/ ProviderStarts(c)
            \/ ProviderFails(c)
  <2>1. pc[c] \in Passed /\ UNCHANGED <<req, late>>
    BY <1>16 DEF ReserveBudget, TakeLease, PassGate, ProviderStarts, ProviderFails, Passed
  <2>2. pc'[c] \in {"reserved", "leased", "invoking", "announcing", "finishing", "signalling"}
    BY <1>16, NextPlace DEF ReserveBudget, TakeLease, PassGate, ProviderStarts, ProviderFails
  <2> QED
    BY <1>2, <1>3, <2>1, <2>2 DEF Looked, Passed
<1>17. CASE RecordSignal(c)
  BY <1>2, <1>17, NextPlace DEF RecordSignal, Looked, Passed
<1> QED
  BY <1>4, <1>5, <1>6, <1>7, <1>8, <1>9, <1>10, <1>11, <1>12, <1>13, <1>14, <1>15, <1>16,
     <1>17 DEF CallStep, Mutation, Start

-----------------------------------------------------------------------------
(* The mapping to Errands.                                                 *)

Under == {"reserved", "leased", "invoking", "announcing", "started"}

\* Rows that stay promise what they did.
LEMMA RowsStay ==
  ASSUME UNCHANGED <<setup, missionVars>>
  PROVE  UNCHANGED <<Created, Over, ToldOfRows>>
<1>1. UNCHANGED <<setup, stored, told>>
  BY DEF missionVars
<1> QED
  BY <1>1 DEF Created, Over, ToldOfRows

\* The title to an agent depends on the request and the mission alone.
LEMMA ErrandsStay ==
  ASSUME UNCHANGED <<setup, req, late, missions>>,
         \A d \in Calls : pc'[d] = "idle" <=> pc[d] = "idle"
  PROVE  Errand' = Errand
<1>1. \A d \in Calls : Entitled(d)' <=> Entitled(d)
  BY DEF Entitled, BodyOf, NeedsApproval
<1> QED
  BY <1>1 DEF Errand, BodyOf

LEMMA NextErrands ==
  ASSUME JarvisTypeOK'
  PROVE  Errand' \in [Calls -> SUBSET Attempts]
<1>1. ASSUME NEW d \in Calls, Entitled(d)' PROVE BodyOf(d)'.attempt \in Attempts
  <2>1. req'[d] \in Request
    BY <1>1 DEF Entitled, JarvisTypeOK
  <2> QED
    BY <2>1 DEF BodyOf, Request, Body
<1> QED
  BY <1>1 DEF Errand

\* Whoever is under way has an errand for one attempt.
LEMMA UnderWay ==
  ASSUME JarvisTypeOK, StartsAgree, NEW d \in Calls
  PROVE  /\ Way[d] # "home" <=> pc[d] \in Under
         /\ pc[d] \in Passed => Errand[d] = {BodyOf(d).attempt} /\ BodyOf(d).attempt \in Attempts
<1>1. Way[d] # "home" <=> pc[d] \in Under
  BY DEF Way, Under
<1>2. ASSUME pc[d] \in Passed
      PROVE  Errand[d] = {BodyOf(d).attempt} /\ BodyOf(d).attempt \in Attempts
  <2>1. Entitled(d) /\ pc[d] # "idle"
    BY <1>2 DEF StartsAgree, StartAgrees, Passed
  <2> QED
    BY <2>1, RequestFields DEF Errand, Body
<1> QED
  BY <1>1, <1>2

\* A step of a call that stays where it is, under way or at home.
LEMMA TurnMaps ==
  ASSUME JarvisTypeOK, JarvisTypeOK', StartsAgree, StartsAgree',
         NEW c \in Calls, OthersStay(c),
         Way'[c] = Way[c], pc[c] \in Under => req'[c] = req[c],
         UNCHANGED holdVars, UNCHANGED <<Created, Over, ToldOfRows>>
  PROVE  Promise!Turn
<1>1. \A d \in Calls \ {c} : Way'[d] = Way[d] /\ pc'[d] = pc[d] /\ req'[d] = req[d]
  BY DEF OthersStay, Way
<1>2. Way' = Way
  BY <1>1 DEF Way
<1>3. ASSUME NEW d \in Calls, Way[d] # "home" PROVE Errand'[d] = Errand[d]
  <2>1. pc[d] \in Under
    BY <1>3 DEF Way, Under
  <2>2. pc'[d] \in Under
    BY <1>2, <1>3 DEF Way, Under
  <2>3. req'[d] = req[d]
    BY <1>1, <2>1
  <2>4. Entitled(d) /\ Entitled(d)'
    BY <2>1, <2>2 DEF StartsAgree, StartAgrees, Under, Passed
  <2> QED
    BY <2>3, <2>4 DEF Errand, BodyOf
<1>4. Errand' \in [Calls -> SUBSET Attempts]
  BY NextErrands
<1>5. UNCHANGED active
  BY DEF holdVars
<1> QED
  BY <1>2, <1>3, <1>4, <1>5 DEF Promise!Turn, Promise!missionVars

\* A step of a start that takes its call from one place to another.
LEMMA MovesOn ==
  ASSUME JarvisTypeOK, NEW c \in Calls, OthersStay(c), pc[c] # "idle", pc'[c] # "idle",
         UNCHANGED <<setup, req, late, missions, missionVars>>
  PROVE  /\ UNCHANGED <<Created, Over, ToldOfRows, Errand>>
         /\ Way' = [Way EXCEPT ![c] = Way'[c]]
<1>1. \A d \in Calls : pc'[d] = "idle" <=> pc[d] = "idle"
  BY DEF OthersStay
<1>2. Errand' = Errand
  BY <1>1, ErrandsStay
<1>3. \A d \in Calls \ {c} : Way'[d] = Way[d]
  BY DEF OthersStay, Way
<1>4. Way' = [d \in Calls |-> Way'[d]] /\ Way = [d \in Calls |-> Way[d]]
  BY DEF Way
<1>5. Way' = [Way EXCEPT ![c] = Way'[c]]
  BY <1>3, <1>4
<1> QED
  BY <1>2, <1>5, RowsStay

\* A refusal turns the call back, from wherever it is under way.
LEMMA TurnsBack ==
  ASSUME JarvisTypeOK, LeasesAgree, NEW c \in Calls, OthersStay(c),
         pc[c] \in {"reserved", "leased", "invoking"}, Releases(c),
         pc'[c] \in {"finishing", "signalling"},
         UNCHANGED <<setup, req, late, missions, missionVars>>
  PROVE  Promise!TurnBack(c)
<1>1. UNCHANGED <<Created, Over, ToldOfRows, Errand>> /\ Way' = [Way EXCEPT ![c] = Way'[c]]
  BY MovesOn
<1>2. Way'[c] = "home" /\ Way[c] \in {"equipped", "holding", "asking"}
  BY DEF Way
<1>3. active' = [a \in Attempts |-> IF active[a] = c THEN NoCall ELSE active[a]]
  BY ActiveReleased
<1> QED
  BY <1>1, <1>2, <1>3 DEF Promise!TurnBack, Promise!Goes, Promise!missionVars

\* The gates of a start from the budget on.
LEMMA GatesMap ==
  ASSUME JarvisTypeOK, JarvisTypeOK', LeasesAgree, StartsAgree, StartsAgree',
         NEW c \in Calls, OthersStay(c),
         \/ ReserveBudget(c) \/ TakeLease(c) \/ PassGate(c) \/ ProviderStarts(c)
         \/ ProviderFails(c)
  PROVE  Promise!Next
<1>0. pc[c] \in {"approved", "reserved", "leased", "invoking"}
      /\ UNCHANGED <<setup, req, late, missions, missionVars>>
  BY DEF ReserveBudget, TakeLease, PassGate, ProviderStarts, ProviderFails, registryVars
<1>1. pc'[c] # "idle" =>
        /\ UNCHANGED <<Created, Over, ToldOfRows, Errand>>
        /\ Way' = [Way EXCEPT ![c] = Way'[c]]
  BY <1>0, MovesOn
<1>2. ASSUME Releases(c), Refuses(c), pc[c] # "approved" PROVE Promise!TurnBack(c)
  BY <1>0, <1>2, TurnsBack, NextPlace
<1>3. Errand[c] = {BodyOf(c).attempt} /\ BodyOf(c).attempt \in Attempts
  BY <1>0, UnderWay DEF Passed
<1>4. CASE ReserveBudget(c)
  <2>1. CASE Refuses(c)
    <3>1. pc'[c] = "finishing"
      BY <2>1, NextPlace
    <3>2. Way'[c] = Way[c]
      BY <1>4, <3>1 DEF ReserveBudget, Way
    <3>3. UNCHANGED <<Created, Over, ToldOfRows>> /\ Way' = Way /\ Errand' = Errand
      BY <1>1, <3>1, <3>2 DEF Way
    <3>4. UNCHANGED active
      BY <1>4 DEF ReserveBudget
    <3>5. Errand' \in [Calls -> SUBSET Attempts]
      BY NextErrands
    <3> QED
      BY <3>3, <3>4, <3>5 DEF Promise!Next, Promise!Turn, Promise!missionVars
  <2>2. CASE Proceeds(c, "reserved")
    <3>1. pc'[c] = "reserved"
      BY <2>2, NextPlace
    <3>2. Way[c] = "home" /\ Way'[c] = "equipped" /\ UNCHANGED active
      BY <1>4, <3>1 DEF ReserveBudget, Way
    <3>3. Promise!Equip(c)
      BY <1>1, <1>3, <3>1, <3>2 DEF Promise!Equip, Promise!Goes, Promise!missionVars
    <3> QED
      BY <3>3 DEF Promise!Next
  <2> QED
    BY <1>4, <2>1, <2>2 DEF ReserveBudget
<1>5. CASE TakeLease(c)
  <2>1. CASE Releases(c) /\ Refuses(c)
    BY <1>2, <1>5, <2>1 DEF TakeLease, Promise!Next
  <2>2. CASE ~ (Releases(c) /\ Refuses(c))
    <3>1. /\ pc[c] = "reserved" /\ pc'[c] = "leased"
          /\ LeaseFree(BodyOf(c)) /\ active' = [active EXCEPT ![BodyOf(c).attempt] = c]
      BY <1>5, <2>2, NextPlace DEF TakeLease
    <3>2. Way[c] = "equipped" /\ Way'[c] = "holding"
      BY <3>1 DEF Way
    <3>3. Promise!Hold(c, BodyOf(c).attempt)
      BY <1>1, <1>3, <3>1, <3>2 DEF Promise!Hold, Promise!Goes, Promise!missionVars, LeaseFree
    <3> QED
      BY <1>3, <3>3 DEF Promise!Next
  <2> QED
    BY <2>1, <2>2
<1>6. CASE PassGate(c)
  <2>1. CASE Releases(c) /\ Refuses(c)
    BY <1>2, <1>6, <2>1 DEF PassGate, Promise!Next
  <2>2. CASE ~ (Releases(c) /\ Refuses(c))
    <3>1. pc[c] = "leased" /\ pc'[c] = "invoking" /\ UNCHANGED active
      BY <1>6, <2>2, NextPlace DEF PassGate, holdVars
    <3>2. Way[c] = "holding" /\ Way'[c] = "asking"
      BY <3>1 DEF Way
    <3>3. Promise!Ask(c)
      BY <1>1, <3>1, <3>2 DEF Promise!Ask, Promise!Goes, Promise!missionVars
    <3> QED
      BY <3>3 DEF Promise!Next
  <2> QED
    BY <2>1, <2>2
<1>7. CASE ProviderStarts(c)
  <2>1. pc[c] = "invoking" /\ pc'[c] = "announcing" /\ UNCHANGED active
    BY <1>7, NextPlace DEF ProviderStarts, holdVars
  <2>2. Way[c] = "asking" /\ Way'[c] = "working"
    BY <2>1 DEF Way
  <2>3. Promise!Start(c)
    BY <1>1, <2>1, <2>2 DEF Promise!Start, Promise!Goes, Promise!missionVars
  <2> QED
    BY <2>3 DEF Promise!Next
<1>8. CASE ProviderFails(c)
  <2>1. pc[c] = "invoking" /\ Releases(c) /\ pc'[c] \in {"finishing", "signalling"}
    BY <1>8, NextPlace DEF ProviderFails
  <2>2. Promise!TurnBack(c)
    BY <1>0, <2>1, TurnsBack
  <2> QED
    BY <2>2 DEF Promise!Next
<1> QED
  BY <1>4, <1>5, <1>6, <1>7, <1>8

\* An admission creates the one mission of its request, a cancellation ends one
\* that was created, and all else that the store does repeats what is there.
LEMMA RowsMap ==
  ASSUME JarvisTypeOK, OneMissionPerRequest, NEW c \in Calls, DispatchToStore(c)
  PROVE  \/ UNCHANGED <<Created, Over>>
         \/ \E r \in Ids, f \in [title : Titles, mission : Records] :
              /\ Created[r] = {}
              /\ \A q \in Ids : \A g \in Created[q] : g.mission # f.mission
              /\ Created' = [Created EXCEPT ![r] = {f}]
              /\ UNCHANGED Over
         \/ \E r \in Ids, f \in [title : Titles, mission : Records] :
              /\ f \in Created[r]
              /\ Over' = Over \cup {f.mission}
              /\ UNCHANGED Created
<1>1. stored \in [Records -> Mission \cup {NoMission}] /\ NoMission \notin Mission
  BY JarvisAssumption DEF JarvisTypeOK
<1>2. pc[c] # "idle" /\ Id(c) \in Ids /\ BodyOf(c) \in Body /\ req[c].actor \in Actors
  BY RequestFields DEF DispatchToStore
<1>3. BodyOf(c).title \in Titles /\ BodyOf(c).mission \in Records
  BY <1>2 DEF Body
<1>4. CASE UNCHANGED stored
  BY <1>4 DEF Created, Over
<1>5. CASE /\ stored[BodyOf(c).mission] # NoMission
           /\ stored' = [stored EXCEPT ![BodyOf(c).mission].state = "cancelled"]
  <2> DEFINE m == BodyOf(c).mission
             f == [title |-> stored[m].title, mission |-> m]
  <2>1. m \in Records /\ stored[m] \in Mission
    BY <1>1, <1>3, <1>5
  <2>2. stored[m].source \in Ids /\ stored[m].title \in Titles
    BY <2>1 DEF Mission
  <2>3. [stored[m] EXCEPT !.state = "cancelled"] \in Mission
    BY <2>1 DEF Mission
  <2>4. /\ stored'[m] # NoMission /\ stored'[m].source = stored[m].source
        /\ stored'[m].title = stored[m].title /\ stored'[m].state = "cancelled"
        /\ \A n \in Records \ {m} : stored'[n] = stored[n]
    BY <1>1, <1>5, <2>1, <2>3 DEF Mission
  <2>5. Created' = Created
    BY <1>5, <2>1, <2>4 DEF Created
  <2>6. Over' = Over \cup {m}
    BY <1>5, <2>1, <2>4 DEF Over
  <2>7. f \in Created[stored[m].source] /\ f.mission = m
    BY <1>5, <2>1, <2>2 DEF Created
  <2>8. f \in [title : Titles, mission : Records]
    BY <2>1, <2>2
  <2> HIDE DEF m, f
  <2> QED
    BY <2>2, <2>5, <2>6, <2>7, <2>8
<1>6. ASSUME NEW m \in Records,
             \A n \in Records : ~ (stored[n] # NoMission /\ stored[n].source = Id(c)),
             stored[m] = NoMission,
             stored' = [stored EXCEPT ![m] = [source |-> Id(c), title |-> BodyOf(c).title,
                          actor |-> req[c].actor, state |-> "queued"]]
      PROVE  \E r \in Ids, f \in [title : Titles, mission : Records] :
               /\ Created[r] = {}
               /\ \A q \in Ids : \A g \in Created[q] : g.mission # f.mission
               /\ Created' = [Created EXCEPT ![r] = {f}]
               /\ UNCHANGED Over
  <2> DEFINE row == [source |-> Id(c), title |-> BodyOf(c).title, actor |-> req[c].actor,
                     state |-> "queued"]
             f == [title |-> BodyOf(c).title, mission |-> m]
  <2>1. row \in Mission
    BY <1>2, <1>3 DEF Mission
  <2>2. stored'[m] = row /\ \A n \in Records \ {m} : stored'[n] = stored[n]
    BY <1>1, <1>6
  <2>3. row # NoMission /\ row.source = Id(c) /\ row.title = BodyOf(c).title
        /\ row.state = "queued"
    BY <1>1, <2>1
  <2> HIDE DEF row
  <2>4. Created[Id(c)] = {}
    BY <1>2, <1>6 DEF Created
  <2>5. \A q \in Ids : \A g \in Created[q] : g.mission # m
    BY <1>6 DEF Created
  <2>6. \A i \in Ids \ {Id(c)} : Created'[i] = Created[i]
    BY <1>6, <2>2, <2>3 DEF Created
  <2>7. Created'[Id(c)] = {f}
    BY <1>2, <1>6, <2>2, <2>3 DEF Created
  <2>8. Over' = Over
    BY <1>6, <2>2, <2>3 DEF Over
  <2>9. f \in [title : Titles, mission : Records] /\ f.mission = m
    BY <1>3
  <2> HIDE DEF f
  <2>10. Created = [i \in Ids |-> Created[i]] /\ Created' = [i \in Ids |-> Created'[i]]
    BY DEF Created
  <2>11. Created' = [Created EXCEPT ![Id(c)] = {f}]
    BY <2>6, <2>7, <2>10
  <2> QED
    BY <1>2, <2>4, <2>5, <2>8, <2>9, <2>11
<1>7. CASE CancelMission(c)
  BY <1>4, <1>5, <1>7 DEF CancelMission
<1>8. CASE AdmitMission(c)
  BY <1>4, <1>6, <1>8 DEF AdmitMission, Source, Unused
<1> QED
  BY <1>7, <1>8 DEF DispatchToStore

LEMMA StoreMaps ==
  ASSUME JarvisTypeOK, JarvisTypeOK', OneMissionPerRequest, NEW c \in Calls, OthersStay(c),
         DispatchToStore(c)
  PROVE  [Promise!Next]_(Promise!vars)
<1>1. pc[c] = "dispatching" /\ pc'[c] \in {"remembering", "finishing"}
  BY NextPlace DEF DispatchToStore, AdmitMission, CancelMission
<1>2. \A d \in Calls : pc'[d] = "idle" <=> pc[d] = "idle"
  BY <1>1 DEF OthersStay
<1>3. Errand' = Errand
  BY <1>2, ErrandsStay DEF DispatchToStore, registryVars
<1>4. Way' = Way
  BY <1>1 DEF Way, OthersStay
<1>5. UNCHANGED active /\ ToldOfRows' = ToldOfRows
  BY DEF DispatchToStore, ToldOfRows, holdVars
<1> QED
  BY <1>3, <1>4, <1>5, RowsMap DEF Promise!Next, Promise!Create, Promise!End,
     Promise!agentVars, Promise!vars

\* A call that is over tells of the mission of its request, if it tells of one.
LEMMA FinishMaps ==
  ASSUME IInv, JarvisTypeOK', StartsAgree, StartsAgree', NEW c \in Calls, OthersStay(c),
         Finish(c)
  PROVE  Promise!Next
<1>0. JarvisTypeOK /\ CallsAgree /\ setup' = setup /\ UNCHANGED <<stored, holdVars, missions>>
  BY DEF IInv, Finish, registryVars
<1>1. UNCHANGED <<Created, Over>>
  BY <1>0 DEF Created, Over
<1>2. /\ pc[c] = "announcing" => pc'[c] = "started" /\ req'[c] = req[c]
      /\ pc[c] = "finishing" => pc'[c] = "idle"
  BY <1>0, NextPlace DEF Finish
<1>3. Way'[c] = Way[c] /\ (pc[c] \in Under => req'[c] = req[c])
  BY <1>2 DEF Finish, Way, Under
<1>4. CASE UNCHANGED ToldOfRows
  BY <1>0, <1>1, <1>3, <1>4, TurnMaps DEF Promise!Next
<1>5. CASE ToldOfRows' # ToldOfRows
  <2> DEFINE f == [title |-> BodyOf(c).title, mission |-> answer[c].mission]
  <2>1. /\ setup.store /\ BodyOf(c).do = "mission.create" /\ answer[c].ok
        /\ told' = [told EXCEPT ![Id(c)] = @ \cup {f}]
    BY <1>0, <1>5 DEF Finish, Told, ToldOfRows
  <2>2. pc[c] # "idle" /\ answer[c] # NoAnswer /\ answer[c].body = BodyOf(c)
    BY <1>0 DEF Finish, CallsAgree, Agrees, Answered
  <2>3. Id(c) \in Ids /\ BodyOf(c).title \in Titles
    BY <1>0, <2>2, RequestFields DEF Body
  <2>4. Names(Id(c), answer[c])
    BY <2>1, <2>2 DEF IInv, AnswersName
  <2>5. /\ answer[c].mission \in Records /\ stored[answer[c].mission] # NoMission
        /\ stored[answer[c].mission].source = Id(c)
        /\ stored[answer[c].mission].title = BodyOf(c).title
    BY <2>1, <2>2, <2>4 DEF Names
  <2>6. f \in Created[Id(c)]
    BY <2>3, <2>5 DEF Created
  <2>7. f \in [title : Titles, mission : Records]
    BY <2>3, <2>5
  <2> HIDE DEF f
  <2>8. ToldOfRows' = [ToldOfRows EXCEPT ![Id(c)] = @ \cup {f}]
    <3>1. told \in [Ids -> SUBSET [title : Titles, mission : Nat]]
      BY <1>0 DEF JarvisTypeOK
    <3>2. ToldOfRows = [i \in Ids |-> told[i]] /\ ToldOfRows' = [i \in Ids |-> told'[i]]
      BY <1>0, <2>1 DEF ToldOfRows
    <3> QED
      BY <2>1, <3>1, <3>2
  <2>9. pc[c] = "finishing" /\ pc'[c] = "idle"
    BY <1>0, <1>2, <2>1 DEF Finish, CallsAgree, Agrees, StartSteps
  <2>10. Way' = Way
    BY <1>3 DEF Way, OthersStay
  <2>11. Errand' = Errand
    <3>1. ~ Entitled(c) /\ ~ Entitled(c)'
      BY <2>1, <2>9 DEF Entitled
    <3>2. ASSUME NEW d \in Calls \ {c}
          PROVE  (Entitled(d)' <=> Entitled(d)) /\ BodyOf(d)' = BodyOf(d)
      <4>1. pc'[d] = pc[d] /\ req'[d] = req[d] /\ late'[d] = late[d]
        BY <1>0, ReadsAreOwn DEF OthersStay, CallStep
      <4> QED
        BY <1>0, <4>1 DEF Entitled, BodyOf, NeedsApproval
    <3> QED
      BY <3>1, <3>2 DEF Errand
  <2>12. Promise!Tell(Id(c), f)
    BY <1>0, <1>1, <2>6, <2>8, <2>10, <2>11 DEF Promise!Tell, Promise!agentVars, holdVars
  <2> QED
    BY <2>3, <2>7, <2>12 DEF Promise!Next
<1> QED
  BY <1>4, <1>5

\* Every step of a call is a step of Errands.
LEMMA CallMaps ==
  ASSUME IInv, IInv', StartsAgree, StartsAgree', NEW c \in Calls, CallStep(c)
  PROVE  [Promise!Next]_(Promise!vars)
<1>0. JarvisTypeOK /\ JarvisTypeOK' /\ LeasesAgree /\ OneMissionPerRequest /\ OthersStay(c)
  BY StepsAreOwn DEF IInv
<1>1. ASSUME pc[c] \notin Under, pc'[c] \notin Under,
             UNCHANGED <<setup, missionVars, holdVars>>
      PROVE  Promise!Turn
  <2>1. Way'[c] = Way[c]
    BY <1>1 DEF Way, Under
  <2> QED
    BY <1>0, <1>1, <2>1, RowsStay, TurnMaps
<1>2. ASSUME NEW r \in setup.requests, Receive(c, r) PROVE Promise!Turn
  BY <1>0, <1>1, <1>2, NextPlace DEF Receive, Under
<1>3. ASSUME Decide(c) PROVE Promise!Turn
  BY <1>0, <1>1, <1>3, NextPlace DEF Decide, Under
<1>4. ASSUME Replay(c) PROVE Promise!Turn
  BY <1>0, <1>1, <1>4, NextPlace DEF Replay, Under
<1>5. ASSUME DispatchToRegistry(c) PROVE Promise!Turn
  BY <1>0, <1>1, <1>5, NextPlace DEF DispatchToRegistry, RegistryMission, Under
<1>6. ASSUME DispatchWork(c) PROVE Promise!Turn
  BY <1>0, <1>1, <1>6, NextPlace DEF DispatchWork, CreateWorkspace, DeleteWorkspace,
     RunTestsOrStop, Under
<1>7. ASSUME Remember(c) \/ Record(c) PROVE Promise!Turn
  BY <1>0, <1>1, <1>7, NextPlace DEF Remember, Record, Under
<1>8. ASSUME Evaluate(c) PROVE Promise!Turn
  BY <1>0, <1>1, <1>8, NextPlace DEF Evaluate, Under
<1>9. ASSUME Hydrate(c) \/ SetQuotas(c) PROVE Promise!Turn
  BY <1>0, <1>1, <1>9, NextPlace DEF Hydrate, SetQuotas, Under
<1>10. ASSUME CheckMission(c) \/ LoadApproval(c) \/ QueryApproval(c) PROVE Promise!Turn
  BY <1>0, <1>1, <1>10, NextPlace DEF CheckMission, LoadApproval, QueryApproval, Examine, Under
<1>11. ASSUME RecordSignal(c) PROVE Promise!Turn
  BY <1>0, <1>1, <1>11, NextPlace DEF RecordSignal, Under
<1>12. CASE Finish(c)
  BY <1>0, <1>12, FinishMaps
<1>13. CASE DispatchToStore(c)
  BY <1>0, <1>13, StoreMaps
<1>14. CASE \/ ReserveBudget(c) \/ TakeLease(c) \/ PassGate(c) \/ ProviderStarts(c)
            \/ ProviderFails(c)
  BY <1>0, <1>14, GatesMap
<1>15. Promise!Turn => Promise!Next
  BY DEF Promise!Next
<1> QED
  BY <1>2, <1>3, <1>4, <1>5, <1>6, <1>7, <1>8, <1>9, <1>10, <1>11, <1>12, <1>13, <1>14, <1>15
     DEF CallStep, Mutation, Start

\* What the surroundings do is not seen, and a restart is one.
LEMMA OthersMap ==
  ASSUME (\E p \in Approvals : ApprovalLapses(p)) \/ QuotaChanges \/ UNCHANGED vars \/ Restart
  PROVE  [Promise!Next]_(Promise!vars)
<1>1. ASSUME UNCHANGED <<setup, callVars, missionVars, registryVars, holdVars>>
      PROVE  UNCHANGED Promise!vars
  <2>1. UNCHANGED <<setup, pc, req, late, missions, active>>
    BY <1>1 DEF callVars, registryVars, holdVars
  <2>2. UNCHANGED <<Created, Over, ToldOfRows>>
    BY <1>1, RowsStay
  <2>3. Errand' = Errand
    BY <2>1, ErrandsStay
  <2>4. Way' = Way
    BY <2>1 DEF Way
  <2> QED
    BY <2>1, <2>2, <2>3, <2>4 DEF Promise!vars
<1>2. CASE (\E p \in Approvals : ApprovalLapses(p)) \/ QuotaChanges \/ UNCHANGED vars
  <2>1. UNCHANGED <<setup, callVars, missionVars, registryVars, holdVars>>
    BY <1>2 DEF ApprovalLapses, QuotaChanges, vars
  <2> QED
    BY <1>1, <2>1
<1>3. CASE Restart
  <2>1. UNCHANGED <<setup, missionVars>> /\ \A c \in Calls : pc'[c] = "idle"
    BY <1>3 DEF Restart
  <2>2. UNCHANGED <<Created, Over, ToldOfRows>>
    BY <2>1, RowsStay
  <2>3. Way' = [c \in Calls |-> "home"]
    BY <2>1 DEF Way
  <2>4. Errand' = [c \in Calls |-> {}]
    BY <2>1 DEF Errand, Entitled
  <2>5. active' = [a \in Attempts |-> NoCall]
    BY <1>3 DEF Restart
  <2> QED
    BY <2>2, <2>3, <2>4, <2>5 DEF Promise!Next, Promise!Restart, Promise!missionVars
<1> QED
  BY <1>2, <1>3

LEMMA ErrandsInit == Init => StartsAgree /\ Promise!Init
<1> SUFFICES ASSUME Init PROVE StartsAgree /\ Promise!Init
  OBVIOUS
<1>1. StartsAgree
  BY DEF Init, StartsAgree, StartAgrees, Looked, Passed
<1>2. Created = [i \in Ids |-> {}] /\ Over = {} /\ ToldOfRows = [i \in Ids |-> {}]
  BY DEF Init, Created, Over, ToldOfRows
<1>3. Way = [c \in Calls |-> "home"] /\ Errand = [c \in Calls |-> {}]
  BY DEF Init, Way, Errand, Entitled
<1> QED
  BY <1>1, <1>2, <1>3 DEF Init, Promise!Init

LEMMA ErrandsStep ==
  IInv /\ IInv' /\ StartsAgree /\ [Next]_vars =>
    StartsAgree' /\ [Promise!Next]_(Promise!vars)
<1> SUFFICES ASSUME IInv, IInv', StartsAgree, [Next]_vars
             PROVE  StartsAgree' /\ [Promise!Next]_(Promise!vars)
  OBVIOUS
<1>1. ASSUME NEW c \in Calls, CallStep(c)
      PROVE  StartsAgree' /\ [Promise!Next]_(Promise!vars)
  <2>1. StartsAgree'
    BY <1>1, StartsStep DEF IInv
  <2> QED
    BY <1>1, <2>1, CallMaps
<1>2. CASE (\E p \in Approvals : ApprovalLapses(p)) \/ QuotaChanges \/ UNCHANGED vars
  <2>1. UNCHANGED <<setup, pc, req, late, missions>>
    BY <1>2 DEF ApprovalLapses, QuotaChanges, vars, callVars, registryVars
  <2>2. StartsAgree'
    BY <2>1 DEF StartsAgree, StartAgrees, Complete, Entitled, BodyOf, NeedsApproval
  <2> QED
    BY <1>2, <2>2, OthersMap
<1>3. CASE Restart
  <2>1. StartsAgree'
    BY <1>3 DEF Restart, StartsAgree, StartAgrees, Looked, Passed
  <2> QED
    BY <1>3, <2>1, OthersMap
<1> QED
  BY <1>1, <1>2, <1>3 DEF Next, CallStep

\* Jarvis implements Errands: whatever is repeated, interleaved, refused or
\* forgotten, a request has one mission and hears of that one, and an agent is
\* started by the call that holds its attempt, which no other call's refusal
\* takes from it, and which is entitled to it from its budget on.
THEOREM ErrandsKept == Spec => ImplementsErrands
<1>1. Init => StartsAgree /\ Promise!Init
  BY ErrandsInit
<1>2. IInv /\ IInv' /\ StartsAgree /\ [Next]_vars =>
        StartsAgree' /\ [Promise!Next]_(Promise!vars)
  BY ErrandsStep
<1> QED
  BY <1>1, <1>2, JarvisInvariance, PTL DEF Spec, ImplementsErrands, Promise!Spec
=============================================================================
