\* One mission, two generations, every option but dependencies, a clock that runs
\* and a host that answers.
CONSTANTS
  m1 = m1
  m2 = m2
  h1 = h1
  a1 = a1
  a2 = a2
  a3 = a3
  Missions = {m1}
  Attempts = {a1, a2}
  NoAttempt = NoAttempt
  NoMission = NoMission
  Heads = {h1}
  NoHead = NoHead
  Plans <- NoDependencies
  MaxPlans = 1
  Kinds = {"fake", "codex"}
  Workspaces <- OneWorkspace
  NoWorkspace = NoWorkspace
  Amounts = {0, 1}
  ApprovalChoices = {FALSE, TRUE}
  ApprovalTypes = {"execute"}
  Quota = 1
  LeaseTime = 1
  DeadlineTime = 2
  MaxCodexAttempts = 2
SPECIFICATION FairSpec
INVARIANT OneGeneration
INVARIANT LifecycleAgrees
PROPERTY EndIsFinal
PROPERTY NoRevival
PROPERTY EveryGenerationEnds
PROPERTY CancellationConverges
PROPERTY StaleIsReconciled
CHECK_DEADLOCK FALSE
