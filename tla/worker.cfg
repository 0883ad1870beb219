\* One mission, one Codex attempt and the host it runs on.
CONSTANTS
  m1 = m1
  h1 = h1
  a1 = a1
  Missions = {m1}
  Attempts = {a1}
  NoAttempt = NoAttempt
  NoMission = NoMission
  Heads = {h1}
  NoHead = NoHead
  Plans <- NoDependencies
  MaxPlans = 1
  Kinds = {"codex"}
  Workspaces <- OneWorkspace
  NoWorkspace = NoWorkspace
  Amounts = {1}
  ApprovalChoices = {TRUE}
  ApprovalTypes = {"execute"}
  Quota = 1
  LeaseTime = 2
  DeadlineTime = 3
  MaxCodexAttempts = 1
SPECIFICATION FairWorkerSpec
INVARIANT WorkerTypeOK
INVARIANT StopProofIsTrue
INVARIANT RunningModelIsWatched
PROPERTY EveryModelEnds
CHECK_DEADLOCK FALSE
