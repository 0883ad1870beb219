\* One mission, three generations of one workspace, each reserving the whole quota,
\* with and without the need for approval.
CONSTANTS
  m1 = m1
  m2 = m2
  h1 = h1
  a1 = a1
  a2 = a2
  a3 = a3
  Missions = {m1}
  Attempts = {a1, a2, a3}
  NoAttempt = NoAttempt
  NoMission = NoMission
  Heads = {h1}
  NoHead = NoHead
  Plans <- NoDependencies
  MaxPlans = 1
  Kinds = {"fake", "codex"}
  Workspaces <- OneWorkspace
  NoWorkspace = NoWorkspace
  Amounts = {1}
  ApprovalChoices = {FALSE, TRUE}
  ApprovalTypes = {"execute"}
  Quota = 1
  LeaseTime = 1
  DeadlineTime = 1
  MaxCodexAttempts = 2
SYMMETRY Interchangeable
SPECIFICATION Spec
INVARIANT IInv
INVARIANT HeldUntilStopped
INVARIANT TerminalAtRest
PROPERTY SuccessorWaits
CHECK_DEADLOCK FALSE
