\* Two missions that compete for one workspace and for the quota; the second may
\* wait for the merge of the first.
CONSTANTS
  m1 = m1
  m2 = m2
  h1 = h1
  a1 = a1
  a2 = a2
  a3 = a3
  Missions = {m1, m2}
  Attempts = {a1, a2}
  NoAttempt = NoAttempt
  NoMission = NoMission
  Heads = {h1}
  NoHead = NoHead
  Plans <- RequiresMerge
  MaxPlans = 1
  Kinds = {"fake"}
  Workspaces <- OneWorkspace
  NoWorkspace = NoWorkspace
  Amounts = {0, 1}
  ApprovalChoices = {FALSE}
  ApprovalTypes = {"review"}
  Quota = 1
  LeaseTime = 1
  DeadlineTime = 1
  MaxCodexAttempts = 2
SYMMETRY Interchangeable
SPECIFICATION Spec
INVARIANT WithinQuota
INVARIANT PrerequisitesStand
PROPERTY ImplementsOneWriter
CHECK_DEADLOCK FALSE
