\* A mission planned twice with the same human merge as its prerequisite.
CONSTANTS
  m1 = m1
  m2 = m2
  h1 = h1
  a1 = a1
  a2 = a2
  a3 = a3
  Missions = {m1, m2}
  Attempts = {a1}
  NoAttempt = NoAttempt
  NoMission = NoMission
  Heads = {h1}
  NoHead = NoHead
  Plans <- RequiresMerge
  MaxPlans = 2
  Kinds = {"fake"}
  Workspaces <- OneWorkspace
  NoWorkspace = NoWorkspace
  Amounts = {1}
  ApprovalChoices = {FALSE}
  ApprovalTypes = {"review"}
  Quota = 2
  LeaseTime = 1
  DeadlineTime = 1
  MaxCodexAttempts = 2
SPECIFICATION Spec
INVARIANT EveryMergeProvable
CHECK_DEADLOCK FALSE
