CONSTANTS
  m1 = m1
  m2 = m2
  m3 = m3
  Missions = {m1, m2, m3}
  Attempts = {}
  NoAttempt = NoAttempt
  Heads = {}
  NoHead = NoHead
  Plans <- MCPlans
  MaxPlans = 2
SPECIFICATION StoreSpec
INVARIANT StoreTypeOK
INVARIANT NoMutualWait
INVARIANT WaitsForEveryPlan
CHECK_DEADLOCK FALSE
