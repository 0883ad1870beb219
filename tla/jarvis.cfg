\* Two calls at a time, one attempt, one approval, one restart.
CONSTANTS
  r1 = r1
  r2 = r2
  r3 = r3
  hermes = hermes
  admin = admin
  t1 = t1
  t2 = t2
  a1 = a1
  p1 = p1
  c1 = c1
  c2 = c2
  Calls = {c1, c2}
  NoCall = NoCall
  Ids = {r1, r2, r3}
  Actors = {hermes, admin}
  Titles = {t1, t2}
  Attempts = {a1}
  Approvals = {p1}
  NoApproval = NoApproval
  Bindings <- ApprovalFor
  Fences = {0, 1, 2}
  Records = {1, 2}
  NoRequest = NoRequest
  NoAnswer = NoAnswer
  NoMission = NoMission
  NoWorkspace = NoWorkspace
  Setups <- SetupsOfAll
  MaxRestarts = 1
SPECIFICATION Spec
INVARIANT JarvisTypeOK
INVARIANT LeaseGuardsAgent
INVARIANT OneMissionPerRequest
PROPERTY ImplementsErrands
CHECK_DEADLOCK FALSE
