\* One action of any intent, two requests in flight.
CONSTANTS
  Action = {x1}
  NoAction = NoAction
  Caller = {p1, p2}
  InUse <- Intents
  File = {f1, f2}
  Approver = {"agent", "clerk"}
  ProfileOf <- SameProfile
  Window = 1
  DailyLimit = 1
  MaxClock = 3
SYMMETRY Interchangeable
SPECIFICATION Spec
INVARIANT EffectNeedsApproval
INVARIANT EffectAtMostOnce
INVARIANT RefusalStands
INVARIANT IInv
PROPERTY DeployOnFreshDecision
PROPERTY SuppressedStaysUnsent
PROPERTY ImplementsConsent
