\* Two mails, a daily limit of one, two requests in flight.
CONSTANTS
  Action = {x1, x2}
  NoAction = NoAction
  Caller = {p1, p2}
  InUse = {"outreach_send"}
  File = {}
  Approver = {}
  ProfileOf <- SameProfile
  Window = 2
  DailyLimit = 1
  MaxClock = 1
SYMMETRY InterchangeableMails
SPECIFICATION Spec
INVARIANT WithinDailyLimit
