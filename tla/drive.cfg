\* One Drive batch of two files, two requests in flight.
CONSTANTS
  Action = {x1}
  NoAction = NoAction
  Caller = {p1, p2}
  InUse = {"drive_move_files"}
  File = {f1, f2}
  Approver = {"clerk"}
  ProfileOf <- SameProfile
  Window = 1
  DailyLimit = 1
  MaxClock = 1
SYMMETRY Interchangeable
SPECIFICATION Spec
INVARIANT RollbackCoversMoves
