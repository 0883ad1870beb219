\* Two events and two faults: repeated deliveries, crashes of the router, failed notices.
CONSTANTS
  e1 = e1
  e2 = e2
  t1 = t1
  t2 = t2
  planner = planner
  gateway = gateway
  Events = {e1, e2}
  NoEvent = NoEvent
  Consumers = {planner, gateway}
  NoConsumer = NoConsumer
  TargetOf <- Targets
  Planners = {planner}
  Threads = {t1, t2}
  NoOwner = NoOwner
  Conversations <- Conversed
  MaxDeliveries = 2
  MaxFaults = 2
SPECIFICATION FairSpec
INVARIANT TypeOK
INVARIANT ClosedItemLeavesQueue
INVARIANT OneExecution
INVARIANT OneAgentPerThread
INVARIANT AcceptedIsDurable
INVARIANT GrokSlotIsHeld
PROPERTY EndIsAnnounced
PROPERTY ImplementsHandoff
CHECK_DEADLOCK FALSE
