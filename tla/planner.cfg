\* Two consumers, of which one is a planner; a message arrives before a mission.
CONSTANTS
  e1 = e1
  e2 = e2
  t1 = t1
  t2 = t2
  planner = planner
  gateway = gateway
  Events = {e1, e2}
  NoEvent = NoEvent
  Consumers = {planner, gateway}
  NoConsumer = NoConsumer
  TargetOf <- Targets
  Planners = {planner}
  Threads = {t1, t2}
  NoOwner = NoOwner
  Conversations <- MissionAfterMessage
  MaxDeliveries = 2
  MaxFaults = 2
SPECIFICATION Spec
INVARIANT PlannerTakesV2Only
CHECK_DEADLOCK FALSE
