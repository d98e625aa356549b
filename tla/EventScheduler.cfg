\* The ranks stop when every event has been popped.
SPECIFICATION MCSpec
CONSTANTS
  N = 3
  Events = {"e1", "e2"}
  Rounds = 2
CHECK_DEADLOCK FALSE
INVARIANT SchedulerExact
PROPERTY AgreedOrders
