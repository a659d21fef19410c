SPECIFICATION Spec
CONSTANTS
  Task = {t1}
  Plan <- OnePlan
  Agent = {a1, a2}
  Priority = {0, 5}
  MaxConcurrent = 2
  ServiceOps = {"fail", "retry"}
  MaxSubmits = 2
  MaxSlots = 2
  MaxExecs = 2
INVARIANT RunningMapExact
PROPERTIES
  QueueDrains
  ExecutionsEnd
CHECK_DEADLOCK FALSE
