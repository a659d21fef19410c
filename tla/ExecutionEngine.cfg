SPECIFICATION Spec
CONSTANTS
  Task = {t1, t2}
  Plan <- MixedPlans
  Agent = {a1, a2}
  Priority = {0}
  MaxConcurrent = 2
  ServiceOps = {"cancel"}
  MaxSubmits = 2
  MaxSlots = 2
  MaxExecs = 2
INVARIANTS
  TypeOK
  SlotsExclusive
  FinishedExact
CHECK_DEADLOCK FALSE
