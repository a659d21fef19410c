SPECIFICATION Spec
CONSTANTS
  Client = {c1, c2}
  Task = {t1}
  Plan <- ChainPlan
  MaxRetries = 1
  MaxStarts = 2
INVARIANTS
  TypeOK
  RecordsConsistent
  NoFalseDeadlock
PROPERTIES
  ImplementsLifecycle
  RunsEnd
CHECK_DEADLOCK FALSE
