SPECIFICATION Spec
CONSTANTS
  N = 3
  Plans <- SmallPlans
  NumActions <- FewActions
INVARIANTS
  TypeOK
  DependenciesFirst
  OutcomeExact
  ActionsInOrder
  RestartIsFutile
PROPERTY Terminates
CHECK_DEADLOCK FALSE
