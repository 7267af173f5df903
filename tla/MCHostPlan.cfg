SPECIFICATION PlanSpec
CONSTANTS
  Ids = {1, 2, 3}
  Priorities = {1, 2}
INVARIANTS PlanIsFirstTopological PlanNeverStalls DependenciesUpFirst
CHECK_DEADLOCK FALSE
