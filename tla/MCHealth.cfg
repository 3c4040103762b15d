SPECIFICATION Spec
CONSTANTS
  Request = {r1, r2}
  MaxSick = 1
  None = None
INVARIANTS TypeOK SteadyFailureFound FalseAlarmNeedsOverlap NothingLeftBehind
PROPERTY LeftoverGoes
