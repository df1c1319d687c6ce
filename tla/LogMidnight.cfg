SPECIFICATION Spec
CONSTANTS
  Callers = {c1, c2}
  MaxDay = 2
  MaxCalls = 3
INVARIANT
  TodayComplete
CHECK_DEADLOCK FALSE
