CONSTANTS
  Codes = {0, 1}
  MaxRuns = 2
SPECIFICATION Spec
CHECK_DEADLOCK FALSE
INVARIANTS TypeOK TimeoutReaches
PROPERTIES RunsProgram LimitedReturns AlarmEndsWait
