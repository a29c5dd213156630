SPECIFICATION Spec
CONSTANTS
  MaxAge = 2
  PhcErrors = {0}
  Timebases = {"GNSS"}
INVARIANT ValidMeansFix
CHECK_DEADLOCK FALSE
