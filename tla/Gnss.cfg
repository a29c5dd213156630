SPECIFICATION Spec
CONSTANTS
  MaxAge = 3
  PhcErrors = {0, 2}
  Timebases = {"GNSS", "UTC"}
PROPERTIES QErrOfPhase FrozenTimeCaught
CHECK_DEADLOCK FALSE
