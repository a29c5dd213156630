SPECIFICATION Sa5xSpec
CONSTANTS
  Interval0 = 1
  Interval1 = 3
  NoFixTimeout = 1
  Day = 3
  MaxFaults = 2
INVARIANT TauOfPhase
PROPERTIES HoldoverKeepsTau DiscipliningReturns
