SPECIFICATION Spec
CONSTANTS
  HALF = 2
  Offsets <- MCOffsets
  MaxSec = 3
  MaxQueue = 2
INVARIANTS TypeOK MeasurementTrue PhasemeterInv
PROPERTIES PulseUsedOnce ServiceImplemented
CHECK_DEADLOCK FALSE
