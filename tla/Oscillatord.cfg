SPECIFICATION FairSpec
CONSTANTS
  MaxQueue = 1
  NbMeasures = 2
  Requests = {"CALIBRATION", "SAVE_EEPROM"}
INVARIANT FreshAfterJump
PROPERTIES CalibrationReachesAlgorithm SignalEndsDaemon
