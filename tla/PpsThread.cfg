SPECIFICATION FairSpec
CONSTANTS
  Waves = {"single", "pulse"}
  Width = 100
  FixDelays = {50}
  Steps = {1000}
  FirstSec = 10
  LastSec = 13
  SpinLimit = 3
INVARIANTS SecondRight GoodPulseReported
PROPERTY ThreadEnds
CHECK_DEADLOCK FALSE
