SPECIFICATION ConfigSpec
CONSTANTS
  MaxKv = 1280
  MaxTry = 2
  Confs <- SomeConfs
  MaxEdits = 3
  MaxFaults = 3
INVARIANT RunsConfigured
PROPERTIES QuietRestart EventuallyRuns
CHECK_DEADLOCK FALSE
