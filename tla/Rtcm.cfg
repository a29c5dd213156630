SPECIFICATION Spec
CONSTANTS
  Clients = {c1, c2, c3}
  Fds = {1, 2}
INVARIANT NoneLeftOpen
PROPERTIES OthersLeftAlone HealthyClientKept StopEnds
CHECK_DEADLOCK FALSE
