SPECIFICATION ShmSpec
CONSTANTS
  Readers = {r1}
  Consumers = {r1}
  MaxSamples = 3
  MaxRestarts = 1
INVARIANT TornExplained
PROPERTIES ConsumedOnce
CHECK_DEADLOCK FALSE
