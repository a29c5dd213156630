SPECIFICATION Spec
CONSTANTS
  Width = 4
  MaxFaults = 4
  MaxMoves = 3
INVARIANT ReadingsAreOwn
PROPERTIES CoarseByOne InputsGoOn
CHECK_DEADLOCK FALSE
