SPECIFICATION Spec
CONSTANTS
  Savers = {s1, s2}
  MaxGen = 1
  MaxBoots = 2
INVARIANTS TypeOK EepromInv OneGeneration FinalParametersStored RefusalExplained
PROPERTIES NeverOlder CalibrationSavedFirst
CHECK_DEADLOCK FALSE
SYMMETRY SaverSymmetry
