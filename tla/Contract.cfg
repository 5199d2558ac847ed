SPECIFICATION FairSpec
CONSTANTS
  N = 2
  Slots = {1, 2, 3}
  Catalog = {1, 2}
  Allowed = {1, 2}
  RecallTimeout = 2
  Validates = TRUE
  MaxFaults = 1
  Kinds = {"activate", "unmuteAll", "muteAll", "unmuteOne", "muteOne"}
PROPERTIES
  KeepsContract
  CallsRunOut
  EveryOperationEnds
