SPECIFICATION Spec
CONSTANTS
  N = 2
  Slots = {1, 2, 3, 4}
  Catalog = {1, 2, 4}
  Allowed = {2, 3, 4}
  RecallTimeout = 2
  Validates = TRUE
  MaxFaults = 2
  Kinds = {"activate", "unmuteAll", "muteAll", "unmuteOne", "muteOne"}
INVARIANTS
  TypeOK
  SuccessIsTrue
  SuccessUnderCheckedSlot
  RollbackIsTrue
  EvidenceOfOneSession
  MutedAcrossRecall
  OffUnderVerifiedSlot
  NothingWritten
  NeverStrays
PROPERTIES
  LateWritesOnlyMute
