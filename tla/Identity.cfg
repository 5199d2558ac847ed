SPECIFICATION FairSpec
CONSTANTS
  Units = {a, b}
  Router = router
  NoMac = noMac
  Absent = absent
  NoUnit = noUnit
  Unknown = unknown
  MaxStarts = 2
  MaxMoves = 3
  MaxCommands = 2
  MaxTroubles = 1
INVARIANTS
  TypeOK
  CommandIsVouched
  OpenMeansKnown
  NoStranger
  OneUnit
  AddressOnlyOnce
PROPERTIES
  SavedIdentityKept
  Recovers
CHECK_DEADLOCK FALSE
