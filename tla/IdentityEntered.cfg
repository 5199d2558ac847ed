SPECIFICATION Spec
CONSTANTS
  Units = {a, b}
  Router = router
  NoMac = noMac
  Absent = absent
  NoUnit = noUnit
  Unknown = unknown
  MaxStarts = 2
  MaxMoves = 3
  MaxCommands = 2
  MaxTroubles = 1
INVARIANT EnteredMacIsChecked
CHECK_DEADLOCK FALSE
