SPECIFICATION FairSpec
CONSTANTS
  Slots = {s1, s2}
  NoSlot = NoSlot
  Offline = Offline
  Online = Online
  Troubles = {"drop", "refuse", "slow", "pa2", "change", "term"}
  MaxTroubles = 2
  MaxArrivals = 2
  Backlog = 1
  Commands = {"preset", "output", "unsupported"}
INVARIANTS
  TypeOK
  CommandInItsSession
  DetailsAreShown
  ExitLeavesOffline
PROPERTIES
  PollReconciles
  StopEnds
  ComesBack
