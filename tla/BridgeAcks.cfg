SPECIFICATION Spec
CONSTANTS
  Slots = {s1, s2}
  NoSlot = NoSlot
  Offline = Offline
  Online = Online
  Troubles = {"change"}
  MaxTroubles = 1
  MaxArrivals = 2
  Backlog = 1
  Commands = {"preset"}
INVARIANT AcksCanArrive
