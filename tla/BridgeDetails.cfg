SPECIFICATION Spec
CONSTANTS
  Slots = {s1, s2}
  NoSlot = NoSlot
  Offline = Offline
  Online = Online
  Troubles = {"change"}
  MaxTroubles = 2
  MaxArrivals = 1
  Backlog = 1
  Commands = {"output"}
PROPERTY StaleIsNeverShown
