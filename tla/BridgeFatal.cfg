SPECIFICATION Spec
CONSTANTS
  Slots = {s1, s2}
  NoSlot = NoSlot
  Offline = Offline
  Online = Online
  Troubles = {"drop", "refuse"}
  MaxTroubles = 2
  MaxArrivals = 0
  Backlog = 1
  Commands = {"preset"}
PROPERTY FatalIsReported
