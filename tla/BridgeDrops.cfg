SPECIFICATION Spec
CONSTANTS
  Slots = {s1, s2}
  NoSlot = NoSlot
  Offline = Offline
  Online = Online
  Troubles = {"drop"}
  MaxTroubles = 1
  MaxArrivals = 1
  Backlog = 1
  Commands = {"preset"}
INVARIANT DropsAreTransient
