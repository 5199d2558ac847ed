SPECIFICATION FairSpec
CONSTANTS
  Depth = 2
  MaxTroubles = 3
  Missing = Missing
  Torn = Torn
  Topics = {t1, t2, t3}
  MaxOwned = 2
INVARIANTS
  TypeOK
  OwnershipSurvives
  OnlyCurrentShown
PROPERTIES
  KeepsFile
  CleanupEnds
