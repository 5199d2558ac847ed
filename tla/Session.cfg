SPECIFICATION FairSpec
CONSTANTS
  Callers = {a, b}
  NoCaller = NoCaller
  Paths = {p}
  Values = {v0, v1}
  NoPath = NoPath
  NoValue = NoValue
  Script <- MCScript
  MaxFaults = 1
INVARIANTS
  SessionOK
  AnswerIsOwn
  QuietBetweenCalls
  ExpiredMeansUnsent
PROPERTIES
  OrderlyUnitKept
  LockIsReleased
  ReadsAreCurrent
