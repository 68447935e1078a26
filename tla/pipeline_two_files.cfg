SPECIFICATION FairSpec
CONSTANTS
  c1 = c1
  c2 = c2
  p1 = p1
  p2 = p2
  Contents = {c1, c2}
  Bases = {c1, c2}
  BaseOf <- Unique
  MovedIn = {}
  Unreadable = {c2}
  Overlong = {}
  Procs = {p1}
  NoName = NoName
  Rows = 1
  ExcLimit = 0
  BufEvents = 1
  EventLimit = 4
  TimeToWait = {"endless", "invalid"}
  MaxReads = 0
  MaxRuns = 2
CHECK_DEADLOCK FALSE
INVARIANTS
  NothingOverwritten
  Tracked
PROPERTIES
  EventuallyArchived
  ProcessorsStop
