SPECIFICATION Spec
CONSTANTS
  c1 = c1
  c2 = c2
  p1 = p1
  p2 = p2
  Contents = {c1}
  Bases = {c1, c2}
  BaseOf <- Unique
  MovedIn = {}
  Unreadable = {}
  Overlong = {}
  Procs = {p1, p2}
  NoName = NoName
  Rows = 1
  ExcLimit = 0
  BufEvents = 2
  EventLimit = 4
  TimeToWait = {"short"}
  MaxReads = 0
  MaxRuns = 1
CHECK_DEADLOCK FALSE
INVARIANT
  EveryFileDetected
