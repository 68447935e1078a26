SPECIFICATION Spec
CONSTANTS
  c1 = c1
  c2 = c2
  p1 = p1
  p2 = p2
  Contents = {c1}
  Bases = {c1, c2}
  BaseOf <- Unique
  MovedIn = {c1}
  Unreadable = {}
  Overlong = {c1}
  Procs = {p1, p2}
  NoName = NoName
  Rows = 2
  ExcLimit = 1
  BufEvents = 2
  EventLimit = 4
  TimeToWait = {"short", "invalid"}
  MaxReads = 1
  MaxRuns = 3
SYMMETRY ProcSymmetry
CHECK_DEADLOCK FALSE
INVARIANTS
  TypeOK
  ClaimExclusive
  ClaimInvariant
  ArchivedWasRead
  AttemptsBoundedByRuns
  OneMoreFile
PROPERTIES
  ArchivedIsFinal
  ImplementsLifecycle
