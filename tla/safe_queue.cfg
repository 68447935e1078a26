SPECIFICATION Spec
CONSTANTS
  t1 = t1
  t2 = t2
  t3 = t3
  a = a
  b = b
  Threads = {t1, t2, t3}
  Items = {a, b}
  None = None
  MaxItems = 3
SYMMETRY Symmetry
INVARIANTS
  TypeOK
  MutualExclusion
  NoLostWakeup
  Conservation
PROPERTY
  ImplementsFifo
