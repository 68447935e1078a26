SPECIFICATION Spec
CONSTANTS
  p1 = p1
  p2 = p2
  ta = ta
  tb = tb
  Processors = {p1, p2}
  TopicOrder <- Order
  AgeTopics = {tb}
  TypedTopics = {ta}
  KnownTopics = {ta}
  NoId = NoId
  QueueLimit = 1
  MaxRows = 2
CHECK_DEADLOCK FALSE
INVARIANT
  OneFrame
