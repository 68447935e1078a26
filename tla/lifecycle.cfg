SPECIFICATION FairSpec
CONSTANTS
  p1 = p1
  p2 = p2
  dir = dir
  kafka = kafka
  Processors = {p1, p2}
  Pollers = {dir, kafka}
  KafkaPoller = kafka
  None = None
  MaxFiles = 2
CHECK_DEADLOCK FALSE
INVARIANTS
  TypeOK
  NoLostWakeup
  AllLogged
  ProducerOutlivesUse
PROPERTIES
  WorkersEnd
  EventuallyLogged
