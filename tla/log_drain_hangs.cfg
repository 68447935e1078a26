SPECIFICATION FairSpec
CONSTANTS
  p1 = p1
  p2 = p2
  dir = dir
  kafka = kafka
  Processors = {p1}
  Pollers = {dir, kafka}
  KafkaPoller = kafka
  None = None
  MaxFiles = 1
CHECK_DEADLOCK FALSE
PROPERTY
  LogProcessorEnds
