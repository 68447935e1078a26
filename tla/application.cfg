SPECIFICATION AppSpec
CONSTANTS
  Inputs <- MCInputs
  Refused <- MCRefused
  Nested = Nested
  Width = 4
  Chars <- MCChars
  Header <- MCHeader
  Junk <- MCJunk
  Files <- AllFiles
  ExcLimit = 1
  Produced <- MCProduced
  NoFile = NoFile
CHECK_DEADLOCK FALSE
INVARIANTS
  TypeOK
  RowIsItsLine
  EveryLineOnce
  ReadmeExample
  NoFalseAlarm
  StartedAsConfigured
  TransformsInOrder
  WorkersHaveHandles
  
PROPERTIES
  GoodConfigurationStarts
  BadConfigurationStops
