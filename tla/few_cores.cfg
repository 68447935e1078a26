SPECIFICATION AppSpec
CONSTANTS
  Inputs <- FewCores
  Refused <- MCRefused
  Nested = Nested
  Width = 4
  Chars <- MCChars
  Header <- MCHeader
  Junk <- MCJunk
  Files <- AllFiles
  ExcLimit = 1
  Produced <- MCProduced
  NoFile = NoFile
CHECK_DEADLOCK FALSE
INVARIANT CoresLeft
