SPECIFICATION Spec
CONSTANTS
  PageData = 4
  SpareLength = 1
  PageLength = 5
  PageCount = 2
  ImageLength = 10
  Byte <- MCByte
  Spares <- MCSpares
  NewSpare <- MCNewSpare
  EDC <- MCEDC
  Strings <- MCStrings
  Files <- MCFiles
INVARIANTS
  TypeOK
  CodesRight
PROPERTIES
  DataFlat
  SpareKept
  ReadsBack
  DataNeverOverruns
CHECK_DEADLOCK FALSE
