SPECIFICATION Spec
CONSTANTS
  PageData = 4
  SpareLength = 1
  PageLength = 5
  PageCount = 2
  ImageLength = 8
  Byte <- MCByte
  Spares <- MCSpares
  NewSpare <- MCNewSpare
  EDC <- MCEDC
  Strings <- MCStrings
  Files <- MCFiles
PROPERTY
  DataFlat
CHECK_DEADLOCK FALSE
