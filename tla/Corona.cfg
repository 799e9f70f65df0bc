SPECIFICATION Spec
CONSTANTS
  PageData = 4
  SpareLength = 1
  PageLength = 4
  PageCount = 2
  ImageLength = 12
  Byte <- MCByte
  Spares <- MCSpares
  NewSpare <- MCNewSpare
  EDC <- MCEDC
  Strings <- MCStrings
  Files <- MCFiles
PROPERTY SaveKeepsData
CHECK_DEADLOCK FALSE
