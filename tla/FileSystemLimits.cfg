SPECIFICATION Spec
CONSTANTS
  a = a
  long = long
  d0 = d0
  d1 = d1
  d2 = d2
  d3 = d3
  Names <- MCNames
  Stored <- MCStored
  SystemBlocks <- MCSystem
  NoName = NoName
  Erased = Erased
  Empty = Empty
  Torn = Torn
  LilBlockCount = 6
  RootBlock = 2
  ChainLimit = 3
  MaxEntries = 2
  FSOffset = 2
  DeviceBlocks = 7
  Data <- LimitData
  Blocks <- LimitBlocks
PROPERTY LimitsExplained
CHECK_DEADLOCK FALSE
