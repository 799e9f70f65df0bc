SPECIFICATION Spec
CONSTANTS
  a = a
  long = long
  d0 = d0
  d1 = d1
  d2 = d2
  d3 = d3
  Names <- MCNames
  Stored <- MCStored
  SystemBlocks <- MCSystem
  NoName = NoName
  Erased = Erased
  Empty = Empty
  Torn = Torn
  LilBlockCount = 6
  RootBlock = 2
  ChainLimit = 8
  MaxEntries = 2
  FSOffset = 0
  DeviceBlocks = 6
  Data <- MCData
  Blocks <- MCBlocks
INVARIANTS
  TypeOK
  NoCrossLink
  LinksLive
  NoLeak
  SystemBlocksKept
  FaultsExplained
  NamesUnique
PROPERTY FilesIntact
CHECK_DEADLOCK FALSE
