SPECIFICATION RootSpec
CONSTANTS
  a = a
  other = other
  d1 = d1
  d2 = d2
  Names <- MCNames
  Stored <- MCStored
  SystemBlocks <- MCSystem
  NoName = NoName
  Erased = Erased
  Empty = Empty
  Torn = Torn
  LilBlockCount = 5
  RootBlock = 2
  ChainLimit = 8
  MaxEntries = 2
  FSOffset = 0
  DeviceBlocks = 5
  Data <- MCData
  Blocks <- MCBlocks
INVARIANTS
  RootTypeOK
  NoCrossLink
  LinksLive
  RootSurvives
  SavedHeadsKept
PROPERTY LostOnlyByReuse
CHECK_DEADLOCK FALSE
