SPECIFICATION ImageSpec
CONSTANTS
  update1 = update1
  update2 = update2
  other = other
  r1 = r1
  r2 = r2
  r3 = r3
  j1 = j1
  j2 = j2
  j3 = j3
  Names <- MCNames
  Stored <- MCStored
  SystemBlocks <- MCSystem
  NoName = NoName
  Erased = Erased
  Empty = Empty
  Torn = Torn
  LilBlockCount = 7
  RootBlock = 2
  ChainLimit = 9
  MaxEntries = 3
  FSOffset = 0
  DeviceBlocks = 7
  Data <- MCData
  Blocks <- MCBlocks
  PayloadLimit = 2
  PayloadFiles <- MCPayloads
  MapWords = 8
  HeaderRoom = 380
  MobileTypes = {"B", "C"}
  RootPlaces = 2
  PagePlaces = 3
  BlockPages = 32
  UpdateFile <- MCUpdate
  Rests <- MCRests
  JunkOf <- MCJunk
  Consoles <- MCConsoles
INVARIANTS
  ImageTypeOK
  
  
  NewestChosen
  VisibleWhole
CHECK_DEADLOCK FALSE
