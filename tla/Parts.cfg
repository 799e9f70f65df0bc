SPECIFICATION Spec
CONSTANTS
  Entry = 4
  Sys = 48
  Slot = 16
  Block = 8
  Consoles <- MCConsoles
  Kits <- MCKits
  CommandLines <- MCCommandLines
INVARIANTS
  TypeOK
  FoundWhereSaved
  Extracted
  CalledDecrypted
  OwnFilesRead
