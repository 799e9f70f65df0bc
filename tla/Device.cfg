SPECIFICATION Spec
CONSTANTS
  Sizes <- MCSizes
  Pages = 2
  Limit = 2
INVARIANTS
  TypeOK
  AtMostOneTorn
PROPERTIES
  OpenedWhole
  CallsEnd
CHECK_DEADLOCK FALSE
