SPECIFICATION Spec
CONSTANTS
  Versions <- MCVersions
  MobileTypes <- MCMobileTypes
  Counts <- MCCounts
  Codes <- MCCodes
INVARIANT BigBlocksRecognised
