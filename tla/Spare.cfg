SPECIFICATION ConfigurationSpec
CONSTANTS
  Versions <- MCVersions
  MobileTypes <- MCMobileTypes
  Counts <- MCCounts
  Codes <- MCCodes
  Descriptions <- MCDescriptions
  Dumps <- MCDumps
  ChipWords <- MCChipWords
  FileLimit <- MCFileLimit
  DeviceLimit <- MCDeviceLimit
INVARIANTS
  ConfigurationTypeOK
  ReopensAlike
  ControllerAgrees
PROPERTY FieldsApartWhileOpen
