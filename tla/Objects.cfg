SPECIFICATION ObjectSpec
CONSTANTS
  NoAppService = NoAppService
  Absent = Absent
  DomainNames <- MCDomainNames
  Aliases <- MCAliases
  Names = {"gramola"}
  Tracked <- MCVolume
  MaxUID = 2
  MaxTouches = 1
  MaxFaults = 1
INVARIANTS
  ObjectTypeOK
  DeploymentsAtRest
PROPERTIES
  SettledObjectsUntouched
  EventuallyAtRest
  EventuallyCollected
CHECK_DEADLOCK FALSE
