SPECIFICATION ObjectSpec
CONSTANTS
  NoAppService = NoAppService
  Absent = Absent
  DomainNames <- MCDomainNames
  Aliases <- MCAliases
  Names = {"gramola"}
  Tracked <- MCDatabase
  MaxUID = 2
  MaxTouches = 0
  MaxFaults = 0
INVARIANTS
  RecordIsOfThisDatabase
CHECK_DEADLOCK FALSE
