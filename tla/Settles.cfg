SPECIFICATION Spec
CONSTANTS
  NoAppService = NoAppService
  Absent = Absent
  DomainNames <- MCDomainNames
  Aliases <- MCAliases
  UserSpecs <- MCSettling
  MaxEdits = 1
  MaxFaults = 1
  MaxRestarts = 0
  MaxStaleReads = 0
PROPERTIES
  EventuallyMigrated
  EventuallyQuiet
  EventuallyClean
CHECK_DEADLOCK FALSE
