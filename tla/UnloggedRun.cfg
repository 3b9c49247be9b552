SPECIFICATION Spec
CONSTANTS
  NoAppService = NoAppService
  Absent = Absent
  DomainNames <- MCDomainNames
  Aliases <- MCAliases
  UserSpecs <- MCInstall
  MaxEdits = 0
  MaxFaults = 1
  MaxRestarts = 0
  MaxStaleReads = 0
INVARIANTS
  FailedRunIsLogged
CHECK_DEADLOCK FALSE
