SPECIFICATION Spec
CONSTANTS
  NoAppService = NoAppService
  Absent = Absent
  DomainNames <- MCDomainNames
  Aliases <- MCAliases
  UserSpecs <- MCInstall
  MaxEdits = 0
  MaxFaults = 0
  MaxRestarts = 1
  MaxStaleReads = 0
INVARIANTS
  AppliedAtMostOnce
CHECK_DEADLOCK FALSE
