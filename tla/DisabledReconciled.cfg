SPECIFICATION Spec
CONSTANTS
  NoAppService = NoAppService
  Absent = Absent
  DomainNames <- MCDomainNames
  Aliases <- MCAliases
  UserSpecs <- MCSettling
  MaxEdits = 0
  MaxFaults = 0
  MaxRestarts = 1
  MaxStaleReads = 0
INVARIANTS
  OnlyEnabledIsReconciled
CHECK_DEADLOCK FALSE
