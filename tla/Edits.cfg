SPECIFICATION Spec
CONSTANTS
  NoAppService = NoAppService
  Absent = Absent
  DomainNames <- MCDomainNames
  Aliases <- MCAliases
  UserSpecs <- MCEdits
  MaxEdits = 1
  MaxFaults = 0
  MaxRestarts = 0
  MaxStaleReads = 1
INVARIANTS
  QuiescentMeansReconciled
PROPERTIES
  SuccessIsTrue
  NoLostEdit
CHECK_DEADLOCK FALSE
