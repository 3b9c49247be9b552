SPECIFICATION Spec
CONSTANTS
  NoAppService = NoAppService
  Absent = Absent
  DomainNames <- MCDomainNames
  Aliases <- MCAliases
  UserSpecs <- MCInstall
  MaxEdits = 0
  MaxFaults = 2
  MaxRestarts = 1
  MaxStaleReads = 1
INVARIANTS
  TypeOK
  LoggedOnce
  RunsAccountedFor
  QuiescentMeansReconciled
PROPERTIES
  LogAppendOnly
  ImplementsMigration
CHECK_DEADLOCK FALSE
