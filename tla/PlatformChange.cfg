SPECIFICATION Spec
CONSTANTS
  NoAppService = NoAppService
  Absent = Absent
  DomainNames <- MCDomainNames
  Aliases <- MCAliases
  UserSpecs <- MCPlatforms
  MaxEdits = 1
  MaxFaults = 0
  MaxRestarts = 0
  MaxStaleReads = 0
INVARIANTS
  RoutesInsteadOfIngresses
CHECK_DEADLOCK FALSE
