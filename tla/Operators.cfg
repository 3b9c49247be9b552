SPECIFICATION OperatorsSpec
CONSTANTS
  Processes <- MCProcesses
  Nobody = Nobody
  MaxFaults = 1
  MaxPauses = 1
  MaxStaleReads = 2
  MaxWakes = 1
INVARIANTS
  OperatorsTypeOK
  LoggedOnceByAll
  OneActive
PROPERTIES
  OperatorsImplementMigration
  EventuallyLogged
CHECK_DEADLOCK FALSE
