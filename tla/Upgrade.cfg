SPECIFICATION DataSpec
CONSTANTS
  Workers = {w1, w2}
  Ids = {e1}
  Days = {d1, d2}
  Null = Null
  NoRow = NoRow
  MaxApplied = 3
INVARIANTS
  DataTypeOK
  RecordIsTrue
  EveryRowIsMigrated
  SettledDatesStay
PROPERTIES
  EventuallyServed
CHECK_DEADLOCK FALSE
