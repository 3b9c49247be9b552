------------------------ MODULE EventsDatabaseProofs ------------------------
(***************************************************************************)
(* For any number of operators, events and days, and however late a run    *)
(* of the script takes effect: a recorded success is true of the database, *)
(* a run leaves no row behind, and what 0.0.2 stored once the update is    *)
(* settled is never replaced by it.                                        *)
(*                                                                         *)
(* The argument for the last: a run comes from a worker that has looked at *)
(* an old log, or from one that has left it behind.  Once nobody is        *)
(* looking, no run is left over and every log that can be read mentions    *)
(* the success, there will be no other run, short of another database.     *)
(***************************************************************************)
EXTENDS EventsDatabase, TLAPS

\* Pods that serve have their columns: no update takes one away.
ServesKnownColumns ==
  \A release \in serving : Expects(release) \subseteq columns

\* Rows are in a table, and a row without a date was not inserted by 0.0.1.
RowsHaveOrigin ==
  \A i \in Ids :
    rows[i] # NoRow =>
      /\ columns # {}
      /\ rows[i].date = Null => "dates" \in columns

\* The columns come from a run of the script.
ColumnsHaveOrigin == "dates" \in columns => applied > 0

\* No update takes the column of 0.0.1 away.
DateStays == columns # {} => "date" \in columns

\* A settled note was taken with the update settled, which it still is.
NotesSettle ==
  \A i \in Ids : written[i] # NoRow /\ written[i].settled => Settled

DataInv ==
  /\ DataTypeOK /\ ServesKnownColumns
  /\ DateStays /\ ColumnsHaveOrigin /\ RowsHaveOrigin /\ EveryRowIsMigrated
  /\ NotesSettle /\ SettledDatesStay

LEMMA DataInitial == DataInit => DataInv
<1> SUFFICES ASSUME DataInit PROVE DataInv
  OBVIOUS
<1>1. /\ MigrationTypeOK
      /\ written = NoRows /\ late = {} /\ deployed = FALSE
  BY DEF DataInit, MigrationInit, MigrationTypeOK
<1>2. \/ columns = {} /\ rows = NoRows /\ serving = {}
      \/ /\ columns = {"date"} /\ serving = {Previous}
         /\ rows \in [Ids -> [date : Days, dates : {Null}] \cup {NoRow}]
  BY DEF DataInit, Expects
<1>3. [date : Days, dates : {Null}] \subseteq Row
  BY DEF Row, Values
<1>4. rows \in [Ids -> Row \cup {NoRow}]
  BY <1>2, <1>3 DEF NoRows
<1>5. DataTypeOK
  BY <1>1, <1>2, <1>4 DEF DataTypeOK, NoRows, Releases
<1>6. ServesKnownColumns
  BY <1>2 DEF ServesKnownColumns, Expects
<1>7. DateStays /\ ColumnsHaveOrigin /\ RowsHaveOrigin
  BY <1>2, NoRowAssumption
     DEF DateStays, ColumnsHaveOrigin, RowsHaveOrigin, NoRows
<1>8. EveryRowIsMigrated
  BY <1>2 DEF EveryRowIsMigrated, NoRows
<1>9. NotesSettle /\ SettledDatesStay
  BY <1>1 DEF NotesSettle, SettledDatesStay, NoRows
<1>10. QED
  BY <1>5, <1>6, <1>7, <1>8, <1>9 DEF DataInv

-----------------------------------------------------------------------------
(***************************************************************************)
(* The operator.                                                           *)
(***************************************************************************)
\* What a step of the operator does to the abstract migration.
LEMMA MigrationSteps ==
  ASSUME MigrationTypeOK,
         \/ \E w \in Workers :
              \/ Look(w) \/ ApplyScript(w) \/ Detach(w)
              \/ Record(w) \/ Abandon(w)
         \/ OrphanCommits \/ OrphansDie
         \/ CatchUp \/ Remove \/ Collect
  PROVE  MigrationTypeOK' /\ (Settled => Settled')
<1>1. ASSUME NEW w \in Workers,
             \/ Look(w) \/ ApplyScript(w) \/ Detach(w)
             \/ Record(w) \/ Abandon(w)
      PROVE  MigrationTypeOK' /\ (Settled => Settled')
  <2>1. CASE Look(w)
    BY <2>1 DEF MigrationTypeOK, Settled, Look
  <2>2. CASE ApplyScript(w)
    BY <2>2 DEF MigrationTypeOK, Settled, ApplyScript
  <2>3. CASE Detach(w)
    <3>1. known' \in BOOLEAN /\ (known => known')
      BY <2>3 DEF Detach, KnownGrows
    <3>2. /\ looking' \subseteq looking /\ looking # {}
          /\ UNCHANGED <<installed, recorded, holding, applied>>
          /\ orphans' = orphans + 1
      BY <2>3 DEF Detach
    <3>3. QED
      BY <3>1, <3>2 DEF MigrationTypeOK, Settled
  <2>4. CASE Record(w) \/ Abandon(w)
    <3>1. known' \in BOOLEAN /\ (known => known')
      BY <2>4 DEF Record, Abandon, KnownGrows
    <3>2. /\ looking' \subseteq looking /\ holding' \subseteq holding
          /\ UNCHANGED <<installed, orphans, applied>>
          /\ recorded' \in {recorded, TRUE}
      BY <2>4 DEF Record, Abandon
    <3>3. QED
      BY <3>1, <3>2 DEF MigrationTypeOK, Settled
  <2>5. QED
    BY <1>1, <2>1, <2>2, <2>3, <2>4
<1>2. ASSUME OrphanCommits \/ OrphansDie \/ CatchUp \/ Remove \/ Collect
      PROVE  MigrationTypeOK' /\ (Settled => Settled')
  <2>1. CASE CatchUp
    <3>1. known' \in BOOLEAN /\ (known => known')
      BY <2>1 DEF CatchUp, KnownGrows
    <3>2. UNCHANGED <<installed, recorded, looking, holding, orphans, applied>>
      BY <2>1 DEF CatchUp
    <3>3. QED
      BY <3>1, <3>2 DEF MigrationTypeOK, Settled
  <2>2. CASE Remove
    BY <2>2 DEF MigrationTypeOK, Settled, Remove
  <2>3. CASE Collect
    BY <2>3 DEF MigrationTypeOK, Settled, Collect
  <2>4. CASE OrphanCommits
    BY <2>4 DEF MigrationTypeOK, Settled, OrphanCommits
  <2>5. CASE OrphansDie
    BY <2>5 DEF MigrationTypeOK, Settled, OrphansDie
  <2>6. QED
    BY <1>2, <2>1, <2>2, <2>3, <2>4, <2>5
<1>3. QED
  BY <1>1, <1>2

\* A step that leaves the database alone.
LEMMA SameData ==
  ASSUME DataInv, MigrationTypeOK', UNCHANGED <<dataVars, applied>>,
         Settled => Settled'
  PROVE  DataInv'
<1>1. DataTypeOK' /\ ServesKnownColumns'
  BY DEF DataInv, DataTypeOK, ServesKnownColumns, dataVars, tableVars,
         serviceVars, accountVars
<1>2. /\ DateStays' /\ ColumnsHaveOrigin' /\ RowsHaveOrigin'
      /\ EveryRowIsMigrated' /\ SettledDatesStay'
  BY DEF DataInv, DateStays, ColumnsHaveOrigin, RowsHaveOrigin,
         EveryRowIsMigrated, SettledDatesStay,
         dataVars, tableVars, serviceVars, accountVars
<1>3. NotesSettle'
  BY DEF DataInv, NotesSettle, dataVars, accountVars
<1>4. QED
  BY <1>1, <1>2, <1>3 DEF DataInv

\* The script, run by a worker that waits for it or left over by one.
LEMMA UpdateKeepsInv ==
  ASSUME DataInv, (\E w \in Workers : ApplyScript(w)) \/ OrphanCommits, Update
  PROVE  DataInv'
<1>1. /\ MigrationTypeOK' /\ ~Settled /\ applied' = applied + 1
      /\ late' = {} /\ UNCHANGED <<deployed, serving, written>>
  <2>1. MigrationTypeOK
    BY DEF DataInv, DataTypeOK
  <2>2. MigrationTypeOK'
    BY <2>1, MigrationSteps
  <2>3. ~Settled /\ applied' = applied + 1
    BY <2>1 DEF MigrationTypeOK, Settled, ApplyScript, OrphanCommits
  <2>4. QED
    BY <2>2, <2>3 DEF Update, serviceVars
<1>2. ASSUME NEW i \in Ids, rows[i] # NoRow
      PROVE  /\ rows[i] \in Row
             /\ [rows[i] EXCEPT !.dates = rows[i].date] \in Row
             /\ [rows[i] EXCEPT !.dates = rows[i].date].date = rows[i].date
             /\ [rows[i] EXCEPT !.dates = rows[i].date].dates = rows[i].date
  BY <1>2 DEF DataInv, DataTypeOK, Row
<1>3. /\ columns \subseteq columns' /\ columns' = {"date", "dates"}
      /\ rows' \in [Ids -> Row \cup {NoRow}]
      /\ \A i \in Ids :
           /\ rows'[i] = NoRow <=> rows[i] = NoRow
           /\ rows[i] # NoRow => /\ rows'[i].date = rows[i].date
                                 /\ rows'[i].dates = rows[i].date
  <2>1. CASE CreateTable
    <3>1. \A i \in Ids : rows[i] = NoRow
      BY <2>1 DEF CreateTable, DataInv, RowsHaveOrigin
    <3>2. QED
      BY <2>1, <3>1 DEF CreateTable, DataInv, DataTypeOK
  <2>2. CASE AlterTable
    <3>1. /\ \A i \in Ids :
               rows'[i] = IF rows[i] = NoRow THEN NoRow
                          ELSE [rows[i] EXCEPT !.dates = rows[i].date]
          /\ DOMAIN rows' = Ids
          /\ rows' = [i \in Ids |-> rows'[i]]
      BY <2>2 DEF AlterTable
    <3>2. \A i \in Ids : rows[i] # NoRow => rows'[i] \in Row
      BY <1>2, <3>1
    <3>3. rows' \in [Ids -> Row \cup {NoRow}]
      BY <3>1, <3>2
    <3>4. columns' = {"date", "dates"} /\ columns \subseteq columns'
      <4>1. "date" \in columns
        BY <2>2 DEF AlterTable, DataInv, DateStays
      <4>2. QED
        BY <2>2, <4>1 DEF AlterTable, DataInv, DataTypeOK
    <3>5. ASSUME NEW i \in Ids, rows[i] # NoRow
          PROVE  /\ rows'[i] # NoRow
                 /\ rows'[i].date = rows[i].date
                 /\ rows'[i].dates = rows[i].date
      BY <1>2, <3>1, <3>2, <3>5, NoRowAssumption
    <3>6. QED
      BY <3>1, <3>3, <3>4, <3>5
  <2>3. QED
    BY <2>1, <2>2 DEF Update
<1>4. DataTypeOK'
  BY <1>1, <1>3 DEF DataInv, DataTypeOK
<1>5. ServesKnownColumns' /\ DateStays' /\ ColumnsHaveOrigin'
  <2>1. applied' > 0
    BY <1>1 DEF DataInv, DataTypeOK, MigrationTypeOK
  <2>2. QED
    BY <1>1, <1>3, <2>1
       DEF DataInv, ServesKnownColumns, DateStays, ColumnsHaveOrigin
<1>6. RowsHaveOrigin'
  BY <1>1, <1>3 DEF DataInv, RowsHaveOrigin
<1>7. EveryRowIsMigrated'
  \* A row that has no date after the run had none before it, hence a column
  \* that an earlier run has made.
  <2>1. ASSUME NEW i \in Ids, rows'[i] # NoRow, rows'[i].dates = Null
        PROVE  rows'[i].date = Null /\ applied' > 1
    <3>1. rows[i] # NoRow /\ rows[i].date = Null /\ rows'[i].date = Null
      BY <1>3, <2>1
    <3>2. applied > 0
      BY <3>1 DEF DataInv, RowsHaveOrigin, ColumnsHaveOrigin
    <3>3. QED
      BY <1>1, <3>1, <3>2 DEF DataInv, DataTypeOK, MigrationTypeOK
  <2>2. QED
    BY <2>1 DEF EveryRowIsMigrated
<1>8. NotesSettle' /\ SettledDatesStay'
  BY <1>1 DEF DataInv, NotesSettle, SettledDatesStay
<1>9. QED
  BY <1>4, <1>5, <1>6, <1>7, <1>8 DEF DataInv

-----------------------------------------------------------------------------
(***************************************************************************)
(* The service.                                                            *)
(***************************************************************************)
LEMMA PodsKeepInv == DataInv /\ (BecomeReady \/ Retire) => DataInv'
<1> SUFFICES ASSUME DataInv, BecomeReady \/ Retire PROVE DataInv'
  OBVIOUS
<1>1. /\ UNCHANGED <<migrationVars, columns, rows, deployed, written, late>>
      /\ serving' \subseteq serving \cup {Current}
      /\ Current \in serving' => Expects(Current) \subseteq columns
  BY DEF BecomeReady, Retire, DataInv, ServesKnownColumns, tableVars,
         accountVars
<1>2. DataTypeOK'
  BY <1>1 DEF DataInv, DataTypeOK, MigrationTypeOK, migrationVars, Releases
<1>3. ServesKnownColumns' /\ DateStays' /\ ColumnsHaveOrigin'
  BY <1>1 DEF DataInv, ServesKnownColumns, DateStays, ColumnsHaveOrigin,
              migrationVars
<1>4. /\ RowsHaveOrigin' /\ EveryRowIsMigrated'
      /\ NotesSettle' /\ SettledDatesStay'
  BY <1>1 DEF DataInv, RowsHaveOrigin, EveryRowIsMigrated, NotesSettle,
              SettledDatesStay, Settled, migrationVars
<1>5. QED
  BY <1>2, <1>3, <1>4 DEF DataInv

\* What a store leaves in a row.
LEMMA StoredRow ==
  ASSUME NEW row \in Row \cup {NoRow}, NEW day \in Days
  PROVE  /\ WithDate(row, day) \in Row
         /\ WithDate(row, day).date = day
         /\ row = NoRow => WithDate(row, day).dates = Null
         /\ row # NoRow => WithDate(row, day).dates = row.dates
         /\ WithDates(row, day) \in Row
         /\ WithDates(row, day).dates = day
         /\ row # NoRow => WithDates(row, day).date = row.date
<1>1. day \in Values /\ Null \in Values
  BY DEF Values
<1>2. CASE row = NoRow
  BY <1>1, <1>2 DEF WithDate, WithDates, Row
<1>3. CASE row # NoRow
  BY <1>1, <1>3 DEF WithDate, WithDates, Row
<1>4. QED
  BY <1>2, <1>3

LEMMA PreviousKeepsInv ==
  ASSUME DataInv, NEW i \in Ids, NEW day \in Days, StoreByPrevious(i, day)
  PROVE  DataInv'
<1>1. /\ UNCHANGED <<migrationVars, columns, deployed, serving, written>>
      /\ Previous \in serving
      /\ rows' = [rows EXCEPT ![i] = WithDate(@, day)]
      /\ late' = IF "dates" \in columns /\ rows'[i].dates = Null
                   THEN late \cup {i} ELSE late
  BY DEF StoreByPrevious, serviceVars
<1>2. rows \in [Ids -> Row \cup {NoRow}] /\ day # Null
  BY NoRowAssumption DEF DataInv, DataTypeOK
<1>3. /\ rows' \in [Ids -> Row \cup {NoRow}]
      /\ rows'[i] = WithDate(rows[i], day)
      /\ \A j \in Ids \ {i} : rows'[j] = rows[j]
  BY <1>1, <1>2, StoredRow
<1>4. rows'[i] # NoRow
  BY <1>2, <1>3, StoredRow, NoRowAssumption
<1>5. "date" \in columns
  BY <1>1 DEF DataInv, ServesKnownColumns, Expects
<1>6. DataTypeOK'
  BY <1>1, <1>3 DEF DataInv, DataTypeOK, MigrationTypeOK, migrationVars
<1>7. /\ ServesKnownColumns' /\ DateStays' /\ ColumnsHaveOrigin'
      /\ NotesSettle'
  BY <1>1 DEF DataInv, ServesKnownColumns, DateStays, ColumnsHaveOrigin,
              NotesSettle, Settled, migrationVars
<1>8. RowsHaveOrigin'
  BY <1>1, <1>2, <1>3, <1>4, <1>5, StoredRow DEF DataInv, RowsHaveOrigin
<1>9. EveryRowIsMigrated'
  BY <1>1, <1>2, <1>3, <1>4, StoredRow
     DEF DataInv, EveryRowIsMigrated, migrationVars
<1>10. SettledDatesStay'
  BY <1>1, <1>2, <1>3, <1>4, StoredRow DEF DataInv, SettledDatesStay
<1>11. QED
  BY <1>6, <1>7, <1>8, <1>9, <1>10 DEF DataInv

LEMMA CurrentKeepsInv ==
  ASSUME DataInv, NEW i \in Ids, NEW day \in Days, StoreByCurrent(i, day)
  PROVE  DataInv'
<1> DEFINE note == [dates |-> day, settled |-> Settled]
<1>1. /\ UNCHANGED <<migrationVars, columns, deployed, serving, late>>
      /\ Current \in serving
      /\ rows' = [rows EXCEPT ![i] = WithDates(@, day)]
      /\ written' = [written EXCEPT ![i] = note]
  BY DEF StoreByCurrent, serviceVars
<1>2. /\ rows \in [Ids -> Row \cup {NoRow}]
      /\ written \in [Ids -> Note \cup {NoRow}]
      /\ day # Null
  BY NoRowAssumption DEF DataInv, DataTypeOK
<1>3. note \in Note /\ note.dates = day /\ note.settled = Settled
  BY DEF Note, Settled, DataInv, DataTypeOK, MigrationTypeOK
<1> HIDE DEF note
<1>4. /\ rows' \in [Ids -> Row \cup {NoRow}]
      /\ rows'[i] = WithDates(rows[i], day)
      /\ \A j \in Ids \ {i} : rows'[j] = rows[j] /\ written'[j] = written[j]
      /\ written' \in [Ids -> Note \cup {NoRow}] /\ written'[i] = note
  BY <1>1, <1>2, <1>3, StoredRow
<1>5. rows'[i] # NoRow /\ rows'[i].dates = day /\ written'[i] # NoRow
  BY <1>2, <1>3, <1>4, StoredRow, NoRowAssumption
<1>6. columns # {} /\ "dates" \in columns
  BY <1>1 DEF DataInv, ServesKnownColumns, Expects, Current, Previous
<1>7. DataTypeOK'
  BY <1>1, <1>4 DEF DataInv, DataTypeOK, MigrationTypeOK, migrationVars
<1>8. ServesKnownColumns' /\ DateStays' /\ ColumnsHaveOrigin'
  BY <1>1 DEF DataInv, ServesKnownColumns, DateStays, ColumnsHaveOrigin,
              migrationVars
<1>9. Settled' <=> Settled
  BY <1>1 DEF Settled, migrationVars
<1>10. NotesSettle'
  BY <1>3, <1>4, <1>9 DEF DataInv, NotesSettle
<1>11. RowsHaveOrigin' /\ EveryRowIsMigrated'
  BY <1>1, <1>2, <1>4, <1>5, <1>6
     DEF DataInv, RowsHaveOrigin, EveryRowIsMigrated, migrationVars
<1>12. SettledDatesStay'
  BY <1>3, <1>4, <1>5 DEF DataInv, SettledDatesStay
<1>13. QED
  BY <1>7, <1>8, <1>10, <1>11, <1>12 DEF DataInv

-----------------------------------------------------------------------------
LEMMA ClearKeepsInv == DataInv /\ Clear => DataInv'
<1> SUFFICES ASSUME DataInv, Clear PROVE DataInv'
  OBVIOUS
<1>1. MigrationTypeOK'
  BY MigrationSteps DEF Clear, DataInv, DataTypeOK
<1>2. /\ columns' = {} /\ rows' = NoRows /\ deployed' = FALSE
      /\ serving' = {} /\ written' = NoRows /\ late' = {}
  BY DEF Clear
<1>3. DataTypeOK'
  BY <1>1, <1>2 DEF DataTypeOK, NoRows
<1>4. /\ ServesKnownColumns' /\ DateStays'
      /\ ColumnsHaveOrigin' /\ RowsHaveOrigin'
  BY <1>2 DEF ServesKnownColumns, DateStays, ColumnsHaveOrigin,
              RowsHaveOrigin, NoRows
<1>5. EveryRowIsMigrated' /\ NotesSettle' /\ SettledDatesStay'
  BY <1>2 DEF EveryRowIsMigrated, NotesSettle, SettledDatesStay, NoRows
<1>6. QED
  BY <1>3, <1>4, <1>5 DEF DataInv

LEMMA DataInvInductive == DataInv /\ [DataNext]_databaseVars => DataInv'
<1> SUFFICES ASSUME DataInv, [DataNext]_databaseVars PROVE DataInv'
  OBVIOUS
<1>1. CASE (\E w \in Workers : RunUpdate(w)) \/ UpdateLate
  BY <1>1, UpdateKeepsInv DEF RunUpdate, UpdateLate
<1>2. CASE \E w \in Workers : Rollout(w)
  <2>1. /\ UNCHANGED <<migrationVars, columns, rows, serving, written, late>>
        /\ deployed' = TRUE
    BY <1>2 DEF Rollout, tableVars, accountVars
  <2>2. DataTypeOK'
    BY <2>1 DEF DataInv, DataTypeOK, MigrationTypeOK, migrationVars
  <2>3. QED
    BY <2>1, <2>2
       DEF DataInv, ServesKnownColumns, DateStays, ColumnsHaveOrigin,
           RowsHaveOrigin, EveryRowIsMigrated, NotesSettle,
           SettledDatesStay, Settled, migrationVars
<1>3. CASE OtherSteps \/ \E w \in Workers : LeaveUpdate(w)
  <2>1. /\ UNCHANGED dataVars
        /\ \/ \E w \in Workers : Look(w) \/ Detach(w) \/ Record(w) \/ Abandon(w)
           \/ OrphansDie \/ CatchUp \/ Remove
    BY <1>3 DEF OtherSteps, LeaveUpdate
  <2>2. MigrationTypeOK' /\ (Settled => Settled')
    BY <2>1, MigrationSteps DEF DataInv, DataTypeOK
  <2>3. applied' = applied
    BY <2>1 DEF Look, Detach, Record, Abandon, OrphansDie, CatchUp, Remove
  <2>4. QED
    BY <2>1, <2>2, <2>3, SameData
<1>4. CASE Clear
  BY <1>4, ClearKeepsInv
<1>5. CASE BecomeReady \/ Retire
  BY <1>5, PodsKeepInv
<1>6. CASE \E i \in Ids, day \in Days :
             StoreByPrevious(i, day) \/ StoreByCurrent(i, day)
  BY <1>6, PreviousKeepsInv, CurrentKeepsInv
<1>7. CASE UNCHANGED databaseVars
  <2>1. /\ UNCHANGED <<dataVars, applied>>
        /\ MigrationTypeOK' /\ (Settled => Settled')
    BY <1>7 DEF databaseVars, migrationVars, Settled, DataInv, DataTypeOK,
                MigrationTypeOK
  <2>2. QED
    BY <2>1, SameData
<1>8. QED
  BY <1>1, <1>2, <1>3, <1>4, <1>5, <1>6, <1>7 DEF DataNext

LEMMA DataInvHolds == DataSpec => []DataInv
  BY DataInitial, DataInvInductive, PTL DEF DataSpec

\* Whoever is about to record a success has seen the columns.
LogIsTrue ==
  installed /\ (recorded \/ holding # {}) => "dates" \in columns

LEMMA LogIsTrueInductive ==
  ASSUME LogIsTrue, [DataNext]_databaseVars
  PROVE  LogIsTrue'
<1>1. CASE (\E w \in Workers : RunUpdate(w)) \/ UpdateLate
  BY <1>1 DEF RunUpdate, UpdateLate, Update, CreateTable, AlterTable, LogIsTrue
<1>2. CASE OtherSteps \/ \E w \in Workers : LeaveUpdate(w)
  <2>1. columns' = columns
    BY <1>2 DEF OtherSteps, LeaveUpdate, dataVars, tableVars
  <2>2. installed' /\ (recorded' \/ holding' # {})
          => installed /\ (recorded \/ holding # {})
    BY <1>2 DEF OtherSteps, LeaveUpdate, Look, Detach, Record, Abandon,
                OrphansDie, CatchUp, Remove
  <2>3. QED
    BY <2>1, <2>2 DEF LogIsTrue
<1>3. CASE Clear
  BY <1>3 DEF Clear, Collect, LogIsTrue
<1>4. CASE \/ \E w \in Workers : Rollout(w)
           \/ BecomeReady \/ Retire
           \/ \E i \in Ids, day \in Days :
                StoreByPrevious(i, day) \/ StoreByCurrent(i, day)
           \/ UNCHANGED databaseVars
  <2>1. UNCHANGED <<installed, recorded, holding, columns>>
    BY <1>4 DEF Rollout, BecomeReady, Retire, StoreByPrevious, StoreByCurrent,
                databaseVars, migrationVars, dataVars, tableVars
  <2>2. QED
    BY <2>1 DEF LogIsTrue
<1>5. QED
  BY <1>1, <1>2, <1>3, <1>4 DEF DataNext

-----------------------------------------------------------------------------
\* The database and its rows are well-formed in every reachable state.
THEOREM DataTypeCorrect == DataSpec => []DataTypeOK
<1>1. DataInv => DataTypeOK
  BY DEF DataInv
<1>2. QED
  BY <1>1, DataInvHolds, PTL

\* "eventsDatabaseUpdated" is true of the database of the same resource, with
\* any number of operators (the log in the status, appservice_types.go:180).
THEOREM RecordIsTrueHolds == DataSpec => []RecordIsTrue
<1>1. DataInit => LogIsTrue
  BY DEF DataInit, MigrationInit, LogIsTrue
<1>2. LogIsTrue => RecordIsTrue
  BY DEF LogIsTrue, RecordIsTrue
<1>3. QED
  BY <1>1, <1>2, LogIsTrueInductive, PTL DEF DataSpec

\* A run of the script leaves no row behind, however late it takes effect: a
\* row without a day in the new columns has a date 0.0.1 gave it after the last
\* run, or no date at all and the database has seen more than one run.
THEOREM EveryRowIsMigratedHolds == DataSpec => []EveryRowIsMigrated
<1>1. DataInv => EveryRowIsMigrated
  BY DEF DataInv
<1>2. QED
  BY <1>1, DataInvHolds, PTL

\* With any number of operators, what 0.0.2 stores once the update is settled,
\* which takes that no run is left over, is never overwritten by the script.
THEOREM SettledDatesStayHolds == DataSpec => []SettledDatesStay
<1>1. DataInv => SettledDatesStay
  BY DEF DataInv
<1>2. QED
  BY <1>1, DataInvHolds, PTL
=============================================================================
