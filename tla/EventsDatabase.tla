--------------------------- MODULE EventsDatabase ---------------------------
(***************************************************************************)
(* The table `event' of one AppService through its update by               *)
(* db/events-database-update-0.0.2.sql, while the pods of the events       *)
(* service read and write it.  The operator is the abstract one of         *)
(* Migration, which the controller implements; what is added is what the   *)
(* script does to the rows, the rolling update of the Deployment `events'  *)
(* (deployment/events.go), and what both releases of the service store.    *)
(*                                                                         *)
(* Release 0.0.1 keeps the day of an event in the column `date', release   *)
(* 0.0.2 in start_date and end_date, which the script always sets to the   *)
(* same value: here they are the one column "dates".                       *)
(***************************************************************************)
EXTENDS Migration

CONSTANTS
  Ids,          \* primary keys of events
  Days,         \* values of the columns
  Null,         \* the value of a column nobody set
  NoRow,        \* there is no such event
  MaxApplied    \* bound on the runs of the script

VARIABLES
  columns,    \* columns of the table; none when it does not exist
  rows,       \* its rows
  deployed,   \* does the Deployment ask for the image of 0.0.2?
  serving,    \* releases with a ready pod
  \* Accounting.
  written,    \* what 0.0.2 last stored in a row, and whether it was settled
  late        \* rows that 0.0.1 gave their date beside the new columns

tableVars == <<columns, rows>>
serviceVars == <<deployed, serving>>
accountVars == <<written, late>>
dataVars == <<tableVars, serviceVars, accountVars>>
databaseVars == <<migrationVars, dataVars>>

Previous == "0.0.1"
Current == "0.0.2"
Releases == {Previous, Current}

\* The columns a release selects when it is asked for /api/events.
Expects(release) == IF release = Previous THEN {"date"} ELSE {"date", "dates"}

Values == Days \cup {Null}
Row == [date : Values, dates : Values]
Note == [dates : Days, settled : BOOLEAN]

ASSUME NoRowAssumption == NoRow \notin Row \cup Note /\ Null \notin Days

DataTypeOK ==
  /\ MigrationTypeOK
  /\ columns \in SUBSET {"date", "dates"}
  /\ rows \in [Ids -> Row \cup {NoRow}]
  /\ deployed \in BOOLEAN
  /\ serving \in SUBSET Releases
  /\ written \in [Ids -> Note \cup {NoRow}]
  /\ late \in SUBSET Ids

NoRows == [i \in Ids |-> NoRow]

\* A first installation, or the upgrade of one that has events already.
DataInit ==
  /\ MigrationInit
  /\ \/ columns = {} /\ rows = NoRows /\ serving = {}
     \/ /\ columns = Expects(Previous)
        /\ rows \in [Ids -> [date : Days, dates : {Null}] \cup {NoRow}]
        /\ serving = {Previous}
  /\ deployed = FALSE
  /\ written = NoRows /\ late = {}

-----------------------------------------------------------------------------
\* The operator.  A pass applies the Deployment before it runs the script.
Rollout(w) ==
  /\ w \in looking
  /\ deployed' = TRUE
  /\ UNCHANGED <<migrationVars, tableVars, serving, accountVars>>

CreateTable ==
  /\ columns = {}
  /\ columns' = {"date", "dates"}
  /\ UNCHANGED rows

\* Mutant: the loop stores the row where it should store its date.
AlterTableWithRow ==
  /\ columns # {}
  /\ columns' = columns \cup {"dates"}
  /\ rows' = [i \in Ids |-> IF rows[i] = NoRow THEN NoRow
                            ELSE [rows[i] EXCEPT !.dates = rows[i]]]

\* Mutant: the columns are added and no row is migrated.
AddColumnsOnly ==
  /\ columns # {}
  /\ columns' = columns \cup {"dates"}
  /\ UNCHANGED rows

\* ADD COLUMN IF NOT EXISTS, then the loop over all rows, whether or not the
\* columns were there.  ALTER TABLE holds its lock to the end of the statement.
AlterTable ==
  /\ columns # {}
  /\ columns' = columns \cup {"dates"}
  /\ rows' = [i \in Ids |-> IF rows[i] = NoRow THEN NoRow
                            ELSE [rows[i] EXCEPT !.dates = rows[i].date]]

\* The script is one statement: it takes effect as a whole.
Update ==
  /\ CreateTable \/ AlterTable
  /\ late' = {}
  /\ UNCHANGED <<serviceVars, written>>

\* Mutant: the pass waits for the Deployments it has changed.
RunUpdateWhenServing(w) ==
  /\ deployed /\ Current \in serving /\ applied + orphans < MaxApplied
  /\ ApplyScript(w)
  /\ Update

RunUpdate(w) ==
  /\ deployed /\ applied + orphans < MaxApplied
  /\ ApplyScript(w)
  /\ Update

LeaveUpdate(w) ==
  /\ deployed /\ applied + orphans < MaxApplied
  /\ Detach(w)
  /\ UNCHANGED dataVars

\* psql goes on in the pod when its stream has broken (line 435 of the
\* controller) or the operator has died.
UpdateLate == OrphanCommits /\ Update

OtherSteps ==
  /\ \/ \E w \in Workers : Look(w) \/ Record(w) \/ Abandon(w)
     \/ OrphansDie \/ CatchUp \/ Remove
  /\ UNCHANGED dataVars

\* The volume of the database goes with the resource.
Clear ==
  /\ Collect
  /\ columns' = {} /\ rows' = NoRows
  /\ deployed' = FALSE /\ serving' = {}
  /\ written' = NoRows /\ late' = {}

-----------------------------------------------------------------------------
\* A pod of the new release passes its readiness probe, GET /api/events.
BecomeReady ==
  /\ deployed /\ Expects(Current) \subseteq columns
  /\ serving' = serving \cup {Current}
  /\ UNCHANGED <<migrationVars, tableVars, deployed, accountVars>>

\* A rolling update takes the last old pod away once a new one is ready.
Retire ==
  /\ Current \in serving
  /\ serving' = serving \ {Previous}
  /\ UNCHANGED <<migrationVars, tableVars, deployed, accountVars>>

\* The service stores an event, a new one or one that is there.
WithDate(row, day) ==
  IF row = NoRow THEN [date |-> day, dates |-> Null]
                 ELSE [row EXCEPT !.date = day]

WithDates(row, day) ==
  IF row = NoRow THEN [date |-> Null, dates |-> day]
                 ELSE [row EXCEPT !.dates = day]

StoreByPrevious(i, day) ==
  /\ Previous \in serving
  /\ rows' = [rows EXCEPT ![i] = WithDate(@, day)]
  /\ late' = IF "dates" \in columns /\ rows'[i].dates = Null
               THEN late \cup {i} ELSE late
  /\ UNCHANGED <<migrationVars, columns, serviceVars, written>>

\* Everybody who can still come to the script knows that it was run, and no
\* run of it is left over.
Settled == known /\ looking = {} /\ orphans = 0

StoreByCurrent(i, day) ==
  /\ Current \in serving
  /\ rows' = [rows EXCEPT ![i] = WithDates(@, day)]
  /\ written' = [written EXCEPT ![i] = [dates |-> day, settled |-> Settled]]
  /\ UNCHANGED <<migrationVars, columns, serviceVars, late>>

DataNext ==
  \/ \E w \in Workers : Rollout(w) \/ RunUpdate(w) \/ LeaveUpdate(w)
  \/ UpdateLate \/ OtherSteps \/ Clear
  \/ BecomeReady \/ Retire
  \/ \E i \in Ids, day \in Days :
       StoreByPrevious(i, day) \/ StoreByCurrent(i, day)

\* Passes go on until a success is recorded (EventuallyMigrated in
\* AppServiceProperties); a Deployment applied and a script run again and
\* again get through in the end, however many passes fail before they do.  A
\* run that nobody waits for ends, and so does a rollout that can.
DataFairness ==
  /\ \A w \in Workers : /\ WF_databaseVars(Look(w) /\ UNCHANGED dataVars)
                        /\ SF_databaseVars(Rollout(w))
                        /\ SF_databaseVars(RunUpdate(w))
  /\ WF_databaseVars(UpdateLate \/ (OrphansDie /\ UNCHANGED dataVars))
  /\ WF_databaseVars(BecomeReady) /\ WF_databaseVars(Retire)

DataSpec == DataInit /\ [][DataNext]_databaseVars /\ DataFairness

-----------------------------------------------------------------------------
(***************************************************************************)
(* Properties.                                                             *)
(***************************************************************************)
\* The update does not wait for itself: the Deployment is changed before the
\* database (line 138 before 160), the new pods are not ready until the script
\* has run (events.go:175), and the old ones stay until the new ones are ready
\* (304).  Yet in the end 0.0.2 serves, and it alone.
EventuallyServed == <>[]installed => <>[](serving = {Current})

\* A log that mentions the success belongs to a database with the columns of
\* this release, whoever ran the script and whatever was lost on the way.
RecordIsTrue == installed /\ recorded => "dates" \in columns

\* The loop leaves no row behind.  A row with a date and no day in the new
\* columns got its date from 0.0.1 after the last run; one with neither was
\* stored by 0.0.2, and a second run has written its missing date over it.
EveryRowIsMigrated ==
  "dates" \in columns =>
    \A i \in Ids :
      rows[i] # NoRow /\ rows[i].dates = Null =>
        IF rows[i].date # Null THEN i \in late ELSE applied > 1

\* What 0.0.2 stores once everybody knows of the update and no run is left over
\* stays as it stored it: no worker that read an old log comes and runs the
\* script over it.
SettledDatesStay ==
  \A i \in Ids :
    written[i] # NoRow /\ written[i].settled =>
      rows[i] # NoRow /\ rows[i].dates = written[i].dates
=============================================================================
