------------------------ MODULE AppServiceProperties ------------------------
(***************************************************************************)
(* What the AppService controller promises, and what its comments and      *)
(* guides say of it that it does not keep.                                 *)
(***************************************************************************)
EXTENDS AppServiceController

(***************************************************************************)
(* Safety.                                                                 *)
(***************************************************************************)
Recorded == CurrentDatabaseScriptWasRun(cr.status)

Successes(status) ==
  {i \in DOMAIN status.runs :
     /\ status.runs[i].script = EventsDatabaseUpdateScriptName
     /\ status.runs[i].status = "Succeeded"}

\* The log in the status holds at most one success of the current script: the
\* check that guards the update (line 160) reads a copy of the log that may be
\* outdated, and only the optimistic lock of the status write keeps a second
\* success out.
LoggedOnce ==
  cr # NoAppService =>
    \A i, j \in Successes(cr.status) : i = j

\* What the database counts, what the log says and what was forgotten agree:
\* each run of the script that took effect is in the log, in the hands of the
\* pass under way, or was lost to a conflict or a failed write, or to a broken
\* stream or a crash that it outlived.  No run is logged that did not happen.
Counts(b) == IF b THEN 1 ELSE 0

RunsAccountedFor ==
  cr # NoAppService =>
    runCount = Counts(Recorded) + lost + Counts(exec = "clean")

\* Nothing is left that would start another pass.
Quiescent ==
  /\ pc = "idle" /\ ~dirty /\ ~delayed
  /\ backlog = <<>> /\ ~depEvent

\* When nothing will start another pass, an enabled resource has been
\* reconciled in full: no fault, edit or restart, at whatever point of a pass,
\* leaves it half done with nobody to come back to it.
UpToDate(o) ==
  /\ objs[o] # Absent
  /\ o \in PatchedDeployments =>
       objs[o].image = Version /\ objs[o].replicas = 2

QuiescentMeansReconciled ==
  Quiescent /\ cr # NoAppService /\ cr.spec.enabled =>
    /\ cr.spec.initialized /\ isValid(cr.spec)
    /\ \A o \in ObjectsOf(cr.spec) : UpToDate(o)
    /\ Recorded
    /\ cr.status.status = "True" /\ cr.status.lastAction = "NoAction"

\* A status that says True and NoAction is written only when it is true of the
\* spec it goes with: the resource is the valid, initialized one the pass
\* worked on, its objects exist and the script has run.
ReportsSuccess ==
  /\ pc = "record" /\ result = "NoAction"
  /\ backlog' # backlog /\ pc' = "idle"
  /\ budget'.restarts = budget.restarts

SuccessIsTrue ==
  [][ReportsSuccess =>
       /\ cr'.spec.initialized /\ isValid(cr'.spec)
       /\ \A o \in ObjectsOf(cr'.spec) : objs[o] # Absent
       /\ CurrentDatabaseScriptWasRun(cr'.status)]_vars

\* The operator writes the spec only to initialize the one that is there: an
\* edit of the user that lands between the read and the write is not undone.
NoLostEdit ==
  [][/\ cr # NoAppService /\ cr' # NoAppService
     /\ cr'.spec # cr.spec
     /\ budget'.edits = budget.edits
     => ~cr.spec.initialized /\ cr'.spec = initialize(cr.spec)]_vars

\* The log of script runs only grows at its end, whoever writes the status.
LogAppendOnly ==
  [][cr # NoAppService /\ cr' # NoAppService =>
       /\ Len(cr.status.runs) <= Len(cr'.status.runs)
       /\ SubSeq(cr'.status.runs, 1, Len(cr.status.runs))
            = cr.status.runs]_vars

(***************************************************************************)
(* The abstract migration.  The one worker of this operator looks at the   *)
(* log when a pass starts with a copy of the resource that mentions no     *)
(* success; what can still be read is what the informer holds or has still *)
(* to see.                                                                 *)
(***************************************************************************)
Mentions(resource) ==
  resource # NoAppService => CurrentDatabaseScriptWasRun(resource.status)

Installed == cr # NoAppService
HasRecord == Installed /\ Recorded
Known == Mentions(cache) /\ \A i \in DOMAIN backlog : Mentions(backlog[i])

Looking ==
  /\ pc \in {"events", "gateway", "frontend", "script"}
  /\ ScriptNeeded

Abstract == INSTANCE Migration WITH
  Workers <- {"worker"},
  installed <- Installed, recorded <- HasRecord, known <- Known,
  looking <- IF Looking THEN {"worker"} ELSE {},
  holding <- IF exec = "clean" THEN {"worker"} ELSE {},
  orphans <- orphans, applied <- runCount

\* The controller does what the abstract migration allows: it records a success
\* only after the script took effect, once, and never takes it back, and it
\* does not run the script in a pass that could have known of the record -
\* through stale reads, conflicts, lost writes, edits and restarts.
ImplementsMigration == Abstract!MigrationSpec

(***************************************************************************)
(* Liveness.                                                               *)
(***************************************************************************)
\* A resource the operator can deploy.
Deployable ==
  /\ cr # NoAppService
  /\ cr.spec.enabled /\ isValid(cr.spec)
  /\ LET spec == IF cr.spec.initialized THEN cr.spec ELSE initialize(cr.spec)
     IN  \A o \in ObjectsOf(spec) : ~Rejected(o, spec)

\* If the user settles on such a resource, its database is migrated and the
\* log says so.
EventuallyMigrated ==
  <>[]Deployable => <>[](cr # NoAppService /\ Recorded)

\* ... and the operator comes to rest: its own writes do not wake it for ever.
EventuallyQuiet == <>[]Deployable => <>[]Quiescent

\* After the resource is deleted the operator comes to rest too, and nothing
\* that a pass created meanwhile stays behind.
EventuallyClean ==
  <>[](cr = NoAppService) =>
    <>[](Quiescent /\ \A o \in Objects : objs[o] = Absent)

(***************************************************************************)
(* What the code does not live up to.                                      *)
(***************************************************************************)
\* appservice_controller.go:159, "Update only if not applied before with
\* success": the script takes effect at most once.
AppliedAtMostOnce == runCount <= 1

\* appservice_types.go:163, "DatabaseScriptRun logs script run and status":
\* when a run ends in an SQL error, the pass has logged it as failed.
FailedRunIsLogged ==
  pc = "record" /\ exec = "sqlerror" =>
    /\ inst.status.runs # <<>>
    /\ inst.status.runs[Len(inst.status.runs)].status = "Failed"
    /\ inst.status.eventsDatabaseUpdated = "Failed"

\* appservice_types.go:40, "Flags if the the AppService object is enabled or
\* not": the objects of a resource that is not enabled are not applied.
OnlyEnabledIsReconciled ==
  pc \in {"events", "gateway", "frontend", "script"} => inst.spec.enabled

\* part-2-1.md:380, "if OpenShift then Routes will be created instead": once at
\* rest, a resource has either ingresses or routes.
RoutesInsteadOfIngresses ==
  Quiescent /\ cr # NoAppService /\ cr.spec.enabled =>
    \A o \in (Ingresses \cup Routes) \ ObjectsOf(cr.spec) :
      objs[o] = Absent
=============================================================================
