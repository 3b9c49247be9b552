------------------------ MODULE AppServiceLogProofs ------------------------
(***************************************************************************)
(* The log of script runs in the status of an AppService: it holds one     *)
(* success at most, agrees with what the database counts, and only grows.  *)
(*                                                                         *)
(* The argument: as long as the copy of a pass is not outdated, its log is *)
(* the one in the resource, plus the entry of the run this pass made.  So  *)
(* what the guard of the script saw is still so when the status is         *)
(* written, and a copy that is outdated is never written.                  *)
(***************************************************************************)
EXTENDS AppServiceProofs

-----------------------------------------------------------------------------
(***************************************************************************)
(* The log, apart from the system.                                         *)
(***************************************************************************)
Run(outcome) ==
  [script |-> EventsDatabaseUpdateScriptName, status |-> outcome]

\* The check for a previous success is the one for an entry of Successes.
LEMMA WasRunIsSuccess ==
  ASSUME NEW status
  PROVE  CurrentDatabaseScriptWasRun(status) <=> Successes(status) # {}
  BY DEF CurrentDatabaseScriptWasRun, Successes

\* A failed run that is logged changes nothing for the check, a successful one
\* adds one success.
LEMMA AppendRun ==
  ASSUME NEW a \in AppServiceStatus, NEW b \in AppServiceStatus
  PROVE  /\ b.runs = a.runs => Successes(b) = Successes(a)
         /\ b.runs = Append(a.runs, Run("Failed"))
              => Successes(b) = Successes(a)
         /\ b.runs = Append(a.runs, Run("Succeeded"))
              => Successes(b) = Successes(a) \cup {Len(a.runs) + 1}
<1>1. /\ a.runs \in Seq(DatabaseScriptRun)
      /\ b.runs \in Seq(DatabaseScriptRun)
  BY DEF AppServiceStatus
<1>2. ASSUME NEW outcome \in {"Succeeded", "Failed"},
             b.runs = Append(a.runs, Run(outcome))
      PROVE  /\ DOMAIN b.runs = DOMAIN a.runs \cup {Len(a.runs) + 1}
             /\ Len(a.runs) + 1 \notin DOMAIN a.runs
             /\ \A i \in DOMAIN a.runs : b.runs[i] = a.runs[i]
             /\ b.runs[Len(a.runs) + 1] = Run(outcome)
  BY <1>1, <1>2
<1>3. Run("Failed").status # "Succeeded"
  BY DEF Run
<1>4. /\ Run("Succeeded").status = "Succeeded"
      /\ Run("Succeeded").script = EventsDatabaseUpdateScriptName
  BY DEF Run
<1>5. b.runs = a.runs => Successes(b) = Successes(a)
  BY DEF Successes
<1>6. b.runs = Append(a.runs, Run("Failed")) => Successes(b) = Successes(a)
  BY <1>2, <1>3 DEF Successes
<1>7. b.runs = Append(a.runs, Run("Succeeded"))
        => Successes(b) = Successes(a) \cup {Len(a.runs) + 1}
  BY <1>2, <1>4 DEF Successes
<1>8. QED
  BY <1>5, <1>6, <1>7

-----------------------------------------------------------------------------
(***************************************************************************)
(* The inductive invariant.                                                *)
(***************************************************************************)
\* The log a pass holds is the one it read and the run it made, if any.
LogFollows ==
  LET runs == inst.status.runs
  IN  CASE exec = "clean" -> runs = Append(cr.status.runs, Run("Succeeded"))
        [] exec = "failed" -> runs = Append(cr.status.runs, Run("Failed"))
        [] OTHER -> runs = cr.status.runs

\* A copy that is not outdated agrees with the resource: in its log, and in the
\* spec that is about to be initialized.
Synced ==
  inst # NoAppService /\ ~stale =>
    /\ LogFollows
    /\ pc = "update" =>
         ~cr.spec.initialized /\ inst.spec = initialize(cr.spec)

\* The script is run once in a pass, and only where the log has no success.
RunsWhenNeeded ==
  /\ exec # "none" => pc = "record"
  /\ exec = "clean" /\ ~stale => Successes(cr.status) = {}

LogInv ==
  TypeInv /\ Synced /\ RunsWhenNeeded /\ RunsAccountedFor /\ LoggedOnce

LEMMA LogInit == Init => Synced /\ RunsWhenNeeded /\ RunsAccountedFor
                           /\ LoggedOnce
<1> SUFFICES ASSUME Init
             PROVE  Synced /\ RunsWhenNeeded /\ RunsAccountedFor /\ LoggedOnce
  OBVIOUS
<1>1. Synced /\ RunsWhenNeeded
  BY DEF Init, Synced, RunsWhenNeeded
<1>2. cr.status = EmptyStatus \/ cr.status = InheritedStatus
  BY DEF Init
<1>3. Successes(EmptyStatus) = {} /\ Successes(InheritedStatus) = {}
  BY DEF Successes, EmptyStatus, InheritedStatus, PreviousScriptName,
         EventsDatabaseUpdateScriptName
<1>4. Successes(cr.status) = {}
  BY <1>2, <1>3
<1>5. LoggedOnce
  BY <1>4 DEF LoggedOnce
<1>6. ~Recorded
  BY <1>4, WasRunIsSuccess DEF Recorded
<1>7. RunsAccountedFor
  BY <1>6 DEF Init, RunsAccountedFor, Counts
<1>8. QED
  BY <1>1, <1>5, <1>7

\* What the log properties read of the resource.
LEMMA SameLog ==
  ASSUME LogInv,
         cr' # NoAppService => cr # NoAppService /\ cr'.status = cr.status,
         exec' = exec, UNCHANGED <<runCount, lost>>
  PROVE  RunsAccountedFor' /\ LoggedOnce'
  BY DEF LogInv, RunsAccountedFor, LoggedOnce, Recorded, Counts

\* A step that leaves the pass and the resource alone, but for making the copy
\* of the pass outdated, leaves these conjuncts alone.
LEMMA SamePass ==
  ASSUME LogInv, UNCHANGED <<pc, inst, exec>>,
         \/ stale' /\ inst # NoAppService
         \/ inst = NoAppService
         \/ UNCHANGED <<stale, cr>>
  PROVE  Synced' /\ RunsWhenNeeded'
  BY DEF LogInv, Synced, LogFollows, RunsWhenNeeded, TypeInv, Attached

\* A pass that ends, or has yet to read the resource, has nothing to agree with.
LEMMA NoPass ==
  ASSUME inst' = NoAppService, exec' = "none"
  PROVE  Synced' /\ RunsWhenNeeded'
  BY DEF Synced, RunsWhenNeeded

LEMMA EnvironmentKeepsLog ==
  ASSUME LogInv, Environment
  PROVE  Synced' /\ RunsWhenNeeded' /\ RunsAccountedFor' /\ LoggedOnce'
<1>1. CASE Restart
  <2>1. inst' = NoAppService /\ exec' = "none" /\ cr' = cr
        /\ runCount' = runCount
        /\ lost' = IF exec = "clean" THEN lost + 1 ELSE lost
    BY <1>1 DEF Restart, EndPass, LoseRun
  <2>2. RunsAccountedFor'
    BY <2>1 DEF LogInv, TypeInv, TypeOK, RunsAccountedFor, Recorded, Counts
  <2>3. LoggedOnce'
    BY <2>1 DEF LogInv, LoggedOnce
  <2>4. QED
    BY <2>1, <2>2, <2>3, NoPass
<1>2. CASE UserEdits
  <2>1. /\ cr # NoAppService /\ cr' # NoAppService
        /\ cr'.status = cr.status
    <3>1. PICK spec \in UserSpecs :
            cr' = [cr EXCEPT !.spec = spec, !.generation = @ + 1]
      BY <1>2 DEF UserEdits, Write
    <3>2. cr \in AppServices /\ spec \in AppServiceSpec
      BY <1>2, BoundsAssumption
         DEF UserEdits, LogInv, TypeInv, TypeOK, MaybeAppService
    <3>3. cr' \in AppServices /\ cr'.status = cr.status
      BY <3>1, <3>2, ResourceUpdate DEF AppServices
    <3>4. QED
      BY <3>2, <3>3, ResourceUpdate
  <2>2. UNCHANGED <<pc, inst, exec, runCount, lost>>
    BY <1>2 DEF UserEdits, databaseVars
  <2>3. stale' \/ inst = NoAppService
    BY <1>2 DEF UserEdits
  <2>4. QED
    BY <2>1, <2>2, <2>3, SameLog, SamePass
<1>3. CASE UserDeletes
  <2>1. cr' = NoAppService
    BY <1>3 DEF UserDeletes, Write
  <2>2. UNCHANGED <<pc, inst, exec, runCount, lost>>
    BY <1>3 DEF UserDeletes, databaseVars
  <2>3. stale' \/ inst = NoAppService
    BY <1>3 DEF UserDeletes
  <2>4. QED
    BY <2>1, <2>2, <2>3, SameLog, SamePass
<1>4. CASE CollectGarbage
  <2>1. cr = NoAppService /\ UNCHANGED <<cr, pc, inst, exec, stale>>
    BY <1>4 DEF CollectGarbage, crVars, passVars
  <2>2. QED
    BY <2>1, SamePass DEF RunsAccountedFor, LoggedOnce
<1>5. CASE OrphanCommits
  <2>1. /\ UNCHANGED <<cr, passVars>>
        /\ runCount' = runCount + 1 /\ lost' = lost + 1
    BY <1>5 DEF OrphanCommits, crVars
  <2>2. RunsAccountedFor'
    BY <2>1 DEF LogInv, TypeInv, TypeOK, RunsAccountedFor, Recorded, Counts,
                passVars
  <2>3. LoggedOnce'
    BY <2>1 DEF LogInv, LoggedOnce
  <2>4. QED
    BY <2>1, <2>2, <2>3, SamePass DEF passVars
<1>6. ASSUME UNCHANGED <<cr, passVars, runCount, lost>>
      PROVE  Synced' /\ RunsWhenNeeded' /\ RunsAccountedFor' /\ LoggedOnce'
  BY <1>6, SameLog, SamePass DEF passVars
<1>7. QED
  BY <1>1, <1>2, <1>3, <1>4, <1>5, <1>6
     DEF Environment, DeliverAppService, DeliverDeployments, FireTimer,
         PodStarts, PodRecovers, PodFails, OrphanDies, MountSync, crVars,
         databaseVars

LEMMA ReconcileKeepsLog ==
  ASSUME LogInv, Reconcile
  PROVE  Synced' /\ RunsWhenNeeded' /\ RunsAccountedFor' /\ LoggedOnce'
<1>0. pc # "record" => exec = "none"
  BY DEF LogInv, RunsWhenNeeded
<1>1. CASE StartReconcile
  <2>1. /\ UNCHANGED <<cr, inst, stale, exec, runCount, lost>>
        /\ inst = NoAppService
    BY <1>1 DEF StartReconcile, crVars, databaseVars, LogInv, TypeInv, Attached
  <2>2. exec' = "none"
    BY <1>0, <1>1, <2>1 DEF StartReconcile
  <2>3. QED
    BY <2>1, <2>2, SameLog, NoPass
<1>2. CASE GetNotFound \/ GetFails
  <2>1. /\ UNCHANGED <<cr, exec, runCount, lost>>
        /\ inst' = NoAppService /\ exec' = "none"
    BY <1>0, <1>2 DEF GetNotFound, GetFails, crVars, databaseVars, EndPass
  <2>2. QED
    BY <2>1, SameLog, NoPass
<1>3. CASE GetInstance
  <2>1. cache \in AppServices
    BY <1>3 DEF GetInstance, LogInv, TypeInv, TypeOK, MaybeAppService
  <2>2. exec' = "none" /\ UNCHANGED <<cr, exec, runCount, lost>>
    BY <1>0, <1>3 DEF GetInstance, crVars, databaseVars
  <2>3. inst'.status = cache.status
    BY <1>3, <2>1 DEF GetInstance, AppServices
  <2>4. ~stale' => cache = cr
    BY <1>3 DEF GetInstance, LogInv, TypeInv, InformerFollows
  <2>5. pc' = "update" => /\ ~cache.spec.initialized
                          /\ inst'.spec = initialize(cache.spec)
    BY <1>3, <2>1 DEF GetInstance, Return, AppServices
  <2>6. Synced'
    BY <2>2, <2>3, <2>4, <2>5 DEF Synced, LogFollows
  <2>7. RunsWhenNeeded'
    BY <2>2 DEF RunsWhenNeeded
  <2>8. QED
    BY <2>2, <2>6, <2>7, SameLog
<1>4. CASE UpdateInstance
  <2>1. exec = "none" /\ exec' = "none" /\ UNCHANGED <<runCount, lost>>
    BY <1>0, <1>4 DEF UpdateInstance, EndPass, databaseVars
  <2>2. cr' # NoAppService => cr # NoAppService /\ cr'.status = cr.status
    <3>1. CASE UNCHANGED crVars
      BY <3>1 DEF crVars
    <3>2. CASE ~UNCHANGED crVars
      <4>1. ~stale /\ inst # NoAppService
        BY <1>4, <3>2 DEF UpdateInstance, LogInv, TypeInv, Attached
      <4>2. cr # NoAppService /\ cr \in AppServices
        BY <4>1 DEF LogInv, TypeInv, TypeOK, Attached, MaybeAppService
      <4>3. cr' = [cr EXCEPT !.spec = inst.spec, !.generation = @ + 1]
        BY <1>4, <3>2 DEF UpdateInstance, Write
      <4>4. QED
        BY <4>2, <4>3 DEF AppServices
    <3>3. QED
      BY <3>1, <3>2
  <2>3. Synced'
    <3>1. CASE inst' = NoAppService \/ stale'
      BY <3>1 DEF Synced
    <3>2. CASE inst' # NoAppService /\ ~stale'
      <4>1. UNCHANGED <<cr, inst, stale>> /\ pc' = "record"
        BY <1>4, <3>2 DEF UpdateInstance, EndPass, Return, crVars
      <4>2. QED
        BY <2>1, <3>2, <4>1 DEF LogInv, Synced, LogFollows
    <3>3. QED
      BY <3>1, <3>2
  <2>4. RunsWhenNeeded'
    BY <2>1 DEF RunsWhenNeeded
  <2>5. QED
    BY <2>1, <2>2, <2>3, <2>4, SameLog
<1>5. CASE \/ ReconcileEvents \/ ReconcileGateway \/ ReconcileFrontend
           \/ SkipScript \/ NoReadyPod
  <2>1. /\ UNCHANGED <<cr, inst, stale, exec, runCount, lost>>
        /\ exec = "none" /\ pc' # "update"
    BY <1>0, <1>5
       DEF ReconcileEvents, ReconcileGateway, ReconcileFrontend, Apply,
           SkipScript, NoReadyPod, Return, crVars, databaseVars
  <2>2. Synced' /\ RunsWhenNeeded'
    BY <2>1 DEF LogInv, Synced, LogFollows, RunsWhenNeeded
  <2>3. QED
    BY <2>1, <2>2, SameLog
<1>6. ASSUME NEW outcome \in {"Succeeded", "Failed"}, pc = "script",
             ~CurrentDatabaseScriptWasRun(inst.status),
             inst' = [inst EXCEPT !.status = LogRun(@, outcome)],
             exec' = (IF outcome = "Succeeded" THEN "clean" ELSE "failed"),
             pc' = "record", UNCHANGED <<cr, stale>>
      PROVE  Synced' /\ RunsWhenNeeded' /\ exec = "none"
  <2>1. inst \in AppServices /\ inst # NoAppService /\ exec = "none"
    BY <1>0, <1>6, NoAppServiceAssumption
       DEF LogInv, TypeInv, TypeOK, Attached, MaybeAppService
  <2>2. inst.status \in AppServiceStatus
    BY <2>1, ResourceUpdate
  <2>3. inst'.status.runs = Append(inst.status.runs, Run(outcome))
    BY <1>6, <2>1, <2>2, LogRunType DEF AppServices, Run
  <2>4. ~stale => inst.status.runs = cr.status.runs
    BY <2>1 DEF LogInv, Synced, LogFollows
  <2>5. Synced'
    BY <1>6, <2>3, <2>4 DEF Synced, LogFollows
  <2>6. ~stale => Successes(cr.status) = {}
    <3>1. Successes(inst.status) = {}
      BY <1>6, WasRunIsSuccess
    <3>2. QED
      BY <2>4, <3>1 DEF Successes
  <2>7. QED
    BY <1>6, <2>1, <2>5, <2>6 DEF RunsWhenNeeded
<1>7. CASE RunScript
  <2>1. Synced' /\ RunsWhenNeeded' /\ exec = "none"
    BY <1>6, <1>7 DEF RunScript, ScriptNeeded, Return, crVars
  <2>2. /\ cr' = cr /\ exec' = "clean"
        /\ runCount' = runCount + 1 /\ lost' = lost
    BY <1>7 DEF RunScript, crVars
  <2>3. RunsAccountedFor' /\ LoggedOnce'
    BY <2>1, <2>2 DEF LogInv, TypeInv, TypeOK, RunsAccountedFor, LoggedOnce,
                      Recorded, Counts
  <2>4. QED
    BY <2>1, <2>3
<1>8. CASE RunScriptWithSQLError
  <2>1. /\ UNCHANGED <<cr, inst, stale, runCount, lost>>
        /\ exec = "none" /\ exec' = "sqlerror" /\ pc' = "record"
    BY <1>0, <1>8 DEF RunScriptWithSQLError, Return, crVars, databaseVars
  <2>2. Synced' /\ RunsWhenNeeded'
    BY <2>1 DEF LogInv, Synced, LogFollows, RunsWhenNeeded
  <2>3. RunsAccountedFor' /\ LoggedOnce'
    BY <2>1 DEF LogInv, RunsAccountedFor, LoggedOnce, Recorded, Counts
  <2>4. QED
    BY <2>2, <2>3
<1>9. CASE RunScriptFails \/ RunScriptLosesStream
  <2>1. Synced' /\ RunsWhenNeeded' /\ exec = "none"
    BY <1>6, <1>9 DEF RunScriptFails, RunScriptLosesStream, ScriptFails,
                      ScriptNeeded, Return, crVars
  <2>2. /\ cr' = cr /\ exec' = "failed"
        /\ UNCHANGED <<runCount, lost>>
    BY <1>9 DEF RunScriptFails, RunScriptLosesStream, ScriptFails, crVars,
                databaseVars
  <2>3. RunsAccountedFor' /\ LoggedOnce'
    BY <2>1, <2>2 DEF LogInv, TypeInv, TypeOK, RunsAccountedFor, LoggedOnce,
                      Recorded, Counts
  <2>4. QED
    BY <2>1, <2>3
<1>10. CASE RecordStatus
  <2>1. /\ inst' = NoAppService /\ exec' = "none" /\ runCount' = runCount
        /\ inst # NoAppService /\ inst \in AppServices
    BY <1>10 DEF RecordStatus, EndPass, LogInv, TypeInv, TypeOK, Attached,
                 MaybeAppService
  <2>2. CASE UNCHANGED crVars /\ LoseRun
    BY <2>1, <2>2, NoPass
       DEF LogInv, TypeInv, TypeOK, RunsAccountedFor, LoggedOnce, Recorded,
           Counts, LoseRun, crVars
  <2>3. CASE ~stale /\ Write([cr EXCEPT !.status = RecordedStatus])
             /\ lost' = lost
    <3>1. cr # NoAppService /\ cr \in AppServices
      BY <2>1, <2>3 DEF LogInv, TypeInv, TypeOK, Attached, MaybeAppService
    <3>2. /\ inst.status \in AppServiceStatus
          /\ cr.status \in AppServiceStatus
      BY <2>1, <3>1, ResourceUpdate
    <3>3. result \in {"Error", "RequeueEvent", "NoAction"}
      BY <1>10 DEF RecordStatus, LogInv, TypeInv, TypeOK, Attached, Results
    <3>4. /\ RecordedStatus \in AppServiceStatus
          /\ RecordedStatus.runs = inst.status.runs
      BY <3>2, <3>3, RecordedStatusType DEF RecordedStatus
    <3>5. cr'.status = RecordedStatus /\ cr' # NoAppService
      BY <2>3, <3>1, <3>4, ResourceUpdate DEF Write, AppServices
    <3>6. LogFollows
      BY <2>1, <2>3 DEF LogInv, Synced
    <3>7. CASE exec = "clean"
      <4>1. Successes(cr.status) = {}
        BY <2>3, <3>7 DEF LogInv, RunsWhenNeeded
      <4>2. Successes(cr'.status) = {Len(cr.status.runs) + 1}
        <5>1. cr'.status.runs = Append(cr.status.runs, Run("Succeeded"))
          BY <3>4, <3>5, <3>6, <3>7 DEF LogFollows
        <5>2. cr'.status \in AppServiceStatus
          BY <3>4, <3>5
        <5>3. Successes(cr'.status)
                = Successes(cr.status) \cup {Len(cr.status.runs) + 1}
          BY <3>2, <5>1, <5>2, AppendRun
        <5>4. QED
          BY <4>1, <5>3
      <4>3. ~Recorded /\ Recorded'
        BY <4>1, <4>2, WasRunIsSuccess DEF Recorded
      <4>4. RunsAccountedFor'
        BY <2>1, <2>3, <3>1, <3>7, <4>3
           DEF LogInv, TypeInv, TypeOK, RunsAccountedFor, Counts
      <4>5. LoggedOnce'
        BY <4>2 DEF LoggedOnce
      <4>6. QED
        BY <2>1, <4>4, <4>5, NoPass
    <3>8. CASE exec # "clean"
      <4>1. Successes(cr'.status) = Successes(cr.status)
        BY <3>2, <3>4, <3>5, <3>6, <3>8, AppendRun DEF LogFollows
      <4>2. Recorded' <=> Recorded
        BY <4>1, WasRunIsSuccess DEF Recorded
      <4>3. RunsAccountedFor'
        BY <2>1, <2>3, <3>1, <3>8, <4>2
           DEF LogInv, RunsAccountedFor, Counts
      <4>4. LoggedOnce'
        BY <3>1, <4>1 DEF LogInv, LoggedOnce
      <4>5. QED
        BY <2>1, <4>3, <4>4, NoPass
    <3>9. QED
      BY <3>7, <3>8
  <2>4. QED
    BY <1>10, <2>2, <2>3 DEF RecordStatus
<1>11. QED
  BY <1>1, <1>2, <1>3, <1>4, <1>5, <1>7, <1>8, <1>9, <1>10 DEF Reconcile

LEMMA LogInvInductive == LogInv /\ [Next]_vars => LogInv'
<1> SUFFICES ASSUME LogInv, [Next]_vars PROVE LogInv'
  OBVIOUS
<1>1. TypeInv'
  BY TypeNext, FollowsNext, AttachedNext DEF LogInv, TypeInv
<1>2. CASE Next
  BY <1>1, <1>2, EnvironmentKeepsLog, ReconcileKeepsLog DEF Next, LogInv
<1>3. CASE UNCHANGED vars
  <2>1. UNCHANGED <<cr, pc, inst, exec, stale, runCount, lost>>
    BY <1>3 DEF vars, crVars, passVars, databaseVars
  <2>2. QED
    BY <1>1, <2>1, SameLog, SamePass DEF LogInv
<1>4. QED
  BY <1>2, <1>3

LEMMA LogInvHolds == Spec => []LogInv
<1>1. Init => LogInv
  BY TypeInit, LogInit DEF LogInv, TypeInv, Init, InformerFollows, Attached
<1>2. QED
  BY <1>1, LogInvInductive, PTL DEF Spec

\* The script is logged as a success at most once, in whatever order edits,
\* deliveries, faults and restarts come.
THEOREM LoggedOnceHolds == Spec => []LoggedOnce
<1>1. LogInv => LoggedOnce
  BY DEF LogInv
<1>2. QED
  BY <1>1, LogInvHolds, PTL

\* The runs the database counts are those in the log, in the pass under way
\* and those that were lost.
THEOREM RunsAreAccountedFor == Spec => []RunsAccountedFor
<1>1. LogInv => RunsAccountedFor
  BY DEF LogInv
<1>2. QED
  BY <1>1, LogInvHolds, PTL

-----------------------------------------------------------------------------
(***************************************************************************)
(* The controller implements the abstract migration.                       *)
(*                                                                         *)
(* The argument: whatever the informer holds or has still to see ends with *)
(* the resource itself, so a log that mentions a success is known only if  *)
(* the resource has it; and by LogInv a pass whose copy is not outdated    *)
(* has not seen a success that was there, nor missed one that came since.  *)
(***************************************************************************)
MigrationStep == [Abstract!MigrationNext]_Abstract!migrationVars

-----------------------------------------------------------------------------
(***************************************************************************)
(* What can still be read.                                                 *)
(***************************************************************************)
LEMMA KnownIsRecorded ==
  ASSUME TypeInv, Known, Installed
  PROVE  Recorded
<1>1. CASE backlog = <<>>
  BY <1>1 DEF TypeInv, InformerFollows, Known, Mentions, Installed, Recorded
<1>2. CASE backlog # <<>>
  <2>1. Len(backlog) \in DOMAIN backlog
    BY <1>2 DEF TypeInv, TypeOK
  <2>2. QED
    BY <1>2, <2>1
       DEF TypeInv, InformerFollows, Known, Mentions, Installed, Recorded
<1>3. QED
  BY <1>1, <1>2

LEMMA KnownCanGrow ==
  ASSUME LogInv', Known => Known'
  PROVE  Abstract!KnownGrows
<1>1. Known' /\ Installed' => Recorded'
  BY KnownIsRecorded, PTL DEF LogInv
<1>2. Known' \in BOOLEAN
  BY DEF Known, Mentions, CurrentDatabaseScriptWasRun
<1>3. QED
  BY <1>1, <1>2 DEF Abstract!KnownGrows, HasRecord

LEMMA WriteAndKnown ==
  ASSUME TypeOK, NEW resource \in MaybeAppService, Write(resource),
         UNCHANGED cache
  PROVE  Known' <=> Known /\ Mentions(resource)
<1>1. /\ DOMAIN backlog' = DOMAIN backlog \cup {Len(backlog) + 1}
      /\ \A i \in DOMAIN backlog : backlog'[i] = backlog[i]
      /\ backlog'[Len(backlog) + 1] = resource
  BY DEF TypeOK, Write
<1>2. QED
  BY <1>1 DEF Known, Mentions

-----------------------------------------------------------------------------
(***************************************************************************)
(* Steps that record nothing and run nothing: they let the informers get   *)
(* on, or end a pass.                                                      *)
(***************************************************************************)
LEMMA QuietStep ==
  ASSUME LogInv, LogInv', UNCHANGED <<Installed, HasRecord, orphans, runCount>>,
         Known => Known', Looking' => Looking,
         exec' = "clean" => exec = "clean"
  PROVE  MigrationStep
<1>1. ~(Looking /\ exec = "clean")
  BY DEF LogInv, RunsWhenNeeded, Looking
<1>2. Abstract!KnownGrows
  BY KnownCanGrow
<1>3. CASE (Looking' <=> Looking) /\ (exec' = "clean" <=> exec = "clean")
  <2>1. Abstract!CatchUp
    BY <1>2, <1>3 DEF Abstract!CatchUp
  <2>2. QED
    BY <2>1 DEF MigrationStep, Abstract!MigrationNext
<1>4. CASE ~Looking' /\ exec' # "clean" /\ (Looking \/ exec = "clean")
  <2>1. Abstract!Abandon("worker")
    BY <1>1, <1>2, <1>4 DEF Abstract!Abandon
  <2>2. QED
    BY <2>1 DEF MigrationStep, Abstract!MigrationNext
<1>5. QED
  BY <1>1, <1>3, <1>4

\* A step that leaves the resource and the informer alone, ...
LEMMA SameResource ==
  ASSUME LogInv, LogInv', UNCHANGED <<cr, cache, backlog, orphans, runCount>>,
         Looking' => Looking, exec' = "clean" => exec = "clean"
  PROVE  MigrationStep
<1>1. UNCHANGED <<Installed, HasRecord, Known>>
  BY DEF Installed, HasRecord, Recorded, Known, Mentions
<1>2. QED
  BY <1>1, QuietStep

\* ... or writes a version with the same record.
LEMMA SameRecord ==
  ASSUME LogInv, LogInv', NEW resource \in AppServices, Write(resource),
         Installed, Recorded' <=> Recorded,
         UNCHANGED <<cache, orphans, runCount>>,
         Looking' => Looking, exec' = "clean" => exec = "clean"
  PROVE  MigrationStep
<1>1. Installed' /\ cr' = resource /\ resource \in MaybeAppService
  BY NoAppServiceAssumption DEF Write, Installed, MaybeAppService
<1>2. Known => Recorded
  BY KnownIsRecorded DEF LogInv
<1>3. Known => Known'
  BY <1>1, <1>2, WriteAndKnown DEF LogInv, TypeInv, Mentions, Recorded
<1>4. UNCHANGED <<Installed, HasRecord>>
  BY <1>1 DEF HasRecord, Installed
<1>5. QED
  BY <1>3, <1>4, QuietStep

\* A pass leaves a run behind.
LEMMA DetachStep ==
  ASSUME LogInv', Looking, ~Looking', exec # "clean", exec' # "clean",
         orphans' = orphans + 1,
         UNCHANGED <<Installed, HasRecord, runCount>>, Known => Known'
  PROVE  MigrationStep
<1>1. Abstract!KnownGrows
  BY KnownCanGrow
<1>2. Abstract!Detach("worker")
  BY <1>1 DEF Abstract!Detach
<1>3. QED
  BY <1>2 DEF MigrationStep, Abstract!MigrationNext

-----------------------------------------------------------------------------
(***************************************************************************)
(* One case per action.                                                    *)
(***************************************************************************)
LEMMA EnvironmentMigrates ==
  ASSUME LogInv, LogInv', Environment
  PROVE  MigrationStep
<1>1. CASE DeliverAppService
  <2>1. PICK k \in {1, Len(backlog)} :
          /\ cache' = backlog[k]
          /\ backlog' = SubSeq(backlog, k + 1, Len(backlog))
    BY <1>1 DEF DeliverAppService
  <2>2. k \in DOMAIN backlog
    BY <1>1 DEF DeliverAppService, LogInv, TypeInv, TypeOK
  <2>3. \A i \in DOMAIN backlog' : /\ k + i \in DOMAIN backlog
                                   /\ backlog'[i] = backlog[k + i]
    BY <2>1, <2>2 DEF LogInv, TypeInv, TypeOK
  <2>4. Known => Known'
    BY <2>1, <2>2, <2>3 DEF Known, Mentions
  <2>5. UNCHANGED <<cr, pc, inst, exec, orphans, runCount>>
    BY <1>1 DEF DeliverAppService, passVars, databaseVars
  <2>6. QED
    BY <2>4, <2>5, QuietStep
       DEF Installed, HasRecord, Recorded, Looking, ScriptNeeded
<1>2. CASE Restart
  <2>1. /\ UNCHANGED <<cr, runCount>> /\ cache' = NoAppService
        /\ pc' = "idle" /\ exec' = "none"
        /\ backlog' = IF cr = NoAppService THEN <<>> ELSE <<cr>>
    BY <1>2 DEF Restart, EndPass
  <2>2. UNCHANGED <<Installed, HasRecord>>
    BY <2>1 DEF Installed, HasRecord, Recorded
  <2>3. Known => Known'
    <3>1. Known => Mentions(cr)
      BY KnownIsRecorded DEF LogInv, Mentions, Installed, Recorded
    <3>2. Mentions(cr) => Known'
      BY <2>1 DEF Known, Mentions
    <3>3. QED
      BY <3>1, <3>2
  <2>4. CASE UNCHANGED orphans
    BY <2>1, <2>2, <2>3, <2>4, QuietStep DEF Looking
  <2>5. CASE ~UNCHANGED orphans
    <3>1. pc = "script" /\ Looking /\ orphans' = orphans + 1
      BY <1>2, <2>5 DEF Restart, Looking
    <3>2. exec = "none"
      BY <3>1 DEF LogInv, RunsWhenNeeded
    <3>3. QED
      BY <2>1, <2>2, <2>3, <3>1, <3>2, DetachStep DEF Looking
  <2>6. QED
    BY <2>4, <2>5
<1>3. CASE UserEdits
  <2>1. PICK spec \in UserSpecs :
          Write([cr EXCEPT !.spec = spec, !.generation = @ + 1])
    BY <1>3 DEF UserEdits
  <2>2. cr \in AppServices /\ spec \in AppServiceSpec
    BY <1>3, BoundsAssumption
       DEF UserEdits, LogInv, TypeInv, TypeOK, MaybeAppService
  <2> DEFINE edited == [cr EXCEPT !.spec = spec, !.generation = @ + 1]
  <2>3. edited \in AppServices /\ edited.status = cr.status
    <3>1. edited \in AppServices
      BY <2>2, ResourceUpdate
    <3>2. edited.status = cr.status
      BY <2>2 DEF AppServices
    <3>3. QED
      BY <3>1, <3>2
  <2>4. Recorded' <=> Recorded
    BY <2>1, <2>3 DEF Write, Recorded
  <2>5. UNCHANGED <<cache, pc, inst, exec, orphans, runCount>> /\ Installed
    BY <1>3 DEF UserEdits, queueVars, databaseVars, Installed
  <2>6. QED
    BY <2>1, <2>3, <2>4, <2>5, SameRecord DEF Looking, ScriptNeeded
<1>4. CASE UserDeletes
  <2>1. /\ Installed /\ Write(NoAppService)
        /\ UNCHANGED <<cache, pc, inst, exec, orphans, runCount>>
    BY <1>4 DEF UserDeletes, queueVars, databaseVars, Installed
  <2>2. Known' <=> Known
    BY <2>1, WriteAndKnown DEF LogInv, TypeInv, Mentions, MaybeAppService
  <2>3. ~Installed' /\ ~HasRecord'
    BY <2>1 DEF Write, Installed, HasRecord
  <2>4. Abstract!Remove
    BY <2>1, <2>2, <2>3 DEF Abstract!Remove, Looking, ScriptNeeded, Known
  <2>5. QED
    BY <2>4 DEF MigrationStep, Abstract!MigrationNext
<1>5. CASE CollectGarbage
  <2>1. /\ ~Installed /\ orphans' = 0 /\ runCount' = 0
        /\ UNCHANGED <<cr, backlog, cache, pc, inst, exec>>
    BY <1>5 DEF CollectGarbage, Installed, crVars, queueVars, passVars
  <2>2. Abstract!Collect
    BY <2>1 DEF Abstract!Collect, Installed, HasRecord, Recorded, Known,
                Mentions, Looking, ScriptNeeded
  <2>3. QED
    BY <2>2 DEF MigrationStep, Abstract!MigrationNext
<1>6. CASE OrphanCommits \/ OrphanDies \/ PodFails
  <2>1. /\ UNCHANGED <<cr, cache, backlog, pc, inst, exec>>
        /\ orphans \in Nat
    BY <1>6 DEF OrphanCommits, OrphanDies, PodFails, crVars, queueVars,
                passVars, LogInv, TypeInv, TypeOK
  <2>2. UNCHANGED <<Installed, HasRecord, Known, Looking>>
    BY <2>1 DEF Installed, HasRecord, Recorded, Known, Mentions, Looking,
                ScriptNeeded
  <2>3. CASE OrphanCommits
    <3>1. Abstract!OrphanCommits
      BY <2>1, <2>2, <2>3 DEF OrphanCommits, Abstract!OrphanCommits
    <3>2. QED
      BY <3>1 DEF MigrationStep, Abstract!MigrationNext
  <2>4. CASE ~OrphanCommits /\ UNCHANGED orphans
    <3>1. runCount' = runCount
      BY <1>6, <2>4 DEF OrphanDies, PodFails
    <3>2. QED
      BY <2>1, <2>2, <2>4, <3>1, SameResource
  <2>5. CASE ~OrphanCommits /\ ~UNCHANGED orphans
    <3>1. /\ runCount' = runCount
          /\ \E n \in 0..orphans : n < orphans /\ orphans' = n
      BY <1>6, <2>1, <2>5 DEF OrphanDies, PodFails
    <3>2. Abstract!OrphansDie
      BY <2>1, <2>2, <3>1 DEF Abstract!OrphansDie
    <3>3. QED
      BY <3>2 DEF MigrationStep, Abstract!MigrationNext
  <2>6. QED
    BY <2>3, <2>4, <2>5
<1>7. ASSUME \/ DeliverDeployments \/ FireTimer \/ PodStarts \/ PodRecovers
             \/ MountSync
      PROVE  MigrationStep
  <2>1. UNCHANGED <<cr, cache, backlog, orphans, runCount, pc, inst, exec>>
    BY <1>7 DEF DeliverDeployments, FireTimer, PodStarts, PodRecovers,
                MountSync, crVars, queueVars, passVars, databaseVars
  <2>2. QED
    BY <2>1, SameResource DEF Looking, ScriptNeeded
<1>8. QED
  BY <1>1, <1>2, <1>3, <1>4, <1>5, <1>6, <1>7 DEF Environment

LEMMA ReconcileMigrates ==
  ASSUME LogInv, LogInv', Reconcile
  PROVE  MigrationStep
<1>0. pc # "record" => exec = "none"
  BY DEF LogInv, RunsWhenNeeded
<1>1. CASE GetInstance
  <2>1. /\ UNCHANGED <<cr, cache, backlog, orphans, runCount, exec>>
        /\ ~Looking /\ exec = "none" /\ cache # NoAppService
    BY <1>0, <1>1 DEF GetInstance, crVars, queueVars, databaseVars, Looking
  <2>2. CASE ~Looking'
    BY <2>1, <2>2, SameResource
  <2>3. CASE Looking'
    <3>1. inst' = cache
      BY <1>1, <2>3 DEF GetInstance, Looking, Return
    <3>2. ~Known
      BY <2>1, <2>3, <3>1 DEF Looking, ScriptNeeded, Known, Mentions
    <3>3. Abstract!Look("worker")
      BY <2>1, <2>3, <3>2
         DEF Abstract!Look, Installed, HasRecord, Recorded, Known, Mentions
    <3>4. QED
      BY <3>3 DEF MigrationStep, Abstract!MigrationNext
  <2>4. QED
    BY <2>2, <2>3
<1>2. CASE UpdateInstance
  <2>1. /\ pc = "update" /\ pc' \in {"idle", "record"}
        /\ exec = "none" /\ exec' = "none"
        /\ UNCHANGED <<cache, orphans, runCount>>
    BY <1>0, <1>2 DEF UpdateInstance, EndPass, Return, queueVars, databaseVars
  <2>2. CASE UNCHANGED crVars
    BY <2>1, <2>2, SameResource DEF crVars, Looking
  <2>3. CASE /\ ~stale
             /\ Write([cr EXCEPT !.spec = inst.spec, !.generation = @ + 1])
    <3>1. Installed /\ cr \in AppServices /\ inst \in AppServices
      BY <2>1, <2>3 DEF LogInv, TypeInv, TypeOK, Attached, MaybeAppService,
                        Installed
    <3> DEFINE initialized ==
          [cr EXCEPT !.spec = inst.spec, !.generation = @ + 1]
    <3>2. initialized \in AppServices
      BY <3>1, ResourceUpdate
    <3>3. initialized.status = cr.status
      BY <3>1 DEF AppServices
    <3>4. Recorded' <=> Recorded
      BY <2>3, <3>3 DEF Write, Recorded
    <3>5. QED
      BY <2>1, <2>3, <3>1, <3>2, <3>4, SameRecord DEF Looking
  <2>4. QED
    BY <1>2, <2>2, <2>3 DEF UpdateInstance
<1>3. CASE RunScript
  <2>1. /\ Looking /\ ~Looking' /\ exec = "none" /\ exec' = "clean"
        /\ runCount' = runCount + 1
        /\ UNCHANGED <<cr, cache, backlog, orphans>>
    BY <1>0, <1>3 DEF RunScript, Return, Looking, crVars, queueVars
  <2>2. Abstract!ApplyScript("worker")
    BY <2>1 DEF Abstract!ApplyScript, Installed, HasRecord, Recorded, Known,
                Mentions
  <2>3. QED
    BY <2>2 DEF MigrationStep, Abstract!MigrationNext
<1>4. CASE RunScriptLosesStream
  <2>1. /\ Looking /\ ~Looking' /\ exec = "none" /\ exec' = "failed"
        /\ orphans' = orphans + 1
        /\ UNCHANGED <<cr, cache, backlog, runCount>>
    BY <1>0, <1>4
       DEF RunScriptLosesStream, ScriptFails, Return, Looking, crVars,
           queueVars
  <2>2. UNCHANGED <<Installed, HasRecord, Known>>
    BY <2>1 DEF Installed, HasRecord, Recorded, Known, Mentions
  <2>3. QED
    BY <2>1, <2>2, DetachStep
<1>5. CASE RecordStatus
  <2>1. /\ pc = "record" /\ pc' = "idle" /\ exec' = "none"
        /\ UNCHANGED <<cache, orphans, runCount>> /\ ~Looking /\ ~Looking'
    BY <1>5 DEF RecordStatus, EndPass, Looking
  <2>2. CASE UNCHANGED crVars
    BY <2>1, <2>2, SameResource DEF crVars
  <2>3. CASE ~stale /\ Write([cr EXCEPT !.status = RecordedStatus])
    <3> DEFINE reported == [cr EXCEPT !.status = RecordedStatus]
    <3>1. /\ Installed /\ cr \in AppServices /\ inst \in AppServices
          /\ result \in {"Error", "RequeueEvent", "NoAction"}
      BY <2>1, <2>3 DEF LogInv, TypeInv, TypeOK, Attached, MaybeAppService,
                        Installed, Results
    <3>2. /\ RecordedStatus \in AppServiceStatus
          /\ RecordedStatus.runs = inst.status.runs
      BY <3>1, ResourceUpdate, RecordedStatusType DEF RecordedStatus
    <3>3. reported \in AppServices /\ reported.status = RecordedStatus
      <4>1. reported \in AppServices
        BY <3>1, <3>2, ResourceUpdate
      <4>2. reported.status = RecordedStatus
        BY <3>1 DEF AppServices
      <4>3. QED
        BY <4>1, <4>2
    <3>4. cr' = reported /\ cr.status \in AppServiceStatus
      BY <2>3, <3>1, ResourceUpdate DEF Write
    <3>5. LogFollows
      BY <2>3, <3>1, NoAppServiceAssumption DEF LogInv, Synced
    <3>6. CASE exec # "clean"
      <4>1. Successes(cr'.status) = Successes(cr.status)
        BY <3>2, <3>3, <3>4, <3>5, <3>6, AppendRun DEF LogFollows
      <4>2. Recorded' <=> Recorded
        BY <4>1, WasRunIsSuccess DEF Recorded
      <4>3. QED
        BY <2>1, <2>3, <3>1, <3>3, <4>2, SameRecord
    <3>7. CASE exec = "clean"
      <4>1. Successes(cr.status) = {}
        BY <2>3, <3>7 DEF LogInv, RunsWhenNeeded
      <4>2. Successes(cr'.status) # {}
        <5>1. cr'.status.runs = Append(cr.status.runs, Run("Succeeded"))
          BY <3>2, <3>3, <3>4, <3>5, <3>7 DEF LogFollows
        <5>2. cr'.status \in AppServiceStatus
          BY <3>2, <3>3, <3>4
        <5>3. QED
          BY <3>4, <5>1, <5>2, AppendRun
      <4>3. ~Recorded /\ Recorded'
        BY <4>1, <4>2, WasRunIsSuccess DEF Recorded
      <4>4. Installed' /\ ~HasRecord /\ HasRecord'
        BY <3>3, <3>4, <4>3, NoAppServiceAssumption DEF Installed, HasRecord
      <4>5. Abstract!KnownGrows
        <5>1. ~Known
          BY <3>1, <4>3, KnownIsRecorded DEF LogInv
        <5>2. QED
          BY <5>1, KnownCanGrow
      <4>6. Abstract!Record("worker")
        BY <2>1, <3>1, <3>7, <4>4, <4>5 DEF Abstract!Record
      <4>7. QED
        BY <4>6 DEF MigrationStep, Abstract!MigrationNext
    <3>8. QED
      BY <3>6, <3>7
  <2>4. QED
    BY <1>5, <2>2, <2>3 DEF RecordStatus
<1>6. ASSUME \/ StartReconcile \/ GetNotFound \/ GetFails
             \/ ReconcileEvents \/ ReconcileGateway \/ ReconcileFrontend
             \/ SkipScript \/ NoReadyPod \/ RunScriptWithSQLError
             \/ RunScriptFails
      PROVE  MigrationStep
  <2>1. /\ UNCHANGED <<cr, cache, backlog, orphans, runCount>>
        /\ Looking' => Looking
        /\ exec' # "clean"
    BY <1>0, <1>6
       DEF StartReconcile, GetNotFound, GetFails, ReconcileEvents,
           ReconcileGateway, ReconcileFrontend, Apply, SkipScript, NoReadyPod,
           RunScriptWithSQLError, RunScriptFails, ScriptFails, EndPass,
           Return, Looking, ScriptNeeded, crVars, queueVars, databaseVars
  <2>2. QED
    BY <2>1, SameResource
<1>7. QED
  BY <1>1, <1>2, <1>3, <1>4, <1>5, <1>6 DEF Reconcile

-----------------------------------------------------------------------------
LEMMA InitMigrates == Init => Abstract!MigrationInit
<1> SUFFICES ASSUME Init PROVE Abstract!MigrationInit
  OBVIOUS
<1>1. cr \in AppServices
  BY InitResource
<1>2. ~Recorded
  BY DEF Init, Recorded, CurrentDatabaseScriptWasRun, EmptyStatus,
         InheritedStatus, PreviousScriptName, EventsDatabaseUpdateScriptName
<1>3. Installed /\ ~HasRecord
  BY <1>1, <1>2, NoAppServiceAssumption DEF Installed, HasRecord
<1>4. ~Known
  BY <1>2, <1>3 DEF Init, Known, Mentions, Recorded, Installed
<1>5. ~Looking /\ exec = "none" /\ orphans = 0 /\ runCount = 0
  BY DEF Init, Looking
<1>6. QED
  BY <1>3, <1>4, <1>5 DEF Abstract!MigrationInit

\* Every behaviour of the controller is one of the abstract migration
\* (appservice_controller.go, 156 to 192): no success is recorded before the
\* script took effect, none is taken back, and no pass that could know of it
\* runs the script again.
THEOREM MigrationImplemented == Spec => ImplementsMigration
<1>1. LogInv /\ LogInv' /\ [Next]_vars => MigrationStep
  <2> SUFFICES ASSUME LogInv, LogInv', [Next]_vars PROVE MigrationStep
    OBVIOUS
  <2>1. CASE Next
    BY <2>1, EnvironmentMigrates, ReconcileMigrates DEF Next
  <2>2. CASE UNCHANGED vars
    BY <2>2, SameResource
       DEF vars, crVars, queueVars, passVars, databaseVars, Looking,
           ScriptNeeded
  <2>3. QED
    BY <2>1, <2>2
<1>2. QED
  BY <1>1, InitMigrates, LogInvHolds, PTL
     DEF Spec, ImplementsMigration, Abstract!MigrationSpec, MigrationStep
=============================================================================
