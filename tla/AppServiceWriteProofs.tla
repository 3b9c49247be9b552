----------------------- MODULE AppServiceWriteProofs -----------------------
(***************************************************************************)
(* What the operator's writes of an AppService may do: undo no edit of the *)
(* user, keep the log, and report a success only where there is one.       *)
(*                                                                         *)
(* The argument: only two actions of a pass write the resource, each only  *)
(* while the copy of the pass is not outdated, and then that copy agrees   *)
(* with the resource in what the write carries over.                       *)
(***************************************************************************)
EXTENDS AppServiceLogProofs, SequenceTheorems

-----------------------------------------------------------------------------
(***************************************************************************)
(* The three ways in which a resource becomes another version of itself.   *)
(***************************************************************************)
EditedByUser ==
  /\ budget'.edits # budget.edits
  /\ cr'.status = cr.status

InitializedByOperator ==
  /\ ~cr.spec.initialized
  /\ cr'.spec = initialize(cr.spec)
  /\ cr'.status = cr.status

ReportedByOperator ==
  /\ ~stale /\ inst # NoAppService
  /\ cr'.spec = cr.spec
  /\ cr'.status = RecordedStatus

\* A resource that exists and goes on existing is left alone or replaced by
\* its user, by UpdateInstance or by RecordStatus.
LEMMA WritesOfResource ==
  ASSUME LogInv, [Next]_vars, cr # NoAppService, cr' # NoAppService
  PROVE  \/ cr' = cr
         \/ EditedByUser \/ InitializedByOperator
         \/ RecordStatus /\ ReportedByOperator
<1>0. cr \in AppServices /\ cr.status \in AppServiceStatus
  BY ResourceUpdate DEF LogInv, TypeInv, TypeOK, MaybeAppService
<1>1. CASE UserEdits
  <2>1. PICK spec \in UserSpecs :
          cr' = [cr EXCEPT !.spec = spec, !.generation = @ + 1]
    BY <1>1 DEF UserEdits, Write
  <2>2. cr'.status = cr.status
    BY <1>0, <2>1 DEF AppServices
  <2>3. budget'.edits # budget.edits
    BY <1>1 DEF UserEdits, Spend, LogInv, TypeInv, TypeOK, Budgets
  <2>4. QED
    BY <2>2, <2>3 DEF EditedByUser
<1>2. CASE UserDeletes
  BY <1>2 DEF UserDeletes, Write
<1>3. CASE UpdateInstance
  <2>1. CASE UNCHANGED crVars
    BY <2>1 DEF crVars
  <2>2. CASE /\ ~stale
             /\ Write([cr EXCEPT !.spec = inst.spec, !.generation = @ + 1])
    <3>1. pc = "update" /\ inst # NoAppService
      BY <1>3 DEF UpdateInstance, LogInv, TypeInv, Attached
    <3>2. ~cr.spec.initialized /\ inst.spec = initialize(cr.spec)
      BY <2>2, <3>1 DEF LogInv, Synced
    <3>3. cr'.spec = inst.spec /\ cr'.status = cr.status
      BY <1>0, <2>2 DEF Write, AppServices
    <3>4. QED
      BY <3>2, <3>3 DEF InitializedByOperator
  <2>3. QED
    BY <1>3, <2>1, <2>2 DEF UpdateInstance
<1>4. CASE RecordStatus
  <2>1. CASE UNCHANGED crVars
    BY <2>1 DEF crVars
  <2>2. CASE ~stale /\ Write([cr EXCEPT !.status = RecordedStatus])
    <3>1. inst # NoAppService
      BY <1>4 DEF RecordStatus, LogInv, TypeInv, Attached
    <3>2. cr'.spec = cr.spec /\ cr'.status = RecordedStatus
      BY <1>0, <2>2 DEF Write, AppServices
    <3>3. QED
      BY <1>4, <2>2, <3>1, <3>2 DEF ReportedByOperator
  <2>3. QED
    BY <1>4, <2>1, <2>2 DEF RecordStatus
<1>5. ASSUME \/ StartReconcile \/ GetNotFound \/ GetFails \/ GetInstance
             \/ ReconcileEvents \/ ReconcileGateway \/ ReconcileFrontend
             \/ SkipScript \/ NoReadyPod \/ RunScript
             \/ RunScriptWithSQLError \/ RunScriptFails
             \/ RunScriptLosesStream \/ DeliverAppService
             \/ DeliverDeployments \/ FireTimer \/ Restart \/ PodStarts
             \/ PodRecovers \/ PodFails
             \/ OrphanCommits \/ OrphanDies \/ MountSync \/ CollectGarbage
             \/ UNCHANGED vars
      PROVE  cr' = cr
  BY <1>5
     DEF StartReconcile, GetNotFound, GetFails, GetInstance, ReconcileEvents,
         ReconcileGateway, ReconcileFrontend, Apply, SkipScript, NoReadyPod,
         RunScript, RunScriptWithSQLError, RunScriptFails,
         RunScriptLosesStream, DeliverAppService, DeliverDeployments,
         FireTimer, Restart, PodStarts, PodRecovers, PodFails, OrphanCommits,
         OrphanDies, MountSync,
         CollectGarbage, crVars, vars
<1>6. QED
  BY <1>1, <1>2, <1>3, <1>4, <1>5 DEF Next, Reconcile, Environment

-----------------------------------------------------------------------------
\* The operator never undoes an edit: it writes the spec only to initialize the
\* one that is there (r.Client.Update in Reconcile).
THEOREM NoLostEditHolds == Spec => NoLostEdit
<1>1. LogInv /\ [Next]_vars =>
        [/\ cr # NoAppService /\ cr' # NoAppService
         /\ cr'.spec # cr.spec
         /\ budget'.edits = budget.edits
         => ~cr.spec.initialized /\ cr'.spec = initialize(cr.spec)]_vars
  BY WritesOfResource
     DEF EditedByUser, InitializedByOperator, ReportedByOperator
<1>2. QED
  BY <1>1, LogInvHolds, PTL DEF Spec, NoLostEdit

\* A log is a prefix of itself, and of itself with one more entry.
LEMMA PrefixOfAppended ==
  ASSUME NEW S, NEW log \in Seq(S), NEW entry \in S, NEW longer,
         longer = log \/ longer = Append(log, entry)
  PROVE  Len(log) <= Len(longer) /\ SubSeq(longer, 1, Len(log)) = log
<1>1. longer \in Seq(S) /\ Len(log) \in Nat /\ Len(log) <= Len(longer)
  OBVIOUS
<1>2. \A i \in 1..Len(log) : longer[i] = log[i]
  OBVIOUS
<1> DEFINE prefix == SubSeq(longer, 1, Len(log))
<1>3. /\ prefix \in Seq(S) /\ Len(prefix) = Len(log)
      /\ \A i \in 1..Len(log) : prefix[i] = longer[i]
  BY <1>1
<1>4. prefix = log
  BY <1>2, <1>3, SeqEqual
<1>5. QED
  BY <1>1, <1>4

\* Nobody who writes the status drops or changes an entry of the log
\* (Status().Update in ManageError and ManageSuccess).
THEOREM LogAppendOnlyHolds == Spec => LogAppendOnly
<1> DEFINE Grows ==
      /\ Len(cr.status.runs) <= Len(cr'.status.runs)
      /\ SubSeq(cr'.status.runs, 1, Len(cr.status.runs)) = cr.status.runs
<1>1. ASSUME LogInv, [Next]_vars, cr # NoAppService, cr' # NoAppService
      PROVE  Grows
  <2>1. /\ cr \in AppServices
        /\ cr.status.runs \in Seq(DatabaseScriptRun)
    BY <1>1, ResourceUpdate
       DEF LogInv, TypeInv, TypeOK, MaybeAppService, AppServiceStatus
  <2>2. \A outcome \in {"Succeeded", "Failed"} :
          Run(outcome) \in DatabaseScriptRun
    BY DEF Run, DatabaseScriptRun, ScriptNames
  <2>3. \/ cr'.status.runs = cr.status.runs
        \/ \E outcome \in {"Succeeded", "Failed"} :
             cr'.status.runs = Append(cr.status.runs, Run(outcome))
    <3>1. CASE cr' = cr \/ EditedByUser \/ InitializedByOperator
      BY <3>1 DEF EditedByUser, InitializedByOperator
    <3>2. CASE RecordStatus /\ ReportedByOperator
      <4>1. inst \in AppServices /\ inst.status \in AppServiceStatus
        BY <1>1, <3>2, ResourceUpdate
           DEF ReportedByOperator, LogInv, TypeInv, TypeOK, MaybeAppService
      <4>2. result \in {"Error", "RequeueEvent", "NoAction"}
        BY <1>1, <3>2
           DEF RecordStatus, LogInv, TypeInv, TypeOK, Attached, Results
      <4>3. RecordedStatus.runs = inst.status.runs
        BY <4>1, <4>2, RecordedStatusType DEF RecordedStatus
      <4>4. LogFollows
        BY <1>1, <3>2 DEF ReportedByOperator, LogInv, Synced
      <4>5. QED
        BY <3>2, <4>3, <4>4 DEF ReportedByOperator, LogFollows
    <3>3. QED
      BY <1>1, <3>1, <3>2, WritesOfResource
  <2>4. QED
    BY <2>1, <2>2, <2>3, PrefixOfAppended
<1>2. LogInv /\ [Next]_vars =>
        [cr # NoAppService /\ cr' # NoAppService => Grows]_vars
  BY <1>1
<1>3. QED
  BY <1>2, LogInvHolds, PTL DEF Spec, LogAppendOnly

-----------------------------------------------------------------------------
(***************************************************************************)
(* A status that says True and NoAction is true of the spec it goes with.  *)
(*                                                                         *)
(* The argument: as long as the copy of a pass is not outdated, its spec   *)
(* is the one in the resource, and the objects of each component it has    *)
(* gone past exist, since only the deletion of the resource makes any of   *)
(* them disappear, and that makes the copy outdated.                       *)
(***************************************************************************)
Exist(objects) == \A o \in Elements(objects) : objs[o] # Absent

ReportsNoAction == pc = "record" /\ result = "NoAction"

Progress ==
  inst # NoAppService /\ ~stale =>
    /\ pc \in {"events", "gateway", "frontend", "script"} \/ ReportsNoAction
         => /\ cr.spec = inst.spec
            /\ inst.spec.initialized /\ isValid(inst.spec)
    /\ pc \in {"gateway", "frontend", "script"} \/ ReportsNoAction
         => Exist(addEvents)
    /\ pc \in {"frontend", "script"} \/ ReportsNoAction
         => Exist(addGateway(inst.spec))
    /\ pc = "script" \/ ReportsNoAction => Exist(addFrontend(inst.spec))
    /\ ReportsNoAction => CurrentDatabaseScriptWasRun(inst.status)

SuccessInv == LogInv /\ Progress

-----------------------------------------------------------------------------
\* The lists of objects the reconcilers apply.
LEMMA ObjectLists ==
  ASSUME NEW spec
  PROVE  /\ addEvents \in Seq(Objects)
         /\ addGateway(spec) \in Seq(Objects)
         /\ addFrontend(spec) \in Seq(Objects)
  BY DEF addEvents, addGateway, addFrontend, Objects, Deployments,
         PatchedDeployments, Services, Ingresses, Routes

\* Applying objects makes none disappear, and either all of them exist and the
\* pass goes on or it reports an error.
LEMMA ApplyCreates ==
  ASSUME TypeInv, NEW objects \in Seq(Objects), NEW next, Apply(objects, next),
         inst # NoAppService
  PROVE  /\ \A o \in Objects : objs[o] # Absent => objs'[o] # Absent
         /\ \/ pc' = next /\ Exist(objects)'
            \/ pc' = "record" /\ result' = "Error"
         /\ UNCHANGED <<cr, inst, stale>>
<1>1. inst.spec \in AppServiceSpec
  BY ResourceUpdate DEF TypeInv, TypeOK, MaybeAppService
<1>2. objs \in [Objects -> Object \cup {Absent}]
  BY DEF TypeInv, TypeOK
<1>3. \A o \in Objects : Applied(o) \in Object
  BY <1>1, <1>2, NewType, PatchType DEF Applied
<1>4. \A o \in Objects : Applied(o) # Absent
  BY <1>3, AbsentAssumption
<1>5. PICK n \in 0..Len(objects) :
        LET done == {objects[i] : i \in 1..n}
        IN  /\ objs' = [o \in Objects |-> IF o \in done THEN Applied(o)
                                                        ELSE objs[o]]
            /\ IF n = Len(objects) THEN pc' = next
                                   ELSE pc' = "record" /\ result' = "Error"
  BY DEF Apply, Return
<1>6. \A o \in Objects : objs[o] # Absent => objs'[o] # Absent
  BY <1>4, <1>5
<1>7. CASE n = Len(objects)
  <2>1. \A i \in DOMAIN objects :
          objects[i] \in Objects /\ objs'[objects[i]] # Absent
    BY <1>4, <1>5, <1>7
  <2>2. Exist(objects)'
    BY <2>1 DEF Exist, Elements
  <2>3. QED
    BY <1>5, <1>6, <1>7, <2>2 DEF Apply, crVars
<1>8. CASE n # Len(objects)
  BY <1>5, <1>6, <1>8 DEF Apply, crVars
<1>9. QED
  BY <1>7, <1>8

\* Objects that exist and do not disappear go on existing.
LEMMA StillExist ==
  ASSUME \A o \in Objects : objs[o] # Absent => objs'[o] # Absent,
         NEW objects \in Seq(Objects), Exist(objects)
  PROVE  \A o \in Elements(objects) : objs'[o] # Absent
  BY DEF Exist, Elements

\* A step that leaves the pass, the resource and the objects alone.
LEMMA SameProgress ==
  ASSUME Progress, UNCHANGED <<cr, pc, inst, stale, result, objs>>
  PROVE  Progress'
  BY DEF Progress, Exist, ReportsNoAction

\* Without a pass, or with an outdated copy, there is nothing to show.
LEMMA NoProgress ==
  ASSUME inst' = NoAppService \/ stale'
  PROVE  Progress'
  BY DEF Progress

LEMMA ApplyKeepsProgress ==
  ASSUME SuccessInv, ReconcileEvents \/ ReconcileGateway \/ ReconcileFrontend
  PROVE  Progress'
<1>1. inst # NoAppService
  BY DEF ReconcileEvents, ReconcileGateway, ReconcileFrontend, SuccessInv,
         LogInv, TypeInv, Attached
<1>2. CASE ~stale
  <2> DEFINE spec == inst.spec
  <2>1. CASE ReconcileEvents
    <3>1. /\ \/ pc' = "gateway" /\ Exist(addEvents)'
             \/ pc' = "record" /\ result' = "Error"
          /\ UNCHANGED <<cr, inst, stale>>
      BY <1>1, <2>1, ObjectLists, ApplyCreates
         DEF ReconcileEvents, SuccessInv, LogInv
    <3>2. QED
      BY <1>1, <1>2, <2>1, <3>1
         DEF ReconcileEvents, SuccessInv, Progress, ReportsNoAction
  <2>2. CASE ReconcileGateway
    <3>1. /\ \A o \in Objects : objs[o] # Absent => objs'[o] # Absent
          /\ \/ pc' = "frontend" /\ Exist(addGateway(spec))'
             \/ pc' = "record" /\ result' = "Error"
          /\ UNCHANGED <<cr, inst, stale>>
      BY <1>1, <2>2, ObjectLists, ApplyCreates
         DEF ReconcileGateway, SuccessInv, LogInv, Exist
    <3>2. Exist(addEvents)'
      BY <1>1, <1>2, <2>2, <3>1, ObjectLists, StillExist
         DEF ReconcileGateway, SuccessInv, Progress, Exist
    <3>3. QED
      BY <1>1, <1>2, <2>2, <3>1, <3>2
         DEF ReconcileGateway, SuccessInv, Progress, ReportsNoAction
  <2>3. CASE ReconcileFrontend
    <3>1. /\ \A o \in Objects : objs[o] # Absent => objs'[o] # Absent
          /\ \/ pc' = "script" /\ Exist(addFrontend(spec))'
             \/ pc' = "record" /\ result' = "Error"
          /\ UNCHANGED <<cr, inst, stale>>
      BY <1>1, <2>3, ObjectLists, ApplyCreates
         DEF ReconcileFrontend, SuccessInv, LogInv, Exist
    <3>2. Exist(addEvents)' /\ Exist(addGateway(spec))'
      BY <1>1, <1>2, <2>3, <3>1, ObjectLists, StillExist
         DEF ReconcileFrontend, SuccessInv, Progress, Exist
    <3>3. QED
      BY <1>1, <1>2, <2>3, <3>1, <3>2
         DEF ReconcileFrontend, SuccessInv, Progress, ReportsNoAction
  <2>4. QED
    BY <2>1, <2>2, <2>3
<1>3. CASE stale
  <2>1. stale'
    BY <1>3 DEF ReconcileEvents, ReconcileGateway, ReconcileFrontend, Apply
  <2>2. QED
    BY <2>1, NoProgress
<1>4. QED
  BY <1>2, <1>3

\* The script step: what is reported as NoAction has a success in its log.
LEMMA ScriptKeepsProgress ==
  ASSUME SuccessInv,
         \/ SkipScript \/ NoReadyPod \/ RunScript \/ RunScriptWithSQLError
         \/ RunScriptFails \/ RunScriptLosesStream
  PROVE  Progress'
<1> USE DEF Return
<1>1. pc = "script" /\ inst # NoAppService /\ inst \in AppServices
      /\ inst.status \in AppServiceStatus
  <2>1. pc = "script"
    BY DEF SkipScript, NoReadyPod, RunScript, RunScriptWithSQLError,
           RunScriptFails, RunScriptLosesStream
  <2>2. inst # NoAppService /\ inst \in AppServices
    BY <2>1 DEF SuccessInv, LogInv, TypeInv, TypeOK, Attached, MaybeAppService
  <2>3. QED
    BY <2>1, <2>2, ResourceUpdate
<1>2. UNCHANGED <<cr, objs, stale>> /\ pc' = "record"
  BY DEF SkipScript, NoReadyPod, RunScript, RunScriptWithSQLError,
         RunScriptFails, ScriptFails, RunScriptLosesStream, crVars, ownedVars
<1>3. inst'.spec = inst.spec
  BY <1>1
     DEF SkipScript, NoReadyPod, RunScript, RunScriptWithSQLError,
         RunScriptFails, ScriptFails, RunScriptLosesStream, AppServices
<1>4. result' = "NoAction" => CurrentDatabaseScriptWasRun(inst'.status)
  <2>1. CASE SkipScript
    BY <2>1 DEF SkipScript, ScriptNeeded
  <2>2. CASE RunScript
    <3>1. inst'.status = LogRun(inst.status, "Succeeded")
      BY <1>1, <2>2 DEF RunScript, AppServices
    <3>2. /\ inst'.status \in AppServiceStatus
          /\ inst'.status.runs = Append(inst.status.runs, Run("Succeeded"))
      BY <1>1, <3>1, LogRunType DEF Run
    <3>3. Successes(inst'.status) # {}
      BY <1>1, <3>2, AppendRun
    <3>4. QED
      BY <3>3, WasRunIsSuccess
  <2>3. ASSUME NoReadyPod \/ RunScriptWithSQLError \/ RunScriptFails
               \/ RunScriptLosesStream
        PROVE  result' # "NoAction"
    BY <2>3 DEF NoReadyPod, RunScriptWithSQLError, RunScriptFails,
                ScriptFails, RunScriptLosesStream
  <2>4. QED
    BY <2>1, <2>2, <2>3
<1>5. QED
  BY <1>1, <1>2, <1>3, <1>4
     DEF SuccessInv, Progress, Exist, ReportsNoAction

LEMMA ProgressInductive == SuccessInv /\ [Next]_vars => Progress'
<1> SUFFICES ASSUME SuccessInv, [Next]_vars PROVE Progress'
  OBVIOUS
<1> USE DEF EndPass, Return
<1>1. CASE StartReconcile
  BY <1>1, NoProgress
     DEF StartReconcile, SuccessInv, LogInv, TypeInv, Attached
<1>2. CASE GetNotFound \/ GetFails \/ RecordStatus \/ Restart
  BY <1>2, NoProgress DEF GetNotFound, GetFails, RecordStatus, Restart
<1>3. CASE GetInstance
  <2>1. cr' = cr /\ (~stale' => cache = cr)
    BY <1>3 DEF GetInstance, SuccessInv, LogInv, TypeInv, InformerFollows,
                crVars
  <2>2. \/ pc' = "record" /\ result' = "Error"
        \/ pc' = "update"
        \/ /\ pc' = "events" /\ inst' = cache
           /\ cache.spec.initialized /\ isValid(cache.spec)
    BY <1>3 DEF GetInstance
  <2>3. QED
    BY <2>1, <2>2 DEF Progress, ReportsNoAction
<1>4. CASE UpdateInstance
  <2>1. \/ inst' = NoAppService
        \/ pc' = "record" /\ result' = "Error"
    BY <1>4 DEF UpdateInstance
  <2>2. QED
    BY <2>1 DEF Progress, ReportsNoAction
<1>5. CASE ReconcileEvents \/ ReconcileGateway \/ ReconcileFrontend
  BY <1>5, ApplyKeepsProgress
<1>6. CASE \/ SkipScript \/ NoReadyPod \/ RunScript \/ RunScriptWithSQLError
           \/ RunScriptFails \/ RunScriptLosesStream
  BY <1>6, ScriptKeepsProgress
<1>7. CASE UserEdits \/ UserDeletes
  <2>1. inst' = inst /\ (stale' \/ inst = NoAppService)
    BY <1>7 DEF UserEdits, UserDeletes
  <2>2. QED
    BY <2>1, NoProgress
<1>8. CASE CollectGarbage
  <2>1. UNCHANGED <<inst, stale>> /\ (stale \/ inst = NoAppService)
    BY <1>8 DEF CollectGarbage, passVars, SuccessInv, LogInv, TypeInv, Attached
  <2>2. QED
    BY <2>1, NoProgress
<1>9. ASSUME \/ DeliverAppService \/ DeliverDeployments \/ FireTimer
             \/ PodStarts \/ PodRecovers \/ PodFails
             \/ OrphanCommits \/ OrphanDies \/ MountSync
             \/ UNCHANGED vars
      PROVE  UNCHANGED <<cr, pc, inst, stale, result, objs>>
  BY <1>9 DEF DeliverAppService, DeliverDeployments, FireTimer, PodStarts,
              PodRecovers, PodFails, OrphanCommits, OrphanDies, MountSync,
              crVars, ownedVars, passVars,
              vars
<1>10. QED
  BY <1>1, <1>2, <1>3, <1>4, <1>5, <1>6, <1>7, <1>8, <1>9, SameProgress
     DEF Next, Reconcile, Environment, SuccessInv

LEMMA SuccessInvHolds == Spec => []SuccessInv
<1>1. Init => Progress
  BY DEF Init, Progress
<1>2. LogInv /\ Progress /\ [Next]_vars => Progress'
  BY ProgressInductive DEF SuccessInv
<1>3. Spec => []Progress
  BY <1>1, <1>2, LogInvHolds, PTL DEF Spec
<1>4. QED
  BY <1>3, LogInvHolds, PTL DEF SuccessInv

\* ManageSuccess writes True and NoAction only into a resource that is valid
\* and initialized, whose objects exist and whose script has run.
THEOREM SuccessIsTrueHolds == Spec => SuccessIsTrue
<1> DEFINE True ==
      /\ cr'.spec.initialized /\ isValid(cr'.spec)
      /\ \A o \in ObjectsOf(cr'.spec) : objs[o] # Absent
      /\ CurrentDatabaseScriptWasRun(cr'.status)
<1>1. ASSUME SuccessInv, [Next]_vars, ReportsSuccess
      PROVE  True
  <2>1. RecordStatus
    <3>1. pc = "record" /\ pc' = "idle" /\ backlog' # backlog
          /\ budget'.restarts = budget.restarts
      BY <1>1 DEF ReportsSuccess
    <3>2. ~Restart
      <4>1. budget \in Budgets
        BY <1>1 DEF SuccessInv, LogInv, TypeInv, TypeOK
      <4>2. Restart => budget' = [budget EXCEPT !.restarts = @ + 1]
        BY DEF Restart, Spend
      <4>3. budget.restarts + 1 # budget.restarts
        BY <4>1, BoundsAssumption DEF Budgets
      <4>4. QED
        BY <3>1, <4>1, <4>2, <4>3 DEF Budgets
    <3>3. ASSUME Environment \/ UNCHANGED vars
          PROVE  pc' = pc
      BY <3>2, <3>3
         DEF Environment, DeliverAppService, DeliverDeployments, FireTimer,
             PodStarts, PodRecovers, PodFails, OrphanCommits, OrphanDies,
             MountSync, UserEdits,
             UserDeletes, CollectGarbage, passVars, vars
    <3>4. Reconcile
      BY <1>1, <3>1, <3>3 DEF Next
    <3>5. QED
      BY <3>1, <3>4
         DEF Reconcile, StartReconcile, GetNotFound, GetFails, GetInstance,
             UpdateInstance, ReconcileEvents, ReconcileGateway,
             ReconcileFrontend, SkipScript, NoReadyPod, RunScript,
             RunScriptWithSQLError, RunScriptFails, RunScriptLosesStream
  <2>2. ~stale /\ Write([cr EXCEPT !.status = RecordedStatus])
    BY <1>1, <2>1 DEF RecordStatus, ReportsSuccess, crVars
  <2>3. /\ inst # NoAppService /\ inst \in AppServices
        /\ cr \in AppServices /\ ReportsNoAction
    BY <1>1, <2>1, <2>2
       DEF ReportsSuccess, ReportsNoAction, SuccessInv, LogInv, TypeInv,
           TypeOK, Attached, MaybeAppService
  <2>4. cr'.spec = inst.spec /\ cr'.status = RecordedStatus
    <3>1. cr'.spec = cr.spec /\ cr'.status = RecordedStatus
      BY <2>2, <2>3 DEF Write, AppServices
    <3>2. QED
      BY <1>1, <2>2, <2>3, <3>1 DEF SuccessInv, Progress
  <2>5. cr'.spec.initialized /\ isValid(cr'.spec)
    BY <1>1, <2>2, <2>3, <2>4 DEF SuccessInv, Progress
  <2>6. \A o \in ObjectsOf(cr'.spec) : objs[o] # Absent
    BY <1>1, <2>2, <2>3, <2>4 DEF SuccessInv, Progress, Exist, ObjectsOf
  <2>7. CurrentDatabaseScriptWasRun(cr'.status)
    <3>1. CurrentDatabaseScriptWasRun(inst.status)
      BY <1>1, <2>2, <2>3 DEF SuccessInv, Progress
    <3>2. inst.status \in AppServiceStatus
      BY <2>3, ResourceUpdate
    <3>3. cr'.status.runs = inst.status.runs
      BY <2>3, <2>4, <3>2, RecordedStatusType
         DEF RecordedStatus, ReportsNoAction
    <3>4. QED
      BY <3>1, <3>3 DEF CurrentDatabaseScriptWasRun
  <2>8. QED
    BY <2>5, <2>6, <2>7
<1>2. SuccessInv /\ [Next]_vars => [ReportsSuccess => True]_vars
  BY <1>1
<1>3. QED
  BY <1>2, SuccessInvHolds, PTL DEF Spec, SuccessIsTrue
=============================================================================
