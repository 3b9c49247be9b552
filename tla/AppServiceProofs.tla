-------------------------- MODULE AppServiceProofs --------------------------
(***************************************************************************)
(* Proofs about the AppService controller, for every value of the          *)
(* constants.                                                              *)
(***************************************************************************)
EXTENDS AppServiceProperties, TLAPS

-----------------------------------------------------------------------------
(***************************************************************************)
(* The operator's pure functions.                                          *)
(***************************************************************************)
\* Initializing a spec gives a spec that is initialized (isInitialized).
LEMMA InitializeType ==
  ASSUME NEW spec \in AppServiceSpec
  PROVE  /\ initialize(spec) \in AppServiceSpec
         /\ initialize(spec).initialized
  BY DomainNamesAssumption
     DEF initialize, AppServiceSpec, PlatformKubernetes, PlatformOpenShift,
         DefaultDomainName

\* Logging a run appends one entry and leaves the other ones alone.
LEMMA LogRunType ==
  ASSUME NEW status \in AppServiceStatus,
         NEW outcome \in {"Succeeded", "Failed"}
  PROVE  /\ LogRun(status, outcome) \in AppServiceStatus
         /\ LogRun(status, outcome).runs =
              Append(status.runs, [script |-> EventsDatabaseUpdateScriptName,
                                   status |-> outcome])
<1> DEFINE run == [script |-> EventsDatabaseUpdateScriptName,
                   status |-> outcome]
<1>1. run \in DatabaseScriptRun
  BY DEF DatabaseScriptRun, ScriptNames
<1>2. status.runs \in Seq(DatabaseScriptRun)
  BY DEF AppServiceStatus
<1>3. Append(status.runs, run) \in Seq(DatabaseScriptRun)
  BY <1>1, <1>2
<1> HIDE DEF run
<1>4. LogRun(status, outcome) =
        [status EXCEPT !.runs = Append(status.runs, run),
                       !.eventsDatabaseUpdated = outcome]
  BY DEF LogRun, run
<1>5. QED
  BY <1>3, <1>4 DEF AppServiceStatus, run

\* ManageError and ManageSuccess leave the log alone.
LEMMA RecordedStatusType ==
  ASSUME NEW status \in AppServiceStatus,
         NEW action \in {"RequeueEvent", "NoAction"}
  PROVE  /\ ErrorStatus(status) \in AppServiceStatus
         /\ ErrorStatus(status).runs = status.runs
         /\ SuccessStatus(status, action) \in AppServiceStatus
         /\ SuccessStatus(status, action).runs = status.runs
  BY DEF ErrorStatus, SuccessStatus, AppServiceStatus

-----------------------------------------------------------------------------
(***************************************************************************)
(* The owned objects.                                                      *)
(***************************************************************************)
\* An object stays one when fields get values of their type.
LEMMA ObjectUpdate ==
  ASSUME NEW current \in Object,
         NEW version \in Versions, NEW replicas \in 0..2
  PROVE  /\ [current EXCEPT !.version = version] \in Object
         /\ [current EXCEPT !.replicas = replicas] \in Object
         /\ [current EXCEPT !.image = version, !.replicas = replicas]
              \in Object
  BY DEF Object

\* The constructors build well-formed objects.
LEMMA NewType ==
  ASSUME NEW o \in Objects, NEW spec \in AppServiceSpec
  PROVE  New(o, spec) \in Object
<1>1. BlankObject \in Object
  BY DomainNamesAssumption DEF BlankObject, Object, Versions
<1>2. NewIngress(spec) \in Object
  BY <1>1 DEF NewIngress, Object, AppServiceSpec
<1>3. NewEventsDatabaseScriptsConfigMap \in Object
  BY <1>1 DEF NewEventsDatabaseScriptsConfigMap, getDatabaseScriptsMap,
              ScriptNames, Object
<1>4. Version \in Versions /\ 1 \in 0..2
  BY DEF Versions
<1>5. /\ NewEventsDatabaseDeployment \in Object
      /\ NewEventsDeployment \in Object
      /\ NewGatewayDeployment \in Object
      /\ NewFrontendDeployment \in Object
  BY <1>1, <1>4, ObjectUpdate
     DEF NewEventsDatabaseDeployment, NewEventsDeployment,
         NewGatewayDeployment, NewFrontendDeployment
<1>6. QED
  BY <1>1, <1>2, <1>3, <1>5
     DEF New, NewEventsDatabaseCredentialsSecret, NewPersistentVolumeClaim,
         NewEventsDatabaseService, NewEventsService, NewGatewayService,
         NewFrontendService, NewRoute

\* A patch keeps an object well-formed.
LEMMA PatchType ==
  ASSUME NEW o \in Objects, NEW current \in Object
  PROVE  Patch(o, current) \in Object
<1> DEFINE labelled == SetVersionLabel(current)
<1>1. Version \in Versions /\ 2 \in 0..2
  BY DEF Versions
<1>2. labelled \in Object
  BY <1>1, ObjectUpdate DEF SetVersionLabel
<1>3. NewEventsDatabaseScriptsConfigMapPatch(current) \in Object
  <2> HIDE DEF labelled
  <2>1. [labelled EXCEPT !.scripts = @ \cup getDatabaseScriptsMap] \in Object
    BY <1>2 DEF Object, getDatabaseScriptsMap, ScriptNames
  <2>2. QED
    BY <2>1 DEF NewEventsDatabaseScriptsConfigMapPatch, labelled
<1>4. [labelled EXCEPT !.image = Version, !.replicas = 2] \in Object
  BY <1>1, <1>2, ObjectUpdate
<1>5. QED
  BY <1>2, <1>3, <1>4
     DEF Patch, NewEventsDatabaseCredentialsSecretPatch,
         NewEventsDatabaseDeploymentPatch, NewEventsDatabaseServicePatch,
         NewEventsDeploymentPatch, NewEventsServicePatch,
         NewGatewayDeploymentPatch, NewGatewayServicePatch,
         NewFrontendDeploymentPatch, NewFrontendServicePatch,
         NewRoutePatch, NewIngressPatch

-----------------------------------------------------------------------------
(***************************************************************************)
(* Type correctness.                                                       *)
(***************************************************************************)
\* Using one unit of a bound stays within the bound.
LEMMA SpendType ==
  ASSUME budget \in Budgets
  PROVE  /\ Fault => budget' \in Budgets
         /\ Spend("edits", MaxEdits) => budget' \in Budgets
         /\ Spend("restarts", MaxRestarts) => budget' \in Budgets
         /\ Spend("staleReads", MaxStaleReads) => budget' \in Budgets
         /\ NoFault => budget' \in Budgets
  BY BoundsAssumption DEF Spend, Fault, NoFault, Budgets

\* A version of the resource that is written joins the informer's backlog.
LEMMA WriteType ==
  ASSUME TypeOK, NEW resource \in MaybeAppService, Write(resource)
  PROVE  cr' \in MaybeAppService /\ backlog' \in Seq(MaybeAppService)
  BY DEF TypeOK, Write

\* A resource stays one when its spec or its status is replaced.
LEMMA ResourceUpdate ==
  ASSUME NEW resource \in AppServices
  PROVE  /\ \A spec \in AppServiceSpec :
              /\ [resource EXCEPT !.spec = spec] \in AppServices
              /\ [resource EXCEPT !.spec = spec, !.generation = @ + 1]
                   \in AppServices
         /\ \A status \in AppServiceStatus :
              [resource EXCEPT !.status = status] \in AppServices
         /\ resource.spec \in AppServiceSpec
         /\ resource.status \in AppServiceStatus
         /\ resource # NoAppService
         /\ resource \in MaybeAppService
<1>1. /\ resource.spec \in AppServiceSpec
      /\ resource.status \in AppServiceStatus
  BY DEF AppServices
<1>2. \A spec \in AppServiceSpec :
        [resource EXCEPT !.spec = spec] \in AppServices
  BY DEF AppServices
<1>3. \A spec \in AppServiceSpec :
        [resource EXCEPT !.spec = spec, !.generation = @ + 1] \in AppServices
  <2>1. resource.generation + 1 \in Nat
    BY DEF AppServices
  <2>2. \A spec \in AppServiceSpec, n \in Nat :
          [resource EXCEPT !.spec = spec, !.generation = n] \in AppServices
    BY DEF AppServices
  <2>3. QED
    BY <2>1, <2>2
<1>4. \A status \in AppServiceStatus :
        [resource EXCEPT !.status = status] \in AppServices
  BY DEF AppServices
<1>5. resource # NoAppService /\ resource \in MaybeAppService
  BY NoAppServiceAssumption DEF MaybeAppService
<1>6. QED
  BY <1>1, <1>2, <1>3, <1>4, <1>5

LEMMA InitResource == Init => cr \in AppServices
<1> SUFFICES ASSUME Init PROVE cr \in AppServices
  OBVIOUS
<1>1. PICK spec \in UserSpecs, status \in {EmptyStatus, InheritedStatus} :
        cr = [generation |-> 1, spec |-> spec, status |-> status]
  BY DEF Init
<1>2. spec \in AppServiceSpec
  BY BoundsAssumption
<1>3. EmptyStatus \in AppServiceStatus /\ InheritedStatus \in AppServiceStatus
  BY DEF EmptyStatus, InheritedStatus, AppServiceStatus, DatabaseScriptRun,
         ScriptNames
<1>4. QED
  BY <1>1, <1>2, <1>3 DEF AppServices

LEMMA TypeInit == Init => TypeOK
<1> SUFFICES ASSUME Init PROVE TypeOK
  OBVIOUS
<1>1. PICK spec \in UserSpecs :
        \/ /\ cr = [generation |-> 1, spec |-> spec, status |-> EmptyStatus]
           /\ objs = [o \in Objects |-> Absent]
           /\ pod = "none"
           /\ depEvent = FALSE
        \/ /\ cr = [generation |-> 1, spec |-> spec,
                    status |-> InheritedStatus]
           /\ objs = [o \in Objects |-> IF o \in ObjectsOf(spec)
                                          THEN InheritedObject(o, spec)
                                          ELSE Absent]
           /\ pod = "ready"
           /\ depEvent = TRUE
  BY DEF Init
<1>2. spec \in AppServiceSpec
  BY BoundsAssumption
<1>3. cr \in AppServices
  BY InitResource
<1>4. \A o \in Objects : InheritedObject(o, spec) \in Object
  <2>1. ASSUME NEW o \in Objects
        PROVE  InheritedObject(o, spec) \in Object
    <3> DEFINE current == Patch(o, New(o, spec))
    <3>1. current \in Object
      BY <1>2, NewType, PatchType
    <3>2. \A version, image \in Versions, scripts \in SUBSET ScriptNames :
            [current EXCEPT !.version = version, !.image = image,
                            !.scripts = scripts] \in Object
      BY <3>1 DEF Object
    <3>3. current.version \in Versions /\ current.image \in Versions
      BY <3>1 DEF Object
    <3>4. /\ PreviousVersion \in Versions
          /\ PreviousScriptName \in ScriptNames
      BY DEF Versions, ScriptNames
    <3> HIDE DEF current
    <3>5. QED
      BY <3>2, <3>3, <3>4 DEF InheritedObject, current
  <2>2. QED
    BY <2>1
<1>5. objs \in [Objects -> Object \cup {Absent}]
  BY <1>1, <1>4
<1>6. budget \in Budgets
  BY BoundsAssumption DEF Init, Budgets
<1>7. backlog \in Seq(MaybeAppService)
  BY <1>3 DEF Init, MaybeAppService
<1>8. QED
  BY <1>1, <1>3, <1>5, <1>6, <1>7
     DEF Init, TypeOK, MaybeAppService, Locations, Results, Outcomes

\* What types alone do not say: the informer lags behind the resource, by the
\* backlog and by nothing else, and a pass whose copy is not outdated works on
\* a resource that exists.
InformerFollows ==
  IF backlog = <<>> THEN cache = cr ELSE backlog[Len(backlog)] = cr

Attached ==
  /\ inst = NoAppService <=> pc \in {"idle", "get"}
  /\ pc = "record" => result # "none"
  /\ inst # NoAppService /\ ~stale => cr # NoAppService

TypeInv == TypeOK /\ InformerFollows /\ Attached

\* A write of the resource keeps the backlog in line with it.
LEMMA WriteFollows ==
  ASSUME TypeOK, NEW resource, resource \in MaybeAppService, Write(resource)
  PROVE  /\ backlog' # <<>>
         /\ backlog'[Len(backlog')] = cr'
         /\ cr' = resource
  BY DEF TypeOK, Write

\* No step leads out of the types, one case per action.
LEMMA TypeNext == TypeInv /\ [Next]_vars => TypeOK'
<1> SUFFICES ASSUME TypeInv, [Next]_vars PROVE TypeOK'
  OBVIOUS
<1> USE DEF TypeOK, TypeInv, Locations, Results, Outcomes, crVars, ownedVars,
            queueVars, passVars, databaseVars, EndPass, Return, NoFault
<1>0. /\ NoAppService \in MaybeAppService
      /\ cr # NoAppService => cr \in AppServices
      /\ cache # NoAppService => cache \in AppServices
      /\ pc \notin {"idle", "get"} => inst \in AppServices
      /\ AppServices \subseteq MaybeAppService
  BY DEF MaybeAppService, Attached
<1>1. CASE StartReconcile
  BY <1>1 DEF StartReconcile
<1>2. CASE GetNotFound
  BY <1>2, <1>0 DEF GetNotFound
<1>3. CASE GetFails
  BY <1>3, <1>0, SpendType DEF GetFails
<1>4. CASE GetInstance
  <2>1. budget' \in Budgets
    BY <1>4, SpendType DEF GetInstance
  <2>2. /\ cache \in AppServices
        /\ [cache EXCEPT !.spec = initialize(@)] \in AppServices
    BY <1>4, <1>0, ResourceUpdate, InitializeType DEF GetInstance
  <2>3. inst' \in MaybeAppService
    BY <1>4, <1>0, <2>2 DEF GetInstance
  <2>4. QED
    BY <1>4, <2>1, <2>3 DEF GetInstance
<1>5. CASE UpdateInstance
  <2>1. inst \in AppServices /\ inst # NoAppService
    BY <1>5, <1>0, NoAppServiceAssumption DEF UpdateInstance
  <2>2. budget' \in Budgets
    BY <1>5, SpendType DEF UpdateInstance
  <2>3. ~stale => cr \in AppServices
    BY <1>0, <2>1 DEF Attached
  <2>4. PICK resource \in MaybeAppService : Write(resource) \/ UNCHANGED crVars
    BY <1>5, <1>0, <2>1, <2>3, ResourceUpdate DEF UpdateInstance
  <2>5. cr' \in MaybeAppService /\ backlog' \in Seq(MaybeAppService)
    BY <2>4, WriteType
  <2>6. QED
    BY <1>5, <1>0, <2>1, <2>2, <2>5 DEF UpdateInstance
<1>6. ASSUME NEW objects, NEW next \in Locations \ {"idle", "get"},
             pc \in {"events", "gateway", "frontend"}, Apply(objects, next)
      PROVE  TypeOK'
  <2>1. inst \in AppServices /\ inst.spec \in AppServiceSpec
    BY <1>6, <1>0, ResourceUpdate
  <2>2. budget' \in Budgets
    BY <1>6, SpendType DEF Apply
  <2>3. \A o \in Objects : Applied(o) \in Object \cup {Absent}
    BY <2>1, NewType, PatchType DEF Applied
  <2>4. objs' \in [Objects -> Object \cup {Absent}]
    BY <1>6, <2>3 DEF Apply
  <2>5. unseen' \in SUBSET Deployments /\ depEvent' \in BOOLEAN
    BY <1>6 DEF Apply
  <2>6. pc' \in Locations \ {"idle", "get"} /\ result' \in Results
    BY <1>6 DEF Apply
  <2>7. QED
    BY <1>6, <2>1, <2>2, <2>4, <2>5, <2>6 DEF Apply
<1>7. CASE ReconcileEvents
  BY <1>7, <1>6 DEF ReconcileEvents
<1>8. CASE ReconcileGateway
  BY <1>8, <1>6 DEF ReconcileGateway
<1>9. CASE ReconcileFrontend
  BY <1>9, <1>6 DEF ReconcileFrontend
<1>10. CASE SkipScript
  BY <1>10 DEF SkipScript
<1>11. CASE NoReadyPod
  BY <1>11, SpendType DEF NoReadyPod
<1>12. \A outcome \in {"Succeeded", "Failed"} :
         pc = "script" =>
           [inst EXCEPT !.status = LogRun(@, outcome)] \in MaybeAppService
  BY <1>0, ResourceUpdate, LogRunType
<1>13. CASE RunScript
  <2>1. inst' \in MaybeAppService
    BY <1>13, <1>12 DEF RunScript
  <2>2. runCount' \in Nat
    BY <1>13 DEF RunScript
  <2>3. QED
    BY <1>13, <2>1, <2>2 DEF RunScript
<1>14. CASE RunScriptWithSQLError
  BY <1>14, SpendType DEF RunScriptWithSQLError
<1>15. CASE RunScriptFails
  BY <1>15, <1>12, SpendType DEF RunScriptFails, ScriptFails
<1>16. CASE RunScriptLosesStream
  <2>1. inst' \in MaybeAppService
    BY <1>16, <1>12 DEF RunScriptLosesStream, ScriptFails
  <2>2. budget' \in Budgets
    BY <1>16, SpendType DEF RunScriptLosesStream
  <2>3. orphans' \in Nat
    BY <1>16 DEF RunScriptLosesStream
  <2>4. QED
    BY <1>16, <2>1, <2>2, <2>3 DEF RunScriptLosesStream, ScriptFails
<1>17. CASE RecordStatus
  <2>1. inst \in AppServices /\ inst # NoAppService
    BY <1>17, <1>0, NoAppServiceAssumption DEF RecordStatus
  <2>2. budget' \in Budgets
    BY <1>17, SpendType DEF RecordStatus
  <2>3. ~stale => cr \in AppServices
    BY <1>0, <2>1 DEF Attached
  <2>4. RecordedStatus \in AppServiceStatus
    <3>1. inst.status \in AppServiceStatus
      BY <2>1, ResourceUpdate
    <3>2. result \in {"Error", "RequeueEvent", "NoAction"}
      BY <1>17 DEF RecordStatus, Attached
    <3>3. QED
      BY <3>1, <3>2, RecordedStatusType DEF RecordedStatus
  <2>5. PICK resource \in MaybeAppService : Write(resource) \/ UNCHANGED crVars
    BY <1>17, <1>0, <2>3, <2>4, ResourceUpdate DEF RecordStatus
  <2>6. cr' \in MaybeAppService /\ backlog' \in Seq(MaybeAppService)
    BY <2>5, WriteType
  <2>7. lost' \in Nat
    BY <1>17 DEF RecordStatus, LoseRun
  <2>8. QED
    BY <1>17, <1>0, <2>2, <2>6, <2>7 DEF RecordStatus
<1>18. CASE DeliverAppService
  <2>1. PICK k \in {1, Len(backlog)} :
          /\ cache' = backlog[k]
          /\ backlog' = SubSeq(backlog, k + 1, Len(backlog))
          /\ dirty' = (dirty \/ appServicePredicate(cache, backlog[k]))
    BY <1>18 DEF DeliverAppService
  <2>2. k \in 1..Len(backlog) /\ Len(backlog) \in Nat
    BY <1>18 DEF DeliverAppService
  <2>3. cache' \in MaybeAppService /\ backlog' \in Seq(MaybeAppService)
    BY <2>1, <2>2
  <2>4. dirty' \in BOOLEAN
    BY <2>1
  <2>5. QED
    BY <1>18, <2>3, <2>4 DEF DeliverAppService
<1>19. CASE DeliverDeployments
  <2>1. unseen' \in SUBSET Deployments /\ depEvent' \in BOOLEAN
    BY <1>19 DEF DeliverDeployments
  <2>2. dirty' \in BOOLEAN
    BY <1>19 DEF DeliverDeployments
  <2>3. QED
    BY <1>19, <2>1, <2>2 DEF DeliverDeployments
<1>20. CASE FireTimer
  <2>1. dirty' \in BOOLEAN /\ delayed' \in BOOLEAN
    BY <1>20 DEF FireTimer
  <2>2. QED
    BY <1>20, <2>1 DEF FireTimer
<1>21. CASE Restart
  <2>1. budget' \in Budgets
    BY <1>21, SpendType DEF Restart
  <2>2. /\ backlog' \in Seq(MaybeAppService)
        /\ cache' \in MaybeAppService /\ inst' \in MaybeAppService
    BY <1>21, <1>0 DEF Restart
  <2>3. /\ dirty' \in BOOLEAN /\ delayed' \in BOOLEAN
        /\ depEvent' \in BOOLEAN /\ stale' \in BOOLEAN
    BY <1>21 DEF Restart
  <2>4. lost' \in Nat /\ orphans' \in Nat
    BY <1>21 DEF Restart, LoseRun
  <2>5. UNCHANGED <<cr, objs, pod, mounted, runCount>>
    BY <1>21 DEF Restart
  <2>6. /\ unseen' = {} /\ pc' = "idle" /\ exec' = "none"
        /\ result' = "none"
    BY <1>21 DEF Restart
  <2>7. QED
    BY <2>1, <2>2, <2>3, <2>4, <2>5, <2>6
<1>22. CASE PodStarts
  BY <1>22 DEF PodStarts, ScriptAvailable
<1>23. CASE PodRecovers
  BY <1>23 DEF PodRecovers
<1>24. CASE PodFails
  <2>1. budget' \in Budgets
    BY <1>24, SpendType DEF PodFails
  <2>2. /\ pod' \in {"none", "notReady", "ready"}
        /\ mounted' \in BOOLEAN /\ depEvent' \in BOOLEAN
    BY <1>24 DEF PodFails
  <2>3. orphans' \in {orphans, 0}
    BY <1>24 DEF PodFails
  <2>4. UNCHANGED <<crVars, objs, unseen, queueVars, passVars, runCount, lost>>
    BY <1>24 DEF PodFails
  <2>5. QED
    BY <2>1, <2>2, <2>3, <2>4
<1>25. CASE MountSync
  BY <1>25 DEF MountSync
<1>26. CASE UserEdits
  <2>1. budget' \in Budgets
    BY <1>26, SpendType DEF UserEdits
  <2>2. PICK resource \in MaybeAppService : Write(resource)
    BY <1>26, <1>0, BoundsAssumption, ResourceUpdate DEF UserEdits
  <2>3. cr' \in MaybeAppService /\ backlog' \in Seq(MaybeAppService)
    BY <2>2, WriteType
  <2>4. QED
    BY <1>26, <2>1, <2>3 DEF UserEdits
<1>27. CASE UserDeletes
  <2>1. budget' \in Budgets
    BY <1>27, SpendType DEF UserDeletes
  <2>2. cr' \in MaybeAppService /\ backlog' \in Seq(MaybeAppService)
    BY <1>27, <1>0, WriteType DEF UserDeletes
  <2>3. QED
    BY <1>27, <2>1, <2>2 DEF UserDeletes
<1>28. CASE CollectGarbage
  BY <1>28 DEF CollectGarbage
<1>29. CASE OrphanCommits \/ OrphanDies
  <2>1. runCount' \in Nat /\ orphans' \in Nat /\ lost' \in Nat
    BY <1>29 DEF OrphanCommits, OrphanDies
  <2>2. UNCHANGED <<cr, objs, pod, mounted, passVars, queueVars, backlog,
                    unseen, depEvent, budget>>
    BY <1>29 DEF OrphanCommits, OrphanDies
  <2>3. QED
    BY <2>1, <2>2
<1>30. CASE UNCHANGED vars
  BY <1>30 DEF vars
<1>31. QED
  BY <1>1, <1>2, <1>3, <1>4, <1>5, <1>7, <1>8, <1>9, <1>10, <1>11, <1>13,
     <1>14, <1>15, <1>16, <1>17, <1>18, <1>19, <1>20, <1>21, <1>22, <1>23,
     <1>24, <1>25, <1>26, <1>27, <1>28, <1>29, <1>30
     DEF Next, Reconcile, Environment

-----------------------------------------------------------------------------
(***************************************************************************)
(* What the type invariant rests on.                                       *)
(***************************************************************************)
LEMMA FollowsNext == TypeInv /\ [Next]_vars => InformerFollows'
<1> SUFFICES ASSUME TypeInv, [Next]_vars PROVE InformerFollows'
  OBVIOUS
<1> USE DEF TypeInv
<1>1. ASSUME NEW resource, resource \in MaybeAppService, Write(resource)
      PROVE  InformerFollows'
  BY <1>1, WriteFollows DEF InformerFollows
<1>2. ASSUME UNCHANGED <<cr, backlog, cache>>
      PROVE  InformerFollows'
  BY <1>2 DEF InformerFollows
<1>3. CASE DeliverAppService
  <2>1. PICK k \in {1, Len(backlog)} :
          /\ cache' = backlog[k]
          /\ backlog' = SubSeq(backlog, k + 1, Len(backlog))
    BY <1>3 DEF DeliverAppService
  <2>2. /\ backlog \in Seq(MaybeAppService) /\ backlog # <<>>
        /\ backlog[Len(backlog)] = cr /\ cr' = cr
    BY <1>3 DEF DeliverAppService, InformerFollows, TypeOK
  <2>3. CASE k = Len(backlog)
    BY <2>1, <2>2, <2>3 DEF InformerFollows
  <2>4. CASE k # Len(backlog)
    <3>1. Len(backlog) \in Nat /\ Len(backlog) > 1 /\ k = 1
      BY <2>1, <2>2, <2>4
    <3>2. /\ Len(backlog') = Len(backlog) - 1
          /\ backlog'[Len(backlog) - 1] = backlog[Len(backlog)]
      BY <2>1, <2>2, <3>1
    <3>3. QED
      BY <2>2, <3>1, <3>2 DEF InformerFollows
  <2>5. QED
    BY <2>3, <2>4
<1>4. CASE Restart
  BY <1>4 DEF Restart, InformerFollows
<1>5. CASE UserEdits \/ UserDeletes
  <2>1. PICK resource \in MaybeAppService : Write(resource)
    BY <1>5, BoundsAssumption, ResourceUpdate
       DEF UserEdits, UserDeletes, TypeOK, MaybeAppService
  <2>2. QED
    BY <1>1, <2>1
<1>6. CASE UpdateInstance \/ RecordStatus
  <2>1. cache' = cache
    BY <1>6 DEF UpdateInstance, RecordStatus, queueVars
  <2>2. CASE UNCHANGED crVars
    BY <1>2, <2>1, <2>2 DEF crVars
  <2>3. CASE ~UNCHANGED crVars
    <3>1. Write(cr')
      BY <1>6, <2>3 DEF UpdateInstance, RecordStatus, Write
    <3>2. cr' \in MaybeAppService
      BY TypeNext DEF TypeOK
    <3>3. QED
      BY <1>1, <3>1, <3>2
  <2>4. QED
    BY <2>2, <2>3
<1>7. CASE UNCHANGED vars
  BY <1>2, <1>7 DEF vars, crVars, queueVars
<1>8. QED
  BY <1>2, <1>3, <1>4, <1>5, <1>6, <1>7
     DEF Next, Reconcile, Environment, StartReconcile, GetNotFound, GetFails,
         GetInstance, ReconcileEvents, ReconcileGateway, ReconcileFrontend,
         Apply, SkipScript, NoReadyPod, RunScript, RunScriptWithSQLError,
         RunScriptFails, RunScriptLosesStream, DeliverDeployments, FireTimer,
         PodStarts, PodRecovers, PodFails, OrphanCommits, OrphanDies,
         MountSync, CollectGarbage,
         crVars, queueVars

LEMMA AttachedNext == TypeInv /\ [Next]_vars => Attached'
<1> SUFFICES ASSUME TypeInv, [Next]_vars PROVE Attached'
  OBVIOUS
<1> USE DEF TypeInv, EndPass, Return
<1>1. CASE StartReconcile
  BY <1>1 DEF StartReconcile, Attached, crVars
<1>2. CASE GetNotFound \/ GetFails \/ Restart
  BY <1>2 DEF GetNotFound, GetFails, Restart, Attached
<1>3. CASE GetInstance
  <2>1. cache \in AppServices
    BY <1>3 DEF GetInstance, TypeOK, MaybeAppService
  <2>2. inst' # NoAppService
    BY <1>3, <2>1, ResourceUpdate, InitializeType DEF GetInstance
  <2>3. ~stale' => cr' # NoAppService
    BY <1>3, <2>1, ResourceUpdate DEF GetInstance, InformerFollows, crVars
  <2>4. pc' \notin {"idle", "get"} /\ (pc' = "record" => result' # "none")
    BY <1>3 DEF GetInstance
  <2>5. QED
    BY <2>2, <2>3, <2>4 DEF Attached
<1>4. CASE UpdateInstance
  BY <1>4 DEF UpdateInstance, Attached, crVars
<1>5. CASE ReconcileEvents \/ ReconcileGateway \/ ReconcileFrontend
  BY <1>5 DEF ReconcileEvents, ReconcileGateway, ReconcileFrontend, Apply,
              Attached, crVars
<1>6. CASE SkipScript \/ NoReadyPod \/ RunScriptWithSQLError
  BY <1>6 DEF SkipScript, NoReadyPod, RunScriptWithSQLError, Attached, crVars
<1>7. CASE RunScript \/ RunScriptFails \/ RunScriptLosesStream
  <2>1. inst \in AppServices
    BY <1>7 DEF RunScript, RunScriptFails, RunScriptLosesStream, Attached,
                TypeOK, MaybeAppService
  <2>2. inst' # NoAppService
    BY <1>7, <2>1, ResourceUpdate, LogRunType
       DEF RunScript, RunScriptFails, RunScriptLosesStream, ScriptFails
  <2>3. QED
    BY <1>7, <2>2
       DEF RunScript, RunScriptFails, RunScriptLosesStream, ScriptFails,
           Attached, crVars
<1>8. CASE RecordStatus
  BY <1>8 DEF RecordStatus, Attached
<1>9. CASE UserEdits \/ UserDeletes
  BY <1>9 DEF UserEdits, UserDeletes, Attached
<1>10. CASE UNCHANGED <<cr, passVars>>
  BY <1>10 DEF Attached, passVars
<1>11. QED
  BY <1>1, <1>2, <1>3, <1>4, <1>5, <1>6, <1>7, <1>8, <1>9, <1>10
     DEF Next, Reconcile, Environment, DeliverAppService, DeliverDeployments,
         FireTimer, PodStarts, PodRecovers, PodFails, OrphanCommits,
         OrphanDies, MountSync,
         CollectGarbage, vars, crVars

\* Every state is well typed, whatever the bounds and the user's specs are.
THEOREM TypeCorrect == Spec => []TypeOK
<1>1. Init => TypeInv
  BY TypeInit DEF TypeInv, Init, InformerFollows, Attached
<1>2. TypeInv /\ [Next]_vars => TypeInv'
  BY TypeNext, FollowsNext, AttachedNext DEF TypeInv
<1>3. TypeInv => TypeOK
  BY DEF TypeInv
<1>4. QED
  BY <1>1, <1>2, <1>3, PTL DEF Spec
=============================================================================
