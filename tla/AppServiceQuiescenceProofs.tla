--------------------- MODULE AppServiceQuiescenceProofs ---------------------
(***************************************************************************)
(* When nothing will start another pass, an enabled resource has been      *)
(* reconciled in full.                                                     *)
(*                                                                         *)
(* The argument: between two passes either something is there to start one *)
(* (the key is queued, a timer runs, an event of a Deployment is on its    *)
(* way), or the informer has yet to see the generation of the resource,    *)
(* and will queue the key when it does, or all is done.  The last case is  *)
(* the end of a pass that reported NoAction: whatever that pass created or *)
(* could not patch has left an event of a Deployment behind it.            *)
(***************************************************************************)
EXTENDS AppServiceWriteProofs

-----------------------------------------------------------------------------
Woken == dirty \/ delayed \/ depEvent

\* A Deployment the informer does not hold has an event still to come.
UnseenHasEvent == unseen # {} => depEvent

\* What the informer holds or will see is an earlier generation, or has the
\* spec of the resource.
Older(a) ==
  a # NoAppService /\ cr # NoAppService =>
    /\ a.generation <= cr.generation
    /\ a.generation = cr.generation => a.spec = cr.spec

GenerationsKept == Older(cache) /\ \A i \in DOMAIN backlog : Older(backlog[i])

\* The informer has yet to see the generation of the resource.
Pending == cache = NoAppService \/ cache.generation # cr.generation

Done ==
  /\ cr.spec.initialized /\ isValid(cr.spec)
  /\ \A o \in ObjectsOf(cr.spec) : UpToDate(o)
  /\ Recorded
  /\ cr.status.status = "True" /\ cr.status.lastAction = "NoAction"

NobodyForgotten ==
  pc = "idle" /\ cr # NoAppService /\ cr.spec.enabled =>
    Woken \/ Pending \/ Done

AllUpToDate(objects) == \A o \in Elements(objects) : UpToDate(o)

\* What a pass has gone past is up to date, or another pass will come.
PastUpToDate ==
  /\ pc \in {"gateway", "frontend", "script"} \/ ReportsNoAction
       => AllUpToDate(addEvents)
  /\ pc \in {"frontend", "script"} \/ ReportsNoAction
       => AllUpToDate(addGateway(inst.spec))
  /\ pc = "script" \/ ReportsNoAction => AllUpToDate(addFrontend(inst.spec))

AppliedOrWoken ==
  inst # NoAppService /\ ~stale => dirty \/ depEvent \/ PastUpToDate

QuietInv ==
  /\ SuccessInv
  /\ UnseenHasEvent /\ GenerationsKept
  /\ AppliedOrWoken /\ NobodyForgotten

-----------------------------------------------------------------------------
(***************************************************************************)
(* What Apply does to the objects.                                         *)
(***************************************************************************)
\* The patch of a Deployment of this release sets its image and its replicas.
LEMMA PatchedIsUpToDate ==
  ASSUME NEW o \in PatchedDeployments, NEW current \in Object
  PROVE  Patch(o, current).image = Version /\ Patch(o, current).replicas = 2
<1>1. SetVersionLabel(current) \in Object
  <2>1. Version \in Versions /\ 2 \in 0..2
    BY DEF Versions
  <2>2. QED
    BY <2>1, ObjectUpdate DEF SetVersionLabel
<1> DEFINE labelled == SetVersionLabel(current)
<1> HIDE DEF labelled
<1>2. /\ [labelled EXCEPT !.image = Version, !.replicas = 2].image = Version
      /\ [labelled EXCEPT !.image = Version, !.replicas = 2].replicas = 2
  BY <1>1 DEF Object, labelled
<1>3. Patch(o, current) = [labelled EXCEPT !.image = Version, !.replicas = 2]
  BY DEF PatchedDeployments, Patch, EventsDeployment, GatewayDeployment,
         FrontendDeployment, Secret, ConfigMap, VolumeClaim,
         DatabaseDeployment, DatabaseService, EventsService, GatewayService,
         FrontendService, NewEventsDeploymentPatch, NewGatewayDeploymentPatch,
         NewFrontendDeploymentPatch, Routes, GatewayRoute, FrontendRoute,
         labelled
<1>4. QED
  BY <1>2, <1>3

\* Apply keeps what is up to date so, and brings its objects up to date unless
\* it leaves an event of a Deployment behind.
LEMMA ApplyBrings ==
  ASSUME TypeInv, UnseenHasEvent, NEW objects \in Seq(Objects), NEW next,
         Apply(objects, next), inst # NoAppService
  PROVE  /\ \A o \in Objects : UpToDate(o) => UpToDate(o)'
         /\ \/ pc' = next /\ (depEvent' \/ AllUpToDate(objects)')
            \/ pc' = "record" /\ result' = "Error"
         /\ depEvent => depEvent'
         /\ UnseenHasEvent'
         /\ UNCHANGED <<cr, inst, stale, dirty, cache, backlog>>
<1>1. /\ inst.spec \in AppServiceSpec
      /\ objs \in [Objects -> Object \cup {Absent}]
      /\ Deployments \subseteq Objects
      /\ PatchedDeployments \subseteq Deployments
  BY ResourceUpdate
     DEF TypeInv, TypeOK, MaybeAppService, Objects, Deployments
<1>2. \A o \in Objects : Applied(o) \in Object /\ Applied(o) # Absent
  BY <1>1, NewType, PatchType, AbsentAssumption DEF Applied
<1>3. PICK n \in 0..Len(objects) :
        LET done == {objects[i] : i \in 1..n}
        IN  /\ objs' = [o \in Objects |-> IF o \in done THEN Applied(o)
                                                        ELSE objs[o]]
            /\ unseen' = unseen \cup {o \in done \cap Deployments :
                                        objs[o] = Absent}
            /\ depEvent' = (depEvent \/ \E o \in done \cap Deployments :
                                          objs'[o] # objs[o])
            /\ IF n = Len(objects) THEN pc' = next
                                   ELSE pc' = "record" /\ result' = "Error"
  BY DEF Apply, Return
<1> DEFINE done == {objects[i] : i \in 1..n}
<1>4. done \subseteq Objects
  BY <1>3
<1>5. \A o \in Objects : objs'[o] = IF o \in done THEN Applied(o) ELSE objs[o]
  BY <1>3
<1>6. /\ unseen' = unseen \cup {o \in done \cap Deployments : objs[o] = Absent}
      /\ depEvent' = (depEvent \/ \E o \in done \cap Deployments :
                                    objs'[o] # objs[o])
  BY <1>3
<1>7. n = Len(objects) => done = Elements(objects)
  BY <1>3 DEF Elements
<1>8. IF n = Len(objects) THEN pc' = next
                          ELSE pc' = "record" /\ result' = "Error"
  BY <1>3
<1> HIDE DEF done
<1>9. \A o \in Objects : UpToDate(o) => UpToDate(o)'
  <2>1. SUFFICES ASSUME NEW o \in Objects, UpToDate(o)
                 PROVE  UpToDate(o)'
    OBVIOUS
  <2>2. objs[o] \in Object /\ objs[o] # Absent
    BY <1>1, <2>1 DEF UpToDate
  <2>3. objs'[o] # Absent
    BY <1>2, <1>5, <2>2
  <2>4. ASSUME o \in PatchedDeployments
        PROVE  objs'[o].image = Version /\ objs'[o].replicas = 2
    <3>1. objs'[o] = objs[o] \/ objs'[o] = Patch(o, objs[o])
      BY <1>5, <2>2 DEF Applied
    <3>2. QED
      BY <2>1, <2>2, <2>4, <3>1, PatchedIsUpToDate DEF UpToDate
  <2>5. QED
    BY <2>3, <2>4 DEF UpToDate
<1>10. ASSUME NEW o \in done, ~depEvent'
       PROVE  UpToDate(o)'
  <2>1. objs'[o] # Absent /\ o \in Objects
    BY <1>2, <1>4, <1>5
  <2>2. ASSUME o \in PatchedDeployments
        PROVE  objs'[o].image = Version /\ objs'[o].replicas = 2
    <3>1. objs'[o] = objs[o] /\ unseen = {}
      BY <1>1, <1>6, <1>10, <2>2 DEF UnseenHasEvent
    <3>2. objs'[o] = Patch(o, objs[o]) /\ objs[o] \in Object
      BY <1>1, <1>5, <2>1, <3>1 DEF Applied
    <3>3. QED
      BY <2>2, <3>2, PatchedIsUpToDate
  <2>3. QED
    BY <2>1, <2>2 DEF UpToDate
<1>11. UnseenHasEvent'
  BY <1>1, <1>2, <1>4, <1>5, <1>6 DEF UnseenHasEvent
<1>12. UNCHANGED <<cr, inst, stale, dirty, cache, backlog>>
  BY DEF Apply, crVars, queueVars
<1>13. n = Len(objects) => depEvent' \/ AllUpToDate(objects)'
  BY <1>7, <1>10 DEF AllUpToDate
<1>14. QED
  BY <1>6, <1>8, <1>9, <1>11, <1>12, <1>13

-----------------------------------------------------------------------------
(***************************************************************************)
(* The generations the informer sees.                                      *)
(***************************************************************************)
\* A write that leaves the spec alone or starts a new generation.
Advances(resource) ==
  resource # NoAppService =>
    /\ cr # NoAppService
    /\ \/ resource.generation = cr.generation + 1
       \/ resource.generation = cr.generation /\ resource.spec = cr.spec

LEMMA WriteKeepsGenerations ==
  ASSUME TypeOK, GenerationsKept, NEW resource \in MaybeAppService,
         Advances(resource), Write(resource), cache' = cache
  PROVE  GenerationsKept'
<1>1. /\ backlog' = Append(backlog, resource) /\ cr' = resource
      /\ backlog \in Seq(MaybeAppService)
      /\ cr \in MaybeAppService /\ cache \in MaybeAppService
  BY DEF Write, TypeOK
<1>2. ASSUME NEW a \in MaybeAppService, Older(a)
      PROVE  a # NoAppService /\ resource # NoAppService =>
               /\ a.generation <= resource.generation
               /\ a.generation = resource.generation
                    => a.spec = resource.spec
  <2>1. SUFFICES ASSUME a # NoAppService, resource # NoAppService
                 PROVE  /\ a.generation <= resource.generation
                        /\ a.generation = resource.generation
                             => a.spec = resource.spec
    OBVIOUS
  <2>2. a.generation \in Nat /\ cr.generation \in Nat /\ cr # NoAppService
    BY <1>1, <2>1 DEF MaybeAppService, AppServices, Advances
  <2>3. /\ a.generation <= cr.generation
        /\ a.generation = cr.generation => a.spec = cr.spec
    BY <1>2, <2>1, <2>2 DEF Older
  <2>4. CASE resource.generation = cr.generation + 1
    BY <2>2, <2>3, <2>4
  <2>5. CASE resource.generation = cr.generation /\ resource.spec = cr.spec
    BY <2>2, <2>3, <2>5
  <2>6. QED
    BY <2>1, <2>4, <2>5 DEF Advances
<1>3. Older(cache)'
  BY <1>1, <1>2 DEF GenerationsKept, Older
<1>4. \A i \in DOMAIN backlog : backlog[i] \in MaybeAppService
  BY <1>1
<1>5. ASSUME NEW i \in DOMAIN backlog'
      PROVE  \/ backlog'[i] = resource
             \/ i \in DOMAIN backlog /\ backlog'[i] = backlog[i]
  BY <1>1, <1>5
<1>6. ASSUME NEW i \in DOMAIN backlog'
      PROVE  Older(backlog[i])'
  <2>1. CASE backlog'[i] = resource
    <3>1. resource # NoAppService => resource.generation \in Nat
      BY DEF MaybeAppService, AppServices
    <3>2. QED
      BY <1>1, <2>1, <3>1 DEF Older
  <2>2. CASE i \in DOMAIN backlog /\ backlog'[i] = backlog[i]
    <3>1. Older(backlog[i]) /\ backlog[i] \in MaybeAppService
      BY <1>4, <2>2 DEF GenerationsKept
    <3>2. QED
      BY <1>1, <1>2, <2>2, <3>1 DEF Older
  <2>3. QED
    BY <1>5, <1>6, <2>1, <2>2
<1>7. QED
  BY <1>3, <1>6 DEF GenerationsKept

\* What each write of the resource does to its generation.
LEMMA WritesAdvance ==
  ASSUME TypeInv, UpdateInstance \/ RecordStatus \/ UserEdits \/ UserDeletes
  PROVE  \/ UNCHANGED crVars
         \/ \E resource \in MaybeAppService :
              Advances(resource) /\ Write(resource)
<1>0. /\ cr # NoAppService => cr \in AppServices
      /\ pc \in {"update", "record"} => inst \in AppServices
      /\ pc \in {"update", "record"} /\ ~stale => cr # NoAppService
      /\ NoAppService \in MaybeAppService
  BY DEF TypeInv, TypeOK, Attached, MaybeAppService
<1>1. CASE UpdateInstance
  <2>1. PICK resource \in
          {[cr EXCEPT !.spec = inst.spec, !.generation = @ + 1]} :
          UNCHANGED crVars \/ (~stale /\ Write(resource))
    BY <1>1 DEF UpdateInstance
  <2>2. ASSUME ~stale
        PROVE  /\ resource \in MaybeAppService
               /\ resource.generation = cr.generation + 1
               /\ cr # NoAppService
    BY <1>0, <1>1, <2>2, ResourceUpdate DEF UpdateInstance, AppServices
  <2>3. QED
    BY <2>1, <2>2 DEF Advances
<1>2. CASE RecordStatus
  <2>1. PICK resource \in {[cr EXCEPT !.status = RecordedStatus]} :
          UNCHANGED crVars \/ (~stale /\ Write(resource))
    BY <1>2 DEF RecordStatus
  <2>2. RecordedStatus \in AppServiceStatus
    BY <1>0, <1>2, ResourceUpdate, RecordedStatusType
       DEF RecordStatus, RecordedStatus, TypeInv, TypeOK, Results, Attached
  <2>3. ASSUME ~stale
        PROVE  /\ resource \in MaybeAppService
               /\ resource.generation = cr.generation
               /\ resource.spec = cr.spec
               /\ cr # NoAppService
    <3>1. cr \in AppServices /\ cr # NoAppService
      BY <1>0, <1>2, <2>3 DEF RecordStatus
    <3>2. resource \in AppServices
      BY <2>2, <3>1, ResourceUpdate
    <3>3. QED
      BY <3>1, <3>2 DEF AppServices, MaybeAppService
  <2>4. QED
    BY <2>1, <2>3 DEF Advances
<1>3. CASE UserEdits
  <2>1. PICK spec \in UserSpecs :
          Write([cr EXCEPT !.spec = spec, !.generation = @ + 1])
    BY <1>3 DEF UserEdits
  <2>2. cr \in AppServices /\ cr # NoAppService /\ spec \in AppServiceSpec
    BY <1>0, <1>3, <2>1, BoundsAssumption DEF UserEdits
  <2> DEFINE resource == [cr EXCEPT !.spec = spec, !.generation = @ + 1]
  <2>3. resource \in AppServices /\ resource.generation = cr.generation + 1
    BY <2>2, ResourceUpdate DEF AppServices
  <2> HIDE DEF resource
  <2>4. resource \in MaybeAppService /\ Advances(resource)
    BY <2>2, <2>3 DEF Advances, MaybeAppService
  <2>5. QED
    BY <2>1, <2>4 DEF resource
<1>4. CASE UserDeletes
  BY <1>0, <1>4 DEF UserDeletes, Advances
<1>5. QED
  BY <1>1, <1>2, <1>3, <1>4

LEMMA GenerationsNext ==
  TypeInv /\ GenerationsKept /\ [Next]_vars => GenerationsKept'
<1> SUFFICES ASSUME TypeInv, GenerationsKept, [Next]_vars
             PROVE  GenerationsKept'
  OBVIOUS
<1>0. TypeOK /\ backlog \in Seq(MaybeAppService) /\ cr \in MaybeAppService
  BY DEF TypeInv, TypeOK
<1>1. CASE UpdateInstance \/ RecordStatus \/ UserEdits \/ UserDeletes
  <2>1. cache' = cache
    BY <1>1 DEF UpdateInstance, RecordStatus, UserEdits, UserDeletes, queueVars
  <2>2. CASE UNCHANGED crVars
    BY <2>1, <2>2 DEF crVars, GenerationsKept, Older
  <2>3. QED
    BY <1>0, <1>1, <2>1, <2>2, WritesAdvance, WriteKeepsGenerations
<1>2. CASE DeliverAppService
  <2>1. PICK k \in {1, Len(backlog)} :
          cache' = backlog[k] /\ backlog' = SubSeq(backlog, k + 1,
          Len(backlog))
    BY <1>2 DEF DeliverAppService
  <2>2. cr' = cr /\ k \in DOMAIN backlog
    BY <1>0, <1>2, <2>1 DEF DeliverAppService
  <2>3. \A i \in DOMAIN backlog' :
          i + k \in DOMAIN backlog /\ backlog'[i] = backlog[i + k]
    BY <1>0, <2>1, <2>2
  <2>4. QED
    BY <2>1, <2>2, <2>3 DEF GenerationsKept, Older
<1>3. CASE Restart
  <2>1. /\ cr' = cr /\ cache' = NoAppService
        /\ \A i \in DOMAIN backlog' : backlog'[i] = cr
    BY <1>3 DEF Restart
  <2>2. cr # NoAppService => cr.generation \in Nat
    BY <1>0 DEF MaybeAppService, AppServices
  <2>3. QED
    BY <2>1, <2>2 DEF GenerationsKept, Older
<1>4. ASSUME UNCHANGED <<cr, backlog, cache>>
      PROVE  GenerationsKept'
  BY <1>4 DEF GenerationsKept, Older
<1>5. QED
  BY <1>1, <1>2, <1>3, <1>4
     DEF Next, Reconcile, Environment, StartReconcile, GetNotFound, GetFails,
         GetInstance, ReconcileEvents, ReconcileGateway, ReconcileFrontend,
         Apply, SkipScript, NoReadyPod, RunScript, RunScriptWithSQLError,
         RunScriptFails, RunScriptLosesStream, DeliverDeployments, FireTimer,
         PodStarts, PodRecovers, PodFails, OrphanCommits, OrphanDies,
         MountSync, CollectGarbage, vars,
         crVars, queueVars

-----------------------------------------------------------------------------
(***************************************************************************)
(* What a pass leaves behind.                                              *)
(***************************************************************************)
LEMMA ApplyKeepsApplied ==
  ASSUME QuietInv, ReconcileEvents \/ ReconcileGateway \/ ReconcileFrontend
  PROVE  AppliedOrWoken' /\ UnseenHasEvent' /\ pc' # "idle"
<1>1. inst # NoAppService /\ TypeInv /\ UnseenHasEvent
  BY DEF ReconcileEvents, ReconcileGateway, ReconcileFrontend, QuietInv,
         SuccessInv, LogInv, TypeInv, Attached
<1> DEFINE spec == inst.spec
<1>2. ASSUME NEW objects \in Seq(Objects), \A o \in Objects :
               UpToDate(o) => UpToDate(o)', AllUpToDate(objects)
      PROVE  \A o \in Elements(objects) : UpToDate(o)'
  BY <1>2 DEF AllUpToDate, Elements
<1>3. CASE ReconcileEvents
  <2>1. /\ \/ pc' = "gateway" /\ (depEvent' \/ AllUpToDate(addEvents)')
           \/ pc' = "record" /\ result' = "Error"
        /\ UnseenHasEvent'
        /\ UNCHANGED <<inst, stale>>
    BY <1>1, <1>3, ObjectLists, ApplyBrings DEF ReconcileEvents
  <2>2. QED
    BY <2>1 DEF AppliedOrWoken, PastUpToDate, ReportsNoAction
<1>4. CASE ReconcileGateway
  <2>1. /\ \A o \in Objects : UpToDate(o) => UpToDate(o)'
        /\ \/ pc' = "frontend" /\ (depEvent' \/ AllUpToDate(addGateway(spec))')
           \/ pc' = "record" /\ result' = "Error"
        /\ depEvent => depEvent'
        /\ UnseenHasEvent'
        /\ UNCHANGED <<inst, stale, dirty>>
    BY <1>1, <1>4, ObjectLists, ApplyBrings DEF ReconcileGateway, AllUpToDate
  <2>2. AllUpToDate(addEvents) => AllUpToDate(addEvents)'
    BY <1>2, <2>1, ObjectLists DEF AllUpToDate
  <2>3. QED
    BY <1>1, <1>4, <2>1, <2>2
       DEF QuietInv, ReconcileGateway, AppliedOrWoken, PastUpToDate,
           ReportsNoAction
<1>5. CASE ReconcileFrontend
  <2>1. /\ \A o \in Objects : UpToDate(o) => UpToDate(o)'
        /\ \/ pc' = "script" /\ (depEvent' \/ AllUpToDate(addFrontend(spec))')
           \/ pc' = "record" /\ result' = "Error"
        /\ depEvent => depEvent'
        /\ UnseenHasEvent'
        /\ UNCHANGED <<inst, stale, dirty>>
    BY <1>1, <1>5, ObjectLists, ApplyBrings DEF ReconcileFrontend, AllUpToDate
  <2>2. /\ AllUpToDate(addEvents) => AllUpToDate(addEvents)'
        /\ AllUpToDate(addGateway(spec)) => AllUpToDate(addGateway(spec))'
    BY <1>2, <2>1, ObjectLists DEF AllUpToDate
  <2>3. QED
    BY <1>1, <1>5, <2>1, <2>2
       DEF QuietInv, ReconcileFrontend, AppliedOrWoken, PastUpToDate,
           ReportsNoAction
<1>6. QED
  BY <1>3, <1>4, <1>5

LEMMA ScriptKeepsApplied ==
  ASSUME QuietInv,
         \/ SkipScript \/ NoReadyPod \/ RunScript \/ RunScriptWithSQLError
         \/ RunScriptFails \/ RunScriptLosesStream
  PROVE  AppliedOrWoken' /\ UnseenHasEvent' /\ pc' # "idle"
<1>1. pc = "script" /\ inst # NoAppService /\ inst \in AppServices
  BY DEF SkipScript, NoReadyPod, RunScript, RunScriptWithSQLError,
         RunScriptFails, RunScriptLosesStream, QuietInv, SuccessInv, LogInv,
         TypeInv, TypeOK, Attached, MaybeAppService
<1>2. /\ UNCHANGED <<stale, objs, unseen, depEvent, dirty>>
      /\ pc' = "record"
  BY DEF SkipScript, NoReadyPod, RunScript, RunScriptWithSQLError,
         RunScriptFails, ScriptFails, RunScriptLosesStream, ownedVars,
         queueVars, Return
<1>3. inst'.spec = inst.spec
  BY <1>1
     DEF SkipScript, NoReadyPod, RunScript, RunScriptWithSQLError,
         RunScriptFails, ScriptFails, RunScriptLosesStream, AppServices
<1>4. QED
  BY <1>1, <1>2, <1>3
     DEF QuietInv, AppliedOrWoken, PastUpToDate, AllUpToDate, UpToDate,
         ReportsNoAction, UnseenHasEvent

LEMMA AppliedNext ==
  QuietInv /\ [Next]_vars => AppliedOrWoken' /\ UnseenHasEvent'
<1> SUFFICES ASSUME QuietInv, [Next]_vars
             PROVE  AppliedOrWoken' /\ UnseenHasEvent'
  OBVIOUS
<1> USE DEF EndPass, Return
<1>0. /\ Attached /\ UnseenHasEvent /\ AppliedOrWoken
  BY DEF QuietInv, SuccessInv, LogInv, TypeInv
<1>1. CASE StartReconcile
  BY <1>0, <1>1
     DEF StartReconcile, Attached, AppliedOrWoken, UnseenHasEvent, ownedVars
<1>2. CASE GetNotFound \/ GetFails \/ RecordStatus \/ Restart
  BY <1>0, <1>2
     DEF GetNotFound, GetFails, RecordStatus, Restart, AppliedOrWoken,
         UnseenHasEvent, ownedVars
<1>3. CASE GetInstance
  BY <1>0, <1>3
     DEF GetInstance, AppliedOrWoken, PastUpToDate, ReportsNoAction,
         UnseenHasEvent, ownedVars
<1>4. CASE UpdateInstance
  BY <1>0, <1>4
     DEF UpdateInstance, AppliedOrWoken, PastUpToDate, ReportsNoAction,
         UnseenHasEvent, ownedVars
<1>5. CASE ReconcileEvents \/ ReconcileGateway \/ ReconcileFrontend
  BY <1>5, ApplyKeepsApplied
<1>6. CASE \/ SkipScript \/ NoReadyPod \/ RunScript \/ RunScriptWithSQLError
           \/ RunScriptFails \/ RunScriptLosesStream
  BY <1>6, ScriptKeepsApplied
<1>7. CASE UserEdits \/ UserDeletes
  BY <1>0, <1>7
     DEF UserEdits, UserDeletes, AppliedOrWoken, UnseenHasEvent, ownedVars
<1>8. CASE CollectGarbage
  BY <1>0, <1>8
     DEF CollectGarbage, Attached, AppliedOrWoken, UnseenHasEvent, passVars
<1>9. ASSUME \/ DeliverAppService \/ FireTimer
             \/ PodStarts \/ PodRecovers \/ PodFails
             \/ OrphanCommits \/ OrphanDies \/ MountSync
             \/ UNCHANGED vars
      PROVE  /\ UNCHANGED <<pc, inst, stale, result, objs, unseen>>
             /\ dirty => dirty'
             /\ depEvent => depEvent'
  <2>1. UNCHANGED <<pc, inst, stale, result, objs, unseen>>
    BY <1>9 DEF DeliverAppService, FireTimer, PodStarts, PodRecovers,
                PodFails, OrphanCommits, OrphanDies, MountSync, ownedVars,
                passVars, vars
  <2>2. dirty => dirty'
    BY <1>9 DEF DeliverAppService, FireTimer, PodStarts, PodRecovers,
                PodFails, OrphanCommits, OrphanDies, MountSync, queueVars, vars
  <2>3. depEvent => depEvent'
    BY <1>9 DEF DeliverAppService, FireTimer, PodStarts, PodRecovers,
                PodFails, OrphanCommits, OrphanDies, MountSync, ownedVars, vars
  <2>4. QED
    BY <2>1, <2>2, <2>3
<1>10. ASSUME UNCHANGED <<pc, inst, stale, result, objs, unseen>>,
              dirty => dirty', depEvent => depEvent'
       PROVE  AppliedOrWoken' /\ UnseenHasEvent'
  BY <1>0, <1>10
     DEF AppliedOrWoken, PastUpToDate, AllUpToDate, UpToDate, ReportsNoAction,
         UnseenHasEvent
<1>11. CASE DeliverDeployments
  BY <1>11 DEF DeliverDeployments, AppliedOrWoken, UnseenHasEvent
<1>12. QED
  BY <1>1, <1>2, <1>3, <1>4, <1>5, <1>6, <1>7, <1>8, <1>9, <1>10, <1>11
     DEF Next, Reconcile, Environment

-----------------------------------------------------------------------------
(***************************************************************************)
(* Nobody is forgotten.                                                    *)
(***************************************************************************)
\* The last write of a pass: either the pass will be repeated, or it reported
\* NoAction, and then all is done unless an event is on its way.
LEMMA RecordForgetsNobody ==
  ASSUME QuietInv, RecordStatus, cr' # NoAppService
  PROVE  Woken' \/ Done'
<1>1. /\ inst # NoAppService /\ inst \in AppServices /\ pc = "record"
      /\ ~stale => cr \in AppServices
      /\ UNCHANGED <<objs, depEvent, dirty>>
  BY DEF RecordStatus, QuietInv, SuccessInv, LogInv, TypeInv, TypeOK, Attached,
         MaybeAppService, ownedVars
<1>2. CASE delayed'
  BY <1>2 DEF Woken
<1>3. CASE dirty \/ depEvent
  BY <1>1, <1>3 DEF Woken
<1>4. CASE ~delayed' /\ ~dirty /\ ~depEvent
  <2>1. /\ ~stale /\ result = "NoAction"
        /\ Write([cr EXCEPT !.status = RecordedStatus])
    BY <1>4 DEF RecordStatus
  <2>2. cr'.spec = inst.spec /\ cr'.status = RecordedStatus
    <3>1. cr'.spec = cr.spec /\ cr'.status = RecordedStatus
      BY <1>1, <2>1 DEF Write, AppServices
    <3>2. QED
      BY <1>1, <2>1, <3>1
         DEF QuietInv, SuccessInv, Progress, ReportsNoAction
  <2>3. /\ inst.spec.initialized /\ isValid(inst.spec)
        /\ CurrentDatabaseScriptWasRun(inst.status)
    BY <1>1, <2>1 DEF QuietInv, SuccessInv, Progress, ReportsNoAction
  <2>4. \A o \in ObjectsOf(inst.spec) : UpToDate(o)
    BY <1>1, <1>4, <2>1
       DEF QuietInv, AppliedOrWoken, PastUpToDate, ReportsNoAction,
           AllUpToDate, ObjectsOf
  <2>5. \A o \in ObjectsOf(cr'.spec) : UpToDate(o)'
    BY <1>1, <2>2, <2>4 DEF UpToDate
  <2>6. /\ cr'.status.status = "True" /\ cr'.status.lastAction = "NoAction"
        /\ cr'.status.runs = inst.status.runs
    BY <1>1, <2>1, <2>2
       DEF RecordedStatus, SuccessStatus, AppServices, AppServiceStatus
  <2>7. Recorded'
    BY <2>3, <2>6 DEF Recorded, CurrentDatabaseScriptWasRun
  <2>8. QED
    BY <2>2, <2>3, <2>5, <2>6, <2>7 DEF Done
<1>5. QED
  BY <1>2, <1>3, <1>4

\* A delivery that brings the informer to the generation of an enabled resource
\* passes the filter.
LEMMA DeliveryWakes ==
  ASSUME TypeInv, GenerationsKept, DeliverAppService, Pending,
         cr # NoAppService, cr.spec.enabled
  PROVE  dirty' \/ Pending'
<1>1. PICK k \in {1, Len(backlog)} :
        /\ cache' = backlog[k]
        /\ dirty' = (dirty \/ appServicePredicate(cache, backlog[k]))
  BY DEF DeliverAppService
<1>2. cr' = cr /\ k \in DOMAIN backlog
  BY <1>1 DEF DeliverAppService, TypeInv, TypeOK
<1>3. CASE cache' = NoAppService \/ cache'.generation # cr.generation
  BY <1>2, <1>3 DEF Pending
<1>4. CASE cache' # NoAppService /\ cache'.generation = cr.generation
  <2>1. cache'.spec.enabled
    BY <1>1, <1>2, <1>4 DEF GenerationsKept, Older
  <2>2. appServicePredicate(cache, backlog[k])
    BY <1>1, <1>4, <2>1 DEF appServicePredicate, Pending
  <2>3. QED
    BY <1>1, <2>2
<1>5. QED
  BY <1>3, <1>4

LEMMA ForgottenNext == QuietInv /\ [Next]_vars => NobodyForgotten'
<1> SUFFICES ASSUME QuietInv, [Next]_vars,
                    pc' = "idle", cr' # NoAppService, cr'.spec.enabled
             PROVE  Woken' \/ Pending' \/ Done'
  BY DEF NobodyForgotten
<1> USE DEF EndPass, Return
<1>0. TypeInv /\ TypeOK /\ Attached /\ NobodyForgotten /\ GenerationsKept
  BY DEF QuietInv, SuccessInv, LogInv, TypeInv
<1>1. CASE GetNotFound
  BY <1>1 DEF GetNotFound, queueVars, Pending
<1>2. CASE GetFails
  BY <1>2 DEF GetFails, Woken
<1>3. CASE UpdateInstance \/ UserEdits
  <2>1. /\ cache' = cache /\ cr # NoAppService /\ cr \in AppServices
        /\ cr'.generation = cr.generation + 1
    <3>1. cr # NoAppService /\ cr \in AppServices
      BY <1>0, <1>3 DEF UpdateInstance, UserEdits, Attached, TypeOK,
                        MaybeAppService
    <3>2. cr'.generation = cr.generation + 1
      BY <1>3, <3>1 DEF UpdateInstance, UserEdits, Write, AppServices
    <3>3. QED
      BY <1>3, <3>1, <3>2 DEF UpdateInstance, UserEdits, queueVars
  <2>2. cache # NoAppService => cache.generation <= cr.generation
    BY <1>0, <2>1 DEF GenerationsKept, Older
  <2>3. /\ cr.generation \in Nat
        /\ cache # NoAppService => cache.generation \in Nat
    BY <1>0, <2>1 DEF TypeOK, MaybeAppService, AppServices
  <2>4. QED
    BY <2>1, <2>2, <2>3 DEF Pending
<1>4. CASE RecordStatus
  BY <1>4, RecordForgetsNobody
<1>5. CASE Restart
  BY <1>5 DEF Restart, Pending
<1>6. CASE DeliverDeployments \/ FireTimer
  BY <1>6 DEF DeliverDeployments, FireTimer, Woken
<1>7. CASE PodStarts \/ PodRecovers \/ PodFails
  BY <1>7 DEF PodStarts, PodRecovers, PodFails, Woken
<1>8. CASE DeliverAppService
  <2>1. /\ UNCHANGED <<pc, cr, objs, delayed, depEvent>>
        /\ dirty => dirty'
    BY <1>8 DEF DeliverAppService, passVars, ownedVars
  <2>2. CASE Woken \/ Done
    BY <2>1, <2>2 DEF Woken, Done, UpToDate, Recorded
  <2>3. CASE Pending
    BY <1>0, <1>8, <2>1, <2>3, DeliveryWakes DEF Woken
  <2>4. QED
    BY <1>0, <2>1, <2>2, <2>3 DEF NobodyForgotten
<1>9. ASSUME OrphanCommits \/ OrphanDies \/ MountSync \/ UNCHANGED vars
      PROVE  Woken' \/ Pending' \/ Done'
  <2>1. UNCHANGED <<pc, cr, cache, objs, dirty, delayed, depEvent>>
    BY <1>9 DEF OrphanCommits, OrphanDies, MountSync, crVars, ownedVars,
                queueVars, passVars, vars
  <2>2. QED
    BY <1>0, <2>1
       DEF NobodyForgotten, Woken, Pending, Done, UpToDate, Recorded
<1>10. ASSUME UserDeletes \/ CollectGarbage
       PROVE  FALSE
  BY <1>10 DEF UserDeletes, CollectGarbage, Write, crVars
<1>11. ASSUME \/ StartReconcile \/ GetInstance
              \/ ReconcileEvents \/ ReconcileGateway \/ ReconcileFrontend
              \/ SkipScript \/ NoReadyPod \/ RunScript
              \/ RunScriptWithSQLError \/ RunScriptFails
              \/ RunScriptLosesStream
       PROVE  FALSE
  <2>1. CASE StartReconcile \/ GetInstance
    BY <2>1 DEF StartReconcile, GetInstance
  <2>2. CASE ReconcileEvents \/ ReconcileGateway \/ ReconcileFrontend
    BY <2>2, ApplyKeepsApplied
  <2>3. CASE \/ SkipScript \/ NoReadyPod \/ RunScript
             \/ RunScriptWithSQLError \/ RunScriptFails
             \/ RunScriptLosesStream
    BY <2>3, ScriptKeepsApplied
  <2>4. QED
    BY <1>11, <2>1, <2>2, <2>3
<1>12. QED
  BY <1>1, <1>2, <1>3, <1>4, <1>5, <1>6, <1>7, <1>8, <1>9, <1>10, <1>11
     DEF Next, Reconcile, Environment

LEMMA QuietInvHolds == Spec => []QuietInv
<1> DEFINE Quiet == /\ UnseenHasEvent /\ GenerationsKept
                    /\ AppliedOrWoken /\ NobodyForgotten
<1>1. Init => Quiet
  <2>1. ASSUME Init PROVE GenerationsKept
    <3>1. cr \in AppServices /\ backlog = <<cr>> /\ cache = NoAppService
      BY <2>1, InitResource DEF Init
    <3>2. cr.generation \in Nat
      BY <3>1 DEF AppServices
    <3>3. QED
      BY <3>1, <3>2 DEF GenerationsKept, Older
  <2>2. QED
    BY <2>1 DEF Init, UnseenHasEvent, AppliedOrWoken, NobodyForgotten, Pending
<1>2. SuccessInv /\ Quiet /\ [Next]_vars => Quiet'
  BY GenerationsNext, AppliedNext, ForgottenNext
     DEF QuietInv, SuccessInv, LogInv
<1>3. Spec => []Quiet
  <2> HIDE DEF Quiet
  <2>1. QED
    BY <1>1, <1>2, SuccessInvHolds, PTL DEF Spec
<1>4. SuccessInv /\ Quiet => QuietInv
  BY DEF QuietInv
<1>5. QED
  BY <1>3, <1>4, SuccessInvHolds, PTL

\* At rest, with nothing left that would start another pass, an enabled resource
\* is initialized, valid, deployed, migrated and reported so: no fault, edit or
\* restart, at whatever point of a pass, leaves it half done for ever.
THEOREM QuiescentMeansReconciledHolds == Spec => []QuiescentMeansReconciled
<1>1. QuietInv => QuiescentMeansReconciled
  <2>1. SUFFICES ASSUME QuietInv, Quiescent, cr # NoAppService,
                        cr.spec.enabled
                 PROVE  Done
    BY DEF QuiescentMeansReconciled, Done
  <2>2. ~Woken /\ pc = "idle"
    BY <2>1 DEF Quiescent, Woken
  <2>3. cache = cr
    BY <2>1 DEF Quiescent, QuietInv, SuccessInv, LogInv, TypeInv,
                InformerFollows
  <2>4. ~Pending
    BY <2>1, <2>3 DEF Pending
  <2>5. QED
    BY <2>1, <2>2, <2>4 DEF QuietInv, NobodyForgotten
<1>2. QED
  BY <1>1, QuietInvHolds, PTL
=============================================================================
