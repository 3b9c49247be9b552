------------------------ MODULE AppServiceController ------------------------
(***************************************************************************)
(* The AppService controller (controllers/*.go): the reconcile loop of one *)
(* AppService, with what it runs against: the API server, the informers it *)
(* reads through, the work queue, the pod of the events database, the user *)
(* who edits the resource, and crashes of the operator.                    *)
(*                                                                         *)
(* A pass of Reconcile is split where another actor can get between two of *)
(* its calls: reading the resource, writing its initialization, applying   *)
(* the objects of Events, of Gateway and of Frontend, running the update   *)
(* script, writing the status.  The queue hands a key to one worker at a   *)
(* time, so there is one pass at once.                                     *)
(***************************************************************************)
EXTENDS Resources, Integers, FiniteSets

CONSTANTS
  UserSpecs,      \* the specs the user creates or writes
  MaxEdits,       \* bound on the user's writes
  MaxFaults,      \* bound on failed calls, failed scripts and pod failures
  MaxRestarts,    \* bound on restarts of the operator
  MaxStaleReads   \* bound on passes that start from an outdated resource

ASSUME BoundsAssumption ==
  /\ UserSpecs \subseteq AppServiceSpec
  /\ MaxEdits \in Nat /\ MaxFaults \in Nat
  /\ MaxRestarts \in Nat /\ MaxStaleReads \in Nat

VARIABLES
  \* The API server.
  cr,         \* the custom resource
  objs,       \* the owned objects
  \* The informers and the work queue.
  backlog,    \* versions of the resource its informer has still to see
  cache,      \* the version its informer holds
  unseen,     \* Deployments created that their informer has not seen
  depEvent,   \* is an event of an owned Deployment still to be delivered?
  dirty,      \* is the key in the work queue?
  delayed,    \* is it to be added again later (RequeueAfter or back-off)?
  \* The pass of Reconcile under way.
  pc,         \* where it is
  inst,       \* its copy of the resource, `instance' in the code
  stale,      \* is the resourceVersion of inst no longer that of cr?
  exec,       \* what the remote command of this pass did
  result,     \* what it passes to ManageError or ManageSuccess
  \* The events database.
  pod,        \* its pod
  mounted,    \* is the update script in the pod's volume?
  runCount,   \* run_count of this release in the table operator_version
  orphans,    \* runs of the script that no pass waits for any more
  \* Accounting.
  lost,       \* runs of the script that the status will never mention
  budget      \* what is used of the bounds

crVars == <<cr, backlog>>
ownedVars == <<objs, unseen, depEvent>>
queueVars == <<cache, dirty, delayed>>
passVars == <<pc, inst, stale, exec, result>>
databaseVars == <<pod, mounted, runCount, orphans, lost>>
vars == <<crVars, ownedVars, queueVars, passVars, databaseVars, budget>>

-----------------------------------------------------------------------------
Locations ==
  {"idle", "get", "update", "events", "gateway", "frontend", "script",
   "record"}
Results == {"none", "Error", "RequeueEvent", "NoAction"}
Outcomes == {"none", "clean", "sqlerror", "failed"}

Budgets ==
  [edits : 0..MaxEdits, faults : 0..MaxFaults,
   restarts : 0..MaxRestarts, staleReads : 0..MaxStaleReads]

TypeOK ==
  /\ cr \in MaybeAppService
  /\ objs \in [Objects -> Object \cup {Absent}]
  /\ backlog \in Seq(MaybeAppService)
  /\ cache \in MaybeAppService
  /\ unseen \in SUBSET Deployments
  /\ depEvent \in BOOLEAN /\ dirty \in BOOLEAN /\ delayed \in BOOLEAN
  /\ pc \in Locations
  /\ inst \in MaybeAppService
  /\ stale \in BOOLEAN
  /\ exec \in Outcomes
  /\ result \in Results
  /\ pod \in {"none", "notReady", "ready"}
  /\ mounted \in BOOLEAN
  /\ runCount \in Nat /\ orphans \in Nat /\ lost \in Nat
  /\ budget \in Budgets

-----------------------------------------------------------------------------
\* An installation of the previous release, which is taken to have done with
\* its version and its script what this release does with its own.
InheritedStatus ==
  [status |-> "True", lastAction |-> "NoAction",
   eventsDatabaseUpdated |-> "Succeeded",
   runs |-> <<[script |-> PreviousScriptName, status |-> "Succeeded"]>>]

InheritedObject(o, spec) ==
  LET current == Patch(o, New(o, spec))
      previous(version) == IF version = Version THEN PreviousVersion
                                                ELSE version
  IN  [current EXCEPT !.version = previous(@), !.image = previous(@),
                      !.scripts = IF o = ConfigMap THEN {PreviousScriptName}
                                                   ELSE {}]

\* Either the user has just created the resource, or the operator has just
\* been upgraded in a namespace where the previous release did its work.
Init ==
  /\ \E spec \in UserSpecs :
       \/ /\ cr = [generation |-> 1, spec |-> spec, status |-> EmptyStatus]
          /\ objs = [o \in Objects |-> Absent]
          /\ pod = "none"
          /\ depEvent = FALSE
       \/ /\ spec.initialized /\ isValid(spec)
          /\ \A o \in ObjectsOf(spec) : ~Rejected(o, spec)
          /\ cr = [generation |-> 1, spec |-> spec,
                   status |-> InheritedStatus]
          /\ objs = [o \in Objects |-> IF o \in ObjectsOf(spec)
                                         THEN InheritedObject(o, spec)
                                         ELSE Absent]
          /\ pod = "ready"
          /\ depEvent = TRUE
  /\ backlog = <<cr>>
  /\ cache = NoAppService
  /\ unseen = {}
  /\ dirty = FALSE /\ delayed = FALSE
  /\ pc = "idle" /\ inst = NoAppService /\ stale = FALSE
  /\ exec = "none" /\ result = "none"
  /\ mounted = FALSE
  /\ runCount = 0 /\ orphans = 0 /\ lost = 0
  /\ budget = [edits |-> 0, faults |-> 0, restarts |-> 0, staleReads |-> 0]

-----------------------------------------------------------------------------
\* One unit of a bound is used.
Spend(kind, bound) ==
  budget[kind] < bound /\ budget' = [budget EXCEPT ![kind] = @ + 1]
Fault == Spend("faults", MaxFaults)
NoFault == UNCHANGED budget

Write(resource) ==
  /\ cr' = resource
  /\ backlog' = Append(backlog, resource)

\* Reconcile returns; the controller forgets the pass.
EndPass ==
  /\ pc' = "idle" /\ inst' = NoAppService /\ stale' = FALSE
  /\ exec' = "none" /\ result' = "none"

Return(outcome) == pc' = "record" /\ result' = outcome

\* A worker takes the key from the queue.
StartReconcile ==
  /\ pc = "idle" /\ dirty
  /\ dirty' = FALSE
  /\ pc' = "get"
  /\ UNCHANGED <<crVars, ownedVars, cache, delayed, inst, stale, exec,
                 result, databaseVars, budget>>

\* Mutant: a resource that is not found is asked for again.
RequeueNotFound ==
  /\ pc = "get" /\ cache = NoAppService
  /\ delayed' = TRUE
  /\ EndPass
  /\ UNCHANGED <<crVars, ownedVars, cache, dirty, databaseVars, budget>>

\* r.Client.Get reads from the informer; a failure other than NotFound goes
\* back to the queue with back-off.
GetNotFound ==
  /\ pc = "get" /\ cache = NoAppService
  /\ EndPass
  /\ UNCHANGED <<crVars, ownedVars, queueVars, databaseVars, budget>>

GetFails ==
  /\ pc = "get" /\ Fault
  /\ delayed' = TRUE
  /\ EndPass
  /\ UNCHANGED <<crVars, ownedVars, cache, dirty, databaseVars>>

GetInstance ==
  /\ pc = "get" /\ cache # NoAppService
  /\ IF backlog = <<>> THEN NoFault
                       ELSE Spend("staleReads", MaxStaleReads)
  /\ stale' = (backlog # <<>>)
  /\ IF ~isValid(cache.spec)
       THEN inst' = cache /\ Return("Error")
       ELSE /\ result' = "none"
            /\ IF cache.spec.initialized
                 THEN inst' = cache /\ pc' = "events"
                 ELSE /\ inst' = [cache EXCEPT !.spec = initialize(@)]
                      /\ pc' = "update"
  /\ UNCHANGED <<crVars, ownedVars, queueVars, exec, databaseVars>>

\* Mutant: the write does not depend on the version that was read.
UpdateUnconditionally ==
  /\ pc = "update" /\ cr # NoAppService
  /\ NoFault
  /\ Write([cr EXCEPT !.spec = inst.spec, !.generation = @ + 1])
  /\ EndPass
  /\ UNCHANGED <<ownedVars, queueVars, databaseVars>>

\* r.Client.Update of the initialized resource, and the end of the pass: the
\* event of this very write is to start the next one.
UpdateInstance ==
  /\ pc = "update"
  /\ \/ /\ ~stale /\ NoFault
        /\ Write([cr EXCEPT !.spec = inst.spec, !.generation = @ + 1])
        /\ EndPass
     \/ /\ stale /\ NoFault                  \* Conflict or NotFound
        /\ Return("Error")
        /\ UNCHANGED <<crVars, inst, stale, exec>>
     \/ /\ Fault                             \* the request is lost
        /\ Return("Error")
        /\ UNCHANGED <<crVars, inst, stale, exec>>
     \/ /\ ~stale /\ Fault                   \* the response is lost
        /\ Write([cr EXCEPT !.spec = inst.spec, !.generation = @ + 1])
        /\ stale' = TRUE
        /\ Return("Error")
        /\ UNCHANGED <<inst, exec>>
  /\ UNCHANGED <<ownedVars, queueVars, databaseVars>>

\* What an object is once the pass has applied it.  When Create answers
\* AlreadyExists and the informer does not hold the object yet, Get fails and
\* the code carries on without a patch.  Only for a Deployment does that matter
\* here: of the other kinds, a new object lacks but the version label.
Applied(o) ==
  IF objs[o] = Absent THEN New(o, inst.spec)
  ELSE IF o \in unseen THEN objs[o]
  ELSE Patch(o, objs[o])

\* Mutant: an error does not end the pass.
ApplyIgnoringErrors(objects, next) ==
  LET done == {o \in Elements(objects) : ~Rejected(o, inst.spec)}
  IN  /\ NoFault /\ pc' = next
      /\ objs' = [o \in Objects |-> IF o \in done THEN Applied(o)
                                                   ELSE objs[o]]
      /\ unseen' = unseen \cup {o \in done \cap Deployments :
                                objs[o] = Absent}
      /\ depEvent' = (depEvent \/ \E o \in done \cap Deployments :
                                    objs'[o] # objs[o])
      /\ UNCHANGED <<crVars, queueVars, inst, stale, exec, result,
                     databaseVars>>

\* One after the other, each object is created or, if it exists, patched.  The
\* first n were; then either none is left or the next call failed.
Apply(objects, next) ==
  \E n \in 0..Len(objects) :
    LET done == {objects[i] : i \in 1..n}
    IN  /\ \A o \in done : ~Rejected(o, inst.spec)
        /\ IF n = Len(objects)
             THEN NoFault /\ pc' = next /\ UNCHANGED result
             ELSE /\ Return("Error")
                  /\ IF Rejected(objects[n + 1], inst.spec) THEN NoFault
                                                            ELSE Fault
        /\ objs' = [o \in Objects |-> IF o \in done THEN Applied(o)
                                                     ELSE objs[o]]
        /\ unseen' = unseen \cup {o \in done \cap Deployments :
                                  objs[o] = Absent}
        /\ depEvent' = (depEvent \/ \E o \in done \cap Deployments :
                                      objs'[o] # objs[o])
        /\ UNCHANGED <<crVars, queueVars, inst, stale, exec, databaseVars>>

ReconcileEvents == pc = "events" /\ Apply(addEvents, "gateway")
ReconcileGateway == pc = "gateway" /\ Apply(addGateway(inst.spec), "frontend")
ReconcileFrontend == pc = "frontend" /\ Apply(addFrontend(inst.spec), "script")

\* The update of the events database.
ScriptNeeded == ~CurrentDatabaseScriptWasRun(inst.status)

ScriptFails ==
  /\ Return("Error")
  /\ exec' = "failed"
  /\ inst' = [inst EXCEPT !.status = LogRun(@, "Failed")]

SkipScript ==
  /\ pc = "script" /\ ~ScriptNeeded
  /\ Return("NoAction")
  /\ UNCHANGED <<crVars, ownedVars, queueVars, inst, stale, exec,
                 databaseVars, budget>>

\* No pod of the database runs and is ready, or none does in the list, which
\* comes from an informer.
NoReadyPod ==
  /\ pc = "script" /\ ScriptNeeded
  /\ IF pod = "ready" THEN Fault ELSE NoFault
  /\ Return("RequeueEvent")
  /\ UNCHANGED <<crVars, ownedVars, queueVars, inst, stale, exec,
                 databaseVars>>

\* psql runs the script, without an error in what it prints.
RunScript ==
  /\ pc = "script" /\ ScriptNeeded /\ pod = "ready" /\ mounted
  /\ Return("NoAction")
  /\ exec' = "clean"
  /\ inst' = [inst EXCEPT !.status = LogRun(@, "Succeeded")]
  /\ runCount' = runCount + 1
  /\ UNCHANGED <<crVars, ownedVars, queueVars, stale, pod, mounted, orphans,
                 lost, budget>>

\* Mutant: what psql prints is not searched for an error.
RunScriptIgnoringOutput ==
  /\ pc = "script" /\ ScriptNeeded /\ pod = "ready" /\ mounted /\ Fault
  /\ Return("NoAction")
  /\ exec' = "sqlerror"
  /\ inst' = [inst EXCEPT !.status = LogRun(@, "Succeeded")]
  /\ UNCHANGED <<crVars, ownedVars, queueVars, stale, databaseVars>>

\* psql prints an error and rolls back.  errors.Wrapf of a nil error is nil:
\* UpdateEventsDatabase returns (false, nil), as when no pod is ready.
RunScriptWithSQLError ==
  /\ pc = "script" /\ ScriptNeeded /\ pod = "ready" /\ mounted /\ Fault
  /\ Return("RequeueEvent")
  /\ exec' = "sqlerror"
  /\ UNCHANGED <<crVars, ownedVars, queueVars, inst, stale, databaseVars>>

\* Listing the pods or opening the stream fails, the pod of the list is no
\* longer there, or psql does not find the script because the volume does not
\* have it yet.
RunScriptFails ==
  /\ pc = "script" /\ ScriptNeeded /\ Fault
  /\ ScriptFails
  /\ UNCHANGED <<crVars, ownedVars, queueVars, stale, databaseVars>>

\* The stream breaks once psql has been started.  That ends the call; psql goes
\* on in the pod, and the pass will not know what becomes of it.
RunScriptLosesStream ==
  /\ pc = "script" /\ ScriptNeeded /\ pod = "ready" /\ mounted /\ Fault
  /\ ScriptFails
  /\ orphans' = orphans + 1
  /\ UNCHANGED <<crVars, ownedVars, queueVars, stale, pod, mounted, runCount,
                 lost>>

\* A run that only this pass knows of is forgotten.
LoseRun == lost' = IF exec = "clean" THEN lost + 1 ELSE lost

\* ManageError and ManageSuccess: the status is written under the
\* resourceVersion of inst.  A write that fails is tried again by a new pass,
\* which knows nothing of this one.
RecordedStatus ==
  IF result = "Error" THEN ErrorStatus(inst.status)
                      ELSE SuccessStatus(inst.status, result)

\* Mutant: the status is written over whatever version there is.
RecordUnconditionally ==
  /\ pc = "record" /\ cr # NoAppService
  /\ NoFault
  /\ Write([cr EXCEPT !.status = RecordedStatus])
  /\ delayed' = (delayed \/ result # "NoAction")
  /\ EndPass
  /\ UNCHANGED <<ownedVars, cache, dirty, databaseVars>>

\* Mutant: a write that failed is not tried again.
RecordOnce ==
  /\ pc = "record"
  /\ \/ /\ ~stale
        /\ Write([cr EXCEPT !.status = RecordedStatus])
        /\ NoFault
        /\ delayed' = (delayed \/ result # "NoAction")
        /\ UNCHANGED lost
     \/ /\ IF stale THEN NoFault ELSE Fault
        /\ LoseRun
        /\ UNCHANGED <<crVars, delayed>>
  /\ EndPass
  /\ UNCHANGED <<ownedVars, cache, dirty, pod, mounted, runCount, orphans>>

RecordStatus ==
  /\ pc = "record"
  /\ \/ /\ ~stale
        /\ Write([cr EXCEPT !.status = RecordedStatus])
        /\ \/ NoFault /\ delayed' = (delayed \/ result # "NoAction")
           \/ Fault /\ delayed' = TRUE       \* the response is lost
        /\ UNCHANGED lost
     \/ /\ IF stale THEN NoFault ELSE Fault
        /\ delayed' = TRUE
        /\ LoseRun
        /\ UNCHANGED crVars
  /\ EndPass
  /\ UNCHANGED <<ownedVars, cache, dirty, pod, mounted, runCount, orphans>>

Reconcile ==
  \/ StartReconcile \/ GetNotFound \/ GetFails \/ GetInstance
  \/ UpdateInstance
  \/ ReconcileEvents \/ ReconcileGateway \/ ReconcileFrontend
  \/ SkipScript \/ NoReadyPod \/ RunScript \/ RunScriptWithSQLError
  \/ RunScriptFails \/ RunScriptLosesStream
  \/ RecordStatus

-----------------------------------------------------------------------------
\* The informer of the resource gets its next version, or, listing anew, its
\* latest; the filter decides whether the key is queued.
DeliverAppService ==
  /\ backlog # <<>>
  /\ \E k \in {1, Len(backlog)} :
       /\ cache' = backlog[k]
       /\ backlog' = SubSeq(backlog, k + 1, Len(backlog))
       /\ dirty' = (dirty \/ appServicePredicate(cache, backlog[k]))
  /\ UNCHANGED <<cr, ownedVars, delayed, passVars, databaseVars, budget>>

\* The watch on Deployments has no filter: each event queues the owner.
DeliverDeployments ==
  /\ depEvent
  /\ depEvent' = FALSE
  /\ unseen' = {}
  /\ dirty' = TRUE
  /\ UNCHANGED <<crVars, objs, cache, delayed, passVars, databaseVars, budget>>

FireTimer ==
  /\ delayed
  /\ delayed' = FALSE
  /\ dirty' = TRUE
  /\ UNCHANGED <<crVars, ownedVars, cache, passVars, databaseVars, budget>>

\* The operator crashes or is replaced; a psql it has started goes on.  The new
\* one lists everything anew: each resource and each Deployment is a creation
\* to it.
Restart ==
  /\ Spend("restarts", MaxRestarts)
  /\ EndPass
  /\ LoseRun
  /\ backlog' = IF cr = NoAppService THEN <<>> ELSE <<cr>>
  /\ cache' = NoAppService
  /\ dirty' = FALSE /\ delayed' = FALSE
  /\ unseen' = {}
  /\ depEvent' = (\E o \in Deployments : objs[o] # Absent)
  /\ orphans' \in IF pc = "script" /\ ScriptNeeded /\ pod = "ready" /\ mounted
                    THEN {orphans, orphans + 1} ELSE {orphans}
  /\ UNCHANGED <<cr, objs, pod, mounted, runCount>>

-----------------------------------------------------------------------------
\* The pod of the database.  Its status shows in that of its Deployment.  The
\* watch on Pods queues nothing: a pod is owned by a ReplicaSet.
ScriptAvailable ==
  /\ objs[ConfigMap] # Absent
  /\ EventsDatabaseUpdateScriptName \in objs[ConfigMap].scripts

PodStarts ==
  /\ pod = "none"
  /\ \A o \in {Secret, ConfigMap, VolumeClaim, DatabaseDeployment} :
       objs[o] # Absent
  /\ pod' = "ready"
  /\ mounted' = ScriptAvailable
  /\ depEvent' = TRUE
  /\ UNCHANGED <<crVars, objs, unseen, queueVars, passVars, runCount, orphans,
                 lost, budget>>

PodRecovers ==
  /\ pod = "notReady"
  /\ pod' = "ready"
  /\ depEvent' = TRUE
  /\ UNCHANGED <<crVars, objs, unseen, queueVars, passVars, mounted, runCount,
                 orphans, lost, budget>>

PodFails ==
  /\ pod = "ready" /\ Fault
  /\ \/ pod' = "notReady" /\ UNCHANGED <<mounted, orphans>>
     \/ pod' = "none" /\ mounted' = FALSE /\ orphans' = 0
  /\ depEvent' = TRUE
  /\ UNCHANGED <<crVars, objs, unseen, queueVars, passVars, runCount, lost>>

\* A run that no pass waits for takes effect, however late, ...
OrphanCommits ==
  /\ orphans > 0
  /\ orphans' = orphans - 1
  /\ runCount' = runCount + 1 /\ lost' = lost + 1
  /\ UNCHANGED <<crVars, ownedVars, queueVars, passVars, pod, mounted, budget>>

\* ... or ends without.
OrphanDies ==
  /\ orphans > 0
  /\ orphans' = orphans - 1
  /\ UNCHANGED <<crVars, ownedVars, queueVars, passVars, pod, mounted, runCount,
                 lost, budget>>

\* The kubelet brings the volume of the pod up to date with the config map.
MountSync ==
  /\ pod # "none" /\ ~mounted /\ ScriptAvailable
  /\ mounted' = TRUE
  /\ UNCHANGED <<crVars, ownedVars, queueVars, passVars, pod, runCount,
                 orphans, lost, budget>>

\* The user.
UserEdits ==
  /\ cr # NoAppService /\ Spend("edits", MaxEdits)
  /\ \E spec \in UserSpecs \ {cr.spec} :
       Write([cr EXCEPT !.spec = spec, !.generation = @ + 1])
  /\ stale' = (stale \/ inst # NoAppService)
  /\ UNCHANGED <<ownedVars, queueVars, pc, inst, exec, result,
                 databaseVars>>

UserDeletes ==
  /\ cr # NoAppService /\ Spend("edits", MaxEdits)
  /\ Write(NoAppService)
  /\ stale' = (stale \/ inst # NoAppService)
  /\ UNCHANGED <<ownedVars, queueVars, pc, inst, exec, result,
                 databaseVars>>

\* The garbage collector removes what a deleted resource owned, the volume of
\* the database included.
CollectGarbage ==
  /\ cr = NoAppService
  /\ \E o \in Objects : objs[o] # Absent
  /\ objs' = [o \in Objects |-> Absent]
  /\ unseen' = {}
  /\ depEvent' = (depEvent \/ \E o \in Deployments : objs[o] # Absent)
  /\ pod' = "none" /\ mounted' = FALSE
  /\ runCount' = 0 /\ orphans' = 0 /\ lost' = 0
  /\ UNCHANGED <<crVars, queueVars, passVars, budget>>

Environment ==
  \/ DeliverAppService \/ DeliverDeployments \/ FireTimer
  \/ Restart \/ PodStarts \/ PodRecovers \/ PodFails
  \/ OrphanCommits \/ OrphanDies \/ MountSync
  \/ UserEdits \/ UserDeletes \/ CollectGarbage

Next == Reconcile \/ Environment

\* The worker, the informers and the timers of the operator keep going, and
\* so do the controllers of Kubernetes and the kubelet.  Nothing makes the
\* user, a fault or a restart happen.
Fairness ==
  /\ WF_vars(Reconcile)
  /\ WF_vars(DeliverAppService)
  /\ WF_vars(DeliverDeployments)
  /\ WF_vars(FireTimer)
  /\ WF_vars(PodStarts)
  /\ WF_vars(PodRecovers)
  /\ WF_vars(MountSync)
  /\ WF_vars(CollectGarbage)

Spec == Init /\ [][Next]_vars /\ Fairness
=============================================================================
