-------------------------- MODULE ObjectReconciler --------------------------
(***************************************************************************)
(* The objects the operator owns, call by call: addEvents, addGateway and  *)
(* addFrontend (controllers/*_reconciler.go) create each object or, when   *)
(* Create answers AlreadyExists, read it from the informer and patch it.   *)
(* Around them: resources that are deleted and created again, the garbage  *)
(* collector, which goes by the UID of the owner, and the informers.       *)
(*                                                                         *)
(* AppServiceController takes a component in one step, one resource and    *)
(* one owner.  Here the pass is as fine as its calls; in return the        *)
(* resource has no spec, its own informer does not lag, and of the script  *)
(* only its effect and its record are kept.                                *)
(***************************************************************************)
EXTENDS Resources

CONSTANTS
  Names,        \* names of resources in the namespace
  Tracked,      \* the objects a pass applies, in its order
  MaxUID,       \* bound on the resources created
  MaxTouches,   \* bound on what the user does to objects
  MaxFaults     \* bound on failed calls and restarts

None == 0       \* the UID of no resource

ASSUME TrackedAssumption ==
  /\ Tracked \in Seq(Objects) /\ Tracked # <<>>
  /\ MaxUID \in Nat \ {0} /\ MaxTouches \in Nat /\ MaxFaults \in Nat

VARIABLES
  crs,        \* UID of the resource of each name
  nextUID,
  objs,       \* the objects in the API server
  seen,       \* the objects in the informers
  pending,    \* owners of versions of an object the informer has yet to see
  queue,      \* names in the work queue, now or after a delay
  pass,       \* the pass of Reconcile under way
  \* The events database.
  tables,     \* has the volume got the tables of this release?
  logged,     \* resources whose log mentions a success of the script
  used        \* what is used of the bounds

objectVars == <<objs, seen, pending>>
userVars == <<crs, nextUID>>
scriptVars == <<tables, logged>>
objectReconcilerVars ==
  <<userVars, objectVars, queue, pass, scriptVars, used>>

Kinds == {Tracked[n] : n \in DOMAIN Tracked}
UIDs == 1..MaxUID
Owner == [name : Names, uid : UIDs]

\* An object with its controller owner.  The containers of a Deployment are the
\* image, with its probes, and what else the user has set there: an environment
\* variable, resources, a sidecar.
Owned ==
  [version : Versions, image : Versions, replicas : 0..2,
   scripts : SUBSET ScriptNames, host : DomainNames,
   owner : Owner, tuned : BOOLEAN]

ASSUME OwnedAssumption == Absent \notin Owned

Own(object, owner) ==
  [version |-> object.version, image |-> object.image,
   replicas |-> object.replicas, scripts |-> object.scripts,
   host |-> object.host, owner |-> owner, tuned |-> FALSE]

NoPass == [at |-> "idle"]

Passes ==
  {NoPass}
    \cup [at : {"create", "get"}, owner : Owner, n : DOMAIN Tracked]
    \cup [at : {"patch"}, owner : Owner, n : DOMAIN Tracked, from : Owned]
    \cup [at : {"script"}, owner : Owner]
    \cup [at : {"record"}, owner : Owner, ran : BOOLEAN]

ObjectTypeOK ==
  /\ crs \in [Names -> UIDs \cup {None}] /\ nextUID \in 1..(MaxUID + 1)
  /\ objs \in [Kinds -> Owned \cup {Absent}]
  /\ seen \in [Kinds -> Owned \cup {Absent}]
  /\ pending \in [Kinds -> SUBSET Names]
  /\ queue \in SUBSET Names /\ pass \in Passes
  /\ tables \in BOOLEAN /\ logged \in SUBSET UIDs
  /\ used \in [touches : 0..MaxTouches, faults : 0..MaxFaults]

\* No ingress is tracked that needs another spec than this one.
Spec0 ==
  [enabled |-> TRUE, initialized |-> TRUE, alias |-> "Gramola",
   platform |-> PlatformKubernetes, domainName |-> DefaultDomainName]

\* What release 0.0.1 left of an object.
PreviousObject(o, owner) ==
  LET object == Patch(o, Own(New(o, Spec0), owner))
      previous(version) == IF version = Version THEN PreviousVersion
                                                ELSE version
  IN  [object EXCEPT !.version = previous(@), !.image = previous(@)]

\* Nothing is there, or an installation of 0.0.1 that is being upgraded.
ObjectInit ==
  /\ \/ crs = [name \in Names |-> None] /\ nextUID = 1
        /\ objs = [o \in Kinds |-> Absent]
     \/ \E name \in Names :
          /\ crs = [m \in Names |-> IF m = name THEN 1 ELSE None]
          /\ nextUID = 2
          /\ objs = [o \in Kinds |->
                       PreviousObject(o, [name |-> name, uid |-> 1])]
  /\ seen = objs /\ pending = [o \in Kinds |-> {}]
  /\ queue = {name \in Names : crs[name] # None}
  /\ pass = NoPass
  /\ tables = FALSE /\ logged = {}
  /\ used = [touches |-> 0, faults |-> 0]

-----------------------------------------------------------------------------
Spend(kind, bound) ==
  used[kind] < bound /\ used' = [used EXCEPT ![kind] = @ + 1]
Fault == Spend("faults", MaxFaults)
Touch == Spend("touches", MaxTouches)

OwnersOf(object) == IF object = Absent THEN {} ELSE {object.owner.name}

\* The API server makes no new version of what does not change.
SetObject(o, object) ==
  /\ objs' = [objs EXCEPT ![o] = object]
  /\ pending' =
       IF object = objs[o] THEN pending
       ELSE [pending EXCEPT ![o] = @ \cup OwnersOf(objs[o])
                                     \cup OwnersOf(object)]
  /\ UNCHANGED seen

\* Mutant: a resource that is not found is taken to be the one last read.
BeginUnfound(name) ==
  /\ pass = NoPass /\ name \in queue
  /\ queue' = queue \ {name}
  /\ pass' = [at |-> "create", n |-> 1,
              owner |-> [name |-> name, uid |-> nextUID - 1]]
  /\ UNCHANGED <<userVars, objectVars, scriptVars, used>>

\* A worker takes a name; a resource that is not found ends the pass.
Begin(name) ==
  /\ pass = NoPass /\ name \in queue
  /\ queue' = queue \ {name}
  /\ pass' = IF crs[name] = None THEN NoPass
             ELSE [at |-> "create", n |-> 1,
                   owner |-> [name |-> name, uid |-> crs[name]]]
  /\ UNCHANGED <<userVars, objectVars, scriptVars, used>>

\* Mutant: one object too many.
GoOnTooFar ==
  /\ pass' = IF pass.n <= Len(Tracked)
               THEN [at |-> "create", owner |-> pass.owner, n |-> pass.n + 1]
               ELSE [at |-> "script", owner |-> pass.owner]
  /\ UNCHANGED queue

\* The pass goes on with the next object, or, after the last, with the script.
GoOn ==
  /\ pass' = IF pass.n < Len(Tracked)
               THEN [at |-> "create", owner |-> pass.owner, n |-> pass.n + 1]
               ELSE [at |-> "script", owner |-> pass.owner]
  /\ UNCHANGED queue

\* ManageError, or a RequeueEvent: there will be another pass.
GiveUp == pass' = NoPass /\ queue' = queue \cup {pass.owner.name}

\* Create, with the pass's resource as controller owner.
CreateObject ==
  /\ pass.at = "create"
  /\ LET o == Tracked[pass.n]
         object == Own(New(o, Spec0), pass.owner)
     IN  \/ /\ objs[o] = Absent
            /\ SetObject(o, object)
            /\ \/ GoOn /\ UNCHANGED used
               \/ GiveUp /\ Fault             \* the response is lost
         \/ /\ GiveUp /\ Fault /\ UNCHANGED objectVars
         \/ /\ objs[o] # Absent               \* AlreadyExists
            /\ IF o = VolumeClaim THEN GoOn
               ELSE pass' = [pass EXCEPT !.at = "get"] /\ UNCHANGED queue
            /\ UNCHANGED <<objectVars, used>>
  /\ UNCHANGED <<userVars, scriptVars>>

\* Get, from the informer; if it fails the code goes on as after a patch.
GetObject ==
  /\ pass.at = "get"
  /\ LET from == seen[Tracked[pass.n]]
     IN  IF from = Absent THEN GoOn
         ELSE /\ pass' = [at |-> "patch", owner |-> pass.owner, n |-> pass.n,
                          from |-> from]
              /\ UNCHANGED queue
  /\ UNCHANGED <<userVars, objectVars, scriptVars, used>>

\* A merge patch: what a patch has changed in the copy is set, whatever the
\* version of the object it is set in.  The data of a config map are merged key
\* by key; a list is replaced as a whole, so that with another image go all the
\* containers of the copy.
MergePatch(from, patched, current) ==
  LET Merged(f) == IF patched[f] # from[f] THEN patched[f] ELSE current[f]
      containers == IF patched.image # from.image THEN patched ELSE current
  IN  [current EXCEPT
         !.version = Merged("version"),
         !.image = containers.image,
         !.tuned = containers.tuned,
         !.replicas = Merged("replicas"),
         !.scripts = (@ \ (from.scripts \ patched.scripts))
                       \cup (patched.scripts \ from.scripts)]

\* Mutant: Update instead of Patch, without a resourceVersion.
PatchWholeObject ==
  /\ pass.at = "patch"
  /\ LET o == Tracked[pass.n]
     IN  IF objs[o] = Absent
           THEN GiveUp /\ UNCHANGED objectVars
           ELSE GoOn /\ SetObject(o, Patch(o, pass.from))
  /\ UNCHANGED <<userVars, scriptVars, used>>

\* Mutant: a patch that fails does not fail the pass.
PatchObjectIgnoringErrors ==
  /\ pass.at = "patch"
  /\ LET o == Tracked[pass.n]
         patched == MergePatch(pass.from, Patch(o, pass.from), objs[o])
     IN  \/ objs[o] = Absent /\ UNCHANGED <<objectVars, used>>
         \/ objs[o] # Absent /\ SetObject(o, patched) /\ UNCHANGED used
         \/ Fault /\ UNCHANGED objectVars
  /\ GoOn
  /\ UNCHANGED <<userVars, scriptVars>>

PatchObject ==
  /\ pass.at = "patch"
  /\ LET o == Tracked[pass.n]
         patched == MergePatch(pass.from, Patch(o, pass.from), objs[o])
     IN  \/ /\ objs[o] = Absent               \* NotFound
            /\ GiveUp /\ UNCHANGED <<objectVars, used>>
         \/ /\ objs[o] # Absent
            /\ SetObject(o, patched)
            /\ \/ GoOn /\ UNCHANGED used
               \/ GiveUp /\ Fault             \* the response is lost
         \/ GiveUp /\ Fault /\ UNCHANGED objectVars
  /\ UNCHANGED <<userVars, scriptVars>>

\* The pod of the database needs its Deployment and its volume.
DatabaseRuns ==
  \A o \in Kinds \cap {VolumeClaim, DatabaseDeployment} : objs[o] # Absent

RunUpdateScript ==
  /\ pass.at = "script"
  /\ LET known == pass.owner.uid \in logged
     IN  IF known \/ DatabaseRuns
           THEN /\ pass' = [at |-> "record", owner |-> pass.owner,
                            ran |-> ~known]
                /\ tables' = (tables \/ ~known)
                /\ UNCHANGED queue
           ELSE GiveUp /\ UNCHANGED tables
  /\ UNCHANGED <<userVars, objectVars, logged, used>>

\* The status write; it fails if the resource is gone or another one.
WriteStatus ==
  /\ pass.at = "record"
  /\ \/ /\ crs[pass.owner.name] = pass.owner.uid
        /\ logged' = IF pass.ran THEN logged \cup {pass.owner.uid} ELSE logged
        /\ \/ pass' = NoPass /\ UNCHANGED <<queue, used>>
           \/ GiveUp /\ Fault                 \* the response is lost
     \/ /\ GiveUp /\ UNCHANGED logged
        /\ IF crs[pass.owner.name] = pass.owner.uid THEN Fault
                                                    ELSE UNCHANGED used
  /\ UNCHANGED <<userVars, objectVars, tables>>

PassStep ==
  \/ \E name \in Names : Begin(name)
  \/ CreateObject \/ GetObject \/ PatchObject
  \/ RunUpdateScript \/ WriteStatus

-----------------------------------------------------------------------------
\* The informer of a kind catches up with an object.  Only the Deployments are
\* watched: their events queue the owner by its name.
CatchUp(o) ==
  /\ seen[o] # objs[o] \/ pending[o] # {}
  /\ seen' = [seen EXCEPT ![o] = objs[o]]
  /\ pending' = [pending EXCEPT ![o] = {}]
  /\ queue' = IF o \in Deployments THEN queue \cup pending[o] ELSE queue
  /\ UNCHANGED <<userVars, objs, pass, scriptVars, used>>

\* Another operator starts and lists everything; each resource and each
\* Deployment is a creation to it.
RestartOperator ==
  /\ Fault
  /\ pass' = NoPass
  /\ seen' = objs /\ pending' = [o \in Kinds |-> {}]
  /\ queue' = {name \in Names : crs[name] # None}
       \cup UNION {OwnersOf(objs[o]) : o \in Kinds \cap Deployments}
  /\ UNCHANGED <<userVars, objs, scriptVars>>

\* What goes with an object: a volume, with the tables in it.
RemoveObject(o) ==
  /\ objs[o] # Absent
  /\ SetObject(o, Absent)
  /\ tables' = (tables /\ o # VolumeClaim)

\* The garbage collector removes what belongs to no resource that exists.
IsGarbage(object) ==
  object # Absent /\ crs[object.owner.name] # object.owner.uid

Collect(o) ==
  /\ IsGarbage(objs[o])
  /\ RemoveObject(o)
  /\ UNCHANGED <<userVars, queue, pass, logged, used>>

\* The user: kubectl delete and apply of a resource, ...
DeleteResource(name) ==
  /\ crs[name] # None
  /\ crs' = [crs EXCEPT ![name] = None]
  /\ queue' = queue \cup {name}
  /\ UNCHANGED <<nextUID, objectVars, pass, scriptVars, used>>

CreateResource(name) ==
  /\ crs[name] = None /\ nextUID <= MaxUID
  /\ crs' = [crs EXCEPT ![name] = nextUID]
  /\ nextUID' = nextUID + 1
  /\ queue' = queue \cup {name}
  /\ UNCHANGED <<objectVars, pass, scriptVars, used>>

\* ... what else there is to set in the containers of a Deployment, the image
\* of the last release, or a deletion of an object.
Tune(o) ==
  /\ Touch /\ objs[o] # Absent /\ o \in Deployments
  /\ SetObject(o, [objs[o] EXCEPT !.tuned = TRUE])
  /\ UNCHANGED <<userVars, queue, pass, scriptVars>>

RollBack(o) ==
  /\ Touch /\ objs[o] # Absent /\ o \in PatchedDeployments
  /\ SetObject(o, [objs[o] EXCEPT !.image = PreviousVersion])
  /\ UNCHANGED <<userVars, queue, pass, scriptVars>>

DeleteObject(o) ==
  /\ Touch
  /\ RemoveObject(o)
  /\ UNCHANGED <<userVars, queue, pass, logged>>

ObjectEnvironment ==
  \/ \E o \in Kinds :
       CatchUp(o) \/ Collect(o) \/ Tune(o) \/ RollBack(o) \/ DeleteObject(o)
  \/ \E name \in Names : DeleteResource(name) \/ CreateResource(name)
  \/ RestartOperator

ObjectNext == PassStep \/ ObjectEnvironment

\* The worker, the informers and the garbage collector keep going; a name that
\* waits gets its turn.
ObjectFairness ==
  /\ WF_objectReconcilerVars(PassStep)
  /\ \A o \in Kinds : /\ WF_objectReconcilerVars(CatchUp(o))
                      /\ WF_objectReconcilerVars(Collect(o))

ObjectSpec ==
  ObjectInit /\ [][ObjectNext]_objectReconcilerVars /\ ObjectFairness

-----------------------------------------------------------------------------
(***************************************************************************)
(* Properties.                                                             *)
(***************************************************************************)
AtRest ==
  /\ pass = NoPass /\ queue = {}
  /\ \A o \in Kinds : pending[o] = {} /\ ~IsGarbage(objs[o])

UpToDate(o, object) ==
  o \in PatchedDeployments => object.image = Version /\ object.replicas = 2

\* When nothing is left to be done each Deployment has the image and the
\* replicas of this release, and those of the only resource in the namespace
\* are there and belong to it: after any order of deletions, re-creations,
\* collections, rollbacks, lost calls and patches computed from an old copy.
\* (Of two resources, which share the objects, only the owner of an object
\* hears that it is gone.)
DeploymentsAtRest ==
  AtRest => \A o \in Kinds \cap Deployments :
    /\ objs[o] # Absent => UpToDate(o, objs[o])
    /\ \A name \in Names :
         Names = {name} /\ crs[name] # None =>
           /\ objs[o] # Absent
           /\ objs[o].owner = [name |-> name, uid |-> crs[name]]

\* The copies of an object that a patch may be computed from, now or later.
Copies(o) ==
  {objs[o], seen[o]}
    \cup IF pass.at = "patch" /\ Tracked[pass.n] = o THEN {pass.from} ELSE {}

\* All are as the patches of this release leave an object.
Settled(o) == \A copy \in Copies(o) \ {Absent} : Patch(o, copy) = copy

\* Once an object and the copies of it are as this release wants them, the
\* operator leaves it alone, with whatever the user then sets in it, even while
\* a pass holds a copy from before the user's change: until the user takes
\* something back, the object changes no more and gets no new version, whose
\* event would start another pass.  (Before, it may: the containers of a copy
\* with the old image replace those that the user has changed meanwhile.)
SettledObjectsUntouched ==
  [][\A o \in Kinds :
       /\ Settled(o) /\ objs[o] # Absent /\ objs'[o] # Absent
       /\ used'.touches = used.touches
       => objs'[o] = objs[o] /\ Settled(o)']_objectReconcilerVars

\* The operator comes to rest: its patches, which the watch on Deployments
\* brings back to it, do not wake it for ever.
EventuallyAtRest == <>[]AtRest

\* Nothing outlives the resource, not even what a pass that had read it before
\* it was deleted creates after the collection.
EventuallyCollected ==
  <>[](\A name \in Names : crs[name] = None)
    => <>[](\A o \in Kinds : objs[o] = Absent)

\* appservice_types.go:180, "Indicates if the Events Database has been updated
\* or not": a resource that says so has a database with the tables.
RecordIsOfThisDatabase ==
  AtRest => \A name \in Names : crs[name] \in logged => tables
=============================================================================
