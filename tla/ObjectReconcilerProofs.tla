----------------------- MODULE ObjectReconcilerProofs -----------------------
(***************************************************************************)
(* Proofs about ObjectReconciler, for every number of resources in the     *)
(* namespace, every list of objects and every value of the bounds.         *)
(***************************************************************************)
EXTENDS ObjectReconciler, TLAPS

-----------------------------------------------------------------------------
(***************************************************************************)
(* Who will see to a Deployment that is not as it should be.               *)
(***************************************************************************)
\* While the informer of an object is behind, an event for its owner is due.
InformerTells ==
  \A o \in Kinds :
    objs[o] # Absent /\ seen[o] # objs[o] => objs[o].owner.name \in pending[o]

Told(name, o) == name \in queue \/ name \in pending[o]

ByThePass(name) == pass # NoPass /\ pass.owner.name = name

\* The pass has yet to come to the object.
Ahead(o) ==
  /\ pass.at \in {"create", "get", "patch"}
  /\ \E i \in DOMAIN Tracked :
       Tracked[i] = o /\ (i > pass.n \/ (i = pass.n /\ pass.at = "create"))

\* The patch from this copy brings the object up to date.
Corrects(from, current) ==
  /\ from.image = Version => current.image = Version
  /\ from.replicas = 2 => current.replicas = 2

WillPatch(o) ==
  \/ Ahead(o)
  \/ /\ pass.at \in {"get", "patch"} /\ Tracked[pass.n] = o
     /\ pass.at = "patch" => Corrects(pass.from, objs[o])

\* A Deployment that is not up to date has an owner who is told, or whose pass
\* will patch it.
OutdatedIsPatched ==
  \A o \in Kinds \cap Deployments :
    objs[o] # Absent /\ ~IsGarbage(objs[o]) /\ ~UpToDate(o, objs[o]) =>
      \/ Told(objs[o].owner.name, o)
      \/ ByThePass(objs[o].owner.name) /\ WillPatch(o)

\* If one is not there, the only resource is told, or its pass will create it.
MissingIsCreated ==
  \A o \in Kinds \cap Deployments, name \in Names :
    Names = {name} /\ crs[name] # None /\ objs[o] = Absent =>
      Told(name, o) \/ (ByThePass(name) /\ Ahead(o))

SomebodyComes ==
  ObjectTypeOK /\ InformerTells /\ OutdatedIsPatched /\ MissingIsCreated

-----------------------------------------------------------------------------
(***************************************************************************)
(* What constructors and patches make of an object.                        *)
(***************************************************************************)
\* An object stays one when fields get values of their type.
LEMMA ObjectFields ==
  ASSUME NEW version \in Versions, NEW replicas \in 0..2
  PROVE  /\ \A x \in Object :
              /\ [x EXCEPT !.replicas = replicas] \in Object
              /\ [x EXCEPT !.image = version, !.replicas = replicas]
                   \in Object
         /\ \A x \in Owned :
              [x EXCEPT !.image = version, !.replicas = replicas] \in Owned
  BY DEF Object, Owned

\* The objects the constructors build are well-formed.
LEMMA NewOwned ==
  ASSUME NEW o \in Objects, NEW owner \in Owner
  PROVE  /\ Own(New(o, Spec0), owner) \in Owned
         /\ Own(New(o, Spec0), owner).owner = owner
<1>1. BlankObject \in Object
  BY DomainNamesAssumption DEF BlankObject, Object, Versions
<1>2. NewIngress(Spec0) \in Object
  BY <1>1, DomainNamesAssumption DEF NewIngress, Spec0, Object
<1>3. NewEventsDatabaseScriptsConfigMap \in Object
  BY <1>1 DEF NewEventsDatabaseScriptsConfigMap, getDatabaseScriptsMap,
              ScriptNames, Object
<1>4. /\ [BlankObject EXCEPT !.replicas = 1] \in Object
      /\ [BlankObject EXCEPT !.image = Version, !.replicas = 1] \in Object
  <2>1. Version \in Versions /\ 1 \in 0..2
    BY DEF Versions
  <2>2. QED
    BY <1>1, <2>1, ObjectFields
<1>5. New(o, Spec0) \in Object
  BY <1>1, <1>2, <1>3, <1>4
     DEF New, NewEventsDatabaseCredentialsSecret, NewPersistentVolumeClaim,
         NewEventsDatabaseDeployment, NewEventsDeployment,
         NewGatewayDeployment, NewFrontendDeployment,
         NewEventsDatabaseService, NewEventsService, NewGatewayService,
         NewFrontendService, NewRoute
<1>6. QED
  BY <1>5 DEF Own, Owned, Object

\* What a patch may change: nothing, or the version label and with it one of
\* the scripts, or the image and the replicas.
LEMMA PatchShape ==
  ASSUME NEW o \in Objects, NEW current
  PROVE  /\ o \in {VolumeClaim, DatabaseDeployment} =>
              Patch(o, current) = current
         /\ o = ConfigMap =>
              Patch(o, current)
                = NewEventsDatabaseScriptsConfigMapPatch(current)
         /\ o \in PatchedDeployments =>
              Patch(o, current) = NewEventsDeploymentPatch(current)
         /\ o \notin {VolumeClaim, DatabaseDeployment, ConfigMap}
                       \cup PatchedDeployments =>
              Patch(o, current) = SetVersionLabel(current)
<1>1. /\ NewGatewayDeploymentPatch(current) = NewEventsDeploymentPatch(current)
      /\ NewFrontendDeploymentPatch(current)
           = NewEventsDeploymentPatch(current)
  BY DEF NewEventsDeploymentPatch, NewGatewayDeploymentPatch,
         NewFrontendDeploymentPatch
<1>2. QED
  BY <1>1
     DEF Patch, NewEventsDatabaseCredentialsSecretPatch,
         NewEventsDatabaseDeploymentPatch, NewEventsDatabaseServicePatch,
         NewEventsServicePatch, NewGatewayServicePatch,
         NewFrontendServicePatch, NewRoutePatch, NewIngressPatch,
         PatchedDeployments, Secret, ConfigMap, VolumeClaim,
         DatabaseDeployment, DatabaseService, EventsDeployment,
         EventsService, GatewayDeployment, GatewayService,
         FrontendDeployment, FrontendService, Routes, GatewayRoute,
         FrontendRoute

\* The fields of what the functions that make a patch return.
LEMMA PatchFields ==
  ASSUME NEW current \in Owned
  PROVE  LET labelled == SetVersionLabel(current)
             scripts == NewEventsDatabaseScriptsConfigMapPatch(current)
             scaled == NewEventsDeploymentPatch(current)
         IN  /\ labelled \in Owned /\ labelled.version = Version
             /\ labelled.image = current.image
             /\ labelled.replicas = current.replicas
             /\ labelled.scripts = current.scripts
             /\ scripts \in Owned /\ scripts.version = Version
             /\ scripts.image = current.image
             /\ scripts.replicas = current.replicas
             /\ scripts.scripts = current.scripts \cup getDatabaseScriptsMap
             /\ scaled \in Owned /\ scaled.version = Version
             /\ scaled.image = Version /\ scaled.replicas = 2
             /\ scaled.scripts = current.scripts
<1> DEFINE labelled == SetVersionLabel(current)
           scripts == [labelled EXCEPT !.scripts = @ \cup getDatabaseScriptsMap]
           scaled == [labelled EXCEPT !.image = Version, !.replicas = 2]
<1>1. Version \in Versions /\ 2 \in 0..2
  BY DEF Versions
<1>2. /\ labelled \in Owned /\ labelled.version = Version
      /\ labelled.image = current.image
      /\ labelled.replicas = current.replicas
      /\ labelled.scripts = current.scripts
  BY <1>1 DEF SetVersionLabel, Owned
<1>3. getDatabaseScriptsMap \subseteq ScriptNames
  BY DEF getDatabaseScriptsMap, ScriptNames
<1> HIDE DEF labelled
<1>4. /\ scripts \in Owned /\ scripts.version = Version
      /\ scripts.image = labelled.image
      /\ scripts.replicas = labelled.replicas
      /\ scripts.scripts = labelled.scripts \cup getDatabaseScriptsMap
  BY <1>2, <1>3 DEF Owned
<1>5. /\ scaled \in Owned /\ scaled.version = Version
      /\ scaled.image = Version /\ scaled.replicas = 2
      /\ scaled.scripts = labelled.scripts
  <2>1. scaled \in Owned
    BY <1>1, <1>2, ObjectFields
  <2>2. QED
    BY <1>2, <2>1 DEF Owned
<1>6. QED
  BY <1>2, <1>4, <1>5
     DEF labelled, NewEventsDatabaseScriptsConfigMapPatch,
         NewEventsDeploymentPatch

\* A patch keeps an object well-formed, and to the Deployments of this
\* operator's services it gives their image and replicas.
LEMMA PatchOwned ==
  ASSUME NEW o \in Objects, NEW current \in Owned
  PROVE  /\ Patch(o, current) \in Owned
         /\ o \in PatchedDeployments =>
              /\ Patch(o, current).image = Version
              /\ Patch(o, current).replicas = 2
  BY PatchShape, PatchFields

\* A merge patch keeps an object well-formed.
LEMMA MergeOwned ==
  ASSUME NEW o \in Objects, NEW from \in Owned, NEW current \in Owned
  PROVE  MergePatch(from, Patch(o, from), current) \in Owned
<1> DEFINE patched == Patch(o, from)
<1>1. patched \in Owned
  BY PatchOwned
<1> HIDE DEF patched
<1>2. QED
  BY <1>1 DEF MergePatch, Owned, patched

\* A patch that changed nothing in the copy changes nothing in the object.
LEMMA MergeSettled ==
  ASSUME NEW from \in Owned, NEW current \in Owned
  PROVE  MergePatch(from, from, current) = current
<1>1. (current.scripts \ (from.scripts \ from.scripts))
        \cup (from.scripts \ from.scripts) = current.scripts
  OBVIOUS
<1>2. QED
  BY <1>1 DEF MergePatch, Owned

\* A patch of a Deployment that was computed from a copy which lacked what the
\* Deployment lacks brings it up to date.
LEMMA MergeCorrects ==
  ASSUME NEW o \in Objects, NEW from \in Owned, NEW current \in Owned,
         Corrects(from, current)
  PROVE  UpToDate(o, MergePatch(from, Patch(o, from), current))
<1> SUFFICES ASSUME o \in PatchedDeployments
             PROVE  LET merged == MergePatch(from, Patch(o, from), current)
                    IN  merged.image = Version /\ merged.replicas = 2
  BY DEF UpToDate
<1> DEFINE patched == Patch(o, from)
<1>1. patched.image = Version /\ patched.replicas = 2
  BY PatchOwned
<1> HIDE DEF patched
<1>2. /\ MergePatch(from, patched, current).image =
           IF patched.image # from.image THEN patched.image ELSE current.image
      /\ MergePatch(from, patched, current).replicas =
           IF patched.replicas # from.replicas THEN patched.replicas
                                               ELSE current.replicas
  BY DEF MergePatch, Owned
<1>3. QED
  BY <1>1, <1>2 DEF patched, Corrects

-----------------------------------------------------------------------------
(***************************************************************************)
(* Type correctness.                                                       *)
(***************************************************************************)
LEMMA TrackedKinds ==
  /\ Kinds \subseteq Objects
  /\ \A n \in DOMAIN Tracked : Tracked[n] \in Kinds
  /\ DOMAIN Tracked = 1..Len(Tracked) /\ Len(Tracked) \in Nat
  /\ 1 \in DOMAIN Tracked
  BY TrackedAssumption DEF Kinds

\* An object and its absence differ.
LEMMA AbsentIsNoObject == Absent \notin Owned /\ None \notin UIDs
  BY OwnedAssumption DEF None, UIDs

\* The kinds of passes, by what they are at.
LEMMA PassKinds ==
  ASSUME pass \in Passes
  PROVE  /\ pass # NoPass => /\ pass.owner \in Owner
                             /\ pass.owner.name \in Names
         /\ pass.at \in {"create", "get", "patch", "script", "record"} =>
              pass # NoPass
         /\ pass.at \in {"create", "get", "patch"} =>
              /\ pass.n \in DOMAIN Tracked
              /\ Tracked[pass.n] \in Kinds /\ Tracked[pass.n] \in Objects
         /\ pass.at = "patch" => pass.from \in Owned
         /\ pass.at = "record" => pass.ran \in BOOLEAN
<1>1. pass # NoPass => pass.owner \in Owner
  BY DEF Passes, NoPass
<1>2. \A owner \in Owner : owner.name \in Names
  BY DEF Owner
<1>3. pass.at \in {"create", "get", "patch"} => pass.n \in DOMAIN Tracked
  BY DEF Passes, NoPass
<1>4. pass.at = "patch" => pass.from \in Owned
  BY DEF Passes, NoPass
<1>5. pass.at = "record" => pass.ran \in BOOLEAN
  BY DEF Passes, NoPass
<1>6. QED
  BY <1>1, <1>2, <1>3, <1>4, <1>5, TrackedKinds DEF NoPass

\* Writes of an object keep everything typed.
LEMMA SetObjectType ==
  ASSUME ObjectTypeOK, NEW o \in Kinds, NEW object \in Owned \cup {Absent},
         SetObject(o, object)
  PROVE  /\ objs' \in [Kinds -> Owned \cup {Absent}]
         /\ seen' \in [Kinds -> Owned \cup {Absent}]
         /\ pending' \in [Kinds -> SUBSET Names]
<1>1. \A x \in Owned \cup {Absent} : OwnersOf(x) \subseteq Names
  <2>1. \A x \in Owned : x.owner.name \in Names
    BY DEF Owned, Owner
  <2>2. QED
    BY <2>1 DEF OwnersOf
<1>2. objs[o] \in Owned \cup {Absent}
  BY DEF ObjectTypeOK
<1>3. pending' \in [Kinds -> SUBSET Names]
  BY <1>1, <1>2 DEF ObjectTypeOK, SetObject
<1>4. QED
  BY <1>3 DEF ObjectTypeOK, SetObject

\* So do the ways a pass goes on.
LEMMA GoOnType ==
  ASSUME ObjectTypeOK, pass.at \in {"create", "get", "patch"}, GoOn
  PROVE  pass' \in Passes /\ queue' \in SUBSET Names
<1>1. /\ pass.owner \in Owner /\ pass.n \in 1..Len(Tracked)
      /\ Len(Tracked) \in Nat /\ DOMAIN Tracked = 1..Len(Tracked)
  BY PassKinds, TrackedKinds DEF ObjectTypeOK
<1>2. CASE pass.n < Len(Tracked)
  <2>1. pass.n + 1 \in DOMAIN Tracked
    BY <1>1, <1>2
  <2>2. pass' = [at |-> "create", owner |-> pass.owner, n |-> pass.n + 1]
    BY <1>2 DEF GoOn
  <2>3. QED
    BY <1>1, <2>1, <2>2 DEF Passes, GoOn, ObjectTypeOK
<1>3. CASE ~(pass.n < Len(Tracked))
  BY <1>1, <1>3 DEF Passes, GoOn, ObjectTypeOK
<1>4. QED
  BY <1>2, <1>3

LEMMA GiveUpType ==
  ASSUME ObjectTypeOK, pass # NoPass, GiveUp
  PROVE  pass' \in Passes /\ queue' \in SUBSET Names
<1>1. pass.owner.name \in Names
  BY PassKinds DEF ObjectTypeOK
<1>2. QED
  BY <1>1 DEF GiveUp, Passes, ObjectTypeOK

LEMMA SpentType ==
  ASSUME ObjectTypeOK, Fault \/ Touch \/ UNCHANGED used
  PROVE  used' \in [touches : 0..MaxTouches, faults : 0..MaxFaults]
  BY TrackedAssumption DEF ObjectTypeOK, Fault, Touch, Spend

\* An installation of the previous release has well-formed objects.
LEMMA PreviousOwned ==
  ASSUME NEW o \in Objects, NEW owner \in Owner
  PROVE  PreviousObject(o, owner) \in Owned
<1> DEFINE object == Patch(o, Own(New(o, Spec0), owner))
<1>1. object \in Owned
  BY NewOwned, PatchOwned
<1> HIDE DEF object
<1>2. \A version, image \in Versions :
        [object EXCEPT !.version = version, !.image = image] \in Owned
  BY <1>1 DEF Owned
<1>3. /\ object.version \in Versions /\ object.image \in Versions
      /\ PreviousVersion \in Versions
  BY <1>1 DEF Owned, Versions
<1>4. QED
  BY <1>2, <1>3 DEF PreviousObject, object

LEMMA ObjectTypeInit == ObjectInit => ObjectTypeOK
<1> SUFFICES ASSUME ObjectInit PROVE ObjectTypeOK
  OBVIOUS
<1>1. /\ crs \in [Names -> UIDs \cup {None}] /\ nextUID \in 1..(MaxUID + 1)
  <2>1. 1 \in UIDs /\ {1, 2} \subseteq 1..(MaxUID + 1)
    BY TrackedAssumption DEF UIDs
  <2>2. QED
    BY <2>1 DEF ObjectInit
<1>2. objs \in [Kinds -> Owned \cup {Absent}]
  <2>1. \A name \in Names, o \in Kinds :
          PreviousObject(o, [name |-> name, uid |-> 1]) \in Owned
    BY PreviousOwned, TrackedKinds, TrackedAssumption DEF Owner, UIDs
  <2>2. QED
    BY <2>1 DEF ObjectInit
<1>3. pass \in Passes
  BY DEF ObjectInit, Passes
<1>4. used \in [touches : 0..MaxTouches, faults : 0..MaxFaults]
  BY TrackedAssumption DEF ObjectInit
<1>5. QED
  BY <1>1, <1>2, <1>3, <1>4 DEF ObjectInit, ObjectTypeOK

LEMMA ObjectTypeStep ==
  ASSUME ObjectTypeOK, [ObjectNext]_objectReconcilerVars
  PROVE  ObjectTypeOK'
<1> USE DEF objectVars, userVars, scriptVars
<1>1. \A name \in Names : Begin(name) => ObjectTypeOK'
  <2> SUFFICES ASSUME NEW name \in Names, Begin(name) PROVE ObjectTypeOK'
    OBVIOUS
  <2>1. pass' \in Passes
    <3>1. CASE crs[name] = None
      BY <3>1 DEF Begin, Passes
    <3>2. CASE crs[name] # None
      <4>1. [name |-> name, uid |-> crs[name]] \in Owner
        BY <3>2 DEF ObjectTypeOK, Owner
      <4>2. QED
        BY <3>2, <4>1, TrackedKinds DEF Begin, Passes
    <3>3. QED
      BY <3>1, <3>2
  <2>2. QED
    BY <2>1 DEF Begin, ObjectTypeOK
<1>2. CreateObject => ObjectTypeOK'
  <2> SUFFICES ASSUME CreateObject PROVE ObjectTypeOK'
    OBVIOUS
  <2> DEFINE o == Tracked[pass.n]
             object == Own(New(o, Spec0), pass.owner)
  <2>1. /\ pass # NoPass /\ pass.at = "create" /\ pass.n \in DOMAIN Tracked
        /\ o \in Kinds /\ pass.owner \in Owner /\ object \in Owned
    BY PassKinds, TrackedKinds, NewOwned DEF CreateObject, ObjectTypeOK
  <2>2. \/ SetObject(o, object)
        \/ UNCHANGED objectVars
    BY DEF CreateObject
  <2>3. /\ objs' \in [Kinds -> Owned \cup {Absent}]
        /\ seen' \in [Kinds -> Owned \cup {Absent}]
        /\ pending' \in [Kinds -> SUBSET Names]
    BY <2>1, <2>2, SetObjectType DEF ObjectTypeOK
  <2>4. \/ GoOn \/ GiveUp
        \/ pass' = [pass EXCEPT !.at = "get"] /\ UNCHANGED queue
    BY DEF CreateObject
  <2>5. pass' \in Passes /\ queue' \in SUBSET Names
    <3>1. CASE pass' = [pass EXCEPT !.at = "get"] /\ UNCHANGED queue
      <4>1. pass \in [at : {"create", "get"}, owner : Owner,
                      n : DOMAIN Tracked]
        BY <2>1 DEF ObjectTypeOK, Passes, NoPass
      <4>2. pass' \in [at : {"create", "get"}, owner : Owner,
                       n : DOMAIN Tracked]
        BY <3>1, <4>1
      <4>3. QED
        BY <3>1, <4>2 DEF Passes, ObjectTypeOK
    <3>2. QED
      BY <2>1, <2>4, <3>1, GoOnType, GiveUpType
  <2>6. Fault \/ UNCHANGED used
    BY DEF CreateObject
  <2>7. QED
    BY <2>3, <2>5, <2>6, SpentType DEF CreateObject, ObjectTypeOK
<1>3. GetObject => ObjectTypeOK'
  <2> SUFFICES ASSUME GetObject PROVE ObjectTypeOK'
    OBVIOUS
  <2>1. pass.owner \in Owner /\ pass.n \in DOMAIN Tracked /\ pass # NoPass
    BY PassKinds DEF GetObject, ObjectTypeOK
  <2>2. seen[Tracked[pass.n]] \in Owned \cup {Absent}
    BY <2>1, TrackedKinds DEF ObjectTypeOK
  <2>3. pass' \in Passes /\ queue' \in SUBSET Names
    BY <2>1, <2>2, GoOnType DEF GetObject, Passes, ObjectTypeOK
  <2>4. QED
    BY <2>3 DEF GetObject, ObjectTypeOK
<1>4. PatchObject => ObjectTypeOK'
  <2> SUFFICES ASSUME PatchObject PROVE ObjectTypeOK'
    OBVIOUS
  <2> DEFINE o == Tracked[pass.n]
             patched == MergePatch(pass.from, Patch(o, pass.from), objs[o])
  <2>1. /\ pass # NoPass /\ pass.at = "patch"
        /\ o \in Kinds /\ o \in Objects /\ pass.from \in Owned
    BY PassKinds DEF PatchObject, ObjectTypeOK
  <2>2. \/ SetObject(o, patched) /\ objs[o] # Absent
        \/ UNCHANGED objectVars
    BY DEF PatchObject
  <2>3. objs[o] # Absent => patched \in Owned
    BY <2>1, MergeOwned DEF ObjectTypeOK
  <2>4. /\ objs' \in [Kinds -> Owned \cup {Absent}]
        /\ seen' \in [Kinds -> Owned \cup {Absent}]
        /\ pending' \in [Kinds -> SUBSET Names]
    BY <2>1, <2>2, <2>3, SetObjectType DEF ObjectTypeOK
  <2>5. pass' \in Passes /\ queue' \in SUBSET Names
    BY <2>1, GoOnType, GiveUpType DEF PatchObject
  <2>6. Fault \/ UNCHANGED used
    BY DEF PatchObject
  <2>7. QED
    BY <2>4, <2>5, <2>6, SpentType DEF PatchObject, ObjectTypeOK
<1>5. RunUpdateScript => ObjectTypeOK'
  <2> SUFFICES ASSUME RunUpdateScript PROVE ObjectTypeOK'
    OBVIOUS
  <2>1. pass # NoPass /\ pass.owner \in Owner
    BY PassKinds DEF RunUpdateScript, ObjectTypeOK
  <2>2. CASE GiveUp
    BY <2>1, <2>2, GiveUpType DEF RunUpdateScript, ObjectTypeOK
  <2>3. CASE ~GiveUp
    <3>1. PICK known \in BOOLEAN :
            pass' = [at |-> "record", owner |-> pass.owner, ran |-> ~known]
      BY <2>3 DEF RunUpdateScript
    <3>2. pass' \in [at : {"record"}, owner : Owner, ran : BOOLEAN]
      BY <2>1, <3>1
    <3>3. QED
      BY <2>3, <3>2 DEF RunUpdateScript, Passes, ObjectTypeOK
  <2>4. QED
    BY <2>2, <2>3
<1>6. WriteStatus => ObjectTypeOK'
  <2> SUFFICES ASSUME WriteStatus PROVE ObjectTypeOK'
    OBVIOUS
  <2>1. pass # NoPass /\ pass.owner \in Owner
    BY PassKinds DEF WriteStatus, ObjectTypeOK
  <2>2. pass' \in Passes /\ queue' \in SUBSET Names
    BY <2>1, GiveUpType DEF WriteStatus, Passes, ObjectTypeOK
  <2>3. used' \in [touches : 0..MaxTouches, faults : 0..MaxFaults]
    BY SpentType DEF WriteStatus
  <2>4. logged' \in SUBSET UIDs
    BY <2>1 DEF WriteStatus, ObjectTypeOK, Owner
  <2>5. QED
    BY <2>2, <2>3, <2>4 DEF WriteStatus, ObjectTypeOK
<1>7. \A o \in Kinds : CatchUp(o) => ObjectTypeOK'
  BY DEF CatchUp, ObjectTypeOK
<1>8. \A o \in Kinds : Collect(o) => ObjectTypeOK'
  <2> SUFFICES ASSUME NEW o \in Kinds, Collect(o) PROVE ObjectTypeOK'
    OBVIOUS
  <2>1. SetObject(o, Absent) /\ tables' \in BOOLEAN
    BY DEF Collect, RemoveObject, ObjectTypeOK
  <2>2. QED
    BY <2>1, SetObjectType DEF Collect, ObjectTypeOK
<1>9. \A o \in Kinds : DeleteObject(o) => ObjectTypeOK'
  <2> SUFFICES ASSUME NEW o \in Kinds, DeleteObject(o) PROVE ObjectTypeOK'
    OBVIOUS
  <2>1. SetObject(o, Absent) /\ tables' \in BOOLEAN
    BY DEF DeleteObject, RemoveObject, ObjectTypeOK
  <2>2. QED
    BY <2>1, SetObjectType, SpentType DEF DeleteObject, ObjectTypeOK
<1>10. \A o \in Kinds : Tune(o) => ObjectTypeOK'
  <2> SUFFICES ASSUME NEW o \in Kinds, Tune(o) PROVE ObjectTypeOK'
    OBVIOUS
  <2>1. /\ SetObject(o, [objs[o] EXCEPT !.tuned = TRUE])
        /\ [objs[o] EXCEPT !.tuned = TRUE] \in Owned
    BY DEF Tune, ObjectTypeOK, Owned
  <2>2. QED
    BY <2>1, SetObjectType, SpentType DEF Tune, ObjectTypeOK
<1>11. \A o \in Kinds : RollBack(o) => ObjectTypeOK'
  <2> SUFFICES ASSUME NEW o \in Kinds, RollBack(o) PROVE ObjectTypeOK'
    OBVIOUS
  <2>1. PreviousVersion \in Versions
    BY DEF Versions
  <2>2. /\ SetObject(o, [objs[o] EXCEPT !.image = PreviousVersion])
        /\ [objs[o] EXCEPT !.image = PreviousVersion] \in Owned
    BY <2>1 DEF RollBack, ObjectTypeOK, Owned
  <2>3. QED
    BY <2>2, SetObjectType, SpentType DEF RollBack, ObjectTypeOK
<1>12. \A name \in Names : DeleteResource(name) => ObjectTypeOK'
  BY DEF DeleteResource, ObjectTypeOK
<1>13. \A name \in Names : CreateResource(name) => ObjectTypeOK'
  BY TrackedAssumption DEF CreateResource, ObjectTypeOK, UIDs
<1>14. RestartOperator => ObjectTypeOK'
  <2> SUFFICES ASSUME RestartOperator PROVE ObjectTypeOK'
    OBVIOUS
  <2>1. \A o \in Kinds : OwnersOf(objs[o]) \subseteq Names
    <3>1. \A x \in Owned : x.owner.name \in Names
      BY DEF Owned, Owner
    <3>2. QED
      BY <3>1 DEF OwnersOf, ObjectTypeOK
  <2>2. queue' \in SUBSET Names
    BY <2>1 DEF RestartOperator
  <2>3. pass' \in Passes
    BY DEF RestartOperator, Passes
  <2>4. QED
    BY <2>2, <2>3, SpentType DEF RestartOperator, ObjectTypeOK
<1>15. CASE UNCHANGED objectReconcilerVars
  BY <1>15 DEF objectReconcilerVars, ObjectTypeOK
<1>16. QED
  BY <1>1, <1>2, <1>3, <1>4, <1>5, <1>6, <1>7, <1>8, <1>9, <1>10, <1>11,
     <1>12, <1>13, <1>14, <1>15
     DEF ObjectNext, PassStep, ObjectEnvironment

\* Every reachable state is type correct.
THEOREM ObjectTypeCorrect == ObjectSpec => []ObjectTypeOK
  BY ObjectTypeInit, ObjectTypeStep, PTL DEF ObjectSpec

-----------------------------------------------------------------------------
(***************************************************************************)
(* What a step does to an object.                                          *)
(***************************************************************************)
\* The write of one object.
LEMMA SetObjectEffect ==
  ASSUME ObjectTypeOK, NEW k \in Kinds, NEW object \in Owned \cup {Absent},
         SetObject(k, object), NEW o \in Kinds
  PROVE  /\ o # k => objs'[o] = objs[o]
         /\ objs'[k] = object /\ seen' = seen
         /\ pending[o] \subseteq pending'[o]
         /\ objs'[o] # objs[o] =>
              OwnersOf(objs[o]) \cup OwnersOf(objs'[o]) \subseteq pending'[o]
  BY DEF SetObject, ObjectTypeOK

\* An object that changes is told to the one it belongs to, before and after.
LEMMA ObjectChange ==
  ASSUME ObjectTypeOK, ObjectNext, NEW o \in Kinds, objs'[o] # objs[o]
  PROVE  OwnersOf(objs[o]) \cup OwnersOf(objs'[o]) \subseteq pending'[o]
<1> USE DEF objectVars, userVars, scriptVars
<1>1. CASE CreateObject
  <2> DEFINE object == Own(New(Tracked[pass.n], Spec0), pass.owner)
  <2>1. Tracked[pass.n] \in Kinds /\ object \in Owned
    BY <1>1, PassKinds, NewOwned DEF CreateObject, ObjectTypeOK
  <2>2. SetObject(Tracked[pass.n], object)
    BY <1>1 DEF CreateObject
  <2>3. QED
    BY <2>1, <2>2, SetObjectEffect
<1>2. CASE PatchObject
  <2> DEFINE k == Tracked[pass.n]
             patched == MergePatch(pass.from, Patch(k, pass.from), objs[k])
  <2>1. k \in Kinds /\ k \in Objects /\ pass.from \in Owned
    BY <1>2, PassKinds DEF PatchObject, ObjectTypeOK
  <2>2. SetObject(k, patched) /\ objs[k] # Absent
    BY <1>2 DEF PatchObject
  <2>3. patched \in Owned
    BY <2>1, <2>2, MergeOwned DEF ObjectTypeOK
  <2>4. QED
    BY <2>1, <2>2, <2>3, SetObjectEffect
<1>3. CASE \E k \in Kinds : Tune(k)
  <2>1. PICK k \in Kinds : Tune(k)
    BY <1>3
  <2> DEFINE object == [objs[k] EXCEPT !.tuned = TRUE]
  <2>2. SetObject(k, object) /\ object \in Owned
    BY <2>1 DEF Tune, ObjectTypeOK, Owned
  <2>3. QED
    BY <2>2, SetObjectEffect
<1>4. CASE \E k \in Kinds : RollBack(k)
  <2>1. PICK k \in Kinds : RollBack(k)
    BY <1>4
  <2> DEFINE object == [objs[k] EXCEPT !.image = PreviousVersion]
  <2>2. PreviousVersion \in Versions
    BY DEF Versions
  <2>3. SetObject(k, object) /\ object \in Owned
    BY <2>1, <2>2 DEF RollBack, ObjectTypeOK, Owned
  <2>4. QED
    BY <2>3, SetObjectEffect
<1>5. CASE \E k \in Kinds : Collect(k) \/ DeleteObject(k)
  <2>1. PICK k \in Kinds : Collect(k) \/ DeleteObject(k)
    BY <1>5
  <2>2. SetObject(k, Absent)
    BY <2>1 DEF Collect, DeleteObject, RemoveObject
  <2>3. QED
    BY <2>2, SetObjectEffect
<1>6. CASE \/ \E name \in Names :
               Begin(name) \/ DeleteResource(name) \/ CreateResource(name)
           \/ GetObject \/ RunUpdateScript \/ WriteStatus
           \/ \E k \in Kinds : CatchUp(k)
           \/ RestartOperator
  BY <1>6 DEF Begin, DeleteResource, CreateResource, GetObject,
              RunUpdateScript, WriteStatus, CatchUp, RestartOperator
<1>7. QED
  BY <1>1, <1>2, <1>3, <1>4, <1>5, <1>6
     DEF ObjectNext, PassStep, ObjectEnvironment

\* An informer catches up with an object, or forgets nobody.
LEMMA InformerChange ==
  ASSUME ObjectTypeOK, ObjectNext, NEW o \in Kinds
  PROVE  \/ seen'[o] = seen[o] /\ pending[o] \subseteq pending'[o]
         \/ seen'[o] = objs'[o]
<1> USE DEF objectVars, userVars, scriptVars
<1>1. CASE \E k \in Kinds : CatchUp(k)
  BY <1>1 DEF CatchUp, ObjectTypeOK
<1>2. CASE RestartOperator
  BY <1>2 DEF RestartOperator
<1>3. ASSUME NEW k \in Kinds, NEW object, SetObject(k, object)
      PROVE  seen'[o] = seen[o] /\ pending[o] \subseteq pending'[o]
  BY <1>3 DEF SetObject, ObjectTypeOK
<1>4. CASE \/ \E k \in Kinds :
               Collect(k) \/ DeleteObject(k) \/ Tune(k) \/ RollBack(k)
           \/ CreateObject \/ PatchObject
  <2>1. pass.at \in {"create", "patch"} => Tracked[pass.n] \in Kinds
    BY PassKinds DEF ObjectTypeOK
  <2>2. QED
    BY <1>3, <1>4, <2>1
       DEF Collect, DeleteObject, RemoveObject, Tune, RollBack,
           CreateObject, PatchObject
<1>5. CASE \/ \E name \in Names :
               Begin(name) \/ DeleteResource(name) \/ CreateResource(name)
           \/ GetObject \/ RunUpdateScript \/ WriteStatus
  BY <1>5 DEF Begin, DeleteResource, CreateResource, GetObject,
              RunUpdateScript, WriteStatus
<1>6. QED
  BY <1>1, <1>2, <1>4, <1>5 DEF ObjectNext, PassStep, ObjectEnvironment

\* Of a settled object that stays, and that the user does not touch, nothing
\* changes: a pass patches it, if at all, from a copy that lacks nothing.
LEMMA SettledStays ==
  ASSUME ObjectTypeOK, ObjectNext, NEW o \in Kinds, Settled(o),
         objs[o] # Absent, objs'[o] # Absent, used'.touches = used.touches
  PROVE  objs'[o] = objs[o]
<1> USE DEF objectVars, userVars, scriptVars
<1>1. CASE CreateObject
  <2> DEFINE k == Tracked[pass.n]
             object == Own(New(k, Spec0), pass.owner)
  <2>1. k \in Kinds /\ object \in Owned
    BY <1>1, PassKinds, NewOwned DEF CreateObject, ObjectTypeOK
  <2>2. (SetObject(k, object) /\ objs[k] = Absent) \/ UNCHANGED objs
    BY <1>1 DEF CreateObject
  <2>3. QED
    BY <2>1, <2>2, SetObjectEffect
<1>2. CASE PatchObject
  <2> DEFINE k == Tracked[pass.n]
             patched == MergePatch(pass.from, Patch(k, pass.from), objs[k])
  <2>1. k \in Kinds /\ k \in Objects /\ pass.from \in Owned
        /\ pass.at = "patch"
    BY <1>2, PassKinds DEF PatchObject, ObjectTypeOK
  <2>2. (SetObject(k, patched) /\ objs[k] # Absent) \/ UNCHANGED objs
    BY <1>2 DEF PatchObject
  <2>3. objs[k] # Absent => patched \in Owned
    BY <2>1, MergeOwned DEF ObjectTypeOK
  <2>4. CASE k = o
    <3>1. pass.from \in Copies(o) \ {Absent}
      BY <2>1, <2>4, AbsentIsNoObject DEF Copies
    <3>2. Patch(k, pass.from) = pass.from
      BY <2>4, <3>1 DEF Settled
    <3>3. patched = objs[o]
      BY <2>1, <2>4, <3>2, MergeSettled DEF ObjectTypeOK
    <3>4. QED
      BY <2>1, <2>2, <2>3, <2>4, <3>3, SetObjectEffect
  <2>5. CASE k # o
    BY <2>1, <2>2, <2>3, <2>5, SetObjectEffect
  <2>6. QED
    BY <2>4, <2>5
<1>3. ~(\E k \in Kinds : Tune(k) \/ RollBack(k))
  <2>1. ~Touch
    BY TrackedAssumption DEF Touch, Spend, ObjectTypeOK
  <2>2. QED
    BY <2>1 DEF Tune, RollBack
<1>4. CASE \E k \in Kinds : Collect(k) \/ DeleteObject(k)
  <2>1. PICK k \in Kinds : Collect(k) \/ DeleteObject(k)
    BY <1>4
  <2>2. SetObject(k, Absent)
    BY <2>1 DEF Collect, DeleteObject, RemoveObject
  <2>3. QED
    BY <2>2, SetObjectEffect
<1>5. CASE \/ \E name \in Names :
               Begin(name) \/ DeleteResource(name) \/ CreateResource(name)
           \/ GetObject \/ RunUpdateScript \/ WriteStatus
           \/ \E k \in Kinds : CatchUp(k)
           \/ RestartOperator
  BY <1>5 DEF Begin, DeleteResource, CreateResource, GetObject,
              RunUpdateScript, WriteStatus, CatchUp, RestartOperator
<1>6. QED
  BY <1>1, <1>2, <1>3, <1>4, <1>5 DEF ObjectNext, PassStep, ObjectEnvironment

\* The copy a pass has read is one that an informer had.
LEMMA PassCopy ==
  ASSUME ObjectTypeOK, ObjectNext, NEW o \in Kinds,
         pass'.at = "patch", Tracked[pass'.n] = o
  PROVE  \/ pass' = pass
         \/ pass'.from = seen[o] /\ seen' = seen
<1> USE DEF objectVars, userVars, scriptVars
<1>1. CASE GetObject
  <2>1. pass' = [at |-> "patch", owner |-> pass.owner, n |-> pass.n,
                 from |-> seen[Tracked[pass.n]]]
    BY <1>1 DEF GetObject, GoOn
  <2>2. QED
    BY <1>1, <2>1 DEF GetObject
<1>2. CASE CreateObject
  <2>1. pass.at = "create"
    BY <1>2 DEF CreateObject
  <2>2. [pass EXCEPT !.at = "get"].at = "get"
    BY <2>1, PassKinds DEF ObjectTypeOK, Passes, NoPass
  <2>3. ~GoOn /\ ~GiveUp
    BY DEF GoOn, GiveUp, NoPass
  <2>4. QED
    BY <1>2, <2>2, <2>3 DEF CreateObject
<1>3. CASE \/ \E name \in Names : Begin(name)
           \/ PatchObject \/ RunUpdateScript \/ WriteStatus
           \/ RestartOperator
  BY <1>3 DEF Begin, PatchObject, RunUpdateScript, WriteStatus,
              RestartOperator, GoOn, GiveUp, NoPass
<1>4. CASE ObjectEnvironment /\ ~RestartOperator
  BY <1>4 DEF ObjectEnvironment, CatchUp, Collect, Tune, RollBack,
              DeleteObject, DeleteResource, CreateResource
<1>5. QED
  BY <1>1, <1>2, <1>3, <1>4 DEF ObjectNext, PassStep

\* Patches are computed from whatever copy the informer has, and merged.
THEOREM SettledObjectsUntouchedHolds == ObjectSpec => SettledObjectsUntouched
<1> DEFINE Untouched ==
             \A o \in Kinds :
               /\ Settled(o) /\ objs[o] # Absent /\ objs'[o] # Absent
               /\ used'.touches = used.touches
               => objs'[o] = objs[o] /\ Settled(o)'
<1>1. ObjectTypeOK /\ [ObjectNext]_objectReconcilerVars
        => [Untouched]_objectReconcilerVars
  <2> SUFFICES ASSUME ObjectTypeOK, ObjectNext, NEW o \in Kinds, Settled(o),
                      objs[o] # Absent, objs'[o] # Absent,
                      used'.touches = used.touches
               PROVE  objs'[o] = objs[o] /\ Settled(o)'
    OBVIOUS
  <2>1. objs'[o] = objs[o]
    BY SettledStays
  <2>2. seen'[o] \in Copies(o)
    BY <2>1, InformerChange DEF Copies
  <2>3. pass'.at = "patch" /\ Tracked[pass'.n] = o => pass'.from \in Copies(o)
    BY PassCopy DEF Copies
  <2>4. Copies(o)' \subseteq Copies(o)
    BY <2>1, <2>2, <2>3 DEF Copies
  <2>5. QED
    BY <2>1, <2>4 DEF Settled
<1>2. QED
  BY <1>1, ObjectTypeCorrect, PTL DEF ObjectSpec, SettledObjectsUntouched

\* One patch that was computed from the current copy is enough: the object is
\* then as the next patch wants it, so the next pass leaves it alone.
THEOREM OnePatchSettles ==
  ASSUME NEW o \in Objects, NEW current \in Owned
  PROVE  LET merged == MergePatch(current, Patch(o, current), current)
         IN  Patch(o, merged) = merged
<1> DEFINE patched == Patch(o, current)
           merged == MergePatch(current, patched, current)
<1>1. patched \in Owned /\ merged \in Owned
  BY PatchOwned, MergeOwned
<1> HIDE DEF patched
<1>2. /\ merged.version = patched.version /\ merged.image = patched.image
      /\ merged.replicas = patched.replicas
      /\ merged.scripts =
           (current.scripts \ (current.scripts \ patched.scripts))
             \cup (patched.scripts \ current.scripts)
  BY <1>1 DEF MergePatch, Owned
<1>3. merged.scripts = patched.scripts
  BY <1>2
<1> HIDE DEF merged
<1>4. ASSUME merged.version = Version
      PROVE  SetVersionLabel(merged) = merged
  BY <1>1, <1>4 DEF SetVersionLabel, Owned
<1>5. CASE o \in {VolumeClaim, DatabaseDeployment}
  BY <1>5, PatchShape DEF merged, patched
<1>6. CASE o = ConfigMap
  <2>1. patched = NewEventsDatabaseScriptsConfigMapPatch(current)
    BY <1>6, PatchShape DEF patched
  <2>2. /\ merged.version = Version
        /\ merged.scripts \cup getDatabaseScriptsMap = merged.scripts
    BY <1>2, <1>3, <2>1, PatchFields
  <2>3. [merged EXCEPT !.scripts = merged.scripts] = merged
    BY <1>1 DEF Owned
  <2>4. NewEventsDatabaseScriptsConfigMapPatch(merged) = merged
    BY <1>4, <2>2, <2>3 DEF NewEventsDatabaseScriptsConfigMapPatch
  <2>5. QED
    BY <1>6, <2>4, PatchShape DEF merged, patched
<1>7. CASE o \in PatchedDeployments
  <2>1. patched = NewEventsDeploymentPatch(current)
    BY <1>7, PatchShape DEF patched
  <2>2. /\ merged.version = Version /\ merged.image = Version
        /\ merged.replicas = 2
    BY <1>2, <2>1, PatchFields
  <2>3. [merged EXCEPT !.image = Version, !.replicas = 2] = merged
    BY <1>1, <2>2 DEF Owned
  <2>4. NewEventsDeploymentPatch(merged) = merged
    BY <1>4, <2>2, <2>3 DEF NewEventsDeploymentPatch
  <2>5. QED
    BY <1>7, <2>4, PatchShape DEF merged, patched
<1>8. CASE o \notin {VolumeClaim, DatabaseDeployment, ConfigMap}
                      \cup PatchedDeployments
  <2>1. patched = SetVersionLabel(current)
    BY <1>8, PatchShape DEF patched
  <2>2. merged.version = Version
    BY <1>2, <2>1, PatchFields
  <2>3. QED
    BY <1>4, <1>8, <2>2, PatchShape DEF merged, patched
<1>9. QED
  BY <1>5, <1>6, <1>7, <1>8

-----------------------------------------------------------------------------
(***************************************************************************)
(* Nobody is forgotten.                                                    *)
(***************************************************************************)
LEMMA OwnerOfObject ==
  ASSUME NEW object \in Owned
  PROVE  /\ object # Absent /\ object.owner.name \in Names
         /\ object.owner.uid # None
         /\ OwnersOf(object) = {object.owner.name}
<1>1. object.owner \in Owner
  BY DEF Owned
<1>2. object.owner.name \in Names /\ object.owner.uid \in UIDs
  BY <1>1 DEF Owner
<1>3. QED
  BY <1>2, AbsentIsNoObject DEF OwnersOf

\* A name that is told about an object stays so, or its pass begins.
LEMMA ToldStays ==
  ASSUME ObjectTypeOK, ObjectNext, NEW o \in Kinds \cap Deployments,
         NEW name \in Names, Told(name, o), crs'[name] # None
  PROVE  Told(name, o)' \/ (ByThePass(name)' /\ Ahead(o)')
<1> USE DEF objectVars, userVars, scriptVars
<1>1. CASE Begin(name)
  <2>1. crs[name] # None
    BY <1>1 DEF Begin
  <2>2. pass' = [at |-> "create", n |-> 1,
                 owner |-> [name |-> name, uid |-> crs[name]]]
    BY <1>1, <2>1 DEF Begin
  <2>3. PICK i \in DOMAIN Tracked : Tracked[i] = o
    BY DEF Kinds
  <2>4. i > 1 \/ i = 1
    BY <2>3, TrackedKinds
  <2>5. QED
    BY <2>2, <2>3, <2>4 DEF ByThePass, Ahead, NoPass
<1>2. ASSUME NEW m \in Names \ {name}, Begin(m)
      PROVE  Told(name, o)'
  BY <1>2 DEF Begin, Told
<1>3. CASE RestartOperator
  BY <1>3 DEF RestartOperator, Told
<1>4. CASE CatchUp(o)
  BY <1>4 DEF CatchUp, Told, ObjectTypeOK
<1>5. ASSUME NEW k \in Kinds, NEW object, SetObject(k, object)
      PROVE  pending[o] \subseteq pending'[o]
  BY <1>5 DEF SetObject, ObjectTypeOK
<1>6. CASE CreateObject \/ PatchObject
  <2>1. Tracked[pass.n] \in Kinds
    BY <1>6, PassKinds DEF CreateObject, PatchObject, ObjectTypeOK
  <2>2. pending[o] \subseteq pending'[o]
    BY <1>5, <1>6, <2>1 DEF CreateObject, PatchObject
  <2>3. queue \subseteq queue'
    BY <1>6 DEF CreateObject, PatchObject, GoOn, GiveUp
  <2>4. QED
    BY <2>2, <2>3 DEF Told
<1>7. ASSUME NEW k \in Kinds,
             Collect(k) \/ DeleteObject(k) \/ Tune(k) \/ RollBack(k)
      PROVE  Told(name, o)'
  <2>1. pending[o] \subseteq pending'[o]
    BY <1>5, <1>7 DEF Collect, DeleteObject, RemoveObject, Tune, RollBack
  <2>2. queue' = queue
    BY <1>7 DEF Collect, DeleteObject, Tune, RollBack
  <2>3. QED
    BY <2>1, <2>2 DEF Told
<1>8. ASSUME NEW k \in Kinds \ {o}, CatchUp(k)
      PROVE  Told(name, o)'
  BY <1>8 DEF CatchUp, Told, ObjectTypeOK
<1>9. CASE \/ GetObject \/ RunUpdateScript \/ WriteStatus
           \/ \E m \in Names : DeleteResource(m) \/ CreateResource(m)
  BY <1>9 DEF GetObject, RunUpdateScript, WriteStatus, DeleteResource,
              CreateResource, GoOn, GiveUp, Told
<1>10. QED
  BY <1>1, <1>2, <1>3, <1>4, <1>6, <1>7, <1>8, <1>9
     DEF ObjectNext, PassStep, ObjectEnvironment

\* A pass that has yet to come to an object comes nearer, takes the object now,
\* or will be made up for.
LEMMA AheadStays ==
  ASSUME ObjectTypeOK, CreateObject \/ GetObject \/ PatchObject,
         NEW o \in Kinds, NEW name, ByThePass(name), Ahead(o),
         ~(pass.at = "create" /\ Tracked[pass.n] = o)
  PROVE  Told(name, o)' \/ (ByThePass(name)' /\ Ahead(o)')
<1>1. /\ pass.at \in {"create", "get", "patch"}
      /\ pass.n \in 1..Len(Tracked) /\ Len(Tracked) \in Nat
      /\ DOMAIN Tracked = 1..Len(Tracked)
  BY PassKinds, TrackedKinds DEF Ahead, ObjectTypeOK
<1>2. PICK i \in DOMAIN Tracked : Tracked[i] = o /\ i > pass.n
  BY <1>1 DEF Ahead
<1>3. CASE GiveUp
  BY <1>3 DEF GiveUp, Told, ByThePass
<1>4. CASE GoOn
  <2>1. pass' = [at |-> "create", owner |-> pass.owner, n |-> pass.n + 1]
    BY <1>1, <1>2, <1>4 DEF GoOn
  <2>2. i > pass.n + 1 \/ i = pass.n + 1
    BY <1>1, <1>2
  <2>3. QED
    BY <1>2, <2>1, <2>2 DEF ByThePass, Ahead, NoPass
<1>5. CASE pass' = [pass EXCEPT !.at = "get"] /\ pass.at = "create"
  <2>1. pass \in [at : {"create", "get"}, owner : Owner, n : DOMAIN Tracked]
    BY <1>5 DEF ObjectTypeOK, Passes, NoPass
  <2>2. pass'.at = "get" /\ pass'.owner = pass.owner /\ pass'.n = pass.n
    BY <1>5, <2>1
  <2>3. QED
    BY <1>2, <2>2 DEF ByThePass, Ahead, NoPass
<1>6. CASE \E from : pass' = [at |-> "patch", owner |-> pass.owner,
                             n |-> pass.n, from |-> from]
  BY <1>2, <1>6 DEF ByThePass, Ahead, NoPass
<1>7. QED
  BY <1>3, <1>4, <1>5, <1>6 DEF CreateObject, GetObject, PatchObject

\* A resource that exists after a step existed before, or is queued.
LEMMA ResourceStays ==
  ASSUME ObjectTypeOK, ObjectNext, NEW name \in Names, crs'[name] # None
  PROVE  crs'[name] = crs[name] \/ name \in queue'
<1> USE DEF objectVars, userVars, scriptVars
<1>1. CASE \E m \in Names : DeleteResource(m) \/ CreateResource(m)
  BY <1>1 DEF DeleteResource, CreateResource, ObjectTypeOK
<1>2. CASE \/ \E m \in Names : Begin(m)
           \/ CreateObject \/ GetObject \/ PatchObject
           \/ RunUpdateScript \/ WriteStatus \/ RestartOperator
           \/ \E k \in Kinds : \/ CatchUp(k) \/ Collect(k) \/ Tune(k)
                             \/ RollBack(k) \/ DeleteObject(k)
  BY <1>2 DEF Begin, CreateObject, GetObject, PatchObject, RunUpdateScript,
              WriteStatus, RestartOperator, CatchUp, Collect, Tune,
              RollBack, DeleteObject
<1>3. QED
  BY <1>1, <1>2 DEF ObjectNext, PassStep, ObjectEnvironment

LEMMA InformerTellsStep ==
  ASSUME ObjectTypeOK, InformerTells, ObjectNext
  PROVE  InformerTells'
<1> SUFFICES ASSUME NEW o \in Kinds, objs'[o] # Absent, seen'[o] # objs'[o]
             PROVE  objs'[o].owner.name \in pending'[o]
  BY DEF InformerTells
<1>1. objs'[o] \in Owned
  BY ObjectTypeStep DEF ObjectTypeOK
<1>2. CASE objs'[o] # objs[o]
  BY <1>1, <1>2, ObjectChange, OwnerOfObject
<1>3. CASE objs'[o] = objs[o]
  BY <1>3, InformerChange DEF InformerTells
<1>4. QED
  BY <1>2, <1>3

\* The pass of the owner sees to what it was to see to, or will be made up for.
LEMMA PassPatches ==
  ASSUME ObjectTypeOK, InformerTells, ObjectNext,
         NEW o \in Kinds \cap Deployments,
         objs[o] # Absent, objs'[o] = objs[o], ~UpToDate(o, objs[o]),
         crs'[objs[o].owner.name] # None,
         ByThePass(objs[o].owner.name), WillPatch(o)
  PROVE  \/ Told(objs[o].owner.name, o)'
         \/ ByThePass(objs[o].owner.name)' /\ WillPatch(o)'
<1> DEFINE name == objs[o].owner.name
<1>1. /\ pass # NoPass /\ pass.owner.name = name
      /\ pass.at \in {"create", "get", "patch"}
      /\ name \in Names /\ objs[o] \in Owned /\ o \in Objects
  BY OwnerOfObject, TrackedKinds
     DEF ByThePass, WillPatch, Ahead, ObjectTypeOK
<1> HIDE DEF name
<1> USE DEF objectVars, userVars, scriptVars
<1>2. CASE GiveUp
  BY <1>1, <1>2 DEF GiveUp, Told, name
<1>3. CASE CreateObject /\ Tracked[pass.n] = o
  <2>1. o # VolumeClaim
    BY DEF Deployments, PatchedDeployments, VolumeClaim, DatabaseDeployment,
           EventsDeployment, GatewayDeployment, FrontendDeployment
  <2>2. pass.at = "create"
    BY <1>3 DEF CreateObject
  <2>3. CASE pass' = [pass EXCEPT !.at = "get"]
    <3>1. pass \in [at : {"create", "get"}, owner : Owner, n : DOMAIN Tracked]
      BY <2>2 DEF ObjectTypeOK, Passes, NoPass
    <3>2. pass'.at = "get" /\ pass'.owner = pass.owner /\ pass'.n = pass.n
      BY <2>3, <3>1
    <3>3. QED
      BY <1>1, <1>3, <3>2 DEF ByThePass, WillPatch, NoPass, name
  <2>4. QED
    BY <1>2, <1>3, <2>1, <2>3 DEF CreateObject
<1>4. CASE GetObject /\ Tracked[pass.n] = o /\ pass.at = "get"
  <2>1. CASE seen[o] = objs[o]
    <3>1. pass' = [at |-> "patch", owner |-> pass.owner, n |-> pass.n,
                   from |-> objs[o]]
      BY <1>4, <2>1 DEF GetObject
    <3>2. QED
      BY <1>1, <1>4, <3>1 DEF ByThePass, WillPatch, Corrects, NoPass, name
  <2>2. CASE seen[o] # objs[o]
    BY <1>1, <1>4, <2>2 DEF InformerTells, GetObject, Told, name
  <2>3. QED
    BY <2>1, <2>2
<1>5. CASE PatchObject /\ Tracked[pass.n] = o /\ Corrects(pass.from, objs[o])
  <2> DEFINE patched == MergePatch(pass.from, Patch(o, pass.from), objs[o])
  <2>1. pass.from \in Owned
    BY <1>5, PassKinds DEF PatchObject, ObjectTypeOK
  <2>2. patched \in Owned /\ UpToDate(o, patched)
    BY <1>1, <1>5, <2>1, MergeOwned, MergeCorrects
  <2>3. CASE SetObject(o, patched)
    <3>1. objs'[o] = patched
      BY <2>2, <2>3, SetObjectEffect
    <3>2. QED
      BY <2>2, <3>1
  <2>4. QED
    BY <1>2, <1>5, <2>3 DEF PatchObject
<1>6. CASE /\ CreateObject \/ GetObject \/ PatchObject
           /\ Ahead(o)
           /\ ~(pass.at = "create" /\ Tracked[pass.n] = o)
  BY <1>1, <1>6, AheadStays DEF WillPatch, ByThePass, name
<1>7. CASE CreateObject \/ GetObject \/ PatchObject
  <2>1. /\ CreateObject => pass.at = "create"
        /\ GetObject => pass.at = "get"
        /\ PatchObject => pass.at = "patch"
    BY DEF CreateObject, GetObject, PatchObject
  <2>2. QED
    BY <1>3, <1>4, <1>5, <1>6, <1>7, <2>1 DEF WillPatch
<1>8. CASE RestartOperator
  BY <1>1, <1>8 DEF RestartOperator, Told, name
<1>9. CASE pass' = pass
  <2>1. WillPatch(o)'
    BY <1>9 DEF WillPatch, Ahead
  <2>2. QED
    BY <1>9, <2>1 DEF ByThePass
<1>10. CASE \/ \E m \in Names : Begin(m)
            \/ RunUpdateScript \/ WriteStatus
  BY <1>1, <1>10 DEF Begin, RunUpdateScript, WriteStatus
<1>11. CASE ObjectEnvironment /\ ~RestartOperator
  BY <1>9, <1>11
     DEF ObjectEnvironment, CatchUp, Collect, Tune, RollBack,
         DeleteObject, DeleteResource, CreateResource
<1>12. QED
  BY <1>7, <1>8, <1>10, <1>11 DEF ObjectNext, PassStep

LEMMA OutdatedStep ==
  ASSUME ObjectTypeOK, InformerTells, OutdatedIsPatched, ObjectNext
  PROVE  OutdatedIsPatched'
<1> SUFFICES ASSUME NEW o \in Kinds \cap Deployments,
                    objs'[o] # Absent, ~IsGarbage(objs[o])',
                    ~UpToDate(o, objs'[o]),
                    NEW name, name = objs'[o].owner.name
             PROVE  \/ Told(name, o)'
                    \/ ByThePass(name)' /\ WillPatch(o)'
  BY DEF OutdatedIsPatched, UpToDate, Told, ByThePass
<1>1. objs'[o] \in Owned
  BY ObjectTypeStep DEF ObjectTypeOK
<1>2. name \in Names /\ OwnersOf(objs'[o]) = {name}
  BY <1>1, OwnerOfObject
<1>3. crs'[name] = objs'[o].owner.uid /\ crs'[name] # None
  BY <1>1, OwnerOfObject DEF IsGarbage
<1>4. CASE objs'[o] # objs[o]
  BY <1>2, <1>4, ObjectChange DEF Told
<1>5. CASE objs'[o] = objs[o]
  <2>1. CASE name \in queue'
    BY <2>1 DEF Told
  <2>2. CASE crs'[name] = crs[name]
    <3>1. ~IsGarbage(objs[o])
      BY <1>3, <1>5, <2>2 DEF IsGarbage
    <3>2. \/ Told(name, o)
          \/ ByThePass(name) /\ WillPatch(o)
      BY <1>5, <3>1 DEF OutdatedIsPatched
    <3>3. CASE Told(name, o)
      BY <1>2, <1>3, <3>3, ToldStays DEF WillPatch
    <3>4. CASE ByThePass(name) /\ WillPatch(o)
      BY <1>3, <1>5, <3>4, PassPatches DEF Told, ByThePass
    <3>5. QED
      BY <3>2, <3>3, <3>4
  <2>3. QED
    BY <1>2, <1>3, <2>1, <2>2, ResourceStays
<1>6. QED
  BY <1>4, <1>5

LEMMA MissingStep ==
  ASSUME ObjectTypeOK, MissingIsCreated, ObjectNext
  PROVE  MissingIsCreated'
<1> SUFFICES ASSUME NEW o \in Kinds \cap Deployments, NEW name \in Names,
                    Names = {name}, crs'[name] # None, objs'[o] = Absent
             PROVE  Told(name, o)' \/ (ByThePass(name)' /\ Ahead(o)')
  BY DEF MissingIsCreated
<1> USE DEF objectVars, userVars, scriptVars
<1>1. CASE objs[o] # Absent
  <2>1. objs[o] \in Owned
    BY <1>1 DEF ObjectTypeOK
  <2>2. OwnersOf(objs[o]) = {name}
    BY <2>1, OwnerOfObject
  <2>3. QED
    BY <1>1, <2>2, ObjectChange DEF Told
<1>2. CASE name \in queue'
  BY <1>2 DEF Told
<1>3. CASE objs[o] = Absent /\ crs[name] # None
  <2>1. Told(name, o) \/ (ByThePass(name) /\ Ahead(o))
    BY <1>3 DEF MissingIsCreated
  <2>2. CASE Told(name, o)
    BY <2>2, ToldStays
  <2>3. CASE ByThePass(name) /\ Ahead(o)
    <3>1. /\ pass # NoPass /\ pass.owner.name = name
          /\ pass.at \in {"create", "get", "patch"}
      BY <2>3 DEF ByThePass, Ahead
    <3>2. CASE CreateObject /\ Tracked[pass.n] = o
      <4>1. Own(New(o, Spec0), pass.owner) \in Owned
        BY <3>1, NewOwned, PassKinds, TrackedKinds DEF ObjectTypeOK
      <4>2. ~SetObject(o, Own(New(o, Spec0), pass.owner))
        BY <4>1, SetObjectEffect, OwnerOfObject
      <4>3. GiveUp
        BY <1>3, <3>2, <4>2 DEF CreateObject
      <4>4. QED
        BY <3>1, <4>3 DEF GiveUp, Told
    <3>3. CASE /\ CreateObject \/ GetObject \/ PatchObject
               /\ ~(pass.at = "create" /\ Tracked[pass.n] = o)
      BY <2>3, <3>3, AheadStays
    <3>4. CASE RestartOperator
      BY <3>4 DEF RestartOperator, Told
    <3>5. CASE \/ \E m \in Names : Begin(m)
               \/ RunUpdateScript \/ WriteStatus
      BY <3>1, <3>5 DEF Begin, RunUpdateScript, WriteStatus
    <3>6. CASE pass' = pass
      BY <2>3, <3>6 DEF ByThePass, Ahead
    <3>7. CASE ObjectEnvironment /\ ~RestartOperator
      BY <3>6, <3>7
         DEF ObjectEnvironment, CatchUp, Collect, Tune, RollBack,
             DeleteObject, DeleteResource, CreateResource
    <3>8. GetObject \/ PatchObject => pass.at # "create"
      BY DEF GetObject, PatchObject
    <3>9. QED
      BY <3>2, <3>3, <3>4, <3>5, <3>7, <3>8 DEF ObjectNext, PassStep
  <2>4. QED
    BY <2>1, <2>2, <2>3
<1>4. QED
  BY <1>1, <1>2, <1>3, ResourceStays

LEMMA SomebodyComesInit == ObjectInit => SomebodyComes
<1> SUFFICES ASSUME ObjectInit PROVE SomebodyComes
  OBVIOUS
<1>1. ObjectTypeOK /\ InformerTells
  BY ObjectTypeInit DEF ObjectInit, InformerTells
<1>2. \A name \in Names : crs[name] # None => name \in queue
  BY DEF ObjectInit
<1>3. OutdatedIsPatched
  <2> SUFFICES ASSUME NEW o \in Kinds, objs[o] # Absent, ~IsGarbage(objs[o])
               PROVE  objs[o].owner.name \in queue
    BY DEF OutdatedIsPatched, Told
  <2>1. objs[o] \in Owned
    BY <1>1 DEF ObjectTypeOK
  <2>2. QED
    BY <1>2, <2>1, OwnerOfObject DEF IsGarbage
<1>4. MissingIsCreated
  BY <1>2 DEF MissingIsCreated, Told
<1>5. QED
  BY <1>1, <1>3, <1>4 DEF SomebodyComes

LEMMA SomebodyComesStep ==
  ASSUME SomebodyComes, [ObjectNext]_objectReconcilerVars
  PROVE  SomebodyComes'
<1>1. CASE ObjectNext
  BY <1>1, ObjectTypeStep, InformerTellsStep, OutdatedStep, MissingStep
     DEF SomebodyComes
<1>2. CASE UNCHANGED objectReconcilerVars
  <2>1. ObjectTypeOK'
    BY <1>2, ObjectTypeStep DEF SomebodyComes
  <2>2. QED
    BY <1>2, <2>1
       DEF objectReconcilerVars, userVars, objectVars, scriptVars,
           SomebodyComes, InformerTells, OutdatedIsPatched, MissingIsCreated,
           IsGarbage, UpToDate, Told, ByThePass, WillPatch, Ahead
<1>3. QED
  BY <1>1, <1>2

\* When nothing is queued, on its way or under way, nobody is left to be told
\* and no pass to come by: every Deployment must be as it should be.
LEMMA RestIsReached == SomebodyComes => DeploymentsAtRest
<1> SUFFICES ASSUME SomebodyComes, AtRest, NEW o \in Kinds \cap Deployments
             PROVE  /\ objs[o] # Absent => UpToDate(o, objs[o])
                    /\ \A name \in Names :
                         Names = {name} /\ crs[name] # None =>
                           /\ objs[o] # Absent
                           /\ objs[o].owner = [name |-> name, uid |-> crs[name]]
  BY DEF DeploymentsAtRest
<1>1. \A name : ~Told(name, o) /\ ~ByThePass(name)
  BY DEF AtRest, Told, ByThePass
<1>2. objs[o] # Absent => UpToDate(o, objs[o])
  BY <1>1 DEF SomebodyComes, OutdatedIsPatched, AtRest
<1>3. ASSUME NEW name \in Names, Names = {name}, crs[name] # None
      PROVE  /\ objs[o] # Absent
             /\ objs[o].owner = [name |-> name, uid |-> crs[name]]
  <2>1. objs[o] # Absent
    BY <1>1, <1>3 DEF SomebodyComes, MissingIsCreated
  <2>2. objs[o].owner \in Owner
    BY <2>1 DEF SomebodyComes, ObjectTypeOK, Owned
  <2>3. objs[o].owner.name = name /\ objs[o].owner.uid = crs[name]
    BY <1>3, <2>1, <2>2 DEF AtRest, IsGarbage, Owner
  <2>4. QED
    BY <2>1, <2>2, <2>3 DEF Owner
<1>4. QED
  BY <1>2, <1>3

\* The operator never rests beside a Deployment that is not as it should be.
THEOREM DeploymentsAtRestHolds == ObjectSpec => []DeploymentsAtRest
  BY SomebodyComesInit, SomebodyComesStep, RestIsReached, PTL DEF ObjectSpec

=============================================================================
