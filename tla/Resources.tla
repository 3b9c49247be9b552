----------------------------- MODULE Resources -----------------------------
(***************************************************************************)
(* The objects the operator owns in the namespace of an AppService: what   *)
(* the constructors New* of the package deployment put in an object, what  *)
(* the functions New*Patch change in an object that exists, and the order  *)
(* in which addEvents, addGateway and addFrontend apply them.              *)
(*                                                                         *)
(* An object is reduced to the fields that a constructor and a patch set   *)
(* differently: the version label, the image, the replicas, the scripts of *)
(* a config map and the domain in the host of an ingress.                  *)
(***************************************************************************)
EXTENDS AppService

CONSTANT Absent    \* the object does not exist

Version == "0.0.2"
PreviousVersion == "0.0.1"

Secret == "events-database/Secret"
ConfigMap == "events-database-scripts/ConfigMap"
VolumeClaim == "events-database/PersistentVolumeClaim"
DatabaseDeployment == "events-database/Deployment"
DatabaseService == "events-database/Service"
EventsDeployment == "events/Deployment"
EventsService == "events/Service"
GatewayDeployment == "gateway/Deployment"
GatewayService == "gateway/Service"
GatewayRoute == "gateway/Route"
GatewayIngress == "gateway/Ingress"
FrontendDeployment == "frontend/Deployment"
FrontendService == "frontend/Service"
FrontendRoute == "frontend/Route"
FrontendIngress == "frontend/Ingress"

PatchedDeployments == {EventsDeployment, GatewayDeployment, FrontendDeployment}
Deployments == PatchedDeployments \cup {DatabaseDeployment}
Services ==
  {DatabaseService, EventsService, GatewayService, FrontendService}
Ingresses == {GatewayIngress, FrontendIngress}
Routes == {GatewayRoute, FrontendRoute}
Objects ==
  {Secret, ConfigMap, VolumeClaim} \cup Deployments \cup Services
    \cup Ingresses \cup Routes

Versions == {Unset, PreviousVersion, Version}

Object ==
  [version : Versions, image : Versions, replicas : 0..2,
   scripts : SUBSET ScriptNames, host : DomainNames]

ASSUME AbsentAssumption == Absent \notin Object

-----------------------------------------------------------------------------
\* Constructors.  GetAppServiceLabels sets no version label.
BlankObject ==
  [version |-> Unset, image |-> Unset, replicas |-> 0, scripts |-> {},
   host |-> Unset]

NewEventsDatabaseCredentialsSecret == BlankObject

getDatabaseScriptsMap == {EventsDatabaseUpdateScriptName}

NewEventsDatabaseScriptsConfigMap ==
  [BlankObject EXCEPT !.scripts = getDatabaseScriptsMap]

NewPersistentVolumeClaim == BlankObject

\* The PostgreSQL image does not change from one release to the next.
NewEventsDatabaseDeployment == [BlankObject EXCEPT !.replicas = 1]

NewEventsDatabaseService == BlankObject

\* These three leave replicas out: the API server fills in 1.
NewEventsDeployment ==
  [BlankObject EXCEPT !.image = Version, !.replicas = 1]
NewGatewayDeployment ==
  [BlankObject EXCEPT !.image = Version, !.replicas = 1]
NewFrontendDeployment ==
  [BlankObject EXCEPT !.image = Version, !.replicas = 1]

NewEventsService == BlankObject
NewGatewayService == BlankObject
NewFrontendService == BlankObject

NewRoute == BlankObject
NewIngress(spec) == [BlankObject EXCEPT !.host = spec.domainName]

New(o, spec) ==
  CASE o = Secret -> NewEventsDatabaseCredentialsSecret
    [] o = ConfigMap -> NewEventsDatabaseScriptsConfigMap
    [] o = VolumeClaim -> NewPersistentVolumeClaim
    [] o = DatabaseDeployment -> NewEventsDatabaseDeployment
    [] o = DatabaseService -> NewEventsDatabaseService
    [] o = EventsDeployment -> NewEventsDeployment
    [] o = EventsService -> NewEventsService
    [] o = GatewayDeployment -> NewGatewayDeployment
    [] o = GatewayService -> NewGatewayService
    [] o = FrontendDeployment -> NewFrontendDeployment
    [] o = FrontendService -> NewFrontendService
    [] o \in Routes -> NewRoute
    [] OTHER -> NewIngress(spec)

\* The API server rejects an ingress whose host ends in a dot, before it
\* looks whether the ingress exists.
Rejected(o, spec) == o \in Ingresses /\ spec.domainName = Unset

-----------------------------------------------------------------------------
\* Patches.
SetVersionLabel(current) == [current EXCEPT !.version = Version]

NewEventsDatabaseCredentialsSecretPatch(current) == SetVersionLabel(current)

NewEventsDatabaseScriptsConfigMapPatch(current) ==
  [SetVersionLabel(current) EXCEPT !.scripts = @ \cup getDatabaseScriptsMap]

\* Empty on purpose: a new label would restart the database.
NewEventsDatabaseDeploymentPatch(current) == current

NewEventsDatabaseServicePatch(current) == SetVersionLabel(current)

NewEventsDeploymentPatch(current) ==
  [SetVersionLabel(current) EXCEPT !.image = Version, !.replicas = 2]
NewGatewayDeploymentPatch(current) ==
  [SetVersionLabel(current) EXCEPT !.image = Version, !.replicas = 2]
NewFrontendDeploymentPatch(current) ==
  [SetVersionLabel(current) EXCEPT !.image = Version, !.replicas = 2]

NewEventsServicePatch(current) == SetVersionLabel(current)
NewGatewayServicePatch(current) == SetVersionLabel(current)
NewFrontendServicePatch(current) == SetVersionLabel(current)

NewRoutePatch(current) == SetVersionLabel(current)

\* The host stays the one the ingress was created with.
NewIngressPatch(current) == SetVersionLabel(current)

Patch(o, current) ==
  CASE o = Secret -> NewEventsDatabaseCredentialsSecretPatch(current)
    [] o = ConfigMap -> NewEventsDatabaseScriptsConfigMapPatch(current)
    [] o = VolumeClaim -> current
    [] o = DatabaseDeployment -> NewEventsDatabaseDeploymentPatch(current)
    [] o = DatabaseService -> NewEventsDatabaseServicePatch(current)
    [] o = EventsDeployment -> NewEventsDeploymentPatch(current)
    [] o = EventsService -> NewEventsServicePatch(current)
    [] o = GatewayDeployment -> NewGatewayDeploymentPatch(current)
    [] o = GatewayService -> NewGatewayServicePatch(current)
    [] o = FrontendDeployment -> NewFrontendDeploymentPatch(current)
    [] o = FrontendService -> NewFrontendServicePatch(current)
    [] o \in Routes -> NewRoutePatch(current)
    [] OTHER -> NewIngressPatch(current)

-----------------------------------------------------------------------------
\* The objects each part of a pass applies, in this order.
addEvents ==
  <<Secret, ConfigMap, VolumeClaim, DatabaseDeployment, DatabaseService,
    EventsDeployment, EventsService>>

addGateway(spec) ==
  <<GatewayDeployment, GatewayService,
    IF spec.platform = PlatformOpenShift THEN GatewayRoute
                                         ELSE GatewayIngress>>

addFrontend(spec) ==
  <<FrontendDeployment, FrontendService,
    IF spec.platform = PlatformOpenShift THEN FrontendRoute
                                         ELSE FrontendIngress>>

Elements(s) == {s[i] : i \in DOMAIN s}

ObjectsOf(spec) ==
  Elements(addEvents) \cup Elements(addGateway(spec))
    \cup Elements(addFrontend(spec))
=============================================================================
