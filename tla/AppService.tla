----------------------------- MODULE AppService -----------------------------
(***************************************************************************)
(* The AppService custom resource (api/v1/appservice_types.go) and the     *)
(* operator's pure functions on it (controllers/appservice_controller.go): *)
(* validation, initialization, the check of the script log, the event      *)
(* filter.  A field that no function of the operator reads (location,      *)
(* conditions, reason and time of the last reconcile) is left out.         *)
(***************************************************************************)
EXTENDS Naturals, Sequences

CONSTANTS
  DomainNames,    \* domain names a spec may hold
  Aliases,        \* aliases a spec may hold
  NoAppService    \* stands for "there is no such custom resource"

\* A string field that is absent, the empty string in the code.
Unset == "unset"

PlatformKubernetes == "kubernetes"
PlatformOpenShift == "openshift"
DefaultDomainName == "minikube.local"

KnownAliases == {"Gramola", "Gramophone", "Phonograph"}

ASSUME DomainNamesAssumption == {Unset, DefaultDomainName} \subseteq DomainNames

\* The script of the release this operator ships, and that of the one before.
EventsDatabaseUpdateScriptName == "events-database-update-0.0.2.sql"
PreviousScriptName == "events-database-update-0.0.1.sql"
ScriptNames == {EventsDatabaseUpdateScriptName, PreviousScriptName}

AppServiceSpec ==
  [enabled : BOOLEAN, initialized : BOOLEAN, alias : Aliases,
   platform : {Unset, PlatformKubernetes, PlatformOpenShift},
   domainName : DomainNames]

DatabaseScriptRun ==
  [script : ScriptNames, status : {"Succeeded", "Failed"}]

AppServiceStatus ==
  [status : {Unset, "True", "Failed"},
   lastAction : {Unset, "NoAction", "RequeueEvent"},
   eventsDatabaseUpdated : {Unset, "Succeeded", "Failed"},
   runs : Seq(DatabaseScriptRun)]

\* metadata.generation counts the versions of the spec; a write of the status
\* subresource leaves it alone.
AppServices ==
  [generation : Nat, spec : AppServiceSpec, status : AppServiceStatus]

MaybeAppService == AppServices \cup {NoAppService}

ASSUME NoAppServiceAssumption == NoAppService \notin AppServices

EmptyStatus ==
  [status |-> Unset, lastAction |-> Unset, eventsDatabaseUpdated |-> Unset,
   runs |-> <<>>]

-----------------------------------------------------------------------------
\* DomainNameRegex.  The CRD checks a field that is present against this same
\* pattern, so of the values the API server stores only the absent one fails.
MatchesDomainNameRegex(name) == name # Unset

isValid(spec) ==
  /\ spec.alias # Unset => spec.alias \in KnownAliases
  /\ spec.platform = PlatformKubernetes
       => MatchesDomainNameRegex(spec.domainName)

\* What isInitialized leaves in a spec that is not initialized yet.
initialize(spec) ==
  LET platform == IF spec.platform = Unset THEN PlatformKubernetes
                                        ELSE spec.platform
      domainName == IF platform = PlatformKubernetes /\ spec.domainName = Unset
                      THEN DefaultDomainName ELSE spec.domainName
  IN  [spec EXCEPT !.initialized = TRUE, !.platform = platform,
                   !.domainName = domainName]

\* Mutant: only the first entry of the log is looked at.
FirstScriptWasRun(status) ==
  /\ status.runs # <<>>
  /\ status.runs[1].script = EventsDatabaseUpdateScriptName
  /\ status.runs[1].status = "Succeeded"

CurrentDatabaseScriptWasRun(status) ==
  \E i \in DOMAIN status.runs :
    /\ status.runs[i].script = EventsDatabaseUpdateScriptName
    /\ status.runs[i].status = "Succeeded"

-----------------------------------------------------------------------------
\* Mutant: an update is judged by the version it replaces.
predicateOnOldVersion(old, new) ==
  CASE new = NoAppService -> old # NoAppService
    [] new # NoAppService /\ old = NoAppService -> TRUE
    [] OTHER -> old.spec.enabled /\ new.generation # old.generation

\* Mutant: the generation is not compared.
predicateWithoutGeneration(old, new) ==
  CASE new = NoAppService -> old # NoAppService
    [] new # NoAppService /\ old = NoAppService -> TRUE
    [] OTHER -> new.spec.enabled

\* The event filter, given the version the informer held and the one it gets:
\* creations and deletions pass, an update passes when it leaves an enabled
\* resource of another generation.
appServicePredicate(old, new) ==
  CASE new = NoAppService -> old # NoAppService
    [] new # NoAppService /\ old = NoAppService -> TRUE
    [] OTHER -> new.spec.enabled /\ new.generation # old.generation

\* Mutant: the entry keeps the status Unknown it is made with.
LogUnknownRun(status, result) ==
  [status EXCEPT
     !.runs = Append(@, [script |-> EventsDatabaseUpdateScriptName,
                         status |-> "Unknown"]),
     !.eventsDatabaseUpdated = result]

\* The status with one more entry in the log of script runs.
LogRun(status, result) ==
  [status EXCEPT
     !.runs = Append(@, [script |-> EventsDatabaseUpdateScriptName,
                         status |-> result]),
     !.eventsDatabaseUpdated = result]

\* The status ManageError and ManageSuccess leave.
ErrorStatus(status) ==
  [status EXCEPT !.status = "Failed", !.lastAction = "NoAction"]

SuccessStatus(status, action) ==
  [status EXCEPT !.status = "True", !.lastAction = action]
=============================================================================
