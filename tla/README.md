# The gramola operator in TLA+

`gramola-operator` is a Kubernetes operator. A user creates an `AppService`;
the operator deploys three components for it (events with its database,
gateway, frontend), upgrades them from the previous release, and runs the
release's SQL script in the pod of the events database. This directory models
the operator's control in TLA+, checks it with TLC on small instances and
proves most of its safety with TLAPS.

## Inventory

| Component | Source | State | Operations | Hard part | What makes it correct |
|---|---|---|---|---|---|
| AppService API | `api/v1/appservice_types.go` | spec, status, log of script runs | validation, initialization, status writes | status and spec are two subresources under one resourceVersion | spec belongs to the user, the log only grows |
| Reconcile loop | `controllers/appservice_controller.go` | one pass: its copy of the resource, its result | read, validate, initialize, apply, run script, write status | everything it decides on is a copy that may be outdated | nothing is left half done with nobody to come back; what is reported is true |
| Component reconcilers | `controllers/{events,gateway,frontend}_reconciler.go` | none of their own | create or patch 7, 3 and 3 objects | a failure half way; a swallowed `Get` error | an interrupted pass is completed by a later one |
| Owned objects | `deployment/*.go` | objects in the namespace | `New*`, `New*Patch` | a patch must bring an old object to what a constructor makes | the objects follow the spec and the release |
| Watches, filters, queue | `appservice_controller.go:500-615` | informer cache, work queue, delayed keys | deliver, filter, queue, requeue | lag, relisting, merged events, events dropped by the filter | no change is missed, and the operator's own writes do not wake it for ever |
| Events database | `appservice_controller.go:354-444`, `db/*.sql` | pod, mounted script, `operator_version.run_count`, tables | exec of `psql` | it commits outside any transaction with the status, and outlives the pass that started it | runs are accounted for; once settled, no rerun does harm |
| Back-off | `appservice_controller.go:262-304` | `status.lastUpdate` | interval of the next try | no pass knows the last interval; a comparison with a value never written | bounded, doubling, a recovery is noticed |
| Process | `main.go` | manager, lease | start, leader election | two operators at once | together they do what one may do |
| Not modelled | `util`, unused constructors, generated code, manifests, guides | | | | |

How they interact: the user and the operator write the resource through the
API server; its informer gets each version later, and the filter decides
whether the resource's key is queued. A worker takes the key and runs one pass
of `Reconcile`, which reads the resource from the informer, writes to the API
server, and executes `psql` in the pod. Events of owned Deployments and expired
delays queue the key again. The queue gives a key to one worker at a time.

The hazards this code is exposed to are listed in `PROJECT.json`, each at its
line, with the properties that would catch it.

## Modules

| Module | Content |
|---|---|
| `AppService` | The resource, and the pure functions on it: `isValid`, `initialize` (`isInitialized`), `CurrentDatabaseScriptWasRun`, `appServicePredicate`, `LogRun`, `ErrorStatus`, `SuccessStatus`. |
| `Resources` | The 15 owned objects; what `New*` sets, what `New*Patch` changes, the order of `addEvents`, `addGateway`, `addFrontend`. |
| `AppServiceController` | The state machine of one resource: the passes of `Reconcile` and everything around them. Extends `Resources`, which extends `AppService`. |
| `AppServiceProperties` | What is checked of it, and its mapping to `Migration`. |
| `MCAppServiceController` | The sets of specs for TLC. |
| `Migration` | The abstract specification: what the operator promises of the update of the database. |
| `EventsDatabase` | The table `event`, the script and both releases of the events service around the abstract operator. Extends `Migration`. |
| `ObjectReconciler`, `MCObjectReconciler` | Create or patch call by call, owners, the garbage collector, resources created again, several resources. Extends `Resources`. |
| `Operators`, `MCOperators` | Several operators on one resource, with and without leader election, mapped to `Migration`. |
| `Backoff`, `MCBackoff` | When a pass is tried again. |
| `AppServiceProofs`, `AppServiceLogProofs`, `AppServiceWriteProofs`, `AppServiceQuiescenceProofs` | Proofs about `AppServiceController`. |
| `EventsDatabaseProofs`, `ObjectReconcilerProofs`, `OperatorsProofs`, `BackoffProofs` | Proofs about the modules they are named for. |

How they are composed: `AppServiceController` and `Operators` both implement
`Migration`, and `EventsDatabase` adds the table to `Migration`. So what
`EventsDatabase` says of the rows is said for the controller's passes, with
their stale reads and restarts, and for any number of operators, without the
rows being multiplied by the controller's states. `ObjectReconciler` and
`AppServiceController` share `Resources`: the one takes a component call by
call and the resource without its spec, the other takes the resource whole and
a component in one step.

A definition whose comment starts with "Mutant" is a plausible bug in the
definition that follows it. No module uses one: replacing the original with it
shows that the properties notice.

### State and actions of AppServiceController

A pass is split where another actor can get between two of its calls. `pc` says
which call comes next: `get` (line 102), `update` (123), `events` (138),
`gateway` (145), `frontend` (152), `script` (160), `record` (283, 327). `inst`
is the pass's copy of the resource, `instance` in the code, and `stale` says
whether its resourceVersion has been overtaken, which makes each write under it
a conflict. `cr`, `objs`, `pod`, `mounted` and `runCount` are the cluster;
`backlog`, `cache`, `unseen`, `depEvent`, `dirty` and `delayed` are what lies
between the cluster and a pass.

| Action | Code |
|---|---|
| `GetNotFound`, `GetFails`, `GetInstance` | fetch, validation, initialization of the copy (100-133) |
| `UpdateInstance` | write of the initialized spec, with a conflict, a lost request or a lost response (122-128) |
| `ReconcileEvents`, `ReconcileGateway`, `ReconcileFrontend` | the objects in order; any call may fail, the ones before it are done (138-154) |
| `SkipScript`, `NoReadyPod`, `RunScript`, `RunScriptWithSQLError`, `RunScriptFails`, `RunScriptLosesStream` | the outcomes of lines 160-189 and 354-444 |
| `RecordStatus` | `ManageError` and `ManageSuccess` (262-351), each its whole self: status, write, what is returned to the queue |
| `DeliverAppService`, `DeliverDeployments`, `FireTimer` | informers, filter, queue |
| `Restart` | crash or replacement of the operator |
| `OrphanCommits`, `OrphanDies` | a `psql` whose stream broke or whose operator died; nothing cancels it (435) |
| `PodStarts`, `PodRecovers`, `PodFails`, `MountSync`, `CollectGarbage` | Kubernetes |
| `UserEdits`, `UserDeletes` | the user |

`Init` is either a resource just created, or one that release 0.0.1 installed
and whose operator has just been upgraded; the previous release is taken to have
done with its version and script what this one does with its own.

`orphans` counts the runs of the script that go on with no pass to wait for
them: `RunScriptLosesStream` leaves one behind, `Restart` may, when it comes
between the start of `psql` and its answer. Such a run takes effect at any
later moment, even after a later pass has run the script and recorded it, or
never; it goes with its pod. A stream that breaks after the commit is an orphan
that takes effect at once.

`lost` is an accounting variable: it counts the runs of the script that took
effect and that the status will never mention. No guard reads it.

### The other state machines

`Migration`: a worker looks at a log that mentions no success (`Look`, lines
159-160), runs the script and sees it succeed (`ApplyScript`) or does not get
to know what becomes of it (`Detach`), and records or gives up (`Record`,
`Abandon`). A run nobody waits for takes effect later or not at all
(`OrphanCommits`, `OrphansDie`). `known` says that every copy of the log that
can still be read mentions the success. The controller is mapped to it with one
worker: `looking` is a pass between its read and the script, `holding` is
`exec = "clean"`, `orphans` is `orphans`, `applied` is `runCount`.

`EventsDatabase` adds the columns and rows of `event`. `CreateTable` and
`AlterTable` are the two branches of the script (21-52, 53-64), which is one
statement and so one step (`Update`), taken with a worker that waits
(`RunUpdate`) or without (`UpdateLate`); `Rollout` is the new image in the
Deployment, which the pass applies before it comes to the script (line 138
before 160); `BecomeReady` is the readiness probe, `GET /api/events`
(events.go:331), which fails as long as the entity selects a column that is not
there; `Retire` is the rolling update (events.go:304). The events service is
not in this repository: its two releases store what their tables have.

`ObjectReconciler`: `CreateObject`, `GetObject`, `PatchObject` are the three
calls per object; the volume claim is created only (events_reconciler.go:95).
An object has an owner with name and UID. `MergePatch` is RFC 7386, which is
what `client.MergeFrom` makes: what the patch changed in its copy is set, maps
are merged key by key, and a list is replaced whole. The patch of a Deployment
edits the container (events.go:173-208), so when the copy has another image all
the containers of the copy are sent; `tuned` stands for what a user sets in
that list besides the image: environment, resources, a sidecar. `seen` is what
the informers hold, `pending` whom the events of an object will queue. A list
of two or three objects stands for the fifteen: objects do not influence each
other, but the pod of the database needs its volume and its Deployment.

`Operators`: `Start` is `main` up to `mgr.Start`, `Acquire`, `Expire` and
`StepDown` the lease, `Pause` a process that gets no processor time (its limit
is 100m in `config/manager/manager.yaml`); the script it has started runs on in
the database's pod, and so does that of a process that exits (`orphans`). A
pass is its read, the script and the status write. Only the number of successes
in each version of the log is kept.

`Backoff`: `status`, `age` (time since `lastUpdate`) and the timer of the
queue. Time is in ticks and has no end; an `age` beyond six hours counts as six
hours. `ErrorInterval` is `ManageError`'s computation, with its test for a
status that is never written, its cut to whole seconds and its cap.

### Abstractions

- `Create`, and `Get` and `Patch` after it, are one step for one object, and
  the objects of one component are one step with an arbitrary prefix of them
  done. Only this operator writes these objects. (`ObjectReconciler` drops all
  three assumptions.)
- An object keeps its version label, image, replicas, scripts and host. Labels
  of objects in the API server are never read by the operator.
- The informer of the resource may be any number of versions behind, and skips
  to the last one when it lists anew. Of the other informers only the lag of
  the one on Deployments is kept (`unseen`), for Deployments that have just
  been created. A list of pods that is outdated counts as a fault: `NoReadyPod`
  if it lacks the ready pod, `RunScriptFails` if it holds one that is gone.
- Events of the Deployments are delivered together (`depEvent`).
- Garbage is collected in one step, and also finds objects created after the
  deletion. A deleted resource is not created again (in `ObjectReconciler` it
  is, and each object is collected on its own). That a volume claim in use
  outlives its pod for a moment is left out: it only delays the loss.
- The string `"unset"` stands for the empty string. `DomainNameRegex` is
  reduced to "present": the CRD has the same pattern.
- Only the script named by this release is in the operator's image, and it can
  be read. A run that finds no script in the volume counts as a fault, so a pass
  with none left waits for the kubelet to mount it.

## Runs

Deadlock is not checked: an operator with nothing to do stops. (`Backoff`, where
time goes on, checks it.)

Module `MCAppServiceController`, specification `Spec` with its fairness:

| Run | edits | faults | restarts | stale reads | Specs | Shows |
|---|---|---|---|---|---|---|
| `faults` | 0 | 2 | 1 | 1 | initialized | `TypeOK`, `LoggedOnce`, `RunsAccountedFor`, `QuiescentMeansReconciled`, `LogAppendOnly`, `ImplementsMigration` |
| `edits` | 1 | 0 | 0 | 1 | eight | `QuiescentMeansReconciled`, `SuccessIsTrue`, `NoLostEdit` |
| `settles` | 1 | 1 | 0 | 0 | new, without domain, disabled | `EventuallyMigrated`, `EventuallyQuiet`, `EventuallyClean` |

The others:

| Run | Module | Bounds | Shows |
|---|---|---|---|
| `upgrade` | `EventsDatabase` | 2 workers, 1 row, 2 days, 3 runs of the script | `DataTypeOK`, `RecordIsTrue`, `EveryRowIsMigrated`, `SettledDatesStay`, `EventuallyServed` |
| `objects` | `MCObjectReconciler` | volume claim and a Deployment, 2 resources in turn, 1 touch by the user, 1 fault | `ObjectTypeOK`, `DeploymentsAtRest`, `SettledObjectsUntouched`, `EventuallyAtRest`, `EventuallyCollected` |
| `operators` | `MCOperators` | 2 operators, each with or without election, 1 fault, 1 pause, 2 stale reads, 1 event | `OperatorsTypeOK`, `LoggedOnceByAll`, `OneActive`, `OperatorsImplementMigration`, `EventuallyLogged` |
| `backoff` | `MCBackoff` | a cap of ten seconds in half seconds, 2 events, 1 failed write, 2 changes | `BackoffTypeOK`, `RetryInTime`, `EventuallySixHours`, `EventuallyTrue` |

Why these bounds are enough to be of interest: a fault is needed to lose a
write and a second one to disturb the pass that makes up for it; a restart may
come anywhere among them. One stale read, among them or beside an edit, gives
two versions of everything a pass may hold. `faults` starts from an initialized
resource, new or installed by 0.0.1; the write that initializes one is disturbed
by a fault in `settles`, by an edit and a stale read in `edits`, and by anything
in the proofs. In `edits` the eight specs hold
each branch of `isValid` and `isInitialized`, both platforms, a disabled
resource, and an initialized one with fields removed, each as the first spec
and as the edit.
The bounds count what the environment does, never what the operator does.

Two workers and three runs are a lost record, the run that makes up for it, and
one that overlaps them or comes late. One row is enough: the script treats each
row alike, the service stores them one by one, and no property relates two.
Nothing is symmetric in that run, for a liveness property is among those it
checks. Two resources in turn are what it takes for an object to
have the wrong owner; a touch and a fault may come between any two calls. With
two operators, one overtakes the other at each step; a third adds no new pair.
The cap of `Backoff` is three doublings away from the first interval.

Fairness is weak for the passes, the informers, the timers, the kubelet and the
garbage collector: controller-runtime's workers and watches run for as long as
the process does, and a timer fires. Nothing forces an edit, a fault or a
restart, nor a run that nobody waits for to take effect. In `EventsDatabase` it
ends one way or the other, and the fairness of `Rollout` and `RunUpdate` is
strong: a pass that fails before them is followed by another, which tries
again, until one gets through (`EventuallyMigrated` is that promise for the
controller). The liveness properties assume that the user settles on a
deployable resource (or on none), which a bounded number of edits makes true in
each behaviour.

### What the code does not live up to

| Run | Claim | What happens |
|---|---|---|
| `applied_twice` | `appservice_controller.go:159` "Update only if not applied before with success" | The operator restarts between `psql`'s commit and the status write; the next pass runs the script again. |
| `unlogged_run` | `appservice_types.go:163` "DatabaseScriptRun logs script run and status" | `errors.Wrapf(err, ...)` with `err == nil` at 389 and 393: an SQL error looks like a pod that is not ready, is not logged, and the status says `True`. |
| `disabled_reconciled` | `appservice_types.go:40` "Flags if the the AppService object is enabled or not" | `Reconcile` never reads `Enabled`, and creation events pass the filter: after a restart a disabled resource is deployed. |
| `platform_change` | `part-2-1.md:380` "if OpenShift then Routes will be created instead" | The ingresses stay beside the routes. |
| `lost_tables` | `appservice_types.go:180` "Indicates if the Events Database has been updated or not" | A resource created again finds the volume claim of the deleted one, which does not become its own, and logs the script as run in it; the claim is collected, and the new volume is empty. |

What else came out of the modelling, stated here and checked by no run:

- The patch of an ingress leaves its host alone (`deployment/ingress.go:68`), so
  an edit of `domainName` reaches no ingress that exists, though
  `appservice_types.go:72` says the field sets their host names.
- The loop of the script has no condition (`0.0.2.sql:59-63`): a second run sets
  `start_date` and `end_date` back to `date`, where `ABSTRACT.md:29` says that
  data is migrated if needed. `SettledDatesStay` says from when
  on that cannot happen.
- `psql` is not cancelled when its stream breaks or its operator dies (line
  435). Such a run can be overtaken by that of the retry and overwrite dates
  after the success is recorded and known to everybody; that is why
  `SettledDatesStay` waits for the last of them.
- The patch of a Deployment carries the whole list of containers when the copy
  it is computed from has the old image, and so undoes what a user has changed
  there since the copy was made. `SettledObjectsUntouched` says from when on
  that cannot happen.
- The interval of `ManageError` starts anew if the last status is `"Success"`
  (line 291), a value that is never written (it is `"True"`). So the first
  error after a long success is followed by a wait of twice the time since that
  success, up to six hours. `Backoff` models the comparison as it is; its
  properties hold with it, and would hold without it.
- A pod of 0.0.1 that serves until a new one is ready may insert a row after
  the loop (`late` in `EventsDatabase`); no pass looks again.
- A service or secret that a re-created resource found and patched is still
  owned by the deleted one; its collection wakes nobody, as only Deployments
  are watched. `DeploymentsAtRest` is about those.
- Two resources in a namespace share all objects, which go with the one that
  created them, and nobody tells the other. `DeploymentsAtRestHolds` says what
  is left: whatever Deployment is there is kept up to date by its owner.
- A leader that stands still beyond its lease goes on with its pass beside the
  next one (`main.go:60` speaks of one). `OneActive` excepts this, and
  `SharedMigrationImplemented` says why the log is safe all the same.

## Proofs

Each invariant and each safety action property of a passing run is a theorem:
the run shows it on a small instance, the proof for every value of the
constants. What holds only by liveness is at the end of this section.

For every set of user specs within `AppServiceSpec` and every value of the four
bounds, from the assumptions named in the modules (`DomainNamesAssumption`,
`NoAppServiceAssumption`, `AbsentAssumption`, `BoundsAssumption`):

- `TypeCorrect` (`AppServiceProofs`): `Spec => []TypeOK`. Type correctness is
  not inductive alone. `TypeInv` adds `InformerFollows` (what the informer will
  have seen in the end is what the API server holds) and `Attached` (a pass
  beyond its read holds a copy; a copy that is not stale is of a resource that
  exists).
- `LoggedOnceHolds`, `RunsAreAccountedFor` (`AppServiceLogProofs`). The
  inductive invariant `LogInv` adds `Synced` (the log of a copy that is not
  stale is the resource's, plus the entry of this pass's run) and
  `RunsWhenNeeded` (a pass that ran the script with success, and is not stale,
  found no success in the log, and there still is none). So what the guard at
  line 160 saw is still so when the status is written, or the write fails. This
  is the argument for the optimistic lock, which no comment in the code makes.
- `NoLostEditHolds`, `LogAppendOnlyHolds` (`AppServiceWriteProofs`): action
  properties, from `LogInv` and the lemma that a resource that goes on existing
  is only replaced by its user, by `UpdateInstance` or by `RecordStatus`.
- `SuccessIsTrueHolds` (`AppServiceWriteProofs`). The invariant `Progress`
  says that while the copy of a pass is not stale, its spec is the resource's,
  it is valid and initialized, and the objects of each component the pass has
  gone past exist; they can only disappear with the resource, and that makes
  the copy stale.
- `QuiescentMeansReconciledHolds` (`AppServiceQuiescenceProofs`). The property
  is not inductive: it must be known who will come back in each unfinished
  state. `NobodyForgotten` names them: between passes of an enabled resource
  the key is queued or delayed, or an event of a Deployment is on its way, or
  the informer has yet to see the resource's generation, or all is done.
  `GenerationsKept` (what the informer will see is an older generation or has
  the resource's spec) is why that delivery passes the filter, and
  `AppliedOrWoken` (what a pass has gone past is up to date, or an event is on
  its way) is why a pass may end without asking for another.
- `MigrationImplemented` (`AppServiceLogProofs`): `Spec =>
  ImplementsMigration`, one step per action, each mapped to an abstract step or
  a stutter, from `LogInv`.

For every set of workers, rows and days, from `NoRowAssumption`:

- `DataTypeCorrect`, `EveryRowIsMigratedHolds`, `SettledDatesStayHolds`
  (`EventsDatabaseProofs`). The second says of a row without a day in the new
  columns where it came from: from 0.0.1 after the last run, or from 0.0.2
  before a second one. It rests on two invariants: a release that serves has
  its columns, so 0.0.2 stores nothing before the first run, and columns that
  are there come from a run or from 0.0.1. The last needs that once every
  readable log mentions the success, nobody is looking and no run is left over,
  that stays so until the resource is deleted.
- `RecordIsTrueHolds`: with any number of operators, a log that mentions the
  success belongs to a database that has the columns. `LogIsTrue` adds that
  whoever holds a success yet to be recorded has seen them there. This is what
  remains of the claim that `lost_tables` refutes: the record is true of the
  database of one resource, and false where the next one inherits the volume.

That what is said of the rows holds of the controller and of any number of
operators is by `MigrationImplemented` and `SharedMigrationImplemented`, and by
the way `DataNext` is written: each action of `Migration` is in it, with what it
does to the rows beside it, under the two guards that the rollout comes before
the script (line 138 before 160) and that the runs are bounded. This last link
is read off the definitions and is not a theorem.

For every set of operators, with and without leader election, and every bound,
from `OperatorsAssumption`:

- `OneSuccessLogged`, `SharedMigrationImplemented` (`OperatorsProofs`): a run
  that is to be recorded read a log without a success; either that log is still
  the last version, or the write fails. This is the lock, not the lease.
- `OneActiveHolds`: of the operators with the flag, whoever acts holds the
  lease, as long as none has stood still.
- `OperatorsTypeCorrect`, on which these rest.

For every set of resources in the namespace, every list of objects and every
bound, from `DomainNamesAssumption`, `OwnedAssumption` and `TrackedAssumption`
(`ObjectReconcilerProofs`):

- `DeploymentsAtRestHolds`. Like quiescence it is not inductive; `SomebodyComes`
  names who will see to a Deployment that is not as it should be: its owner is
  queued, or an event of the Deployment that will queue the owner is due
  (`OutdatedIsPatched`), or the owner's pass has yet to patch it. A pass that
  has read its copy counts only if the copy lacks what the Deployment lacks
  (`Corrects`), for a merge patch carries only what differs from the copy. A
  Deployment changed behind such a copy is covered by `InformerTells`: as long
  as the informer has not caught up with an object, an event for its owner is
  due. A missing Deployment has nobody but the former owner to tell
  (`MissingIsCreated`), hence the restriction to one resource.
- `SettledObjectsUntouchedHolds`, an action property: once the object, the
  informer's copy and the copy of the pass lack nothing of this release, the
  operator changes the object no more, whatever the user sets in it besides.
  Copies come only from the informer, which has only what the API server had
  (`PassCopy`, `InformerChange`), and a patch that changed nothing in its copy
  changes nothing in the object (`MergeSettled`).
- `OnePatchSettles`: after a patch from the current copy the next patch is
  empty. Together with the properties above it says why `EventuallyAtRest`
  holds: passes do not answer each other's writes for ever.

For every length of the second and of the two intervals, and every bound, from
`BackoffAssumption` (`BackoffProofs`):

- `BackoffTypeCorrect`: no interval and no timer exceeds the longest one,
  `SixHours` (or `TenSeconds`, for constants that make it the longer).
- `RetryInTimeHolds`: while the resource is not known to be reconciled, its key
  is queued, in a pass, or due no later than the last pass asked for, or than a
  second for the queue's own retries. A timer that is set already is never put
  off, because the queue keeps the earlier of two delays; so events between two
  failures never delay the retry.

Only model-checked, for the bounds above, are the liveness properties
(`EventuallyMigrated`, `EventuallyQuiet`, `EventuallyClean`,
`EventuallyAtRest`, `EventuallyCollected`, `EventuallyLogged`,
`EventuallyServed`, `EventuallySixHours`, `EventuallyTrue`): liveness under
fairness is out of the prover's reach.

## Not modelled

- Ports, probes other than the readiness of events, environment, resources
  (but for `tuned` in `ObjectReconciler`, which stands for all of them) and
  labels of objects other than the version: no decision of the operator depends
  on them. A patch of an object whose map of labels or data is nil makes the
  operator panic (`deployment/events.go:136`); the models have no objects of
  that kind.
- The growth of the log in the status: a bound on it would restate the bound on
  faults.
- The order in which several pods of the database are listed: its Deployment
  has one replica.
- The sequence and `operator_version` beyond `run_count`; `start_date` and
  `end_date` are one column, as the script always sets both.
- Reading the script files (`util`), scheme registration, metrics, the failure
  of `NewManager`, recorded Kubernetes events, unused constructors (among them
  `deployment/timeline.go` and the routes of `gateway.go` and `frontend.go`),
  `podPredicate` (a pod's owner is a ReplicaSet, so it lets nothing through
  that would queue a key), generated code, manifests.

## What could follow

- The safety half of the liveness properties: that each step of a pass brings
  it nearer to its end, or spends one of the environment's bounded steps.
- A composition of `ObjectReconciler` with the spec of the resource, to join
  edits of the platform with objects of another owner.
