# Verification of the NuoDB operator

TLA+ models of the controllers of `thebithead/nuodb-operator`, model-checked with TLC on small
instances, and proofs checked by TLAPS of what matters most. Paths below are relative to the
repository (`src/`).

1. [The system](#1-the-system)
2. [Modules](#2-modules)
3. [How the models correspond to the code](#3-how-the-models-correspond-to-the-code)
4. [Runs](#4-runs)
5. [Fairness](#5-fairness)
6. [Proofs](#6-proofs)
7. [Where the code and its comments disagree](#7-where-the-code-and-its-comments-disagree)
8. [What is not modelled](#8-what-is-not-modelled)
9. [Plan](#9-plan)

## 1. The system

The operator is one process that runs four controllers (`cmd/manager/main.go`,
`pkg/controller/controller.go`), each for one kind of custom resource and each with **one worker**.
A controller's `Reconcile` is called with a key (namespace/name) from its work queue, and does a
*pass*: it reads the custom resource, brings the objects of a rendered chart in line with it, and
says whether and when the key comes back.

What makes the passes hard:

* **Reads come from caches.** The manager's client reads from informer caches and writes to the API
  server. A cache may lag behind the pass's own writes, the users' and other controllers'. Each
  object is cached apart from the others, so no two copies need be of the same time.
* **A pass reads the same resource several times.** `updateTeReadyCount` reads it, `updateStatus`
  reads it again, and the replicas are set from the copy read when the pass began.
* **Writes are of whole objects**, protected by the resource version of the copy; deletes are by
  name and not protected.
* **Everybody else moves**: users edit, delete and re-create resources and delete children; the
  garbage collector removes children of owners that are gone; pods come and go; the process dies and
  starts again with nothing but what is on the API server.
* **A pass stops at the first error.** What it did stays done.
* **The cache may be that of one namespace** (`WATCH_NAMESPACE`, `cmd/manager/main.go:61-95`, set so
  by `deploy/operator.yaml:24-27`): objects of another namespace are never found in it.

### Components

| component | state | operations | correct when | hard behaviour |
|---|---|---|---|---|
| **Nuodb controller** `pkg/controller/nuodb` | the Nuodb resource and its status; Secret, ConfigMaps, DaemonSet, the Deployment `<cr>-te`, the StatefulSet `<cr>-sm` | initialise the status; create each missing child; copy ready counts and lights into the status; scale the two workloads; requeue after a delay | users' edits survive, replicas follow the spec forwards, the status tells the truth about the spec in force, everything converges | two cached reads and a whole-object write per status update; children with fixed names shared by several databases |
| **NuodbAdmin controller** `pkg/controller/nuodbadmin` | the domain resource; Pod and Service of hosted Insights, other Services, ConfigMaps, the StatefulSet `admin` | as above, and delete the Insights Pod and Service when `insightsEnabled` is false | as above; deletes only what is disabled | deletes by name, decided on old copies; a Pod stays while it terminates |
| **NuodbInsightsServer controller** `pkg/controller/nuodbinsightsserver` | the server resource with a finalizer; the Elastic operator, Elasticsearch, Kibana, Logstash, templates stored over HTTP, the Grafana operator and its resources, **all with fixed names** | add the finalizer; install the pipeline in order, waiting for Elasticsearch and for the Grafana operator; resize the clusters; tear down and remove the finalizer | everything gets installed, deletions end, nothing runs on without its server | bounded and unbounded waits inside a pass; errors taken for absence; a success is not requeued; servers share what has a fixed name; one worker waits for all of them |
| **NuodbYcsbWl controller** `pkg/controller/nuodbycsbwl` | the sample workload; one ReplicationController named by the spec | create it; scale the one called `ycsb-load` | the named controller exists with the count of the spec | a pass on an old copy succeeds and is not requeued; users scale the same object |
| **SCC update** `pkg/utils/common.go` | the group list of the cluster-wide SecurityContextConstraints | read, edit, write, retry on conflict | administrators' groups are kept; the call ends | operators of several namespaces and administrators write the same list |
| **Health** `pkg/apis/nuodb/v2alpha1/common.go`, `updateStatus` | none | lights from ready and requested counts, phase from the lights | | zero requested, more ready than requested |
| Helpers `pkg/utils` | none | get and create each kind of object; render; poll | | which reads are live and which cached |
| Charts, API types, manifests, manager, tests | | | | not modelled, see [8](#8-what-is-not-modelled) |

Interaction: the controllers call nothing of one another. They meet on the API server: a domain's
and a database's children live in one namespace; `LogstashSCC` is called from the Insights
controller; the Insights resources meet in the objects they share. Events of a controller's own kind enqueue its key, and so do events of the Pods a domain
owns; events of other children do not.

## 2. Modules

| module | what it is |
|---|---|
| `NuodbHealth` | the lights and the phase: pure operators, used by two controllers |
| `ReplicaRequests` | abstract specification: the spec is the users', workloads only move forwards in the sequence of requests |
| `NuodbController` | the Nuodb controller for the databases of one namespace; implements `ReplicaRequests` |
| `NuodbAdminController` | the NuodbAdmin controller for one domain; implements `ReplicaRequests` too |
| `NuodbInsightsServer` | the NuodbInsightsServer controller for several servers, in one or more namespaces |
| `NuodbYcsbWl` | the NuodbYcsbWl controller for one workload |
| `LogstashSCC` | `AddLogstashServiceAccountsToSCC`, called by several operators |
| `MCNuodbController`, `MCNuodbAdmin`, `MCNuodbInsights`, `MCNuodbYcsbWl`, `MCLogstashSCC` | values of the constants for TLC |
| `NuodbControllerProofs`, `NuodbAdminControllerProofs`, `NuodbInsightsServerProofs`, `NuodbYcsbWlProofs`, `LogstashSCCProofs` | theorems about the controllers and the SCC update, with their proofs |
| `ReplicaRequestsProofs`, `NuodbHealthProofs` | what the abstract specification guarantees; what the lights and the phase say of the pods |

Operators marked `MUTANT of X` are never used by the specifications. Each is a plausible wrong
version of the action `X`; with it in the place of `X` a named property of a run must fail, which
shows that the property watches the code.

## 3. How the models correspond to the code

### What all controllers share

* `cr`, `obj` (`rc`) are the objects on the API server; `crCache`, `objCache` the informers' copies.
  The resource version is only ever compared for equality, so a copy carries one bit: `crFresh`,
  `objFresh`, `copyFresh`, `instFresh` say "no write since". A versioned write succeeds exactly if
  the bit of the copy it was computed from is set, otherwise it is a conflict, which is an error.
* **One call to the API server per action.** Between two calls of a pass everything else may move.
  Cached reads cannot be told from a read at the time of the call next to them, except where a pass
  reads the same thing twice: those are separate actions (`UpdateReadyCount`, `UpdateStatus`).
* `pending` is the work queue. Keys due now and keys due after a delay are one set: time is not
  modelled, a delay is any time. `StartPass` takes a key; `Return` ends the pass; `ReturnAndRequeue`
  (`Fail` in the models of the two controllers that do not requeue a success) puts it back. An
  error, `Requeue: true` and `RequeueAfter` differ only in delay.
* `PassError` is any call failing without effect, at any step. `Restart` is the end of the process
  (also by the panic on a failing `List`, `nuodb_ctl_internal.go:333`) and its successor's start:
  caches are filled from the server, each resource's event enqueues its key.
* `quiet` is a Boolean of the environment that `Settle` sets at any moment, for good: users, pods
  and failures rest from then on. Convergence is stated as `<>[](quiet => ...)`: whatever happened
  before, the system gets to a state it does not leave any more. (A behaviour whose environment
  never rests satisfies it.)
* `asked`, `gen`, `granted`, `requests`, `byHand` (the ReplicationControllers that users have scaled
  since they last wrote the spec) are history or bounds, not read by the code.

### NuodbController

| code (`nuodb_ctl_internal.go` unless noted) | model |
|---|---|
| `reconcileNuodbInternal` 525-560: Get, NotFound, empty `controllerVersion` | `StartPass`, its three disjuncts |
| the loop over the resources, 574-614 | `idx` over `Manifest[key]`, `NextChild`, `FinishPass` |
| `reconcileNuodbSecret`, `...ConfigMap`, `...DaemonSet` | `ReconcilePlain`: created when the cache has none |
| `reconcileNuodbDeployment`, `...StatefulSet`, get or create | `ReconcileWorkload`; `CreateMissing` also has AlreadyExists |
| `updateTeReadyCount`, `updateSmReadyCount` 478-522 | `UpdateReadyCount(role)` with the early return for an equal count |
| `updateStatus` 421-476: second Get, lights, comparison, Update | `UpdateStatus`: gone or equal; written; conflict |
| replicas, 296-311 and 357-372 | `Scale(role)` from `inst`, the instance of the start of the pass |
| `SetControllerReference` | `owner`, the name and uid; the `GarbageCollect` action compares the uid |
| the watch of `nuodb_controller.go:51` | `SyncCr` enqueues, `SyncObject` does not |

`Manifest[c]` is the list of objects the chart renders, in `processOrder`. `processNuoResources`
collects them in a map, so objects of the same kind are visited in another order each time; the
kinds keep their order. A `Manifest` fixes one order of the objects of a kind, and as no two objects
of a kind depend on each other this loses nothing that the properties tell apart. A child of another
kind than the two workloads has a name of its own in the namespace, not the database's (`ObjectOf`),
so two databases share it.

### NuodbAdminController

The same shape for one domain. New are `Disabled` and `DeleteDisabled`
(`nuodbadmin_ctl_internal.go:169-225`): a child whose template is named `*-insights.yaml` is deleted
by name when the pass's instance has Insights disabled. A deleted Pod is `terminating` until the
kubelet's `Terminate`; a Service goes at once. Events of Pods the domain owns enqueue it
(`nuodbadmin_controller.go:47-56`): `SyncObject`.

### NuodbInsightsServer

`Server` are the resources, `Home` the namespace of each. An object is a pair of a namespace and a
child: `Place` puts the Elastic operator and what is of the whole cluster (`Common`) into
`elastic-system`, where all servers share it, and everything else into the server's namespace, where the servers of that namespace share it, since all
names are fixed (constants of `utils/common.go`). `key` is the server of the pass under way: one
worker serves all of them.

`Pipeline` and `Teardown` are the sequences of steps of `reconcileNuodbInsightsServerInternal` and
of `deleteExternalResources`. Objects that are handled by the same lines in the same way are one
child: all objects of the Elastic operator's file before the marker are `eckRole`; ServiceAccount,
Role and RoleBinding of the Grafana operator `role`; Logstash's objects `logstash`; templates and
pipelines in Elasticsearch `template`; the dashboards `dashboard`.

* `Read(c)` is a read through the manager's client, `Live(c)` one from the API server. `Seen` are the
  namespaces of the cache: what is outside `Watched` is never there for `Read`.
* `StartPass(s)`, `AddFinalizer`, `RemoveFinalizer`: lines 52-115; both writes are of the whole
  instance. `GetInstance` is a further cached read of the resource.
* `mapped`: the kinds that `GetNewRestMapper` finds at the head of the pass (line 71), once and for
  the whole of it. `RegisterKinds` creates the custom resource definitions of the Elastic and of the
  Grafana operator (178-200), which nobody removes, but a pass that has just created them still
  does not know their kinds: `ReconcileExternal` ends it with an error (`~Maps`), and the next one
  gets on. In a teardown an unknown kind counts as absence (1718, 1774, 1786, 904), but not in
  `deleteESCluster` (`DropAwaited`), which tries again for ever.
* `FindMarker`: the live look for the StatefulSet `elastic-operator` (464-485). Anything but
  NotFound counts as found.
* `ApplyManaged`: `reconcileRuntimeObject` (344-407). Created with an owner (`NewManaged`), then
  **overwritten** by the object of the file, which has no owner: `owner |-> 0`.
* `CreateExternal` (`NewExternal`), `KeepExternal`: Elasticsearch, Kibana and the Grafana resources,
  found live, then read through the cache; `Resize` applies the node count and the version, which
  `size` stands for, `KeepGrafana` changes nothing.
* `AwaitEs`, `AwaitOperator`: the waits of a bounded number of rounds; one action that looks once
  and goes on or requeues, since the rounds before only let time pass.
* `LoadTemplates`: everything that needs Elasticsearch's answer (`Answers`).
* `ReconcileLogstash`: `Renders` is the look for the Elasticsearch of the namespace `nuodb` (1278).
* `DropAwaited`: the loops that end when a live read finds nothing (770-801, 1713-1751). They do
  *not* end after five tries: the error made there is logged and dropped. The one for Elasticsearch
  does not end with any error of its reads but NotFound, either.
* `Served(o)`: the operator that looks after `o` is there. Elasticsearch and the dashboards come up
  and are released only then. Where the pipeline of an instance does not contain that operator, it
  is taken to be there.
* `PassError` is a call that fails without effect. A reply lost after the call had its effect is
  the same as the call followed by a `PassError` of the next one.

### NuodbYcsbWl, LogstashSCC

`Reconcile(n)` is one pass: one cached read of the ReplicationController and at most one write.
`LogstashSCC` has `Get`, `Update` and `Conflict` for the body that `retry.RetryOnConflict` calls up
to `Attempts` times, and `CallError` for everything it does not retry.

## 4. Runs

| run | instance | question |
|---|---|---|
| `nuodb_scaling` | 1 database, the Deployment; 2 requests of 1 or 2 engines; up to 2 ready pods | `TypeOK`, `LightsMatchSpecWhenWritten`, `InitialisedOnce`, `FollowsRequests` (refinement), `EventuallyProvisioned` |
| `nuodb_shared` | 2 databases sharing a ConfigMap, one of them with a StatefulSet and up to one ready pod | `NeverForgotten`, `EventuallyProvisioned`, `NoOrphans` |
| `nuodb_stale_lights` | 1 database, requests of 0 or 1 engines | `OperationalAtDesiredSpec`, expected to **fail**, see [7](#7-where-the-code-and-its-comments-disagree) |
| `admin_safety` | ConfigMap, Insights Service, StatefulSet; 3 requests | `TypeOK`, `NeverForgotten`, `FollowsRequests` (refinement), `DeletesOnlyDisabled` |
| `admin_live` | Insights Pod, StatefulSet; 2 requests that switch Insights and scale; pods come and go | `LightsMatchSpecWhenWritten`, `EventuallySettled` |
| `insights_elastic` | 1 server; marker, Elastic operator in a namespace outside the cache, the definitions of the Elastic kinds, Elasticsearch, Kibana; users delete the operator and the clusters and force deletions | `EventuallyInstalled`, `EventuallyDeleted`, `NothingRunsOn` |
| `insights_shared` | 2 servers of one namespace; Elasticsearch, templates, Logstash | `EventuallyInstalled`, `NothingRunsOn` |
| `insights_grafana` | 1 server; definitions of the Grafana kinds, Grafana operator, data source, dashboard; 2 requests of 2 sizes; users delete the operator and force deletions | `TypeOK`, `DeletionRemembered`, `KeepsRequests`, `TornDownFirst`, `EventuallyDeleted`, `NothingRunsOn` |
| `insights_stuck` | 1 server; the definition of Elasticsearch, Elasticsearch; all other operators clean up | `DeletionReturns`, expected to **fail** |
| `ycsb_scaling` | 2 names, counts 0 to 2, 2 requests, 1 scaling by a user | `TypeOK`, `EventuallyRunning`, `NothingRunsOn` |
| `ycsb_by_hand` | `ycsb-load` only, counts 0 and 1, 1 request, 1 scaling by a user | `StartedByHand`, expected to **fail** |
| `logstash_scc` | 2 operators, 1 group of administrators and 1 of users, 2 attempts | `TypeOK`, `KeepsGrants`, `CallsEnd` |

What the properties say, beyond their names:

* `FollowsRequests` is the refinement `ReplicaRequests!Spec`: no status write takes a spec edit
  back; a workload carries the replicas of one request and, while it lives, never returns to an
  earlier one.
* `LightsMatchSpecWhenWritten`: the lights are computed from a cached spec and written with the
  whole instance; the version makes sure that this spec is the one on the server at that moment,
  though the pass began with another one. Stated for databases (lights of both roles) and for the
  domain (its health).
* `NeverForgotten`, `DeletionRemembered`: no wake-up is lost. A database or a domain that the cache
  shows as it is has a pass under way or due; an Insights server that is to go has its teardown under
  way or due. It is the safety half of convergence, and needs no fairness.
* `InitialisedOnce` is stated for the first incarnation of a name; the comment in the module says
  how it fails for a successor created while a pass for its predecessor is under way.
* `DeletesOnlyDisabled`: a delete by name decided on an old instance and an old copy never hits a
  child made for a request after which nobody disabled Insights.
* `TornDownFirst`: although the Grafana operator is looked up in a cache that may be old, the
  finalizer is only removed when Elasticsearch and the dashboards are gone and the operator's
  Deployment is gone or will be collected.
* `EventuallyInstalled`: a live server ends with all its components, at its size, with no owner
  that is gone, although others deleted what it shares. Two exceptions: `Wedged`, when in a cache
  that does not show `elastic-system` an attempt that failed before the marker has left objects that
  every later pass creates again and stumbles over; and `Hangs`, when the only worker never comes
  out of a teardown. (No run reaches this one: it takes another server, or a second one of the name,
  next to an Elastic operator that can be missing.)
* `EventuallyDeleted`: a deletion ends, unless the worker `Hangs` in a teardown: either it waits for
  what an operator that is gone itself does not let go of (`Stuck`), or the server was deleted
  before a pass had defined the Elastic kinds, so that `deleteESCluster` cannot look for what is not
  there. `insights_elastic` has both cases.
* `NothingRunsOn`: nothing of a server that is gone stays, unless it is `Stuck`. The run
  `insights_elastic` has the Kibana that a teardown leaves behind when its read fails (904): its
  owner reference takes it.
* `EventuallyRunning`: the ReplicationController of a live workload exists and is not collected. The
  one called `ycsb-load` has the count of the spec, unless users have scaled it by hand since they
  wrote that spec: of these nothing is claimed here. The code takes what users did back with the next
  pass, against the documentation, which is what `StartedByHand` shows.
* `EventuallyProvisioned`, `EventuallySettled`, `NoOrphans`: convergence of the
  other controllers.

**Why the bounds are enough.** Two requests give every relation between the request a pass holds and
the one in force (same, older), with deletion and re-creation among them; three give the sequence
enabled, disabled, enabled that a stale delete needs. Replica counts 1 and 2 give more, fewer and
equal; a request of 0 appears where the lights of zero matter and for the workload that the
documentation starts by hand. Ready counts up to 2 give Red, Yellow
and Green. Two databases are enough to share a child, two operators and an administrator to
interleave three writers of one list. Two attempts have a first and a last one. All runs are
exhaustive; `CHECK_DEADLOCK FALSE` is there because a namespace whose resource is deleted is at rest
and really stops. (`logstash_scc` never stops and checks deadlock.) `Fragile` (the children that
users delete and that go down), `Impatient` (the servers whose deletion users force) and
`MaxRequests` bound the environment of the Insights model. Two servers are enough for one to take
down what the other uses.

No symmetry is declared: the liveness runs would not be sound with it, and the others do not need
it.

## 5. Fairness

* **Steps of the worker** (`WF(PassStep)`, `WF(Get \/ Update \/ Conflict)`): a started pass goes on;
  calls to the API server return.
* **`SF(StartPass(c))` for each database, and for each Insights server**: the work queue is first in
  first out, so no key is passed over for ever. Strong, since with several keys `StartPass(c)` is
  disabled during the others' passes. The models of one key need only weak fairness.
* **Informers** (`WF(SyncCr)`, `WF(SyncObject)`): watches deliver, in the end, the latest version.
* **Garbage collector** (`WF(GarbageCollect)`, `WF(Collect)`), **kubelet** (`WF(Terminate)`): Kubernetes' own
  promises.
* **`WF(Resync)`** (Insights, YCSB): controller-runtime's informers replay every object at a fixed
  period, ten hours by default; the manager sets no other (`main.go`). It is the only thing that
  brings a pass after a success on old data, so these controllers converge at that pace, not at
  once.
* **`CleanSpec` = `FairSpec` + `WF(Release)`**: the Elastic and Grafana operators clean up after
  their resources. All runs of the Insights model assume it, also `insights_stuck`, which so shows
  what the code does on its own.
* Nothing is assumed of users, pods (except that a cluster whose environment rests comes up,
  `WF(ComesUp)`), errors and restarts: they may stop at any moment (`Settle`), and are not forced
  to.

## 6. Proofs

Every invariant and every action property that a run checks, and both refinements, are also
theorems: for every value of the constants that satisfies the named assumption of the module, so for
every number of databases, servers and operators, every chart and pipeline, every set of requests and
every bound. (The bounds are arbitrary naturals, and nothing depends on which.)

| module (assumption) | theorem | states |
|---|---|---|
| `NuodbController` (`ConstantsAssumption`) | `TypeCorrect` | `TypeOK` |
| | `ImplementsRequests` | `FollowsRequests`, the refinement of `ReplicaRequests` |
| | `LightsAreCurrent` | `LightsMatchSpecWhenWritten` |
| | `StatusInitialisedOnce` | `InitialisedOnce` |
| | `NoneForgotten` | `NeverForgotten` |
| `NuodbAdminController` (`AdminConstants`) | `AdminTypeCorrect` | `TypeOK` |
| | `AdminImplementsRequests` | `FollowsRequests`, the refinement of `ReplicaRequests` |
| | `AdminLightsAreCurrent` | `LightsMatchSpecWhenWritten` |
| | `OnlyDisabledAreDeleted` | `DeletesOnlyDisabled` |
| | `DomainNotForgotten` | `NeverForgotten` |
| `NuodbInsightsServer` (`InsightsConstants`) | `InsightsTypeCorrect` | `TypeOK` |
| | `RequestsAreKept` | `KeepsRequests` |
| | `TornDownBeforeTheEnd` | `TornDownFirst` |
| | `DeletionsAreRemembered` | `DeletionRemembered` |
| `NuodbYcsbWl` (`YcsbConstants`) | `YcsbTypeCorrect` | `TypeOK` |
| `LogstashSCC` (`SCCConstants`) | `SCCTypeCorrect` | `TypeOK` |
| | `GrantsKept` | `KeepsGrants` |
| `ReplicaRequests` (workloads are pairs of a name and a part) | `UsersHaveTheLastWord` | the spec in force is the users' last request; a workload has the replicas of one request as a whole |
| `NuodbHealth` (none) | `WhatTheStatusSays`, `LightsFollowPods` | when the phase is Pending and the light Green; more ready pods never make a light worse |

### Assumptions

They are typing of the constants, and:

* `CR # {}`, `Names # {}`: there is something to control.
* `Workload \in Item` (domain): the chart has the StatefulSet `admin`
  (`build/etc/charts/nuodbadmin-helm/templates/sts-admin.yaml`).
* `Insights \subseteq Item \ {Workload}`: the templates that Insights switches are a Pod and a Service.
* `Server \subseteq STRING \ {""}`: the empty key is that of an idle worker; Kubernetes has no empty names.
* `Fragile \subseteq Child \ Definitions`: nobody removes the custom resource definitions; with one,
  the API server would remove all resources of its kind.
* `Child \cap (Awaited \cup {"operator"}) \subseteq {Teardown[i] : ...}`: what a pipeline installs of
  Elasticsearch, the dashboards and the Grafana operator, the teardown visits. So it is in the code,
  where `deleteExternalResources` calls each of these deletions; it is an assumption only because
  both sequences are constants.

TLC evaluates each of them in a run of its module.

### Arguments

**Refinement of `ReplicaRequests`** (databases, domain). It needs two facts at the moment of a
write: a status write carries the spec of the server, and a scaling moves forwards. Neither is a
property of the state that a pass acts on, which is a stale copy; `RequestInv` relates all the
copies:

* `PassShape`: a pass that visits children is at one of them, an idle worker at none;
* `FreshCopies`, `HeldCopy`: a copy whose bit is set equals the object on the server (this is what a
  resource version is for, and it makes versioned writes safe);
* `ServerSpec`, `CachedSpec`, `SnapshotSpec`: the spec on the server, in the cache and in the pass
  is each the request of its `gen` in `asked`, and the `gen`s are in that order: the pass's is at
  most the cache's, the cache's at most the server's (deleted resources keep their last `gen` for
  this);
* `AppliedSpec`: the replicas of a workload are those of the request `gen`, which is at most the
  cache's and, during a pass for its database, at most the pass's. So a pass either finds the
  replicas equal or applies a later request.

`RequestInit` and `RequestStep` show it inductive, one step per action; `RequestsStep` maps each
step to `Ask`, `Withdraw`, `Apply`, `Remove` or a stutter. The last fact of `AppliedSpec` holds
because there is **one worker**: with two, an old pass could scale after a newer one.
`UsersHaveTheLastWord` says what both controllers have from the refinement.

**Lights**: by `FreshCopies`, the spec they were computed from is the server's when the write
succeeds.

**`InitialisedOnce`**: `OnceInv`. For the first resource of a name the cache is never ahead of the
server and no pass is ahead of the cache: if the server reports counts, then the cache shows the
initialisation, and a pass in the initialisation branch implies that no counts are reported
(`FirstInv`). That fails for a second resource of the name, whose predecessor's pass may still be
under way, and so does the property.

**`DeletesOnlyDisabled`**: a child of Insights was made for a request that had Insights on, and the
pass's instance has it off. The child's request is at most the instance's (`AppliedSpec` of the
domain says so of all children, again thanks to the one worker), hence earlier, and the instance's
request is the witness.

**`NeverForgotten`, `DeletionRemembered`**: inductive with `FreshCopies` (`CrInv` for the servers). A
step that is not an event, the start of a pass or a restart takes no key from the queue and either
goes on with the pass or brings its key back (`KeepsTheKeys`, `KeepsDeletions`); what it writes makes
the cache's copy stale, so an event is to come. A pass that starts and finds nothing to do did so on
a copy that is stale, or the resource is gone. For the servers, one fact more: what is to go is
there.

**`KeepsRequests`**: `CrInv`. The instance held by a pass that is about to write the resource is the
server's, if nobody wrote it since. The uid of what exists is never 0.

**`TornDownFirst`**: `ServerInv`, of `CrInv` and

* `ChildInv`: what is gone leaves nothing behind; current copies are right; and a Grafana operator's
  Deployment that has **lost its owner** is seen by the cache. It loses it when a pass overwrites it,
  and a pass overwrites only what it has read there. So if an old cache hides the Deployment from the
  teardown, then the Deployment still has its owner;
* `DropInv`: what the teardown has visited stays down, for only a pass creates these and there is one
  worker.

**`KeepsGrants`**: `FreshIsCurrent`, a copy nobody has written since is the server's list.

### Only model-checked

All liveness (`EventuallyProvisioned`, `NoOrphans`, `EventuallySettled`, `EventuallyInstalled`,
`EventuallyDeleted`, both `NothingRunsOn`, `EventuallyRunning`, `CallsEnd`): it rests on fairness,
and the provers know no `ENABLED`. The properties that are expected to fail have no theorem, of
course. No module uses a recursive operator.

## 7. Where the code and its comments disagree

Shown by runs that are expected to fail:

* `nuodb_stale_lights`: "NuodbOperationalPhase is operating at the desired spec" (`common.go:38`).
  `updateTeReadyCount` returns before `updateStatus` when the ready count has not changed
  (`nuodb_ctl_internal.go:515`), so a scale-up whose pods never come leaves the lights Green and the
  phase Operational.
* `insights_stuck`: "if fail to delete the external dependency here, return with error so that it
  can be retried" (`nuodbinsightsserver_ctl_internal.go:96`). `deleteESCluster` logs its timeout
  error (line 794), like every error of its reads but NotFound (line 780), and loops on; the only
  worker of the controller is gone until the resource is. The run has no slow or missing operator: a
  server that is deleted after its finalizer was added and before a pass has created the definitions
  is enough. Its teardown asks for a kind that the REST mapper of its pass does not have (line 71,
  `common.go:580-618`), over and over. `deleteGrafanaDashboard` provides for this case (line 1718).
* `ycsb_by_hand`: "To start a SQL Workload (if your `nuodb-ycsbwl-cr.yaml` wasn't configured to start
  one by default) locate the ycsb Replication Controller in your Kubernetes dashboard and scale it to
  your desired number of pods" (`README.md:511`). The next pass, after a restart, a resync or an edit,
  sets the count of the spec again (`nuodbycsbwl_ctl_internal.go:155-158`).

Seen while modelling, and visible in the models, without a run of their own:

* `nuodb_ctl_internal.go:464`: a Yellow database is Operational, too (`PhaseOf`), against the same
  comment.
* `nuodbinsightsserver_ctl_internal.go:271` and its siblings: an update with the object of the file
  strips the owner reference (`ApplyManaged`), so what teardown does not delete by name (the Grafana
  operator's Role, RoleBinding and ServiceAccount) stays, against "Owned objects are automatically
  garbage collected" (line 62).
* `nuodbycsbwl_ctl_internal.go:155`: the count is applied after creation only to a
  ReplicationController called `ycsb-load` (`Rescales`), although `ycsbLoadName` names it.
* A cache of one namespace, which is what `deploy/operator.yaml:24-27` asks for, does not show the
  Elastic operator's objects in `elastic-system`. They are taken for missing
  (`nuodbinsightsserver_ctl_internal.go:221` and its siblings); after a failure before the marker
  StatefulSet each later pass ends with AlreadyExists (`Wedged`).
* The marker is all that is looked for afterwards: an object of the Elastic operator's file that
  users delete later is not created again (`FindMarker`).
* The address of Elasticsearch goes into the Logstash objects and, with its password, into the data
  source when these are created (lines 1045, 1278), and stays there: an Elasticsearch created again
  has another one (a TODO at line 1088).
* Two servers of one namespace that ask for different sizes overwrite each other's at every pass
  (line 739). `insights_shared` has servers of one size.
* `processLogstashTemplates` asks for the Elasticsearch of the namespace `nuodb`, written into the
  code with a TODO (`nuodbinsightsserver_ctl_internal.go:1278`, `Renders`): in any other namespace
  Logstash never appears, although `README.md:417` says "Set the environment context to the namespace
  you will deploy the NuoDB Operator" and waits for it there (`README.md:432`). An instance of the
  model whose `Home` is another namespace shows it, with `Renders` false for ever.

## 8. What is not modelled

* **Chart rendering, YAML decoding, the charts, dashboards and other data**: text. Their result is
  the constant `Manifest`/`Pipeline`.
* **Namespaces** that the Insights controller creates: created once, never deleted, nothing waits for
  them.
* **What the data source needs besides its kind** (the password, the certificates and the service of
  Elasticsearch, lines 1001-1041): a pass without it ends with an error, which is a `PassError` here.
* **Elasticsearch's HTTP API** beyond "answers or not".
* **Polling helpers** of `pkg/utils/utils.go`: the controllers call nothing of it but an error
  conversion. What `common.go` does with the API server (read cached or live, create with an owner)
  is in the controllers' actions.
* **Manager** (leader election, metrics), **generated code**, **manifests**, **tests**: no state of
  the controllers. Leader election is why there is one pass at a time, the namespaces of the cache
  are the constant `Seen`, and starting is the action `Restart`.
* **Several resources of one kind** are modelled for databases and Insights servers. A second
  domain of a namespace would share the StatefulSet `admin` of the first; this is not modelled.
* **One database with both workloads** (the count that one role's write takes from another,
  `nuodb_ctl_internal.go:504`) is an instance of `NuodbController`, but in none of the runs: it has
  466,174 states with a single request, and nothing fails in it.
* **A domain next to a database**: their charts share no object names, so their controllers do not
  meet, and a composition would say nothing that the two modules do not say.
* The Grafana cluster resource and the operator's `role` are in the module but in no run's
  pipeline: each more cached child multiplies the states.
* Time, including the length of delays.

## 9. Plan

1. *Core (done)*: `NuodbHealth`, `ReplicaRequests`, `NuodbController` with its runs and the proofs
   of types, refinement and lights; `LogstashSCC` with proofs.
2. *The other controllers (done)*: `NuodbAdminController`, `NuodbInsightsServer`, `NuodbYcsbWl`.
3. *Extensions (done)*: several Insights servers under one worker and in one namespace, the Elastic
   operator with a cache that does not show it, the operators' part in the end of their resources,
   users who force a deletion; the lights of the domain; convergence of all controllers.
4. *Proofs (done)*: types of all modules; the refinement for databases and the domain; all action
   properties; the invariants of the work queue; the abstract specification; the lights.
5. *Left*: the steps of a liveness argument that need no fairness, as theorems: what an orphan, a
   pass at rest, or an outdated child implies is enabled to change it (every child of a database has
   an owner; uids are not used twice; a pass that finds everything as the spec says changes
   nothing).
