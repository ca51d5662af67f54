# TLA+ verification of hydra-operator

This directory holds TLA+ models of hydra-operator, TLC configurations that
check them on small instances, and proofs, checked by TLAPS, of the properties
that matter most. Source references are to files of this repository; where no
directory is given, the file is in `internal/reconciler/`.

| module | what it is |
|---|---|
| `ApplyObject` | the API server and the Get-or-Create-or-Update pattern of every reconciler |
| `ContainerSync` | one operator's sync of Services, Routes and DomainMappings (a client of `ApplyObject`) |
| `PublishedState` | the abstract specification `ContainerSync` implements, for one pod and for overlapping pods |
| `SyncReports` | extends `ContainerSync` with what the operator tells Hydra |
| `PolicySync` | the policy part of a sync on a cluster with Gatekeeper (extends `ApplyObject`) |
| `NamespaceSync` | the namespace and quota part of a sync, with its reports (extends `ApplyObject`) |
| `Startup` | a pod from its start to the sync loop: preflight, token, registration |
| `ManagerLoops` | the sync loop and the heartbeat loop side by side: detection, SIGTERM, requests that hang |
| `MCContainerSync`, `MCSyncReports`, `MCPolicySync`, `MCNamespaceSync`, `MCStartup`, `MCManagerLoops` | instances for TLC |
| `ApplyObjectProofs`, `ContainerSyncProofs`, `ContainerOverlapProofs`, `SyncReportsProofs`, `PolicySyncProofs`, `NamespaceSyncProofs`, `StartupProofs`, `ManagerLoopsProofs` | theorems and proofs |

To check: `tlc -config sync_refinement.cfg MCContainerSync.tla`,
`tlapm ContainerSyncProofs.tla`, and likewise for the others.

## 1. Inventory

The operator runs in the cluster it manages. It pulls the desired state from
Hydra over HTTPS and reconciles it against the Kubernetes API; nobody calls it.

| component | state it keeps | operations | interacts with |
|---|---|---|---|
| startup (`cmd/operator/main.go`) | where `main()` stands; readiness flag | preflight, load token, register, save, start the loops | detector, token store, Hydra |
| token store (`internal/tokenstore`) | one Secret | `Load`, `Save` (Create, then Update without resourceVersion) | API server |
| Hydra client (`internal/hydraclient`) | the cluster token | `Register`, `GetDesiredState`, `Heartbeat`, `Put…Status`, `RotateToken` (no caller) | Hydra |
| manager (`manager.go`) | none between ticks | `SyncOnce`, `HeartbeatOnce`, two ticker loops in two goroutines | all reconcilers, Hydra |
| container reconciler (`container.go`, `status.go`) | none; a Knative Service per container | Get, Create or Update, derive the status | API server, Knative |
| route reconciler (`route.go`) | none; at most one Route per container | the same, or Delete | API server, OpenShift router |
| domain reconciler (`domain.go`) | none; a DomainMapping per domain | the same, per domain | API server, Knative |
| namespace reconciler (`namespace.go`) | none; Namespace and ResourceQuota | ensure, create, update, delete | API server |
| policy reconciler (`policy.go`) | none; ConstraintTemplates, Constraints | apply three templates, three constraints | API server, Gatekeeper |
| detector (`internal/capabilities`) | none | `Detect` | API server's discovery |
| config, logging, version, k8s clients | constant after startup | – | – |

The operator keeps nothing between two syncs but its token, so its state is the
cluster's. What is hard is therefore not inside one function but between them:

- **Concurrency.** The sync loop is one goroutine, so one operator has at most
  one reconcile request outstanding. Around it act Knative's controllers, which
  write the status of the objects the operator updates; Hydra's users, who edit
  the desired state during a sync that works on a snapshot; and a second pod:
  `deploy/base/deployment.yaml:9` asks for one replica, but the default rolling
  update starts the new pod before the old one has stopped, there is no leader
  election, and the chart lets `replicaCount` be raised. The heartbeat
  goroutine shares only the token, which it reads, and the detector.
- **Shutdown and hanging.** SIGTERM cancels one context under both loops in the
  middle of what they do, so that everything left to do fails, and `main()` exits
  without waiting. Requests to the API server have no deadline at all.
- **Failure and retry.** No request is retried; the next tick is the retry. An
  error of one container skips the rest of that container (`manager.go:158`),
  an error of a Route or a domain skips nothing, an error of a report is only
  logged. A write may be executed although its answer was an error or the pod
  was killed, and it may be executed later.
- **Crash.** A pod can die anywhere. Syncs restart from nothing; registration
  does not, since its token is single-use.
- **Staleness.** The status on the object an Update returns describes the spec
  before it; the snapshot a sync works on may be older than what another pod
  has applied. "Not found" is concluded from one request and used after it,
  while the platform team may be deleting the namespace it is about.
- **Bootstrap.** The kinds of constraint are resources that Gatekeeper generates
  from the operator's own templates, after they were applied.

What makes each component correct:

- *pattern*: no update is applied to an object that changed since it was read;
- *container sync*: Services converge to what Hydra wants and never go back;
  nothing exposes a Service that is not there; Routes exist exactly when wanted;
  domains follow their container; one bad container does not stop the others;
- *reports*: Hydra is not shown what was not applied, and is eventually shown
  what is stable;
- *startup*: a pod that runs has a persisted token, and a persisted token is all
  a later pod needs;
- *policy*: no Constraint before the templates; the constraints that Hydra wants
  end up in force although Gatekeeper serves their kinds only later;
- *loops*: a shutdown is not reported as a failure; a loop that hangs stops neither
  the other one nor the shutdown; Hydra ends up knowing what the cluster can do;
- *namespaces*: the quotas end up those wanted, as far as their limits parse;
  "synced" was true of these when it was concluded, and what Hydra is shown ends up
  being how things are.

`PROJECT.json` lists the components, and under `hazards` the places where these
can go wrong, with the properties that cover them.

## 2. The models and the code

### ApplyObject

All reconcilers share one pattern, which `policy.go:198` names: Get by a
deterministic name; on NotFound Create; otherwise Update with the
resourceVersion of the Get (the Services, Routes and mappings carry over more of
the object read, the other reconcilers build theirs anew); and Delete, tolerating NotFound, for what is not
wanted. `ApplyObject` is the API server together with this pattern.

- `store` maps the identity of an object (kind, namespace, name) to its spec, its
  Ready condition and the spec its status speaks of.
- `call[o]` is operator `o`'s reconcile call: the step it has reached, the
  object, the spec wanted, the object its Get (or its write) returned, and
  `fresh`. A resourceVersion is only ever compared for equality, so `fresh` says
  what the comparison would answer: any change of the object by anybody makes it
  FALSE. This keeps the model finite with no counter of versions.
- `late` are requests that were given up on and may still be executed.
- Each request is one atomic action (`Get`, `Land`), as it is for the API
  server; between them anything may happen. `Fail` is a refusal, a conflict or a
  request that never arrived; `Abandon` is a time-out of a request that is still
  under way. `Observe` is the controller that owns the object's status.

An Update that changes nothing does not change the resourceVersion: the API
server skips such writes, and `Change` leaves `fresh` alone for them.

### ContainerSync

`Pull` is `GetDesiredState`, a snapshot; `StartContainer` takes the next
container (the payload is an array, in an order the code does not determine, so
any container of the payload may be next); `ServiceFailed`, `ServiceApplied`,
`RouteDone`, `StartDomain`, `DomainDone` and `FinishContainer` are the statements
of `reconcileContainers`; `FinishSync` ends it; `Request` is a step of the call
that is outstanding. `Crash` kills the pod; its successor starts with a new sync.

Data is abstracted to what the properties tell apart. `buildService` is a
function of the payload, so a Service's spec is the *version* Hydra gave the
container; a Route or a DomainMapping says only which Service it targets, so its
spec is the container. `KsvcNameFor` gives the Service and the Route of a
container one name; the mapping's name is the hostname, in the container's
namespace. A domain belongs to at most one container at a time in Hydra, but two
snapshots of different age may disagree about it.

The policy and namespace reconcilers run between the pull and the containers
(`manager.go:98-101`). They change no object of this module, take nothing from the
container loop and give it nothing, and an error of theirs is only logged, so each
of them has a module of its own with the same ticker; what policy and namespaces
may cause here, a refused request, is `Fail`, and a container that is refused for
ever is in `Inadmissible`.

### PublishedState

The promise to Hydra's users for the Services: Hydra publishes versions, the
cluster follows; it may skip versions, never goes back, never applies one that
was not published, and while a container is wanted it catches up. `ContainerSync`
implements it under the mapping `Abstract`, for one pod at a time.

With several pods the older snapshot may win for a while, so a Service may go back.
`OverlapSafety` is what is left then: `Replace` adds a step to any published version,
but still none to a version that was not published, and none that removes a Service.
`ContainerSync` implements it for any number of pods (`AppliesPublished`).

### What is settled

Three modules (`ContainerSync`, `PolicySync`, `NamespaceSync`) state the same idea.
`Asked` are the pairs of an object and a spec that somebody may still ask for: the
requests outstanding and late, what the rest of each running sync will begin (`Ahead`),
and what the next pull would. An object is `Settled` if everybody who asks for it asks
for what it is. `SettledStays` says that it then stays so while Hydra's users leave it
alone. For `ContainerSync` TLC checks it with a late request and a crash
(`sync_refinement`) and with two pods (`sync_overlap`); the theorem has all of these at
once, and domains. It is the safety half of the convergence properties, and it needs no
fairness. `ManagerLoops!Settled` is the same for what Hydra is shown: it is right, and
so is every report that is on its way or still to be made by a loop.

### SyncReports

Adds the local variables of the loop (`outcome`, `domains`, `ready`) and, per
subject (a container, a domain, the cluster), what Hydra last received (`shown`).
Every action conjoins an action of `ContainerSync` with its effect on these, or is
a report of its own (`PullFails`, `ReportDomain`), so the module refines
`ContainerSync` step by step. `Put` is a report that is received, lost, or given
up on by the client's time-out and still under way (`lateReports`); `ReceiveLate`
lets such a report replace a later one.

### PolicySync

The keys of `ApplyObject` are here the templates and the constraints of the kinds in
`Kinds`, in the order of the code. `PullPolicy` takes the snapshot, `Detect` is
`Detector.Detect` as `reconcilePolicy` uses it, `ApplyNext` begins the next of the 2N
calls of `Reconcile`, `Applied` and `ApplyFailed` are its return (the first error
ends the reconcile), `FinishPolicy` is its end. The last constraint carries the list
of allowed registries and is deleted if there is none. `DetectFails` is a discovery
request that fails, which the code cannot tell from an absent group; whether
`Detect` then answers "no Gatekeeper" or an error, the policy is skipped.

The part that is not in the repository is Gatekeeper: `crds` are the kinds of
constraint the API server serves; `Generate` adds one some time after its template
was applied, and a template of the platform team may add another
(`GenerateOther`). A request on a kind that is not served is answered NotFound: a Get
then leads to a Create that fails, and a Delete is tolerated. The group that
detection asks for is served if and only if it has a kind.

### NamespaceSync

`PullNamespaces`, `StartNamespace`, `ReportSynced`, `ReportError` and `ReportCount` are
the loop of `reconcileNamespaces` and the count sent with the cluster status.
`NamespaceThere` is the outcome of `ensureNamespace`, or of the Get of an imported
namespace: the Get found it, the Create succeeded, or it was answered AlreadyExists.
`ReadQuota`, `RemoveQuota`, `Succeeded` and `Failed` are `reconcileQuota`. The module
uses the requests of `ApplyObject`, but differs from its pattern where the code
does: a namespace that exists is never written, and a quota is read before it is
deleted (`Sends` says which writes are made). A limit is not set, does not parse,
or is an amount, and `Hard` is the quota's limits: those that parse. `Put` is a
report as in `SyncReports`: received, lost, or given up on and received later
(`ReceiveLate`).

A limit that does not parse is dropped without an error. So two things have to be told
apart: the limits that parse are in force (`InForce`), which is what the code brings
about, and all of them are (`Parses` as well), which is what "synced" is said to mean.
`SyncedWasTrue` and `QuotaConvergence` speak of the first; `OutcomesShown` speaks of
the namespaces whose limits all parse and promises nothing of the others; and
`SyncedMeansMatching` speaks of the second and is violated (section 3).

Around it, the platform team creates and deletes namespaces (`Provide`,
`Terminate`). A namespace that is deleted first terminates: nothing can be created in
it (`Executes`), its content is removed, and then it is gone (`Collect`).

`witnessed` is a history variable: was the current namespace there, with the limits of
the snapshot that parse in force, at some moment since the sync came to it? It
constrains no step.

### Startup

Every pod is a program counter through `main()`. `Boot` reads the configuration,
`PreflightPasses` and `PreflightFails` are `checkKnativeAvailable`, then `Load`,
`Register` and the two requests of `Save`. Every error from the preflight check on is `log.Fatal` (`Exit`),
and the kubelet boots the pod again. Registration tokens are numbered, and Hydra
exchanges each once; the platform team can have another one issued (`Grant`).
The Secret may be absent, hold no token, or hold one.

### ManagerLoops

`at` says where each of the two goroutines of `Run` stands. `Tick` and
`ReturnFromLoop` are `runLoop`; when the context is cancelled and the ticker has
fired, `select` takes either. `ProbeAnswers` and `ProbeFails` are one request of
`Detect`, which both loops make: seven probes in a fixed order, of which an error of
the first five reads as "absent" and an error of the last two ends the detection.
`Heartbeat`, `PullState`, `PullFails`, `ReportUnreachable`, `PolicyDone`,
`ReconcileItem`, `ReportItem` and `ReportReachable` are `HeartbeatOnce` and
`SyncOnce`; what a reconcile of a namespace or a container (an *item*) does to the
cluster is in the modules above, here it succeeds or fails.

`Terminate` is SIGTERM, which cancels the context of everything (`main.go:66`).
From then on requests fail, except those of the discovery client, which take no
context; `Exit` is the return of `main()`, which waits for no loop, and `Start` the
next process of the pod. `Hang` is a request to the API server that is not answered.
`Post` is a request to Hydra: not sent under a cancelled context, otherwise received,
lost, or given up on and still under way. `faulted` is a history variable, what has
failed for another reason than SIGTERM; it constrains no step.

## 3. Runs

Every bound below is a `CONSTANT` of the cfg. `Edits` are changes of the desired
state, `late` requests under way after they were given up on, `crashes` killed
pods.

| run | instance | properties | what it shows |
|---|---|---|---|
| `sync_refinement` | 1 pod, 2 containers of which one is refused, routes, 2 edits, 1 late, 1 crash | `TypeOK`, `NoDanglingObjects`, `NeverRollsBack`, `FollowsPublishedState`, `RouteConvergence`, `SettledStays` | nothing dangles, nothing rolls back, the sync implements `PublishedState` (liveness included), the Route exists in the end exactly if it is wanted, and a late request disturbs nothing that has settled |
| `sync_overlap` | 2 pods, 1 container, 2 edits | `NoLostUpdate`, `Convergence`, `AppliesPublished`, `SettledStays` | two pods overwrite nothing they have not seen, apply published versions only, remove no Service, settle on the newest version, and leave it alone once both ask for it |
| `sync_domains` | 1 pod, 2 containers in one namespace, 1 domain, 2 edits, 1 crash | `NoDanglingObjects`, `DomainConvergence` | a domain that moves is mapped to its new container |
| `report_status` | 1 container, all readiness values, 1 crash, 1 late report | `NothingShownUnapplied`, `StatusShown`, `CountShown` | a settled Service is shown and counted, and nothing else, although reports are lost or late |
| `report_exposed` | 1 container that may get a Route or a domain, 1 edit | `ReportsTypeOK`, `NothingShownUnapplied`, `RouteShown`, `DomainShown` | the Route's host and the Ready domain are shown, and no failure as progress |
| `policy` | 2 kinds, 2 lists, 2 edits, 1 late, 1 failure | `PolicyTypeOK`, `TemplatesFirst`, `PolicyConvergence`, `SettledStays` | templates come first; the policy is enforced in the end once detection can find Gatekeeper, and an enforced policy is never weakened in passing |
| `namespace` | 1 managed and 1 imported namespace, 2 limits, 1 edit, 1 outside change, 1 late, 1 failure | `NamespaceTypeOK`, `SyncedWasTrue`, `QuotaConvergence`, `OutcomesShown`, `NamespacesRespected`, `SettledStays` | "synced" was true of the limits that parse; these, and what Hydra is shown where all parse, converge, although the failure may be a report that arrives late; a quota that has settled stays; the operator never revives, deletes or, if imported, creates a namespace |
| `loops` | 1 item, any 2 of: failure, SIGTERM, late request, Gatekeeper comes or goes, request that hangs (up to 2) | `LoopsTypeOK`, `ShutdownIsNoFailure`, `LoopsGoOn`, `CapabilitiesShown`, `StatusRecovers`, `NoFalseAlarm` | the shutdown is never reported as a failure; a loop that hangs stops neither the other nor the shutdown; Hydra ends up with the capabilities and the status there are, and only a new failure or a new capability changes that |
| `startup` | 2 pods, 2 registration tokens, 2 kills | `TypeOK`, `RunsPersisted`, `PersistedTokenSuffices`, `RegistrationsEnd` | who runs has a persisted token, and a persisted token is enough, for ever: no registration begins once there is one |

Three runs end in a counterexample: the code does not do what its own
documentation says (`findings` in `PROJECT.json`).

| run | property | the counterexample |
|---|---|---|
| `report_stale` | `RunningIsObserved` (`status.go:12-14`) | a Service that is Ready is updated; the object the Update returns still has the old status, and "running" is reported for a spec Knative has not seen |
| `namespace_dropped` | `SyncedMeansMatching` (`client.go:261-262`) | a namespace has two limits and one does not parse; the quota is created with the other alone and the namespace is reported as "synced" |
| `policy_bootstrap` | `PresentMeansEnforced` (`deploy/README.md:33-35`) | Gatekeeper is installed and has no template yet; the group that detection asks for (`detector.go:21`) has no kind, so the operator never applies the templates that would give it one |

Two more disagreements have no run. `config.go:69` says that `ProbeTimeout` "bounds each
individual capability probe" and so does `detector.go:61-62`; the value is stored
(`detector.go:64`) and never read. So a probe that is not answered keeps its loop in
`Detect` for ever, which is what `Hang` models. The other loop goes on (`LoopsGoOn`): if
the sync hangs, Hydra keeps receiving heartbeats and `/healthz` stays 200 (`main.go:159`), so nothing restarts the
process. Whether the client library has a timeout of its own for discovery requests
is outside this repository; the requests for the Kourier Service and the nodes and
all those of the reconcilers have none.

And `tokenstore.go:1-3` says that the cluster token is persisted "so a pod restart doesn't
require re-registering (the registration token is single-use and expires)". It is
persisted only after the exchange: if `Save` fails (`main.go:113-115`), or the pod is
killed before it, the cluster token that was received is lost, and the next start has
to register again with a registration token that is spent. `Startup` has these steps
(`Fatal`, `Kill`), and the properties promise nothing before the Secret holds a token:
`PersistedTokenSuffices` and `RegistrationsEnd` begin there.

The blindness of detection that `policy_bootstrap` meets shows at startup too, where it is not a run of its own:
any error of the discovery request makes the process exit with "Knative is missing",
which `main.go:28-34` calls permanent and not transient. The kubelet's restart cures
it (`PersistedTokenSuffices`).

**Why the bounds are enough.** Objects are independent in the API server, so one
object, an operator, a controller and one late request contain every way of
changing an object behind a Get; `NoLostUpdate` is proved for any number of
operators. In `ContainerSync` containers meet only in the
loop (one fails, the next goes on) and through a domain that moves, for which two
suffice; two edits make three versions, so an old request, the current one and a
newer one can coexist, and let a Route be wanted and not wanted again. One crash with a late request is a
request of a dead pod meeting its successor. In `Startup` two registration
tokens and two pods let both pods register and save. In `PolicySync` two kinds are
one with and one without the list, and tell "some kind is served" from "mine is";
two edits let a list be withdrawn and given again around a late Create. In
`NamespaceSync` two limits let one parse and the other not (the managed namespace
begins with two that parse, the imported one with none, and the edit chooses between
these, a pair of which one parses, and two that do not parse, so a quota is also
removed), and two namespaces one fail and the next go on; the one failure may be a report
that arrives after any number of later ones; the outside change is a namespace deleted, or one provided,
at any moment. In `SyncReports` one late report is one that contradicts a later one;
its runs have a single container, and that nothing leaks from one container into
the report of another is left to the proof. In `ManagerLoops` one item is enough,
since items meet only in the loop; any two faults meet at
every point of both loops, two requests that hang (both loops stop) among them. The theorems of section 5 hold for all
values of the constants and remove the bounds for safety.

**Deadlock** is checked in every run but two. In `startup` a pod that runs takes no
more step, so when all run and the bounds are reached the module stops. In
`loops` both loops may hang, and then only a SIGTERM goes on.

**Every property can fail.** For each property of a passing run the models hold a
variant of an action with a plausible bug (marked `(A bug: ...)`, used by no
specification; `mutants` in `PROJECT.json` says which replaces which): with it,
TLC finds the property violated.

## 4. Fairness

- `WF(Sync(o))`: the ticker keeps calling `SyncOnce` (`manager.go:48-60`) and
  every request returns: the Hydra client has a timeout, and a request to the API
  server is answered or its connection fails.
- `SF(Pull(o))` and, per object, `SF` of the Get and of the write: a request may
  fail any number of times, but one that is made again and again succeeds in the
  end. The set of objects is a parameter: for the Services it never includes a
  refused one, and requests for Routes and domains may fail for ever unless the
  property is about them.
- `SF(ShowContainer)` and so on: a report that is made again and again with the
  same content is received now and then.
- `PolicySync` and `NamespaceSync`: `WF` of the sync, of `Generate` (Gatekeeper does its
  work) and of `Collect` (a namespace that terminates goes). Here failures of
  requests and reports and killed pods are bounded instead of being unlucky
  infinitely often: "when requests stop failing" in place of "if requests succeed
  now and then". It is the weaker promise and keeps the runs small.
- `ManagerLoops`: `WF` of each loop's steps (every request is answered or fails,
  unless it hangs), of `Exit`, of `Start` (the kubelet restarts the container) and of
  late requests. Failures, hung requests and SIGTERMs are bounded and have no
  fairness.
- `Startup`: `WF(Step(p))` (the kubelet restarts what exits, `main()` waits for
  nothing), `SF` of the preflight check and of `Load` for the same reason as
  above. Nothing is assumed of registration or of the platform team.

Nothing is assumed of Hydra's users, the controllers, crashes or late requests:
they may happen or not, within their bounds. That edits and crashes are bounded is
what "when the users stop editing" means; the liveness properties are stated with
`<>[]`.

## 5. Theorems

| theorem | statement | assumes |
|---|---|---|
| `ApplyObjectProofs!TypeCorrect` | `Spec => []TypeOK` | `ApplyAssumption` |
| `ApplyObjectProofs!UpdatesAreNotLost` | `Spec => []NoLostUpdate` | `ApplyAssumption` |
| `ContainerSyncProofs!TypeCorrect` | `Spec => []TypeOK` | `SyncAssumption` |
| `ContainerSyncProofs!NothingDangles` | `Spec => []NoDanglingObjects` | `SyncAssumption` |
| `ContainerSyncProofs!ServicesNeverGoBack` | `Spec => NeverRollsBack` | and one operator |
| `ContainerSyncProofs!ImplementsPublishedState` | `Spec => Abstract!StateSafety` | and one operator |
| `ContainerOverlapProofs!SyncLosesNoUpdate` | `Spec => []NoLostUpdate` | `SyncAssumption` |
| `ContainerOverlapProofs!OverlapAppliesPublished` | `Spec => AppliesPublished` | `SyncAssumption` |
| `ContainerOverlapProofs!SettledObjectsStay` | `Spec => SettledStays` | `SyncAssumption` |
| `SyncReportsProofs!ReportsRefineSync` | `ReportsSpec => Spec` | `SyncAssumption` |
| `SyncReportsProofs!ReportsTypeCorrect` | `ReportsSpec => []ReportsTypeOK` | and `ReportAssumption` |
| `SyncReportsProofs!NothingShownIsUnapplied` | `ReportsSpec => []NothingShownUnapplied` | and `ReportAssumption` |
| `PolicySyncProofs!PolicyTypeCorrect` | `PolicySpec => []PolicyTypeOK` | `ApplyAssumption`, `PolicyAssumption` |
| `PolicySyncProofs!PolicyRefinesPattern` | `PolicySpec => Spec` (of `ApplyObject`) | the same |
| `PolicySyncProofs!ConstraintsFollowTemplates` | `PolicySpec => []TemplatesFirst` | the same |
| `PolicySyncProofs!EnforcedStays` | `PolicySpec => SettledStays` | the same |
| `NamespaceSyncProofs!NamespaceTypeCorrect` | `NamespaceSpec => []NamespaceTypeOK` | `ApplyAssumption`, `NamespaceAssumption` |
| `NamespaceSyncProofs!SyncedIsTrue` | `NamespaceSpec => []SyncedWasTrue` | the same |
| `NamespaceSyncProofs!NamespacesAreRespected` | `NamespaceSpec => NamespacesRespected` | the same |
| `NamespaceSyncProofs!QuotasStay` | `NamespaceSpec => SettledStays` | the same |
| `ManagerLoopsProofs!LoopsTypeCorrect` | `LoopsSpec => []LoopsTypeOK` | `LoopsAssumption` |
| `ManagerLoopsProofs!ShutdownIsNeverAFailure` | `LoopsSpec => []ShutdownIsNoFailure` | `LoopsAssumption` |
| `ManagerLoopsProofs!AlarmsAreTrue` | `LoopsSpec => NoFalseAlarm` | `LoopsAssumption` |
| `StartupProofs!TypeCorrect` | `Spec => []TypeOK` | `StartupAssumption` |
| `StartupProofs!RunningPodsArePersisted` | `Spec => []RunsPersisted` | `StartupAssumption` |
| `StartupProofs!RegistrationsComeToAnEnd` | `Spec => RegistrationsEnd` | `StartupAssumption` |

The assumptions are those of the modules: constants of the expected types,
`None` different from everything else. TLC evaluates them in every run.

**NoLostUpdate.** Not inductive alone: it speaks only of updates admission would
accept. `Fresh` drops that: every request with `fresh`, outstanding or late, has
the object it read still in the store. `Change` preserves it for all requests at
once, because `Outdated` clears `fresh` exactly where the object differs
(`FreshStays`).

**TypeOK of ContainerSync** needs `TypeInv`, which adds that a container in the
payload has a version (`MaxEdits` bounds it through the number of edits), that a
sync visits only containers of its payload, and that `cur` names one while it is
working on it. The steps of `ApplyObject` enter through one lemma about all of
them (`ClusterType`, `RequestType`).

**NoDanglingObjects.** A request of an earlier sync or pod may create a Route at
any time, so `Grounded` adds: no request asks for a Service to be deleted; the
Service exists already for every Route or mapping *wanted* by a request,
outstanding or late; and it exists for every operator that is past the Service of
its current container. What is grounded then stays so.

**NeverRollsBack** holds for one pod at a time. The danger is a late update of an
old version. `Forward` orders the versions of each container: what is applied is
at most what a running sync's snapshot holds, which is at most what Hydra wants
(`SnapBounds`); the sync's own request asks for its snapshot's version
(`CallBounds`); a late request asks for no more than that, and if it is an update
that is still `fresh`, for no less than what is applied (`LateBounds`). It rests on
the resourceVersion: once a newer version lands, older updates lose `fresh`, and
creates are refused because, by `Grounded`, a Service is never deleted. With two
pods it is false, and not claimed: the older snapshot can win for a while
(`Convergence` says it does not win in the end).

**ImplementsPublishedState** maps every step of `Spec` to `Publish`, `Withdraw`,
`Advance` or a stutter; the same invariants give the `Advance` case.

**AppliesPublished** drops "one pod" and with it `Forward`. What remains is `Published`:
every version that a snapshot, a request outstanding or a late one carries was published
by Hydra, and Hydra's versions only grow. A late request is one that was outstanding
before, in the same or an earlier step (`UnderWayBefore`), so it carries nothing new.
`Grounded` gives the other half, that no request removes a Service, so each write of a
Service is a `Replace`. `SyncLosesNoUpdate` proves `NoLostUpdate` for this component's own
steps, which include crashes and calls that begin anywhere in the loop (`OwnEffect`).

**SettledStays** (three theorems, one argument). First, nothing new is asked for
(`AskedShrinks`): a step turns what is `Ahead` of a sync into a request, a request into a
late one or into nothing, and a pull asks for what the desired state asks for, which is
unchanged. Second, a write makes an object's spec what its request asked for
(`SettledSpec`), and for a settled object that is what it is already; a `delete` has to be
a request for nothing (`Consistent` in `ApplyObjectProofs`, `SyncWrite` in
`NamespaceSyncProofs`). So the object keeps its spec, and whoever still asks agrees with it.
In `PolicySync` a change of Hydra's list adds requests for one key only, and the theorem
claims the rest. In `NamespaceSync` it is stated per namespace, while its limits and its
being there stay, because a quota goes with its namespace.

**NothingShownUnapplied.** What Hydra shows was true when it was reported, and may
be received at any later time; it stays true because nothing it speaks of is ever
removed (`NothingRemoved`: by `Grounded` no request deletes a Service, and by
`Mapped` none deletes a mapping). `Truthful` says of one report that it is true now,
`ShownInv` that every report shown or under way is. That a report is true when it is
made is `ResultInv`: a domain held as active has a mapping, because an "ok" came from
a request for it (`MappingSound`); and the ready count is at most the number of
Services among the containers the sync has left behind (`Counted`). The count
reaches a container only once (`OneCounted`), since it is taken out of `todo` when
it becomes `cur`.

**PolicyRefinesPattern and TemplatesFirst.** `InOrder` ties the call under way to the
number of calls done, which makes every step of `PolicySync` one of `ApplyObject`.
`TemplatesInv` adds that no request, outstanding or
late, removes a template, that the templates of the calls done are there, and that a
request for a Constraint is only made, and so only left behind, when all are.

**SyncedWasTrue**, for the limits that parse, rests on an order of the cluster's: a quota is created only in a
namespace that is there, and a namespace goes only after its quota (`Grounded`; and
no late request deletes a namespace, `LateAsSent`). So when a quota vanishes while
the sync looks at it, the namespace is there without one at that moment.
`WitnessInv` follows a reconcile: once the namespace has been seen, a reconcile that
wants no quota has witnessed this or still finds the quota to be deleted; one that
wants a quota witnesses its own write.

**NamespacesRespected** looks at a single write. `Shape` says what the call at each stage
is about, and `LateAsSent` that what was given up on was once such a call (`SyncWrite`):
a request about a namespace is the Create of a managed one and nothing else. `OneWrite`
splits every step into at most one such write, or a change of the API server's own that
does not touch a namespace, and `WriteRespects` shows that a Create is accepted only where
there is none, so that one which is executed late cannot revive a namespace that terminates.

**RunsPersisted.** `Tokens` adds: who registers has a registration token, who
saves has a token Hydra gave it, and a token in the Secret is Hydra's.

**RegistrationsEnd** is an action property from the same invariant: the Secret is only
ever replaced by another token of Hydra's, so a later `Load` never answers "nothing", and
only that leads to a registration.

**ShutdownIsNoFailure.** `LoopsInv` says of every point of a loop where something bad
is about to be told: either what it says has failed for another reason, or the context
is cancelled, and then `Post` sends nothing (`PostEffect`). A detection needs this per
probe (`BeatKnows`): those done found what is there, or failed, or the context is
cancelled. Reports under way carry the same fact (`ToldJustly`), and it stays true
because `faulted` only grows.

**NoFalseAlarm** is not about a history variable but about what Hydra is shown now, and
its `Settled` carries the strengthening. One part is only an invariant: `Blank`, no
detection begins with what an earlier one found. A detection that meets no failure finds
what is installed, probe by probe (`DetectSettled`); a branch of the sync that reports an
error or an unreachable cluster is entered only by a failure, which `spent` counts
(`FaultCounts`), or under a cancelled context, where nothing is sent (`SyncSettled`,
`ToldPost`). The next process starts with both loops at their beginning, and what the
last one left under way was right already (`AroundSettled`).

**Only model-checked**: everything temporal under fairness (`Convergence` and the
other convergence properties, `FollowsPublishedState` beyond its safety half, all
the `...Shown` liveness properties, `StatusRecovers`, `LoopsGoOn`, `PersistedTokenSuffices`), because TLAPS does not
reason about `ENABLED`. Every invariant and every action property (`[][A]_vars`) that a
passing run checks is proved. Of the liveness properties the safety half is proved too:
that what has converged stays so, or what is shown rightly stays so
(`SettledStays`, `NoFalseAlarm`, `RegistrationsEnd`). That it does converge
is TLC's.

## 6. Not modelled

- The version and the node count of a heartbeat.
- The fatal errors before the preflight check (configuration and construction of the
  clients, `main.go:54-57, 75-77`).
- The pull that fails, in `NamespaceSync` and `PolicySync`: it is in `SyncReports` and
  `ManagerLoops`.
- Deletion of what Hydra no longer wants (containers, namespaces, mappings): the
  code does not do it. So a domain that moves to a container in another namespace
  leaves the mapping of the first namespace behind (`domain.go:50`), although
  `domain.go:28-29` speaks of one mapping per domain.
- Gatekeeper or a CRD of its being uninstalled while the operator runs.
- API requests that never return, except in `ManagerLoops`: elsewhere the fairness
  assumes that requests return.
- The token the Secret loses when a slow pod saves after a faster one
  (`tokenstore.go:60`): whether Hydra revokes the older token is not in this code.
- A count of zero, which the JSON leaves out (`client.go:97`); an answer 204 to
  `Register` (`client.go:352`): what Hydra makes of the first, and whether it sends
  the second, is not in this code.
- `buildService` and `buildTraffic` beyond being functions of the payload; revisions
  and conditions that are passed through to Hydra; the Rego of the templates.
- The readiness flag beyond `Startup`: it never goes back to false.
- Wording of errors, JSON, configuration, logging, clients, manifests.
- Knative below the Ready condition of its objects.

## 7. Plan

Done, in this order: `ApplyObject`, `ContainerSync`, `PublishedState`, `SyncReports`,
`Startup` with the proofs of the safety properties of `ApplyObject`, `ContainerSync`
and `Startup`; then `PolicySync`, `NamespaceSync`, late reports, and the proofs of
the safety properties of these three; then `ManagerLoops` and its proofs; then what holds
with overlapping pods (`ContainerOverlapProofs`) and the action properties that say that
what has settled stays, stated, checked and proved in every component that converges.

Left, each of less weight than what is there:

1. `NamespaceSync` as a refinement of an abstract specification of quotas, the way
   `PublishedState` is one of the Services.
2. The same "what is shown rightly stays so" for the container and domain reports
   of `SyncReports`, where readiness is the controllers' and may change at any time.
3. Policy and namespaces composed with the container sync through admission: a
   constraint or a missing namespace refuses a Service, instead of the constant
   `Inadmissible`.
4. Pure operators: `buildTraffic` and the revision list against reference
   definitions over bounded inputs.
