# A TLA+ model of the Go programs of this repository

The repository is the material of a Kubernetes workshop. Most directories hold
manifests and notes; four hold programs:

| Program | Directory | What it does |
|---|---|---|
| ingress-nginx | `WorkShop_2.5_Kubernetes_RealWorld/ingress-nginx` | mirrors Ingresses and the objects they name into an NGINX configuration |
| prometheus-operator | `WorkShop_2.10_Monitor/prometheus-operator` | reconciles Prometheus and Alertmanager resources into StatefulSets, Secrets and ConfigMaps |
| metrics-server 0.3 | `WorkShop_2.8_HPA_WorkShop/metrics-server` | scrapes kubelets and serves the newest point of every node and pod |
| metrics-server 0.2 (heapster) | `WorkShop_1.7_Resource_Management/metrics-server` | scrapes kubelets, runs processors and exports batches to sinks |

The reconciling or collecting core of each of the four is modelled and checked
here, and the core of each is proved as far as its safety goes. Paths below are
relative to the program's directory.

## Inventory

### ingress-nginx

| Part | State | Operations | Hard | Correct when |
|---|---|---|---|---|
| Synchronization loop (`internal/task/queue.go`, `controller/nginx.go`, `controller/controller.go`, `internal/watch`) | ring channel `updateCh`, work queue with timestamps, `lastSync`, `runningConfig`, the template, what NGINX runs | enqueue (skippable or not), worker, `syncIngress` (read, compare, reload, POST), file watchers, shutdown | handlers, loop, timers and worker interleave; a sync fails between two effects | no change is lost; NGINX runs what the controller believes; a shut down queue drains |
| Object store (`controller/store`) | informer caches, annotated Ingresses, map from Secrets to Ingresses, certificates | the event handlers of the Ingress, Secret and ConfigMap informers; completion of chains | handlers of several informers read and write the same maps, only `syncSecret` has a mutex | certificates and references follow their objects; every change is told to the loop |
| Status syncer (`internal/ingress/status`) | lease, task queue, workers, the statuses in the cluster, the store's copy | election callbacks, `sync`, `updateStatus`, `Shutdown` | several replicas; stale store; failed updates; stop during a sync | the statuses end with the running nodes; a stopped replica does not write |
| Lifecycle (`NGINXController.Start`, `Stop`, `start`) | NGINX's process, `ngxErrCh`, `isShuttingDown`, `stopCh` | start, die, respawn, `Stop` from a signal or from `/stop` | two callers of `Stop`; process death at any point | one master runs until `Stop`; `Stop` is done once |
| Lua side (`rootfs/etc/nginx/lua`) | shared dictionary, balancers of each worker | POST of a configuration, refresh each second, balance | workers refresh at different moments | a worker's balancers become those of the last configuration |
| Model building (`controller.go`, `endpoints.go`) and equality (`types_equals.go`) | upstreams, servers and locations while they are built; `runningConfig`; the file | the loops of `getBackendServers`, `createUpstreams`, `createServers`, merging of canaries, `Equal`, `IsDynamicConfigurationEnough` | what four loops decide in turn; objects that change in between; comparisons that look one way or leave a field out | the oldest Ingress wins; locations lead somewhere; what runs is what the Ingresses call for, though equal models are thrown away and most reloads avoided |
| Annotations, template, metrics | none | pure functions, text | | |

The informers write the store and put events into `updateCh`; `Start` turns
events into elements of the queue; its one worker reads the store and drives
NGINX by reloads and Lua by POSTs. The status syncer uses the same queue type
and lists the same store.

### prometheus-operator

| Part | State | Operations | Hard | Correct when |
|---|---|---|---|---|
| Reconcile loop (`pkg/prometheus/operator.go`) and rule ConfigMaps (`rules.go`) | the stores of seven informers, a rate limited queue, what `sync` remembers; in the API server ConfigMaps, a Secret, a Service, a StatefulSet | handlers, `enqueueForNamespace`, `sync` with each of its requests | stale stores; a failure or crash between deleting and creating; its own writes trigger it again | when nothing is left to do what it made is what the resources ask for, but for a Service whose loss nobody told it of and edits it does not look at, and it does come to rest |
| Alertmanager operator (`pkg/alertmanager/operator.go`) | two informers, one queue and one worker for all Alertmanagers | the handlers, `sync`, `destroyAlertmanager` | the worker waits for pods without a limit; names are used again | only orphans are destroyed; one Alertmanager does not block the others for good |
| Multi-namespace watch (`pkg/listwatch/listwatch.go`) | one goroutine for each namespace, a result channel | start, forward, `Stop` | a watch fails after others have started; two callers of `Stop` | every goroutine ends |
| Generation of objects (`promcfg.go`, `statefulset.go`) | none | text and objects | | |

### metrics-server 0.3

| Part | State | Operations | Hard | Correct when |
|---|---|---|---|---|
| Manager (`pkg/manager`), sources (`pkg/sources`), sink (`pkg/provider/sink`), REST storage | one goroutine for each kubelet, two channels, the batch, what the sink serves, the health | `Collect` of both managers, decoding, `Receive`, the reads | some kubelets fail or answer in part; one object reported twice; channels closed when `Collect` returns | nothing stale is served while the health check passes; no pod is served in part; no collection waits forever |

### metrics-server 0.2

| Part | State | Operations | Hard | Correct when |
|---|---|---|---|---|
| Manager, source manager, processors, sink manager, metric sink (`metrics/`) | tokens, runs, the previous batch of the rate calculator, the sinks, the store | housekeeping, scraping with a deadline, the processors, pushes with a timeout, requests | runs overlap and share the rate calculator without a lock; a kubelet reports a pod that has left; a sink hangs | what is stored is true and adds up; tokens come back; a sink that hangs costs the others nothing |

## Plan

| Step | Module | Composes / implements | Status |
|---|---|---|---|
| 1 | `SyncLoop`, `SyncLoopProofs` | | done |
| 2 | `IngressStore`, `IngressStoreProofs` | implements `Notification`, the promise `SyncLoop` relies on | done |
| 3 | `StatusSync`, `StatusSyncProofs` | | done |
| 4 | `ModelBuilding`, `ModelBuildingProofs` | the parts that `SyncLoop` takes as values, and the equality it takes for granted | done |
| 5 | `PrometheusOperator`, `PrometheusOperatorProofs` | loop and rule ConfigMaps; `Desired` is its abstract specification | done |
| 6 | `AlertmanagerOperator`, `AlertmanagerOperatorProofs` | | done |
| 7 | `MetricsPipeline`, `MetricsPipelineProofs` (metrics-server 0.3) | manager, sources, sink and readers | done |
| 8 | `HeapsterPipeline`, `HeapsterPipelineProofs` (metrics-server 0.2) | manager, sources, processors, sinks and readers | done |

Twelve runs are kept: ten passing ones, and two of disagreements with the
documentation. All modules do without recursive operators and use folds, so each
may have theorems.

## Modules and code

**`SyncLoop`**. The cluster is a function from the *parts* of an
`ingress.Configuration` to values; `Affects` says which objects change which
parts, `ReadOrder` and `PostOrder` are the orders of `syncIngress` and
`configureDynamically`. `Change` and `Notify` are the informer and its handler,
`ReceiveEvent` and `EnqueueEvent` the loop of `Start`, `Get` to `SyncFails` the
worker of `queue.go`, `CheckShutdown` to `PostFails` the statements of
`syncIngress`. `dirty`, `queue` and `delayed` are client-go's work queue as
`queue.go` uses it (external). The history variables `changed`, `silent` and
`partial` only serve the properties.

**`IngressStore`**. Each informer's goroutine is a handler with a place and
locals (`h`); every read and write of a shared map is an action, and the mutex of
`syncSecret` is `owner`. An Ingress is its class, whether it is a catch-all and
the Secret in each of four places; a Secret is its content. `Sync` is the loop,
reduced to its reading of the store; `unseen` is history.

**`Notification`**. The abstract promise: whoever is `working` ends with a
`signal`, and only then may it write. Mapping: `dirty` is the annotated Ingresses
in `unseen`, `working` the handlers that cannot end without an event (`Owing`),
`signal` is `updated`. It is exactly what `SyncLoop` takes for granted when
`Change` is followed by `Notify`.

**`StatusSync`**. Replicas with a pod, a lease, workers (one more in each term,
as `OnStartedLeading` starts them and nothing ends them with the term), tasks, a
requeued element and the goroutine of `Shutdown`; the statuses of the Ingresses
and each replica's lagging copy. `Run` has a value receiver, so neither `sync`
nor `Shutdown` sees the elector: the model has no such test.

**`ModelBuilding`**. An Ingress is a record of what the model is built from: the
rules, and the paths of all rules in their order, each with the host of its rule,
for the loops over them never look at another path of a rule;
annotations that are only carried along are one value `other`. `Sync` is one
iteration of one loop at a time: `CreateUpstreams`, `CreateServers` and
`FinishServers` (the loops of `createServers`), `GetBackendServers` (the rules of
each Ingress), `MergeCanaries` (one backend or path of a canary), `VisitUpstream`
(custom default backends, in the order of a map), and `Apply`, the comparison with
`runningConfig`, which throws an equal model away or applies it with or without
writing the file. Within one Ingress the first path that leads to an upstream or
takes a location decides (`First`), so the inner loops are functions.
Endpoints are a list of addresses with the ports of their subsets, in the order in
which the three loops of `getEndpoints` come to them, so `GetEndpoints` is one fold.
Services, certificates and streams are read from the cluster in whichever
iteration needs them and may change between two; the Ingresses are taken once.
`file` is what `nginx.conf` was written from. `Granted`, `Reached` and `Naming`
are reference definitions: what an Ingress is entitled to, without loops. It is
not composed with `SyncLoop`, where the same parts are opaque values: there the
question is when they are read, here what is made of them.

**`PrometheusOperator`**. `log` has for each kind of object the states between
the informer's and the API server's, so a store is stale by as many as there are
undelivered events; of ConfigMaps and Secrets, whose stores nothing reads, only
that an event is due. `sync` is one action for each request to the API server
(list, delete, create, get, write, update), but that `Configure` reads the user's
Secrets and the configuration together, and `CreateEmptySecret`, whose Create may
find the Secret there, gets and creates it in one; `Fail` and
`Restart` strike between any two. The governing Service, which all Prometheuses of
a namespace own together, takes two requests (`k8sutil.go:123-144`). `GetService`
remembers the owners it read (`job.owners`); `CreateOrUpdateService` creates the
Service, or updates it with these owners and its own (`MergeOwners`), which the
resource version allows only if nobody has written since. If somebody has,
`ServiceConflict` fails the sync; if the Service has gone, the Update's NotFound is
taken for success, and the sync goes on without it. `lost` is history: the owners
that such an Update, or a user's deletion, has left without the Service, until a
sync writes it again. `SyncOther` is the worker's sync of another Prometheus of the
namespace, as far as this one sees it. Handlers are functions of the old and the
new object that say whether the key is queued. Users, the collector and `Tamper`
are external: users delete ConfigMaps, the Secret, the StatefulSet and the Service,
and edit the StatefulSet in place, which keeps its hash (`edited`).

**`AlertmanagerOperator`**. The same, also the two requests for the Service, with
several keys that own it together: the queue is ordered and
`dirty` has the keys that came while they were processed. `destroyAlertmanager`
is `ScaleDown`, `Poll` (enabled only when its pods have ended) and
`DeleteStatefulSet`; `RunPods` is the StatefulSet controller (external). Users
delete StatefulSets or take their replicas away (`Tamper`) and delete the Service
(`DeleteService`). `Resync` is the informer's, every five minutes: the handler of
Alertmanagers does not compare resource versions (`operator.go:385`), so here, other
than in the Prometheus operator, a resync queues every key and a Service that is
missing comes back.

**`MetricsPipeline`**. `Tick` starts one goroutine for each source, `Answer`,
`Refuse`, `TimeOut` and `SendOther` are its two sends; `TakeError` and
`TakeBatch` are the loop of `Collect`, which takes one error and one batch for
each source and not always those of the same one; `Store` is `Receive`, `Finish`
the end of the manager's `Collect`. A value is `partial` or `undated` where the
kubelet leaves something out. `touched` is history.

**`HeapsterPipeline`**. A run holds a token and has a phase; the rate calculator
takes a step to look at `previousBatch`, one for each metric set and one to
replace it, and the other processors, which share nothing but the batch, one
together. `MapRace` is what Go does when the processors write a map that another
run reads. `Push`, `PushTimesOut` and `ExportData` are the goroutines of the sink
manager. A batch is a function from keys to metric sets, and an aggregator makes a
new one of it at once (`WithAll`: each target with the sum of its sources, which is
what the loops of the code leave in any order of the map). `shortStore` is the set
of the batches the metric sink keeps and `latest` the last of its list, the only one
that `GetLatestDataBatch` returns. Each container uses one unit of CPU in a unit of time, so every rate
that is true is one.

The `MC` modules give constants; the `Mutant` operators beside a definition are
plausible errors of it, each of which some property excludes.

## Runs

| Run | Shows |
|---|---|
| `sync_loop_safety` | `NoLostUpdate`, `RunningIsAsNewAsLastSync`: skipping elements older than the last sync is safe with dropped events, coalesced elements, failures. `DueIsQueued`: nothing is forgotten by `Done`. `AppliedIsRunning`: NGINX runs `runningConfig` unless a sync failed half way (what follows one that did is `NginxReflectsCluster`, which does not hold, below; `Converges` covers the retry). `NoSyncAfterShutdown`: draining touches NGINX no more. `IInv` is the invariant proved. |
| `sync_loop_liveness` | `Converges`: after the last change and failure the running configuration equals the store. `ShutdownCompletes`. |
| `sync_loop_configmap_race` | violated: see findings 1 |
| `ingress_store_safety` | `CertificatesAreCurrent`, `NothingIsSilent`, and under fairness `CertificatesAreServed` |
| `ingress_store_classes` | `ReferencesAreCurrent`, `NoIngressIsMissing` and the refinement `WritesAreNotified` over changes of class, catch-all rules and Secrets |
| `ingress_store_race` | violated: findings 2 |
| `status_sync` | `Converges`: statuses end with the addresses of the running replicas; `NoAddressReturns`: a drained replica writes no address again |
| `model_building` | `OldestIngressWins`: which Ingress gets a path, over all loops. `LocationsHaveBackends`: deleted canaries leave no location without a backend. `EndpointsAreCurrent`, `CertificatesAreRight`: what runs is what Services and Secrets hold, though equal models are thrown away. `FileIsCurrent`: what is applied without a reload needs none. |
| `prometheus_operator` | `QuietIsRight`: no stale store, failed request, crash, deleted ConfigMap, Secret or StatefulSet and no new Prometheus of the old name leaves rules, configuration, Service or StatefulSet wrong once nothing is left to do. It excepts the Service of a Prometheus in `lost`, and edits that leave a StatefulSet's hash. `Settles`: and it comes to that. |
| `alertmanager_operator` | the same for several Alertmanagers with one worker, excepting the Service of those in `lost`; `DestroysOnlyOrphans` |
| `metrics_pipeline` | `HealthyIsFresh`: nothing stale while the health check passes; `PodsAreWhole`; `Settles`: a cluster at rest is served as it is |
| `heapster_pipeline` | `BatchesAreSound`: rates are true and sums are right whatever runs overlap; `Settles`: every token comes back, and a hanging sink keeps no batch from the metric sink |

*Bounds.* `SyncLoop`: two values tell old from new (a third would only repeat an
old one); a ring of one event drops at the second, and the code treats 1024 alike;
two changes let one fall before and one after each read of a sync; one failure, a
clock of two readings (equal and later) and a `Day` above them decide every
comparison of timestamps. `configmap` and `service` objects are in the liveness
run, `ingress` in the safety run; the proofs cover all of them together.
`IngressStore`: one Ingress suffices for the races, which are about one entry,
with all four places naming one Secret so that the parsers, the references and
`syncSecrets` meet; two certificates and a password file make a Secret change,
lose and regain what it holds; three changes put the creation of both objects and
one later change anywhere. `ClassSpecs` has both flags and two Secrets, and a
default certificate. `StatusSync`: two replicas on two nodes, one Ingress
(Ingresses do not interact), one waiting task (further ones are equal), one lost
lease (two overlapping workers), one failing request, one replica that ends.

`ModelBuilding`: up to three of nine Ingresses, each with another way to meet an
older one (catch-all, TLS, the same path, no path, canary of one or two paths,
custom default backend, alias and client certificates, no rules, canary that uses
its primary's Service), three Services with two ports to one target or two
subsets, one certificate for either of two hosts, one stream; three changes, of
which each may fall between two iterations. `PrometheusOperator`: one Prometheus
(those of other namespaces share the worker only, those of its own the governing
Service too, which `SyncOther` writes for them), two rules in two namespaces that do not fit
into one ConfigMap, three specs (of which one is paused and one has neither a
selector of namespaces nor a managed configuration), two more changes or faults
after the first Prometheus, one undelivered event of a kind. `AlertmanagerOperator`:
two keys, so that one may wait for the other, four specs, two changes or faults.
`MetricsPipeline`: two kubelets and one pod that both may report, pods of one
container and of two of which one is partial, three changes or faults.
One pod hardly exercises the reuse of a slot in the list of pods
(`summary.go:119`); `WholeCorrect` is proved for any number. `HeapsterPipeline`: two
kubelets, one pod of two containers, one token (a run is
given up) or two (runs overlap), two periods, one change or crash, a sink that may
hang and the metric sink, which keeps a batch for one period. Two
periods do not let a run replace `previousBatch` between another's check of the
timestamps and its rates, for the first of the two must find a batch that an earlier
one left: `HeapsterPipelineOverlap.cfg` (one kubelet, the metric sink alone, three
periods, 1.1 million states) does, and `BatchesAreSound` holds there too.

*Deadlock* is not checked: when changes, failures and clock have reached their
bounds and everything is handled, the controller rightly waits.

*Fairness.* Goroutines that can run do run, timers fire and the API server answers
a watch; nothing more is assumed. Where a liveness property does not need to tell
the goroutines of a group apart, the group as a whole is weakly fair, which is less
than the Go scheduler gives. `SyncLoop`: worker, event loop, handlers, timers and
the goroutine of `Queue.Shutdown`, each. `IngressStore`: the handlers of the three
informers together (an informer's next event waits only for its own handler, and
when changes have ended so have the handlers), the completion of a chain in
progress, the loop. `StatusSync`: for each replica its elector or the poll of its
`Shutdown`, its workers together, its informer, its queue. `PrometheusOperator` and
`AlertmanagerOperator`: the worker, each watch, the rate limiter and, of Kubernetes,
the garbage collector and the StatefulSet controller. `MetricsPipeline`: all
goroutines together; that a kubelet answers is no assumption, for a scrape that does
not times out (`Refuse`). `HeapsterPipeline`: something of the manager and its runs
goes on while anything can (every such step changes `due` or `runs`, the subscript);
neither kubelets nor other sinks are fair. Nothing is
assumed of the cluster, of failures, crashes or stops, which are bounded in number
because a liveness property only promises something after the last of them.

## Proofs

Constants are arbitrary within the named assumptions of each module, which say no
more than types, finiteness of what Kubernetes has finitely many of, distinct
names, that a ring or a watch has room for an event, and that the namespace of the
Prometheus exists. Except for
`CertificatesCorrect` of `IngressStoreProofs` no theorem has a hypothesis of its own.
Every theorem is about `Spec`, which has no fairness. `IInv` and the other
strengthenings are stated in the component's module, beside the properties they
serve (that of `ModelBuilding`, which is longer than the properties, in the module of
its proofs); TLC checked each of them before it was proved.

*SyncLoopProofs.* `NothingLost` (`Spec => []NoLostUpdate`) and `SkippingIsSafe`.
`NoLostUpdate` is not inductive: a successful sync sets `lastSync` to the time it
read, so that an element may be skipped, and the step that skips it needs to know
that a part unchanged since then is installed. `IInv` therefore adds `TimesPassed`
(no recorded time is in the future), `ReadIsFresh` (what a sync has read is current
unless it changed since the sync began), `RunningIsAsNewAsLastSync` (the same of the
running configuration, which a successful sync inherits from `ReadIsFresh`),
`StaleReadIsSignalled` (a part changed after it was read has its own element on
the way, so installing the stale one is not the end) and that a shut down queue
belongs to a stopping controller. `DueCorrect`: what is due is queued once or will
be put back by `Done`; inductive with its converse (`QueueFits`: what waits is due
and not in process). `AppliedCorrect`: an idle controller's `running` is what NGINX
uses, from `NginxFits`, which says of each part and each place of a sync whether
NGINX has the new or the old one. `SettledCorrect`: after `Stop` and the sync in
progress nothing touches NGINX.

*IngressStoreProofs.* `IInv` is `TypeOK`, `Fits` (the locals of a handler fit its
place: the Ingress, Secret or content it works on exists) and `OneWriter` (a
handler is writing a certificate exactly while it holds the mutex). `TypeCorrect`
needs `Fits`, for what is written comes from locals; `WritersExclude` is mutual
exclusion of `syncSecret`. `Refines` maps the initial state and every step to
`Notification` (the steps of a handler begin, write or end, or stutter), and
`ToldCorrect` concludes that no annotated Ingress is changed silently.

The second part: `ReferencesCorrect` and `NoneMissing`: between two
runs of the Ingress handler the map of references and the entries are those of the
specification it was told last. What it was told is defined by the notifications
still waiting, so the proof first shows that these form a chain (`EventsChain`: each
begins where the one before it ended); then `ReferencesFit` follows the handler
from place to place, and shows that the other two leave the map alone and take no
entry away. `SilenceCorrect`: a certificate that changed and is referenced has been
told to the loop, or a handler that will tell is on its way (`SilenceFits`).
`CertificatesCorrect`: at rest the certificate of a referenced Secret is the one in
the cluster. The invariant (`CertificatesFit`) says that until then someone covers
it: a notification, a handler that will come to this Secret, or one that has read
its present content; a handler about to write an outdated copy never makes up for
that. It supposes `~OCSP`, since with the completion of chains the property is
false (see below).

*StatusSyncProofs.* `TypeCorrect` needs `OneWorkerPerTerm` (each term starts one
more worker, so there are never more than terms) and that every goroutine is at a
place of its own code (`GoroutinesFit`). `NothingReturns` is `NoAddressReturns`: a
replica whose queue is shut down, and whose workers are past their syncs, stays
so, and writes no address again although it may win another term.

*MetricsPipelineProofs.* `FreshCorrect`: while the health check passes nothing
stale is served. `Collect` takes one error and one batch for each source, not always
those of the same one, so the invariant counts: the errors and the batches that
sources still owe are as many as `Collect` still takes (`ChannelsFit`), so that when
it returns no goroutine is left with an older answer. `NothingIsStale` then says of
results, batch and sink that they are what unchanged kubelets report. `WholeCorrect`:
from the decoding to the reader a pod's point has only whole containers.

*AlertmanagerOperatorProofs.* `DestroysCorrect`: only orphans are scaled down or
deleted, from stores that lag and keys that are used again. What carries it is that
uids do not come back (`UidsFit`: the states of an Alertmanager in which it has a
given uid are adjacent in its log, and none follows once the informer, a job or a
StatefulSet has gone past it), so that what is destroyed belongs to no Alertmanager
the informer has yet to see (`DestroysOrphan`). `QuietCorrect` (`QuietIsRight`):
`NothingForgotten` says that every Alertmanager waits in a queue, has an event on its
way or is as it should be, and `JobFits` that a sync which read an older state has
its key queued again, and that one which comes to the StatefulSet has put its uid
among the owners of the Service, or in `lost` because its Update found none. The
conclusion on the Service is as weak as that: whose Service a user deleted, or an
Update took for written, is in `lost` until a sync writes it again.

*PrometheusOperatorProofs.* `QuietCorrect` (`QuietIsRight`). It excepts what nothing tells the operator: a
Prometheus in `lost` may be without its Service, and the StatefulSet is right up to
edits that leave its hash (`EditUndone`). Whether anything is left
to do says nothing of how it came to be done, so the invariant follows the worker:
`NothingForgotten` says that, unless the key is queued again or waits in the rate
limiter, the Prometheus that the informer knows is the one being synchronized, and
each kind of object up to the place that sync has reached is what the caches ask for
or has an event on its way (`RulesFit`, `ConfigFits`, `SecretFits`, `ServiceFits`,
`StatefulSetFits`). An event may then be delivered without queueing the key only
where nothing depends on it, which is what the handlers' selection
(`enqueueForNamespace`) must guarantee. `ServiceFits` says of a sync that has
come to the StatefulSet that its Prometheus owns the Service, is in `lost` or is no
longer there; the collector takes only owners that are gone and an Update with merged
owners only adds one, so nothing but such an Update or a user makes it less. The contents of a rule ConfigMap just created
need not be known: creating it makes an event, and only a sync that compares and
changes nothing counts. `VersionsFit` adds that a resource version tells the state of
the Prometheus and the hash of a StatefulSet what it was made from, so that equal
hashes mean equal StatefulSets. The theorem is about `Spec`, where the labels of
namespaces stay: with `SpecWithNamespaces` the property is false (see below).
`TypeCorrect` is concluded from the same invariant, for the owners of the Service are
uids given before, which needs `VersionsFit`.

*HeapsterPipelineProofs.* `BatchesCorrect` (`BatchesAreSound`), for any finite number
of nodes and containers and any number of overlapping runs. The aggregators sum with
`SumFunction` of the community modules, so the first part proves of it, by induction
over the subsets of a finite set (`FiniteInduction`, from the well-foundedness of
strict inclusion), that a sum does not depend on which element is taken first
(`AnyFirst`: the order of a Go map does not tell) and is the sum of the sums of its
parts (`TotalParts`). Then each processor adds up (`PodsAddUp`, `NamespacesAddUp`,
`NodesAddUp`, `ClusterAddsUp`), provided that a batch has the containers only with
their pods and the pods only with their nodes, and no pod or node has metrics yet.
That is `Measured`, which the merge of answers keeps although a pod that has moved is
reported by two kubelets (`OverIsMeasured`). Rates are one because usage is the age
of a container in the batch and in `previousBatch` alike (`TrueCounters`), so it
does not matter that another run replaces `previousBatch` between the check of the
timestamps and the rate of a metric set. `RunsFit` says that a run stores its batch
once and that no other batch is of its period.

*ModelBuildingProofs.* `OldestCorrect`, `LocationsCorrect`, `CertificatesCorrect` and
`FileCorrect`, for any Ingresses, Services, certificates and streams and any number
of changes, from one invariant. `Built` says of each loop that what it has built is
what the Ingresses it has been over call for: `RootsAre` (each host that one of the
first k names has its server and default location), `PathsAre` (each path that one of
them claims leads where the oldest says), `Located` (afterwards, unless the upstream
has no endpoints and a custom default backend has taken its place). Each has a lemma
that goes from k Ingresses to k + 1 (`ServersAdded`, `PathsAdded`). A canary's
upstream has no server, so its paths take no location (`TakenAreClaims`), and merging
deletes only upstreams that no other Ingress names (`Merged`): both need
`CanariesApart`. Certificates are those of the Secrets at the time the loop reads
them, and the invariant says so only as long as no change is due (`Certified`). That
an equal model may be thrown away is the last part: `Equal` leaves out the
annotation's default backend, alternatives and more, but models it calls equal have
the same certificates and lead to the same upstreams (`EqualLocated`, where a custom
default backend is told from an upstream by its name, `NamesDiffer`), and those that
differ only in what `IsDynamicConfigurationEnough` passes over have the same file but
for the PROXY protocol (`WrittenEqual`). The assumptions: an Ingress is what the API
server admits, and no upstream of an Ingress has the name of the default upstream or
of a custom default backend, which only a namespace called `upstream` or `custom`,
with a Service to match, could have.
`EndpointsCorrect` has a second invariant, `EndpointsOK`, proved with the first one at
hand: no upstream lists an endpoint twice (`Distinct`), and until a change is due its
endpoints are those of some backend, of that name, of the Ingresses so far (`Origin`).
What the fold of `getEndpoints` lists is a recursion over the set of places of a list.
That it has a solution (`ListsExists`) and what the solution is for the first k places
(`ListedTo`) follow from there being no first k for which they fail (`FirstLeast`);
`AppendNew` makes the list one without repetition, which is what `EqualEndpoints`,
lengths and one inclusion, needs to mean equality (`EqualOnce`). The property is about
the upstreams that no other backend shares the name of: `default/a-b` with port `80`
and a Service `b` in a namespace `default-a` share one, and so the upstream that is made first.

*Lemmas* worth reuse: queues and lists without repetition (`AppendOnce`,
`TailOnce`), what a step of the API server or of a watch does to a log
(`WriteStep`, `DeliverStep`), the least of a set of numbers (`SmallestOf`, from the
well-foundedness of `<`), cardinalities of the sources that still owe an answer,
finite induction and the theory of finite sums.

*Only model-checked.* Liveness (`Converges`, `ShutdownCompletes`,
`CertificatesAreServed`, `Settles`), since proofs under fairness and `ENABLED` are out
of this prover's reach. Every safety property that a run checks is stated by a theorem.

## What does not hold

Findings, each with a run that shows it:

1. `nginx.go:448`: `OnUpdate` renders a ConfigMap newer than the checksum recorded
   in `runningConfig`; when it is changed back nothing is reloaded
   (`NginxReflectsCluster`).
2. `store.go:649`: a handler of Secrets or ConfigMaps writes an Ingress back after
   the Ingress handler removed or replaced it (`ListsTheCluster`).

Each of the following is a disagreement of the code with what the repository says
of it, or with what it is for, stated as a property that TLC finds violated under the configuration named
(`tlc -config X.cfg M`, with `M` the `MC` module), outside the twelve runs:

| Configuration | Property | Code and words |
|---|---|---|
| `SyncLoopTemplate.cfg` | `TemplateIsApplied` | `onTemplateChange` (`nginx.go:151-166`) forces a sync, which finds an unchanged model and does not reload (`controller.go:166`); `Changelog.md:1304`: "Force reload on template change" |
| `IngressStoreAuth.cfg` | `UpdatesAreParsed` | an updated Secret is synchronized after the annotations that depend on it were parsed (`store.go:453`), so a changed client CA is not applied |
| `StatusSyncLeader.cfg` | `OneNodeSyncs` | the elector is nil in the copy of `statusSync` that `sync` uses (`status.go:229`), so a replica that lost its lease works off its queue |
| `ModelBuildingErrors.cfg` | `ErrorsGoToTheAnnotation` | upstreams are visited in the order of a map, and each that is not the location's own resets its default backend to the global one (`controller.go:616`); `annotations.md:242`: "the errors will be routed to that annotation's default backend service (instead of the global default backend)" |
| `ModelBuildingCanary.cfg` | `CanariesServe` | `Backend.Equal` looks for the running alternatives among the new ones and not the other way round (`types_equals.go:182`), so a model that only adds alternatives is thrown away; `controller.go:1190`: "we know that this server should back the alternative backend" |
| `PrometheusOperatorNamespaces.cfg` | `QuietIsRight` | a namespace that changes its label has no handler, and `enqueueForNamespace` drops an event of a namespace its store does not have yet (`operator.go:792`), so what the selector of the Prometheus asks for is not made until something else happens |
| `PrometheusOperatorService.cfg` | `GoverningServiceExists` | an Update of the Service that finds none is taken for success (`k8sutil.go:138`): when the collector removes the Service of an earlier or of another Prometheus after the Get, the operator ends without one and stays so until something else queues the key (with nobody deleting anything, `SpecUndisturbed`); the Alertmanager operator calls the same function, and its next resync repairs it. `operator.go:1012`: "Create governing service if it doesn't exist." `Documentation/rbac.md:108`: "The Prometheus Operator reconciles `services` called `prometheus-operated` and `alertmanager-operated`" |
| `MetricsPipelineNodes.cfg` | `NodesAreWhole` | the slice `[:1]` keeps the incomplete point of a node (`summary.go:115`), which the comment at 113-114 says to discard |

Further properties are stated in the modules but not kept by the code; they can
be seen with the constants given, the rest as in the configuration of the module
(`SyncLoopConfigMapRace.cfg`, `IngressStoreRace.cfg`, for `NewSecretsAreUsed`
`IngressStoreAuth.cfg`, `StatusSyncSafety.cfg`):

| Property | Why | Constants |
|---|---|---|
| `EveryChangeIsSynced` | Services are watched without handlers (`store.go:606`) | `Sources = {"service"}` |
| `NginxReflectsCluster` after a failure | a failed POST leaves NGINX between two configurations, and a change back hides it (`controller.go:166`) | `Sources = {"endpoints"}, MaxFailures = 1, MaxChanges = 2` |
| `RetriesBeforeGivingUp` | `wait.ExponentialBackoff` ends when its condition returns an error (`controller.go:219`) | `MaxFailures = 1` |
| `NewSecretsAreUsed` | `secure-verify-ca-secret` is not recorded (`store.go:681`); references are recorded after parsing (`store.go:357-358`) | as there, or `Specs <- VerifySpecs` |
| `RemovedSecretsAreGone` | the certificate is dropped first and may be written back by a handler that read the Secret before (`store.go:479`) | as there |
| `RemovalIsTold` | a removed Secret that no Ingress names returns before the event (`store.go:484`) | `DefaultSSLCertificate = s1` |
| `CertificatesAreCurrent` with `OCSP` | a completed copy of an older certificate is written back (`backend_ssl.go:190`) | `OCSP = TRUE, Data = {c1, c2}, Certificates = {c1, c2}` |
| `RemovedAtEnd` | two replicas that stop leave the removal to each other; a sync in progress writes after the removal (`status.go:188`, `208`) | `MaxExits = 2` |

Disagreements met while modelling, which no property states:

- *ingress-nginx, building.* The alias of a server is kept under the literal key
  `"Alias"` (`controller.go:1062`), so a conflict is not found and the alias not
  removed as `annotations.md:310` has it. Two canaries of one Service, a canary
  that uses its primary's Service, or one whose rule has no HTTP part end in a nil
  pointer; `ModelBuilding` has the panic and the restart, and its properties that
  speak of canaries say `CanariesApart`. A default backend of one Ingress
  overwrites the upstream of another under the same name. Names are joined by
  `-`, of upstreams (`util.go:51`) and of PEM files (`backend_ssl.go:90`), and may
  coincide.
- *ingress-nginx, equality.* The PROXY protocol of a stream and the locations of a
  cookie are not compared; `FileIsCurrent` is stated without the former.
- *ingress-nginx, the rest.* `ngxErrCh` is never made, so a master that dies is not
  started again, whatever `nginx.go:307-312` says. `break` at `nginx.go:342` leaves
  the `select` only. The rate limiter's entry of a failed element is never
  forgotten (`queue.go:131`).
- *prometheus-operator.* A StatefulSet that somebody edits in place keeps the hash
  of its inputs, so every sync skips it (`operator.go:1044-1045`), and a Service that
  a user deletes is not missed, for no informer watches Services; the program's
  `README.md:49` has it that "The Operator ensures at all times that a deployment
  matching the resource definition is running." Two rules may become one file, `"%v-%v.yaml"` of namespace
  and name (`rules.go:181`): the map's order decides which one is used, and
  `Selections` allows either. `Stop` of the multi-namespace watch may close its
  channel twice (`listwatch.go:231`), and a watch that fails leaves those started
  before it running (`listwatch.go:179`).
- *metrics-server 0.3.* Two nodes without timestamps are both without a name, a
  duplicate for which `Receive` refuses everything (`sinkprov.go:125`): all nodes
  keep their old metrics and the health check fails, though the manager means to
  go on "so that we don't lose all metrics if one node goes down". `Settles`
  therefore asks for at most one such node (`Distinct`).
- *metrics-server 0.2.* Overlapping runs store their batches in the order in which
  they end (`metric_sink.go:86`: "TODO: add sorting"), and the last stored is
  served as the latest. A batch that was overtaken has no rates, so until the next
  one no pod has metrics.

## Not modelled

The map covers an eighth of the implementation. Of the rest, about a third is
generated (OpenAPI definitions and deep copies); much of what remains produces
text or manifests without state of its own (`promcfg.go`, `statefulset.go`,
`template.go`, `configmap.go`, the parsers of annotations), declares types, flags
and clients, or counts for Prometheus. A module of those would repeat the program.

*Left out of the modules that exist.* The text of `nginx.conf`. Rate limits and the
length of delays: a timer may fire at any moment. PEM and password files. The API
server's conflict detection in `StatusSync`, because `updateStatus` reads the
Ingress anew just before it updates it: an update that meets a conflict ends as if
it had come just before the one it conflicts with, any other failure is
`UpdateFails`; and the addresses given by flags. SSL passthrough and dynamic
certificates in `ModelBuilding`. In `PrometheusOperator` the Endpoints of the
kubelets, which a goroutine of their own keeps and nothing reads; in both operators
the creation of their CRDs before the loop starts. Quantities, selectors of
requests and durations in `MetricsPipeline`. Memory, the long store, the namespace
and autoscaling enrichers and `Stop` in `HeapsterPipeline`.

*Components without a module.* The life of the NGINX process, which follows from
signals and exit codes that this code does not determine; the Lua workers; the
multi-namespace watch. Their hazards are in `PROJECT.json` or in the list above.
Vendored code, manifests and command-line tools are out of scope.
