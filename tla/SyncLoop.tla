------------------------------ MODULE SyncLoop ------------------------------
(***************************************************************************)
(* The synchronization loop of the NGINX ingress controller: the event     *)
(* loop of NGINXController.Start, the time work queue of internal/task and *)
(* the sync function NGINXController.syncIngress its one worker calls.     *)
(*                                                                         *)
(* The cluster state the controller mirrors is a function from the PARTS   *)
(* of an ingress.Configuration to abstract values.  An informer changes a  *)
(* part of the store first and notifies the controller later; the worker   *)
(* reads the parts one by one, so a change may fall between two reads.     *)
(***************************************************************************)
EXTENDS Integers, Sequences, FiniteSets, Functions

CONSTANTS
    Values,       \* contents a part of the configuration can have
    NoValue,      \* the content of new(ingress.Configuration)
    NoElement,    \* no element held
    Sources,      \* kinds of API objects that change in this instance
    RingSize,     \* capacity of updateCh (1024 in the code)
    Day,          \* the 24 hours added to a task that must not be skipped
    Steps,        \* steps of the wait.Backoff in syncIngress (15)
    DynamicCertificatesEnabled,
    MaxClock,     \* bound: readings of the clock
    MaxChanges,   \* bound: changes of cluster objects or of the template
    MaxFailures   \* bound: failed reloads and failed POSTs

(***************************************************************************)
(* "servers" stands for everything that only a reload applies (servers,    *)
(* locations, the list of L4 services, passthrough backends), "config" for *)
(* the checksum of the configuration ConfigMap.                            *)
(***************************************************************************)
Parts == {"servers", "config", "backends", "streams", "general", "certs"}

(* The order in which syncIngress reads the informers' stores. *)
ReadOrder == <<"servers", "backends", "certs", "streams", "config", "general">>

(* The parts an object of each kind contributes to. *)
Affects == [ ingress   |-> {"servers", "backends"},
             endpoints |-> {"backends", "streams"},
             secret    |-> {"certs", "servers"},
             configmap |-> {"config", "servers"},
             pod       |-> {"general"},
             service   |-> {"backends", "streams"} ]

(* The services' informer is registered with an empty set of handlers. *)
Handled == {"ingress", "endpoints", "secret", "configmap", "pod"}

(* What configureDynamically sends, in its order. *)
PostOrder ==
    IF DynamicCertificatesEnabled
    THEN <<"backends", "streams", "general", "certs">>
    ELSE <<"backends", "streams", "general">>

DynamicParts ==
    {"backends", "streams", "general"}
        \cup (IF DynamicCertificatesEnabled THEN {"certs"} ELSE {})

EventKinds == {"CONFIGURATION", "UPDATE"}

Element == [Key : {"object", "initial-sync", "configmap-change",
                   "template-change", "file-change"},
            Timestamp : Nat]

ASSUME SyncLoopAssumption ==
    /\ NoValue \notin Values
    /\ Values # {}
    /\ NoElement \notin Element
    /\ Sources \subseteq DOMAIN Affects
    /\ RingSize \in Nat \ {0}
    /\ Day \in Nat
    /\ Steps \in Nat \ {0}
    /\ DynamicCertificatesEnabled \in BOOLEAN
    /\ MaxClock \in Nat /\ MaxChanges \in Nat /\ MaxFailures \in Nat

VARIABLES
    store,       \* the parts as the informers' stores hold them now
    unnotified,  \* events of changes whose handler has not run yet, per kind
    updateCh,    \* the ring channel between the handlers and Start
    hand,        \* the Element Start has built and not yet added
    queue,       \* workqueue: elements waiting for Get, in order
    dirty,       \* workqueue: elements that still have to be processed
    delayed,     \* workqueue: elements added with AddRateLimited, not due yet
    shutDown,    \* workqueue: ShutDown was called
    stopping,    \* NGINXController.isShuttingDown
    clock,       \* time.Now()
    pc,          \* where the worker is
    cur,         \* the element the worker processes
    ts,          \* the worker's reading of the clock before the sync
    idx,         \* the next part to read, or to POST
    pcfg,        \* the configuration under construction
    attempts,    \* calls of configureDynamically in this sync
    lastSync,    \* Queue.lastSync
    running,     \* NGINXController.runningConfig
    tmpl,        \* NGINXController.t
    nginx,       \* what the NGINX processes really use
    changed,     \* history: when each part changed last
    silent,      \* history: parts whose last change had no handler
    changes,     \* history: number of changes so far
    failures,    \* history: number of failures so far
    partial      \* history: a sync failed after it had changed NGINX

cluster == <<store, tmpl, changed, silent, changes>>
events  == <<unnotified, updateCh, hand>>
wq      == <<queue, dirty, delayed, shutDown>>
local   == <<cur, ts, idx, pcfg, attempts>>
applied == <<lastSync, running, nginx, failures, partial>>
vars    == <<store, unnotified, updateCh, hand, queue, dirty, delayed,
             shutDown, stopping, clock, pc, cur, ts, idx, pcfg, attempts,
             lastSync, running, tmpl, nginx, changed, silent, changes,
             failures, partial>>

Config == [Parts -> Values \cup {NoValue}]
EmptyConfig == [p \in Parts |-> NoValue]

(* Where the worker may be; the last line are the places inside syncIngress. *)
PCs == {"get", "got", "stopped",
        "check", "read", "compare", "reload", "post"}

TypeCluster ==
    /\ store \in [Parts -> Values] /\ tmpl \in Values
    /\ changed \in [Parts -> Nat] /\ silent \subseteq Parts /\ changes \in Nat

TypeEvents ==
    /\ unnotified \in [EventKinds -> Nat]
    /\ updateCh \in Seq(EventKinds) /\ Len(updateCh) <= RingSize
    /\ hand \in Element \cup {NoElement}

TypeQueue ==
    /\ queue \in Seq(Element)
    /\ dirty \subseteq Element
    /\ delayed \subseteq Element
    /\ clock \in Nat

TypeFlags == shutDown \in BOOLEAN /\ stopping \in BOOLEAN /\ partial \in BOOLEAN

TypeWorker ==
    /\ pc \in PCs
    /\ cur \in Element \cup {NoElement}
    /\ pc \notin {"get", "stopped"} => cur # NoElement
    /\ ts \in Nat
    /\ idx \in 1 .. 6
    /\ pc \notin {"read", "post"} => idx = 1
    /\ pc = "post" => idx <= Len(PostOrder)
    /\ pcfg \in Config
    /\ attempts \in 0 .. Steps

TypeApplied ==
    /\ lastSync \in Nat /\ running \in Config /\ failures \in Nat
    /\ nginx \in [conf : Config, tmpl : Values \cup {NoValue}]

(* The type invariant: the types of the variables, the capacity of the     *)
(* ring, and the worker's locals against its place (it holds an element    *)
(* from Get to Done and never POSTs past the last part).                   *)
TypeOK ==
    /\ TypeCluster /\ TypeEvents /\ TypeQueue /\ TypeFlags
    /\ TypeWorker /\ TypeApplied

(***************************************************************************)
(* The controller right after Start has synced the informers' caches,      *)
(* started NGINX and the worker, and forced the initial sync.              *)
(***************************************************************************)
InitialElement == [Key |-> "initial-sync", Timestamp |-> Day]

Init ==
    /\ \E v \in Values : store = [p \in Parts |-> v] /\ tmpl = v
    /\ unnotified = [k \in EventKinds |-> 0]
    /\ updateCh = <<>>
    /\ hand = NoElement
    /\ queue = <<InitialElement>> /\ dirty = {InitialElement}
    /\ delayed = {}
    /\ shutDown = FALSE /\ stopping = FALSE
    /\ clock = 0 /\ ts = 0 /\ lastSync = 0
    /\ pc = "get" /\ cur = NoElement /\ idx = 1 /\ attempts = 0
    /\ pcfg = EmptyConfig /\ running = EmptyConfig
    /\ nginx = [conf |-> EmptyConfig, tmpl |-> NoValue]
    /\ changed = [p \in Parts |-> 0]
    /\ silent = {} /\ changes = 0 /\ failures = 0 /\ partial = FALSE

-----------------------------------------------------------------------------
(* The work queue of client-go, as internal/task uses it. *)

Processing(e) == pc \notin {"get", "stopped"} /\ cur = e

(* Interface.Add *)
Add(e) ==
    IF shutDown \/ e \in dirty
    THEN UNCHANGED <<queue, dirty>>
    ELSE /\ dirty' = dirty \cup {e}
         /\ queue' = IF Processing(e) THEN queue ELSE Append(queue, e)

(* Mutant of Done: an element that came back during its sync is forgotten. *)
DoneForgets ==
    /\ queue' = queue
    /\ pc' = "get"
    /\ cur' = NoElement /\ ts' = 0 /\ idx' = 1 /\ attempts' = 0
    /\ pcfg' = EmptyConfig

(* Interface.Done, for the element in process; the locals of the iteration *)
(* go out of scope.                                                        *)
Done ==
    /\ queue' = IF cur \in dirty THEN Append(queue, cur) ELSE queue
    /\ pc' = "get"
    /\ cur' = NoElement /\ ts' = 0 /\ idx' = 1 /\ attempts' = 0
    /\ pcfg' = EmptyConfig

(* A timer of the delaying queue fires. *)
DelayedReady(e) ==
    /\ e \in delayed
    /\ delayed' = delayed \ {e}
    /\ Add(e)
    /\ UNCHANGED <<cluster, events, shutDown, stopping, clock, pc, local, applied>>

-----------------------------------------------------------------------------
(* The environment: time, cluster objects, the files that are watched. *)

Tick ==
    /\ clock < MaxClock
    /\ clock' = clock + 1
    /\ UNCHANGED <<cluster, events, wq, stopping, pc, local, applied>>

KindOf(s) == IF s = "configmap" THEN "CONFIGURATION" ELSE "UPDATE"

(* An informer stores a changed object; its handler is called later. *)
Change(s, p, v) ==
    /\ changes < MaxChanges
    /\ s \in Sources /\ p \in Affects[s] /\ v # store[p]
    /\ store' = [store EXCEPT ![p] = v]
    /\ changed' = [changed EXCEPT ![p] = clock]
    /\ changes' = changes + 1
    /\ \/ /\ s \in Handled
          /\ silent' = silent \ {p}
          /\ unnotified' = [unnotified EXCEPT ![KindOf(s)] = @ + 1]
       \/ /\ s \notin Handled
          /\ silent' = silent \cup {p}
          /\ UNCHANGED unnotified
    /\ UNCHANGED <<tmpl, updateCh, hand, wq, stopping, clock, pc, local, applied>>

(* Mutant of Notify: a channel that grows instead of dropping its oldest. *)
NotifyUnbounded(k) ==
    /\ unnotified[k] > 0
    /\ unnotified' = [unnotified EXCEPT ![k] = @ - 1]
    /\ updateCh' = Append(updateCh, k)
    /\ UNCHANGED <<cluster, hand, wq, stopping, clock, pc, local, applied>>

(* The handler of a changed object: updateCh.In() <- Event{...}.  A full    *)
(* ring drops its oldest event.                                             *)
Notify(k) ==
    /\ unnotified[k] > 0
    /\ unnotified' = [unnotified EXCEPT ![k] = @ - 1]
    /\ updateCh' = Append(IF Len(updateCh) = RingSize THEN Tail(updateCh)
                          ELSE updateCh, k)
    /\ UNCHANGED <<cluster, hand, wq, stopping, clock, pc, local, applied>>

(* Queue.enqueue up to the call of queue.Add *)
NewElement(key, skippable) ==
    [Key |-> key, Timestamp |-> IF skippable THEN clock ELSE clock + Day]

(* onTemplateChange *)
TemplateChange(v) ==
    /\ changes < MaxChanges /\ v # tmpl
    /\ changes' = changes + 1
    /\ tmpl' = v
    /\ Add(NewElement("template-change", FALSE))
    /\ UNCHANGED <<store, changed, silent, events, delayed, shutDown, stopping,
                   clock, pc, local, applied>>

(* A GeoIP database changes. *)
FileChange ==
    /\ changes < MaxChanges
    /\ changes' = changes + 1
    /\ Add(NewElement("file-change", FALSE))
    /\ UNCHANGED <<store, tmpl, changed, silent, events, delayed, shutDown,
                   stopping, clock, pc, local, applied>>

-----------------------------------------------------------------------------
(* The loop of Start: it receives an event and builds its element ... *)
ReceiveEvent ==
    /\ hand = NoElement /\ updateCh # <<>>
    /\ updateCh' = Tail(updateCh)
    /\ hand' = IF stopping \/ shutDown THEN NoElement
               ELSE IF Head(updateCh) = "CONFIGURATION"
                    THEN NewElement("configmap-change", FALSE)
                    ELSE NewElement("object", TRUE)
    /\ UNCHANGED <<cluster, unnotified, wq, stopping, clock, pc, local, applied>>

(* ... and adds it to the queue. *)
EnqueueEvent ==
    /\ hand # NoElement
    /\ hand' = NoElement
    /\ Add(hand)
    /\ UNCHANGED <<cluster, unnotified, updateCh, delayed, shutDown, stopping,
                   clock, pc, local, applied>>

(* Stop sets the flag first; Queue.Shutdown runs in a goroutine of its own. *)
Stop ==
    /\ ~stopping
    /\ stopping' = TRUE
    /\ UNCHANGED <<cluster, events, wq, clock, pc, local, applied>>

Shutdown ==
    /\ stopping /\ ~shutDown
    /\ shutDown' = TRUE
    /\ delayed' = {}
    /\ UNCHANGED <<cluster, events, queue, dirty, stopping, clock, pc, local, applied>>

-----------------------------------------------------------------------------
(* The worker. *)

Get ==
    /\ pc = "get" /\ queue # <<>>
    /\ cur' = Head(queue)
    /\ queue' = Tail(queue)
    /\ dirty' = dirty \ {Head(queue)}
    /\ pc' = "got"
    /\ UNCHANGED <<cluster, events, delayed, shutDown, stopping, clock,
                   ts, idx, pcfg, attempts, applied>>

(* Mutant of Quit: workerDone is never closed. *)
QuitWithoutClose ==
    /\ pc = "get" /\ queue = <<>> /\ shutDown
    /\ UNCHANGED vars

Quit ==
    /\ pc = "get" /\ queue = <<>> /\ shutDown
    /\ pc' = "stopped"
    /\ UNCHANGED <<cluster, events, wq, stopping, clock, local, applied>>

(* Mutant of Skip: the element's age is compared with <= . *)
SkipSameAge ==
    /\ pc = "got" /\ lastSync >= cur.Timestamp
    /\ Done
    /\ UNCHANGED <<cluster, events, dirty, delayed, shutDown, stopping, clock,
                   applied>>

(* An element older than the last successful sync is skipped. *)
Skip ==
    /\ pc = "got" /\ lastSync > cur.Timestamp
    /\ Done
    /\ UNCHANGED <<cluster, events, dirty, delayed, shutDown, stopping, clock,
                   applied>>

StartSync ==
    /\ pc = "got" /\ ~(lastSync > cur.Timestamp)
    /\ ts' = clock
    /\ pc' = "check"
    /\ UNCHANGED <<cluster, events, wq, stopping, clock, cur, idx, pcfg,
                   attempts, applied>>

(* Mutant of SyncSucceeds: the time of the end of the sync is recorded. *)
SyncSucceedsLate ==
    /\ lastSync' = clock
    /\ Done
    /\ UNCHANGED <<dirty, delayed>>

(* t.sync returned nil: Forget, lastSync = ts, Done *)
SyncSucceeds ==
    /\ lastSync' = ts
    /\ Done
    /\ UNCHANGED <<dirty, delayed>>

(* Mutant of SyncFails: the element is dropped. *)
SyncFailsDropped ==
    /\ failures < MaxFailures
    /\ failures' = failures + 1
    /\ Done
    /\ UNCHANGED <<dirty, delayed, lastSync>>

(* t.sync returned an error: a new element is requeued with a delay. *)
SyncFails ==
    /\ failures < MaxFailures
    /\ failures' = failures + 1
    /\ delayed' = IF shutDown THEN delayed
                  ELSE delayed \cup {[Key |-> cur.Key, Timestamp |-> clock]}
    /\ Done
    /\ UNCHANGED <<dirty, lastSync>>

(* Mutant of CheckShutdown: the check is missing. *)
CheckNothing ==
    /\ pc = "check" /\ pc' = "read"
    /\ UNCHANGED <<cluster, events, wq, stopping, clock, local, applied>>

(* syncIngress returns nil at once when the queue is shutting down. *)
CheckShutdown ==
    /\ pc = "check"
    /\ \/ /\ shutDown
          /\ SyncSucceeds
       \/ /\ ~shutDown
          /\ pc' = "read"
          /\ UNCHANGED <<queue, dirty, delayed, local, lastSync>>
    /\ UNCHANGED <<cluster, events, shutDown, stopping, clock, running, nginx,
                   failures, partial>>

ReadPart ==
    /\ pc = "read"
    /\ pcfg' = [pcfg EXCEPT ![ReadOrder[idx]] = store[ReadOrder[idx]]]
    /\ IF idx < Len(ReadOrder)
       THEN idx' = idx + 1 /\ pc' = pc
       ELSE idx' = 1 /\ pc' = "compare"
    /\ UNCHANGED <<cluster, events, wq, stopping, clock, cur, ts, attempts, applied>>

(* Mutant of IsDynamicConfigurationEnough: the servers are not compared. *)
DynamicIgnoresServers == pcfg["config"] = running["config"]

IsDynamicConfigurationEnough ==
    \A p \in Parts \ DynamicParts : pcfg[p] = running[p]

(* Mutant of Compare: the configurations' dynamic parts are not compared. *)
CompareStatic ==
    /\ pc = "compare"
    /\ \/ /\ IsDynamicConfigurationEnough
          /\ SyncSucceeds
       \/ /\ ~IsDynamicConfigurationEnough
          /\ pc' = "reload" /\ attempts' = 0
          /\ UNCHANGED <<queue, dirty, delayed, cur, ts, idx, pcfg, lastSync>>
    /\ UNCHANGED <<cluster, events, shutDown, stopping, clock, running, nginx,
                   failures, partial>>

Compare ==
    /\ pc = "compare"
    /\ \/ /\ pcfg = running
          /\ SyncSucceeds
       \/ /\ pcfg # running
          /\ pc' = IF IsDynamicConfigurationEnough THEN "post" ELSE "reload"
          /\ attempts' = IF IsDynamicConfigurationEnough THEN 1 ELSE 0
          /\ UNCHANGED <<queue, dirty, delayed, cur, ts, idx, pcfg, lastSync>>
    /\ UNCHANGED <<cluster, events, shutDown, stopping, clock, running, nginx,
                   failures, partial>>

(* What OnUpdate writes: the static parts of pcfg, and the ConfigMap and   *)
(* the template as they are at that moment.                                *)
Rendered ==
    [conf |-> [p \in Parts |->
                  CASE p \in DynamicParts -> nginx.conf[p]
                    [] p = "config" -> store["config"]
                    [] OTHER -> pcfg[p]],
     tmpl |-> tmpl]

(* OnUpdate *)
Reload ==
    /\ pc = "reload"
    /\ \/ /\ nginx' = Rendered
          /\ pc' = "post" /\ attempts' = 1
          /\ UNCHANGED <<queue, dirty, delayed, cur, ts, idx, pcfg, lastSync,
                         failures>>
       \/ /\ SyncFails
          /\ UNCHANGED nginx
    /\ UNCHANGED <<cluster, events, shutDown, stopping, clock, running, partial>>

(* One request of configureDynamically succeeds; the last one ends the sync. *)
Post ==
    /\ pc = "post"
    /\ nginx' = [nginx EXCEPT !.conf[PostOrder[idx]] = pcfg[PostOrder[idx]]]
    /\ \/ /\ idx < Len(PostOrder)
          /\ idx' = idx + 1
          /\ UNCHANGED <<pc, queue, dirty, delayed, cur, ts, pcfg, attempts,
                         lastSync, running>>
       \/ /\ idx = Len(PostOrder)
          /\ running' = pcfg
          /\ SyncSucceeds
    /\ UNCHANGED <<cluster, events, shutDown, stopping, clock, failures, partial>>

(* A request fails, before or after Lua has stored its payload.  The       *)
(* condition passed to wait.ExponentialBackoff returns the error, and      *)
(* ExponentialBackoff returns as soon as its condition returns one.        *)
PostFails ==
    /\ pc = "post"
    /\ nginx' \in {nginx, [nginx EXCEPT !.conf[PostOrder[idx]] = pcfg[PostOrder[idx]]]}
    /\ SyncFails
    /\ partial' = (\/ partial
                   \/ ~IsDynamicConfigurationEnough
                   \/ idx > 1
                   \/ nginx' # nginx)
    /\ UNCHANGED <<cluster, events, shutDown, stopping, clock, running>>

-----------------------------------------------------------------------------

Worker ==
    \/ Get \/ Quit \/ Skip \/ StartSync \/ CheckShutdown \/ ReadPart
    \/ Compare \/ Reload \/ Post \/ PostFails

EventLoop == ReceiveEvent \/ EnqueueEvent

Next ==
    \/ Tick
    \/ \E s \in Sources, p \in Parts, v \in Values : Change(s, p, v)
    \/ \E v \in Values : TemplateChange(v)
    \/ FileChange
    \/ \E k \in EventKinds : Notify(k)
    \/ EventLoop
    \/ \E e \in delayed : DelayedReady(e)
    \/ Stop
    \/ Shutdown
    \/ Worker

Spec == Init /\ [][Next]_vars

(***************************************************************************)
(* The Go scheduler runs every goroutine that can run, and timers fire:    *)
(* weak fairness of the worker, the event loop, the informers' handlers,   *)
(* the delaying queue and, once Stop was called, of Queue.Shutdown.        *)
(* Nothing is assumed of the environment.                                  *)
(***************************************************************************)
Fairness ==
    /\ WF_vars(Worker)
    /\ WF_vars(EventLoop)
    /\ WF_vars(\E k \in EventKinds : Notify(k))
    /\ WF_vars(\E e \in delayed : DelayedReady(e))
    /\ WF_vars(Shutdown)

FairSpec == Spec /\ Fairness

-----------------------------------------------------------------------------
(* Correctness *)

Syncing == {"check", "read", "compare", "reload", "post"}

(* The sync in progress has not read part p yet. *)
Unread(p) ==
    \/ pc = "check"
    \/ pc = "read" /\ \E i \in idx .. Len(ReadOrder) : ReadOrder[i] = p

(* An event, or an element younger than the last change of p. *)
Signalled(p) ==
    \/ \E k \in EventKinds : unnotified[k] > 0
    \/ updateCh # <<>>
    \/ hand # NoElement /\ hand.Timestamp >= changed[p]
    \/ \E e \in dirty \cup delayed : e.Timestamp >= changed[p]
    \/ pc = "got" /\ cur.Timestamp >= changed[p]

(* ... or a sync that will read, or has read, the present content of p. *)
Pending(p) ==
    \/ Signalled(p)
    \/ pc \in Syncing /\ (Unread(p) \/ pcfg[p] = store[p])

(* No change is lost: as long as the controller is not being stopped, a    *)
(* part of the running configuration that differs from the store has       *)
(* something on its way that will make the worker read it again.  This is  *)
(* what the timestamps of queue.go are for: an element may be dropped only *)
(* when a sync that started after the element was made has succeeded.      *)
(* Changes of Services have no handler and are exempt.                     *)
NoLostUpdate ==
    ~stopping =>
        \A p \in Parts \ silent : running[p] # store[p] => Pending(p)

(* What is due is in the queue: an element that has to be processed waits  *)
(* for Get, or Done will put it back after the sync in progress.           *)
DueIsQueued ==
    /\ \A e \in dirty : e \in Range(queue) \/ Processing(e)
    /\ \A i, j \in DOMAIN queue : queue[i] = queue[j] => i = j

(* ... and nothing else is: what waits for Get is due and not in process.  *)
QueueFits ==
    DueIsQueued /\ \A e \in Range(queue) : e \in dirty /\ ~Processing(e)

(* When the worker is idle NGINX uses the configuration the controller     *)
(* believes it uses, unless some sync failed half way.  The ConfigMap is   *)
(* left out: OnUpdate reads it again, later than syncIngress.              *)
AppliedIsRunning ==
    pc = "get" /\ ~partial =>
        \A p \in Parts \ {"config"} : nginx.conf[p] = running[p]

(* What the sync in progress has brought to NGINX: all that a reload does, *)
(* or need not do, and the requests already sent.                          *)
Sent(p) ==
    pc = "post" /\ (p \notin DynamicParts \/ \E i \in 1 .. idx - 1 : PostOrder[i] = p)

(* The strengthening of AppliedIsRunning: while no sync has failed half    *)
(* way, a part of NGINX is the one of the model being applied or of the    *)
(* running configuration, as far as the sync has come.                     *)
NginxFits ==
    ~partial =>
        \A p \in Parts \ {"config"} :
            nginx.conf[p] = IF Sent(p) THEN pcfg[p] ELSE running[p]

(* A sync never installs a part that was already outdated when the sync    *)
(* began: the time recorded in lastSync is a lower bound on the age of the *)
(* running configuration.                                                  *)
RunningIsAsNewAsLastSync ==
    ~stopping => \A p \in Parts : lastSync > changed[p] => running[p] = store[p]

(* The clock readings are not in the future, Stop precedes ShutDown, and   *)
(* what a sync has read is current unless it changed since the sync began. *)
TimesPassed ==
    /\ lastSync <= clock /\ ts <= clock
    /\ \A p \in Parts : changed[p] <= clock

ReadIsFresh ==
    ~stopping /\ pc \in Syncing =>
        \A p \in Parts : changed[p] < ts /\ ~Unread(p) => pcfg[p] = store[p]

(* A part that changed after the sync in progress has read it will be read *)
(* once more: this sync is about to install an outdated content.           *)
StaleReadIsSignalled ==
    ~stopping /\ pc \in Syncing =>
        \A p \in Parts \ silent :
            ~Unread(p) /\ pcfg[p] # store[p] => Signalled(p)

(* The strengthening of NoLostUpdate that every step preserves. *)
IInv ==
    /\ TypeOK
    /\ TimesPassed
    /\ shutDown => stopping
    /\ ReadIsFresh
    /\ RunningIsAsNewAsLastSync
    /\ StaleReadIsSignalled
    /\ NoLostUpdate

(* The queue is shut down and no sync is past its check. *)
Settled == shutDown /\ pc \in {"get", "got", "check", "stopped"}

(* Stop: only the sync that was past its check may still touch NGINX; the  *)
(* elements left in the queue are drained, through Get, the comparison of  *)
(* times and sync, without reloading it or changing what the controller    *)
(* believes, so that the "quit" sent to NGINX is not followed by a reload. *)
NoSyncAfterShutdown ==
    [][Settled => Settled' /\ UNCHANGED <<nginx, running>>]_vars

(* The running configuration eventually equals the store (up to changes of *)
(* Services) once the cluster and the failures stop, or the controller is  *)
(* being stopped.                                                          *)
Converges ==
    <>[](stopping \/ \A p \in Parts \ silent : running[p] = store[p])

(* A shut down queue drains and its worker ends, so Queue.Shutdown returns. *)
ShutdownCompletes == shutDown ~> pc = "stopped"

-----------------------------------------------------------------------------
(* Claims of the documentation that the code does not keep *)

Idle ==
    /\ pc = "get" /\ queue = <<>> /\ delayed = {} /\ updateCh = <<>>
    /\ hand = NoElement /\ \A k \in EventKinds : unnotified[k] = 0

(* docs/how-it-works.md: "on every change, we have to rebuild a new model" *)
EveryChangeIsSynced == Idle /\ ~stopping => running = store

(* docs/how-it-works.md: the controller generates "a point in time         *)
(* configuration file that reflects the state of the cluster": an idle     *)
(* controller that believes to be in sync has an NGINX that is in sync.    *)
NginxReflectsCluster ==
    Idle /\ ~stopping /\ running = store => nginx.conf = store

(* nginx.go: "File %v changed. Reloading NGINX", "New NGINX configuration  *)
(* template loaded": an idle controller's NGINX uses the loaded template.  *)
TemplateIsApplied == Idle /\ ~stopping => nginx.tmpl = tmpl

(* controller.go: "For large configurations it might take a while so we    *)
(* loop and back off": a sync gives up on configureDynamically only after  *)
(* all the steps of the back off.                                          *)
RetriesBeforeGivingUp ==
    [][pc = "post" /\ failures' > failures => attempts = Steps]_vars

=============================================================================
