------------------------------ MODULE StatusSync ------------------------------
(***************************************************************************)
(* The status syncer of ingress-nginx (internal/ingress/status): replicas  *)
(* of the controller elect a leader, whose task queue writes the addresses *)
(* of the nodes they run on to the status of every Ingress, periodically,  *)
(* and a replica that stops removes them.                                  *)
(*                                                                         *)
(* Run has a value receiver, so the elector it creates is never in the     *)
(* statusSync whose sync method the queue calls, nor in the one of         *)
(* Shutdown: there "s.elector != nil" is false and neither asks whether    *)
(* the replica leads.  The flags --publish-service and                     *)
(* --publish-status-address are unset.                                     *)
(***************************************************************************)
EXTENDS Naturals, FiniteSets

CONSTANTS
  Replicas, Ingresses,
  Nodes, NodeOf,           \* the node each replica runs on
  UpdateStatusOnShutdown,  \* the flag of that name
  MaxTasks,                \* bound on the tasks that wait in a queue
  MaxLosses,               \* bound on the leases lost by a replica that runs
  MaxFailures,             \* bound on failing requests to the API server
  MaxExits,                \* bound on the replicas that stop or crash
  None

ASSUME NodeAssumption == NodeOf \in [Replicas -> Nodes]
ASSUME BoundAssumption ==
  MaxTasks \in Nat \ {0} /\ MaxLosses \in Nat /\ MaxFailures \in Nat /\ MaxExits \in Nat
ASSUME NameAssumption == None \notin Replicas /\ UpdateStatusOnShutdown \in BOOLEAN

(* OnStartedLeading starts one more worker of the queue in every term, and *)
(* a worker only ends when the queue is shut down.                         *)
Workers == 1 .. (MaxLosses + 1)

(* The goroutines of a replica that call updateStatus: the workers and the *)
(* one that runs Shutdown.                                                 *)
Stopper == 0
Threads == Workers \cup {Stopper}

VARIABLES
  pod,       \* the phase of each replica's pod
  lease,     \* who holds the election's ConfigMap, or None
  leading,   \* the replicas between OnStartedLeading and OnStoppedLeading
  tasks,     \* elements of syncQueue made by EnqueueTask
  retry,     \* the element requeued after an error: "none", "due", or
             \* "overtaken" by a sync that began after it was requeued
  begun,     \* workers whose sync began before that element was requeued
  run,       \* the place and the locals of each goroutine
  shutting,  \* replicas whose queue is shut down
  status,    \* the addresses in the status of each Ingress
  cached,    \* the same as the store of a replica holds it
  losses, failures, exits

requests == <<status, cached>>
queue    == <<tasks, retry, begun>>
vars     == <<pod, lease, leading, queue, run, shutting, requests, losses, failures, exits>>

Running == {r \in Replicas : pod[r] = "running"}

Thread(pc) == [pc |-> pc, addrs |-> {}, todo |-> {}]

NotStarted == [t \in Threads |-> Thread(IF t = Stopper THEN "up" ELSE "none")]

Init ==
  /\ pod = [r \in Replicas |-> "pending"]
  /\ lease = None /\ leading = {}
  /\ tasks = [r \in Replicas |-> 0] /\ retry = [r \in Replicas |-> "none"]
  /\ begun = [r \in Replicas |-> {}]
  /\ run = [r \in Replicas |-> NotStarted]
  /\ shutting = {}
  /\ status = [i \in Ingresses |-> {}]
  /\ cached = [r \in Replicas |-> [i \in Ingresses |-> {}]]
  /\ losses = 0 /\ failures = 0 /\ exits = 0

-----------------------------------------------------------------------------
(* The pods and the election. *)

Start(r) ==
  /\ pod[r] = "pending"
  /\ pod' = [pod EXCEPT ![r] = "running"]
  /\ cached' = [cached EXCEPT ![r] = status]
  /\ UNCHANGED <<lease, leading, queue, run, shutting, status, losses, failures, exits>>

(* What ends with the process. *)
Ends(r) ==
  /\ pod' = [pod EXCEPT ![r] = "gone"]
  /\ leading' = leading \ {r}
  /\ run' = [run EXCEPT ![r] = NotStarted]
  /\ tasks' = [tasks EXCEPT ![r] = 0] /\ retry' = [retry EXCEPT ![r] = "none"]
  /\ begun' = [begun EXCEPT ![r] = {}]
  /\ UNCHANGED <<lease, shutting, requests, losses, failures>>

Crash(r) ==
  /\ r \in Running /\ run[r][Stopper].pc = "up" /\ exits < MaxExits
  /\ exits' = exits + 1
  /\ Ends(r)

(* handleSigterm exits some time after Stop has returned. *)
Exit(r) ==
  /\ r \in Running /\ run[r][Stopper].pc = "done"
  /\ Ends(r) /\ UNCHANGED exits

NextWorker(r) == CHOOSE w \in Workers : run[r][w].pc = "none" /\ \A v \in 1 .. w - 1 : run[r][v].pc # "none"

(* Mutant: a replica leads without having got the lease. *)
AcquireHeld(r) ==
  /\ r \in Running \ leading
  /\ leading' = leading \cup {r}
  /\ run' = [run EXCEPT ![r][NextWorker(r)] = Thread("get")]
  /\ tasks' = [tasks EXCEPT ![r] =
                 IF r \in shutting \/ tasks[r] = MaxTasks THEN tasks[r] ELSE tasks[r] + 1]
  /\ UNCHANGED <<pod, lease, retry, begun, shutting, requests, losses, failures, exits>>

(* The lease is taken when nobody renews it; OnStartedLeading then starts  *)
(* a worker and enqueues a first task.                                     *)
Acquire(r) ==
  /\ r \in Running \ leading /\ lease \in {None, r}
  /\ lease' = r /\ leading' = leading \cup {r}
  /\ run' = [run EXCEPT ![r][NextWorker(r)] = Thread("get")]
  /\ tasks' = [tasks EXCEPT ![r] =
                 IF r \in shutting \/ tasks[r] = MaxTasks THEN tasks[r] ELSE tasks[r] + 1]
  /\ UNCHANGED <<pod, retry, begun, shutting, requests, losses, failures, exits>>

(* The lease is not renewed in time: OnStoppedLeading ends the polling.    *)
LoseLease(r) ==
  /\ r \in leading /\ losses < MaxLosses
  /\ leading' = leading \ {r} /\ losses' = losses + 1
  /\ UNCHANGED <<pod, lease, queue, run, shutting, requests, failures, exits>>

(* The deadline to renew is half the duration of the lease. *)
Expire ==
  /\ lease \notin leading \cup {None}
  /\ lease' = None
  /\ UNCHANGED <<pod, leading, queue, run, shutting, requests, losses, failures, exits>>

(* Mutant: only the first task of a term, no polling. *)
PollNever(r) == FALSE /\ UNCHANGED vars

(* wait.PollUntil enqueues a task every updateInterval. *)
Poll(r) ==
  /\ r \in leading \ shutting /\ tasks[r] < MaxTasks
  /\ tasks' = [tasks EXCEPT ![r] = @ + 1]
  /\ UNCHANGED <<pod, lease, leading, retry, begun, run, shutting, requests, losses, failures, exits>>

(* The informer of a replica that runs delivers the status of an Ingress. *)
Deliver(r, i) ==
  /\ r \in Running /\ run[r][Stopper].pc = "up" /\ cached[r][i] # status[i]
  /\ cached' = [cached EXCEPT ![r][i] = status[i]]
  /\ UNCHANGED <<pod, lease, leading, queue, run, shutting, status, losses, failures, exits>>

-----------------------------------------------------------------------------
(* The workers of the queue. *)

Go(r, t, pc) == run' = [run EXCEPT ![r][t].pc = pc]

(* Mutant: sync does not ask whether the queue is being shut down. *)
SyncAlways(r) == "addresses"

(* sync returns at once when the queue is being shut down. *)
SyncBegins(r) == IF r \in shutting THEN "get" ELSE "addresses"

Get(r, w) ==
  /\ run[r][w].pc = "get" /\ tasks[r] > 0
  /\ tasks' = [tasks EXCEPT ![r] = @ - 1]
  /\ begun' = [begun EXCEPT ![r] = @ \ {w}]
  /\ Go(r, w, SyncBegins(r))
  /\ UNCHANGED <<pod, lease, leading, retry, shutting, requests, losses, failures, exits>>

(* A task's timestamp is a day ahead, that of a requeued element is not:   *)
(* it is skipped once a later sync has succeeded.                          *)
GetRetry(r, w) ==
  /\ run[r][w].pc = "get" /\ retry[r] # "none"
  /\ retry' = [retry EXCEPT ![r] = "none"] /\ begun' = [begun EXCEPT ![r] = {}]
  /\ Go(r, w, IF retry[r] = "overtaken" THEN "get" ELSE SyncBegins(r))
  /\ UNCHANGED <<pod, lease, leading, tasks, shutting, requests, losses, failures, exits>>

Quit(r, w) ==
  /\ run[r][w].pc = "get" /\ r \in shutting /\ tasks[r] = 0 /\ retry[r] = "none"
  /\ Go(r, w, "quit")
  /\ UNCHANGED <<pod, lease, leading, queue, shutting, requests, losses, failures, exits>>

(* runningAddresses: the nodes of the running pods, each once. *)
RunningAddresses == {NodeOf[r] : r \in Running}

Addresses(r, w) ==
  /\ run[r][w].pc = "addresses"
  /\ run' = [run EXCEPT ![r][w] = [pc |-> "compare", addrs |-> RunningAddresses, todo |-> {}]]
  /\ UNCHANGED <<pod, lease, leading, queue, shutting, requests, losses, failures, exits>>

(* The pods cannot be listed: the element is requeued.  (Bound: one        *)
(* requeued element at a time.)                                            *)
AddressesFail(r, w) ==
  /\ run[r][w].pc = "addresses" /\ failures < MaxFailures /\ retry[r] = "none"
  /\ Go(r, w, "get") /\ failures' = failures + 1
  /\ IF r \in shutting THEN UNCHANGED queue
     ELSE /\ retry' = [retry EXCEPT ![r] = "due"]
          /\ begun' = [begun EXCEPT ![r] = {v \in Workers \ {w} : run[r][v].pc \in {"addresses", "compare", "update"}}]
          /\ UNCHANGED tasks
  /\ UNCHANGED <<pod, lease, leading, shutting, requests, losses, exits>>

(* The sync has succeeded, at the latest write of lastSync. *)
Succeed(r, w) ==
  /\ w \in Workers /\ run[r][w].pc = "update" /\ run[r][w].todo = {}
  /\ run' = [run EXCEPT ![r][w] = Thread("get")]
  /\ retry' = [retry EXCEPT ![r] =
                 IF @ = "none" THEN @ ELSE IF w \in begun[r] THEN "due" ELSE "overtaken"]
  /\ begun' = [begun EXCEPT ![r] = @ \ {w}]
  /\ UNCHANGED <<pod, lease, leading, tasks, shutting, requests, losses, failures, exits>>

-----------------------------------------------------------------------------
(* updateStatus compares with the store and updates, in parallel, every    *)
(* Ingress that differs; an update that fails is only logged.              *)

Compare(r, t) ==
  /\ run[r][t].pc = "compare"
  /\ run' = [run EXCEPT ![r][t] = [pc |-> "update", addrs |-> run[r][t].addrs,
                                    todo |-> {i \in Ingresses : cached[r][i] # run[r][t].addrs}]]
  /\ UNCHANGED <<pod, lease, leading, queue, shutting, requests, losses, failures, exits>>

Update(r, t, i) ==
  /\ run[r][t].pc = "update" /\ i \in run[r][t].todo
  /\ status' = [status EXCEPT ![i] = run[r][t].addrs]
  /\ run' = [run EXCEPT ![r][t].todo = @ \ {i}]
  /\ UNCHANGED <<pod, lease, leading, queue, shutting, cached, losses, failures, exits>>

UpdateFails(r, t, i) ==
  /\ run[r][t].pc = "update" /\ i \in run[r][t].todo /\ failures < MaxFailures
  /\ run' = [run EXCEPT ![r][t].todo = @ \ {i}]
  /\ failures' = failures + 1
  /\ UNCHANGED <<pod, lease, leading, queue, shutting, requests, losses, exits>>

-----------------------------------------------------------------------------
(* Shutdown: the queue is shut down by a goroutine of its own, while the   *)
(* addresses are removed unless another instance runs.                     *)

Shutdown(r) ==
  /\ r \in Running /\ run[r][Stopper].pc = "up" /\ exits < MaxExits
  /\ Go(r, Stopper, IF UpdateStatusOnShutdown THEN "alone" ELSE "done")
  /\ exits' = exits + 1
  /\ UNCHANGED <<pod, lease, leading, queue, shutting, requests, losses, failures>>

ShutdownQueue(r) ==
  /\ r \in Running \ shutting /\ run[r][Stopper].pc # "up"
  /\ shutting' = shutting \cup {r}
  /\ UNCHANGED <<pod, lease, leading, queue, run, requests, losses, failures, exits>>

(* Several addresses are left to the next leader ... *)
Alone(r) ==
  /\ run[r][Stopper].pc = "alone"
  /\ Go(r, Stopper, IF Cardinality(RunningAddresses) > 1 THEN "done" ELSE "pods")
  /\ UNCHANGED <<pod, lease, leading, queue, shutting, requests, losses, failures, exits>>

AloneFails(r) ==
  /\ run[r][Stopper].pc = "alone" /\ failures < MaxFailures
  /\ Go(r, Stopper, "done") /\ failures' = failures + 1
  /\ UNCHANGED <<pod, lease, leading, queue, shutting, requests, losses, exits>>

(* ... and so are several pods, running or not, on one node. *)
Pods(r) ==
  /\ run[r][Stopper].pc = "pods"
  /\ Go(r, Stopper, IF \E q \in Replicas \ {r} : pod[q] # "gone" THEN "done" ELSE "compare")
  /\ UNCHANGED <<pod, lease, leading, queue, shutting, requests, losses, failures, exits>>

(* isRunningMultiplePods answers false when the pods cannot be listed. *)
PodsFail(r) ==
  /\ run[r][Stopper].pc = "pods" /\ failures < MaxFailures
  /\ Go(r, Stopper, "compare") /\ failures' = failures + 1
  /\ UNCHANGED <<pod, lease, leading, queue, shutting, requests, losses, exits>>

Removed(r) ==
  /\ run[r][Stopper].pc = "update" /\ run[r][Stopper].todo = {}
  /\ Go(r, Stopper, "done")
  /\ UNCHANGED <<pod, lease, leading, queue, shutting, requests, losses, failures, exits>>

-----------------------------------------------------------------------------
UpdateStatus(r, t) ==
  \/ Compare(r, t)
  \/ \E i \in Ingresses : Update(r, t, i) \/ UpdateFails(r, t, i)

Work(r, w) ==
  \/ Get(r, w) \/ GetRetry(r, w) \/ Quit(r, w) \/ Addresses(r, w) \/ AddressesFail(r, w)
  \/ UpdateStatus(r, w) \/ Succeed(r, w)

Stopping(r) ==
  \/ Alone(r) \/ AloneFails(r) \/ Pods(r) \/ PodsFail(r)
  \/ UpdateStatus(r, Stopper) \/ Removed(r) \/ Exit(r)

Next ==
  \/ \E r \in Replicas :
       \/ Start(r) \/ Crash(r) \/ Acquire(r) \/ LoseLease(r) \/ Poll(r)
       \/ \E i \in Ingresses : Deliver(r, i)
       \/ \E w \in Workers : Work(r, w)
       \/ Shutdown(r) \/ ShutdownQueue(r) \/ Stopping(r)
  \/ Expire

Spec == Init /\ [][Next]_vars

(* Electors, timers, informers, a worker of each replica and the goroutine *)
(* that stops it keep running; pods need not start or stop, a lease need   *)
(* not be lost.                                                            *)
Fairness ==
  /\ WF_vars(Expire)
  /\ \A r \in Replicas :
       /\ WF_vars(Acquire(r) \/ Poll(r))
       /\ \A i \in Ingresses : WF_vars(Deliver(r, i))
       /\ WF_vars(\E w \in Workers : Work(r, w))
       /\ WF_vars(Stopping(r))

FairSpec == Spec /\ Fairness

-----------------------------------------------------------------------------
WorkerPlaces == {"none", "get", "addresses", "compare", "update", "quit"}
StopperPlaces == {"up", "alone", "pods", "compare", "update", "done"}
Goroutine == [pc : WorkerPlaces \cup StopperPlaces, addrs : SUBSET Nodes, todo : SUBSET Ingresses]

(* The state of the replicas, their goroutines and the Ingresses is within *)
(* what the code declares, and only the holder of the lease leads.         *)
TypeOK ==
  /\ pod \in [Replicas -> {"pending", "running", "gone"}]
  /\ lease \in Replicas \cup {None} /\ leading \subseteq Replicas \cap {lease}
  /\ tasks \in [Replicas -> 0 .. MaxTasks]
  /\ retry \in [Replicas -> {"none", "due", "overtaken"}]
  /\ begun \in [Replicas -> SUBSET Workers]
  /\ run \in [Replicas -> [Threads -> Goroutine]]
  /\ shutting \subseteq Replicas
  /\ status \in [Ingresses -> SUBSET Nodes]
  /\ cached \in [Replicas -> [Ingresses -> SUBSET Nodes]]
  /\ losses \in 0 .. MaxLosses /\ failures \in 0 .. MaxFailures /\ exits \in 0 .. MaxExits

(* Each replica has started its workers one after the other, in every term *)
(* one, so OnStartedLeading always finds another to start.                 *)
OneWorkerPerTerm ==
  \A r \in Replicas : \E k \in 0 .. MaxLosses + 1 :
    /\ \A w \in Workers : run[r][w].pc # "none" <=> w <= k
    /\ k <= losses \/ (r \in leading /\ k = losses + 1)

(* Every goroutine is at a place of its own code; the one of Shutdown only *)
(* removes addresses; and what is not running has none.                    *)
GoroutinesFit ==
  \A r \in Replicas :
    /\ \A w \in Workers : run[r][w].pc \in WorkerPlaces
    /\ run[r][Stopper].pc \in StopperPlaces /\ run[r][Stopper].addrs = {}
    /\ r \notin Running => run[r] = NotStarted

IInv == TypeOK /\ OneWorkerPerTerm /\ GoroutinesFit

(* Whatever was lost, dropped, compared with a stale store or removed by   *)
(* a replica that stopped, the periodic sync of a leader ends with the     *)
(* addresses of the running replicas in every status.                      *)
Converges ==
  <>[](Running # {} => \A i \in Ingresses : status[i] = RunningAddresses)

(* The queue of r is shut down and none of its workers is in a sync. *)
Drained(r) == r \in shutting /\ \A w \in Workers : run[r][w].pc \in {"none", "get", "quit"}

(* Shutdown: a replica whose queue was shut down and which has finished    *)
(* the syncs in progress begins no other, with the tasks left in the queue *)
(* or in a term won afterwards; and when all that run are in that state no *)
(* address comes back to a status from which it was removed.               *)
NoAddressReturns ==
  [][/\ \A r \in Replicas : Drained(r) => Drained(r)'
     /\ (\A r \in Running : Drained(r)) => \A i \in Ingresses : status'[i] \subseteq status[i]]_vars

(* "leader election is used so the update is executed only in one node"    *)
(* (status.go:84-85): no replica begins a sync while another one leads.    *)
OneNodeSyncs ==
  [][\A r \in Replicas, w \in Workers :
       run[r][w].pc = "get" /\ run'[r][w].pc = "addresses" => leading \subseteq {r}]_vars

(* "it will remove the current IP if there is no other instances running"  *)
(* (status.go:185-186): when the last replica has stopped in an orderly    *)
(* way and no request has failed, no address is left.                      *)
RemovedAtEnd ==
  (\A r \in Replicas : pod[r] = "gone") /\ shutting = Replicas /\ failures = 0 =>
    \A i \in Ingresses : status[i] = {}
=============================================================================
