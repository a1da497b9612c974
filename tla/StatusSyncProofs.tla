---------------------------- MODULE StatusSyncProofs ----------------------------
(***************************************************************************)
(* Proofs about StatusSync for every number of replicas, Ingresses, terms, *)
(* failures and exits: its types, that the goroutines of a replica are     *)
(* those its code starts, and that a drained queue writes nothing.         *)
(***************************************************************************)
EXTENDS StatusSync, TLAPS

(* A goroutine at a place of the code is a goroutine.                      *)
LEMMA PlacesAreGoroutines ==
  ASSUME NEW pc \in WorkerPlaces \cup StopperPlaces
  PROVE  Thread(pc) \in Goroutine /\ Thread(pc).pc = pc /\ Thread(pc).addrs = {}
  BY DEF Thread, Goroutine

(* The workers are numbered; the stopper is none of them.                  *)
LEMMA NumbersOfWorkers ==
  /\ MaxLosses \in Nat /\ Workers \subseteq Nat /\ Stopper \notin Workers
  /\ Threads = Workers \cup {Stopper}
  BY BoundAssumption DEF Workers, Stopper, Threads

(* A replica that has not started has no worker.                           *)
LEMMA NotStartedPlaces ==
  /\ NotStarted \in [Threads -> Goroutine] /\ NotStarted[Stopper] = Thread("up")
  /\ \A w \in Workers : NotStarted[w].pc = "none"
<1>1. NotStarted \in [Threads -> Goroutine]
  BY PlacesAreGoroutines DEF NotStarted, WorkerPlaces, StopperPlaces
<1>2. ASSUME NEW w \in Workers PROVE NotStarted[w].pc = "none"
  BY <1>2, NumbersOfWorkers DEF NotStarted, Thread
<1>3. NotStarted[Stopper] = Thread("up")
  BY NumbersOfWorkers DEF NotStarted
<1> QED
  BY <1>1, <1>2, <1>3

(* The invariant holds initially.                                          *)
LEMMA InitFits == Init => IInv
<1> SUFFICES ASSUME Init PROVE IInv
  OBVIOUS
<1>2. TypeOK
  BY NotStartedPlaces, BoundAssumption DEF Init, TypeOK
<1>5. \A r \in Replicas : run[r] = NotStarted
  BY DEF Init
<1>6. OneWorkerPerTerm
  <2> SUFFICES ASSUME NEW r \in Replicas
               PROVE  \E k \in 0 .. MaxLosses + 1 :
                        /\ \A w \in Workers : run[r][w].pc # "none" <=> w <= k
                        /\ k <= losses \/ (r \in leading /\ k = losses + 1)
    BY DEF OneWorkerPerTerm
  <2>1. 0 \in 0 .. MaxLosses + 1 /\ 0 <= losses
    BY NumbersOfWorkers DEF Init
  <2>2. \A w \in Workers : run[r][w].pc # "none" <=> w <= 0
    BY NotStartedPlaces, <1>5 DEF Workers
  <2> QED
    BY <2>1, <2>2
<1>7. GoroutinesFit
  BY NotStartedPlaces, <1>5 DEF GoroutinesFit, Thread, WorkerPlaces, StopperPlaces
<1> QED
  BY <1>2, <1>6, <1>7 DEF IInv

(* A goroutine of a running replica goes from one place of its code to     *)
(* another.                                                                *)
LEMMA GoroutineStep ==
  ASSUME IInv, NEW r \in Replicas, NEW t \in Threads, NEW g \in Goroutine,
         run' = [run EXCEPT ![r][t] = g],
         t = Stopper => g.pc \in StopperPlaces /\ g.addrs = {},
         t # Stopper => run[r][t].pc # "none" /\ g.pc \in WorkerPlaces \ {"none"},
         r \in Running, pod' = pod, leading' = leading, losses' = losses
  PROVE  run' \in [Replicas -> [Threads -> Goroutine]] /\ OneWorkerPerTerm' /\ GoroutinesFit'
<1>1. run \in [Replicas -> [Threads -> Goroutine]]
  BY DEF IInv, TypeOK
<1>2. run' \in [Replicas -> [Threads -> Goroutine]]
  BY <1>1
<1>3. \A q \in Replicas, u \in Threads : run'[q][u] = IF q = r /\ u = t THEN g ELSE run[q][u]
  BY <1>1
<1>4. \A q \in Replicas \ {r} : run'[q] = run[q]
  BY <1>1
<1>5. OneWorkerPerTerm'
  <2>1. \A q \in Replicas, w \in Workers : run'[q][w].pc # "none" <=> run[q][w].pc # "none"
    BY <1>3, NumbersOfWorkers
  <2> QED
    BY <2>1 DEF IInv, OneWorkerPerTerm
<1>6. GoroutinesFit'
  <2>1. Running' = Running
    BY DEF Running
  <2>2. \A q \in Replicas, w \in Workers : run'[q][w].pc \in WorkerPlaces
    BY <1>3, NumbersOfWorkers DEF IInv, GoroutinesFit
  <2>3. \A q \in Replicas : run'[q][Stopper].pc \in StopperPlaces /\ run'[q][Stopper].addrs = {}
    BY <1>3, NumbersOfWorkers DEF IInv, GoroutinesFit
  <2>4. \A q \in Replicas : q \notin Running => run'[q] = NotStarted
    BY <1>4 DEF IInv, GoroutinesFit
  <2> QED
    BY <2>1, <2>2, <2>3, <2>4 DEF GoroutinesFit
<1> QED
  BY <1>2, <1>5, <1>6

(* What happens elsewhere leaves the goroutines as they are.               *)
LEMMA GoroutinesStay ==
  ASSUME IInv, run' = run, pod' = pod, losses' = losses,
         \A r \in leading : r \in leading'
  PROVE  OneWorkerPerTerm' /\ GoroutinesFit'
<1>1. Running' = Running
  BY DEF Running
<1>2. GoroutinesFit'
  BY <1>1 DEF IInv, GoroutinesFit
<1>3. OneWorkerPerTerm'
  BY DEF IInv, OneWorkerPerTerm
<1> QED
  BY <1>2, <1>3

(* Only what runs has goroutines.                                          *)
LEMMA OnlyRunningStep ==
  ASSUME IInv, NEW r \in Replicas
  PROVE  /\ \A w \in Workers : run[r][w].pc # "none" => r \in Running
         /\ run[r][Stopper].pc # "up" => r \in Running
<1>1. ASSUME r \notin Running
      PROVE  (\A w \in Workers : run[r][w].pc = "none") /\ run[r][Stopper].pc = "up"
  BY <1>1, NotStartedPlaces DEF IInv, GoroutinesFit, Thread
<1> QED
  BY <1>1

(* The places where the goroutines of a replica may be.                    *)
LEMMA GoroutineHasPlace ==
  ASSUME IInv, NEW r \in Replicas
  PROVE  /\ \A t \in Threads : run[r][t] \in Goroutine
         /\ \A w \in Workers : run[r][w].pc \in WorkerPlaces /\ w \in Threads /\ w # Stopper
         /\ Stopper \in Threads /\ run[r][Stopper].pc \in StopperPlaces /\ run[r][Stopper].addrs = {}
  BY NumbersOfWorkers DEF IInv, TypeOK, GoroutinesFit

(* Go, for a worker and for the goroutine that stops.                      *)
LEMMA WorkerGoes ==
  ASSUME IInv, NEW r \in Replicas, NEW w \in Workers, NEW pc \in WorkerPlaces \ {"none"},
         run[r][w].pc # "none", Go(r, w, pc), pod' = pod, leading' = leading, losses' = losses
  PROVE  run' \in [Replicas -> [Threads -> Goroutine]] /\ OneWorkerPerTerm' /\ GoroutinesFit'
<1> DEFINE g == [run[r][w] EXCEPT !.pc = pc]
<1>1. g \in Goroutine /\ g.pc = pc
  BY GoroutineHasPlace DEF Goroutine
<1>2. run' = [run EXCEPT ![r][w] = g]
  BY DEF Go
<1> HIDE DEF g
<1> QED
  BY <1>1, <1>2, GoroutineStep, GoroutineHasPlace, OnlyRunningStep

(* A move of the goroutine that stops the replica leaves the workers       *)
(* alone.                                                                  *)
LEMMA StopperGoes ==
  ASSUME IInv, NEW r \in Running, NEW pc \in StopperPlaces,
         Go(r, Stopper, pc), pod' = pod, leading' = leading, losses' = losses
  PROVE  run' \in [Replicas -> [Threads -> Goroutine]] /\ OneWorkerPerTerm' /\ GoroutinesFit'
<1> DEFINE g == [run[r][Stopper] EXCEPT !.pc = pc]
<1>0. r \in Replicas
  BY DEF Running
<1>1. g \in Goroutine /\ g.pc = pc /\ g.addrs = {}
  BY <1>0, GoroutineHasPlace DEF Goroutine
<1>2. run' = [run EXCEPT ![r][Stopper] = g]
  BY DEF Go
<1> HIDE DEF g
<1> QED
  BY <1>0, <1>1, <1>2, GoroutineStep, GoroutineHasPlace

-----------------------------------------------------------------------------
(* The steps of the pods and the election.                                 *)

(* The end of a replica's process preserves the invariant.                 *)
LEMMA EndsStep ==
  ASSUME IInv, NEW r \in Replicas, Ends(r), exits' \in 0 .. MaxExits
  PROVE  IInv'
<1>1. \A q \in Replicas : run'[q] = IF q = r THEN NotStarted ELSE run[q]
  BY DEF Ends, IInv, TypeOK
<1>2. TypeOK'
  BY NotStartedPlaces, BoundAssumption DEF IInv, TypeOK, Ends, requests
<1>3. \A q \in Replicas : q \in Running' <=> q \in Running \ {r}
  BY DEF Ends, Running, IInv, TypeOK
<1>4. GoroutinesFit'
  BY <1>1, <1>3, NotStartedPlaces DEF IInv, GoroutinesFit, Thread, WorkerPlaces, StopperPlaces
<1>5. OneWorkerPerTerm'
  <2> SUFFICES ASSUME NEW q \in Replicas
               PROVE  \E k \in 0 .. MaxLosses + 1 :
                        /\ \A w \in Workers : run'[q][w].pc # "none" <=> w <= k
                        /\ k <= losses' \/ (q \in leading' /\ k = losses' + 1)
    BY DEF OneWorkerPerTerm
  <2>1. CASE q = r
    <3>1. \A w \in Workers : run'[q][w].pc # "none" <=> w <= 0
      BY <1>1, <2>1, NotStartedPlaces DEF Workers
    <3>2. 0 \in 0 .. MaxLosses + 1 /\ 0 <= losses'
      BY NumbersOfWorkers DEF Ends, IInv, TypeOK
    <3> QED
      BY <3>1, <3>2
  <2>2. CASE q # r
    BY <1>1, <2>2 DEF IInv, OneWorkerPerTerm, Ends
  <2> QED
    BY <2>1, <2>2
<1> QED
  BY <1>2, <1>4, <1>5 DEF IInv

(* The worker that OnStartedLeading starts is the next one.                *)
LEMMA NextWorkerExists ==
  ASSUME IInv, NEW r \in Replicas \ leading,
         NEW k \in 0 .. MaxLosses + 1, k <= losses,
         \A w \in Workers : run[r][w].pc # "none" <=> w <= k
  PROVE  NextWorker(r) = k + 1 /\ k + 1 \in Workers
<1> DEFINE P(w) == run[r][w].pc = "none" /\ \A v \in 1 .. w - 1 : run[r][v].pc # "none"
<1>1. k + 1 \in Workers
  BY NumbersOfWorkers DEF Workers, IInv, TypeOK
<1>2. P(k + 1)
  <2>1. \A v \in 1 .. (k + 1) - 1 : v \in Workers /\ v <= k
    BY <1>1, NumbersOfWorkers DEF Workers
  <2>2. ~(k + 1 <= k)
    OBVIOUS
  <2> QED
    BY <1>1, <2>1, <2>2
<1>3. ASSUME NEW w \in Workers, P(w) PROVE w = k + 1
  <2>1. w > k
    BY <1>3, NumbersOfWorkers
  <2>2. ~(k + 1 \in 1 .. w - 1)
    BY <1>1, <1>3, <2>1
  <2> QED
    BY <1>1, <2>1, <2>2, NumbersOfWorkers DEF Workers
<1> HIDE DEF P
<1>4. NextWorker(r) = CHOOSE w \in Workers : P(w)
  BY DEF NextWorker, P
<1> QED
  BY <1>1, <1>2, <1>3, <1>4

(* A replica that becomes the leader starts the worker of the new term.    *)
LEMMA AcquireStep ==
  ASSUME IInv, NEW r \in Replicas, Acquire(r)
  PROVE  IInv'
<1>1. r \in Running /\ r \notin leading
  BY DEF Acquire
<1>2. PICK k \in 0 .. MaxLosses + 1 :
        k <= losses /\ \A w \in Workers : run[r][w].pc # "none" <=> w <= k
  BY <1>1 DEF IInv, OneWorkerPerTerm
<1>3. NextWorker(r) = k + 1 /\ k + 1 \in Workers
  BY <1>1, <1>2, NextWorkerExists
<1>4. k + 1 \in Threads /\ k + 1 # Stopper
  BY <1>3, NumbersOfWorkers
<1>5. run' = [run EXCEPT ![r][k + 1] = Thread("get")]
  BY <1>3 DEF Acquire
<1>6. run \in [Replicas -> [Threads -> Goroutine]]
  BY DEF IInv, TypeOK
<1>7. Thread("get") \in Goroutine /\ Thread("get").pc = "get"
  BY PlacesAreGoroutines DEF WorkerPlaces
<1>8. \A q \in Replicas, t \in Threads :
        run'[q][t] = IF q = r /\ t = k + 1 THEN Thread("get") ELSE run[q][t]
  BY <1>4, <1>5, <1>6
<1>9. \A q \in Replicas \ {r} : run'[q] = run[q]
  BY <1>5, <1>6
<1>10. TypeOK'
  <2>1. run' \in [Replicas -> [Threads -> Goroutine]]
    BY <1>5, <1>6, <1>7
  <2>2. lease' \in Replicas \cup {None} /\ leading' \subseteq Replicas \cap {lease'}
    BY NameAssumption DEF Acquire, IInv, TypeOK
  <2>3. tasks' \in [Replicas -> 0 .. MaxTasks]
    <3>1. tasks \in [Replicas -> 0 .. MaxTasks] /\ MaxTasks \in Nat
      BY BoundAssumption DEF IInv, TypeOK
    <3>2. \/ tasks' = [tasks EXCEPT ![r] = tasks[r]]
          \/ tasks[r] # MaxTasks /\ tasks' = [tasks EXCEPT ![r] = tasks[r] + 1]
      BY DEF Acquire
    <3> QED
      BY <3>1, <3>2
  <2> QED
    BY <2>1, <2>2, <2>3 DEF Acquire, IInv, TypeOK, requests
<1>11. GoroutinesFit'
  <2>1. Running' = Running
    BY DEF Running, Acquire
  <2>2. \A q \in Replicas, w \in Workers : run'[q][w].pc \in WorkerPlaces
    BY <1>7, <1>8, NumbersOfWorkers DEF IInv, GoroutinesFit, WorkerPlaces
  <2>3. \A q \in Replicas : run'[q][Stopper] = run[q][Stopper]
    BY <1>4, <1>8, NumbersOfWorkers
  <2> QED
    BY <1>1, <1>9, <2>1, <2>2, <2>3 DEF IInv, GoroutinesFit
<1>12. OneWorkerPerTerm'
  <2> SUFFICES ASSUME NEW q \in Replicas
               PROVE  \E j \in 0 .. MaxLosses + 1 :
                        /\ \A w \in Workers : run'[q][w].pc # "none" <=> w <= j
                        /\ j <= losses' \/ (q \in leading' /\ j = losses' + 1)
    BY DEF OneWorkerPerTerm
  <2>1. losses' = losses /\ leading' = leading \cup {r} /\ losses \in 0 .. MaxLosses
    BY DEF Acquire, IInv, TypeOK
  <2>2. CASE q = r
    <3>1. \A w \in Workers : run'[q][w].pc # "none" <=> w = k + 1 \/ w <= k
      BY <1>2, <1>7, <1>8, <2>2, NumbersOfWorkers
    <3>2. \A w \in Workers : w = k + 1 \/ w <= k <=> w <= k + 1
      BY <1>2, NumbersOfWorkers
    <3>3. k + 1 \in 0 .. MaxLosses + 1
      BY <1>2, <2>1, NumbersOfWorkers
    <3>4. k + 1 <= losses' \/ (q \in leading' /\ k + 1 = losses' + 1)
      BY <1>2, <2>1, <2>2
    <3> QED
      BY <3>1, <3>2, <3>3, <3>4
  <2>3. CASE q # r
    BY <1>9, <2>1, <2>3 DEF IInv, OneWorkerPerTerm
  <2> QED
    BY <2>2, <2>3
<1> QED
  BY <1>10, <1>11, <1>12 DEF IInv

(* A replica that loses its lease stops the worker of the term.            *)
LEMMA LoseLeaseStep ==
  ASSUME IInv, NEW r \in Replicas, LoseLease(r)
  PROVE  IInv'
<1>1. TypeOK'
  BY BoundAssumption DEF LoseLease, IInv, TypeOK, queue, requests
<1>2. GoroutinesFit'
  <2>1. Running' = Running
    BY DEF Running, LoseLease
  <2> QED
    BY <2>1 DEF IInv, GoroutinesFit, LoseLease
<1>3. OneWorkerPerTerm'
  <2>1. losses \in Nat /\ losses' = losses + 1 /\ run' = run
    BY NumbersOfWorkers DEF LoseLease, IInv, TypeOK
  <2>2. ASSUME NEW k \in 0 .. MaxLosses + 1, k <= losses \/ k = losses + 1
        PROVE  k <= losses'
    BY <2>1, <2>2, NumbersOfWorkers
  <2> QED
    BY <2>1, <2>2 DEF IInv, OneWorkerPerTerm
<1> QED
  BY <1>1, <1>2, <1>3 DEF IInv

(* The start of a replica preserves the invariant.                         *)
LEMMA StartStep ==
  ASSUME IInv, NEW r \in Replicas, Start(r)
  PROVE  IInv'
<1>1. TypeOK'
  BY DEF Start, IInv, TypeOK, queue
<1>2. GoroutinesFit'
  <2>1. \A q \in Replicas : q \in Running => q \in Running'
    BY DEF Running, Start, IInv, TypeOK
  <2> QED
    BY <2>1 DEF IInv, GoroutinesFit, Start
<1>3. OneWorkerPerTerm'
  BY DEF IInv, OneWorkerPerTerm, Start
<1> QED
  BY <1>1, <1>2, <1>3 DEF IInv

(* Steps that touch no goroutine preserve the invariant.                   *)
LEMMA OtherStep ==
  ASSUME IInv, NEW r \in Replicas,
         Expire \/ Poll(r) \/ (\E i \in Ingresses : Deliver(r, i)) \/ ShutdownQueue(r)
  PROVE  IInv'
<1>1. run' = run /\ pod' = pod /\ losses' = losses /\ leading' = leading
  BY DEF Expire, Poll, Deliver, ShutdownQueue
<1>2. OneWorkerPerTerm' /\ GoroutinesFit'
  BY <1>1, GoroutinesStay
<1>3. TypeOK'
  <2>1. CASE Expire
    BY <2>1 DEF Expire, IInv, TypeOK, queue, requests
  <2>2. CASE Poll(r)
    BY <2>2, BoundAssumption DEF Poll, IInv, TypeOK, requests
  <2>3. CASE \E i \in Ingresses : Deliver(r, i)
    BY <2>3 DEF Deliver, IInv, TypeOK, queue
  <2>4. CASE ShutdownQueue(r)
    BY <2>4 DEF ShutdownQueue, IInv, TypeOK, queue, requests
  <2> QED
    BY <2>1, <2>2, <2>3, <2>4
<1> QED
  BY <1>2, <1>3 DEF IInv

-----------------------------------------------------------------------------
(* The steps of the workers and of Shutdown.                               *)

(* What a step of a goroutine leaves to show.                              *)
LEMMA RestOfTypes ==
  ASSUME IInv, run' \in [Replicas -> [Threads -> Goroutine]],
         OneWorkerPerTerm', GoroutinesFit',
         UNCHANGED <<pod, lease, leading, shutting, cached, losses>>,
         tasks' \in [Replicas -> 0 .. MaxTasks],
         retry' \in [Replicas -> {"none", "due", "overtaken"}],
         begun' \in [Replicas -> SUBSET Workers],
         status' \in [Ingresses -> SUBSET Nodes],
         failures' \in 0 .. MaxFailures, exits' \in 0 .. MaxExits
  PROVE  IInv'
  BY DEF IInv, TypeOK

(* A goroutine with another list of things to do.                          *)
LEMMA OtherTodo ==
  ASSUME NEW g \in Goroutine, NEW todo
  PROVE  [g EXCEPT !.todo = todo] = [pc |-> g.pc, addrs |-> g.addrs, todo |-> todo]
  BY DEF Goroutine

(* A step of a worker preserves the invariant.                             *)
LEMMA WorkStep ==
  ASSUME IInv, NEW r \in Replicas, NEW w \in Workers,
         Get(r, w) \/ GetRetry(r, w) \/ Quit(r, w) \/ Addresses(r, w) \/ AddressesFail(r, w) \/ Succeed(r, w)
  PROVE  IInv'
<1>0. /\ tasks \in [Replicas -> 0 .. MaxTasks] /\ MaxTasks \in Nat
      /\ retry \in [Replicas -> {"none", "due", "overtaken"}]
      /\ begun \in [Replicas -> SUBSET Workers]
      /\ status \in [Ingresses -> SUBSET Nodes]
      /\ failures \in 0 .. MaxFailures /\ exits \in 0 .. MaxExits /\ MaxFailures \in Nat
  BY BoundAssumption DEF IInv, TypeOK
<1>1. /\ "get" \in WorkerPlaces \ {"none"} /\ "quit" \in WorkerPlaces \ {"none"}
      /\ "addresses" \in WorkerPlaces \ {"none"} /\ SyncBegins(r) \in WorkerPlaces \ {"none"}
  BY DEF WorkerPlaces, SyncBegins
<1>2. CASE Get(r, w)
  <2>1. run' \in [Replicas -> [Threads -> Goroutine]] /\ OneWorkerPerTerm' /\ GoroutinesFit'
    BY <1>1, <1>2, WorkerGoes DEF Get
  <2>2. tasks' \in [Replicas -> 0 .. MaxTasks] /\ begun' \in [Replicas -> SUBSET Workers]
    BY <1>0, <1>2 DEF Get
  <2> QED
    BY <1>0, <1>2, <2>1, <2>2, RestOfTypes DEF Get, requests
<1>3. CASE GetRetry(r, w)
  <2>1. run' \in [Replicas -> [Threads -> Goroutine]] /\ OneWorkerPerTerm' /\ GoroutinesFit'
    BY <1>1, <1>3, WorkerGoes DEF GetRetry
  <2>2. retry' \in [Replicas -> {"none", "due", "overtaken"}] /\ begun' \in [Replicas -> SUBSET Workers]
    BY <1>0, <1>3 DEF GetRetry
  <2> QED
    BY <1>0, <1>3, <2>1, <2>2, RestOfTypes DEF GetRetry, requests
<1>4. CASE Quit(r, w)
  <2>1. run' \in [Replicas -> [Threads -> Goroutine]] /\ OneWorkerPerTerm' /\ GoroutinesFit'
    BY <1>1, <1>4, WorkerGoes DEF Quit
  <2> QED
    BY <1>0, <1>4, <2>1, RestOfTypes DEF Quit, requests, queue
<1>5. CASE Addresses(r, w)
  <2> DEFINE g == [pc |-> "compare", addrs |-> RunningAddresses, todo |-> {}]
  <2>1. g \in Goroutine /\ g.pc \in WorkerPlaces \ {"none"}
    BY NodeAssumption, GoroutineHasPlace DEF Goroutine, WorkerPlaces, RunningAddresses, Running
  <2>2. run' = [run EXCEPT ![r][w] = g]
    BY <1>5 DEF Addresses
  <2> HIDE DEF g
  <2>3. run' \in [Replicas -> [Threads -> Goroutine]] /\ OneWorkerPerTerm' /\ GoroutinesFit'
    <3>1. r \in Running /\ w \in Threads /\ w # Stopper /\ run[r][w].pc # "none"
      BY <1>5, GoroutineHasPlace, OnlyRunningStep DEF Addresses
    <3>2. pod' = pod /\ leading' = leading /\ losses' = losses
      BY <1>5 DEF Addresses
    <3> QED
      BY <2>1, <2>2, <3>1, <3>2, GoroutineStep
  <2> QED
    BY <1>0, <1>5, <2>3, RestOfTypes DEF Addresses, requests, queue
<1>6. CASE AddressesFail(r, w)
  <2>1. run' \in [Replicas -> [Threads -> Goroutine]] /\ OneWorkerPerTerm' /\ GoroutinesFit'
    BY <1>1, <1>6, WorkerGoes DEF AddressesFail
  <2>2. /\ retry' \in [Replicas -> {"none", "due", "overtaken"}]
        /\ begun' \in [Replicas -> SUBSET Workers] /\ tasks' = tasks
    BY <1>0, <1>6 DEF AddressesFail, queue
  <2>3. failures' \in 0 .. MaxFailures
    BY <1>0, <1>6 DEF AddressesFail
  <2> QED
    BY <1>0, <1>6, <2>1, <2>2, <2>3, RestOfTypes DEF AddressesFail, requests
<1>7. CASE Succeed(r, w)
  <2>1. Thread("get") \in Goroutine /\ Thread("get").pc = "get"
    BY <1>1, PlacesAreGoroutines
  <2>2. run' \in [Replicas -> [Threads -> Goroutine]] /\ OneWorkerPerTerm' /\ GoroutinesFit'
    BY <1>1, <1>7, <2>1, GoroutineStep, GoroutineHasPlace, OnlyRunningStep DEF Succeed
  <2>3. retry' \in [Replicas -> {"none", "due", "overtaken"}] /\ begun' \in [Replicas -> SUBSET Workers]
    BY <1>0, <1>7 DEF Succeed
  <2> QED
    BY <1>0, <1>7, <2>2, <2>3, RestOfTypes DEF Succeed, requests
<1> QED
  BY <1>2, <1>3, <1>4, <1>5, <1>6, <1>7

(* What updateStatus writes is what the goroutine has decided to write.    *)
LEMMA UpdateStatusStep ==
  ASSUME IInv, NEW r \in Replicas, NEW t \in Threads, UpdateStatus(r, t)
  PROVE  IInv'
<1>0. /\ run[r][t] \in Goroutine /\ status \in [Ingresses -> SUBSET Nodes]
      /\ failures \in 0 .. MaxFailures /\ MaxFailures \in Nat
  BY BoundAssumption DEF IInv, TypeOK
<1>1. /\ run[r][t].pc \in {"compare", "update"}
      /\ \E todo \in SUBSET Ingresses : \E pc \in {"compare", "update"} :
           run' = [run EXCEPT ![r][t] = [pc |-> pc, addrs |-> run[r][t].addrs, todo |-> todo]]
  <2> DEFINE Goes(pc, todo) == run' = [run EXCEPT ![r][t] = [pc |-> pc, addrs |-> run[r][t].addrs, todo |-> todo]]
  <2>0. run[r][t].todo \subseteq Ingresses
    BY <1>0 DEF Goroutine
  <2>1. CASE Compare(r, t)
    <3>1. Goes("update", {i \in Ingresses : cached[r][i] # run[r][t].addrs}) /\ run[r][t].pc = "compare"
      BY <2>1 DEF Compare
    <3> QED
      BY <3>1
  <2>2. ASSUME NEW i \in Ingresses, Update(r, t, i) \/ UpdateFails(r, t, i)
        PROVE  run[r][t].pc = "update" /\ \E todo \in SUBSET Ingresses : Goes("update", todo)
    <3>1. run[r][t].pc = "update"
          /\ run' = [run EXCEPT ![r][t] = [run[r][t] EXCEPT !.todo = run[r][t].todo \ {i}]]
      BY <2>2 DEF Update, UpdateFails
    <3>2. [run[r][t] EXCEPT !.todo = run[r][t].todo \ {i}]
            = [pc |-> "update", addrs |-> run[r][t].addrs, todo |-> run[r][t].todo \ {i}]
      BY <1>0, <3>1, OtherTodo
    <3>3. Goes("update", run[r][t].todo \ {i})
      BY <3>1, <3>2
    <3> QED
      BY <2>0, <3>1, <3>3
  <2> QED
    BY <2>1, <2>2 DEF UpdateStatus
<1>2. PICK todo \in SUBSET Ingresses : \E pc \in {"compare", "update"} :
           run' = [run EXCEPT ![r][t] = [pc |-> pc, addrs |-> run[r][t].addrs, todo |-> todo]]
  BY <1>1
<1>3. PICK pc \in {"compare", "update"} :
           run' = [run EXCEPT ![r][t] = [pc |-> pc, addrs |-> run[r][t].addrs, todo |-> todo]]
  BY <1>2
<1> DEFINE g == [pc |-> pc, addrs |-> run[r][t].addrs, todo |-> todo]
<1>4. g \in Goroutine /\ g.pc \in WorkerPlaces \ {"none"} /\ g.pc \in StopperPlaces
      /\ (t = Stopper => g.addrs = {})
  BY <1>0, GoroutineHasPlace DEF Goroutine, WorkerPlaces, StopperPlaces
<1>5. run[r][t].pc # "none" /\ run[r][t].pc # "up"
  BY <1>1
<1>6. r \in Running
  BY <1>5, OnlyRunningStep, NumbersOfWorkers
<1>7. UNCHANGED <<pod, lease, leading, queue, shutting, cached, losses, exits>>
  BY DEF UpdateStatus, Compare, Update, UpdateFails, requests
<1>8. run' = [run EXCEPT ![r][t] = g]
  BY <1>3
<1> HIDE DEF g
<1>9. run' \in [Replicas -> [Threads -> Goroutine]] /\ OneWorkerPerTerm' /\ GoroutinesFit'
  BY <1>4, <1>5, <1>6, <1>7, <1>8, GoroutineStep
<1>10. status' \in [Ingresses -> SUBSET Nodes] /\ failures' \in 0 .. MaxFailures
  BY <1>0 DEF UpdateStatus, Compare, Update, UpdateFails, requests, Goroutine
<1> QED
  BY <1>7, <1>9, <1>10, RestOfTypes DEF queue, IInv, TypeOK

(* A step of the goroutine that stops the replica preserves the invariant. *)
LEMMA StopperStep ==
  ASSUME IInv, NEW r \in Replicas,
         Shutdown(r) \/ Alone(r) \/ AloneFails(r) \/ Pods(r) \/ PodsFail(r) \/ Removed(r)
  PROVE  IInv'
<1>0. /\ failures \in 0 .. MaxFailures /\ exits \in 0 .. MaxExits
      /\ MaxFailures \in Nat /\ MaxExits \in Nat
  BY BoundAssumption DEF IInv, TypeOK
<1>1. \E pc \in StopperPlaces : Go(r, Stopper, pc)
  BY DEF Shutdown, Alone, AloneFails, Pods, PodsFail, Removed, StopperPlaces
<1>2. UNCHANGED <<pod, lease, leading, queue, shutting, requests, losses>>
  BY DEF Shutdown, Alone, AloneFails, Pods, PodsFail, Removed
<1>3. r \in Running
  BY OnlyRunningStep DEF Shutdown, Alone, AloneFails, Pods, PodsFail, Removed
<1>4. run' \in [Replicas -> [Threads -> Goroutine]] /\ OneWorkerPerTerm' /\ GoroutinesFit'
  BY <1>1, <1>2, <1>3, StopperGoes
<1>5. failures' \in 0 .. MaxFailures /\ exits' \in 0 .. MaxExits
  BY <1>0 DEF Shutdown, Alone, AloneFails, Pods, PodsFail, Removed
<1> QED
  BY <1>2, <1>4, <1>5, RestOfTypes DEF queue, requests, IInv, TypeOK

-----------------------------------------------------------------------------
(* Every step preserves the invariant.                                     *)
LEMMA IInvStep == IInv /\ [Next]_vars => IInv'
<1> SUFFICES ASSUME IInv, [Next]_vars PROVE IInv'
  OBVIOUS
<1>1. CASE UNCHANGED vars
  <2>1. TypeOK'
    BY <1>1 DEF vars, queue, requests, IInv, TypeOK
  <2> QED
    BY <1>1, <2>1, GoroutinesStay DEF vars, IInv
<1>2. ASSUME NEW r \in Replicas, Start(r) PROVE IInv'
  BY <1>2, StartStep
<1>3. ASSUME NEW r \in Replicas, Crash(r) PROVE IInv'
  <2>1. exits' \in 0 .. MaxExits
    BY <1>3, BoundAssumption DEF Crash, IInv, TypeOK
  <2> QED
    BY <1>3, <2>1, EndsStep DEF Crash
<1>4. ASSUME NEW r \in Replicas, Exit(r) PROVE IInv'
  <2>1. exits' \in 0 .. MaxExits
    BY <1>4 DEF Exit, IInv, TypeOK
  <2> QED
    BY <1>4, <2>1, EndsStep DEF Exit
<1>5. ASSUME NEW r \in Replicas, Acquire(r) PROVE IInv'
  BY <1>5, AcquireStep
<1>6. ASSUME NEW r \in Replicas, LoseLease(r) PROVE IInv'
  BY <1>6, LoseLeaseStep
<1>7. ASSUME NEW r \in Replicas, Poll(r) \/ (\E i \in Ingresses : Deliver(r, i)) \/ ShutdownQueue(r) PROVE IInv'
  BY <1>7, OtherStep
<1>8. ASSUME NEW r \in Replicas, NEW w \in Workers, Work(r, w) PROVE IInv'
  BY <1>8, WorkStep, UpdateStatusStep, NumbersOfWorkers DEF Work
<1>9. ASSUME NEW r \in Replicas, Shutdown(r) \/ Stopping(r) PROVE IInv'
  BY <1>4, <1>9, StopperStep, UpdateStatusStep, NumbersOfWorkers DEF Stopping
<1>10. CASE Expire
  <2>1. lease' = None /\ leading' = leading /\ run' = run /\ pod' = pod /\ losses' = losses
    BY <1>10 DEF Expire
  <2>2. TypeOK'
    BY <1>10 DEF Expire, IInv, TypeOK, queue, requests
  <2> QED
    BY <2>1, <2>2, GoroutinesStay DEF IInv
<1> QED
  BY <1>1, <1>2, <1>3, <1>5, <1>6, <1>7, <1>8, <1>9, <1>10 DEF Next

(* The inductive invariant: a replica has one worker for every term it has *)
(* led, each goroutine is at a place of its own code, and only what runs   *)
(* has goroutines.                                                         *)
THEOREM InvCorrect == Spec => []IInv
<1> QED
  BY InitFits, IInvStep, PTL DEF Spec

(* The variables have their types, in whatever terms and failures.         *)
THEOREM TypeCorrect == Spec => []TypeOK
<1>1. IInv => TypeOK
  BY DEF IInv
<1> QED
  BY <1>1, InvCorrect, PTL

(* Two terms of one replica never share a worker: OnStartedLeading starts  *)
(* one that has not been started, in every term there can be.              *)
THEOREM WorkersCorrect == Spec => []OneWorkerPerTerm
<1>1. IInv => OneWorkerPerTerm
  BY DEF IInv
<1> QED
  BY <1>1, InvCorrect, PTL

-----------------------------------------------------------------------------
(* What a drained queue does not do.                                       *)

(* A queue that is shut down and drained stays so, for its workers return  *)
(* to the queue at once.                                                   *)
LEMMA DrainedStays ==
  ASSUME IInv, [Next]_vars, NEW r \in Replicas, Drained(r)
  PROVE  Drained(r)'
<1> DEFINE Quiet == {"none", "get", "quit"}
<1>1. r \in shutting /\ \A w \in Workers : run[r][w].pc \in Quiet
  BY DEF Drained
<1>2. shutting \subseteq shutting'
  BY DEF Next, vars, Start, Crash, Ends, Acquire, LoseLease, Poll, Deliver, Work, Get, GetRetry, Quit,
         Addresses, AddressesFail, UpdateStatus, Compare, Update, UpdateFails, Succeed, Shutdown,
         ShutdownQueue, Stopping, Alone, AloneFails, Pods, PodsFail, Removed, Exit, Expire
<1>3. run \in [Replicas -> [Threads -> Goroutine]]
  BY DEF IInv, TypeOK
<1> SUFFICES ASSUME NEW v \in Workers PROVE run'[r][v].pc \in Quiet
  BY <1>1, <1>2 DEF Drained
<1>4. v \in Threads /\ v # Stopper
  BY NumbersOfWorkers
<1>5. ASSUME run' = run PROVE run'[r][v].pc \in Quiet
  BY <1>1, <1>5
<1>6. ASSUME NEW q \in Replicas, Ends(q) PROVE run'[r][v].pc \in Quiet
  BY <1>1, <1>3, <1>6, NotStartedPlaces DEF Ends
<1>7. ASSUME NEW q \in Replicas, Acquire(q) PROVE run'[r][v].pc \in Quiet
  <2>1. run' = [run EXCEPT ![q][NextWorker(q)] = Thread("get")]
    BY <1>7 DEF Acquire
  <2>2. run'[r][v] = run[r][v] \/ run'[r][v] = Thread("get")
    BY <1>3, <1>4, <2>1
  <2> QED
    BY <1>1, <2>2 DEF Thread
<1>8. ASSUME NEW q \in Replicas, NEW w \in Workers, Work(q, w) PROVE run'[r][v].pc \in Quiet
  <2>0. w \in Threads
    BY NumbersOfWorkers
  <2>1. CASE q = r /\ w = v
    <3>1. CASE Get(q, w) \/ GetRetry(q, w)
      <4>1. SyncBegins(q) = "get"
        BY <1>1, <2>1 DEF SyncBegins
      <4>2. Go(q, w, "get")
        BY <3>1, <4>1 DEF Get, GetRetry
      <4> QED
        BY <1>3, <1>4, <2>1, <4>2 DEF Go, Goroutine
    <3>2. CASE Quit(q, w)
      BY <1>3, <1>4, <2>1, <3>2 DEF Quit, Go, Goroutine
    <3>3. CASE Addresses(q, w) \/ AddressesFail(q, w) \/ UpdateStatus(q, w) \/ Succeed(q, w)
      BY <1>1, <2>1, <3>3 DEF Addresses, AddressesFail, UpdateStatus, Compare, Update, UpdateFails, Succeed
    <3> QED
      BY <1>8, <3>1, <3>2, <3>3 DEF Work
  <2>2. CASE ~(q = r /\ w = v)
    <3>1. run'[r][v] = run[r][v]
      BY <1>3, <1>4, <1>8, <2>0, <2>2
        DEF Work, Get, GetRetry, Quit, Addresses, AddressesFail, UpdateStatus, Compare, Update, UpdateFails, Succeed, Go
    <3> QED
      BY <1>1, <3>1
  <2> QED
    BY <2>1, <2>2
<1>9. ASSUME NEW q \in Replicas, Shutdown(q) \/ (Stopping(q) /\ ~Exit(q)) PROVE run'[r][v].pc \in Quiet
  <2>1. run'[r][v] = run[r][v]
    BY <1>3, <1>4, <1>9, NumbersOfWorkers
      DEF Shutdown, Stopping, Alone, AloneFails, Pods, PodsFail, Removed, UpdateStatus, Compare, Update, UpdateFails, Go
  <2> QED
    BY <1>1, <2>1
<1>10. ASSUME NEW q \in Replicas,
              Start(q) \/ LoseLease(q) \/ Poll(q) \/ (\E i \in Ingresses : Deliver(q, i)) \/ ShutdownQueue(q)
       PROVE run' = run
  BY <1>10 DEF Start, LoseLease, Poll, Deliver, ShutdownQueue
<1>11. CASE Expire \/ UNCHANGED vars
  BY <1>5, <1>11 DEF Expire, vars
<1> QED
  BY <1>5, <1>6, <1>7, <1>8, <1>9, <1>10, <1>11 DEF Next, Crash, Exit

(* When every queue is drained only Shutdown writes, and it removes.       *)
LEMMA OnlyRemovals ==
  ASSUME IInv, [Next]_vars, \A r \in Running : Drained(r), NEW i \in Ingresses
  PROVE  status'[i] \subseteq status[i]
<1>1. ASSUME NEW r \in Replicas, NEW t \in Threads, NEW j \in Ingresses, Update(r, t, j)
      PROVE  run[r][t].addrs = {}
  <2>1. run[r][t].pc = "update"
    BY <1>1 DEF Update
  <2>2. CASE t = Stopper
    BY <2>2, GoroutineHasPlace
  <2>3. CASE t # Stopper
    <3>1. t \in Workers
      BY <2>3, NumbersOfWorkers
    <3>2. r \in Running
      BY <2>1, <3>1, OnlyRunningStep
    <3> QED
      BY <2>1, <3>1, <3>2 DEF Drained
  <2> QED
    BY <2>2, <2>3
<1>2. ASSUME NEW r \in Replicas, NEW t \in Threads, NEW j \in Ingresses, Update(r, t, j)
      PROVE  status'[i] \subseteq status[i]
  BY <1>1, <1>2 DEF Update, IInv, TypeOK
<1>3. CASE ~\E r \in Replicas, t \in Threads, j \in Ingresses : Update(r, t, j)
  <2>1. status' = status
    BY <1>3, NumbersOfWorkers
      DEF Next, vars, requests, Start, Crash, Ends, Acquire, LoseLease, Poll, Deliver, Work, Get, GetRetry, Quit,
          Addresses, AddressesFail, UpdateStatus, Compare, UpdateFails, Succeed, Shutdown,
          ShutdownQueue, Stopping, Alone, AloneFails, Pods, PodsFail, Removed, Exit, Expire
  <2> QED
    BY <2>1
<1> QED
  BY <1>2, <1>3

(* A replica whose queue was shut down and has drained writes no address,  *)
(* in any later term, and when all are drained none comes back.            *)
THEOREM NothingReturns == Spec => NoAddressReturns
<1>1. IInv /\ [Next]_vars =>
        [/\ \A r \in Replicas : Drained(r) => Drained(r)'
         /\ (\A r \in Running : Drained(r)) => \A i \in Ingresses : status'[i] \subseteq status[i]]_vars
  BY DrainedStays, OnlyRemovals
<1> QED
  BY <1>1, InvCorrect, PTL DEF Spec, NoAddressReturns
=============================================================================
