---------------------------- MODULE HeapsterPipeline ----------------------------
(***************************************************************************)
(* metrics-server 0.2, which is Heapster: once in every period the manager *)
(* starts a housekeeping run, which scrapes all kubelets until a deadline, *)
(* hands the batch from one processor to the next and at last to all sinks *)
(* at once.  Runs may overlap, as many as there are tokens; they share the *)
(* rate calculator, which keeps the previous batch without a lock, and the *)
(* sinks.                                                                  *)
(*                                                                         *)
(* Every container uses one unit of CPU in a unit of time, so what it has  *)
(* used is its age, and every rate ought to be one.  A kubelet reports the *)
(* last measurement it has made, of a pod that has left it too.  The node's*)
(* own CPU goes the way of a container's and is left out, as are the error *)
(* returns of processors, which need a metric of two types or a lister     *)
(* that fails, and Stop, which nothing calls.                              *)
(***************************************************************************)
EXTENDS Integers, FiniteSets, Functions

CONSTANTS
  Nodes, Containers,
  Home,          \* the node of all pods at first
  PodOf, NamespaceOf,  \* the pod of each container, the namespace of each pod
  Sinks,         \* the sinks; the one named "metric" is the MetricSink
  MaxParallelism,\* bound on the tokens, which are how many runs may overlap
  Keep,          \* for how many periods the metric sink keeps a batch
  MaxTime,       \* bound on the clock, which counts periods
  MaxChanges,    \* bound on the changes of the cluster and the faults
  None

ASSUME NumberAssumption == {MaxParallelism, Keep} \subseteq Nat \ {0} /\ {MaxTime, MaxChanges} \subseteq Nat
ASSUME FiniteAssumption == IsFiniteSet(Nodes) /\ IsFiniteSet(Containers)
ASSUME HomeAssumption == Home \in Nodes
ASSUME SinkAssumption == "metric" \in Sinks

VARIABLES
  now,
  life,          \* per container its node and when it was created
  reports,       \* per node what its kubelet reports of containers
  due,           \* this period's run has not begun
  runs,          \* per token the run that has it, or None
  previousBatch, \* of the rate calculator
  busy,          \* the sinks that export
  shortStore,    \* the batches that the metric sink keeps
  latest,        \* the last of them, the only one that is read
  newest,        \* the period of the newest run (only the properties read it)
  changes

cluster == <<life, reports>>
store == <<shortStore, latest>>
export == <<busy, store>>
vars == <<now, cluster, due, runs, previousBatch, export, newest, changes>>

Pods == {PodOf[c] : c \in Containers}
Slots == DOMAIN runs

(* NewManager makes as many tokens as it is told to.                       *)
Started(tokens) ==
  /\ due = FALSE /\ runs = [i \in tokens |-> None] /\ previousBatch = None
  /\ busy = {} /\ shortStore = {} /\ latest = None /\ newest = None

(* The pods are on one node, and no kubelet has measured anything yet.     *)
Init ==
  /\ now = 0 /\ changes = 0
  /\ life = [c \in Containers |-> [node |-> Home, born |-> 0]]
  /\ reports = [n \in Nodes |-> <<>>]
  /\ \E k \in 1 .. MaxParallelism : Started(1 .. k)

-----------------------------------------------------------------------------
(* Batches: metric sets under the keys of what they are about.             *)

(* The entries of f, and those of g where f has none.                      *)
Over(f, g) == [x \in DOMAIN f \cup DOMAIN g |-> IF x \in DOMAIN f THEN f[x] ELSE g[x]]
Single(k, v) == [x \in {k} |-> v]

ContainerKey(c) == <<"container", c>>
PodKey(p) == <<"pod", p>>
NamespaceKey(s) == <<"namespace", s>>
NodeKey(n) == <<"node", n>>
ClusterKey == <<"cluster", "">>

MetricSet(born, at, node, values) == [born |-> born, at |-> at, node |-> node, values |-> values]
Stub(node, values) == MetricSet(0, 0, node, values)
OfType(sets, type) == {k \in DOMAIN sets : k[1] = type}
Has(sets, k, metric) == metric \in DOMAIN sets[k].values

(* decodeSummary: a kubelet reports its node, its pods and containers.     *)
Summary(n) ==
  LET reported == DOMAIN reports[n]
      keys == {NodeKey(n)} \cup {PodKey(PodOf[c]) : c \in reported} \cup {ContainerKey(c) : c \in reported}
  IN  [k \in keys |->
         IF k[1] = "container"
           THEN LET r == reports[n][k[2]] IN MetricSet(r.born, r.at, n, Single("usage", r.at - r.born))
           ELSE Stub(n, <<>>)]

Value(set, metric) == IF metric \in DOMAIN set.values THEN set.values[metric] ELSE 0
Sum(sets, keys, metric) == SumFunction([k \in keys |-> Value(sets[k], metric)])

(* aggregate: the metrics that any of the sources has, added to its own.   *)
Aggregate(sets, own, sources, metrics) ==
  LET found == {m \in metrics : \E s \in sources : Has(sets, s, m)}
      sums == [m \in found |-> Value(own, m) + Sum(sets, sources, m)]
  IN  [own EXCEPT !.values = Over(sums, @)]

(* The same for all keys that have sources.  None is a source of another   *)
(* one, and for one without a metric set a set is made.                    *)
WithAll(sets, sources, metrics) ==
  LET own(k) == IF k \in DOMAIN sets THEN sets[k] ELSE Stub(None, <<>>)
  IN  [k \in DOMAIN sets \cup DOMAIN sources |->
         IF k \in DOMAIN sources THEN Aggregate(sets, own(k), sources[k], metrics) ELSE sets[k]]

-----------------------------------------------------------------------------
(* The processors.                                                         *)

Slope(new, old) == (new.values["usage"] - old.usage) \div (new.at - old.at)
Usable(new, old) == new.at > old.at /\ new.born = old.born

(* Mutant: the rate is taken across a restart of the container.            *)
WithRateAlways(sets, k, old) ==
  IF k \in DOMAIN old /\ sets[k].at > old[k].at
    THEN [sets EXCEPT ![k].values = Over(@, Single("rate", Slope(sets[k], old[k])))]
    ELSE sets

(* RateCalculator for one metric set.                                      *)
WithRate(sets, k, old) ==
  IF k \in DOMAIN old /\ Usable(sets[k], old[k])
    THEN [sets EXCEPT ![k].values = Over(@, Single("rate", Slope(sets[k], old[k])))]
    ELSE sets

(* What the rate calculator will read of a batch.                          *)
Counters(r) ==
  [ts |-> r.ts,
   sets |-> [k \in OfType(r.sets, "container") |->
               [born |-> r.sets[k].born, at |-> r.sets[k].at, usage |-> r.sets[k].values["usage"]]]]

(* PodBasedEnricher for the pods its lister knows: every container has its *)
(* request, and one that the kubelet did not report is added as a stub.    *)
PodBasedEnricher(sets, known) ==
  LET of == {c \in Containers : PodOf[c] \in known /\ PodKey(PodOf[c]) \in DOMAIN sets}
      keys == {ContainerKey(c) : c \in of}
      own(k) == IF k \in DOMAIN sets THEN sets[k] ELSE Stub(sets[PodKey(PodOf[k[2]])].node, <<>>)
  IN  [k \in DOMAIN sets \cup keys |->
         IF k \in keys THEN [own(k) EXCEPT !.values = Over(@, Single("request", 1))] ELSE sets[k]]

Containing(k) == PodKey(PodOf[k[2]])
NamespaceOfPod(k) == NamespaceKey(NamespaceOf[k[2]])

(* What has been used up to now is not added up, only gauges are.          *)
PodAggregator(sets) ==
  LET containers == OfType(sets, "container")
  IN  WithAll(sets, [p \in OfType(sets, "pod") |-> {c \in containers : Containing(c) = p}], {"rate", "request"})

NamespaceAggregator(sets) ==
  LET pods == OfType(sets, "pod")
  IN  WithAll(sets, [k \in {NamespaceOfPod(p) : p \in pods} |-> {p \in pods : NamespaceOfPod(p) = k}],
              {"rate", "request"})

NodeAggregator(sets) ==
  LET pods == OfType(sets, "pod")
  IN  WithAll(sets, [n \in OfType(sets, "node") |-> {p \in pods : NodeKey(sets[p].node) = n}], {"request"})

ClusterAggregator(sets) ==
  WithAll(sets, Single(ClusterKey, OfType(sets, "namespace")), {"rate", "request"})

-----------------------------------------------------------------------------
(* The manager.                                                            *)

Tick ==
  /\ ~due /\ now < MaxTime /\ now' = now + 1 /\ due' = TRUE
  /\ UNCHANGED <<cluster, runs, previousBatch, export, newest, changes>>

Free == {i \in Slots : runs[i] = None}

NewRun == [phase |-> "scrape", ts |-> now, pending |-> Nodes, sets |-> <<>>, keys |-> {}, pushes |-> {}]

(* Mutant: the next period is counted from the start of this one.          *)
BeginAgain ==
  /\ due /\ Free # {} /\ newest' = now
  /\ LET i == CHOOSE j \in Free : \A k \in Free : j <= k
     IN  runs' = [runs EXCEPT ![i] = NewRun]
  /\ UNCHANGED <<now, cluster, due, previousBatch, export, changes>>

(* housekeep takes a token, or gives up after half a period.               *)
Begin ==
  /\ due /\ due' = FALSE /\ Free # {}
  /\ LET i == CHOOSE j \in Free : \A k \in Free : j <= k
     IN  runs' = [runs EXCEPT ![i] = NewRun]
  /\ newest' = now
  /\ UNCHANGED <<now, cluster, previousBatch, export, changes>>

GiveUp ==
  /\ due /\ due' = FALSE /\ Free = {}
  /\ UNCHANGED <<now, cluster, runs, previousBatch, export, newest, changes>>

In(i, phase) == runs[i] # None /\ runs[i].phase = phase
Only(i, r) == UNCHANGED <<now, cluster, due, export, newest, changes>> /\ runs' = [runs EXCEPT ![i] = r]

(* ScrapeMetrics takes the answers as they come; a kubelet that cannot be  *)
(* reached, or answers too late, is as one that reports nothing.           *)
Answer(i) ==
  /\ In(i, "scrape")
  /\ \E n \in runs[i].pending :
       Only(i, [runs[i] EXCEPT !.sets = Over(Summary(n), @), !.pending = @ \ {n},
                               !.phase = IF runs[i].pending = {n} THEN "check" ELSE @])
  /\ UNCHANGED previousBatch

Deadline(i) ==
  /\ In(i, "scrape") /\ Only(i, [runs[i] EXCEPT !.pending = {}, !.phase = "check"])
  /\ UNCHANGED previousBatch

(* The rate calculator reads previousBatch first for nil, then for the     *)
(* timestamps, and again for every metric set.                             *)
Check(i) ==
  /\ In(i, "check")
  /\ IF previousBatch = None THEN Only(i, [runs[i] EXCEPT !.phase = "rate"])
     ELSE IF runs[i].ts <= previousBatch.ts THEN Only(i, [runs[i] EXCEPT !.phase = "process"])
     ELSE Only(i, [runs[i] EXCEPT !.phase = "rate", !.keys = OfType(runs[i].sets, "container")])
  /\ UNCHANGED previousBatch

Rate(i) ==
  /\ In(i, "rate")
  /\ \E k \in runs[i].keys : Only(i, [runs[i] EXCEPT !.keys = @ \ {k}, !.sets = WithRate(@, k, previousBatch.sets)])
  /\ UNCHANGED previousBatch

SetPrevious(i) ==
  /\ In(i, "rate") /\ runs[i].keys = {}
  /\ previousBatch' = Counters(runs[i])
  /\ Only(i, [runs[i] EXCEPT !.phase = "process"])

(* The other processors; the cache of pods may not have all of them.       *)
Process(i) ==
  /\ In(i, "process") /\ UNCHANGED <<now, cluster, due, previousBatch, export, newest, changes>>
  /\ \E known \in SUBSET Pods : \E enriched \in {PodBasedEnricher(runs[i].sets, known)} :
     \E pods \in {PodAggregator(enriched)} : \E namespaces \in {NamespaceAggregator(pods)} :
     \E nodes \in {NodeAggregator(namespaces)} :
       runs' = [runs EXCEPT ![i] = [@ EXCEPT !.phase = "push", !.sets = ClusterAggregator(nodes), !.pushes = Sinks]]

(* Go ends the process when one goroutine writes a map while another reads *)
(* it: the processors add to the batch that the rate calculator holds.     *)
MapRace ==
  /\ changes < MaxChanges /\ changes' = changes + 1
  /\ \E i, j \in Slots : In(i, "process") /\ In(j, "rate") /\ runs[j].keys # {} /\ previousBatch.ts = runs[i].ts
  /\ due' = FALSE /\ runs' = [i \in Slots |-> None] /\ previousBatch' = None
  /\ busy' = {} /\ shortStore' = {} /\ latest' = None /\ newest' = None
  /\ UNCHANGED <<now, cluster>>

-----------------------------------------------------------------------------
(* The sink manager: one goroutine for each sink; a run pushes to all of   *)
(* them, and waits until each has taken the batch or the time is over.  It *)
(* is not over while a sink is ready.  The metric sink stores a batch in   *)
(* no time, so it always is.                                               *)

(* What is left of a run after its push to s.                              *)
Left(r, s) == IF r.pushes = {s} THEN None ELSE [r EXCEPT !.pushes = @ \ {s}]
Pushed(i, s) == runs' = [runs EXCEPT ![i] = Left(runs[i], s)]

PopOld(storage) == {b \in storage : b.ts > now - Keep}

ExportData(i) ==
  /\ In(i, "push") /\ UNCHANGED <<now, cluster, due, previousBatch, busy, newest, changes>>
  /\ "metric" \in runs[i].pushes /\ Pushed(i, "metric")
  /\ latest' = [ts |-> runs[i].ts, sets |-> runs[i].sets]
  /\ shortStore' = PopOld(shortStore) \cup {latest'}

Push(i) ==
  /\ In(i, "push") /\ UNCHANGED <<now, cluster, due, previousBatch, store, newest, changes>>
  /\ \E s \in runs[i].pushes \ (busy \cup {"metric"}) : busy' = busy \cup {s} /\ Pushed(i, s)

(* Mutant: a push waits for its sink.                                      *)
PushWaits(i) == In(i, "push") /\ runs[i].pushes = {} /\ UNCHANGED vars

PushTimesOut(i) ==
  /\ In(i, "push") /\ UNCHANGED <<now, cluster, due, previousBatch, export, newest, changes>>
  /\ \E s \in runs[i].pushes \cap busy : Pushed(i, s)

(* Another sink may take as long as it likes.                              *)
OtherExport ==
  /\ \E s \in busy : busy' = busy \ {s}
  /\ UNCHANGED <<now, cluster, due, runs, previousBatch, store, newest, changes>>

(* What requests get: a pod only with the rates of all its containers.     *)
GetLatestDataBatch == latest
GetPodMetrics(p) ==
  LET sets == GetLatestDataBatch.sets
      keys == {ContainerKey(c) : c \in {d \in Containers : PodOf[d] = p}}
  IN  IF GetLatestDataBatch = None \/ \E k \in keys : k \notin DOMAIN sets \/ ~Has(sets, k, "rate")
        THEN None ELSE [k \in keys |-> sets[k].values["rate"]]

-----------------------------------------------------------------------------
(* The cluster.                                                            *)

Measure(n) ==
  /\ reports' = [reports EXCEPT ![n] = [c \in {d \in Containers : life[d].node = n} |->
                                          [born |-> life[c].born, at |-> now]]]
  /\ reports' # reports
  /\ UNCHANGED <<now, life, due, runs, previousBatch, export, newest, changes>>

RestartContainer(c) ==
  /\ changes < MaxChanges /\ changes' = changes + 1
  /\ life[c].born # now /\ life' = [life EXCEPT ![c].born = now]
  /\ UNCHANGED <<now, reports, due, runs, previousBatch, export, newest>>

MovePod(p) ==
  /\ changes < MaxChanges /\ changes' = changes + 1
  /\ \E n \in Nodes :
       /\ \A c \in Containers : PodOf[c] = p => life[c].node # n
       /\ life' = [c \in Containers |-> IF PodOf[c] = p THEN [node |-> n, born |-> now] ELSE life[c]]
  /\ UNCHANGED <<now, reports, due, runs, previousBatch, export, newest>>

(* What a run does besides processing.                                     *)
Run(i) == Deadline(i) \/ Answer(i) \/ Check(i) \/ SetPrevious(i) \/ Rate(i) \/ ExportData(i) \/ Push(i) \/ PushTimesOut(i)

(* The manager and its runs.                                               *)
Work ==
  \/ Begin \/ GiveUp
  \/ \E i \in Slots : Run(i)
  \/ \E i \in Slots : Process(i)

Next ==
  \/ Tick \/ Work
  \/ MapRace \/ OtherExport
  \/ \E n \in Nodes : Measure(n)
  \/ \E c \in Containers : RestartContainer(c)
  \/ \E p \in Pods : MovePod(p)

Spec == Init /\ [][Next]_vars

(* The manager and the runs go on while any of them can: every step of     *)
(* Work changes one of the two.                                            *)
FairSpec == Spec /\ WF_<<due, runs>>(Work)

-----------------------------------------------------------------------------
Phases == {"scrape", "check", "rate", "process", "push"}
Active == {i \in Slots : runs[i] # None}

IsRun(r) ==
  /\ DOMAIN r = {"phase", "ts", "pending", "sets", "keys", "pushes"}
  /\ r.phase \in Phases /\ r.ts \in 1 .. now /\ r.pending \subseteq Nodes /\ r.pushes \subseteq Sinks
  /\ r.keys \subseteq OfType(r.sets, "container")

(* Types; a run has something to push as long as it pushes, and the runs   *)
(* that overlap are of different periods.                                  *)
TypeOK ==
  /\ now \in 0 .. MaxTime /\ changes \in 0 .. MaxChanges /\ due \in BOOLEAN
  /\ life \in [Containers -> [node : Nodes, born : 0 .. now]]
  /\ \A n \in Nodes : reports[n] \in [DOMAIN reports[n] -> [born : 0 .. now, at : 0 .. now]] /\ DOMAIN reports[n] \subseteq Containers
  /\ DOMAIN reports = Nodes /\ Slots \subseteq 1 .. MaxParallelism
  /\ \A i \in Active : IsRun(runs[i]) /\ (runs[i].phase = "push" <=> runs[i].pushes # {})
  /\ \A i, j \in Active : runs[i].ts = runs[j].ts => i = j
  /\ busy \subseteq Sinks \ {"metric"} /\ latest \in shortStore \cup {None}

(* What is stored is true, whatever runs overlap and whichever kubelets    *)
(* have answered: a rate is that of one life of a container between two    *)
(* measurements, so it is one (rate_calculator.go: new must be strictly    *)
(* after old, create time for container must be the same), and every       *)
(* container is counted once in its pod, namespace and cluster, and its    *)
(* request once in its node.  No period has two batches, and a request is  *)
(* answered with such rates only.                                          *)
RatesAreTrue(sets) ==
  \A k \in OfType(sets, "container") : Has(sets, k, "rate") => sets[k].values["rate"] = 1
TotalsAddUp(sets) ==
  /\ \A m \in {"rate", "request"} : Sum(sets, {ClusterKey}, m) = Sum(sets, OfType(sets, "container"), m)
  /\ Sum(sets, OfType(sets, "node"), "request") = Sum(sets, {ClusterKey}, "request")
AnswersAreTrue(p) == GetPodMetrics(p) # None => \A rate \in Range(GetPodMetrics(p)) : rate = 1
BatchesAreSound ==
  /\ \A b \in shortStore : RatesAreTrue(b.sets) /\ TotalsAddUp(b.sets)
  /\ \A b, d \in shortStore : b.ts = d.ts => b = d
  /\ \A p \in Pods : AnswersAreTrue(p)

(* The run of a period begins once, and its batch is stored when it has    *)
(* been pushed to the metric sink, which a run does once.                  *)
RunsFit ==
  /\ due => 0 < now /\ \A i \in Active : runs[i].ts < now
  /\ \A b \in shortStore : b.ts \in 1 .. now /\ (due => b.ts < now)
  /\ \A b, d \in shortStore : b.ts = d.ts => b = d
  /\ \A i \in Active, b \in shortStore : b.ts = runs[i].ts => runs[i].phase = "push" /\ "metric" \notin runs[i].pushes

(* A batch that the processors after the rate calculator have not seen: a  *)
(* container comes with its pod and a pod with its node, none of which has *)
(* metrics yet, and the age of a container is its usage.                   *)
IsMetricSet(set) == set \in [born : Int, at : Int, node : Nodes, values : [DOMAIN set.values -> Int]]
Measured(sets) ==
  /\ \A k \in DOMAIN sets : IsMetricSet(sets[k])
  /\ \A k \in DOMAIN sets :
       \/ k \in {NodeKey(n) : n \in Nodes} /\ DOMAIN sets[k].values = {}
       \/ k \in {PodKey(p) : p \in Pods} /\ DOMAIN sets[k].values = {} /\ NodeKey(sets[k].node) \in DOMAIN sets
       \/ /\ k \in {ContainerKey(c) : c \in Containers} /\ Containing(k) \in DOMAIN sets
          /\ Has(sets, k, "usage") /\ sets[k].values["usage"] = sets[k].at - sets[k].born /\ ~Has(sets, k, "request")

(* What the rate calculator reads, of previousBatch, after it has found    *)
(* one, and of whatever has been put there since.                          *)
TrueCounters(batch) ==
  \A k \in DOMAIN batch.sets :
    /\ batch.sets[k].born \in Int /\ batch.sets[k].at \in Int
    /\ batch.sets[k].usage = batch.sets[k].at - batch.sets[k].born
BatchesFit ==
  /\ \A i \in Active : LET r == runs[i] IN
       /\ RatesAreTrue(r.sets) /\ (r.keys # {} => r.phase = "rate")
       /\ IF r.phase = "push" THEN TotalsAddUp(r.sets) ELSE Measured(r.sets)
  /\ previousBatch # None \/ (\E i \in Active : runs[i].keys # {}) => TrueCounters(previousBatch)
  /\ \A b \in shortStore : RatesAreTrue(b.sets) /\ TotalsAddUp(b.sets)

IInv == TypeOK /\ RunsFit /\ BatchesFit

(* Runs end, and a sink that hangs keeps nothing from the metric sink (the *)
(* sink manager pushes only to sinks that have completed their previous    *)
(* exports): when the clock stops every token is back, and the newest run  *)
(* has left its batch in the store, unless it is too old to be kept.       *)
Settles == <>[](/\ ~due => Free = Slots
                /\ newest # None /\ newest > now - Keep => \E b \in shortStore : b.ts = newest)
=============================================================================
