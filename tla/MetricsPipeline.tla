---------------------------- MODULE MetricsPipeline ----------------------------
(***************************************************************************)
(* metrics-server 0.3: every tick the manager collects from all kubelets,  *)
(* one goroutine for each (pkg/sources), hands what came to the sink,      *)
(* which replaces all it has or nothing (pkg/provider/sink), and remembers *)
(* whether this went well for the health check.  Requests for metrics read *)
(* the sink at any time.                                                   *)
(*                                                                         *)
(* A collection ends before the next tick is due, since its context and    *)
(* the scrape timeout are shorter; so CheckHealth never finds a late tick  *)
(* and the clock is left out.                                              *)
(***************************************************************************)
EXTENDS Integers, FiniteSets, Sequences, SequencesExt

CONSTANTS
  Nodes, Pods,
  Usages,       \* what a kubelet measures for a node or a container
  PodStats,     \* what it may report of a pod: a sequence, one for each container
  MaxChanges,   \* bound on the changes of the cluster and the faults
  None,
  Unnamed,      \* the name of a point that was never filled in
  Zero          \* the usage of one

(* What the kubelet may leave out: a value, or every timestamp.            *)
Stats == Usages \cup {"partial", "undated"}

ASSUME StatsAssumption ==
  /\ PodStats \subseteq Seq(Stats)
  /\ {Zero, "partial", "undated"} \cap Usages = {} /\ Zero \notin {"partial", "undated"}
ASSUME NameAssumption == Unnamed \notin Nodes /\ None \notin PodStats
ASSUME BoundAssumption == MaxChanges \in Nat
ASSUME FiniteAssumption == IsFiniteSet(Nodes) /\ IsFiniteSet(Pods)

VARIABLES
  cluster,      \* per node its status and what its kubelet reports
  step,         \* where Collect is
  failed,       \* an error was collected
  source,       \* per node where the goroutine that scrapes it is
  result,       \* per node what the goroutine has to send
  errChannel, responseChannel,  \* the nodes whose error, whose batch is in it
  left,         \* how many sources the loop still waits for
  batch,        \* the batch that is put together
  nodes, pods,  \* the sink: per node and pod what it serves
  lastOk,       \* the last collection went well
  touched,      \* [last, now] what has changed since the last finished, the
                \* current collection began (only the properties read it)
  changes

manager == <<step, failed>>
channels == <<source, result, errChannel, responseChannel, left, batch>>
sink == <<nodes, pods>>
environment == <<cluster, touched, changes>>
vars == <<cluster, manager, channels, sink, lastOk, touched, changes>>

Status == {"gone", "noAddress", "down", "up"}
Kubelet == [status : Status, stats : Stats, pods : [Pods -> PodStats \cup {None}]]
NoBatch == [nodes |-> <<>>, pods |-> <<>>]
NoResult == [err |-> FALSE, batch |-> NoBatch]

(* The process starts.                                                     *)
Started ==
  /\ step = "idle" /\ failed = FALSE
  /\ source = [n \in Nodes |-> "off"] /\ result = [n \in Nodes |-> NoResult]
  /\ errChannel = {} /\ responseChannel = {} /\ left = 0 /\ batch = NoBatch
  /\ nodes = <<>> /\ pods = <<>> /\ lastOk = FALSE

Init ==
  /\ \E u \in Usages : cluster = [n \in Nodes |-> [status |-> "up", stats |-> u,
                                                   pods |-> [p \in Pods |-> None]]]
  /\ touched = [last |-> {}, now |-> {}] /\ changes = 0
  /\ Started

-----------------------------------------------------------------------------
(* Decoding of a summary.                                                  *)

(* decodeNodeStats: without a timestamp the point is not written at all.   *)
NodePoint(n) ==
  LET s == cluster[n].stats
  IN  CASE s = "undated" -> [name |-> Unnamed, usage |-> Zero]
        [] s = "partial" -> [name |-> n, usage |-> Zero]
        [] OTHER -> [name |-> n, usage |-> s]

Whole(s) == s \in Usages

(* Mutant: a pod is discarded only if none of its containers is whole.     *)
PodIsWholePartly(stats) == stats = <<>> \/ \E i \in DOMAIN stats : Whole(stats[i])

(* decodePodStats returned no error.                                       *)
PodIsWhole(stats) == \A i \in DOMAIN stats : Whole(stats[i])

Reported(n) == {p \in Pods : cluster[n].pods[p] # None}
PodPoints(n) ==
  SetToSeq({[name |-> p, containers |-> [i \in DOMAIN cluster[n].pods[p] |->
                                           IF Whole(cluster[n].pods[p][i]) THEN cluster[n].pods[p][i] ELSE Zero]] :
              p \in {q \in Reported(n) : PodIsWhole(cluster[n].pods[q])}})

(* The point of the node is kept whether or not it is whole.               *)
Summary(n) ==
  [err |-> ~Whole(cluster[n].stats) \/ \E p \in Reported(n) : ~PodIsWhole(cluster[n].pods[p]),
   batch |-> [nodes |-> <<NodePoint(n)>>, pods |-> PodPoints(n)]]

-----------------------------------------------------------------------------
(* Collect of the source manager.                                          *)

Known == {n \in Nodes : cluster[n].status # "gone"}
GetMetricSources == {n \in Known : cluster[n].status # "noAddress"}

(* Collect of the manager begins; nodes without an address are an error.   *)
Tick ==
  /\ step = "idle" /\ step' = "collect"
  /\ failed' = (Known # GetMetricSources)
  /\ source' = [n \in Nodes |-> IF n \in GetMetricSources THEN "fetch" ELSE "off"]
  /\ left' = Cardinality(GetMetricSources)
  /\ batch' = NoBatch
  /\ touched' = [last |-> touched.now, now |-> {}]
  /\ UNCHANGED <<cluster, result, errChannel, responseChannel, sink, lastOk, changes>>

(* A goroutine has its answer, an error if the kubelet is down or slow,    *)
(* and sends first the error if there is one, else first the batch.        *)
Fetched(n, r) ==
  /\ source[n] = "fetch"
  /\ source' = [source EXCEPT ![n] = "half"]
  /\ result' = [result EXCEPT ![n] = r]
  /\ errChannel' = IF r.err THEN errChannel \cup {n} ELSE errChannel
  /\ responseChannel' = IF r.err THEN responseChannel ELSE responseChannel \cup {n}
  /\ UNCHANGED <<cluster, manager, left, batch, sink, lastOk, touched>>

Answer(n) == cluster[n].status = "up" /\ Fetched(n, Summary(n)) /\ UNCHANGED changes
Refuse(n) == cluster[n].status # "up" /\ Fetched(n, [err |-> TRUE, batch |-> NoBatch]) /\ UNCHANGED changes
TimeOut(n) ==
  /\ changes < MaxChanges /\ changes' = changes + 1
  /\ cluster[n].status = "up" /\ Fetched(n, [err |-> TRUE, batch |-> NoBatch])

(* The second of the two.                                                  *)
SendOther(n) ==
  /\ source[n] = "half" /\ source' = [source EXCEPT ![n] = "off"]
  /\ errChannel' = errChannel \cup IF result[n].err THEN {} ELSE {n}
  /\ responseChannel' = responseChannel \cup IF result[n].err THEN {n} ELSE {}
  /\ UNCHANGED <<cluster, manager, result, left, batch, sink, lastOk, touched, changes>>

(* Mutant: the loop goes on to the next source after an error.             *)
TakeErrorOnly(n) ==
  /\ step = "collect" /\ left > 0 /\ n \in errChannel
  /\ step' = IF result[n].err THEN "collect" ELSE "take"
  /\ left' = IF result[n].err THEN left - 1 ELSE left
  /\ errChannel' = errChannel \ {n}
  /\ failed' = (failed \/ result[n].err)
  /\ UNCHANGED <<source, result, responseChannel, batch, sink, lastOk, environment>>

(* The loop takes one error and one batch for each source.                 *)
TakeError(n) ==
  /\ step = "collect" /\ left > 0 /\ n \in errChannel
  /\ step' = "take" /\ errChannel' = errChannel \ {n}
  /\ failed' = (failed \/ result[n].err)
  /\ UNCHANGED <<source, result, responseChannel, left, batch, sink, lastOk, environment>>

TakeBatch(n) ==
  /\ step = "take" /\ n \in responseChannel
  /\ step' = "collect" /\ responseChannel' = responseChannel \ {n}
  /\ batch' = [nodes |-> batch.nodes \o result[n].batch.nodes, pods |-> batch.pods \o result[n].batch.pods]
  /\ left' = left - 1
  /\ UNCHANGED <<failed, source, result, errChannel, sink, lastOk, environment>>

-----------------------------------------------------------------------------
(* The end of Collect: Receive, and what the health check will say.        *)

Duplicates(points) == \E i, j \in DOMAIN points : i # j /\ points[i].name = points[j].name
ByName(points) == [k \in {points[i].name : i \in DOMAIN points} |->
                     (CHOOSE p \in {points[i] : i \in DOMAIN points} : p.name = k)]
Refused == Duplicates(batch.nodes) \/ Duplicates(batch.pods)

(* Mutant: only a collection without any node is unhealthy.                *)
HealthyTickIfAny == ~(failed /\ batch.nodes = <<>>)

HealthyTick == ~(failed /\ batch.nodes = <<>>) /\ ~Refused

(* Mutant: after a refused batch the rest of the loop is not reached.      *)
StoreOnce ==
  /\ step = "collect" /\ left = 0
  /\ IF Refused THEN UNCHANGED <<step, sink>>
     ELSE step' = "stored" /\ nodes' = ByName(batch.nodes) /\ pods' = ByName(batch.pods)
  /\ UNCHANGED <<failed, channels, lastOk, environment>>

Store ==
  /\ step = "collect" /\ left = 0 /\ step' = "stored"
  /\ IF Refused THEN UNCHANGED sink
     ELSE nodes' = ByName(batch.nodes) /\ pods' = ByName(batch.pods)
  /\ UNCHANGED <<failed, channels, lastOk, environment>>

Finish ==
  /\ step = "stored" /\ step' = "idle"
  /\ lastOk' = HealthyTick
  /\ result' = [n \in Nodes |-> NoResult] /\ batch' = NoBatch /\ failed' = FALSE
  /\ UNCHANGED <<source, errChannel, responseChannel, left, sink, environment>>

CheckHealth == lastOk

-----------------------------------------------------------------------------
(* Requests are served from the sink, for what the listers know; every pod *)
(* here is in the phase Running.                                           *)

GetNodeMetrics(n) == IF n \in DOMAIN nodes THEN nodes[n].usage ELSE None
GetContainerMetrics(p) == IF p \in DOMAIN pods THEN pods[p].containers ELSE None
ListNodes == [n \in {m \in Known : GetNodeMetrics(m) # None} |-> GetNodeMetrics(n)]
ListPods == [p \in {q \in Pods : GetContainerMetrics(q) # None} |-> GetContainerMetrics(p)]

-----------------------------------------------------------------------------
(* The cluster: nodes come and go, and fail; pods move, and for a time two *)
(* kubelets may report one.                                                *)

Change(n, k) ==
  /\ changes < MaxChanges /\ changes' = changes + 1
  /\ k # cluster[n] /\ cluster' = [cluster EXCEPT ![n] = k]
  /\ touched' = [last |-> touched.last \cup {n}, now |-> touched.now \cup {n}]
  /\ UNCHANGED <<manager, channels, sink, lastOk>>

ChangeNode == \E n \in Nodes, s \in Status : Change(n, [cluster[n] EXCEPT !.status = s])
ChangeStats == \E n \in Nodes, s \in Stats : Change(n, [cluster[n] EXCEPT !.stats = s])
ChangePod == \E n \in Nodes, p \in Pods, s \in PodStats \cup {None} :
               Change(n, [cluster[n] EXCEPT !.pods[p] = s])

Restart ==
  /\ changes < MaxChanges /\ changes' = changes + 1
  /\ step' = "idle" /\ failed' = FALSE
  /\ source' = [n \in Nodes |-> "off"] /\ result' = [n \in Nodes |-> NoResult]
  /\ errChannel' = {} /\ responseChannel' = {} /\ left' = 0 /\ batch' = NoBatch
  /\ nodes' = <<>> /\ pods' = <<>> /\ lastOk' = FALSE
  /\ UNCHANGED <<cluster, touched>>

Scraper(n) == Answer(n) \/ Refuse(n) \/ SendOther(n)
Collector == Tick \/ (\E n \in Nodes : TakeError(n) \/ TakeBatch(n)) \/ Store \/ Finish
Next ==
  \/ Collector
  \/ \E n \in Nodes : Scraper(n) \/ TimeOut(n)
  \/ ChangeNode \/ ChangeStats \/ ChangePod \/ Restart

Spec == Init /\ [][Next]_vars

(* The ticker ticks, and while goroutines can run one of them does.        *)
Work == Collector \/ \E n \in Nodes : Scraper(n)
FairSpec == Spec /\ WF_vars(Work)

-----------------------------------------------------------------------------
(* Types; and whatever a goroutine has still to send finds the channels    *)
(* open, which Collect closes when it returns (sources/manager.go:96-97).  *)
TypeOK ==
  /\ cluster \in [Nodes -> Kubelet] /\ changes \in 0 .. MaxChanges
  /\ step \in {"idle", "collect", "take", "stored"} /\ failed \in BOOLEAN /\ lastOk \in BOOLEAN
  /\ source \in [Nodes -> {"off", "fetch", "half"}]
  /\ (\E n \in Nodes : source[n] # "off") => step \in {"collect", "take"}
  /\ errChannel \subseteq Nodes /\ responseChannel \subseteq Nodes /\ left \in 0 .. Cardinality(Nodes)
  /\ DOMAIN nodes \subseteq Nodes \cup {Unnamed} /\ DOMAIN pods \subseteq Pods
  /\ touched.now \subseteq touched.last /\ touched.last \subseteq Nodes

(* While the health check passes nothing stale is served: of a node whose  *)
(* kubelet has reported the same since the last finished collection began  *)
(* there is that or nothing, and of a pod one that some kubelet reports    *)
(* (manager.go: any failure to save means unhealthy).                      *)
Changed == IF step = "idle" THEN touched.now ELSE touched.last
HealthyIsFresh ==
  CheckHealth =>
    /\ \A n \in Nodes \ Changed : GetNodeMetrics(n) \in {None, NodePoint(n).usage}
    /\ Changed = {} => \A p \in DOMAIN pods : \E n \in GetMetricSources : cluster[n].pods[p] = pods[p].containers

(* From the goroutine to the sink a point of a pod is of whole containers, *)
(* and one of a node may have a zero.                                      *)
Point == [name : Nodes \cup {Unnamed}, usage : Usages \cup {Zero}]
PodPoint == [name : Pods, containers : Seq(Usages)]
Batch == [nodes : Seq(Point), pods : Seq(PodPoint)]
PointsFit ==
  /\ result \in [Nodes -> [err : BOOLEAN, batch : Batch]] /\ batch \in Batch
  /\ \A n \in DOMAIN nodes : nodes[n] \in Point
  /\ \A p \in DOMAIN pods : pods[p] \in PodPoint

(* Every source has an error and a batch to send; the loop, which does not *)
(* ask from whom they come, has as many of each still to take.             *)
ErrorsDue == errChannel \cup {n \in Nodes : source[n] = "fetch" \/ (source[n] = "half" /\ ~result[n].err)}
BatchesDue == responseChannel \cup {n \in Nodes : source[n] = "fetch" \/ (source[n] = "half" /\ result[n].err)}
ChannelsFit ==
  /\ \A n \in errChannel : source[n] = "off" \/ (source[n] = "half" /\ result[n].err)
  /\ \A n \in responseChannel : source[n] = "off" \/ (source[n] = "half" /\ ~result[n].err)
  /\ Cardinality(ErrorsDue) = (IF step = "take" THEN left - 1 ELSE left)
  /\ Cardinality(BatchesDue) = left
  /\ step = "take" => left > 0
  /\ step \in {"idle", "stored"} => left = 0
  /\ step = "idle" => result = [n \in Nodes |-> NoResult] /\ batch = NoBatch

(* What has been collected is what kubelets that have not changed since    *)
(* the collection began still report, and so is what it leaves in the sink.*)
FreshBatch(b) ==
  /\ \A i \in DOMAIN b.nodes :
       b.nodes[i].name \in Nodes \ touched.now => b.nodes[i].usage = NodePoint(b.nodes[i].name).usage
  /\ touched.now = {} =>
       \A i \in DOMAIN b.pods : \E n \in GetMetricSources : cluster[n].pods[b.pods[i].name] = b.pods[i].containers
FreshSink(changed) ==
  /\ \A n \in DOMAIN nodes : n \in Nodes \ changed => nodes[n].usage = NodePoint(n).usage
  /\ changed = {} => \A p \in DOMAIN pods : \E n \in GetMetricSources : cluster[n].pods[p] = pods[p].containers
NothingIsStale ==
  /\ FreshBatch(batch) /\ \A n \in Nodes : FreshBatch(result[n].batch)
  /\ lastOk => FreshSink(Changed)
  /\ step = "stored" /\ ~Refused => FreshSink(touched.now)

IInv == TypeOK /\ PointsFit /\ ChannelsFit /\ NothingIsStale

(* A pod is served with all its containers and without a usage that was    *)
(* not measured, for the autoscaler takes a zero for a measurement         *)
(* (summary.go: discard pods with partial results).                        *)
PodsAreWhole == \A p \in Pods : GetContainerMetrics(p) # None => \A i \in DOMAIN pods[p].containers :
                                  pods[p].containers[i] \in Usages

(* The same of nodes, as the comment at summary.go:113-114 has it.  The    *)
(* code keeps the point (line 115).                                        *)
NodesAreWhole == \A n \in DOMAIN nodes : nodes[n].usage \in Usages

(* When the cluster rests, some kubelet answers and no two report the same,*)
(* the sink serves exactly what they report, and the health check passes:  *)
(* no collection waits forever, and no error is kept.                      *)
Up == {n \in Nodes : cluster[n].status = "up"}
Reporters(p) == {n \in Up : p \in Reported(n) /\ PodIsWhole(cluster[n].pods[p])}
Distinct ==
  /\ Cardinality({n \in Up : cluster[n].stats = "undated"}) <= 1
  /\ \A p \in Pods : Cardinality(Reporters(p)) <= 1
ServesTheCluster ==
  /\ CheckHealth
  /\ ListNodes = [n \in {m \in Up : cluster[m].stats # "undated"} |-> NodePoint(n).usage]
  /\ ListPods = [p \in {q \in Pods : Reporters(q) # {}} |-> cluster[CHOOSE n \in Reporters(p) : TRUE].pods[p]]
Settles == <>[](Up # {} /\ Distinct => ServesTheCluster)
=============================================================================
