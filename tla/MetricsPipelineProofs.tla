-------------------------- MODULE MetricsPipelineProofs --------------------------
(***************************************************************************)
(* Proofs about MetricsPipeline for any finite number of nodes and pods:   *)
(* no goroutine sends on a closed channel, no pod is served in part, and   *)
(* nothing stale is served while the health check passes.                  *)
(***************************************************************************)
EXTENDS MetricsPipeline, FiniteSetTheorems, SequenceTheorems, TLAPS

(* A finite set is listed by a sequence of its elements.                   *)
LEMMA ListOfSet ==
  ASSUME NEW S, IsFiniteSet(S)
  PROVE  SetToSeq(S) \in Seq(S)
<1>1. Cardinality(S) \in Nat /\ ExistsBijection(1 .. Cardinality(S), S)
  BY FS_CardinalityType
<1>2. \E f \in [1 .. Cardinality(S) -> S] : IsInjective(f)
  BY <1>1 DEF ExistsBijection, Bijection, Injection, IsInjective
<1>3. SetToSeq(S) \in [1 .. Cardinality(S) -> S]
  BY <1>2 DEF SetToSeq
<1> QED
  BY <1>1, <1>3

(* No sequences, no nodes.                                                 *)
LEMMA EmptyBatch ==
  NoBatch \in Batch /\ NoBatch.nodes = <<>> /\ NoBatch.pods = <<>>
  BY EmptySeq DEF NoBatch, Batch

-----------------------------------------------------------------------------
Typed == TypeOK /\ PointsFit

(* What the decoding of a summary yields.                                  *)

(* The point of a node has its name, or none.                              *)
LEMMA NodePointType ==
  ASSUME Typed, NEW n \in Nodes
  PROVE  NodePoint(n) \in Point /\ NodePoint(n).name \in {n, Unnamed}
<1>1. cluster[n].stats \in Stats
  BY DEF Typed, TypeOK, PointsFit, Kubelet
<1>2. CASE cluster[n].stats = "undated"
  BY <1>2 DEF NodePoint, Point
<1>3. CASE cluster[n].stats = "partial"
  BY <1>3 DEF NodePoint, Point
<1>4. CASE cluster[n].stats \in Usages
  <2>1. NodePoint(n) = [name |-> n, usage |-> cluster[n].stats]
    BY <1>4, StatsAssumption DEF NodePoint
  <2> QED
    BY <1>4, <2>1 DEF Point
<1> QED
  BY <1>1, <1>2, <1>3, <1>4 DEF Stats

Reports(n, point) ==
  /\ point \in PodPoint
  /\ cluster[n].pods[point.name] = point.containers

(* The points of pods are among those the node reports.                    *)
LEMMA PodPointsAreReported ==
  ASSUME Typed, NEW n \in Nodes
  PROVE  PodPoints(n) \in Seq({point \in PodPoint : Reports(n, point)})
<1> DEFINE Q == {q \in Reported(n) : PodIsWhole(cluster[n].pods[q])}
           pt(p) == [name |-> p, containers |-> [i \in DOMAIN cluster[n].pods[p] |->
                       IF Whole(cluster[n].pods[p][i]) THEN cluster[n].pods[p][i] ELSE Zero]]
           T == {pt(p) : p \in Q}
           f == [p \in Q |-> pt(p)]
<1>1. ASSUME NEW p \in Q PROVE pt(p) \in PodPoint /\ Reports(n, pt(p))
  <2> DEFINE s == cluster[n].pods[p]
  <2>1. p \in Pods /\ s \in PodStats /\ PodIsWhole(s)
    BY DEF Reported, Typed, TypeOK, PointsFit, Kubelet
  <2>2. s \in Seq(Stats)
    BY <2>1, StatsAssumption
  <2>3. \A i \in DOMAIN s : s[i] \in Usages
    BY <2>1 DEF PodIsWhole, Whole
  <2> HIDE DEF s
  <2>4. s = [i \in DOMAIN s |-> s[i]] /\ s \in Seq(Usages)
    <3>1. DOMAIN s = 1 .. Len(s) /\ Len(s) \in Nat
      BY <2>2
    <3>2. s = [i \in 1 .. Len(s) |-> s[i]]
      BY <2>2
    <3>3. [i \in 1 .. Len(s) |-> s[i]] \in Seq(Usages)
      BY <2>3, <3>1, IsASeq
    <3> QED
      BY <3>1, <3>2, <3>3
  <2>5. [i \in DOMAIN s |-> IF Whole(s[i]) THEN s[i] ELSE Zero] = s
    <3>1. [i \in DOMAIN s |-> IF Whole(s[i]) THEN s[i] ELSE Zero] = [i \in DOMAIN s |-> s[i]]
      BY <2>3 DEF Whole
    <3> QED
      BY <2>4, <3>1
  <2>6. pt(p) = [name |-> p, containers |-> s]
    BY <2>5 DEF s
  <2> HIDE DEF pt
  <2> QED
    BY <2>1, <2>4, <2>6 DEF PodPoint, Reports, s
<1>2. IsFiniteSet(T)
  <2>1. Q \subseteq Pods
    BY DEF Reported
  <2>2. IsFiniteSet(Q)
    BY <2>1, FiniteAssumption, FS_Subset
  <2> HIDE DEF Q, pt
  <2>3. f \in Surjection(Q, T)
    BY DEF Surjection
  <2> QED
    BY <2>2, <2>3, FS_Surjection
<1>3. PodPoints(n) = SetToSeq(T)
  BY DEF PodPoints
<1> HIDE DEF T
<1>4. PodPoints(n) \in Seq(T)
  BY <1>2, <1>3, ListOfSet
<1>5. T \subseteq {point \in PodPoint : Reports(n, point)}
  BY <1>1 DEF T
<1> QED
  BY <1>4, <1>5, SeqMonotonic

(* A kubelet that answers gives a point of its node and whole pods only.   *)
LEMMA SummaryType ==
  ASSUME Typed, NEW n \in Nodes
  PROVE  /\ Summary(n) \in [err : BOOLEAN, batch : Batch]
         /\ Summary(n).batch.nodes = <<NodePoint(n)>>
         /\ Summary(n).batch.pods = PodPoints(n)
<1>1. PodPoints(n) \in Seq(PodPoint)
  <2>1. {point \in PodPoint : Reports(n, point)} \subseteq PodPoint
    OBVIOUS
  <2> QED
    BY <2>1, PodPointsAreReported, SeqMonotonic
<1>2. <<NodePoint(n)>> \in Seq(Point)
  BY NodePointType
<1> QED
  BY <1>1, <1>2 DEF Summary, Batch

(* It is what the kubelet reports.                                         *)
LEMMA SummaryIsFresh ==
  ASSUME Typed, NEW n \in Nodes, cluster[n].status = "up"
  PROVE  FreshBatch(Summary(n).batch)
<1> DEFINE b == Summary(n).batch
<1>1. ASSUME NEW i \in DOMAIN b.nodes, b.nodes[i].name \in Nodes \ touched.now
      PROVE  b.nodes[i].usage = NodePoint(b.nodes[i].name).usage
  <2>1. b.nodes[i] = NodePoint(n)
    BY SummaryType
  <2> QED
    BY <1>1, <2>1, NodePointType, NameAssumption
<1>2. ASSUME NEW i \in DOMAIN b.pods
      PROVE  n \in GetMetricSources /\ cluster[n].pods[b.pods[i].name] = b.pods[i].containers
  <2> DEFINE T == {point \in PodPoint : Reports(n, point)}
  <2>1. PodPoints(n) \in Seq(T) /\ i \in DOMAIN PodPoints(n) /\ b.pods[i] = PodPoints(n)[i]
    BY PodPointsAreReported, SummaryType
  <2>2. b.pods[i] \in T
    <3> HIDE DEF T
    <3> QED
      BY <2>1
  <2> QED
    BY <2>2 DEF GetMetricSources, Known, Reports
<1> HIDE DEF b
<1>3. FreshBatch(b)
  BY <1>1, <1>2 DEF FreshBatch
<1> QED
  BY <1>3 DEF b

-----------------------------------------------------------------------------
(* Batches put together, and what the sink makes of one.                   *)

(* What is in a concatenation is in one of its parts.                      *)
LEMMA ConcatElement ==
  ASSUME NEW S, NEW s \in Seq(S), NEW t \in Seq(S), NEW i \in DOMAIN (s \o t)
  PROVE  (\E j \in DOMAIN s : (s \o t)[i] = s[j]) \/ (\E j \in DOMAIN t : (s \o t)[i] = t[j])
<1>1. /\ Len(s) \in Nat /\ Len(t) \in Nat /\ i \in 1 .. Len(s) + Len(t)
      /\ (s \o t)[i] = IF i <= Len(s) THEN s[i] ELSE t[i - Len(s)]
      /\ DOMAIN s = 1 .. Len(s) /\ DOMAIN t = 1 .. Len(t)
  BY ConcatProperties
<1>2. CASE i <= Len(s)
  BY <1>1, <1>2
<1>3. CASE i > Len(s)
  <2>1. i - Len(s) \in DOMAIN t
    BY <1>1, <1>3
  <2> QED
    BY <1>1, <1>3, <2>1
<1> QED
  BY <1>1, <1>2, <1>3

Joined(a, b) == [nodes |-> a.nodes \o b.nodes, pods |-> a.pods \o b.pods]

(* Two batches joined are a batch, and fresh when both are.                *)
LEMMA JoinedIsFresh ==
  ASSUME NEW a \in Batch, NEW b \in Batch
  PROVE  /\ Joined(a, b) \in Batch
         /\ FreshBatch(a) /\ FreshBatch(b) => FreshBatch(Joined(a, b))
<1>1. /\ a.nodes \in Seq(Point) /\ b.nodes \in Seq(Point)
      /\ a.pods \in Seq(PodPoint) /\ b.pods \in Seq(PodPoint)
  BY DEF Batch
<1>2. Joined(a, b) \in Batch
  BY <1>1, ConcatProperties DEF Batch, Joined
<1>4. ASSUME FreshBatch(a), FreshBatch(b) PROVE FreshBatch(Joined(a, b))
  <2> DEFINE c == Joined(a, b)
  <2>1. c.nodes = a.nodes \o b.nodes /\ c.pods = a.pods \o b.pods
    BY DEF Joined
  <2> HIDE DEF c
  <2>2. ASSUME NEW i \in DOMAIN c.nodes
        PROVE  (\E j \in DOMAIN a.nodes : c.nodes[i] = a.nodes[j]) \/ (\E j \in DOMAIN b.nodes : c.nodes[i] = b.nodes[j])
    <3> DEFINE s == a.nodes
               t == b.nodes
    <3>1. s \in Seq(Point) /\ t \in Seq(Point) /\ i \in DOMAIN (s \o t) /\ c.nodes = s \o t
      BY <1>1, <2>1
    <3> HIDE DEF s, t
    <3>2. (\E j \in DOMAIN s : (s \o t)[i] = s[j]) \/ (\E j \in DOMAIN t : (s \o t)[i] = t[j])
      BY <3>1, ConcatElement
    <3> QED
      BY <3>1, <3>2 DEF s, t
  <2>3. ASSUME NEW i \in DOMAIN c.pods
        PROVE  (\E j \in DOMAIN a.pods : c.pods[i] = a.pods[j]) \/ (\E j \in DOMAIN b.pods : c.pods[i] = b.pods[j])
    <3> DEFINE s == a.pods
               t == b.pods
    <3>1. s \in Seq(PodPoint) /\ t \in Seq(PodPoint) /\ i \in DOMAIN (s \o t) /\ c.pods = s \o t
      BY <1>1, <2>1
    <3> HIDE DEF s, t
    <3>2. (\E j \in DOMAIN s : (s \o t)[i] = s[j]) \/ (\E j \in DOMAIN t : (s \o t)[i] = t[j])
      BY <3>1, ConcatElement
    <3> QED
      BY <3>1, <3>2 DEF s, t
  <2>4. \A i \in DOMAIN c.nodes : c.nodes[i].name \in Nodes \ touched.now
          => c.nodes[i].usage = NodePoint(c.nodes[i].name).usage
    BY <1>4, <2>2 DEF FreshBatch
  <2>5. touched.now = {} => \A i \in DOMAIN c.pods :
          \E n \in GetMetricSources : cluster[n].pods[c.pods[i].name] = c.pods[i].containers
    BY <1>4, <2>3 DEF FreshBatch
  <2>6. FreshBatch(c)
    BY <2>4, <2>5 DEF FreshBatch
  <2> QED
    BY <2>6 DEF c
<1> QED
  BY <1>2, <1>4

(* The sink holds points of the batch, each under its name.                *)
LEMMA ByNameHolds ==
  ASSUME NEW points
  PROVE  \A k \in DOMAIN ByName(points) :
           \E i \in DOMAIN points : ByName(points)[k] = points[i] /\ points[i].name = k
<1> SUFFICES ASSUME NEW k \in DOMAIN ByName(points)
             PROVE  \E i \in DOMAIN points : ByName(points)[k] = points[i] /\ points[i].name = k
  OBVIOUS
<1> DEFINE S == {points[i] : i \in DOMAIN points}
<1>1. k \in {points[i].name : i \in DOMAIN points} /\ ByName(points)[k] = CHOOSE p \in S : p.name = k
  BY DEF ByName
<1>2. \E p \in S : p.name = k
  BY <1>1
<1>3. (CHOOSE p \in S : p.name = k) \in S /\ (CHOOSE p \in S : p.name = k).name = k
  BY <1>2
<1> QED
  BY <1>1, <1>3

-----------------------------------------------------------------------------
(* The channels.                                                           *)

(* What is due from the sources can be counted.                            *)
LEMMA DueIsFinite ==
  ASSUME Typed
  PROVE  /\ IsFiniteSet(ErrorsDue) /\ IsFiniteSet(BatchesDue)
         /\ Cardinality(ErrorsDue) \in Nat /\ Cardinality(BatchesDue) \in Nat
<1>1. ErrorsDue \subseteq Nodes /\ BatchesDue \subseteq Nodes
  BY DEF Typed, TypeOK, PointsFit, ErrorsDue, BatchesDue
<1> QED
  BY <1>1, FiniteAssumption, FS_Subset, FS_CardinalityType

(* When the loop waits for nobody every goroutine has sent both.           *)
LEMMA NobodySends ==
  ASSUME IInv, left = 0, step # "take"
  PROVE  errChannel = {} /\ responseChannel = {} /\ \A n \in Nodes : source[n] = "off"
<1>1. Typed /\ Cardinality(ErrorsDue) = 0 /\ Cardinality(BatchesDue) = 0
  BY DEF IInv, Typed, ChannelsFit
<1>2. ErrorsDue = {} /\ BatchesDue = {}
  BY <1>1, DueIsFinite, FS_EmptySet
<1>3. \A n \in Nodes : source[n] \in {"off", "fetch", "half"} /\ result[n].err \in BOOLEAN
  BY <1>1 DEF Typed, TypeOK, PointsFit
<1> QED
  BY <1>2, <1>3 DEF ErrorsDue, BatchesDue

Fresh ==
  /\ cluster \in [Nodes -> Kubelet] /\ changes \in 0 .. MaxChanges /\ Started
  /\ touched.now \subseteq touched.last /\ touched.last \subseteq Nodes

(* A process that starts satisfies the invariant.                          *)
LEMMA StartedInv == Fresh => IInv
<1> SUFFICES ASSUME Fresh PROVE IInv
  OBVIOUS
<1> USE DEF Fresh
<1>1. Typed
  <2>1. Cardinality(Nodes) \in Nat
    BY FiniteAssumption, FS_CardinalityType
  <2>2. NoResult \in [err : BOOLEAN, batch : Batch]
    BY EmptyBatch DEF NoResult
  <2>3. result \in [Nodes -> [err : BOOLEAN, batch : Batch]] /\ batch \in Batch
    BY <2>2, EmptyBatch DEF Started
  <2>4. DOMAIN nodes = {} /\ DOMAIN pods = {}
    BY DEF Started
  <2>5. source \in [Nodes -> {"off", "fetch", "half"}] /\ \A n \in Nodes : source[n] = "off"
    BY DEF Started
  <2>6. /\ errChannel \subseteq Nodes /\ responseChannel \subseteq Nodes /\ left \in 0 .. Cardinality(Nodes)
        /\ step \in {"idle", "collect", "take", "stored"}
    BY <2>1 DEF Started
  <2>7. failed \in BOOLEAN /\ lastOk \in BOOLEAN
    BY DEF Started
  <2> QED
    BY <2>3, <2>4, <2>5, <2>6, <2>7 DEF Typed, TypeOK, PointsFit
<1>2. ChannelsFit
  <2>1. ErrorsDue = {} /\ BatchesDue = {}
    BY DEF Started, ErrorsDue, BatchesDue
  <2> QED
    BY <2>1, FS_EmptySet DEF Started, ChannelsFit
<1>3. NothingIsStale
  <2>1. FreshBatch(NoBatch)
    BY EmptyBatch DEF FreshBatch
  <2> QED
    BY <2>1 DEF Started, NothingIsStale, NoResult
<1> QED
  BY <1>1, <1>2, <1>3 DEF IInv, Typed

(* The invariant holds initially.                                          *)
LEMMA InitInv == Init => IInv
<1> SUFFICES ASSUME Init PROVE IInv
  OBVIOUS
<1>1. cluster \in [Nodes -> Kubelet]
  <2>1. PICK u \in Usages : cluster = [n \in Nodes |-> [status |-> "up", stats |-> u, pods |-> [p \in Pods |-> None]]]
    BY DEF Init
  <2> QED
    BY <2>1 DEF Kubelet, Status, Stats
<1> QED
  BY <1>1, StartedInv, BoundAssumption DEF Init, Fresh

-----------------------------------------------------------------------------
(* Every step preserves the invariant.                                     *)

(* The action Tick preserves the invariant.                                *)
LEMMA TickInv == IInv /\ Tick => IInv'
<1> SUFFICES ASSUME IInv, Tick PROVE IInv'
  OBVIOUS
<1>1. /\ Typed /\ step = "idle" /\ left = 0 /\ result = [n \in Nodes |-> NoResult] /\ batch = NoBatch
      /\ errChannel = {} /\ responseChannel = {}
  BY NobodySends DEF IInv, Typed, ChannelsFit, Tick
<1>2. GetMetricSources \subseteq Nodes
  BY DEF GetMetricSources, Known
<1>3. left' \in 0 .. Cardinality(Nodes)
  BY <1>2, FiniteAssumption, FS_Subset, FS_CardinalityType DEF Tick
<1>4. Typed'
  <2>1. source' \in [Nodes -> {"off", "fetch", "half"}]
    BY DEF Tick
  <2>2. failed' \in BOOLEAN /\ step' = "collect" /\ batch' \in Batch
    BY EmptyBatch DEF Tick
  <2>3. touched'.last = touched.now /\ touched'.now = {}
    BY DEF Tick
  <2> QED
    BY <1>1, <1>3, <2>1, <2>2, <2>3 DEF Typed, TypeOK, PointsFit, Tick, sink
<1>5. ChannelsFit'
  <2>1. ErrorsDue' = GetMetricSources /\ BatchesDue' = GetMetricSources
    BY <1>1, <1>2 DEF Tick, ErrorsDue, BatchesDue
  <2> QED
    BY <1>1, <2>1 DEF Tick, ChannelsFit
<1>6. NothingIsStale'
  <2>1. FreshBatch(NoBatch)'
    BY EmptyBatch DEF FreshBatch
  <2>2. lastOk => FreshSink(touched.now)
    BY <1>1 DEF IInv, Typed, NothingIsStale, Changed
  <2>3. lastOk' => FreshSink(Changed)'
    BY <2>2 DEF Tick, sink, FreshSink, Changed, NodePoint, GetMetricSources, Known
  <2> QED
    BY <1>1, <2>1, <2>3 DEF Tick, NothingIsStale, NoResult
<1> QED
  BY <1>4, <1>5, <1>6 DEF IInv, Typed

(* Nothing becomes stale while the cluster rests.                          *)
LEMMA PointsStay ==
  ASSUME UNCHANGED cluster
  PROVE  GetMetricSources' = GetMetricSources /\ \A n \in Nodes : NodePoint(n)' = NodePoint(n)
  BY DEF NodePoint, GetMetricSources, Known

(* What the sink holds stays fresh when nothing touches it.                *)
LEMMA SinkStays ==
  ASSUME UNCHANGED <<cluster, touched, nodes, pods, lastOk>>, lastOk => FreshSink(Changed), Changed' = Changed
  PROVE  lastOk' => FreshSink(Changed)'
<1> SUFFICES ASSUME lastOk PROVE FreshSink(Changed)'
  OBVIOUS
<1>1. \A n \in DOMAIN nodes : n \in Nodes \ Changed => nodes[n].usage = NodePoint(n)'.usage
  BY PointsStay DEF FreshSink
<1>2. Changed = {} => \A p \in DOMAIN pods : \E n \in GetMetricSources' : cluster[n].pods[p] = pods[p].containers
  BY PointsStay DEF FreshSink
<1> QED
  BY <1>1, <1>2 DEF FreshSink

(* The batch in hand stays fresh when nothing touches it.                  *)
LEMMA NothingStays ==
  ASSUME NothingIsStale, UNCHANGED <<cluster, touched, result, batch, nodes, pods, lastOk>>,
         Changed' = Changed, step' # "stored"
  PROVE  NothingIsStale'
<1>1. FreshBatch(batch)'
  <2>1. FreshBatch(batch)
    BY DEF NothingIsStale
  <2> QED
    BY <2>1, PointsStay DEF FreshBatch
<1>2. ASSUME NEW n \in Nodes PROVE FreshBatch(result[n].batch)'
  <2>1. FreshBatch(result[n].batch)
    BY DEF NothingIsStale
  <2> QED
    BY <2>1, PointsStay DEF FreshBatch
<1>3. lastOk' => FreshSink(Changed)'
  BY SinkStays DEF NothingIsStale
<1> QED
  BY <1>1, <1>2, <1>3 DEF NothingIsStale

(* A goroutine that has what it will send.                                 *)
LEMMA FetchedInv ==
  ASSUME IInv, NEW n \in Nodes, NEW r \in [err : BOOLEAN, batch : Batch], FreshBatch(r.batch),
         Fetched(n, r), changes' \in 0 .. MaxChanges
  PROVE  IInv'
<1>1. Typed /\ source[n] = "fetch" /\ r.err \in BOOLEAN
  BY DEF IInv, Typed, Fetched
<1>2. /\ \A m \in Nodes : source'[m] = IF m = n THEN "half" ELSE source[m]
      /\ \A m \in Nodes : result'[m] = IF m = n THEN r ELSE result[m]
  BY <1>1 DEF Fetched, Typed, TypeOK, PointsFit
<1>3. step \in {"collect", "take"}
  BY <1>1 DEF Typed, TypeOK, PointsFit
<1>4. Typed'
  <2>1. source' \in [Nodes -> {"off", "fetch", "half"}] /\ result' \in [Nodes -> [err : BOOLEAN, batch : Batch]]
    BY <1>1 DEF Typed, TypeOK, PointsFit, Fetched
  <2>2. errChannel' \subseteq Nodes /\ responseChannel' \subseteq Nodes
    BY <1>1 DEF Typed, TypeOK, PointsFit, Fetched
  <2> QED
    BY <1>1, <1>3, <2>1, <2>2 DEF Typed, TypeOK, PointsFit, Fetched, manager, sink
<1>5. ChannelsFit'
  <2>1. ErrorsDue' = ErrorsDue
    <3>1. CASE r.err
      BY <1>1, <1>2, <3>1 DEF ErrorsDue, Fetched
    <3>2. CASE ~r.err
      BY <1>1, <1>2, <3>2 DEF ErrorsDue, Fetched
    <3> QED
      BY <3>1, <3>2
  <2>2. BatchesDue' = BatchesDue
    <3>1. CASE r.err
      BY <1>1, <1>2, <3>1 DEF BatchesDue, Fetched
    <3>2. CASE ~r.err
      BY <1>1, <1>2, <3>2 DEF BatchesDue, Fetched
    <3> QED
      BY <3>1, <3>2
  <2>3. \A m \in errChannel' : source'[m] = "off" \/ (source'[m] = "half" /\ result'[m].err)
    BY <1>1, <1>2 DEF IInv, Typed, TypeOK, PointsFit, ChannelsFit, Fetched
  <2>4. \A m \in responseChannel' : source'[m] = "off" \/ (source'[m] = "half" /\ ~result'[m].err)
    BY <1>1, <1>2 DEF IInv, Typed, TypeOK, PointsFit, ChannelsFit, Fetched
  <2> QED
    BY <1>3, <2>1, <2>2, <2>3, <2>4 DEF IInv, Typed, ChannelsFit, Fetched, manager
<1>6. NothingIsStale'
  <2>1. \A m \in Nodes : FreshBatch(result[m].batch) /\ FreshBatch(r.batch)
    BY DEF IInv, Typed, NothingIsStale
  <2>2. UNCHANGED <<cluster, touched, batch, nodes, pods, lastOk, step>>
    BY DEF Fetched, sink, manager
  <2>3. ASSUME NEW m \in Nodes PROVE FreshBatch(result[m].batch)'
    <3>1. FreshBatch(result'[m].batch)
      BY <1>2, <2>1
    <3> QED
      BY <2>2, <3>1, PointsStay DEF FreshBatch
  <2>4. FreshBatch(batch)'
    <3>1. FreshBatch(batch)
      BY DEF IInv, Typed, NothingIsStale
    <3> QED
      BY <2>2, <3>1, PointsStay DEF FreshBatch
  <2>5. lastOk' => FreshSink(Changed)'
    BY <2>2, SinkStays DEF IInv, Typed, NothingIsStale, Changed
  <2> QED
    BY <1>3, <2>2, <2>3, <2>4, <2>5 DEF NothingIsStale
<1> QED
  BY <1>4, <1>5, <1>6 DEF IInv, Typed

(* A goroutine that sends the second of its two.                           *)
LEMMA SendOtherInv ==
  ASSUME IInv, NEW n \in Nodes, SendOther(n)
  PROVE  IInv'
<1>1. Typed /\ source[n] = "half" /\ result[n].err \in BOOLEAN
  BY DEF IInv, Typed, SendOther, TypeOK, PointsFit
<1>2. \A m \in Nodes : source'[m] = IF m = n THEN "off" ELSE source[m]
  BY <1>1 DEF SendOther, Typed, TypeOK, PointsFit
<1>3. step \in {"collect", "take"}
  BY <1>1 DEF Typed, TypeOK, PointsFit
<1>4. Typed'
  <2>1. source' \in [Nodes -> {"off", "fetch", "half"}]
    BY <1>1 DEF Typed, TypeOK, PointsFit, SendOther
  <2>2. errChannel' \subseteq Nodes /\ responseChannel' \subseteq Nodes
    BY <1>1 DEF Typed, TypeOK, PointsFit, SendOther
  <2> QED
    BY <1>1, <1>3, <2>1, <2>2 DEF Typed, TypeOK, PointsFit, SendOther, manager, sink
<1>5. ChannelsFit'
  <2>1. ErrorsDue' = ErrorsDue
    BY <1>1, <1>2 DEF ErrorsDue, SendOther
  <2>2. BatchesDue' = BatchesDue
    BY <1>1, <1>2 DEF BatchesDue, SendOther
  <2>3. \A m \in errChannel' : source'[m] = "off" \/ (source'[m] = "half" /\ result'[m].err)
    BY <1>1, <1>2 DEF IInv, Typed, TypeOK, PointsFit, ChannelsFit, SendOther
  <2>4. \A m \in responseChannel' : source'[m] = "off" \/ (source'[m] = "half" /\ ~result'[m].err)
    BY <1>1, <1>2 DEF IInv, Typed, TypeOK, PointsFit, ChannelsFit, SendOther
  <2> QED
    BY <1>3, <2>1, <2>2, <2>3, <2>4 DEF IInv, Typed, ChannelsFit, SendOther, manager
<1>6. NothingIsStale'
  <2>1. UNCHANGED <<cluster, touched, result, batch, nodes, pods, lastOk, step>>
    BY DEF SendOther, sink, manager
  <2> QED
    BY <1>3, <2>1, NothingStays DEF IInv, Typed, Changed
<1> QED
  BY <1>4, <1>5, <1>6 DEF IInv, Typed

(* The action TakeError preserves the invariant.                           *)
LEMMA TakeErrorInv ==
  ASSUME IInv, NEW n \in Nodes, TakeError(n)
  PROVE  IInv'
<1>1. /\ Typed /\ left > 0 /\ left \in Nat /\ n \in errChannel /\ errChannel' = errChannel \ {n}
      /\ step = "collect" /\ step' = "take" /\ result[n].err \in BOOLEAN
      /\ UNCHANGED <<source, result, responseChannel, left, batch, nodes, pods, lastOk, cluster, touched, changes>>
  BY DEF IInv, Typed, TakeError, TypeOK, PointsFit, sink, environment
<1>2. Typed'
  <2>1. failed' \in BOOLEAN
    BY <1>1 DEF Typed, TypeOK, PointsFit, TakeError
  <2> QED
    BY <1>1, <2>1 DEF Typed, TypeOK, PointsFit
<1>3. ChannelsFit'
  <2>1. ErrorsDue' = ErrorsDue \ {n} /\ n \in ErrorsDue /\ BatchesDue' = BatchesDue
    BY <1>1 DEF IInv, Typed, ChannelsFit, ErrorsDue, BatchesDue
  <2>2. Cardinality(ErrorsDue') = Cardinality(ErrorsDue) - 1
    BY <1>1, <2>1, DueIsFinite, FS_RemoveElement
  <2> QED
    BY <1>1, <2>1, <2>2 DEF IInv, Typed, ChannelsFit
<1>4. NothingIsStale'
  BY <1>1, NothingStays DEF IInv, Typed, Changed
<1> QED
  BY <1>2, <1>3, <1>4 DEF IInv, Typed

(* The action TakeBatch preserves the invariant.                           *)
LEMMA TakeBatchInv ==
  ASSUME IInv, NEW n \in Nodes, TakeBatch(n)
  PROVE  IInv'
<1>1. /\ Typed /\ left > 0 /\ left \in Nat /\ n \in responseChannel /\ responseChannel' = responseChannel \ {n}
      /\ step = "take" /\ step' = "collect" /\ left' = left - 1 /\ batch' = Joined(batch, result[n].batch)
      /\ UNCHANGED <<failed, source, result, errChannel, nodes, pods, lastOk, cluster, touched, changes>>
  BY DEF IInv, Typed, ChannelsFit, TakeBatch, TypeOK, PointsFit, sink, environment, Joined
<1>2. batch \in Batch /\ result[n].batch \in Batch /\ FreshBatch(batch) /\ FreshBatch(result[n].batch)
  BY <1>1 DEF Typed, TypeOK, PointsFit, IInv, Typed, NothingIsStale
<1>3. Typed'
  <2>1. batch' \in Batch /\ left' \in 0 .. Cardinality(Nodes)
    BY <1>1, <1>2, JoinedIsFresh, FiniteAssumption, FS_CardinalityType DEF Typed, TypeOK, PointsFit
  <2> QED
    BY <1>1, <2>1 DEF Typed, TypeOK, PointsFit
<1>4. ChannelsFit'
  <2>1. BatchesDue' = BatchesDue \ {n} /\ n \in BatchesDue /\ ErrorsDue' = ErrorsDue
    BY <1>1 DEF IInv, Typed, ChannelsFit, ErrorsDue, BatchesDue
  <2>2. Cardinality(BatchesDue') = Cardinality(BatchesDue) - 1
    BY <1>1, <2>1, DueIsFinite, FS_RemoveElement
  <2> QED
    BY <1>1, <2>1, <2>2 DEF IInv, Typed, ChannelsFit
<1>5. NothingIsStale'
  <2>1. FreshBatch(Joined(batch, result[n].batch))
    BY <1>2, JoinedIsFresh
  <2>2. FreshBatch(batch')
    BY <1>1, <2>1
  <2>3. FreshBatch(batch)'
    BY <1>1, <2>2, PointsStay DEF FreshBatch
  <2>4. ASSUME NEW m \in Nodes PROVE FreshBatch(result[m].batch)'
    <3>1. FreshBatch(result[m].batch)
      BY DEF IInv, Typed, NothingIsStale
    <3> QED
      BY <1>1, <3>1, PointsStay DEF FreshBatch
  <2>5. lastOk' => FreshSink(Changed)'
    BY <1>1, SinkStays DEF IInv, Typed, NothingIsStale, Changed
  <2> QED
    BY <1>1, <2>3, <2>4, <2>5 DEF NothingIsStale
<1> QED
  BY <1>3, <1>4, <1>5 DEF IInv, Typed

(* The action Store preserves the invariant.                               *)
LEMMA StoreInv == IInv /\ Store => IInv'
<1> SUFFICES ASSUME IInv, Store PROVE IInv'
  OBVIOUS
<1>1. /\ Typed /\ step = "collect" /\ step' = "stored" /\ left = 0
      /\ UNCHANGED <<failed, source, result, errChannel, responseChannel, left, batch, lastOk, cluster, touched, changes>>
  BY DEF IInv, Typed, Store, channels, environment
<1>2. \A n \in Nodes : source[n] = "off"
  BY <1>1, NobodySends
<1>3. Typed'
  <2>1. DOMAIN nodes' \subseteq Nodes \cup {Unnamed} /\ \A n \in DOMAIN nodes' : nodes'[n] \in Point
    <3>1. CASE Refused
      BY <1>1, <3>1 DEF Store, sink, Typed, TypeOK, PointsFit
    <3>2. CASE ~Refused
      <4>1. nodes' = ByName(batch.nodes) /\ batch.nodes \in Seq(Point)
        BY <1>1, <3>2 DEF Store, Typed, TypeOK, PointsFit, Batch
      <4>2. \A i \in DOMAIN batch.nodes : batch.nodes[i] \in Point
        BY <4>1
      <4> QED
        BY <4>1, <4>2, ByNameHolds DEF Point
    <3> QED
      BY <3>1, <3>2
  <2>2. DOMAIN pods' \subseteq Pods /\ \A p \in DOMAIN pods' : pods'[p] \in PodPoint
    <3>1. CASE Refused
      BY <1>1, <3>1 DEF Store, sink, Typed, TypeOK, PointsFit
    <3>2. CASE ~Refused
      <4>1. pods' = ByName(batch.pods) /\ batch.pods \in Seq(PodPoint)
        BY <1>1, <3>2 DEF Store, Typed, TypeOK, PointsFit, Batch
      <4>2. \A i \in DOMAIN batch.pods : batch.pods[i] \in PodPoint
        BY <4>1
      <4> QED
        BY <4>1, <4>2, ByNameHolds DEF PodPoint
    <3> QED
      BY <3>1, <3>2
  <2> QED
    BY <1>1, <1>2, <2>1, <2>2 DEF Typed, TypeOK, PointsFit
<1>4. ChannelsFit'
  BY <1>1 DEF IInv, Typed, ChannelsFit, ErrorsDue, BatchesDue
<1>5. NothingIsStale'
  <2>1. FreshBatch(batch)
    BY DEF IInv, Typed, NothingIsStale
  <2>2. FreshBatch(batch)'
    BY <1>1, <2>1, PointsStay DEF FreshBatch
  <2>3. ASSUME NEW m \in Nodes PROVE FreshBatch(result[m].batch)'
    <3>1. FreshBatch(result[m].batch)
      BY DEF IInv, Typed, NothingIsStale
    <3> QED
      BY <1>1, <3>1, PointsStay DEF FreshBatch
  <2>4. Refused' = Refused /\ Changed' = Changed /\ Changed = touched.last /\ touched.now \subseteq touched.last
    BY <1>1 DEF Refused, Duplicates, Changed, Typed, TypeOK, PointsFit
  <2>5. ASSUME ~Refused PROVE FreshSink(touched.now)' /\ FreshSink(Changed)'
    <3>1. nodes' = ByName(batch.nodes) /\ pods' = ByName(batch.pods)
      BY <2>5 DEF Store
    <3>2. \A n \in DOMAIN nodes' : n \in Nodes \ touched.now => nodes'[n].usage = NodePoint(n).usage
      BY <2>1, <3>1, ByNameHolds DEF FreshBatch
    <3>3. touched.now = {} => \A p \in DOMAIN pods' : \E n \in GetMetricSources : cluster[n].pods[p] = pods'[p].containers
      BY <2>1, <3>1, ByNameHolds DEF FreshBatch
    <3>4. \A n \in DOMAIN nodes' : n \in Nodes \ touched.now => nodes'[n].usage = NodePoint(n)'.usage
      BY <1>1, <3>2, PointsStay
    <3>5. touched.now = {} => \A p \in DOMAIN pods' : \E n \in GetMetricSources' : cluster'[n].pods[p] = pods'[p].containers
      BY <1>1, <3>3, PointsStay
    <3>6. FreshSink(touched.now)'
      BY <1>1, <3>4, <3>5 DEF FreshSink
    <3>7. FreshSink(Changed)'
      BY <1>1, <2>4, <3>4, <3>5 DEF FreshSink
    <3> QED
      BY <3>6, <3>7
  <2>6. ASSUME Refused PROVE lastOk' => FreshSink(Changed)'
    BY <1>1, <2>4, <2>6, SinkStays DEF Store, sink, IInv, Typed, NothingIsStale
  <2> QED
    BY <1>1, <2>2, <2>3, <2>4, <2>5, <2>6 DEF NothingIsStale
<1> QED
  BY <1>3, <1>4, <1>5 DEF IInv, Typed

(* The action Finish preserves the invariant.                              *)
LEMMA FinishInv == IInv /\ Finish => IInv'
<1> SUFFICES ASSUME IInv, Finish PROVE IInv'
  OBVIOUS
<1>1. /\ Typed /\ step = "stored" /\ step' = "idle" /\ left = 0
      /\ UNCHANGED <<source, errChannel, responseChannel, left, nodes, pods, cluster, touched, changes>>
      /\ result' = [n \in Nodes |-> NoResult] /\ batch' = NoBatch
  BY DEF IInv, Typed, ChannelsFit, Finish, sink, environment
<1>2. errChannel = {} /\ responseChannel = {} /\ \A n \in Nodes : source[n] = "off"
  BY <1>1, NobodySends
<1>3. Typed'
  <2>1. result' \in [Nodes -> [err : BOOLEAN, batch : Batch]] /\ batch' \in Batch
    BY <1>1, EmptyBatch DEF NoResult
  <2>2. failed' \in BOOLEAN /\ lastOk' \in BOOLEAN
    BY DEF Finish, HealthyTick
  <2> QED
    BY <1>1, <1>2, <2>1, <2>2 DEF Typed, TypeOK, PointsFit
<1>4. ChannelsFit'
  <2>1. ErrorsDue' = {} /\ BatchesDue' = {}
    BY <1>1, <1>2 DEF ErrorsDue, BatchesDue
  <2> QED
    BY <1>1, <1>2, <2>1, FS_EmptySet DEF ChannelsFit
<1>5. NothingIsStale'
  <2>1. FreshBatch(NoBatch)'
    BY EmptyBatch DEF FreshBatch
  <2>2. lastOk' => FreshSink(touched.now)
    BY <1>1 DEF Finish, HealthyTick, IInv, Typed, NothingIsStale
  <2>3. lastOk' => FreshSink(Changed)'
    BY <1>1, <2>2, PointsStay DEF FreshSink, Changed
  <2> QED
    BY <1>1, <2>1, <2>3 DEF NothingIsStale, NoResult
<1> QED
  BY <1>3, <1>4, <1>5 DEF IInv, Typed

(* What a kubelet reports changes, and what is known of it is no longer    *)
(* held against anybody.                                                   *)
LEMMA ChangeInv ==
  ASSUME IInv, NEW n \in Nodes, NEW k \in Kubelet, Change(n, k)
  PROVE  IInv'
<1>1. /\ Typed /\ changes' \in 0 .. MaxChanges
      /\ touched'.now = touched.now \cup {n} /\ touched'.last = touched.last \cup {n}
      /\ UNCHANGED <<step, failed, source, result, errChannel, responseChannel, left, batch, nodes, pods, lastOk>>
      /\ cluster' = [cluster EXCEPT ![n] = k]
  BY BoundAssumption DEF IInv, Typed, TypeOK, PointsFit, Change, manager, channels, sink
<1>2. Typed'
  BY <1>1 DEF Typed, TypeOK, PointsFit
<1>3. ChannelsFit'
  BY <1>1 DEF IInv, Typed, ChannelsFit, ErrorsDue, BatchesDue
<1>4. \A m \in Nodes \ {n} : NodePoint(m)' = NodePoint(m)
  BY <1>1 DEF Typed, TypeOK, PointsFit, NodePoint
<1>5. touched'.now # {} /\ touched'.last # {} /\ Changed' = Changed \cup {n}
  BY <1>1 DEF Changed
<1>6. NothingIsStale'
  <2>1. FreshBatch(batch)'
    <3>1. FreshBatch(batch)
      BY DEF IInv, Typed, NothingIsStale
    <3> QED
      BY <1>1, <1>4, <1>5, <3>1 DEF FreshBatch
  <2>2. ASSUME NEW m \in Nodes PROVE FreshBatch(result[m].batch)'
    <3>1. FreshBatch(result[m].batch)
      BY DEF IInv, Typed, NothingIsStale
    <3> QED
      BY <1>1, <1>4, <1>5, <3>1 DEF FreshBatch
  <2>3. lastOk' => FreshSink(Changed)'
    BY <1>1, <1>4, <1>5 DEF IInv, Typed, NothingIsStale, FreshSink
  <2>4. (step = "stored" /\ ~Refused)' => FreshSink(touched.now)'
    <3>1. (step = "stored" /\ ~Refused)' => FreshSink(touched.now)
      BY <1>1 DEF IInv, Typed, NothingIsStale, Refused, Duplicates
    <3> QED
      BY <1>1, <1>4, <1>5, <3>1 DEF FreshSink
  <2> QED
    BY <2>1, <2>2, <2>3, <2>4 DEF NothingIsStale
<1> QED
  BY <1>2, <1>3, <1>6 DEF IInv, Typed

(* The action Restart preserves the invariant.                             *)
LEMMA RestartInv == IInv /\ Restart => IInv'
<1> SUFFICES ASSUME IInv, Restart PROVE IInv'
  OBVIOUS
<1>1. cluster' \in [Nodes -> Kubelet] /\ changes' \in 0 .. MaxChanges
  BY BoundAssumption DEF IInv, Typed, TypeOK, PointsFit, Restart
<1>2. touched'.now \subseteq touched'.last /\ touched'.last \subseteq Nodes
  BY DEF IInv, Typed, TypeOK, PointsFit, Restart
<1>3. Started'
  BY DEF Restart, Started
<1>4. Fresh'
  BY <1>1, <1>2, <1>3 DEF Fresh
<1> QED
  BY <1>4, StartedInv, PTL

(* A step that changes nothing preserves the invariant.                    *)
LEMMA StutterInv == IInv /\ UNCHANGED vars => IInv'
<1> SUFFICES ASSUME IInv, UNCHANGED vars PROVE IInv'
  OBVIOUS
<1> USE DEF vars, manager, channels, sink
<1>1. Typed'
  BY DEF IInv, Typed, TypeOK, PointsFit
<1>2. ChannelsFit'
  BY DEF IInv, Typed, ChannelsFit, ErrorsDue, BatchesDue
<1>3. NothingIsStale'
  <2>1. CASE step = "stored"
    <3>1. FreshBatch(batch) /\ \A n \in Nodes : FreshBatch(result[n].batch)
      BY DEF IInv, Typed, NothingIsStale
    <3>2. FreshBatch(batch)'
      BY <3>1, PointsStay DEF FreshBatch
    <3>3. ASSUME NEW n \in Nodes PROVE FreshBatch(result[n].batch)'
      <4>1. FreshBatch(result[n].batch)
        BY <3>1
      <4> QED
        BY <4>1, PointsStay DEF FreshBatch
    <3>4. lastOk' => FreshSink(Changed)'
      BY SinkStays DEF IInv, Typed, NothingIsStale, Changed
    <3>5. ASSUME ~Refused PROVE FreshSink(touched.now)'
      <4>1. FreshSink(touched.now)
        BY <2>1, <3>5 DEF IInv, Typed, NothingIsStale
      <4> QED
        BY <4>1, PointsStay DEF FreshSink
    <3> QED
      BY <3>2, <3>3, <3>4, <3>5 DEF NothingIsStale, Refused, Duplicates
  <2>2. CASE step # "stored"
    BY <2>2, NothingStays DEF IInv, Typed, Changed
  <2> QED
    BY <2>1, <2>2
<1> QED
  BY <1>1, <1>2, <1>3 DEF IInv, Typed

(* Next, action by action.                                                 *)
LEMMA NextInv == IInv /\ [Next]_vars => IInv'
<1> SUFFICES ASSUME IInv, [Next]_vars PROVE IInv'
  OBVIOUS
<1>1. ASSUME Collector PROVE IInv'
  BY <1>1, TickInv, TakeErrorInv, TakeBatchInv, StoreInv, FinishInv DEF Collector
<1>2. ASSUME NEW n \in Nodes, Answer(n) PROVE IInv'
  BY <1>2, SummaryType, SummaryIsFresh, FetchedInv DEF Answer, IInv, Typed, TypeOK, PointsFit
<1>3. ASSUME NEW n \in Nodes, Refuse(n) \/ TimeOut(n) PROVE IInv'
  <2> DEFINE r == [err |-> TRUE, batch |-> NoBatch]
  <2>1. r \in [err : BOOLEAN, batch : Batch] /\ FreshBatch(r.batch)
    BY EmptyBatch DEF FreshBatch
  <2>2. Fetched(n, r) /\ changes' \in 0 .. MaxChanges
    BY <1>3, BoundAssumption DEF Refuse, TimeOut, IInv, Typed, TypeOK, PointsFit
  <2> HIDE DEF r
  <2> QED
    BY <2>1, <2>2, FetchedInv
<1>4. ASSUME NEW n \in Nodes, SendOther(n) PROVE IInv'
  BY <1>4, SendOtherInv
<1>5. ASSUME NEW n \in Nodes, NEW k, Change(n, k),
             \/ \E s \in Status : k = [cluster[n] EXCEPT !.status = s]
             \/ \E s \in Stats : k = [cluster[n] EXCEPT !.stats = s]
             \/ \E p \in Pods, s \in PodStats \cup {None} : k = [cluster[n] EXCEPT !.pods[p] = s]
      PROVE  IInv'
  <2> DEFINE c == cluster[n]
  <2>1. c \in Kubelet
    BY DEF IInv, Typed, TypeOK, PointsFit
  <2> HIDE DEF c
  <2>2. ASSUME NEW s \in Status PROVE [c EXCEPT !.status = s] \in Kubelet
    BY <2>1 DEF Kubelet
  <2>3. ASSUME NEW s \in Stats PROVE [c EXCEPT !.stats = s] \in Kubelet
    BY <2>1 DEF Kubelet
  <2>4. ASSUME NEW p \in Pods, NEW s \in PodStats \cup {None} PROVE [c EXCEPT !.pods[p] = s] \in Kubelet
    BY <2>1 DEF Kubelet
  <2>5. k \in Kubelet
    BY <1>5, <2>2, <2>3, <2>4 DEF c
  <2> QED
    BY <1>5, <2>5, ChangeInv
<1>6. ASSUME Restart PROVE IInv'
  BY <1>6, RestartInv
<1>7. ASSUME UNCHANGED vars PROVE IInv'
  BY <1>7, StutterInv
<1> QED
  BY <1>1, <1>2, <1>3, <1>4, <1>5, <1>6, <1>7 DEF Next, Scraper, ChangeNode, ChangeStats, ChangePod

(* The invariant holds: the loop takes exactly what is sent, and what it   *)
(* has is what the kubelets report.                                        *)
THEOREM InvCorrect == Spec => []IInv
  BY InitInv, NextInv, PTL DEF Spec

(* Types; no goroutine is left with something to send when Collect returns *)
(* and closes the channels.                                                *)
THEOREM TypeCorrect == Spec => []TypeOK
<1>1. IInv => TypeOK
  BY DEF IInv
<1> QED
  BY <1>1, InvCorrect, PTL

(* While the health check passes nothing stale is served.                  *)
THEOREM FreshCorrect == Spec => []HealthyIsFresh
<1>1. IInv => HealthyIsFresh
  <2> SUFFICES ASSUME IInv, lastOk PROVE HealthyIsFresh
    BY DEF HealthyIsFresh, CheckHealth
  <2>1. FreshSink(Changed)
    BY DEF IInv, NothingIsStale
  <2> QED
    BY <2>1 DEF FreshSink, HealthyIsFresh, GetNodeMetrics
<1> QED
  BY <1>1, InvCorrect, PTL

(* No pod is served with a usage that was not measured.                    *)
THEOREM WholeCorrect == Spec => []PodsAreWhole
<1>1. IInv => PodsAreWhole
  <2> SUFFICES ASSUME IInv, NEW p \in DOMAIN pods, NEW i \in DOMAIN pods[p].containers
               PROVE  pods[p].containers[i] \in Usages
    BY DEF PodsAreWhole, GetContainerMetrics
  <2>1. pods[p].containers \in Seq(Usages)
    BY DEF IInv, PointsFit, PodPoint
  <2> QED
    BY <2>1
<1> QED
  BY <1>1, InvCorrect, PTL
=============================================================================
