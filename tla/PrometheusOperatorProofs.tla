----------------------- MODULE PrometheusOperatorProofs -----------------------
(***************************************************************************)
(* Proofs about PrometheusOperator for any rules, namespaces, specs and    *)
(* bounds: when nothing is left to do, what the operator made is what the  *)
(* Prometheus, its rules and its monitors ask for.                         *)
(***************************************************************************)
EXTENDS PrometheusOperator, SequenceTheorems, TLAPS

-----------------------------------------------------------------------------
(* What the informers have, the API server has and the watches bring.      *)

LogsOK ==
  DOMAIN log = Kinds /\ \A k \in Kinds : log[k] \in Seq(States(k)) /\ Len(log[k]) \in 1 .. MaxEvents + 1
ObjectsOK ==
  /\ DOMAIN cm \subseteq Nat /\ conf \in {None} \cup Secret
  /\ auth \in Versions \cup {0} /\ events \subseteq {"cm", "conf", "auth"}
  /\ service \subseteq 0 .. changes /\ lost \subseteq 0 .. changes
JobOK ==
  /\ queued \in BOOLEAN /\ delayed \in BOOLEAN /\ job \in Job
  /\ (job.step = "idle" <=> job = NoJob) /\ (job.prom = None <=> job = NoJob)
  /\ (job.step = "write" => job.conf \in Configuration)
CountersOK == changes \in 1 .. MaxChanges /\ faults \in 0 .. MaxChanges /\ changes + faults <= MaxChanges

(* The parts of the type invariant.                                        *)
LEMMA TypeParts == TypeOK <=> LogsOK /\ ObjectsOK /\ JobOK /\ CountersOK
  BY DEF TypeOK, LogsOK, ObjectsOK, JobOK, CountersOK

(* The kinds of objects and their states.                                  *)
LEMMA StatesOf ==
  /\ Kinds = {"prom", "rule", "smon", "ns", "sset"}
  /\ States("prom") = {None} \cup Prometheus /\ States("rule") = [Rules -> Versions \cup {0}]
  /\ States("smon") = {0, 1} /\ States("ns") = [Namespaces -> {"absent", "plain", "labelled"}]
  /\ States("sset") = {None} \cup StatefulSet
  BY DEF Kinds, States

(* The first state of a log is cached, the last one is in the API server.  *)
LEMMA LogType ==
  ASSUME LogsOK, NEW k \in Kinds
  PROVE  /\ log[k] \in Seq(States(k)) /\ Len(log[k]) \in Nat /\ 1 <= Len(log[k]) /\ Len(log[k]) <= MaxEvents + 1
         /\ DOMAIN log[k] = 1 .. Len(log[k])
         /\ Cached(k) = log[k][1] /\ Live(k) = log[k][Len(log[k])]
         /\ Range(log[k]) \subseteq States(k)
         /\ Cached(k) \in Range(log[k]) /\ Live(k) \in Range(log[k])
         /\ Cached(k) \in States(k) /\ Live(k) \in States(k)
         /\ (Len(log[k]) = 1 => Cached(k) = Live(k))
<1>1. log[k] \in Seq(States(k)) /\ Len(log[k]) \in 1 .. MaxEvents + 1
  BY DEF LogsOK
<1>2. Len(log[k]) \in Nat /\ 1 <= Len(log[k]) /\ Len(log[k]) <= MaxEvents + 1
  BY <1>1, BoundAssumption
<1> PICK q : q = log[k]
  OBVIOUS
<1>3. /\ DOMAIN q = 1 .. Len(q) /\ Head(q) = q[1] /\ Last(q) = q[Len(q)]
      /\ \A i \in DOMAIN q : q[i] \in States(k)
      /\ 1 \in DOMAIN q /\ Len(q) \in DOMAIN q
  BY <1>1, <1>2 DEF Last
<1>4. Range(q) \subseteq States(k) /\ q[1] \in Range(q) /\ q[Len(q)] \in Range(q)
  BY <1>3 DEF Range
<1> QED
  BY <1>1, <1>2, <1>3, <1>4 DEF Cached, Live

(* The logs of the other kinds stay.                                       *)
Others(k) ==
  /\ DOMAIN log' = Kinds
  /\ \A l \in Kinds \ {k} : log'[l] = log[l] /\ Cached(l)' = Cached(l) /\ Live(l)' = Live(l)

(* A write that changes an object.                                         *)
Written(k, s) ==
  /\ Others(k) /\ s # Live(k)
  /\ Len(log'[k]) = Len(log[k]) + 1 /\ Len(log'[k]) > 1
  /\ Range(log'[k]) = Range(log[k]) \cup {s}
  /\ Cached(k)' = Cached(k) /\ Live(k)' = s

(* A write to the API server appends to the log or changes nothing.        *)
LEMMA WriteStep ==
  ASSUME LogsOK, NEW k \in Kinds, NEW s \in States(k), Write(k, s)
  PROVE  LogsOK' /\ ((UNCHANGED log /\ s = Live(k)) \/ Written(k, s))
<1>1. CASE UNCHANGED log /\ s = Live(k)
  BY <1>1 DEF LogsOK
<1>2. CASE ~(UNCHANGED log /\ s = Live(k))
  <2>1. s # Live(k) /\ Len(log[k]) <= MaxEvents /\ log' = [log EXCEPT ![k] = Append(log[k], s)]
    BY <1>2 DEF Write
  <2> PICK q : q = log[k]
    OBVIOUS
  <2>2. /\ q \in Seq(States(k)) /\ Len(q) \in Nat /\ 1 <= Len(q) /\ DOMAIN q = 1 .. Len(q) /\ Cached(k) = q[1]
        /\ DOMAIN log = Kinds
    BY LogType DEF LogsOK
  <2> PICK r : r = Append(q, s)
    OBVIOUS
  <2>3. log'[k] = r /\ DOMAIN log' = Kinds /\ \A l \in Kinds \ {k} : log'[l] = log[l]
    BY <2>1, <2>2
  <2>4. /\ r \in Seq(States(k)) /\ Len(r) = Len(q) + 1 /\ DOMAIN r = 1 .. Len(q) + 1
        /\ \A i \in 1 .. Len(q) : r[i] = q[i]
        /\ r[Len(q) + 1] = s /\ Head(r) = q[1]
    BY <2>2
  <2>5. Last(r) = s
    BY <2>2, <2>4 DEF Last
  <2>6. Range(r) = Range(q) \cup {s}
    <3>1. \A i \in DOMAIN r : i \in DOMAIN q \/ i = Len(q) + 1
      BY <2>2, <2>4
    <3>2. Len(q) + 1 \in DOMAIN r /\ DOMAIN q \subseteq DOMAIN r
      BY <2>2, <2>4
    <3> QED
      BY <2>2, <2>4, <3>1, <3>2 DEF Range
  <2>7. Cached(k)' = Cached(k) /\ Live(k)' = s
    BY <2>2, <2>3, <2>4, <2>5 DEF Cached, Live
  <2>8. \A l \in Kinds \ {k} : Cached(l)' = Cached(l) /\ Live(l)' = Live(l)
    BY <2>3 DEF Cached, Live
  <2>9. Len(r) > 1 /\ Len(r) \in 1 .. MaxEvents + 1
    BY <2>1, <2>2, <2>4, BoundAssumption
  <2> QED
    BY <2>1, <2>3, <2>4, <2>6, <2>7, <2>8, <2>9 DEF LogsOK, Written, Others
<1> QED
  BY <1>1, <1>2

(* An informer sees the next state, and the rest of the log stays.         *)
LEMMA DeliverStep ==
  ASSUME LogsOK, NEW k \in Kinds, Deliver(k)
  PROVE  /\ LogsOK' /\ Others(k)
         /\ Range(log'[k]) \subseteq Range(log[k])
         /\ Cached(k)' = log[k][2] /\ Live(k)' = Live(k)
<1> PICK q : q = log[k]
  OBVIOUS
<1>1. /\ q \in Seq(States(k)) /\ Len(q) \in Nat /\ Len(q) > 1 /\ Len(q) <= MaxEvents + 1 /\ DOMAIN q = 1 .. Len(q)
      /\ Live(k) = q[Len(q)] /\ DOMAIN log = Kinds /\ log' = [log EXCEPT ![k] = Tail(q)]
  BY LogType DEF LogsOK, Deliver
<1> PICK r : r = Tail(q)
  OBVIOUS
<1>2. log'[k] = r /\ DOMAIN log' = Kinds /\ \A l \in Kinds \ {k} : log'[l] = log[l]
  BY <1>1
<1>3. /\ r \in Seq(States(k)) /\ Len(r) = Len(q) - 1 /\ DOMAIN r = 1 .. Len(q) - 1
      /\ \A i \in 1 .. Len(q) - 1 : r[i] = q[i + 1]
      /\ Head(r) = q[2]
  BY <1>1
<1>4. Last(r) = q[Len(q)]
  BY <1>1, <1>3 DEF Last
<1>5. Range(r) \subseteq Range(q)
  <2>1. ASSUME NEW i \in DOMAIN r PROVE i + 1 \in DOMAIN q /\ r[i] = q[i + 1]
    BY <1>1, <1>3
  <2> QED
    BY <2>1 DEF Range
<1>6. Cached(k)' = q[2] /\ Live(k)' = Live(k)
  BY <1>1, <1>2, <1>3, <1>4 DEF Cached, Live
<1>7. \A l \in Kinds \ {k} : Cached(l)' = Cached(l) /\ Live(l)' = Live(l)
  BY <1>2 DEF Cached, Live
<1>8. Len(r) \in 1 .. MaxEvents + 1
  BY <1>1, <1>3, BoundAssumption
<1> QED
  BY <1>1, <1>2, <1>3, <1>5, <1>6, <1>7, <1>8 DEF LogsOK, Others

(* An operator that starts again lists what the API server has.            *)
LEMMA RestartStep ==
  ASSUME LogsOK, log' = [k \in Kinds |-> <<Live(k)>>]
  PROVE  /\ LogsOK'
         /\ \A k \in Kinds : /\ log'[k] = <<Live(k)>> /\ Cached(k)' = Live(k) /\ Live(k)' = Live(k)
                             /\ Range(log'[k]) \subseteq Range(log[k])
<1>1. DOMAIN log' = Kinds /\ \A k \in Kinds : log'[k] = <<Live(k)>>
  OBVIOUS
<1>2. ASSUME NEW k \in Kinds
      PROVE  /\ log'[k] \in Seq(States(k)) /\ Len(log'[k]) = 1
             /\ Cached(k)' = Live(k) /\ Live(k)' = Live(k) /\ Range(log'[k]) \subseteq Range(log[k])
  <2> PICK x : x = Live(k)
    OBVIOUS
  <2>1. x \in States(k) /\ x \in Range(log[k]) /\ log'[k] = <<x>>
    BY <1>1, LogType
  <2>2. /\ <<x>> \in Seq(States(k)) /\ Len(<<x>>) = 1 /\ Head(<<x>>) = x /\ <<x>>[1] = x
        /\ DOMAIN <<x>> = {1}
    BY <2>1
  <2>3. Last(<<x>>) = x /\ Range(<<x>>) = {x}
    BY <2>2 DEF Last, Range
  <2> QED
    BY <2>1, <2>2, <2>3 DEF Cached, Live
<1>3. 1 \in 1 .. MaxEvents + 1
  BY BoundAssumption
<1> QED
  BY <1>1, <1>2, <1>3, Zenon DEF LogsOK

-----------------------------------------------------------------------------
(* Types.                                                                  *)

(* A job that has ended.                                                   *)
LEMMA JobEnds ==
  ASSUME job' = NoJob, queued' \in BOOLEAN, delayed' \in BOOLEAN
  PROVE  JobOK'
<1>1. NoJob \in Job /\ NoJob.step = "idle" /\ NoJob.prom = None
  BY DEF NoJob, Job, Steps
<1> QED
  BY <1>1 DEF JobOK

(* A job that goes on works on the same Prometheus.                        *)
LEMMA JobGoes ==
  ASSUME JobOK, job # NoJob, queued' = queued, delayed' = delayed,
         job' \in Job, job'.step # "idle", job'.prom = job.prom,
         job'.step = "write" => job'.conf \in Configuration
  PROVE  JobOK' /\ job' # NoJob
<1>1. NoJob.step = "idle" /\ job.prom # None
  BY DEF NoJob, JobOK
<1>2. job' # NoJob
  BY <1>1
<1> QED
  BY <1>1, <1>2 DEF JobOK

(* The fields of a job.                                                    *)
LEMMA JobFields ==
  ASSUME JobOK, job # NoJob
  PROVE  /\ job.step \in Steps \ {"idle"} /\ job.prom \in Prometheus /\ job.prom # None
         /\ job.want \in SUBSET (Rules \X Versions) /\ job.doomed \in SUBSET Nat /\ job.next \in Nat
         /\ job.names \in SUBSET Nat /\ job.conf \in {None} \cup Configuration /\ job.found \in BOOLEAN
         /\ job.owners \in SUBSET Nat
         /\ job.prom.uid \in Nat /\ job.prom.rv \in Nat /\ job.prom.spec \in Specs
BY DEF JobOK, Job, Prometheus

(* A spec and its fields.                                                  *)
LEMMA SpecFields ==
  ASSUME NEW s \in Specs
  PROVE  s.paused \in BOOLEAN /\ s.managed \in BOOLEAN /\ s.across \in BOOLEAN /\ s.shape \in Nat
BY SpecAssumption

(* A fault is counted.                                                     *)
LEMMA FaultCounts ==
  ASSUME CountersOK, Fault, changes' = changes
  PROVE  CountersOK'
BY BoundAssumption DEF CountersOK, Fault

(* What a job writes has its type.                                         *)
LEMMA MadeTypes ==
  ASSUME LogsOK, ObjectsOK, JobOK, job # NoJob
  PROVE  /\ MakeStatefulSet(job.prom, job.names) \in StatefulSet
         /\ Config(SelectedMonitor(job.prom.spec, Cached("smon"), Cached("ns")), auth, job.names) \in Configuration
         /\ \A want \in Selections(job.prom.spec, Cached("rule"), Cached("ns")) : want \in SUBSET (Rules \X Versions)
<1>1. MakeStatefulSet(job.prom, job.names) \in StatefulSet
  BY JobFields, SpecFields DEF MakeStatefulSet, InputHash, StatefulSet
<1>2. Config(SelectedMonitor(job.prom.spec, Cached("smon"), Cached("ns")), auth, job.names) \in Configuration
  <2>1. Cached("smon") \in {0, 1} /\ auth \in Nat
    BY LogType, StatesOf, RuleAssumption DEF ObjectsOK
  <2>2. SelectedMonitor(job.prom.spec, Cached("smon"), Cached("ns")) \in {0, 1}
    BY <2>1 DEF SelectedMonitor
  <2> QED
    BY <2>1, <2>2, JobFields DEF Config, Configuration
<1>3. ASSUME NEW want \in Selections(job.prom.spec, Cached("rule"), Cached("ns"))
      PROVE  want \in SUBSET (Rules \X Versions)
  <2>1. Cached("rule") \in [Rules -> Versions \cup {0}]
    BY LogType, StatesOf
  <2> PICK rule : rule = Cached("rule")
    OBVIOUS
  <2>2. PICK S \in SelectedRules(job.prom.spec, rule, Cached("ns")) : want = Content(S, rule)
    BY <1>3 DEF Selections
  <2>3. \A r \in S : r \in Rules /\ rule[r] # 0
    BY DEF SelectedRules
  <2> QED
    BY <2>1, <2>2, <2>3 DEF Content
<1> QED
  BY <1>1, <1>2, <1>3

(* The steps of the worker keep the types.                                 *)
LEMMA BeginType == ASSUME TypeOK, Begin PROVE TypeOK'
<1>1. LogsOK /\ ObjectsOK /\ JobOK /\ CountersOK
  BY TypeParts
<1>2. UNCHANGED <<log, cm, conf, auth, events, service, lost, delayed, changes, faults>> /\ queued' = FALSE
  BY DEF Begin, secrets, counters
<1>3. LogsOK' /\ ObjectsOK' /\ CountersOK'
  BY <1>1, <1>2 DEF LogsOK, ObjectsOK, CountersOK
<1>4. delayed' \in BOOLEAN
  BY <1>1, <1>2 DEF JobOK
<1>5. Cached("prom") \in {None} \cup Prometheus
  BY <1>1, LogType, StatesOf
<1> PICK p : p = Cached("prom")
  OBVIOUS
<1>6. CASE job' = NoJob
  <2>1. JobOK'
    BY <1>2, <1>4, <1>6, JobEnds
  <2> QED
    BY <1>3, <2>1, TypeParts, PTL
<1>7. CASE p # None /\ job' = [NoJob EXCEPT !.step = "rules", !.prom = p]
  <2>1. job' \in Job /\ job'.step = "rules" /\ job'.prom = p
    BY <1>5, <1>7 DEF NoJob, Job, Steps
  <2>2. JobOK'
    BY <1>2, <1>4, <1>7, <2>1 DEF JobOK, NoJob
  <2> QED
    BY <1>3, <2>2, TypeParts, PTL
<1>8. job' = NoJob \/ (p # None /\ job' = [NoJob EXCEPT !.step = "rules", !.prom = p])
  <2> HIDE DEF NoJob
  <2>1. job' = IF p = None THEN NoJob
               ELSE IF p.spec.paused THEN NoJob
               ELSE [NoJob EXCEPT !.step = "rules", !.prom = p]
    BY DEF Begin
  <2> QED
    BY <2>1
<1> QED
  BY <1>6, <1>7, <1>8

(* The action ListRules keeps the types.                                   *)
LEMMA ListRulesType == ASSUME TypeOK, ListRules PROVE TypeOK'
<1>1. LogsOK /\ ObjectsOK /\ JobOK /\ CountersOK
  BY TypeParts
<1>2. UNCHANGED <<log, cm, conf, auth, events, service, lost, queued, changes, faults>> /\ job # NoJob
  BY <1>1 DEF ListRules, secrets, counters, JobOK
<1>3. LogsOK' /\ ObjectsOK' /\ CountersOK'
  BY <1>1, <1>2 DEF LogsOK, ObjectsOK, CountersOK
<1>4. PICK want \in Selections(job.prom.spec, Cached("rule"), Cached("ns")) :
        \/ job' = [job EXCEPT !.step = "config", !.names = DOMAIN cm] /\ UNCHANGED delayed
        \/ Retry
        \/ job' = [job EXCEPT !.step = "maps", !.want = want, !.doomed = DOMAIN cm] /\ UNCHANGED delayed
  BY DEF ListRules
<1>5. want \in SUBSET (Rules \X Versions) /\ DOMAIN cm \in SUBSET Nat
  BY <1>1, <1>2, MadeTypes DEF ObjectsOK
<1>6. CASE Retry
  <2>1. JobOK'
    BY <1>1, <1>2, <1>6, JobEnds DEF Retry, JobOK
  <2> QED
    BY <1>3, <2>1, TypeParts, PTL
<1>7. CASE job' = [job EXCEPT !.step = "config", !.names = DOMAIN cm] /\ UNCHANGED delayed
  <2>1. job' \in Job /\ job'.step = "config" /\ job'.prom = job.prom
    BY <1>1, <1>5, <1>7 DEF JobOK, Job, Steps
  <2>2. JobOK'
    BY <1>1, <1>2, <1>7, <2>1, JobGoes
  <2> QED
    BY <1>3, <2>2, TypeParts, PTL
<1>8. CASE job' = [job EXCEPT !.step = "maps", !.want = want, !.doomed = DOMAIN cm] /\ UNCHANGED delayed
  <2>1. job' \in Job /\ job'.step = "maps" /\ job'.prom = job.prom
    BY <1>1, <1>5, <1>8 DEF JobOK, Job, Steps
  <2>2. JobOK'
    BY <1>1, <1>2, <1>8, <2>1, JobGoes
  <2> QED
    BY <1>3, <2>2, TypeParts, PTL
<1> QED
  BY <1>4, <1>6, <1>7, <1>8

(* The action DeleteConfigMap keeps the types.                             *)
LEMMA DeleteConfigMapType == ASSUME TypeOK, DeleteConfigMap PROVE TypeOK'
<1>1. LogsOK /\ ObjectsOK /\ JobOK /\ CountersOK
  BY TypeParts
<1>2. UNCHANGED <<log, conf, auth, service, lost, queued, changes, faults>> /\ job # NoJob /\ job.step = "maps"
  BY <1>1 DEF DeleteConfigMap, secrets, counters, JobOK
<1>3. LogsOK' /\ CountersOK'
  BY <1>1, <1>2 DEF LogsOK, CountersOK
<1>4. PICK n :
        \/ SetConfigMaps(Without(cm, n)) /\ job' = [job EXCEPT !.doomed = @ \ {n}] /\ UNCHANGED delayed
        \/ Retry /\ UNCHANGED <<cm, events>>
  BY DEF DeleteConfigMap
<1>5. ObjectsOK'
  <2>1. DOMAIN cm' \subseteq Nat
    BY <1>1, <1>4 DEF SetConfigMaps, Without, ObjectsOK
  <2>2. events' \subseteq {"cm", "conf", "auth"}
    BY <1>1, <1>4 DEF SetConfigMaps, ObjectsOK
  <2> QED
    BY <1>1, <1>2, <2>1, <2>2 DEF ObjectsOK
<1>6. CASE Retry
  <2>1. JobOK'
    BY <1>1, <1>2, <1>6, JobEnds DEF Retry, JobOK
  <2> QED
    BY <1>3, <1>5, <2>1, TypeParts, PTL
<1>7. CASE job' = [job EXCEPT !.doomed = @ \ {n}] /\ UNCHANGED delayed
  <2>1. job' \in Job /\ job'.step = "maps" /\ job'.prom = job.prom
    BY <1>1, <1>2, <1>7 DEF JobOK, Job, Steps
  <2>2. JobOK'
    BY <1>1, <1>2, <1>7, <2>1, JobGoes
  <2> QED
    BY <1>3, <1>5, <2>2, TypeParts, PTL
<1> QED
  BY <1>4, <1>6, <1>7

(* The action CreateConfigMap keeps the types.                             *)
LEMMA CreateConfigMapType == ASSUME TypeOK, CreateConfigMap PROVE TypeOK'
<1>1. LogsOK /\ ObjectsOK /\ JobOK /\ CountersOK
  BY TypeParts
<1>2. UNCHANGED <<log, conf, auth, service, lost, queued, changes, faults>> /\ job # NoJob /\ job.step = "maps"
  BY <1>1 DEF CreateConfigMap, secrets, counters, JobOK
<1>3. LogsOK' /\ CountersOK'
  BY <1>1, <1>2 DEF LogsOK, CountersOK
<1> PICK n : n = job.next
  OBVIOUS
<1>4. \/ Retry /\ UNCHANGED <<cm, events>>
      \/ /\ \E c : SetConfigMaps(With(cm, n, c))
         /\ UNCHANGED delayed
         /\ \/ job' = [job EXCEPT !.next = n + 1]
            \/ job' = [job EXCEPT !.step = "config", !.want = {}, !.next = 0, !.names = 0 .. n]
  BY DEF CreateConfigMap
<1>5. n \in Nat /\ 0 .. n \in SUBSET Nat
  BY <1>1, <1>2, JobFields
<1>6. ObjectsOK'
  <2>1. DOMAIN cm' \subseteq Nat
    BY <1>1, <1>4, <1>5 DEF SetConfigMaps, With, ObjectsOK
  <2>2. events' \subseteq {"cm", "conf", "auth"}
    BY <1>1, <1>4 DEF SetConfigMaps, ObjectsOK
  <2> QED
    BY <1>1, <1>2, <2>1, <2>2 DEF ObjectsOK
<1>7. CASE Retry
  <2>1. JobOK'
    BY <1>1, <1>2, <1>7, JobEnds DEF Retry, JobOK
  <2> QED
    BY <1>3, <1>6, <2>1, TypeParts, PTL
<1>8. CASE job' = [job EXCEPT !.next = n + 1] /\ UNCHANGED delayed
  <2>1. job' \in Job /\ job'.step = "maps" /\ job'.prom = job.prom
    BY <1>1, <1>2, <1>5, <1>8 DEF JobOK, Job, Steps
  <2>2. JobOK'
    BY <1>1, <1>2, <1>8, <2>1, JobGoes
  <2> QED
    BY <1>3, <1>6, <2>2, TypeParts, PTL
<1>9. CASE job' = [job EXCEPT !.step = "config", !.want = {}, !.next = 0, !.names = 0 .. n] /\ UNCHANGED delayed
  <2>1. job' \in Job /\ job'.step = "config" /\ job'.prom = job.prom
    BY <1>1, <1>5, <1>9 DEF JobOK, Job, Steps
  <2>2. JobOK'
    BY <1>1, <1>2, <1>9, <2>1, JobGoes
  <2> QED
    BY <1>3, <1>6, <2>2, TypeParts, PTL
<1> QED
  BY <1>4, <1>7, <1>8, <1>9

(* The action Configure keeps the types.                                   *)
LEMMA ConfigureType == ASSUME TypeOK, Configure PROVE TypeOK'
<1>1. LogsOK /\ ObjectsOK /\ JobOK /\ CountersOK
  BY TypeParts
<1>2. UNCHANGED <<log, cm, conf, auth, events, service, lost, queued, changes>> /\ job # NoJob
  BY <1>1 DEF Configure, secrets, JobOK
<1>3. LogsOK' /\ ObjectsOK'
  BY <1>1, <1>2 DEF LogsOK, ObjectsOK
<1> PICK new : new = Config(SelectedMonitor(job.prom.spec, Cached("smon"), Cached("ns")), auth, job.names)
  OBVIOUS
<1>4. \/ Jump("secret") /\ UNCHANGED <<delayed, faults>>
      \/ Retry /\ UNCHANGED faults
      \/ job' = [job EXCEPT !.step = "write", !.conf = new, !.found = conf # None] /\ UNCHANGED <<delayed, faults>>
      \/ GetFails(new) /\ UNCHANGED delayed
  BY DEF Configure
<1>5. new \in Configuration
  BY <1>1, <1>2, MadeTypes
<1>6. CountersOK'
  BY <1>1, <1>2, <1>4, FaultCounts DEF CountersOK, GetFails
<1>7. CASE Retry
  <2>1. JobOK'
    BY <1>1, <1>2, <1>7, JobEnds DEF Retry, JobOK
  <2> QED
    BY <1>3, <1>6, <2>1, TypeParts, PTL
<1>8. CASE Jump("secret") /\ UNCHANGED delayed
  <2>1. job' \in Job /\ job'.step = "secret" /\ job'.prom = job.prom
    BY <1>1, <1>8 DEF JobOK, Job, Steps, Jump
  <2>2. JobOK'
    BY <1>1, <1>2, <1>8, <2>1, JobGoes
  <2> QED
    BY <1>3, <1>6, <2>2, TypeParts, PTL
<1>9. CASE /\ UNCHANGED delayed
           /\ \E b \in BOOLEAN : job' = [job EXCEPT !.step = "write", !.conf = new, !.found = b]
  <2>1. job' \in Job /\ job'.step = "write" /\ job'.prom = job.prom /\ job'.conf = new
    BY <1>1, <1>5, <1>9 DEF JobOK, Job, Steps
  <2>2. JobOK'
    BY <1>1, <1>2, <1>5, <1>9, <2>1, JobGoes
  <2> QED
    BY <1>3, <1>6, <2>2, TypeParts, PTL
<1>10. (conf # None) \in BOOLEAN
  OBVIOUS
<1> QED
  BY <1>4, <1>7, <1>8, <1>9, <1>10 DEF GetFails

(* The action WriteConfiguration keeps the types.                          *)
LEMMA WriteConfigurationType == ASSUME TypeOK, WriteConfiguration PROVE TypeOK'
<1>1. LogsOK /\ ObjectsOK /\ JobOK /\ CountersOK
  BY TypeParts
<1>2. UNCHANGED <<log, cm, auth, service, lost, queued, changes, faults>> /\ job # NoJob /\ job.step = "write"
  BY <1>1 DEF WriteConfiguration, counters, JobOK
<1>3. LogsOK' /\ CountersOK'
  BY <1>1, <1>2 DEF LogsOK, CountersOK
<1>4. \/ Retry /\ UNCHANGED <<conf, events>>
      \/ /\ SetConf([owner |-> job.prom.uid, config |-> job.conf]) /\ UNCHANGED delayed
         /\ job' = [job EXCEPT !.step = "secret", !.conf = None, !.found = FALSE]
  BY DEF WriteConfiguration
<1>5. [owner |-> job.prom.uid, config |-> job.conf] \in Secret
  BY <1>1, <1>2, JobFields DEF JobOK, Secret
<1>6. ObjectsOK'
  <2>1. conf' \in {None} \cup Secret /\ events' \subseteq {"cm", "conf", "auth"}
    BY <1>1, <1>4, <1>5 DEF SetConf, ObjectsOK
  <2> QED
    BY <1>1, <1>2, <2>1 DEF ObjectsOK
<1>7. CASE Retry
  <2>1. JobOK'
    BY <1>1, <1>2, <1>7, JobEnds DEF Retry, JobOK
  <2> QED
    BY <1>3, <1>6, <2>1, TypeParts, PTL
<1>8. CASE UNCHANGED delayed /\ job' = [job EXCEPT !.step = "secret", !.conf = None, !.found = FALSE]
  <2>1. job' \in Job /\ job'.step = "secret" /\ job'.prom = job.prom
    BY <1>1, <1>8 DEF JobOK, Job, Steps
  <2>2. JobOK'
    BY <1>1, <1>2, <1>8, <2>1, JobGoes
  <2> QED
    BY <1>3, <1>6, <2>2, TypeParts, PTL
<1> QED
  BY <1>4, <1>7, <1>8

(* The two steps that only go on.                                          *)
LEMMA CreateEmptySecretType == ASSUME TypeOK, CreateEmptySecret PROVE TypeOK'
<1>1. LogsOK /\ ObjectsOK /\ JobOK /\ CountersOK
  BY TypeParts
<1>2. UNCHANGED <<log, cm, auth, service, lost, queued, delayed, changes, faults>> /\ job # NoJob /\ Jump("service")
  BY <1>1 DEF CreateEmptySecret, counters, JobOK
<1>3. LogsOK' /\ CountersOK'
  BY <1>1, <1>2 DEF LogsOK, CountersOK
<1>4. [owner |-> job.prom.uid, config |-> EmptyConfig] \in Secret
  BY <1>1, <1>2, JobFields DEF EmptyConfig, Configuration, Secret
<1>5. ObjectsOK'
  <2>1. conf' \in {None} \cup Secret /\ events' \subseteq {"cm", "conf", "auth"}
    BY <1>1, <1>4 DEF CreateEmptySecret, SetConf, ObjectsOK
  <2> QED
    BY <1>1, <1>2, <2>1 DEF ObjectsOK
<1>6. job' \in Job /\ job'.step = "service" /\ job'.prom = job.prom
  BY <1>1, <1>2 DEF JobOK, Job, Steps, Jump
<1>7. JobOK'
  BY <1>1, <1>2, <1>6, JobGoes
<1> QED
  BY <1>3, <1>5, <1>7, TypeParts, PTL

(* The action GetService keeps the types.                                  *)
LEMMA GetServiceType == ASSUME TypeOK, GetService PROVE TypeOK'
<1>1. LogsOK /\ ObjectsOK /\ JobOK /\ CountersOK
  BY TypeParts
<1>2. /\ UNCHANGED <<log, cm, conf, auth, events, service, lost, queued, delayed, changes, faults>>
      /\ job # NoJob /\ job' = [job EXCEPT !.step = "put", !.owners = service]
  BY <1>1 DEF GetService, counters, secrets, JobOK
<1>3. LogsOK' /\ CountersOK' /\ ObjectsOK'
  BY <1>1, <1>2 DEF LogsOK, CountersOK, ObjectsOK
<1>4. service \in SUBSET Nat
  BY <1>1 DEF ObjectsOK, CountersOK
<1>5. job' \in Job /\ job'.step = "put" /\ job'.prom = job.prom
  BY <1>1, <1>2, <1>4 DEF JobOK, Job, Steps
<1>6. JobOK'
  BY <1>1, <1>2, <1>5, JobGoes
<1> QED
  BY <1>3, <1>6, TypeParts, PTL

(* The action CreateOrUpdateService keeps the types.                       *)
LEMMA CreateOrUpdateServiceType == ASSUME TypeOK, VersionsFit, CreateOrUpdateService PROVE TypeOK'
<1>1. LogsOK /\ ObjectsOK /\ JobOK /\ CountersOK
  BY TypeParts
<1>2. /\ UNCHANGED <<log, cm, conf, auth, events, queued, delayed, changes, faults>>
      /\ job # NoJob /\ job' = [job EXCEPT !.step = "sset", !.owners = {}]
      /\ service' \subseteq service \cup {job.prom.uid} /\ lost' \subseteq lost \cup {job.prom.uid}
  BY <1>1 DEF CreateOrUpdateService, MergeOwners, counters, secrets, JobOK
<1>3. LogsOK' /\ CountersOK'
  BY <1>1, <1>2 DEF LogsOK, CountersOK
<1>4. job.prom.uid \in 0 .. changes
  <2>1. job.prom \in Seen
    BY <1>1, <1>2 DEF Seen, JobOK
  <2>2. job.prom.uid \in 1 .. job.prom.rv /\ job.prom.rv <= changes /\ job.prom.rv \in Nat /\ changes \in Nat
    BY <1>1, <1>2, <2>1, JobFields DEF VersionsFit, CountersOK
  <2> QED
    BY <2>2
<1>5. ObjectsOK'
  BY <1>1, <1>2, <1>4 DEF ObjectsOK
<1>6. job' \in Job /\ job'.step = "sset" /\ job'.prom = job.prom
  BY <1>1, <1>2 DEF JobOK, Job, Steps
<1>7. JobOK'
  BY <1>1, <1>2, <1>6, JobGoes
<1> QED
  BY <1>3, <1>5, <1>7, TypeParts, PTL

(* The action ServiceConflict keeps the types.                             *)
LEMMA ServiceConflictType == ASSUME TypeOK, ServiceConflict PROVE TypeOK'
<1>1. LogsOK /\ ObjectsOK /\ JobOK /\ CountersOK
  BY TypeParts
<1>2. UNCHANGED <<log, cm, conf, auth, events, service, lost, queued, changes, faults>> /\ Retry
  BY DEF ServiceConflict, secrets, counters
<1>3. LogsOK' /\ ObjectsOK' /\ CountersOK' /\ JobOK'
  BY <1>1, <1>2, JobEnds DEF LogsOK, ObjectsOK, CountersOK, Retry, JobOK
<1> QED
  BY <1>3, TypeParts, PTL

(* What sync does to the StatefulSet: nothing, or one of two writes.       *)
LEMMA ApplyCases ==
  ASSUME ApplyStatefulSet, NEW new, new = MakeStatefulSet(job.prom, job.names)
  PROVE  \/ UNCHANGED log /\ Retry
         \/ Cached("sset") # None /\ SameHash(Cached("sset"), new) /\ UNCHANGED log /\ Done
         \/ Cached("sset") = None /\ Live("sset") = None /\ Write("sset", new) /\ Done
         \/ /\ Cached("sset") # None /\ ~SameHash(Cached("sset"), new) /\ Live("sset") # None /\ Done
            /\ \/ /\ Live("sset").shape = new.shape
                  /\ Write("sset", [new EXCEPT !.deleting = Live("sset").deleting])
               \/ /\ Live("sset").shape # new.shape
                  /\ Write("sset", [Live("sset") EXCEPT !.deleting = TRUE])
<1> HIDE DEF SameHash
<1> QED
  BY DEF ApplyStatefulSet

(* The StatefulSets that it writes.                                        *)
LEMMA AppliedTypes ==
  ASSUME LogsOK, ObjectsOK, JobOK, job # NoJob, NEW new, new = MakeStatefulSet(job.prom, job.names)
  PROVE  /\ new \in StatefulSet
         /\ Live("sset") \in {None} \cup StatefulSet
         /\ Live("sset") # None => /\ [new EXCEPT !.deleting = Live("sset").deleting] \in StatefulSet
                                   /\ [Live("sset") EXCEPT !.deleting = TRUE] \in StatefulSet
<1>1. new \in StatefulSet
  BY MadeTypes
<1>2. Live("sset") \in {None} \cup StatefulSet
  BY LogType, StatesOf
<1> QED
  BY <1>1, <1>2 DEF StatefulSet

(* The action ApplyStatefulSet keeps the types.                            *)
LEMMA ApplyStatefulSetType == ASSUME TypeOK, ApplyStatefulSet PROVE TypeOK'
<1>1. LogsOK /\ ObjectsOK /\ JobOK /\ CountersOK
  BY TypeParts
<1>2. UNCHANGED <<cm, conf, auth, events, service, lost, queued, changes, faults>> /\ job # NoJob
  BY <1>1 DEF ApplyStatefulSet, secrets, counters, JobOK
<1>3. ObjectsOK' /\ CountersOK'
  BY <1>1, <1>2 DEF ObjectsOK, CountersOK
<1> PICK new : new = MakeStatefulSet(job.prom, job.names)
  OBVIOUS
<1>4. LogsOK'
  <2>1. UNCHANGED log \/ \E s \in StatefulSet : Write("sset", s)
    BY <1>1, <1>2, ApplyCases, AppliedTypes
  <2>2. UNCHANGED log \/ \E s \in States("sset") : Write("sset", s)
    BY <2>1, StatesOf
  <2>3. "sset" \in Kinds
    BY StatesOf
  <2>4. CASE UNCHANGED log
    BY <1>1, <2>4 DEF LogsOK
  <2> QED
    BY <1>1, <2>2, <2>3, <2>4, WriteStep
<1>5. Retry \/ Done
  BY ApplyCases
<1>6. JobOK'
  BY <1>1, <1>2, <1>5, JobEnds DEF Retry, Done, JobOK
<1> QED
  BY <1>3, <1>4, <1>6, TypeParts, PTL

(* The steps of the others keep the types.                                 *)
LEMMA FailType == ASSUME TypeOK, Fail PROVE TypeOK'
<1>1. LogsOK /\ ObjectsOK /\ JobOK /\ CountersOK
  BY TypeParts
<1>2. UNCHANGED <<log, cm, conf, auth, events, service, lost, queued, changes>> /\ Fault /\ Retry
  BY DEF Fail, secrets
<1>3. LogsOK' /\ ObjectsOK' /\ CountersOK' /\ JobOK'
  BY <1>1, <1>2, FaultCounts, JobEnds DEF LogsOK, ObjectsOK, Retry, JobOK
<1> QED
  BY <1>3, TypeParts, PTL

(* The action Restart keeps the types.                                     *)
LEMMA RestartType == ASSUME TypeOK, Restart PROVE TypeOK'
<1>1. LogsOK /\ ObjectsOK /\ JobOK /\ CountersOK
  BY TypeParts
<1>2. /\ UNCHANGED <<cm, conf, auth, service, lost, changes>> /\ Fault /\ events' = {} /\ job' = NoJob
      /\ queued' \in BOOLEAN /\ delayed' = FALSE
      /\ log' = [k \in Kinds |-> <<Live(k)>>]
  BY DEF Restart, secrets
<1>3. LogsOK'
  BY <1>1, <1>2, RestartStep
<1>4. ObjectsOK'
  BY <1>1, <1>2 DEF ObjectsOK
<1>5. JobOK' /\ CountersOK'
  BY <1>1, <1>2, FaultCounts, JobEnds
<1> QED
  BY <1>3, <1>4, <1>5, TypeParts, PTL

(* The action Requeue keeps the types.                                     *)
LEMMA RequeueType == ASSUME TypeOK, Requeue PROVE TypeOK'
<1>1. LogsOK /\ ObjectsOK /\ JobOK /\ CountersOK
  BY TypeParts
<1>2. UNCHANGED <<log, cm, conf, auth, events, service, lost, job, changes, faults>> /\ delayed' = FALSE /\ queued' = TRUE
  BY DEF Requeue, secrets, counters
<1>3. LogsOK' /\ ObjectsOK' /\ CountersOK' /\ JobOK'
  BY <1>1, <1>2 DEF LogsOK, ObjectsOK, CountersOK, JobOK
<1> QED
  BY <1>3, TypeParts, PTL

(* The handlers return TRUE or FALSE.                                      *)
LEMMA HandleType ==
  /\ \A k \in Kinds : \A old, new : Handle(k, old, new) \in BOOLEAN
  /\ \A e \in {"cm", "conf", "auth"} : HandleEvent(e) \in BOOLEAN
<1>1. \A n : EnqueueForNamespace(n) \in BOOLEAN
  BY DEF EnqueueForNamespace
<1>2. ASSUME NEW k \in Kinds, NEW old, NEW new PROVE Handle(k, old, new) \in BOOLEAN
  BY <1>1, StatesOf DEF Handle, HandlePrometheus, HandleRule, HandleSmon, HandleStatefulSet
<1>3. ASSUME NEW e \in {"cm", "conf", "auth"} PROVE HandleEvent(e) \in BOOLEAN
  BY <1>1 DEF HandleEvent, HandleConfigMap, HandleSecret
<1> QED
  BY <1>2, <1>3

(* The delivery to an informer keeps the types.                            *)
LEMMA DeliverType == ASSUME TypeOK, NEW k \in Kinds, Deliver(k) PROVE TypeOK'
<1>1. LogsOK /\ ObjectsOK /\ JobOK /\ CountersOK
  BY TypeParts
<1>2. UNCHANGED <<cm, conf, auth, events, service, lost, delayed, job, changes, faults>>
  BY DEF Deliver, secrets, counters
<1>3. queued' \in BOOLEAN
  BY <1>1, HandleType DEF Deliver, JobOK
<1>4. LogsOK'
  BY <1>1, DeliverStep
<1>5. ObjectsOK' /\ CountersOK' /\ JobOK'
  BY <1>1, <1>2, <1>3 DEF ObjectsOK, CountersOK, JobOK
<1> QED
  BY <1>4, <1>5, TypeParts, PTL

(* The delivery of events keeps the types.                                 *)
LEMMA DeliverEventsType ==
  ASSUME TypeOK, NEW e \in {"cm", "conf", "auth"}, DeliverEvents(e) \/ DeliverSome(e)
  PROVE  TypeOK'
<1>1. LogsOK /\ ObjectsOK /\ JobOK /\ CountersOK
  BY TypeParts
<1>2. UNCHANGED <<log, cm, conf, auth, service, lost, delayed, job, changes, faults>> /\ events' \subseteq events
  BY DEF DeliverEvents, DeliverSome, secrets, counters
<1>3. queued' \in BOOLEAN
  BY <1>1, HandleType DEF DeliverEvents, DeliverSome, JobOK
<1>4. LogsOK' /\ ObjectsOK' /\ CountersOK' /\ JobOK'
  BY <1>1, <1>2, <1>3 DEF LogsOK, ObjectsOK, CountersOK, JobOK
<1> QED
  BY <1>4, TypeParts, PTL

(* A change of the environment is counted and leaves the worker alone.     *)
LEMMA ChangeStep ==
  ASSUME TypeOK, Change
  PROVE  /\ UNCHANGED <<queued, delayed, job, faults>> /\ changes' = changes + 1
         /\ changes \in Nat /\ 0 .. changes \subseteq 0 .. changes' /\ 0 \in 0 .. changes'
         /\ JobOK' /\ CountersOK'
<1>1. JobOK /\ CountersOK
  BY TypeParts
<1>2. UNCHANGED <<queued, delayed, job, faults>> /\ changes' = changes + 1 /\ changes + faults < MaxChanges
  BY DEF Change
<1>3. changes \in Nat /\ CountersOK' /\ 0 .. changes \subseteq 0 .. changes' /\ 0 \in 0 .. changes'
  BY <1>1, <1>2, BoundAssumption DEF CountersOK
<1> QED
  BY <1>1, <1>2, <1>3 DEF JobOK

(* A user who changes an object keeps the types.                           *)
LEMMA ChangeObjectType == ASSUME TypeOK, NEW k \in Kinds, NEW s \in States(k), ChangeObject(k, s) PROVE TypeOK'
<1>1. LogsOK /\ ObjectsOK
  BY TypeParts
<1>2. Write(k, s) /\ Change /\ UNCHANGED <<cm, conf, auth, events, service, lost>>
  BY DEF ChangeObject, secrets
<1>3. LogsOK'
  BY <1>1, <1>2, WriteStep
<1>4. JobOK' /\ CountersOK' /\ 0 .. changes \subseteq 0 .. changes'
  BY <1>2, ChangeStep
<1>5. ObjectsOK'
  BY <1>1, <1>2, <1>4 DEF ObjectsOK
<1> QED
  BY <1>3, <1>4, <1>5, TypeParts, PTL

(* What users make of the objects.                                         *)
LEMMA ChangedPrometheus ==
  ASSUME TypeOK, ChangePrometheus
  PROVE  \E s \in States("prom") :
           /\ ChangeObject("prom", s)
           /\ s = None \/ (s.rv = changes + 1 /\ (s.uid = s.rv \/ (Live("prom") # None /\ s.uid = Live("prom").uid)))
<1>1. Live("prom") \in {None} \cup Prometheus /\ changes + 1 \in Nat
  BY TypeParts, LogType, StatesOf DEF CountersOK
<1>2. CASE ChangeObject("prom", None)
  BY <1>2, StatesOf
<1>3. ASSUME NEW s \in Specs, ChangeObject("prom", [uid |-> changes + 1, rv |-> changes + 1, spec |-> s])
      PROVE  \E t \in States("prom") :
               /\ ChangeObject("prom", t)
               /\ t.rv = changes + 1 /\ t.uid = t.rv
  <2> PICK t : t = [uid |-> changes + 1, rv |-> changes + 1, spec |-> s]
    OBVIOUS
  <2>1. t \in Prometheus /\ t.rv = changes + 1 /\ t.uid = changes + 1
    BY <1>1 DEF Prometheus
  <2> QED
    BY <1>3, <2>1, StatesOf
<1>4. ASSUME NEW s \in Specs, Live("prom") # None,
             ChangeObject("prom", [Live("prom") EXCEPT !.rv = changes + 1, !.spec = s])
      PROVE  \E t \in States("prom") :
               /\ ChangeObject("prom", t)
               /\ t.rv = changes + 1 /\ t.uid = Live("prom").uid
  <2> PICK t : t = [Live("prom") EXCEPT !.rv = changes + 1, !.spec = s]
    OBVIOUS
  <2>1. t \in Prometheus /\ t.rv = changes + 1 /\ t.uid = Live("prom").uid
    BY <1>1, <1>4 DEF Prometheus
  <2> QED
    BY <1>4, <2>1, StatesOf
<1>5. \/ ChangeObject("prom", None)
      \/ \E s \in Specs : ChangeObject("prom", [uid |-> changes + 1, rv |-> changes + 1, spec |-> s])
      \/ /\ Live("prom") # None
         /\ \E s \in Specs : ChangeObject("prom", [Live("prom") EXCEPT !.rv = changes + 1, !.spec = s])
  <2> HIDE DEF ChangeObject
  <2> QED
    BY DEF ChangePrometheus
<1> QED
  BY <1>2, <1>3, <1>4, <1>5

(* A rule that a user changes leaves the rules as the type says.           *)
LEMMA ChangedRule ==
  ASSUME TypeOK, ChangeRule
  PROVE  \E s \in States("rule") : ChangeObject("rule", s)
<1>1. Live("rule") \in [Rules -> Versions \cup {0}]
  BY TypeParts, LogType, StatesOf
<1>2. PICK r \in Rules, v \in Versions \cup {0} : ChangeObject("rule", [Live("rule") EXCEPT ![r] = v])
  BY DEF ChangeRule
<1>3. [Live("rule") EXCEPT ![r] = v] \in States("rule")
  BY <1>1, StatesOf
<1> QED
  BY <1>2, <1>3

(* The action ChangeSecret keeps the types.                                *)
LEMMA ChangeSecretType == ASSUME TypeOK, ChangeSecret PROVE TypeOK'
<1>1. LogsOK /\ ObjectsOK
  BY TypeParts
<1>2. /\ UNCHANGED <<log, cm, conf, service, lost>> /\ Change
      /\ auth' \in Versions \cup {0} /\ events' = events \cup {"auth"}
  BY DEF ChangeSecret
<1>3. JobOK' /\ CountersOK' /\ 0 .. changes \subseteq 0 .. changes'
  BY <1>2, ChangeStep
<1>4. LogsOK' /\ ObjectsOK'
  BY <1>1, <1>2, <1>3 DEF LogsOK, ObjectsOK
<1> QED
  BY <1>3, <1>4, TypeParts, PTL

(* What Tamper does: two kinds of changes of the StatefulSet, or of what    *)
(* no log holds.                                                           *)
LEMMA TamperCases ==
  ASSUME TypeOK, Tamper
  PROVE  \/ \E s \in States("sset") :
              /\ ChangeObject("sset", s)
              /\ \/ s = None
                 \/ /\ Live("sset") # None
                    /\ s.owner = Live("sset").owner /\ s.hash = Live("sset").hash /\ s.shape = Live("sset").shape
         \/ /\ UNCHANGED <<log, auth>> /\ Change
            /\ \/ \E n \in DOMAIN cm : SetConfigMaps(Without(cm, n)) /\ UNCHANGED <<conf, service, lost>>
               \/ SetConf(None) /\ UNCHANGED <<cm, service, lost>>
               \/ service' = {} /\ lost' = lost \cup service /\ UNCHANGED <<cm, conf, events>>
<1>1. CASE ChangeObject("sset", None)
  BY <1>1, StatesOf
<1>2. CASE Live("sset") # None /\ ChangeObject("sset", [Live("sset") EXCEPT !.edited = TRUE])
  <2> PICK s : s = [Live("sset") EXCEPT !.edited = TRUE]
    OBVIOUS
  <2>1. Live("sset") \in StatefulSet
    BY <1>2, TypeParts, LogType, StatesOf
  <2>2. /\ s \in StatefulSet
        /\ s.owner = Live("sset").owner /\ s.hash = Live("sset").hash /\ s.shape = Live("sset").shape
    BY <2>1 DEF StatefulSet
  <2> QED
    BY <1>2, <2>2, StatesOf
<1> HIDE DEF ChangeObject
<1> QED
  BY <1>1, <1>2 DEF Tamper, secrets

(* The action Tamper keeps the types.                                      *)
LEMMA TamperType == ASSUME TypeOK, Tamper PROVE TypeOK'
<1>1. LogsOK /\ ObjectsOK /\ "sset" \in Kinds
  BY TypeParts, StatesOf
<1>2. CASE \E s \in States("sset") : ChangeObject("sset", s)
  BY <1>1, <1>2, ChangeObjectType
<1>3. CASE /\ UNCHANGED <<log, auth>> /\ Change
           /\ \/ \E n \in DOMAIN cm : SetConfigMaps(Without(cm, n)) /\ UNCHANGED <<conf, service, lost>>
              \/ SetConf(None) /\ UNCHANGED <<cm, service, lost>>
              \/ service' = {} /\ lost' = lost \cup service /\ UNCHANGED <<cm, conf, events>>
  <2>1. JobOK' /\ CountersOK' /\ 0 .. changes \subseteq 0 .. changes'
    BY <1>3, ChangeStep
  <2>2. DOMAIN cm' \subseteq Nat /\ conf' \in {None} \cup Secret /\ events' \subseteq {"cm", "conf", "auth"}
    BY <1>1, <1>3 DEF SetConfigMaps, SetConf, Without, ObjectsOK
  <2>3. service' \subseteq service /\ lost' \subseteq lost \cup service
    BY <1>3
  <2>4. LogsOK' /\ ObjectsOK'
    BY <1>1, <1>3, <2>1, <2>2, <2>3 DEF LogsOK, ObjectsOK
  <2> QED
    BY <2>1, <2>4, TypeParts, PTL
<1> QED
  BY <1>2, <1>3, TamperCases

(* The action SyncOther keeps the types.                                   *)
LEMMA SyncOtherType == ASSUME TypeOK, SyncOther PROVE TypeOK'
<1>1. LogsOK /\ ObjectsOK
  BY TypeParts
<1>2. UNCHANGED <<log, cm, conf, auth, events, lost>> /\ Change /\ service' = service \cup {0}
  BY DEF SyncOther, MergeOwners, secrets
<1>3. JobOK' /\ CountersOK' /\ 0 .. changes \subseteq 0 .. changes' /\ 0 \in 0 .. changes'
  BY <1>2, ChangeStep
<1>4. LogsOK' /\ ObjectsOK'
  BY <1>1, <1>2, <1>3 DEF LogsOK, ObjectsOK
<1> QED
  BY <1>3, <1>4, TypeParts, PTL

(* The action Collect keeps the types.                                     *)
LEMMA CollectType == ASSUME TypeOK, Collect PROVE TypeOK'
<1>1. LogsOK /\ ObjectsOK /\ JobOK /\ CountersOK
  BY TypeParts
<1>2. UNCHANGED <<auth, queued, delayed, job, changes, faults>>
  BY DEF Collect, secrets, counters
<1>3. JobOK' /\ CountersOK'
  BY <1>1, <1>2 DEF JobOK, CountersOK
<1>4. LogsOK'
  <2>1. UNCHANGED log \/ Write("sset", None)
    BY DEF Collect
  <2>2. "sset" \in Kinds /\ None \in States("sset")
    BY StatesOf
  <2>3. CASE UNCHANGED log
    BY <1>1, <2>3 DEF LogsOK
  <2> QED
    BY <1>1, <2>1, <2>2, <2>3, WriteStep
<1>5. ObjectsOK'
  <2>1. DOMAIN cm' \subseteq Nat /\ conf' \in {None} \cup Secret /\ events' \subseteq {"cm", "conf", "auth"}
        /\ service' \subseteq service /\ lost' = lost
    BY <1>1 DEF Collect, SetConfigMaps, SetConf, Without, ObjectsOK, secrets
  <2> QED
    BY <1>1, <1>2, <2>1 DEF ObjectsOK
<1> QED
  BY <1>3, <1>4, <1>5, TypeParts, PTL

-----------------------------------------------------------------------------
(* Versions.                                                               *)

(* What is known of the Prometheus and of its StatefulSet.                 *)
LEMMA SeenType ==
  ASSUME TypeOK
  PROVE  /\ Seen \subseteq Prometheus /\ \A p \in Seen : p.rv \in Nat /\ p.uid \in Nat
         /\ Range(log["sset"]) \ {None} \subseteq StatefulSet
         /\ \A s \in Range(log["sset"]) \ {None} : s.hash.rv \in Nat
         /\ changes \in Nat
<1>1. LogsOK /\ JobOK /\ changes \in Nat
  BY TypeParts DEF CountersOK
<1>2. Range(log["prom"]) \subseteq {None} \cup Prometheus /\ Range(log["sset"]) \subseteq {None} \cup StatefulSet
  BY <1>1, LogType, StatesOf
<1>3. job.prom \in {None} \cup Prometheus
  BY <1>1 DEF JobOK, Job
<1>4. Seen \subseteq Prometheus /\ Range(log["sset"]) \ {None} \subseteq StatefulSet
  BY <1>2, <1>3 DEF Seen
<1> QED
  BY <1>1, <1>4 DEF Prometheus, StatefulSet

(* Nothing new is seen.                                                    *)
LEMMA VersionsStay ==
  ASSUME TypeOK, VersionsFit, changes' \in Nat, changes <= changes', Seen' \subseteq Seen,
         Range(log'["sset"]) \subseteq Range(log["sset"]) \cup {None}
  PROVE  VersionsFit'
<1>1. /\ \A p \in Seen : p.rv \in Nat /\ p.uid \in Nat
      /\ \A s \in Range(log["sset"]) \ {None} : s.hash.rv \in Nat
      /\ changes \in Nat
  BY SeenType
<1>2. \A p \in Seen' : p.uid \in 1 .. p.rv /\ p.rv <= changes'
  BY <1>1 DEF VersionsFit
<1>3. \A p, q \in Seen' : p.rv = q.rv => p = q
  BY DEF VersionsFit
<1>4. ASSUME NEW s \in Range(log'["sset"]) \ {None}
      PROVE  /\ s.owner = s.hash.uid /\ s.hash.rv <= changes'
             /\ \A p \in Seen' : p.rv = s.hash.rv => p.uid = s.hash.uid /\ p.spec.shape = s.shape
  <2>1. s \in Range(log["sset"]) \ {None}
    OBVIOUS
  <2> QED
    BY <1>1, <2>1 DEF VersionsFit
<1> QED
  BY <1>2, <1>3, <1>4 DEF VersionsFit

(* Steps of the worker that write no StatefulSet.                          *)
LEMMA VersionsOfJob ==
  ASSUME TypeOK, VersionsFit, UNCHANGED <<log, changes>>, job'.prom \in {None, job.prom, Cached("prom")}
  PROVE  VersionsFit'
<1>1. Cached("prom") \in Range(log["prom"]) /\ changes \in Nat
  BY TypeParts, LogType, StatesOf DEF CountersOK
<1>2. Seen' \subseteq Seen
  BY <1>1 DEF Seen
<1> QED
  BY <1>1, <1>2, VersionsStay

(* Steps that leave the job alone and write nothing but a None.            *)
LEMMA VersionsOfLog ==
  ASSUME TypeOK, VersionsFit, changes' \in Nat, changes <= changes',
         job'.prom \in {None, job.prom},
         Range(log'["prom"]) \subseteq Range(log["prom"]) \cup {None},
         Range(log'["sset"]) \subseteq Range(log["sset"]) \cup {None}
  PROVE  VersionsFit'
<1>1. Seen' \subseteq Seen
  BY DEF Seen
<1> QED
  BY <1>1, VersionsStay

(* A new version of the Prometheus.                                        *)
LEMMA VersionsOfChange ==
  ASSUME TypeOK, VersionsFit, NEW s \in Prometheus, Written("prom", s), changes' = changes + 1, job' = job,
         s.rv = changes', s.uid = s.rv \/ (Live("prom") # None /\ s.uid = Live("prom").uid)
  PROVE  VersionsFit'
<1>1. /\ \A p \in Seen : p.rv \in Nat /\ p.uid \in Nat
      /\ \A t \in Range(log["sset"]) \ {None} : t.hash.rv \in Nat
      /\ changes \in Nat
  BY SeenType
<1>2. Seen' \subseteq Seen \cup {s}
  BY DEF Seen, Written
<1>3. log'["sset"] = log["sset"]
  BY StatesOf DEF Written, Others
<1>4. \A p \in Seen : p.uid \in 1 .. p.rv /\ p.rv <= changes /\ p.rv < s.rv
  BY <1>1 DEF VersionsFit
<1>5. s.uid \in 1 .. s.rv
  <2>1. "prom" \in Kinds /\ LogsOK
    BY StatesOf, TypeParts
  <2>2. Live("prom") # None => Live("prom") \in Seen
    BY <2>1, LogType DEF Seen
  <2> QED
    BY <1>1, <1>4, <2>2
<1>6. \A p \in Seen' : p.uid \in 1 .. p.rv /\ p.rv <= changes'
  BY <1>1, <1>2, <1>4, <1>5
<1>7. \A p, q \in Seen' : p.rv = q.rv => p = q
  BY <1>1, <1>2, <1>4 DEF VersionsFit
<1>8. ASSUME NEW t \in Range(log'["sset"]) \ {None}
      PROVE  /\ t.owner = t.hash.uid /\ t.hash.rv <= changes'
             /\ \A p \in Seen' : p.rv = t.hash.rv => p.uid = t.hash.uid /\ p.spec.shape = t.shape
  <2>1. t \in Range(log["sset"]) \ {None} /\ t.hash.rv \in Nat
    BY <1>1, <1>3
  <2>2. t.owner = t.hash.uid /\ t.hash.rv <= changes
    BY <2>1 DEF VersionsFit
  <2>3. t.hash.rv < s.rv
    BY <1>1, <2>1, <2>2
  <2>4. \A p \in Seen : p.rv = t.hash.rv => p.uid = t.hash.uid /\ p.spec.shape = t.shape
    BY <2>1 DEF VersionsFit
  <2> QED
    BY <1>1, <1>2, <2>1, <2>2, <2>3, <2>4
<1> QED
  BY <1>6, <1>7, <1>8 DEF VersionsFit

(* A StatefulSet made of a Prometheus that was seen, or one that was there.*)
LEMMA VersionsOfApply ==
  ASSUME TypeOK, VersionsFit, job' \in {NoJob, job}, changes' \in Nat, changes <= changes', NEW s \in StatefulSet,
         Written("sset", s),
         \/ /\ job # NoJob /\ s.owner = job.prom.uid /\ s.shape = job.prom.spec.shape
            /\ s.hash.uid = job.prom.uid /\ s.hash.rv = job.prom.rv
         \/ \E t \in Range(log["sset"]) \ {None} : s.owner = t.owner /\ s.hash = t.hash /\ s.shape = t.shape
  PROVE  VersionsFit'
<1>1. /\ \A p \in Seen : p.rv \in Nat /\ p.uid \in Nat
      /\ \A t \in Range(log["sset"]) \ {None} : t.hash.rv \in Nat
      /\ changes \in Nat
  BY SeenType
<1>2. log'["prom"] = log["prom"] /\ Range(log'["sset"]) = Range(log["sset"]) \cup {s}
  BY StatesOf DEF Written, Others
<1>3. Seen' \subseteq Seen
  BY <1>2 DEF Seen, NoJob
<1>4. job # NoJob => job.prom \in Seen
  BY TypeParts DEF Seen, JobOK
<1>5. \A p \in Seen' : p.uid \in 1 .. p.rv /\ p.rv <= changes'
  BY <1>1, <1>3 DEF VersionsFit
<1>6. \A p, q \in Seen' : p.rv = q.rv => p = q
  BY <1>3 DEF VersionsFit
<1>7. \A t \in Range(log["sset"]) \ {None} :
        /\ t.owner = t.hash.uid /\ t.hash.rv <= changes
        /\ \A p \in Seen : p.rv = t.hash.rv => p.uid = t.hash.uid /\ p.spec.shape = t.shape
  BY DEF VersionsFit
<1>8. /\ s.owner = s.hash.uid /\ s.hash.rv <= changes'
      /\ \A p \in Seen' : p.rv = s.hash.rv => p.uid = s.hash.uid /\ p.spec.shape = s.shape
  <2>1. CASE /\ job # NoJob /\ s.hash.rv = job.prom.rv /\ s.hash.uid = job.prom.uid
             /\ s.owner = job.prom.uid /\ s.shape = job.prom.spec.shape
    <3>1. /\ job.prom.rv <= changes /\ job.prom.rv \in Nat
          /\ \A p \in Seen : p.rv = job.prom.rv => p = job.prom
      BY <1>1, <1>4, <2>1 DEF VersionsFit
    <3> QED
      BY <1>1, <1>3, <2>1, <3>1
  <2>2. CASE \E t \in Range(log["sset"]) \ {None} : s.owner = t.owner /\ s.hash = t.hash /\ s.shape = t.shape
    <3>1. PICK t \in Range(log["sset"]) \ {None} : s.owner = t.owner /\ s.hash = t.hash /\ s.shape = t.shape
      BY <2>2
    <3>2. s.hash.rv <= changes /\ s.hash.rv \in Nat
      BY <1>1, <1>7, <3>1
    <3> QED
      BY <1>1, <1>3, <1>7, <3>1, <3>2
  <2> QED
    BY <2>1, <2>2
<1>9. ASSUME NEW t \in Range(log'["sset"]) \ {None}
      PROVE  /\ t.owner = t.hash.uid /\ t.hash.rv <= changes'
             /\ \A p \in Seen' : p.rv = t.hash.rv => p.uid = t.hash.uid /\ p.spec.shape = t.shape
  <2>1. CASE t = s
    BY <1>8, <2>1
  <2>2. CASE t \in Range(log["sset"]) \ {None}
    <3>1. t.hash.rv <= changes /\ t.hash.rv \in Nat
      BY <1>1, <1>7, <2>2
    <3> QED
      BY <1>1, <1>3, <1>7, <2>2, <3>1
  <2> QED
    BY <1>2, <2>1, <2>2
<1> QED
  BY <1>5, <1>6, <1>9 DEF VersionsFit

-----------------------------------------------------------------------------
(* What is made, or will be.                                               *)

RulesMade == RulesFit(Cached("prom"))
ConfigMade == ConfigFits(Cached("prom"))
ServiceMade == ServiceFits(Cached("prom"))
StatefulSetMade == StatefulSetFits(Cached("prom"))
Attended == queued \/ delayed \/ Cached("prom") = None
Made ==
  /\ job # NoJob => job.prom = Cached("prom")
  /\ ~Cached("prom").spec.paused =>
       /\ job.step \notin {"rules", "maps"} => RulesMade
       /\ job.step \notin {"rules", "maps", "config", "write"} => ConfigMade
       /\ job.step \in {"service", "put", "sset", "idle"} => SecretFits
       /\ job.step \in {"sset", "idle"} => ServiceMade
       /\ job.step = "idle" => StatefulSetMade

(* The two cases of NothingForgotten.                                      *)
LEMMA ForgottenParts == NothingForgotten <=> Attended \/ Made
  BY DEF NothingForgotten, Attended, Made, RulesMade, ConfigMade, ServiceMade, StatefulSetMade

(* The parts of the invariant.                                             *)
LEMMA InvParts ==
  ASSUME IInv
  PROVE  /\ TypeOK /\ LogsOK /\ ObjectsOK /\ JobOK /\ CountersOK /\ VersionsFit /\ (Attended \/ Made)
         /\ log["ns"] = <<FirstLabels>> /\ Cached("ns") = FirstLabels /\ Live("ns") = FirstLabels
<1>1. TypeOK /\ log["ns"] = <<FirstLabels>> /\ VersionsFit /\ NothingForgotten
  BY DEF IInv
<1> PICK x : x = FirstLabels
  OBVIOUS
<1>2. Head(<<x>>) = x /\ Len(<<x>>) = 1 /\ <<x>>[1] = x
  OBVIOUS
<1>3. Cached("ns") = FirstLabels /\ Live("ns") = FirstLabels
  BY <1>1, <1>2 DEF Cached, Live, Last
<1> QED
  BY <1>1, <1>3, TypeParts, ForgottenParts

(* What is made stays, or an event is on its way.                          *)
LEMMA PartsStay ==
  ASSUME \A k \in {"prom", "rule", "smon", "ns"} : Cached(k)' = Cached(k),
         events \subseteq events',
         cm' = cm \/ "cm" \in events', conf' = conf \/ "conf" \in events', auth' = auth \/ "auth" \in events',
         ServiceMade => ServiceMade',
         log'["sset"] = log["sset"] \/ Len(log'["sset"]) > 1
  PROVE  /\ ((job' = NoJob \/ (job # NoJob /\ job'.names = job.names)) /\ RulesMade) => RulesMade'
         /\ ConfigMade => ConfigMade'
         /\ SecretFits => SecretFits'
         /\ StatefulSetMade => StatefulSetMade'
<1> PICK p : p = Cached("prom")
  OBVIOUS
<1> PICK ns : ns = Cached("ns")
  OBVIOUS
<1>1. /\ Cached("prom") = p /\ Cached("prom")' = p /\ Cached("ns") = ns /\ Cached("ns")' = ns
      /\ Cached("rule")' = Cached("rule") /\ Cached("smon")' = Cached("smon")
  OBVIOUS
<1>2. ASSUME RulesMade, job' = NoJob \/ (job # NoJob /\ job'.names = job.names) PROVE RulesMade'
  <2>1. CASE "cm" \in events'
    BY <2>1 DEF RulesMade, RulesFit
  <2>2. CASE "cm" \notin events'
    <3>1. cm' = cm /\ "cm" \notin events
      BY <2>2
    <3> QED
      BY <1>1, <1>2, <3>1 DEF RulesMade, RulesFit
  <2> QED
    BY <2>1, <2>2
<1>3. ASSUME ConfigMade PROVE ConfigMade'
  <2>1. CASE p.spec.managed = FALSE \/ "cm" \in events' \/ "conf" \in events'
    BY <1>1, <2>1 DEF ConfigMade, ConfigFits
  <2>2. CASE "auth" \in events' /\ MonitorNs \in SelectNamespaces(p.spec, ns)
    BY <1>1, <2>2 DEF ConfigMade, ConfigFits
  <2>3. CASE ~(p.spec.managed = FALSE \/ "cm" \in events' \/ "conf" \in events'
               \/ ("auth" \in events' /\ MonitorNs \in SelectNamespaces(p.spec, ns)))
    <3>1. cm' = cm /\ conf' = conf /\ (auth' = auth \/ MonitorNs \notin SelectNamespaces(p.spec, ns))
      BY <2>3
    <3>2. \/ ~p.spec.managed
          \/ HasConfig(Config(SelectedMonitor(p.spec, Cached("smon"), ns), auth, DOMAIN cm))
      BY <1>1, <1>3, <2>3 DEF ConfigMade, ConfigFits
    <3>3. Config(SelectedMonitor(p.spec, Cached("smon")', ns), auth', DOMAIN cm')
            = Config(SelectedMonitor(p.spec, Cached("smon"), ns), auth, DOMAIN cm)
      BY <1>1, <3>1 DEF SelectedMonitor, Config
    <3> QED
      BY <1>1, <3>1, <3>2, <3>3 DEF ConfigMade, ConfigFits, HasConfig
  <2> QED
    BY <2>1, <2>2, <2>3
<1>4. SecretFits => SecretFits'
  BY DEF SecretFits
<1>5. ASSUME StatefulSetMade PROVE StatefulSetMade'
  <2>1. CASE "cm" \in events' \/ Len(log'["sset"]) > 1
    BY <2>1 DEF StatefulSetMade, StatefulSetFits
  <2>2. CASE ~("cm" \in events' \/ Len(log'["sset"]) > 1)
    <3>1. cm' = cm /\ log'["sset"] = log["sset"] /\ "cm" \notin events
      BY <2>2
    <3>2. Live("sset")' = Live("sset")
      BY <3>1 DEF Live
    <3> QED
      BY <1>1, <1>5, <2>2, <3>1, <3>2 DEF StatefulSetMade, StatefulSetFits
  <2> QED
    BY <2>1, <2>2
<1> QED
  BY <1>2, <1>3, <1>4, <1>5

(* Whatever is done to the objects makes an event.                         *)
LEMMA OthersForget ==
  ASSUME Attended \/ Made, job' = job, (queued \/ delayed) => (queued' \/ delayed'),
         \A k \in {"prom", "rule", "smon", "ns"} : Cached(k)' = Cached(k),
         events \subseteq events',
         cm' = cm \/ "cm" \in events', conf' = conf \/ "conf" \in events', auth' = auth \/ "auth" \in events',
         ServiceMade => ServiceMade',
         log'["sset"] = log["sset"] \/ Len(log'["sset"]) > 1
  PROVE  Attended' \/ Made'
<1>1. /\ RulesMade => RulesMade'
      /\ ConfigMade => ConfigMade'
      /\ SecretFits => SecretFits'
      /\ StatefulSetMade => StatefulSetMade'
  <2>1. job' = NoJob \/ (job # NoJob /\ job'.names = job.names)
    OBVIOUS
  <2> QED
    BY <2>1, PartsStay
<1>2. Cached("prom")' = Cached("prom")
  OBVIOUS
<1>3. Attended => Attended'
  BY <1>2 DEF Attended
<1>4. Made => Made'
  <2> PICK p : p = Cached("prom")
    OBVIOUS
  <2>1. Cached("prom") = p /\ Cached("prom")' = p
    BY <1>2
  <2> SUFFICES ASSUME Made PROVE Made'
    OBVIOUS
  <2>2. job # NoJob => job.prom = p
    BY <2>1 DEF Made
  <2>3. ~p.spec.paused =>
          /\ job.step \notin {"rules", "maps"} => RulesMade'
          /\ job.step \notin {"rules", "maps", "config", "write"} => ConfigMade'
          /\ job.step \in {"service", "put", "sset", "idle"} => SecretFits'
          /\ job.step \in {"sset", "idle"} => ServiceMade'
          /\ job.step = "idle" => StatefulSetMade'
    BY <1>1, <2>1 DEF Made
  <2> QED
    BY <2>1, <2>2, <2>3 DEF Made, NoJob
<1> QED
  BY <1>3, <1>4

(* A Prometheus that is gone does not come back, and only such owners      *)
(* leave the Service, or what is known to be lost.                         *)
LEMMA ServiceStays ==
  ASSUME TypeOK, VersionsFit, Cached("prom")' = Cached("prom"), Cached("prom") # None,
         \/ Live("prom")' = Live("prom")
         \/ Live("prom")' = None
         \/ Live("prom")'.uid = changes + 1
         \/ Live("prom") # None /\ Live("prom")'.uid = Live("prom").uid,
         \A u \in service \cup lost : Dead(u)' \/ u \in service' \cup lost'
  PROVE  ServiceMade => ServiceMade'
<1> PICK u : u = Cached("prom").uid
  OBVIOUS
<1>1. u # changes + 1
  <2>1. LogsOK /\ "prom" \in Kinds
    BY TypeParts, StatesOf
  <2>2. Cached("prom") \in Seen
    BY <2>1, LogType DEF Seen
  <2>3. u \in 1 .. Cached("prom").rv /\ Cached("prom").rv <= changes /\ changes \in Nat /\ Cached("prom").rv \in Nat
    BY <2>2, SeenType DEF VersionsFit
  <2> QED
    BY <2>3
<1>2. Dead(u) => Dead(u)'
  BY <1>1 DEF Dead
<1> QED
  BY <1>2 DEF ServiceMade, ServiceFits

(* The handlers queue the key for what the Prometheus selects.             *)
LEMMA Enqueues ==
  ASSUME IInv, Cached("prom") # None
  PROVE  /\ EnqueueForNamespace(Own)
         /\ \A n \in SelectNamespaces(Cached("prom").spec, Cached("ns")) : EnqueueForNamespace(n)
<1>1. Cached("ns") = FirstLabels /\ FirstLabels[Own] # "absent"
  BY InvParts, NamespaceAssumption
<1>2. "labelled" # "absent"
  OBVIOUS
<1> QED
  BY <1>1, <1>2 DEF EnqueueForNamespace, SelectNamespaces

(* Rules in other namespaces do not matter.                                *)
LEMMA SelectionsAgree ==
  ASSUME NEW spec, NEW ns, NEW old, NEW new,
         \A r \in Rules : NsOf[r] \in SelectNamespaces(spec, ns) => old[r] = new[r]
  PROVE  Selections(spec, old, ns) = Selections(spec, new, ns)
<1>1. {r \in Rules : old[r] # 0 /\ NsOf[r] \in SelectNamespaces(spec, ns)}
        = {r \in Rules : new[r] # 0 /\ NsOf[r] \in SelectNamespaces(spec, ns)}
  OBVIOUS
<1>2. SelectedRules(spec, old, ns) = SelectedRules(spec, new, ns)
  BY <1>1, Zenon DEF SelectedRules
<1>3. ASSUME NEW S \in SelectedRules(spec, old, ns) PROVE Content(S, old) = Content(S, new)
  <2>1. \A r \in S : r \in Rules /\ NsOf[r] \in SelectNamespaces(spec, ns)
    BY DEF SelectedRules
  <2>2. \A r \in S : old[r] = new[r]
    BY <2>1
  <2> QED
    BY <2>2 DEF Content
<1> QED
  BY <1>2, <1>3 DEF Selections

-----------------------------------------------------------------------------
(* Every step preserves the invariant.                                     *)

(* The invariant from its parts.                                           *)
LEMMA InvFrom ==
  ASSUME TypeOK', log'["ns"] = <<FirstLabels>>, VersionsFit', Attended' \/ Made'
  PROVE  IInv'
<1>1. NothingForgotten'
  BY ForgottenParts, PTL
<1> QED
  BY <1>1 DEF IInv

(* Logs that stay have the same ends.                                      *)
LEMMA SameLogs ==
  ASSUME UNCHANGED log
  PROVE  /\ \A k \in Kinds : Cached(k)' = Cached(k) /\ Live(k)' = Live(k)
         /\ Cached("prom")' = Cached("prom") /\ Cached("rule")' = Cached("rule") /\ Cached("smon")' = Cached("smon")
         /\ Cached("ns")' = Cached("ns") /\ Cached("sset")' = Cached("sset")
         /\ Live("prom")' = Live("prom") /\ Live("sset")' = Live("sset")
BY DEF Cached, Live

(* A write to the API server leaves the caches alone.                      *)
LEMMA WriteKeeps ==
  ASSUME LogsOK, NEW k \in Kinds \ {"ns"}, NEW s \in States(k), Write(k, s)
  PROVE  /\ log'["ns"] = log["ns"]
         /\ \A l \in {"prom", "rule", "smon", "ns"} : Cached(l)' = Cached(l)
         /\ log'["sset"] = log["sset"] \/ Len(log'["sset"]) > 1
         /\ IF k = "prom" THEN Live("prom")' = s ELSE Live("prom")' = Live("prom")
         /\ Range(log'[k]) \subseteq Range(log[k]) \cup {s}
         /\ \A l \in Kinds \ {k} : log'[l] = log[l]
<1>1. k \in Kinds /\ Kinds = {"prom", "rule", "smon", "ns", "sset"}
  BY StatesOf
<1>2. CASE UNCHANGED log /\ s = Live(k)
  BY <1>1, <1>2, SameLogs
<1>3. CASE Written(k, s)
  BY <1>1, <1>3 DEF Written, Others
<1> QED
  BY <1>1, <1>2, <1>3, WriteStep

(* A user changes an object other than the Prometheus.                     *)
LEMMA ChangeObjectInv ==
  ASSUME IInv, NEW k \in {"rule", "smon", "sset"}, NEW s \in States(k), ChangeObject(k, s),
         \/ k # "sset" \/ s = None
         \/ /\ Live("sset") # None
            /\ s.owner = Live("sset").owner /\ s.hash = Live("sset").hash /\ s.shape = Live("sset").shape
  PROVE  IInv'
<1>1. k \in Kinds \ {"ns"} /\ "prom" \in Kinds /\ k # "prom"
  BY StatesOf
<1>2. TypeOK /\ LogsOK /\ VersionsFit /\ (Attended \/ Made) /\ log["ns"] = <<FirstLabels>> /\ changes \in Nat
  BY InvParts, SeenType
<1>3. Write(k, s) /\ s # Live(k) /\ Change /\ UNCHANGED <<cm, conf, auth, events, service, lost>>
  BY DEF ChangeObject, secrets
<1>4. UNCHANGED <<queued, delayed, job>> /\ changes' = changes + 1
  BY <1>2, <1>3, ChangeStep
<1>5. /\ log'["ns"] = log["ns"]
      /\ \A l \in {"prom", "rule", "smon", "ns"} : Cached(l)' = Cached(l)
      /\ log'["sset"] = log["sset"] \/ Len(log'["sset"]) > 1
      /\ Live("prom")' = Live("prom")
      /\ Range(log'[k]) \subseteq Range(log[k]) \cup {s}
      /\ \A l \in Kinds \ {k} : log'[l] = log[l]
  BY <1>1, <1>2, <1>3, WriteKeeps
<1>6. VersionsFit'
  <2>1. log'["prom"] = log["prom"] /\ (k # "sset" => log'["sset"] = log["sset"])
    BY <1>1, <1>5, StatesOf
  <2>2. CASE k # "sset" \/ s = None
    <3>1. Range(log'["sset"]) \subseteq Range(log["sset"]) \cup {None}
      BY <1>5, <2>1, <2>2
    <3> QED
      BY <1>2, <1>4, <2>1, <3>1, VersionsOfLog
  <2>3. CASE k = "sset" /\ s # None
    <3>1. Written("sset", s) /\ s \in StatefulSet
      BY <1>1, <1>2, <1>3, <2>3, WriteStep, StatesOf
    <3>2. Live("sset") \in Range(log["sset"]) /\ Live("sset") # None
      BY <1>1, <1>2, <2>3, LogType
    <3> QED
      BY <1>2, <1>4, <2>3, <3>1, <3>2, VersionsOfApply
  <2> QED
    BY <2>2, <2>3
<1>7. Attended' \/ Made'
  <2>1. CASE Cached("prom") = None
    BY <1>5, <2>1 DEF Attended
  <2>2. CASE Cached("prom") # None
    <3>1. Cached("prom")' = Cached("prom") /\ service \cup lost \subseteq service' \cup lost'
      BY <1>3, <1>5
    <3>2. ServiceMade => ServiceMade'
      BY <1>2, <1>5, <2>2, <3>1, ServiceStays
    <3> QED
      BY <1>2, <1>3, <1>4, <1>5, <3>2, OthersForget
  <2> QED
    BY <2>1, <2>2
<1>8. TypeOK'
  BY <1>1, <1>2, ChangeObjectType
<1> QED
  BY <1>2, <1>5, <1>6, <1>7, <1>8, InvFrom

(* The action ChangeRule preserves the invariant.                          *)
LEMMA ChangeRuleInv == ASSUME IInv, ChangeRule PROVE IInv'
  BY InvParts, ChangedRule, ChangeObjectInv

(* The action ChangeMonitor preserves the invariant.                       *)
LEMMA ChangeMonitorInv == ASSUME IInv, ChangeMonitor PROVE IInv'
<1>1. PICK m \in {0, 1} : ChangeObject("smon", m)
  BY DEF ChangeMonitor
<1> QED
  BY <1>1, StatesOf, ChangeObjectInv

(* The action ChangePrometheus preserves the invariant.                    *)
LEMMA ChangePrometheusInv == ASSUME IInv, ChangePrometheus PROVE IInv'
<1>1. "prom" \in Kinds \ {"ns"} /\ "prom" \in Kinds /\ States("prom") = {None} \cup Prometheus
  BY StatesOf
<1>2. TypeOK /\ LogsOK /\ VersionsFit /\ (Attended \/ Made) /\ log["ns"] = <<FirstLabels>> /\ changes \in Nat
  BY InvParts, SeenType
<1>3. PICK s \in States("prom") :
        /\ ChangeObject("prom", s)
        /\ s = None \/ (s.rv = changes + 1 /\ (s.uid = s.rv \/ (Live("prom") # None /\ s.uid = Live("prom").uid)))
  BY <1>2, ChangedPrometheus
<1>4. Write("prom", s) /\ s # Live("prom") /\ Change /\ UNCHANGED <<cm, conf, auth, events, service, lost>>
  BY <1>3 DEF ChangeObject, secrets
<1>5. UNCHANGED <<queued, delayed, job>> /\ changes' = changes + 1
  BY <1>2, <1>4, ChangeStep
<1>6. /\ log'["ns"] = log["ns"]
      /\ \A l \in {"prom", "rule", "smon", "ns"} : Cached(l)' = Cached(l)
      /\ log'["sset"] = log["sset"] \/ Len(log'["sset"]) > 1
      /\ Live("prom")' = s
      /\ Range(log'["prom"]) \subseteq Range(log["prom"]) \cup {s}
      /\ \A l \in Kinds \ {"prom"} : log'[l] = log[l]
  BY <1>1, <1>2, <1>4, WriteKeeps
<1>7. VersionsFit'
  <2>1. CASE s = None
    <3>1. log'["sset"] = log["sset"]
      BY <1>6, StatesOf
    <3> QED
      BY <1>2, <1>5, <1>6, <2>1, <3>1, VersionsOfLog
  <2>2. CASE s # None
    <3>1. Written("prom", s)
      BY <1>1, <1>2, <1>4, WriteStep
    <3>2. s \in Prometheus
      BY <1>1, <2>2
    <3> QED
      BY <1>2, <1>3, <1>5, <2>2, <3>1, <3>2, VersionsOfChange
  <2> QED
    BY <2>1, <2>2
<1>8. Attended' \/ Made'
  <2>1. CASE Cached("prom") = None
    BY <1>6, <2>1 DEF Attended
  <2>2. CASE Cached("prom") # None
    <3>1. Cached("prom")' = Cached("prom") /\ service \cup lost \subseteq service' \cup lost'
      BY <1>4, <1>6
    <3>2. \/ Live("prom")' = None \/ Live("prom")'.uid = changes + 1
          \/ (Live("prom") # None /\ Live("prom")'.uid = Live("prom").uid)
      BY <1>3, <1>6
    <3>3. ServiceMade => ServiceMade'
      BY <1>2, <2>2, <3>1, <3>2, ServiceStays
    <3> QED
      BY <1>2, <1>4, <1>5, <1>6, <3>3, OthersForget
  <2> QED
    BY <2>1, <2>2
<1>9. TypeOK'
  BY <1>1, <1>2, <1>3, ChangeObjectType
<1> QED
  BY <1>2, <1>6, <1>7, <1>8, <1>9, InvFrom

(* The logs stay, and what happens to the rest makes an event.             *)
LEMMA EventInv ==
  ASSUME IInv, UNCHANGED <<log, queued, job>>, delayed => (queued' \/ delayed'), TypeOK', changes <= changes',
         events \subseteq events',
         cm' = cm \/ "cm" \in events', conf' = conf \/ "conf" \in events', auth' = auth \/ "auth" \in events',
         \A u \in service \cup lost : Dead(u)' \/ u \in service' \cup lost'
  PROVE  IInv'
<1>1. /\ TypeOK /\ LogsOK /\ VersionsFit /\ (Attended \/ Made) /\ log["ns"] = <<FirstLabels>>
      /\ changes \in Nat /\ changes' \in Nat
  <2>1. CountersOK'
    BY TypeParts, PTL
  <2> QED
    BY <2>1, InvParts, SeenType DEF CountersOK
<1>2. VersionsFit'
  BY <1>1, VersionsOfLog
<1>3. Attended' \/ Made'
  <2>1. CASE Cached("prom") = None
    BY <2>1, SameLogs DEF Attended
  <2>2. CASE Cached("prom") # None
    <3>1. ServiceMade => ServiceMade'
      BY <1>1, <2>2, SameLogs, ServiceStays
    <3> QED
      BY <1>1, <3>1, SameLogs, OthersForget
  <2> QED
    BY <2>1, <2>2
<1> QED
  BY <1>1, <1>2, <1>3, InvFrom

(* The action ChangeSecret preserves the invariant.                        *)
LEMMA ChangeSecretInv == ASSUME IInv, ChangeSecret PROVE IInv'
<1>1. TypeOK /\ TypeOK'
  BY InvParts, ChangeSecretType
<1>2. /\ UNCHANGED <<log, cm, conf, service, lost>> /\ events' = events \cup {"auth"} /\ Change
  BY DEF ChangeSecret
<1>3. UNCHANGED <<queued, delayed, job>> /\ changes' = changes + 1 /\ changes \in Nat
  BY <1>1, <1>2, ChangeStep
<1> QED
  BY <1>1, <1>2, <1>3, EventInv

(* The action Tamper preserves the invariant.                              *)
LEMMA TamperInv == ASSUME IInv, Tamper PROVE IInv'
<1>1. TypeOK /\ TypeOK'
  BY InvParts, TamperType
<1>2. CASE \E s \in States("sset") :
             /\ ChangeObject("sset", s)
             /\ \/ s = None
                \/ /\ Live("sset") # None
                   /\ s.owner = Live("sset").owner /\ s.hash = Live("sset").hash /\ s.shape = Live("sset").shape
  BY <1>2, ChangeObjectInv
<1>3. CASE /\ UNCHANGED <<log, auth>> /\ Change
           /\ \/ \E n \in DOMAIN cm : SetConfigMaps(Without(cm, n)) /\ UNCHANGED <<conf, service, lost>>
              \/ SetConf(None) /\ UNCHANGED <<cm, service, lost>>
              \/ service' = {} /\ lost' = lost \cup service /\ UNCHANGED <<cm, conf, events>>
  <2>1. UNCHANGED <<queued, delayed, job>> /\ changes' = changes + 1 /\ changes \in Nat
    BY <1>1, <1>3, ChangeStep
  <2>2. /\ cm' = cm \/ "cm" \in events'
        /\ conf' = conf \/ "conf" \in events'
        /\ events \subseteq events'
        /\ service \cup lost \subseteq service' \cup lost'
    BY <1>3 DEF SetConfigMaps, SetConf
  <2> QED
    BY <1>1, <1>3, <2>1, <2>2, EventInv
<1> QED
  BY <1>1, <1>2, <1>3, TamperCases

(* The action SyncOther preserves the invariant.                           *)
LEMMA SyncOtherInv == ASSUME IInv, SyncOther PROVE IInv'
<1>1. TypeOK /\ TypeOK'
  BY InvParts, SyncOtherType
<1>2. UNCHANGED <<log, cm, conf, auth, events, lost>> /\ Change /\ service \subseteq service'
  BY DEF SyncOther, MergeOwners, secrets
<1>3. UNCHANGED <<queued, delayed, job>> /\ changes' = changes + 1 /\ changes \in Nat
  BY <1>1, <1>2, ChangeStep
<1> QED
  BY <1>1, <1>2, <1>3, EventInv

(* The action Collect preserves the invariant.                             *)
LEMMA CollectInv == ASSUME IInv, Collect PROVE IInv'
<1>1. TypeOK /\ TypeOK' /\ LogsOK /\ VersionsFit /\ (Attended \/ Made) /\ log["ns"] = <<FirstLabels>> /\ changes \in Nat
  BY InvParts, CollectType, SeenType
<1>2. UNCHANGED <<auth, queued, delayed, job, changes>>
  BY DEF Collect, secrets, counters
<1>3. CASE UNCHANGED <<cm, conf, events, service, lost>> /\ Write("sset", None)
  <2>1. "sset" \in Kinds \ {"ns"} /\ None \in States("sset")
    BY StatesOf
  <2>2. /\ log'["ns"] = log["ns"]
        /\ \A l \in {"prom", "rule", "smon", "ns"} : Cached(l)' = Cached(l)
        /\ log'["sset"] = log["sset"] \/ Len(log'["sset"]) > 1
        /\ Live("prom")' = Live("prom") /\ log'["prom"] = log["prom"]
        /\ Range(log'["sset"]) \subseteq Range(log["sset"]) \cup {None}
    BY <1>1, <1>3, <2>1, WriteKeeps, StatesOf
  <2>3. VersionsFit'
    BY <1>1, <1>2, <2>2, VersionsOfLog
  <2>4. Attended' \/ Made'
    <3>1. CASE Cached("prom") = None
      BY <2>2, <3>1 DEF Attended
    <3>2. CASE Cached("prom") # None
      <4>1. Cached("prom")' = Cached("prom") /\ service \cup lost \subseteq service' \cup lost'
        BY <1>3, <2>2
      <4>2. ServiceMade => ServiceMade'
        BY <1>1, <2>2, <3>2, <4>1, ServiceStays
      <4> QED
        BY <1>1, <1>2, <1>3, <2>2, <4>2, OthersForget
    <3> QED
      BY <3>1, <3>2
  <2> QED
    BY <1>1, <2>2, <2>3, <2>4, InvFrom
<1>4. CASE UNCHANGED log
  <2>1. /\ cm' = cm \/ "cm" \in events'
        /\ conf' = conf \/ "conf" \in events'
        /\ events \subseteq events'
        /\ \A u \in service \cup lost : Dead(u) \/ u \in service' \cup lost'
    BY <1>4 DEF Collect, SetConfigMaps, SetConf, secrets
  <2>2. \A u : Dead(u)' <=> Dead(u)
    BY <1>4, SameLogs DEF Dead
  <2> QED
    BY <1>1, <1>2, <1>4, <2>1, <2>2, EventInv
<1> QED
  BY <1>3, <1>4 DEF Collect, secrets

(* The action Requeue preserves the invariant.                             *)
LEMMA RequeueInv == ASSUME IInv, Requeue PROVE IInv'
<1>1. TypeOK /\ TypeOK'
  BY InvParts, RequeueType
<1>2. UNCHANGED <<log, cm, conf, auth, events, service, lost, job, changes, faults>> /\ queued' = TRUE
  BY DEF Requeue, secrets, counters
<1>3. VersionsFit' /\ log'["ns"] = <<FirstLabels>>
  BY <1>1, <1>2, InvParts, VersionsOfJob
<1> QED
  BY <1>1, <1>2, <1>3, InvFrom DEF Attended

(* A sync that fails will be tried again.                                  *)
LEMMA RetryInv ==
  ASSUME IInv, UNCHANGED <<log, changes>>, Retry, TypeOK'
  PROVE  IInv'
<1>1. VersionsFit' /\ log'["ns"] = <<FirstLabels>>
  BY InvParts, VersionsOfJob DEF Retry, NoJob
<1> QED
  BY <1>1, InvFrom DEF Retry, Attended

(* The action Fail preserves the invariant.                                *)
LEMMA FailInv == ASSUME IInv, Fail PROVE IInv'
<1>1. TypeOK'
  BY InvParts, FailType
<1> QED
  BY <1>1, RetryInv DEF Fail

(* The action Restart preserves the invariant.                             *)
LEMMA RestartInv == ASSUME IInv, Restart PROVE IInv'
<1>1. /\ TypeOK /\ TypeOK' /\ LogsOK /\ VersionsFit /\ changes \in Nat
      /\ Live("ns") = FirstLabels
  BY InvParts, RestartType, SeenType
<1>2. /\ changes' = changes /\ job' = NoJob /\ queued' = (Live("prom") # None)
      /\ log' = [k \in Kinds |-> <<Live(k)>>]
  BY DEF Restart
<1>3. /\ "prom" \in Kinds /\ "sset" \in Kinds /\ "ns" \in Kinds
      /\ \A k \in Kinds : /\ log'[k] = <<Live(k)>> /\ Cached(k)' = Live(k)
                          /\ Range(log'[k]) \subseteq Range(log[k])
  BY <1>1, <1>2, RestartStep, StatesOf
<1>4. VersionsFit'
  BY <1>1, <1>2, <1>3, VersionsOfLog DEF NoJob
<1>5. log'["ns"] = <<FirstLabels>>
  BY <1>1, <1>3
<1>6. Attended'
  BY <1>2, <1>3 DEF Attended
<1> QED
  BY <1>1, <1>4, <1>5, <1>6, InvFrom

(* An event of a rule that the key is not queued for changes nothing.      *)
LEMMA RuleEvent ==
  ASSUME IInv, Cached("prom") # None, NEW new, ~HandleRule(Cached("rule"), new)
  PROVE  Selections(Cached("prom").spec, Cached("rule"), Cached("ns")) = Selections(Cached("prom").spec, new, Cached("ns"))
<1> PICK spec : spec = Cached("prom").spec
  OBVIOUS
<1> PICK old : old = Cached("rule")
  OBVIOUS
<1> PICK ns : ns = Cached("ns")
  OBVIOUS
<1>1. \A n \in SelectNamespaces(spec, ns) : EnqueueForNamespace(n)
  BY Enqueues
<1>2. \A r \in Rules : NsOf[r] \in SelectNamespaces(spec, ns) => old[r] = new[r]
  BY <1>1 DEF HandleRule
<1> QED
  BY <1>2, SelectionsAgree

(* The same of the monitor.                                                *)
LEMMA MonitorEvent ==
  ASSUME IInv, Cached("prom") # None, NEW old, NEW new, ~EnqueueForNamespace(MonitorNs)
  PROVE  /\ SelectedMonitor(Cached("prom").spec, old, Cached("ns")) = SelectedMonitor(Cached("prom").spec, new, Cached("ns"))
         /\ MonitorNs \notin SelectNamespaces(Cached("prom").spec, Cached("ns"))
BY Enqueues DEF SelectedMonitor

(* The delivery to an informer preserves the invariant: what the cache     *)
(* learns is handled by queueing the key, or does not matter.              *)
LEMMA DeliverInv == ASSUME IInv, NEW k \in Kinds, Deliver(k) PROVE IInv'
<1>1. TypeOK /\ TypeOK' /\ LogsOK /\ VersionsFit /\ (Attended \/ Made) /\ log["ns"] = <<FirstLabels>> /\ changes \in Nat
  BY InvParts, DeliverType, SeenType
<1>2. /\ UNCHANGED <<cm, conf, auth, events, service, lost, delayed, job, changes, faults>>
      /\ queued' = (queued \/ Handle(k, log[k][1], log[k][2])) /\ Len(log[k]) > 1
  BY DEF Deliver, secrets, counters
<1>3. /\ Others(k) /\ Range(log'[k]) \subseteq Range(log[k])
      /\ Cached(k) = log[k][1] /\ Cached(k)' = log[k][2] /\ Live(k)' = Live(k)
  BY <1>1, DeliverStep, LogType
<1>4. k # "ns"
  BY <1>1, <1>2
<1>5. Kinds = {"prom", "rule", "smon", "ns", "sset"}
  BY StatesOf
<1>6. log'["ns"] = <<FirstLabels>>
  BY <1>1, <1>3, <1>4, <1>5 DEF Others
<1>7. VersionsFit'
  <2>1. Range(log'["prom"]) \subseteq Range(log["prom"]) /\ Range(log'["sset"]) \subseteq Range(log["sset"])
    BY <1>3, <1>5 DEF Others
  <2> QED
    BY <1>1, <1>2, <2>1, VersionsOfLog
<1>8. Attended' \/ Made'
  <2>1. CASE k = "prom"
    BY <1>2, <2>1 DEF Handle, HandlePrometheus, Attended
  <2>2. CASE k # "prom" /\ (Cached("prom") = None \/ queued \/ delayed \/ queued')
    <3>1. Cached("prom")' = Cached("prom")
      BY <1>3, <1>5, <2>2 DEF Others
    <3> QED
      BY <1>2, <2>2, <3>1 DEF Attended
  <2>3. CASE k # "prom" /\ ~(Cached("prom") = None \/ queued \/ delayed \/ queued')
    <3> PICK p : p = Cached("prom")
      OBVIOUS
    <3>1. /\ p # None /\ Made /\ ~Handle(k, Cached(k), Cached(k)') /\ k \in {"rule", "smon"}
      BY <1>1, <1>2, <1>3, <1>4, <1>5, <2>3 DEF Attended, Handle, HandleStatefulSet
    <3>2. /\ Cached("prom")' = p /\ Cached("ns")' = Cached("ns") /\ Cached("prom") = p
          /\ log'["sset"] = log["sset"] /\ Live("prom")' = Live("prom") /\ Live("sset")' = Live("sset")
      BY <1>3, <1>5, <3>1 DEF Others
    <3>3. ServiceMade => ServiceMade'
      BY <1>2, <3>2 DEF ServiceMade, ServiceFits, Dead
    <3>4. StatefulSetMade => StatefulSetMade'
      BY <1>2, <3>2 DEF StatefulSetMade, StatefulSetFits
    <3>5. SecretFits => SecretFits'
      BY <1>2 DEF SecretFits
    <3>6. RulesMade => RulesMade'
      <4>1. Selections(p.spec, Cached("rule"), Cached("ns")) = Selections(p.spec, Cached("rule")', Cached("ns"))
        <5>1. CASE k = "rule"
          BY <3>1, <3>2, <5>1, RuleEvent DEF Handle
        <5>2. CASE k = "smon"
          BY <1>3, <1>5, <5>2 DEF Others
        <5> QED
          BY <3>1, <5>1, <5>2
      <4> QED
        BY <1>2, <3>2, <4>1 DEF RulesMade, RulesFit
    <3>7. ConfigMade => ConfigMade'
      <4>1. SelectedMonitor(p.spec, Cached("smon"), Cached("ns")) = SelectedMonitor(p.spec, Cached("smon")', Cached("ns"))
        <5>1. CASE k = "smon"
          BY <3>1, <3>2, <5>1, MonitorEvent DEF Handle, HandleSmon
        <5>2. CASE k = "rule"
          BY <1>3, <1>5, <5>2 DEF Others
        <5> QED
          BY <3>1, <5>1, <5>2
      <4> QED
        BY <1>2, <3>2, <4>1 DEF ConfigMade, ConfigFits, HasConfig
    <3>8. Made'
      BY <1>2, <3>1, <3>2, <3>3, <3>4, <3>5, <3>6, <3>7 DEF Made, NoJob
    <3> QED
      BY <3>8
  <2> QED
    BY <2>1, <2>2, <2>3
<1> QED
  BY <1>1, <1>6, <1>7, <1>8, InvFrom

(* The events of what sync makes, and of the credentials.                  *)
LEMMA DeliverEventsInv ==
  ASSUME IInv, NEW e \in {"cm", "conf", "auth"}, DeliverEvents(e) \/ DeliverSome(e)
  PROVE  IInv'
<1>1. TypeOK /\ TypeOK' /\ VersionsFit /\ (Attended \/ Made) /\ log["ns"] = <<FirstLabels>>
  BY InvParts, DeliverEventsType
<1>2. UNCHANGED <<log, cm, conf, auth, service, lost, delayed, job, changes>>
  BY DEF DeliverEvents, DeliverSome, secrets, counters
<1>3. VersionsFit' /\ log'["ns"] = <<FirstLabels>>
  BY <1>1, <1>2, VersionsOfJob
<1>4. Attended' \/ Made'
  <2>1. CASE Cached("prom") = None \/ queued \/ delayed \/ queued'
    <3>1. queued => queued'
      BY DEF DeliverEvents, DeliverSome
    <3> QED
      BY <1>2, <2>1, <3>1, SameLogs DEF Attended
  <2>2. CASE ~(Cached("prom") = None \/ queued \/ delayed \/ queued')
    <3> PICK p : p = Cached("prom")
      OBVIOUS
    <3>1. p # None /\ Made /\ ~HandleEvent(e) /\ events' = events \ {e}
      BY <1>1, <2>2 DEF Attended, DeliverEvents, DeliverSome
    <3>2. e = "auth" /\ ~EnqueueForNamespace(MonitorNs)
      BY <2>2, <3>1, Enqueues DEF HandleEvent, HandleConfigMap, HandleSecret
    <3>3. MonitorNs \notin SelectNamespaces(p.spec, Cached("ns"))
      BY <2>2, <3>2, MonitorEvent
    <3>4. /\ Cached("prom")' = p /\ Cached("prom") = p
          /\ Cached("ns")' = Cached("ns") /\ Cached("rule")' = Cached("rule") /\ Cached("smon")' = Cached("smon")
          /\ Live("prom")' = Live("prom") /\ Live("sset")' = Live("sset")
      BY <1>2, SameLogs
    <3>5. "cm" \in events' <=> "cm" \in events
      BY <3>1, <3>2
    <3>6. "conf" \in events' <=> "conf" \in events
      BY <3>1, <3>2
    <3>7. ServiceMade => ServiceMade'
      BY <1>2, <3>4 DEF ServiceMade, ServiceFits, Dead
    <3>8. StatefulSetMade => StatefulSetMade'
      BY <1>2, <3>4, <3>5 DEF StatefulSetMade, StatefulSetFits
    <3>9. SecretFits => SecretFits'
      BY <1>2, <3>6 DEF SecretFits
    <3>10. RulesMade => RulesMade'
      BY <1>2, <3>4, <3>5 DEF RulesMade, RulesFit
    <3>11. ConfigMade => ConfigMade'
      BY <1>2, <3>3, <3>4, <3>5, <3>6 DEF ConfigMade, ConfigFits, HasConfig
    <3>12. Made'
      BY <1>2, <3>1, <3>4, <3>7, <3>8, <3>9, <3>10, <3>11 DEF Made, NoJob
    <3> QED
      BY <3>12
  <2> QED
    BY <2>1, <2>2
<1> QED
  BY <1>1, <1>3, <1>4, InvFrom

(* What a step of sync makes stays, and what the steps before it made.     *)
LEMMA WorkParts ==
  ASSUME UNCHANGED <<log, auth>>, events \subseteq events',
         cm' = cm \/ "cm" \in events', conf' = conf \/ "conf" \in events',
         service \cup lost \subseteq service' \cup lost'
  PROVE  /\ Cached("prom")' = Cached("prom")
         /\ ((job' = NoJob \/ (job # NoJob /\ job'.names = job.names)) /\ RulesMade) => RulesMade'
         /\ ConfigMade => ConfigMade'
         /\ SecretFits => SecretFits'
         /\ ServiceMade => ServiceMade'
         /\ StatefulSetMade => StatefulSetMade'
<1>1. /\ \A k \in {"prom", "rule", "smon", "ns"} : Cached(k)' = Cached(k)
      /\ Live("prom")' = Live("prom")
  BY SameLogs
<1>2. ServiceMade => ServiceMade'
  BY <1>1 DEF ServiceMade, ServiceFits, Dead
<1> QED
  BY <1>1, <1>2, PartsStay

(* A step of sync that goes on.                                            *)
LEMMA GoInv ==
  ASSUME IInv, UNCHANGED <<log, queued, delayed, changes>>, TypeOK', job'.prom = job.prom,
         Made /\ ~Attended => Made'
  PROVE  IInv'
<1>1. TypeOK /\ VersionsFit /\ (Attended \/ Made) /\ log["ns"] = <<FirstLabels>>
  BY InvParts
<1>2. VersionsFit' /\ log'["ns"] = <<FirstLabels>>
  BY <1>1, VersionsOfJob
<1>3. Attended => Attended'
  BY SameLogs DEF Attended
<1> QED
  BY <1>1, <1>2, <1>3, InvFrom

(* The start of sync preserves the invariant: the Prometheus that it takes *)
(* is the one the informer knows.                                          *)
LEMMA BeginInv == ASSUME IInv, Begin PROVE IInv'
<1>1. TypeOK /\ TypeOK' /\ VersionsFit /\ log["ns"] = <<FirstLabels>>
  BY InvParts, BeginType
<1>2. UNCHANGED <<log, delayed, changes>>
  BY DEF Begin, counters
<1> PICK p : p = Cached("prom")
  OBVIOUS
<1>3. job' = IF p = None THEN NoJob
             ELSE IF p.spec.paused THEN NoJob
             ELSE [NoJob EXCEPT !.step = "rules", !.prom = p]
  BY DEF Begin
<1>4. Cached("prom")' = p /\ Cached("prom") = p
  BY <1>2, SameLogs
<1>5. \/ job' = NoJob /\ (p = None \/ p.spec.paused)
      \/ job'.step = "rules" /\ job'.prom = p
  BY <1>3 DEF NoJob
<1>6. VersionsFit' /\ log'["ns"] = <<FirstLabels>>
  <2>1. job'.prom \in {None, job.prom, Cached("prom")}
    BY <1>4, <1>5 DEF NoJob
  <2> QED
    BY <1>1, <1>2, <2>1, VersionsOfJob
<1>7. Attended' \/ Made'
  BY <1>4, <1>5 DEF Attended, Made
<1> QED
  BY <1>1, <1>6, <1>7, InvFrom

(* The action ListRules preserves the invariant: rule ConfigMaps that stay *)
(* hold what is selected.                                                  *)
LEMMA ListRulesInv == ASSUME IInv, ListRules PROVE IInv'
<1>1. TypeOK /\ TypeOK' /\ JobOK
  BY InvParts, ListRulesType
<1>2. UNCHANGED <<log, cm, conf, auth, events, service, lost, queued, changes>> /\ job # NoJob /\ job.step = "rules"
  BY <1>1 DEF ListRules, secrets, counters, JobOK
<1>3. PICK want \in Selections(job.prom.spec, Cached("rule"), Cached("ns")) :
        \/ /\ want = Data(cm) /\ DOMAIN cm # {}
           /\ job' = [job EXCEPT !.step = "config", !.names = DOMAIN cm] /\ UNCHANGED delayed
        \/ Retry
        \/ job' = [job EXCEPT !.step = "maps", !.want = want, !.doomed = DOMAIN cm] /\ UNCHANGED delayed
  BY DEF ListRules, SameRules
<1>4. CASE Retry
  BY <1>1, <1>2, <1>4, RetryInv
<1>5. CASE /\ want = Data(cm) /\ DOMAIN cm # {}
           /\ job' = [job EXCEPT !.step = "config", !.names = DOMAIN cm] /\ UNCHANGED delayed
  <2>1. job'.step = "config" /\ job'.prom = job.prom /\ job'.names = DOMAIN cm
    BY <1>1, <1>5 DEF JobOK, Job
  <2>2. ASSUME Made PROVE Made'
    <3> PICK p : p = Cached("prom")
      OBVIOUS
    <3>1. /\ Cached("prom")' = p /\ Cached("prom") = p /\ job.prom = p
          /\ Cached("rule")' = Cached("rule") /\ Cached("ns")' = Cached("ns")
      BY <1>2, <2>2, SameLogs DEF Made
    <3>2. RulesMade'
      BY <1>2, <1>3, <1>5, <2>1, <3>1 DEF RulesMade, RulesFit
    <3> QED
      BY <2>1, <3>1, <3>2 DEF Made
  <2> QED
    BY <1>1, <1>2, <1>5, <2>1, <2>2, GoInv
<1>6. CASE job' = [job EXCEPT !.step = "maps", !.want = want, !.doomed = DOMAIN cm] /\ UNCHANGED delayed
  <2>1. job'.step = "maps" /\ job'.prom = job.prom
    BY <1>1, <1>6 DEF JobOK, Job
  <2>2. ASSUME Made PROVE Made'
    BY <1>2, <2>1, <2>2, SameLogs DEF Made
  <2> QED
    BY <1>1, <1>2, <1>6, <2>1, <2>2, GoInv
<1> QED
  BY <1>3, <1>4, <1>5, <1>6

(* The action DeleteConfigMap preserves the invariant.                     *)
LEMMA DeleteConfigMapInv == ASSUME IInv, DeleteConfigMap PROVE IInv'
<1>1. TypeOK /\ TypeOK' /\ JobOK
  BY InvParts, DeleteConfigMapType
<1>2. UNCHANGED <<log, queued, changes>> /\ job # NoJob /\ job.step = "maps"
  BY <1>1 DEF DeleteConfigMap, counters, JobOK
<1>3. Retry \/ ((\E n : job' = [job EXCEPT !.doomed = @ \ {n}]) /\ UNCHANGED delayed)
  BY DEF DeleteConfigMap
<1>4. CASE Retry
  BY <1>1, <1>2, <1>4, RetryInv
<1>5. CASE (\E n : job' = [job EXCEPT !.doomed = @ \ {n}]) /\ UNCHANGED delayed
  <2>1. job'.step = "maps" /\ job'.prom = job.prom
    BY <1>1, <1>2, <1>5 DEF JobOK, Job
  <2>2. ASSUME Made PROVE Made'
    BY <1>2, <2>1, <2>2, SameLogs DEF Made
  <2> QED
    BY <1>1, <1>2, <1>5, <2>1, <2>2, GoInv
<1> QED
  BY <1>3, <1>4, <1>5

(* The action CreateConfigMap preserves the invariant.                     *)
LEMMA CreateConfigMapInv == ASSUME IInv, CreateConfigMap PROVE IInv'
<1>1. TypeOK /\ TypeOK' /\ JobOK
  BY InvParts, CreateConfigMapType
<1>2. UNCHANGED <<log, queued, changes>> /\ job # NoJob /\ job.step = "maps"
  BY <1>1 DEF CreateConfigMap, counters, JobOK
<1> PICK n : n = job.next
  OBVIOUS
<1>3. \/ Retry
      \/ /\ "cm" \in events' /\ UNCHANGED delayed
         /\ \/ job' = [job EXCEPT !.next = n + 1]
            \/ job' = [job EXCEPT !.step = "config", !.want = {}, !.next = 0, !.names = 0 .. n]
  BY DEF CreateConfigMap, SetConfigMaps
<1>4. CASE Retry
  BY <1>1, <1>2, <1>4, RetryInv
<1>5. CASE "cm" \in events' /\ UNCHANGED delayed /\ job' = [job EXCEPT !.next = n + 1]
  <2>1. job'.step = "maps" /\ job'.prom = job.prom
    BY <1>1, <1>2, <1>5 DEF JobOK, Job
  <2>2. ASSUME Made PROVE Made'
    BY <1>2, <2>1, <2>2, SameLogs DEF Made
  <2> QED
    BY <1>1, <1>2, <1>5, <2>1, <2>2, GoInv
<1>6. CASE /\ "cm" \in events' /\ UNCHANGED delayed
           /\ job' = [job EXCEPT !.step = "config", !.want = {}, !.next = 0, !.names = 0 .. n]
  <2>1. job'.step = "config" /\ job'.prom = job.prom
    BY <1>1, <1>2, <1>6 DEF JobOK, Job
  <2>2. RulesMade'
    BY <1>6 DEF RulesMade, RulesFit
  <2>3. ASSUME Made PROVE Made'
    BY <1>2, <2>1, <2>2, <2>3, SameLogs DEF Made
  <2> QED
    BY <1>1, <1>2, <1>6, <2>1, <2>3, GoInv
<1> QED
  BY <1>3, <1>4, <1>5, <1>6

(* The action Configure preserves the invariant.                           *)
LEMMA ConfigureInv == ASSUME IInv, Configure PROVE IInv'
<1>1. TypeOK /\ TypeOK' /\ JobOK
  BY InvParts, ConfigureType
<1>2. UNCHANGED <<log, cm, conf, auth, events, service, lost, queued, changes>> /\ job # NoJob /\ job.step = "config"
  BY <1>1 DEF Configure, secrets, JobOK
<1> PICK new : new = Config(SelectedMonitor(job.prom.spec, Cached("smon"), Cached("ns")), auth, job.names)
  OBVIOUS
<1>3. \/ Retry
      \/ Jump("secret") /\ UNCHANGED delayed /\ (~job.prom.spec.managed \/ HasConfig(new))
      \/ UNCHANGED delayed /\ \E b \in BOOLEAN : job' = [job EXCEPT !.step = "write", !.conf = new, !.found = b]
  <2>1. (conf # None) \in BOOLEAN
    OBVIOUS
  <2> HIDE DEF HasConfig, Retry, Jump
  <2> QED
    BY <2>1 DEF Configure, GetFails
<1>4. CASE Retry
  BY <1>1, <1>2, <1>4, RetryInv
<1>5. CASE Jump("secret") /\ UNCHANGED delayed /\ (~job.prom.spec.managed \/ HasConfig(new))
  <2>1. job'.step = "secret" /\ job'.prom = job.prom /\ job'.names = job.names /\ job' # NoJob
    BY <1>1, <1>5 DEF Jump, JobOK, Job, NoJob
  <2>2. ASSUME Made PROVE Made'
    <3> PICK p : p = Cached("prom")
      OBVIOUS
    <3>1. /\ Cached("prom")' = p /\ Cached("prom") = p /\ job.prom = p
          /\ Cached("smon")' = Cached("smon") /\ Cached("ns")' = Cached("ns")
      BY <1>2, <2>2, SameLogs DEF Made
    <3>2. CASE p.spec.paused
      BY <2>1, <3>1, <3>2 DEF Made
    <3>3. CASE ~p.spec.paused
      <4>1. RulesMade
        BY <1>2, <2>2, <3>1, <3>3 DEF Made
      <4>2. RulesMade'
        BY <1>2, <2>1, <4>1, WorkParts
      <4>3. ConfigMade'
        <5>1. "cm" \in events \/ job.names = DOMAIN cm
          BY <1>2, <4>1 DEF RulesMade, RulesFit
        <5>2. ConfigMade
          BY <1>5, <3>1, <5>1 DEF ConfigMade, ConfigFits
        <5> QED
          BY <1>2, <5>2, WorkParts
      <4> QED
        BY <2>1, <3>1, <4>2, <4>3 DEF Made
    <3> QED
      BY <3>2, <3>3
  <2> QED
    BY <1>1, <1>2, <1>5, <2>1, <2>2, GoInv
<1>6. CASE UNCHANGED delayed /\ \E b \in BOOLEAN : job' = [job EXCEPT !.step = "write", !.conf = new, !.found = b]
  <2>1. job'.step = "write" /\ job'.prom = job.prom /\ job'.names = job.names
    BY <1>1, <1>6 DEF JobOK, Job
  <2>2. RulesMade => RulesMade'
    BY <1>2, <2>1, WorkParts
  <2>3. ASSUME Made PROVE Made'
    BY <1>2, <2>1, <2>2, <2>3, SameLogs DEF Made
  <2> QED
    BY <1>1, <1>2, <1>6, <2>1, <2>3, GoInv
<1> QED
  BY <1>3, <1>4, <1>5, <1>6

(* The action WriteConfiguration preserves the invariant.                  *)
LEMMA WriteConfigurationInv == ASSUME IInv, WriteConfiguration PROVE IInv'
<1>1. TypeOK /\ TypeOK' /\ JobOK
  BY InvParts, WriteConfigurationType
<1>2. UNCHANGED <<log, cm, auth, service, lost, queued, changes>> /\ job # NoJob /\ job.step = "write"
  BY <1>1 DEF WriteConfiguration, counters, JobOK
<1>3. \/ Retry
      \/ /\ events' = events \cup {"conf"} /\ UNCHANGED delayed
         /\ job' = [job EXCEPT !.step = "secret", !.conf = None, !.found = FALSE]
  BY DEF WriteConfiguration, SetConf
<1>4. CASE Retry
  BY <1>1, <1>2, <1>4, RetryInv
<1>5. CASE /\ events' = events \cup {"conf"} /\ UNCHANGED delayed
           /\ job' = [job EXCEPT !.step = "secret", !.conf = None, !.found = FALSE]
  <2>1. job'.step = "secret" /\ job'.prom = job.prom /\ job'.names = job.names
    BY <1>1, <1>5 DEF JobOK, Job
  <2>2. RulesMade => RulesMade'
    BY <1>2, <1>5, <2>1, WorkParts
  <2>3. ConfigMade'
    BY <1>5 DEF ConfigMade, ConfigFits
  <2>4. ASSUME Made PROVE Made'
    BY <1>2, <2>1, <2>2, <2>3, <2>4, SameLogs DEF Made
  <2> QED
    BY <1>1, <1>2, <1>5, <2>1, <2>4, GoInv
<1> QED
  BY <1>3, <1>4, <1>5

(* The action CreateEmptySecret preserves the invariant.                   *)
LEMMA CreateEmptySecretInv == ASSUME IInv, CreateEmptySecret PROVE IInv'
<1>1. TypeOK /\ TypeOK' /\ JobOK
  BY InvParts, CreateEmptySecretType
<1>2. /\ UNCHANGED <<log, cm, auth, service, lost, queued, delayed, changes>> /\ job # NoJob /\ job.step = "secret"
      /\ Jump("service")
  BY <1>1 DEF CreateEmptySecret, counters, JobOK
<1>3. \/ conf # None /\ UNCHANGED <<conf, events>>
      \/ events' = events \cup {"conf"}
  BY DEF CreateEmptySecret, SetConf
<1>4. job'.step = "service" /\ job'.prom = job.prom /\ job'.names = job.names
  BY <1>1, <1>2 DEF Jump, JobOK, Job
<1>5. /\ RulesMade => RulesMade'
      /\ ConfigMade => ConfigMade'
  BY <1>2, <1>3, <1>4, WorkParts
<1>6. SecretFits'
  BY <1>3 DEF SecretFits
<1>7. ASSUME Made PROVE Made'
  BY <1>2, <1>4, <1>5, <1>6, <1>7, SameLogs DEF Made
<1> QED
  BY <1>1, <1>2, <1>4, <1>7, GoInv

(* The action GetService preserves the invariant.                          *)
LEMMA GetServiceInv == ASSUME IInv, GetService PROVE IInv'
<1>1. TypeOK /\ TypeOK' /\ JobOK
  BY InvParts, GetServiceType
<1>2. /\ UNCHANGED <<log, cm, conf, auth, events, service, lost, queued, delayed, changes>>
      /\ job # NoJob /\ job.step = "service"
      /\ job' = [job EXCEPT !.step = "put", !.owners = service]
  BY <1>1 DEF GetService, secrets, counters, JobOK
<1>3. job'.step = "put" /\ job'.prom = job.prom /\ job'.names = job.names
  BY <1>1, <1>2 DEF JobOK, Job
<1>4. /\ RulesMade => RulesMade'
      /\ ConfigMade => ConfigMade'
      /\ SecretFits => SecretFits'
  BY <1>2, <1>3, WorkParts
<1>5. ASSUME Made PROVE Made'
  BY <1>2, <1>3, <1>4, <1>5, SameLogs DEF Made
<1> QED
  BY <1>1, <1>2, <1>3, <1>5, GoInv

(* The action CreateOrUpdateService preserves the invariant: the owner is  *)
(* in the Service, or known to be left without it.                         *)
LEMMA CreateOrUpdateServiceInv == ASSUME IInv, CreateOrUpdateService PROVE IInv'
<1>1. TypeOK /\ TypeOK' /\ JobOK /\ VersionsFit
  BY InvParts, CreateOrUpdateServiceType
<1>2. /\ UNCHANGED <<log, cm, conf, auth, events, queued, delayed, changes>> /\ job # NoJob /\ job.step = "put"
      /\ service \cup lost \cup {job.prom.uid} \subseteq service' \cup lost'
      /\ job' = [job EXCEPT !.step = "sset", !.owners = {}]
  BY <1>1 DEF CreateOrUpdateService, MergeOwners, secrets, counters, JobOK
<1>3. job'.step = "sset" /\ job'.prom = job.prom /\ job'.names = job.names
  BY <1>1, <1>2 DEF JobOK, Job
<1>4. /\ RulesMade => RulesMade'
      /\ ConfigMade => ConfigMade'
      /\ SecretFits => SecretFits'
  BY <1>2, <1>3, WorkParts
<1>5. ASSUME Made PROVE Made'
  <2>1. Cached("prom")' = Cached("prom") /\ job.prom = Cached("prom")
    BY <1>2, <1>5, SameLogs DEF Made
  <2>2. ServiceMade'
    BY <1>2, <2>1 DEF ServiceMade, ServiceFits
  <2> QED
    BY <1>2, <1>3, <1>4, <1>5, <2>1, <2>2 DEF Made
<1> QED
  BY <1>1, <1>2, <1>3, <1>5, GoInv

(* The action ServiceConflict preserves the invariant.                     *)
LEMMA ServiceConflictInv == ASSUME IInv, ServiceConflict PROVE IInv'
<1>1. TypeOK'
  BY InvParts, ServiceConflictType
<1>2. UNCHANGED <<log, changes>> /\ Retry
  BY DEF ServiceConflict, counters
<1> QED
  BY <1>1, <1>2, RetryInv

(* The last step of sync: the StatefulSet is right, is being deleted, or   *)
(* an event is on its way.                                                 *)
LEMMA ApplyMakes ==
  ASSUME IInv, job # NoJob, ApplyStatefulSet, ~Retry, Made, ~Cached("prom").spec.paused, RulesMade
  PROVE  StatefulSetMade'
<1> PICK p : p = Cached("prom")
  OBVIOUS
<1> PICK new : new = MakeStatefulSet(job.prom, job.names)
  OBVIOUS
<1>1. LogsOK /\ ObjectsOK /\ JobOK /\ "sset" \in Kinds
  BY InvParts, StatesOf
<1>2. UNCHANGED <<cm, events>>
  BY DEF ApplyStatefulSet
<1>3. /\ new \in StatefulSet /\ Live("sset") \in {None} \cup StatefulSet
      /\ Live("sset") # None => /\ [new EXCEPT !.deleting = Live("sset").deleting] \in StatefulSet
                                /\ [Live("sset") EXCEPT !.deleting = TRUE] \in StatefulSet
  BY <1>1, AppliedTypes
<1>4. /\ \A s \in StatefulSet : Write("sset", s) => \/ UNCHANGED log /\ s = Live("sset")
                                                    \/ Len(log'["sset"]) > 1
  BY <1>1, StatesOf, WriteStep DEF Written
<1>5. job.prom = p /\ new.hash = InputHash(p, job.names)
  BY DEF Made, MakeStatefulSet
<1>6. CASE Len(log'["sset"]) > 1 \/ "cm" \in events
  BY <1>2, <1>6 DEF StatefulSetMade, StatefulSetFits
<1>7. CASE ~(Len(log'["sset"]) > 1 \/ "cm" \in events)
  <2>1. job.names = DOMAIN cm /\ cm' = cm
    BY <1>2, <1>7 DEF RulesMade, RulesFit
  <2>2. UNCHANGED log
    BY <1>3, <1>4, <1>7, ApplyCases
  <2>3. Cached("sset") = Live("sset") /\ Live("sset")' = Live("sset") /\ Cached("prom")' = p
    BY <1>1, <1>7, <2>2, LogType, SameLogs
  <2>4. Live("sset") # None /\ (Live("sset").deleting \/ Live("sset").hash = new.hash)
    <3>1. CASE Cached("sset") # None /\ SameHash(Cached("sset"), new)
      BY <2>3, <3>1 DEF SameHash
    <3>2. CASE Cached("sset") = None /\ Live("sset") = None /\ Write("sset", new)
      BY <1>3, <1>4, <1>7, <3>2, NameAssumption
    <3>3. CASE Live("sset") # None /\ Write("sset", [new EXCEPT !.deleting = Live("sset").deleting])
      <4>1. [new EXCEPT !.deleting = Live("sset").deleting] = Live("sset")
        BY <1>3, <1>4, <1>7, <3>3
      <4>2. [new EXCEPT !.deleting = Live("sset").deleting].hash = new.hash
        BY <1>3 DEF StatefulSet
      <4> QED
        BY <3>3, <4>1, <4>2
    <3>4. CASE Live("sset") # None /\ Write("sset", [Live("sset") EXCEPT !.deleting = TRUE])
      <4>1. [Live("sset") EXCEPT !.deleting = TRUE] = Live("sset")
        BY <1>3, <1>4, <1>7, <3>4
      <4>2. [Live("sset") EXCEPT !.deleting = TRUE].deleting = TRUE
        BY <1>3, <3>4 DEF StatefulSet
      <4> QED
        BY <3>4, <4>1, <4>2
    <3> QED
      BY <3>1, <3>2, <3>3, <3>4, ApplyCases
  <2> QED
    BY <1>5, <2>1, <2>3, <2>4 DEF StatefulSetMade, StatefulSetFits
<1> QED
  BY <1>6, <1>7

(* The action ApplyStatefulSet preserves the invariant.                    *)
LEMMA ApplyStatefulSetInv == ASSUME IInv, ApplyStatefulSet PROVE IInv'
<1>1. TypeOK /\ TypeOK' /\ JobOK /\ LogsOK /\ ObjectsOK /\ VersionsFit /\ (Attended \/ Made) /\ log["ns"] = <<FirstLabels>>
  BY InvParts, ApplyStatefulSetType
<1>2. UNCHANGED <<cm, conf, auth, events, service, lost, queued, changes>> /\ job # NoJob /\ job.step = "sset"
  BY <1>1 DEF ApplyStatefulSet, secrets, counters, JobOK
<1> PICK new : new = MakeStatefulSet(job.prom, job.names)
  OBVIOUS
<1>3. /\ new \in StatefulSet /\ Live("sset") \in {None} \cup StatefulSet
      /\ Live("sset") # None => /\ [new EXCEPT !.deleting = Live("sset").deleting] \in StatefulSet
                                /\ [Live("sset") EXCEPT !.deleting = TRUE] \in StatefulSet
  BY <1>1, <1>2, AppliedTypes
<1>4. CASE Retry /\ UNCHANGED log
  BY <1>1, <1>2, <1>4, RetryInv
<1>5. CASE Done
  <2>1. job' = NoJob /\ UNCHANGED delayed /\ NoJob.step = "idle"
    BY <1>5 DEF Done, NoJob
  <2>2. \/ UNCHANGED log
        \/ \E s \in StatefulSet :
             /\ Write("sset", s)
             /\ \/ /\ s.owner = job.prom.uid /\ s.shape = job.prom.spec.shape
                   /\ s.hash.uid = job.prom.uid /\ s.hash.rv = job.prom.rv
                \/ /\ Live("sset") # None
                   /\ s.owner = Live("sset").owner /\ s.hash = Live("sset").hash /\ s.shape = Live("sset").shape
    <3>1. /\ new.owner = job.prom.uid /\ new.shape = job.prom.spec.shape
          /\ new.hash.uid = job.prom.uid /\ new.hash.rv = job.prom.rv
      BY DEF MakeStatefulSet, InputHash
    <3>2. CASE Write("sset", new)
      BY <1>3, <3>1, <3>2
    <3>3. CASE Live("sset") # None /\ Write("sset", [new EXCEPT !.deleting = Live("sset").deleting])
      <4> PICK s : s = [new EXCEPT !.deleting = Live("sset").deleting]
        OBVIOUS
      <4>1. s \in StatefulSet /\ s.owner = new.owner /\ s.shape = new.shape /\ s.hash = new.hash
        BY <1>3, <3>3 DEF StatefulSet
      <4> QED
        BY <3>1, <3>3, <4>1
    <3>4. CASE Live("sset") # None /\ Write("sset", [Live("sset") EXCEPT !.deleting = TRUE])
      <4> PICK s : s = [Live("sset") EXCEPT !.deleting = TRUE]
        OBVIOUS
      <4>1. s \in StatefulSet /\ s.owner = Live("sset").owner /\ s.shape = Live("sset").shape /\ s.hash = Live("sset").hash
        BY <1>3, <3>4 DEF StatefulSet
      <4> QED
        BY <3>4, <4>1
    <3> QED
      BY <3>2, <3>3, <3>4, ApplyCases
  <2>3. "sset" \in Kinds \ {"ns"} /\ "sset" \in Kinds /\ States("sset") = {None} \cup StatefulSet
    BY StatesOf
  <2>4. /\ log'["ns"] = log["ns"]
        /\ \A l \in {"prom", "rule", "smon", "ns"} : Cached(l)' = Cached(l)
        /\ log'["sset"] = log["sset"] \/ Len(log'["sset"]) > 1
        /\ Live("prom")' = Live("prom")
    <3>1. CASE UNCHANGED log
      BY <3>1, SameLogs
    <3>2. CASE \E s \in States("sset") : Write("sset", s)
      BY <1>1, <2>3, <3>2, WriteKeeps
    <3> QED
      BY <2>2, <2>3, <3>1, <3>2
  <2>5. VersionsFit'
    <3>1. CASE UNCHANGED log
      BY <1>1, <1>2, <2>1, <3>1, VersionsOfJob DEF NoJob
    <3>2. CASE ~UNCHANGED log
      <4>1. PICK s \in StatefulSet :
             /\ Write("sset", s)
             /\ \/ /\ s.owner = job.prom.uid /\ s.shape = job.prom.spec.shape
                   /\ s.hash.uid = job.prom.uid /\ s.hash.rv = job.prom.rv
                \/ /\ Live("sset") # None
                   /\ s.owner = Live("sset").owner /\ s.hash = Live("sset").hash /\ s.shape = Live("sset").shape
        BY <2>2, <3>2
      <4>2. Written("sset", s)
        BY <1>1, <2>3, <3>2, <4>1, WriteStep
      <4>3. Live("sset") # None => Live("sset") \in Range(log["sset"]) \ {None}
        BY <1>1, <2>3, LogType
      <4>4. changes \in Nat /\ changes' = changes /\ changes <= changes'
        BY <1>1, <1>2, SeenType
      <4> HIDE DEF NoJob
      <4> QED
        BY <1>1, <1>2, <2>1, <4>1, <4>2, <4>3, <4>4, VersionsOfApply
    <3> QED
      BY <3>1, <3>2
  <2>6. Attended' \/ Made'
    <3> PICK p : p = Cached("prom")
      OBVIOUS
    <3>1. Cached("prom") = p /\ Cached("prom")' = p
      BY <2>4
    <3>2. CASE Attended \/ Retry
      BY <1>2, <2>1, <3>1, <3>2 DEF Attended, Retry
    <3>3. CASE Made /\ p.spec.paused
      BY <2>1, <3>1, <3>3 DEF Made
    <3>4. CASE Made /\ ~p.spec.paused /\ ~Retry
      <4>1. RulesMade /\ ConfigMade /\ SecretFits /\ ServiceMade
        BY <1>2, <3>1, <3>4 DEF Made
      <4>2. ServiceMade'
        BY <1>2, <2>4, <4>1 DEF ServiceMade, ServiceFits, Dead
      <4>3. RulesMade' /\ ConfigMade' /\ SecretFits'
        BY <1>2, <2>1, <2>4, <4>1, <4>2, PartsStay
      <4>4. StatefulSetMade'
        BY <1>2, <1>5, <3>1, <3>4, <4>1, ApplyMakes
      <4> QED
        BY <2>1, <4>2, <4>3, <4>4 DEF Made
    <3> QED
      BY <1>1, <3>2, <3>3, <3>4
  <2> QED
    BY <1>1, <2>4, <2>5, <2>6, InvFrom
<1>6. (Retry /\ UNCHANGED log) \/ Done
  BY ApplyCases
<1> QED
  BY <1>4, <1>5, <1>6

-----------------------------------------------------------------------------
(* The invariant.                                                          *)

(* A log of one state.                                                     *)
LEMMA SingleLog ==
  ASSUME NEW k \in Kinds, NEW x, log[k] = <<x>>
  PROVE  /\ Cached(k) = x /\ Live(k) = x /\ Len(log[k]) = 1 /\ Range(log[k]) = {x}
         /\ \A S : x \in S => log[k] \in Seq(S)
<1>1. /\ Len(<<x>>) = 1 /\ Head(<<x>>) = x /\ <<x>>[1] = x /\ DOMAIN <<x>> = {1}
      /\ \A S : x \in S => <<x>> \in Seq(S)
  OBVIOUS
<1>2. Last(<<x>>) = x /\ Range(<<x>>) = {x}
  BY <1>1 DEF Last, Range
<1> QED
  BY <1>1, <1>2 DEF Cached, Live

(* It holds when the operator starts.                                      *)
LEMMA InitInv == Init => IInv
<1> SUFFICES ASSUME Init PROVE IInv
  OBVIOUS
<1> PICK p : p = [uid |-> 1, rv |-> 1, spec |-> FirstSpec]
  OBVIOUS
<1>1. PICK v \in Versions :
        /\ log = [prom |-> <<p>>, rule |-> <<[r \in Rules |-> v]>>, smon |-> <<1>>, ns |-> <<FirstLabels>>, sset |-> <<None>>]
        /\ cm = [n \in {} |-> None] /\ conf = None /\ auth = v /\ events = {} /\ service = {} /\ lost = {}
        /\ queued = TRUE /\ delayed = FALSE /\ job = NoJob /\ changes = 1 /\ faults = 0
  BY DEF Init
<1>2. /\ DOMAIN log = Kinds
      /\ log["prom"] = <<p>> /\ log["rule"] = <<[r \in Rules |-> v]>> /\ log["smon"] = <<1>>
      /\ log["ns"] = <<FirstLabels>> /\ log["sset"] = <<None>>
  BY <1>1 DEF Kinds
<1>3. p \in Prometheus /\ p.uid = 1 /\ p.rv = 1
  BY SpecAssumption DEF Prometheus
<1>4. LogsOK
  <2>1. /\ p \in States("prom") /\ [r \in Rules |-> v] \in States("rule") /\ 1 \in States("smon")
        /\ FirstLabels \in States("ns") /\ None \in States("sset")
    BY <1>3, StatesOf, NamespaceAssumption
  <2>2. ASSUME NEW k \in Kinds PROVE log[k] \in Seq(States(k)) /\ Len(log[k]) = 1
    BY <1>2, <2>1, StatesOf, SingleLog
  <2>3. 1 \in 1 .. MaxEvents + 1
    BY BoundAssumption
  <2> QED
    BY <1>2, <2>2, <2>3 DEF LogsOK
<1>5. ObjectsOK
  BY <1>1 DEF ObjectsOK
<1>6. JobOK
  <2>1. NoJob \in Job /\ NoJob.step = "idle" /\ NoJob.prom = None
    BY DEF NoJob, Job, Steps
  <2> QED
    BY <1>1, <2>1 DEF JobOK
<1>7. CountersOK
  BY <1>1, BoundAssumption DEF CountersOK
<1>8. VersionsFit
  <2>1. Range(log["prom"]) = {p} /\ Range(log["sset"]) = {None}
    BY <1>2, StatesOf, SingleLog
  <2>2. Seen \subseteq {p}
    BY <1>1, <2>1 DEF Seen, NoJob
  <2>3. \A q \in Seen : q = p
    BY <2>2
  <2> QED
    BY <1>1, <1>3, <2>1, <2>3 DEF VersionsFit
<1>9. NothingForgotten
  BY <1>1 DEF NothingForgotten
<1> QED
  BY <1>2, <1>4, <1>5, <1>6, <1>7, <1>8, <1>9, TypeParts DEF IInv

(* A step of the worker preserves it.                                      *)
LEMMA WorkerInv == ASSUME IInv, Worker PROVE IInv'
BY BeginInv, ListRulesInv, DeleteConfigMapInv, CreateConfigMapInv, ConfigureInv, WriteConfigurationInv,
   CreateEmptySecretInv, GetServiceInv, CreateOrUpdateServiceInv, ServiceConflictInv, ApplyStatefulSetInv DEF Worker

(* A stuttering step does.                                                 *)
LEMMA StutterInv == ASSUME IInv, UNCHANGED vars PROVE IInv'
<1>1. UNCHANGED <<log, cm, conf, auth, events, service, lost, queued, delayed, job, changes, faults>>
  BY DEF vars, secrets, counters
<1>2. /\ TypeOK /\ LogsOK /\ ObjectsOK /\ JobOK /\ CountersOK
  BY InvParts
<1>3. LogsOK' /\ ObjectsOK' /\ JobOK' /\ CountersOK'
  BY <1>1, <1>2 DEF LogsOK, ObjectsOK, JobOK, CountersOK
<1>4. TypeOK'
  BY <1>3, TypeParts, PTL
<1>5. \A u \in service \cup lost : Dead(u)' \/ u \in service' \cup lost'
  BY <1>1
<1> QED
  BY <1>1, <1>2, <1>4, <1>5, SeenType, EventInv

(* Every step does.                                                        *)
LEMMA NextInv == IInv /\ [Next]_vars => IInv'
<1> SUFFICES ASSUME IInv, [Next]_vars PROVE IInv'
  OBVIOUS
<1>1. CASE Worker
  BY <1>1, WorkerInv
<1>2. CASE Fail
  BY <1>2, FailInv
<1>3. CASE Requeue
  BY <1>3, RequeueInv
<1>4. CASE Restart
  BY <1>4, RestartInv
<1>5. CASE Collect
  BY <1>5, CollectInv
<1>6. CASE \E k \in Kinds : Deliver(k)
  BY <1>6, DeliverInv
<1>7. CASE \E e \in {"cm", "conf", "auth"} : DeliverEvents(e) \/ DeliverSome(e)
  BY <1>7, DeliverEventsInv
<1>8. CASE ChangePrometheus
  BY <1>8, ChangePrometheusInv
<1>9. CASE ChangeRule
  BY <1>9, ChangeRuleInv
<1>10. CASE ChangeMonitor
  BY <1>10, ChangeMonitorInv
<1>11. CASE ChangeSecret
  BY <1>11, ChangeSecretInv
<1>12. CASE Tamper
  BY <1>12, TamperInv
<1>13. CASE SyncOther
  BY <1>13, SyncOtherInv
<1>14. CASE UNCHANGED vars
  BY <1>14, StutterInv
<1> QED
  BY <1>1, <1>2, <1>3, <1>4, <1>5, <1>6, <1>7, <1>8, <1>9, <1>10, <1>11, <1>12, <1>13, <1>14 DEF Next, Undisturbed

(* Unless the key is queued again, what the informers know is made as far  *)
(* as sync has come, or the watch will bring an event that queues the key: *)
(* the handlers of the informers and the rate limiter forget nothing.      *)
THEOREM InvCorrect == Spec => []IInv
BY InitInv, NextInv, PTL DEF Spec

(* Types are right, and between two syncs the worker remembers nothing.    *)
THEOREM TypeCorrect == Spec => []TypeOK
<1>1. IInv => TypeOK
  BY DEF IInv
<1> QED
  BY <1>1, InvCorrect, PTL

(* When nothing is left to do the informers know what the API server has.  *)
LEMMA QuietCaches ==
  ASSUME IInv, Quiet
  PROVE  /\ \A k \in Kinds : Cached(k) = Live(k)
         /\ job = NoJob /\ job.step = "idle" /\ events = {} /\ Len(log["sset"]) = 1
         /\ Cached("prom") = None \/ Made
<1>1. LogsOK /\ (Attended \/ Made)
  BY InvParts
<1>2. \A k \in Kinds : Len(log[k]) = 1
  BY DEF Quiet
<1>3. \A k \in Kinds : Cached(k) = Live(k)
  BY <1>1, <1>2, LogType
<1> QED
  BY <1>1, <1>2, <1>3, StatesOf DEF Quiet, Attended, NoJob

(* The fields of a StatefulSet that the operator makes.                    *)
LEMMA StatefulSetFields ==
  ASSUME NEW H, NEW o \in Nat, NEW h \in H, NEW f \in Nat, NEW m,
         m = [owner |-> o, hash |-> h, shape |-> f, deleting |-> FALSE, edited |-> FALSE]
  PROVE  /\ m.owner = o /\ m.hash = h /\ m.shape = f /\ m.deleting = FALSE /\ m.edited = FALSE
         /\ m \in [owner : Nat, hash : H, shape : Nat, deleting : BOOLEAN, edited : BOOLEAN]
  OBVIOUS

(* Only its mark tells a StatefulSet that was edited in place from the one *)
(* the operator makes.                                                     *)
LEMMA EditUndone ==
  ASSUME NEW s \in StatefulSet, NEW p, NEW n,
         s.owner = p.uid, s.hash = InputHash(p, n), s.shape = p.spec.shape, s.deleting = FALSE
  PROVE  Unedited(s) = MakeStatefulSet(p, n)
<1> DEFINE H == [uid : Nat, rv : Nat, names : SUBSET Nat]
<1>1. s \in [owner : Nat, hash : H, shape : Nat, deleting : BOOLEAN, edited : BOOLEAN]
  BY DEF StatefulSet
<1> HIDE DEF H
<1> PICK o, h, f : o = p.uid /\ h = InputHash(p, n) /\ f = p.spec.shape
  OBVIOUS
<1>2. MakeStatefulSet(p, n) = [owner |-> o, hash |-> h, shape |-> f, deleting |-> FALSE, edited |-> FALSE]
  BY DEF MakeStatefulSet
<1> PICK m : m = [owner |-> o, hash |-> h, shape |-> f, deleting |-> FALSE, edited |-> FALSE]
  OBVIOUS
<1>3. o \in Nat /\ h \in H /\ f \in Nat /\ s.owner = o /\ s.hash = h /\ s.shape = f
  BY <1>1
<1>4. /\ m.owner = o /\ m.hash = h /\ m.shape = f /\ m.deleting = FALSE /\ m.edited = FALSE
      /\ m \in [owner : Nat, hash : H, shape : Nat, deleting : BOOLEAN, edited : BOOLEAN]
  BY <1>3, StatefulSetFields
<1>5. [s EXCEPT !.edited = FALSE] = m
  BY <1>1, <1>3, <1>4
<1> QED
  BY <1>2, <1>5 DEF Unedited

(* Whenever nothing is left to do, the rule ConfigMaps, the configuration  *)
(* Secret and the StatefulSet are what the Prometheus, its rules and its   *)
(* monitors ask for, but for edits of the StatefulSet that leave its hash, *)
(* and the Prometheus owns the Service, unless a user deleted that or sync *)
(* took an Update that found none for one that worked; whatever else was   *)
(* changed, delayed or interrupted before.                                 *)
THEOREM QuietCorrect == Spec => []QuietIsRight
<1>1. IInv => QuietIsRight
  <2> SUFFICES ASSUME IInv, Quiet PROVE Desired
    BY DEF QuietIsRight
  <2>1. /\ LogsOK /\ ObjectsOK /\ VersionsFit /\ Live("ns") = Cached("ns")
    BY InvParts
  <2>2. /\ \A k \in Kinds : Cached(k) = Live(k)
        /\ job = NoJob /\ job.step = "idle" /\ events = {} /\ Len(log["sset"]) = 1
        /\ Cached("prom") = None \/ Made
    BY QuietCaches
  <2>3. /\ Cached("prom") = Live("prom") /\ Cached("rule") = Live("rule") /\ Cached("smon") = Live("smon")
        /\ Cached("sset") = Live("sset")
    BY <2>2, StatesOf
  <2>4. /\ \A n \in DOMAIN cm : ~Dead(cm[n].owner)
        /\ conf # None => ~Dead(conf.owner)
        /\ ~Finished(Live("sset"))
        /\ \A u \in service : ~Dead(u)
    BY DEF Quiet
  <2> PICK p : p = Live("prom")
    OBVIOUS
  <2>5. CASE p = None
    <3>1. \A u : Dead(u)
      BY <2>5 DEF Dead
    <3>2. DOMAIN cm = {} /\ conf = None /\ service = {}
      BY <2>4, <3>1
    <3>3. Live("sset") = None
      BY <2>4, <3>1 DEF Finished
    <3> QED
      BY <2>5, <3>2, <3>3 DEF Desired
  <2>6. CASE p # None /\ p.spec.paused
    BY <2>6 DEF Desired
  <2>7. CASE p # None /\ ~p.spec.paused
    <3>1. RulesMade /\ ConfigMade /\ SecretFits /\ ServiceMade /\ StatefulSetMade
      BY <2>2, <2>3, <2>7 DEF Made
    <3>2. DOMAIN cm # {} /\ Data(cm) \in Selections(p.spec, Live("rule"), Live("ns"))
      BY <2>1, <2>2, <2>3, <3>1 DEF RulesMade, RulesFit
    <3>3. conf # None
      BY <2>2, <3>1 DEF SecretFits
    <3>4. p.spec.managed =>
            conf.config = Config(SelectedMonitor(p.spec, Live("smon"), Live("ns")), auth, DOMAIN cm)
      BY <2>1, <2>2, <2>3, <3>1 DEF ConfigMade, ConfigFits, HasConfig
    <3>5. \A u : Dead(u) <=> u # p.uid
      BY <2>7 DEF Dead
    <3>6. p.uid \notin lost => service = {p.uid}
      BY <2>3, <2>4, <3>1, <3>5 DEF ServiceMade, ServiceFits
    <3>7. Live("sset") # None /\ Unedited(Live("sset")) = MakeStatefulSet(p, DOMAIN cm)
      <4> PICK s : s = Live("sset")
        OBVIOUS
      <4>1. s # None /\ (s.deleting \/ s.hash = InputHash(p, DOMAIN cm))
        BY <2>2, <2>3, <3>1 DEF StatefulSetMade, StatefulSetFits
      <4>2. s.deleting # TRUE
        BY <2>4, <4>1 DEF Finished
      <4>3. s \in StatefulSet /\ s \in Range(log["sset"]) \ {None}
        BY <2>1, <4>1, LogType, StatesOf
      <4>4. s.deleting = FALSE /\ s.hash = InputHash(p, DOMAIN cm)
        BY <4>1, <4>2, <4>3 DEF StatefulSet
      <4>5. p \in Seen
        BY <2>1, <2>7, LogType, StatesOf DEF Seen
      <4>6. s.hash.rv = p.rv /\ s.hash.uid = p.uid
        BY <4>4 DEF InputHash
      <4>7. s.owner = p.uid /\ s.shape = p.spec.shape
        BY <2>1, <4>3, <4>5, <4>6 DEF VersionsFit
      <4>8. Unedited(s) = MakeStatefulSet(p, DOMAIN cm)
        BY <4>3, <4>4, <4>7, EditUndone
      <4> QED
        BY <4>1, <4>8
    <3> QED
      BY <2>7, <3>2, <3>3, <3>4, <3>6, <3>7 DEF Desired
  <2> QED
    BY <2>5, <2>6, <2>7
<1> QED
  BY <1>1, InvCorrect, PTL

=============================================================================
