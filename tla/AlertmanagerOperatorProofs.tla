---------------------- MODULE AlertmanagerOperatorProofs ----------------------
(***************************************************************************)
(* Proofs about AlertmanagerOperator for any finite number of              *)
(* Alertmanagers and any bounds: the operator destroys only orphans, and   *)
(* when nothing is left to do every Alertmanager is as it should be.       *)
(***************************************************************************)
EXTENDS AlertmanagerOperator, FiniteSetTheorems, SequenceTheorems, TLAPS

-----------------------------------------------------------------------------
(* The queue, a sequence without repetition.                               *)

Once(q) == \A i, j \in DOMAIN q : q[i] = q[j] => i = j

(* A finite set is listed by a sequence of its elements, each once.        *)
LEMMA ListOfSet ==
  ASSUME NEW S, IsFiniteSet(S)
  PROVE  SetToSeq(S) \in Seq(S) /\ ToSet(SetToSeq(S)) = S /\ Once(SetToSeq(S))
<1>1. Cardinality(S) \in Nat /\ ExistsBijection(1 .. Cardinality(S), S)
  BY FS_CardinalityType
<1> DEFINE c == Cardinality(S)
<1>2. \E f \in [1 .. c -> S] : IsInjective(f)
  BY <1>1 DEF ExistsBijection, Bijection, Injection, IsInjective
<1>3. SetToSeq(S) \in [1 .. c -> S] /\ IsInjective(SetToSeq(S))
  BY <1>2 DEF SetToSeq
<1> DEFINE q == SetToSeq(S)
<1>4. q \in Seq(S)
  BY <1>1, <1>3
<1>5. Once(q)
  BY <1>3 DEF Once, IsInjective
<1>6. q \in Injection(1 .. c, S)
  BY <1>3 DEF Injection, IsInjective
<1>7. IsFiniteSet(1 .. c) /\ Cardinality(1 .. c) = c
  BY <1>1, FS_Interval
<1>8. q \in Surjection(1 .. c, S)
  BY <1>6, <1>7, FS_Injection
<1>9. ToSet(q) = S
  BY <1>3, <1>8 DEF Surjection, ToSet
<1> QED
  BY <1>4, <1>5, <1>9

(* Adding a key that is not in a queue keeps it free of repetition.        *)
LEMMA AppendOnce ==
  ASSUME NEW S, NEW q \in Seq(S), NEW a \in S, Once(q), a \notin ToSet(q)
  PROVE  Append(q, a) \in Seq(S) /\ ToSet(Append(q, a)) = ToSet(q) \cup {a} /\ Once(Append(q, a))
<1> DEFINE r == Append(q, a)
<1>1. /\ Len(q) \in Nat /\ DOMAIN q = 1 .. Len(q) /\ r \in Seq(S) /\ DOMAIN r = 1 .. Len(q) + 1
      /\ \A i \in 1 .. Len(q) : r[i] = q[i]
      /\ r[Len(q) + 1] = a
  OBVIOUS
<1> HIDE DEF r
<1>2. \A i \in DOMAIN r : i \in DOMAIN q \/ i = Len(q) + 1
  BY <1>1
<1>3. ToSet(r) = ToSet(q) \cup {a}
  BY <1>1, <1>2 DEF ToSet
<1>4. Once(r)
  BY <1>1, <1>2 DEF Once, ToSet
<1> QED
  BY <1>1, <1>3, <1>4 DEF r

(* Taking the head of a queue leaves a queue without it.                   *)
LEMMA TailOnce ==
  ASSUME NEW S, NEW q \in Seq(S), q # <<>>, Once(q)
  PROVE  /\ Head(q) \in S /\ Head(q) \in ToSet(q) /\ Tail(q) \in Seq(S)
         /\ ToSet(Tail(q)) = ToSet(q) \ {Head(q)} /\ Once(Tail(q))
<1> DEFINE r == Tail(q)
<1>1. /\ Len(q) \in Nat /\ Len(q) >= 1 /\ DOMAIN q = 1 .. Len(q) /\ r \in Seq(S) /\ DOMAIN r = 1 .. Len(q) - 1
      /\ \A i \in 1 .. Len(q) - 1 : r[i] = q[i + 1]
      /\ Head(q) = q[1] /\ q[1] \in S
  OBVIOUS
<1> HIDE DEF r
<1>2. \A i \in DOMAIN q : i = 1 \/ (i - 1 \in DOMAIN r /\ r[i - 1] = q[i])
  BY <1>1
<1>3. \A i \in DOMAIN r : i + 1 \in DOMAIN q /\ i + 1 # 1 /\ r[i] = q[i + 1]
  BY <1>1
<1>4. ToSet(r) = ToSet(q) \ {Head(q)}
  <2>1. ASSUME NEW i \in DOMAIN r PROVE r[i] \in ToSet(q) /\ r[i] # Head(q)
    BY <1>1, <1>3 DEF ToSet, Once
  <2>2. ASSUME NEW i \in DOMAIN q, q[i] # Head(q) PROVE q[i] \in ToSet(r)
    BY <1>1, <1>2, <2>2 DEF ToSet
  <2> QED
    BY <2>1, <2>2 DEF ToSet
<1>5. ASSUME NEW i \in DOMAIN r, NEW j \in DOMAIN r, r[i] = r[j] PROVE i = j
  <2>1. i + 1 = j + 1
    BY <1>3, <1>5 DEF Once
  <2> QED
    BY <1>1, <2>1
<1>6. Head(q) \in ToSet(q)
  BY <1>1 DEF ToSet
<1> QED
  BY <1>1, <1>4, <1>5, <1>6 DEF Once, r

-----------------------------------------------------------------------------
(* What the informer has, the API server has and the watch brings.         *)

Object(k) == (IF k = "am" THEN Alertmanager ELSE StatefulSet) \cup {None}
States(k) == [Ams -> Object(k)]

(* The copies of an object kind that an informer has yet to see, the first *)
(* of which is in its cache.                                               *)
LEMMA LogType ==
  ASSUME TypeOK, NEW k \in Kinds
  PROVE  /\ log[k] \in Seq(States(k)) /\ Len(log[k]) \in Nat /\ Len(log[k]) >= 1 /\ Len(log[k]) <= MaxEvents + 1
         /\ DOMAIN log[k] = 1 .. Len(log[k])
         /\ Cached(k) = log[k][1] /\ Live(k) = log[k][Len(log[k])]
         /\ \A i \in DOMAIN log[k] : log[k][i] \in States(k)
         /\ Cached(k) \in States(k) /\ Live(k) \in States(k)
<1>1. log[k] \in Seq(States(k)) /\ Len(log[k]) \in 1 .. MaxEvents + 1
  BY DEF TypeOK, Kinds, States, Object
<1>2. Len(log[k]) \in Nat /\ Len(log[k]) >= 1 /\ Len(log[k]) <= MaxEvents + 1
  BY <1>1, BoundAssumption
<1> DEFINE q == log[k]
<1> HIDE DEF q
<1>3. /\ DOMAIN q = 1 .. Len(q) /\ Head(q) = q[1] /\ Last(q) = q[Len(q)]
      /\ \A i \in DOMAIN q : q[i] \in States(k)
  BY <1>1, <1>2 DEF q, Last
<1> QED
  BY <1>1, <1>2, <1>3 DEF q, Cached, Live

(* A write that changes the object of a, or none.                          *)
Written(k, a, s) ==
  /\ log'[k] = Append(log[k], [Live(k) EXCEPT ![a] = s]) /\ s # Live(k)[a]
  /\ Len(log'[k]) = Len(log[k]) + 1 /\ Len(log'[k]) <= MaxEvents + 1
  /\ \A i \in 1 .. Len(log[k]) : log'[k][i] = log[k][i]
  /\ log'[k][Len(log[k]) + 1] = [Live(k) EXCEPT ![a] = s]
  /\ DOMAIN log'[k] = 1 .. Len(log[k]) + 1
  /\ Cached(k)' = Cached(k) /\ Live(k)' = [Live(k) EXCEPT ![a] = s]
  /\ \A l \in Kinds \ {k} : log'[l] = log[l] /\ Cached(l)' = Cached(l) /\ Live(l)' = Live(l)
  /\ DOMAIN log' = Kinds

(* A write to the API server appends to the log or changes nothing.        *)
LEMMA WriteStep ==
  ASSUME TypeOK, NEW k \in Kinds, NEW a \in Ams, NEW s, Write(k, a, s)
  PROVE  (UNCHANGED log /\ s = Live(k)[a]) \/ Written(k, a, s)
<1> SUFFICES ASSUME ~(UNCHANGED log /\ s = Live(k)[a]) PROVE Written(k, a, s)
  OBVIOUS
<1>1. /\ s # Live(k)[a] /\ Len(log[k]) <= MaxEvents
      /\ log' = [log EXCEPT ![k] = Append(log[k], [Last(log[k]) EXCEPT ![a] = s])]
  BY DEF Write
<1> DEFINE q == log[k]
           t == [Live(k) EXCEPT ![a] = s]
<1>2. q \in Seq(States(k)) /\ Len(q) \in Nat /\ Len(q) >= 1 /\ Cached(k) = q[1] /\ DOMAIN log = Kinds
  BY LogType DEF TypeOK
<1>3. log'[k] = Append(q, t) /\ \A l \in Kinds \ {k} : log'[l] = log[l]
  BY <1>1, <1>2 DEF Live
<1>4. DOMAIN log' = Kinds
  BY <1>1, <1>2
<1> HIDE DEF t, q
<1>5. /\ Len(Append(q, t)) = Len(q) + 1 /\ DOMAIN Append(q, t) = 1 .. Len(q) + 1
      /\ \A i \in 1 .. Len(q) : Append(q, t)[i] = q[i]
      /\ Append(q, t)[Len(q) + 1] = t
      /\ Head(Append(q, t)) = q[1] /\ Last(Append(q, t)) = t
  <2> DEFINE S == States(k) \cup {t}
  <2>1. States(k) \subseteq S /\ t \in S
    OBVIOUS
  <2> HIDE DEF S
  <2>2. q \in Seq(S)
    BY <1>2, <2>1, SeqMonotonic
  <2> QED
    BY <1>2, <2>1, <2>2 DEF Last
<1>6. Cached(k)' = Cached(k) /\ Live(k)' = t
  BY <1>2, <1>3, <1>5 DEF Cached, Live
<1>7. \A l \in Kinds \ {k} : Cached(l)' = Cached(l) /\ Live(l)' = Live(l)
  BY <1>3 DEF Cached, Live
<1>8. Len(log'[k]) = Len(log[k]) + 1 /\ Len(log'[k]) <= MaxEvents + 1
  BY <1>1, <1>2, <1>3, <1>5, BoundAssumption DEF q
<1>9. /\ log'[k] = Append(log[k], t)
      /\ \A i \in 1 .. Len(log[k]) : log'[k][i] = log[k][i]
      /\ log'[k][Len(log[k]) + 1] = t
      /\ DOMAIN log'[k] = 1 .. Len(log[k]) + 1
  BY <1>3, <1>5 DEF q
<1> QED
  BY <1>1, <1>3, <1>4, <1>6, <1>7, <1>8, <1>9 DEF Written, t

(* An event reaches the informer.                                          *)
Shown(k) ==
  /\ Len(log[k]) > 1
  /\ log'[k] = Tail(log[k]) /\ Len(log'[k]) = Len(log[k]) - 1
  /\ DOMAIN log'[k] = 1 .. Len(log[k]) - 1
  /\ \A i \in 1 .. Len(log[k]) - 1 : log'[k][i] = log[k][i + 1]
  /\ Cached(k)' = log[k][2] /\ Live(k)' = Live(k)
  /\ \A l \in Kinds \ {k} : log'[l] = log[l] /\ Cached(l)' = Cached(l) /\ Live(l)' = Live(l)
  /\ DOMAIN log' = Kinds

(* An informer sees the next copy, and the rest of the log stays.          *)
LEMMA DeliverStep ==
  ASSUME TypeOK, NEW k \in Kinds, Deliver(k)
  PROVE  Shown(k)
<1> DEFINE q == log[k]
<1>1. /\ Len(q) > 1 /\ q \in Seq(States(k)) /\ Len(q) \in Nat /\ DOMAIN log = Kinds
      /\ log' = [log EXCEPT ![k] = Tail(q)] /\ Live(k) = q[Len(q)]
  BY LogType DEF TypeOK, Deliver
<1>2. DOMAIN log' = Kinds /\ log'[k] = Tail(q) /\ \A l \in Kinds \ {k} : log'[l] = log[l]
  BY <1>1
<1> HIDE DEF q
<1>3. /\ Len(Tail(q)) = Len(q) - 1 /\ DOMAIN Tail(q) = 1 .. Len(q) - 1
      /\ \A i \in 1 .. Len(q) - 1 : Tail(q)[i] = q[i + 1]
      /\ Head(Tail(q)) = q[2]
  BY <1>1
<1>4. Last(Tail(q)) = q[Len(q)]
  BY <1>1, <1>3 DEF Last
<1>5. \A l \in Kinds \ {k} : Cached(l)' = Cached(l) /\ Live(l)' = Live(l)
  BY <1>2 DEF Cached, Live
<1>6. Cached(k)' = q[2] /\ Live(k)' = Live(k)
  BY <1>1, <1>2, <1>3, <1>4 DEF Cached, Live
<1> QED
  BY <1>1, <1>2, <1>3, <1>5, <1>6 DEF Shown, q

(* One of these happens to the log.                                        *)
Writes == \E k \in Kinds : \E a \in Ams, s \in Object(k)' : Written(k, a, s)
Restarts == log' = [k \in Kinds |-> <<Live(k)>>]
LogSteps == UNCHANGED log \/ Writes \/ (\E k \in Kinds : Shown(k)) \/ Restarts

LogsOK ==
  /\ DOMAIN log = Kinds /\ \A k \in Kinds : Len(log[k]) \in 1 .. MaxEvents + 1
  /\ log["am"] \in Seq([Ams -> Alertmanager \cup {None}]) /\ log["sset"] \in Seq([Ams -> StatefulSet \cup {None}])

(* However the logs move in a step, they remain well formed.               *)
LEMMA LogsStay ==
  ASSUME TypeOK, uids' \in Nat, uids <= uids', LogSteps
  PROVE  LogsOK'
<1>1. /\ uids \in Nat /\ 1 .. uids \subseteq 1 .. uids'
      /\ \A k \in Kinds : Object(k) \subseteq Object(k)'
  BY DEF TypeOK, Object, Alertmanager, StatefulSet
<1>2. ASSUME NEW k \in Kinds PROVE log[k] \in Seq(States(k)')
  <2>1. States(k) \subseteq States(k)'
    BY <1>1 DEF States
  <2> QED
    BY <2>1, LogType, SeqMonotonic
<1>3. LogsOK' <=> /\ DOMAIN log' = Kinds /\ \A k \in Kinds : Len(log'[k]) \in 1 .. MaxEvents + 1
                  /\ \A k \in Kinds : log'[k] \in Seq(States(k)')
  BY DEF LogsOK, States, Object, Kinds
<1>4. CASE UNCHANGED log
  BY <1>2, <1>3, <1>4, LogType DEF TypeOK
<1>5. CASE Writes
  <2>1. PICK k \in Kinds : \E a \in Ams, s \in Object(k)' : Written(k, a, s)
    BY <1>5 DEF Writes
  <2>b. PICK a \in Ams, s \in Object(k)' : Written(k, a, s)
    BY <2>1
  <2>2. log'[k] \in Seq(States(k)')
    <3> DEFINE q == log[k]
               t == [Live(k) EXCEPT ![a] = s]
    <3>1. Live(k) \in States(k)
      BY LogType
    <3>2. t \in States(k)'
      BY <1>1, <2>b, <3>1 DEF States
    <3>3. q \in Seq(States(k)') /\ log'[k] = Append(q, t)
      BY <1>2, <2>b DEF Written
    <3> HIDE DEF q, t
    <3> QED
      BY <3>2, <3>3
  <2>3. ASSUME NEW l \in Kinds \ {k} PROVE log'[l] = log[l] /\ log[l] \in Seq(States(l)') /\ Len(log[l]) \in 1 .. MaxEvents + 1
    BY <1>2, <2>b, LogType, BoundAssumption DEF Written
  <2>4. Len(log'[k]) \in 1 .. MaxEvents + 1 /\ DOMAIN log' = Kinds
    BY <2>b, LogType, BoundAssumption DEF Written
  <2> QED
    BY <1>3, <2>2, <2>3, <2>4
<1>6. CASE \E k \in Kinds : Shown(k)
  <2>1. PICK k \in Kinds : Shown(k)
    BY <1>6
  <2>2. log'[k] \in Seq(States(k)')
    <3> DEFINE q == log[k]
    <3>1. q \in Seq(States(k)') /\ Len(q) > 1 /\ log'[k] = Tail(q)
      BY <1>2, <2>1 DEF Shown
    <3> HIDE DEF q
    <3> QED
      BY <3>1
  <2>3. ASSUME NEW l \in Kinds \ {k} PROVE log'[l] = log[l] /\ log[l] \in Seq(States(l)') /\ Len(log[l]) \in 1 .. MaxEvents + 1
    BY <1>2, <2>1, LogType, BoundAssumption DEF Shown
  <2>4. Len(log'[k]) \in 1 .. MaxEvents + 1 /\ DOMAIN log' = Kinds
    BY <2>1, LogType, BoundAssumption DEF Shown
  <2> QED
    BY <1>3, <2>2, <2>3, <2>4
<1>7. CASE Restarts
  <2>1. DOMAIN log' = Kinds /\ \A k \in Kinds : log'[k] = <<Live(k)>>
    BY <1>7 DEF Restarts
  <2>2. ASSUME NEW k \in Kinds PROVE log'[k] \in Seq(States(k)') /\ Len(log'[k]) = 1
    <3>1. Live(k) \in States(k)'
      BY <1>1, LogType DEF States
    <3> DEFINE x == Live(k)
               S == States(k)'
    <3>2. x \in S /\ log'[k] = <<x>>
      BY <2>1, <3>1
    <3> HIDE DEF x, S
    <3>3. log'[k] \in Seq(S) /\ Len(log'[k]) = 1
      BY <3>2
    <3> QED
      BY <3>3 DEF S
  <2>3. ASSUME NEW k \in Kinds PROVE Len(log'[k]) \in 1 .. MaxEvents + 1
    <3>1. 1 \in 1 .. MaxEvents + 1
      BY BoundAssumption
    <3> QED
      BY <2>2, <3>1, Zenon
  <2> QED
    BY <1>3, <2>1, <2>2, <2>3
<1> QED
  BY <1>4, <1>5, <1>6, <1>7 DEF LogSteps

-----------------------------------------------------------------------------
(* Uids in the log.                                                        *)

(* A uid that is owned or seen was given to an object before.              *)
LEMMA OwnsType ==
  ASSUME TypeOK, NEW a \in Ams, NEW u
  PROVE  /\ Owns(a, u) => u \in 1 .. uids
         /\ \A i \in DOMAIN log["am"] : Has(i, a, u) => u \in 1 .. uids
<1>1. \A i \in DOMAIN log["sset"] : log["sset"][i][a] \in StatefulSet \cup {None}
  <2>1. "sset" \in Kinds /\ "sset" # "am"
    BY DEF Kinds
  <2>2. States("sset") = [Ams -> StatefulSet \cup {None}]
    BY <2>1 DEF States, Object
  <2> QED
    BY <2>1, <2>2, LogType
<1>2. \A i \in DOMAIN log["am"] : log["am"][i][a] \in Alertmanager \cup {None}
  <2>1. "am" \in Kinds
    BY DEF Kinds
  <2> QED
    BY <2>1, LogType DEF States, Object
<1>3. job.am # None => job.am \in Alertmanager
  BY DEF TypeOK, NoJob
<1> QED
  BY <1>1, <1>2, <1>3 DEF Owns, Has, StatefulSet, Alertmanager

(* The states of the new log were in the old one, in the same order, but   *)
(* for an Alertmanager that is gone.                                       *)
Embeds(f) ==
  /\ f \in [DOMAIN log'["am"] -> DOMAIN log["am"]]
  /\ \A i, j \in DOMAIN log'["am"] : i <= j => f[i] <= f[j]
  /\ \A i \in DOMAIN log'["am"], a \in Ams, u \in 1 .. uids : Has(i, a, u)' => Has(f[i], a, u)
  /\ \A i, k \in DOMAIN log'["am"], a \in Ams, u \in 1 .. uids :
       i <= k /\ Has(k, a, u)' /\ Has(f[i], a, u) => Has(i, a, u)'

(* What is known of uids holds of a log embedded in the old one.           *)
LEMMA EmbeddedFit ==
  ASSUME TypeOK, UidsFit, NEW f, Embeds(f),
         \A a \in Ams, u \in 1 .. uids : Owns(a, u)' => Owns(a, u) \/ Has(1, a, u)
  PROVE  \A a \in Ams, u \in 1 .. uids : UidFits(a, u)'
<1> SUFFICES ASSUME NEW a \in Ams, NEW u \in 1 .. uids PROVE UidFits(a, u)'
  OBVIOUS
<1>1. "am" \in Kinds
  BY DEF Kinds
<1>2. 1 \in DOMAIN log["am"] /\ DOMAIN log["am"] \subseteq Nat /\ \A i \in DOMAIN log["am"] : 1 <= i
  BY <1>1, LogType
<1>3. ASSUME NEW b \in Ams, Occurs(b, u)' PROVE Occurs(b, u)
  BY <1>2, <1>3 DEF Occurs, Embeds
<1>4. UidFits(a, u)
  BY DEF UidsFit
<1>5. \A b \in Ams : Occurs(a, u)' /\ Occurs(b, u)' => a = b
  BY <1>3, <1>4 DEF UidFits
<1>6. ASSUME NEW i \in DOMAIN log'["am"], NEW j \in DOMAIN log'["am"], NEW k \in DOMAIN log'["am"],
             i <= j, j <= k, Has(i, a, u)', Has(k, a, u)'
      PROVE  Has(j, a, u)'
  <2>1. f[i] \in DOMAIN log["am"] /\ f[j] \in DOMAIN log["am"] /\ f[k] \in DOMAIN log["am"] /\ f[i] <= f[j] /\ f[j] <= f[k]
    BY <1>6 DEF Embeds
  <2>2. Has(f[i], a, u) /\ Has(f[k], a, u)
    BY <1>6 DEF Embeds
  <2>3. Has(f[j], a, u)
    BY <1>4, <2>1, <2>2 DEF UidFits
  <2> QED
    BY <1>6, <2>3 DEF Embeds
<1>7. ASSUME NEW j \in DOMAIN log'["am"], NEW k \in DOMAIN log'["am"], j <= k, Owns(a, u)', Has(k, a, u)'
      PROVE  Has(j, a, u)'
  <2>1. f[j] \in DOMAIN log["am"] /\ f[k] \in DOMAIN log["am"] /\ f[j] <= f[k] /\ Has(f[k], a, u)
    BY <1>7 DEF Embeds
  <2>2. CASE Owns(a, u)
    BY <1>4, <1>7, <2>1, <2>2 DEF UidFits, Embeds
  <2>3. CASE Has(1, a, u)
    <3>1. Has(f[j], a, u)
      BY <1>2, <1>4, <2>1, <2>3 DEF UidFits
    <3> QED
      BY <1>7, <3>1 DEF Embeds
  <2> QED
    BY <1>7, <2>2, <2>3
<1> QED
  BY <1>5, <1>6, <1>7 DEF UidFits

(* The StatefulSet under destruction remains one whose owner is gone.      *)
LEMMA OrphanStays ==
  ASSUME TypeOK, DestroysOrphan, NEW f, Embeds(f),
         \A u \in 1 .. uids : Owns(job.key, u)' => Owns(job.key, u),
         job'.step \in Destroys, job.step \in Destroys, job'.key = job.key,
         NEW u \in 1 .. uids, NEW i \in DOMAIN log'["am"], Owns(job.key, u)'
  PROVE  ~Has(i, job.key, u)'
<1>1. job.key \in Ams
  BY DEF TypeOK, NoJob, Destroys
<1>2. f[i] \in DOMAIN log["am"] /\ ~Has(f[i], job.key, u)
  BY DEF Embeds, DestroysOrphan
<1> QED
  BY <1>1, <1>2 DEF Embeds

(* A log that stays is the same log.                                       *)
LEMMA SameLogEmbeds ==
  ASSUME TypeOK, log'["am"] = log["am"]
  PROVE  \E f : Embeds(f)
<1> DEFINE f == [i \in DOMAIN log'["am"] |-> i]
<1>1. Embeds(f)
  BY DEF Embeds, Has
<1> QED
  BY <1>1

(* A log that loses its first copy consists of copies it had.              *)
LEMMA ShownEmbeds ==
  ASSUME TypeOK, Shown("am")
  PROVE  \E f : Embeds(f)
<1> DEFINE f == [i \in DOMAIN log'["am"] |-> i + 1]
<1>1. "am" \in Kinds
  BY DEF Kinds
<1>2. /\ DOMAIN log["am"] = 1 .. Len(log["am"]) /\ Len(log["am"]) \in Nat
      /\ DOMAIN log'["am"] = 1 .. Len(log["am"]) - 1
      /\ \A i \in DOMAIN log'["am"] : log'["am"][i] = log["am"][i + 1]
  BY <1>1, LogType DEF Shown
<1>3. Embeds(f)
  <2>1. f \in [DOMAIN log'["am"] -> DOMAIN log["am"]] /\ \A i \in DOMAIN log'["am"] : f[i] = i + 1
    BY <1>2
  <2>2. \A i, j \in DOMAIN log'["am"] : i <= j => f[i] <= f[j]
    BY <1>2, <2>1
  <2>3. \A i \in DOMAIN log'["am"], a \in Ams, u \in 1 .. uids : Has(i, a, u)' <=> Has(f[i], a, u)
    BY <1>2, <2>1 DEF Has
  <2> HIDE DEF f
  <2> QED
    BY <2>1, <2>2, <2>3 DEF Embeds
<1> QED
  BY <1>3

(* A log cut down by a restart to its last copy consists of copies it had. *)
LEMMA RestartEmbeds ==
  ASSUME TypeOK, Restarts
  PROVE  \E f : Embeds(f)
<1> DEFINE l == Len(log["am"])
           f == [i \in {1} |-> l]
<1>1. "am" \in Kinds
  BY DEF Kinds
<1>2. l \in DOMAIN log["am"] /\ l \in Nat /\ Live("am") = log["am"][l]
  BY <1>1, LogType
<1>3. log'["am"] = <<Live("am")>>
  BY <1>1 DEF Restarts
<1>4. DOMAIN log'["am"] = {1} /\ log'["am"][1] = log["am"][l]
  BY <1>2, <1>3
<1> HIDE DEF l
<1>5. Embeds(f)
  <2>1. f \in [DOMAIN log'["am"] -> DOMAIN log["am"]] /\ f[1] = l
    BY <1>2, <1>4
  <2>2. \A i \in DOMAIN log'["am"], a \in Ams, u \in 1 .. uids : Has(i, a, u)' <=> Has(f[i], a, u)
    BY <1>4, <2>1 DEF Has
  <2>3. \A i, j \in DOMAIN log'["am"] : i = j /\ f[i] = f[j] /\ f[i] \in Nat
    BY <1>2, <1>4, <2>1
  <2> HIDE DEF f
  <2> QED
    BY <2>1, <2>2, <2>3 DEF Embeds
<1> QED
  BY <1>5

(* Only the uid that the Alertmanager had, or a new one, is written.       *)
LEMMA WrittenEmbeds ==
  ASSUME TypeOK, NEW a \in Ams, NEW s, Written("am", a, s),
         s = None \/ s.uid \notin 1 .. uids \/ (Live("am")[a] # None /\ s.uid = Live("am")[a].uid)
  PROVE  \E f : Embeds(f)
<1> PICK l : l = Len(log["am"])
  OBVIOUS
<1> DEFINE f == [i \in 1 .. l + 1 |-> IF i = l + 1 THEN l ELSE i]
<1>1. "am" \in Kinds
  BY DEF Kinds
<1>2. /\ DOMAIN log["am"] = 1 .. l /\ l \in Nat /\ l >= 1 /\ Live("am") = log["am"][l] /\ Live("am") \in States("am")
      /\ DOMAIN log'["am"] = 1 .. l + 1
      /\ \A i \in 1 .. l : log'["am"][i] = log["am"][i]
      /\ log'["am"][l + 1] = [Live("am") EXCEPT ![a] = s]
  BY <1>1, LogType DEF Written
<1>3. /\ f \in [DOMAIN log'["am"] -> DOMAIN log["am"]] /\ f[l + 1] = l
      /\ \A i \in 1 .. l : f[i] = i
  BY <1>2
<1>4. ASSUME NEW i \in DOMAIN log'["am"], NEW j \in DOMAIN log'["am"], i <= j PROVE f[i] <= f[j]
  <2>1. i \in 1 .. l + 1 /\ j \in 1 .. l + 1
    BY <1>2
  <2>2. CASE j = l + 1
    <3>1. f[j] = l /\ f[i] \in 1 .. l
      BY <1>2, <1>3, <2>1, <2>2
    <3> QED
      BY <1>2, <3>1
  <2>3. CASE j # l + 1
    <3>1. j \in 1 .. l /\ i \in 1 .. l
      BY <1>2, <1>4, <2>1, <2>3
    <3> QED
      BY <1>3, <1>4, <3>1
  <2> QED
    BY <2>2, <2>3
<1>5. ASSUME NEW b \in Ams, NEW u \in 1 .. uids, Has(l + 1, b, u)' PROVE Has(l, b, u)
  <2>1. log'["am"][l + 1][b] = IF b = a THEN s ELSE log["am"][l][b]
    BY <1>2 DEF States
  <2>2. CASE b # a
    BY <1>5, <2>1, <2>2 DEF Has
  <2>3. CASE b = a
    <3>1. s # None /\ s.uid = u
      BY <1>5, <2>1, <2>3 DEF Has
    <3>2. Live("am")[a] # None /\ s.uid = Live("am")[a].uid
      BY <3>1
    <3> QED
      BY <1>2, <2>3, <3>1, <3>2 DEF Has
  <2> QED
    BY <2>2, <2>3
<1> HIDE DEF f
<1>6. \A i \in 1 .. l, b \in Ams, u \in 1 .. uids : Has(i, b, u)' <=> Has(i, b, u)
  BY <1>2 DEF Has
<1>7. \A i \in DOMAIN log'["am"] : i \in 1 .. l \/ i = l + 1
  BY <1>2
<1>8. \A i \in DOMAIN log'["am"], b \in Ams, u \in 1 .. uids : Has(i, b, u)' => Has(f[i], b, u)
  <2>1. \A b \in Ams, u \in 1 .. uids : Has(l + 1, b, u)' => Has(f[l + 1], b, u)
    BY <1>3, <1>5
  <2>2. \A i \in 1 .. l, b \in Ams, u \in 1 .. uids : Has(i, b, u)' => Has(f[i], b, u)
    BY <1>3, <1>6
  <2> QED
    BY <1>7, <2>1, <2>2
<1>9. \A i, k \in DOMAIN log'["am"], b \in Ams, u \in 1 .. uids :
        i <= k /\ Has(k, b, u)' /\ Has(f[i], b, u) => Has(i, b, u)'
  BY <1>2, <1>3, <1>6, <1>7
<1> QED
  BY <1>3, <1>4, <1>8, <1>9 DEF Embeds

(* The owners of the StatefulSets.                                         *)
KeepsJob ==
  \/ job' = NoJob
  \/ job'.key = job.key /\ job'.am = job.am /\ (job'.step \in Destroys => job.step \in Destroys)

OwnersKept == \A a \in Ams, u \in 1 .. uids : Owns(a, u)' => Owns(a, u)

(* A job that goes on has no new owner in hand.                            *)
LEMMA JobOwner ==
  ASSUME KeepsJob, NEW a \in Ams, NEW u, (job.key = a /\ job.am # None /\ job.am.uid = u)'
  PROVE  Owns(a, u)
  BY NameAssumption DEF KeepsJob, NoJob, Owns

(* No StatefulSet gets an owner while their log stays.                     *)
LEMMA SameOwners ==
  ASSUME TypeOK, KeepsJob, log'["sset"] = log["sset"]
  PROVE  OwnersKept
<1> SUFFICES ASSUME NEW a \in Ams, NEW u \in 1 .. uids, Owns(a, u)' PROVE Owns(a, u)
  BY DEF OwnersKept
<1>1. CASE (job.key = a /\ job.am # None /\ job.am.uid = u)'
  BY <1>1, JobOwner
<1>2. CASE \E i \in DOMAIN log'["sset"] : log'["sset"][i][a] # None /\ log'["sset"][i][a].owner = u
  BY <1>2 DEF Owns
<1> QED
  BY <1>1, <1>2 DEF Owns

(* No StatefulSet gets an owner when their informer sees a copy.           *)
LEMMA ShownOwners ==
  ASSUME TypeOK, KeepsJob, Shown("sset")
  PROVE  OwnersKept
<1> SUFFICES ASSUME NEW a \in Ams, NEW u \in 1 .. uids, Owns(a, u)' PROVE Owns(a, u)
  BY DEF OwnersKept
<1>1. CASE (job.key = a /\ job.am # None /\ job.am.uid = u)'
  BY <1>1, JobOwner
<1>2. CASE \E i \in DOMAIN log'["sset"] : log'["sset"][i][a] # None /\ log'["sset"][i][a].owner = u
  <2>1. "sset" \in Kinds
    BY DEF Kinds
  <2>2. \A i \in DOMAIN log'["sset"] : i + 1 \in DOMAIN log["sset"] /\ log'["sset"][i] = log["sset"][i + 1]
    BY <2>1, LogType DEF Shown
  <2> QED
    BY <1>2, <2>2 DEF Owns
<1> QED
  BY <1>1, <1>2 DEF Owns

(* No StatefulSet gets an owner by a restart of the operator.              *)
LEMMA RestartOwners ==
  ASSUME TypeOK, KeepsJob, Restarts
  PROVE  OwnersKept
<1> SUFFICES ASSUME NEW a \in Ams, NEW u \in 1 .. uids, Owns(a, u)' PROVE Owns(a, u)
  BY DEF OwnersKept
<1>1. CASE (job.key = a /\ job.am # None /\ job.am.uid = u)'
  BY <1>1, JobOwner
<1>2. CASE \E i \in DOMAIN log'["sset"] : log'["sset"][i][a] # None /\ log'["sset"][i][a].owner = u
  <2>1. "sset" \in Kinds
    BY DEF Kinds
  <2>2. Len(log["sset"]) \in DOMAIN log["sset"] /\ Live("sset") = log["sset"][Len(log["sset"])]
    BY <2>1, LogType
  <2>3. log'["sset"] = <<Live("sset")>>
    BY <2>1 DEF Restarts
  <2>4. \A i \in DOMAIN log'["sset"] : log'["sset"][i] = log["sset"][Len(log["sset"])]
    BY <2>2, <2>3
  <2> QED
    BY <1>2, <2>2, <2>4 DEF Owns
<1> QED
  BY <1>1, <1>2 DEF Owns

(* A StatefulSet is written for an owner known already, or removed.        *)
LEMMA WrittenOwners ==
  ASSUME TypeOK, KeepsJob, NEW b \in Ams, NEW s, Written("sset", b, s), s = None \/ Owns(b, s.owner)
  PROVE  OwnersKept
<1> SUFFICES ASSUME NEW a \in Ams, NEW u \in 1 .. uids, Owns(a, u)' PROVE Owns(a, u)
  BY DEF OwnersKept
<1>1. CASE (job.key = a /\ job.am # None /\ job.am.uid = u)'
  BY <1>1, JobOwner
<1>2. CASE \E i \in DOMAIN log'["sset"] : log'["sset"][i][a] # None /\ log'["sset"][i][a].owner = u
  <2>1. "sset" \in Kinds
    BY DEF Kinds
  <2>2. PICK i \in DOMAIN log'["sset"] : log'["sset"][i][a] # None /\ log'["sset"][i][a].owner = u
    BY <1>2
  <2>3. /\ Len(log["sset"]) \in DOMAIN log["sset"] /\ Live("sset") = log["sset"][Len(log["sset"])]
        /\ DOMAIN log["sset"] = 1 .. Len(log["sset"]) /\ Live("sset") \in States("sset") /\ Len(log["sset"]) \in Nat
    BY <2>1, LogType
  <2>4. CASE i \in DOMAIN log["sset"]
    <3>1. log'["sset"][i] = log["sset"][i]
      BY <2>3, <2>4 DEF Written
    <3> QED
      BY <2>2, <2>4, <3>1 DEF Owns
  <2>5. CASE i \notin DOMAIN log["sset"]
    <3>1. log'["sset"][i][a] = IF a = b THEN s ELSE Live("sset")[a]
      BY <2>2, <2>3, <2>5 DEF Written, States
    <3> QED
      BY <2>2, <2>3, <3>1 DEF Owns
  <2> QED
    BY <2>4, <2>5
<1> QED
  BY <1>1, <1>2 DEF Owns

(* So neither uids nor orphans are disturbed by a step of this kind.       *)
LEMMA UidsStay ==
  ASSUME TypeOK, UidsFit, DestroysOrphan, uids' = uids, \E f : Embeds(f), OwnersKept, KeepsJob
  PROVE  UidsFit' /\ DestroysOrphan'
<1>1. PICK f : Embeds(f)
  OBVIOUS
<1>2. UidsFit'
  <2>1. \A a \in Ams, u \in 1 .. uids : UidFits(a, u)'
    BY <1>1, EmbeddedFit DEF OwnersKept
  <2> QED
    BY <2>1 DEF UidsFit
<1>3. DestroysOrphan'
  <2> SUFFICES ASSUME job'.step \in Destroys, NEW u \in 1 .. uids, NEW i \in DOMAIN log'["am"], Owns(job.key, u)'
               PROVE  ~Has(i, job.key, u)'
    BY DEF DestroysOrphan
  <2>1. job.step \in Destroys /\ job'.key = job.key
    BY DEF KeepsJob, NoJob, Destroys
  <2>2. job.key \in Ams
    BY <2>1 DEF TypeOK, NoJob, Destroys
  <2>3. \A v \in 1 .. uids : Owns(job.key, v)' => Owns(job.key, v)
    <3>1. \A a \in Ams, v \in 1 .. uids : Owns(a, v)' => Owns(a, v)
      BY DEF OwnersKept
    <3> QED
      BY <2>1, <2>2, <3>1 DEF Owns
  <2> QED
    BY <1>1, <2>1, <2>3, OrphanStays
<1> QED
  BY <1>2, <1>3

-----------------------------------------------------------------------------
(* Events: one object changes at a time, and what is not yet delivered or  *)
(* waits for the worker is not forgotten.                                  *)

(* Two copies that follow each other differ in one object, whatever a step *)
(* does to the logs.                                                       *)
LEMMA OneByOneStays ==
  ASSUME TypeOK, OneByOne, LogSteps
  PROVE  OneByOne'
<1> SUFFICES ASSUME NEW k \in Kinds, NEW i \in 1 .. Len(log'[k]) - 1, NEW a \in Ams, NEW b \in Ams,
                    log'[k][i][a] # log'[k][i + 1][a], log'[k][i][b] # log'[k][i + 1][b]
             PROVE  a = b
  BY Z3 DEF OneByOne
<1>1. /\ Len(log[k]) \in Nat /\ Len(log[k]) >= 1 /\ Live(k) = log[k][Len(log[k])] /\ Live(k) \in States(k)
      /\ DOMAIN log[k] = 1 .. Len(log[k])
  BY LogType
<1>2. CASE UNCHANGED log
  BY <1>2 DEF OneByOne
<1>3. CASE \E l \in Kinds, c \in Ams : \E s : Written(l, c, s)
  <2>a. PICK l \in Kinds, c \in Ams : \E s : Written(l, c, s)
    BY <1>3
  <2>1. PICK s : Written(l, c, s)
    BY <2>a
  <2>2. CASE l # k
    <3>1. log'[k] = log[k]
      BY <2>1, <2>2 DEF Written
    <3> QED
      BY <3>1 DEF OneByOne
  <2>3. CASE l = k /\ i < Len(log[k])
    <3>1. log'[k][i] = log[k][i] /\ log'[k][i + 1] = log[k][i + 1] /\ i \in 1 .. Len(log[k]) - 1
      BY <1>1, <2>1, <2>3 DEF Written
    <3> QED
      BY <3>1 DEF OneByOne
  <2>4. CASE l = k /\ i = Len(log[k])
    <3>1. Written(k, c, s) /\ i = Len(log[k]) /\ i \in 1 .. Len(log[k])
      BY <1>1, <2>1, <2>4
    <3>2. log'[k][i] = Live(k)
      BY <1>1, <3>1 DEF Written
    <3>3. log'[k][i + 1] = [Live(k) EXCEPT ![c] = s]
      BY <3>1 DEF Written
    <3> QED
      BY <1>1, <3>2, <3>3 DEF States
  <2>5. i <= Len(log[k]) \/ l # k
    BY <1>1, <2>1 DEF Written
  <2> QED
    BY <1>1, <2>2, <2>3, <2>4, <2>5
<1>4. CASE \E l \in Kinds : Shown(l)
  <2>1. PICK l \in Kinds : Shown(l)
    BY <1>4
  <2>2. CASE l # k
    <3>1. log'[k] = log[k]
      BY <2>1, <2>2 DEF Shown
    <3> QED
      BY <3>1 DEF OneByOne
  <2>3. CASE l = k
    <3>1. Len(log'[k]) = Len(log[k]) - 1 /\ \A j \in 1 .. Len(log[k]) - 1 : log'[k][j] = log[k][j + 1]
      BY <2>1, <2>3 DEF Shown
    <3>2. /\ log'[k][i] = log[k][i + 1] /\ log'[k][i + 1] = log[k][(i + 1) + 1]
          /\ i + 1 \in 1 .. Len(log[k]) - 1
      BY <1>1, <3>1
    <3> QED
      BY <3>2 DEF OneByOne
  <2> QED
    BY <2>2, <2>3
<1>5. CASE Restarts
  <2>1. log'[k] = <<Live(k)>>
    BY <1>5 DEF Restarts
  <2>2. Len(log'[k]) = 1
    BY <2>1
  <2> QED
    BY <2>2
<1> QED
  BY <1>2, <1>3, <1>4, <1>5 DEF LogSteps, Writes

(* After a write its object is not delivered; the others are as before.    *)
LEMMA DeliveredWritten ==
  ASSUME TypeOK, NEW k \in Kinds, NEW b \in Ams, NEW s, Written(k, b, s)
  PROVE  /\ ~Delivered(k, b)'
         /\ \A l \in Kinds, a \in Ams \ {b} : Live(l)'[a] = Live(l)[a] /\ (Delivered(l, a)' => Delivered(l, a))
         /\ \A l \in Kinds \ {k}, a \in Ams : Live(l)'[a] = Live(l)[a] /\ (Delivered(l, a)' => Delivered(l, a))
<1>1. /\ Len(log[k]) \in Nat /\ Len(log[k]) >= 1 /\ Live(k) = log[k][Len(log[k])] /\ Live(k) \in States(k)
      /\ DOMAIN log[k] = 1 .. Len(log[k])
  BY LogType
<1>2. Live(k)'[b] = s /\ \A a \in Ams \ {b} : Live(k)'[a] = Live(k)[a]
  BY <1>1 DEF Written, States
<1>3. ~Delivered(k, b)'
  <2>1. Len(log[k]) \in DOMAIN log'[k] /\ log'[k][Len(log[k])][b] = Live(k)[b]
    BY <1>1 DEF Written
  <2> QED
    BY <1>2, <2>1 DEF Delivered, Written
<1>4. ASSUME NEW a \in Ams \ {b}, Delivered(k, a)' PROVE Delivered(k, a)
  <2>1. \A i \in DOMAIN log[k] : i \in DOMAIN log'[k] /\ log'[k][i] = log[k][i]
    BY <1>1 DEF Written
  <2> QED
    BY <1>2, <1>4, <2>1 DEF Delivered
<1>5. ASSUME NEW l \in Kinds \ {k}, NEW a \in Ams
      PROVE  Live(l)'[a] = Live(l)[a] /\ (Delivered(l, a)' => Delivered(l, a))
  BY DEF Delivered, Written
<1> QED
  BY <1>2, <1>3, <1>4, <1>5

(* A write is an event for its object and nothing for the others.          *)
LEMMA WrittenIsKnown ==
  ASSUME TypeOK, NothingForgotten, NEW k \in Kinds, NEW b \in Ams, NEW s, Written(k, b, s), UNCHANGED <<service, lost>>,
         \A a \in Ams \ {b} : Waits(a) => Waits(a)' \/ Right(a)
  PROVE  NothingForgotten'
<1> SUFFICES ASSUME NEW a \in Ams, ~Waits(a)', Delivered("am", a)', Delivered("sset", a)'
             PROVE  Right(a)'
  BY DEF NothingForgotten
<1>1. "am" \in Kinds /\ "sset" \in Kinds /\ Kinds = {"am", "sset"}
  BY DEF Kinds
<1>2. a # b
  BY <1>1, DeliveredWritten
<1>3. Live("am")'[a] = Live("am")[a] /\ Live("sset")'[a] = Live("sset")[a] /\ Delivered("am", a) /\ Delivered("sset", a)
  BY <1>1, <1>2, DeliveredWritten
<1>4. Right(a)
  BY <1>2, <1>3 DEF NothingForgotten
<1> QED
  BY <1>3, <1>4 DEF Right, MakeStatefulSet

(* What is in neither queue nor informer is right, as long as what waits   *)
(* does so.                                                                *)
LEMMA StillKnown ==
  ASSUME TypeOK, NothingForgotten, UNCHANGED log, (service \cup lost) \cap LiveUids \subseteq service' \cup lost',
         \A a \in Ams : Waits(a) => Waits(a)' \/ ~Delivered("am", a) \/ ~Delivered("sset", a) \/ Right(a)
  PROVE  NothingForgotten'
<1> SUFFICES ASSUME NEW a \in Ams, ~Waits(a)', Delivered("am", a)', Delivered("sset", a)'
             PROVE  Right(a)'
  BY DEF NothingForgotten
<1>1. Live("am")' = Live("am") /\ Live("sset")' = Live("sset")
  BY DEF Live
<1>2. Delivered("am", a) /\ Delivered("sset", a)
  BY <1>1 DEF Delivered
<1>3. Right(a)
  BY <1>2 DEF NothingForgotten
<1>4. Live("am")[a] # None => Live("am")[a].uid \in LiveUids
  BY DEF LiveUids
<1> QED
  BY <1>1, <1>3, <1>4 DEF Right, MakeStatefulSet

-----------------------------------------------------------------------------
(* The queue and the job.                                                  *)

QueueOK ==
  /\ dirty \subseteq Ams /\ queue \in Seq(Ams) /\ ToSet(queue) = dirty \ {job.key} /\ Once(queue)
JobOK ==
  \/ job = NoJob
  \/ job \in [step : {"end", "service", "put", "apply"}, key : Ams, am : Alertmanager, owners : SUBSET (1 .. uids)]
  \/ job \in [step : Destroys, key : Ams, am : {None}, owners : {{}}]
RestOK ==
  /\ service \subseteq 1 .. uids /\ lost \subseteq 1 .. uids /\ pods \subseteq Ams /\ delayed \subseteq Ams /\ uids \in Nat
  /\ changes \in Nat /\ faults \in Nat /\ changes + faults <= MaxChanges

(* The parts of the type invariant.                                        *)
LEMMA TypeParts == TypeOK <=> LogsOK /\ QueueOK /\ JobOK /\ RestOK
  BY DEF TypeOK, LogsOK, QueueOK, JobOK, RestOK, Once

(* A key that is added keeps the queue as the type says.                   *)
LEMMA EnqueueType ==
  ASSUME QueueOK, NEW a \in Ams, Enqueue(a), job' = job
  PROVE  QueueOK'
<1>1. CASE a \in dirty \/ a = job.key
  BY <1>1 DEF QueueOK, Enqueue, Added, Once
<1>2. CASE ~(a \in dirty \/ a = job.key)
  <2>1. queue' = Append(queue, a) /\ a \notin ToSet(queue)
    BY <1>2 DEF QueueOK, Enqueue, Added
  <2>2. queue' \in Seq(Ams) /\ ToSet(queue') = ToSet(queue) \cup {a} /\ Once(queue')
    BY <2>1, AppendOnce DEF QueueOK
  <2>3. dirty' \subseteq Ams /\ ToSet(queue)' = dirty' \ {job'.key}
    BY <1>2, <2>2 DEF QueueOK, Enqueue
  <2> QED
    BY <2>2, <2>3 DEF QueueOK, Once
<1> QED
  BY <1>1, <1>2

(* A worker that has finished leaves the queue as the type says.           *)
LEMMA FinishType ==
  ASSUME QueueOK, job.key \in Ams, Finish
  PROVE  QueueOK' /\ JobOK' /\ job' = NoJob /\ dirty' = dirty
<1>1. job' = NoJob /\ dirty' = dirty
  BY DEF Finish
<1>2. None \notin dirty
  BY NameAssumption DEF QueueOK
<1>3. CASE job.key \in dirty
  <2>1. queue' = Append(queue, job.key) /\ job.key \notin ToSet(queue)
    BY <1>3 DEF QueueOK, Finish
  <2>2. queue' \in Seq(Ams) /\ ToSet(queue') = ToSet(queue) \cup {job.key} /\ Once(queue')
    BY <2>1, AppendOnce DEF QueueOK
  <2>3. dirty' \subseteq Ams /\ ToSet(queue)' = dirty' \ {job'.key}
    BY <1>1, <1>2, <1>3, <2>2 DEF QueueOK, NoJob
  <2> QED
    BY <1>1, <2>2, <2>3 DEF QueueOK, JobOK, Once
<1>4. CASE job.key \notin dirty
  <2>1. queue' = queue
    BY <1>4 DEF Finish
  <2>2. ToSet(queue)' = dirty' \ {job'.key}
    BY <1>1, <1>2, <1>4, <2>1 DEF QueueOK, NoJob, ToSet
  <2> QED
    BY <1>1, <2>1, <2>2 DEF QueueOK, JobOK, Once
<1> QED
  BY <1>3, <1>4

(* A worker that moves on in destroyAlertmanager leaves the rest.          *)
LEMMA GoType ==
  ASSUME QueueOK, JobOK, uids' = uids, NEW step \in Destroys, job.step \in Destroys, Go(step)
  PROVE  /\ QueueOK' /\ JobOK' /\ job'.key = job.key /\ job'.am = job.am /\ job'.step = step /\ job' # NoJob
         /\ dirty' = dirty
<1>1. job \in [step : Destroys, key : Ams, am : {None}, owners : {{}}]
  BY DEF JobOK, NoJob, Destroys
<1>2. job' = [job EXCEPT !.step = step] /\ dirty' = dirty /\ queue' = queue
  BY DEF Go, work
<1>3. job'.key = job.key /\ job'.am = job.am /\ job'.step = step
  BY <1>1, <1>2
<1>4. job' # NoJob /\ JobOK'
  BY <1>1, <1>2, <1>3 DEF JobOK, NoJob, Destroys
<1> QED
  BY <1>2, <1>3, <1>4 DEF QueueOK, Once

-----------------------------------------------------------------------------
(* Every step preserves the invariant.                                     *)

Rest == UidsFit /\ DestroysOrphan /\ OneByOne /\ NothingForgotten /\ JobFits
(* The parts of the invariant.                                             *)
LEMMA InvParts == IInv <=> TypeOK /\ LogsOK /\ QueueOK /\ JobOK /\ RestOK /\ Rest
  BY TypeParts DEF IInv, Rest

(* What stays when a step leaves the logs alone.                           *)
LEMMA QuietLogs ==
  ASSUME IInv, UNCHANGED <<log, uids>>
  PROVE  /\ LogsOK' /\ OneByOne' /\ Cached("am")' = Cached("am") /\ Live("am")' = Live("am") /\ LiveUids' = LiveUids
         /\ \E f : Embeds(f)
         /\ KeepsJob => OwnersKept
<1>1. LogSteps /\ uids \in Nat
  BY InvParts DEF LogSteps, RestOK
<1>2. LogsOK' /\ OneByOne'
  BY <1>1, LogsStay, OneByOneStays DEF IInv
<1>3. Cached("am")' = Cached("am") /\ Live("am")' = Live("am") /\ LiveUids' = LiveUids
  BY DEF Cached, Live, LiveUids
<1> QED
  BY <1>2, <1>3, SameLogEmbeds, SameOwners DEF IInv

(* Steps of the queue and the informer that leave the job alone.           *)
LEMMA QueueInv ==
  ASSUME IInv, UNCHANGED <<log, uids, job>>, QueueOK', RestOK', dirty \subseteq dirty',
         (service \cup lost) \cap LiveUids \subseteq service' \cup lost', \A a \in Ams : Waits(a) => Waits(a)'
  PROVE  IInv'
<1>1. KeepsJob
  BY DEF KeepsJob
<1>2. TypeOK'
  <2>1. JobOK'
    BY InvParts DEF JobOK, Alertmanager
  <2>2. LogsOK' /\ QueueOK' /\ JobOK' /\ RestOK'
    BY <2>1, QuietLogs
  <2> QED
    BY <2>2, TypeParts, PTL
<1>3. UidsFit' /\ DestroysOrphan'
  BY <1>1, QuietLogs, UidsStay DEF IInv
<1>4. NothingForgotten'
  BY StillKnown DEF IInv
<1>5. JobFits'
  BY QuietLogs DEF IInv, JobFits
<1> QED
  BY <1>2, <1>3, <1>4, <1>5, QuietLogs DEF IInv

(* The action Requeue preserves the invariant.                             *)
LEMMA RequeueInv == ASSUME IInv, NEW a \in Ams, Requeue(a) PROVE IInv'
<1>1. UNCHANGED <<log, uids, job, pods, service, lost, changes, faults>> /\ delayed' = delayed \ {a} /\ Enqueue(a)
  BY DEF Requeue, cluster, counters
<1>2. QueueOK'
  BY <1>1, InvParts, EnqueueType
<1>3. RestOK' /\ dirty' = dirty \cup {a}
  BY <1>1, InvParts DEF RestOK, Enqueue
<1>4. \A b \in Ams : Waits(b) => Waits(b)'
  BY <1>1, <1>3 DEF Waits
<1> QED
  BY <1>1, <1>2, <1>3, <1>4, QueueInv

(* The action Resync preserves the invariant.                              *)
LEMMA ResyncInv == ASSUME IInv, Resync PROVE IInv'
<1>1. PICK a \in Ams : Enqueue(a)
  BY DEF Resync
<1>2. UNCHANGED <<log, uids, job, pods, service, lost, delayed>>
  BY DEF Resync, cluster
<1>3. QueueOK'
  BY <1>1, <1>2, InvParts, EnqueueType
<1>4. RestOK'
  <2>1. changes' \in Nat /\ faults' \in Nat /\ changes' + faults' <= MaxChanges
    BY InvParts, BoundAssumption DEF Resync, RestOK
  <2> QED
    BY <1>2, <2>1, InvParts DEF RestOK
<1>5. dirty' = dirty \cup {a} /\ \A b \in Ams : Waits(b) => Waits(b)'
  BY <1>1, <1>2 DEF Waits, Enqueue
<1> QED
  BY <1>2, <1>3, <1>4, <1>5, QueueInv

(* The action CollectService preserves the invariant.                      *)
LEMMA CollectServiceInv == ASSUME IInv, CollectService PROVE IInv'
<1>1. UNCHANGED <<log, uids, job, pods, queue, dirty, delayed, changes, faults, lost>> /\ service' = service \cap LiveUids
  BY DEF CollectService, work, counters
<1>2. QueueOK' /\ RestOK' /\ \A b \in Ams : Waits(b) => Waits(b)'
  BY <1>1, InvParts DEF QueueOK, RestOK, Waits, Once
<1> QED
  BY <1>1, <1>2, QueueInv

(* The action RunPods preserves the invariant.                             *)
LEMMA RunPodsInv == ASSUME IInv, NEW a \in Ams, RunPods(a) PROVE IInv'
<1>1. UNCHANGED <<log, uids, job, service, lost, queue, dirty, delayed, changes, faults>> /\ pods' \subseteq Ams
  BY InvParts DEF RunPods, work, counters, RestOK
<1>2. QueueOK' /\ RestOK' /\ \A b \in Ams : Waits(b) => Waits(b)'
  BY <1>1, InvParts DEF QueueOK, RestOK, Waits, Once
<1> QED
  BY <1>1, <1>2, QueueInv

(* A step that changes nothing preserves the invariant.                    *)
LEMMA StutterInv == ASSUME IInv, UNCHANGED vars PROVE IInv'
<1>1. UNCHANGED <<log, uids, job, service, lost, pods, queue, dirty, delayed, changes, faults>>
  BY DEF vars, cluster, work, counters
<1>2. QueueOK' /\ RestOK' /\ \A b \in Ams : Waits(b) => Waits(b)'
  BY <1>1, InvParts DEF QueueOK, RestOK, Waits, Once
<1> QED
  BY <1>1, <1>2, QueueInv

(* Sync ends without a write: it will be tried again, or there is nothing  *)
(* to do.                                                                  *)
LEMMA EndInv ==
  ASSUME IInv, UNCHANGED <<log, uids, service, lost>>, Finish, job # NoJob, RestOK', delayed \subseteq delayed',
         \/ job.key \in delayed'
         \/ job.key \in dirty
         \/ ~Delivered("am", job.key) \/ ~Delivered("sset", job.key)
         \/ Right(job.key)
  PROVE  IInv'
<1>1. job.key \in Ams /\ job.key # None
  BY InvParts, NameAssumption DEF JobOK
<1>2. QueueOK' /\ JobOK' /\ job' = NoJob /\ dirty' = dirty
  BY <1>1, InvParts, FinishType
<1>3. KeepsJob
  BY <1>2 DEF KeepsJob
<1>4. TypeOK'
  <2>1. LogsOK' /\ QueueOK' /\ JobOK' /\ RestOK'
    BY <1>2, QuietLogs
  <2> QED
    BY <2>1, TypeParts, PTL
<1>5. UidsFit' /\ DestroysOrphan'
  BY <1>3, QuietLogs, UidsStay DEF IInv
<1>6. NothingForgotten'
  <2>1. ASSUME NEW a \in Ams, Waits(a) PROVE Waits(a)' \/ ~Delivered("am", a) \/ ~Delivered("sset", a) \/ Right(a)
    BY <1>2, <2>1 DEF Waits
  <2> QED
    BY <2>1, StillKnown DEF IInv
<1>7. JobFits'
  BY <1>2 DEF JobFits
<1> QED
  BY <1>4, <1>5, <1>6, <1>7, QuietLogs DEF IInv

(* Sync goes on, and the logs, the queue and its Alertmanager stay.        *)
LEMMA JobGoesInv ==
  ASSUME IInv, UNCHANGED <<log, uids, queue, dirty, delayed>>, JobOK', RestOK',
         job' # NoJob, job'.key = job.key, job'.am = job.am,
         (service \cup lost) \cap LiveUids \subseteq service' \cup lost',
         \/ /\ job.step \in {"service", "put"} /\ job'.step \in {"put", "apply"}
            /\ job'.step = "apply" => job.am.uid \in service' \cup lost'
         \/ job.step \in Destroys /\ job'.step \in Destroys
  PROVE  IInv'
<1>1. QueueOK'
  BY InvParts DEF QueueOK, Once
<1>2. KeepsJob
  BY DEF KeepsJob, Destroys
<1>3. TypeOK'
  <2>1. LogsOK' /\ QueueOK' /\ JobOK' /\ RestOK'
    BY <1>1, QuietLogs
  <2> QED
    BY <2>1, TypeParts, PTL
<1>4. UidsFit' /\ DestroysOrphan'
  BY <1>2, QuietLogs, UidsStay DEF IInv
<1>5. NothingForgotten'
  <2>1. \A a \in Ams : Waits(a) => Waits(a)'
    BY DEF Waits
  <2> QED
    BY <2>1, StillKnown DEF IInv
<1>6. JobFits'
  BY QuietLogs DEF IInv, JobFits, Destroys, NoJob
<1> QED
  BY <1>3, <1>4, <1>5, <1>6, QuietLogs DEF IInv

(* destroyAlertmanager goes on without a write.                            *)
LEMMA GoInv ==
  ASSUME IInv, UNCHANGED <<log, uids, service, lost>>, NEW step \in Destroys, job.step \in Destroys, Go(step), RestOK'
  PROVE  IInv'
<1>1. /\ JobOK' /\ job'.key = job.key /\ job'.am = job.am /\ job'.step = step /\ job' # NoJob
      /\ UNCHANGED <<queue, dirty, delayed>>
  BY InvParts, GoType DEF Go, work
<1> QED
  BY <1>1, JobGoesInv

(* A StatefulSet is written.                                               *)
LEMMA SsetInv ==
  ASSUME IInv, NEW b \in Ams, NEW s \in StatefulSet \cup {None}, Written("sset", b, s), s = None \/ Owns(b, s.owner),
         UNCHANGED <<uids, service, lost>>, QueueOK', JobOK', RestOK', KeepsJob, dirty \subseteq dirty',
         job' = NoJob \/ job' = job \/ job'.step \in Destroys,
         \A a \in Ams \ {b} : Waits(a) => Waits(a)'
  PROVE  IInv'
<1>1. "sset" \in Kinds /\ "am" \in Kinds \ {"sset"}
  BY DEF Kinds
<1>2. /\ log'["am"] = log["am"] /\ Cached("am")' = Cached("am") /\ Live("am")' = Live("am") /\ LiveUids' = LiveUids
  BY <1>1 DEF Written, LiveUids
<1>3. LogSteps /\ uids \in Nat
  <2>1. s \in Object("sset")'
    BY DEF Object, StatefulSet
  <2> QED
    BY <1>1, <2>1, InvParts DEF LogSteps, Writes, RestOK
<1>4. LogsOK' /\ OneByOne'
  BY <1>3, LogsStay, OneByOneStays DEF IInv
<1>5. TypeOK'
  BY <1>4, TypeParts, PTL
<1>6. UidsFit' /\ DestroysOrphan'
  BY <1>2, SameLogEmbeds, WrittenOwners, UidsStay DEF IInv
<1>7. NothingForgotten'
  BY <1>1, WrittenIsKnown DEF IInv
<1>8. JobFits'
  BY <1>2 DEF IInv, JobFits, KeepsJob, Destroys, NoJob
<1> QED
  BY <1>4, <1>5, <1>6, <1>7, <1>8 DEF IInv

(* The action Begin preserves the invariant.                               *)
LEMMA BeginInv == ASSUME IInv, Begin PROVE IInv'
<1> PICK a, am : a = Head(queue) /\ am = Cached("am")[a]
  OBVIOUS
<1>1. /\ job = NoJob /\ queue # <<>> /\ dirty' = dirty \ {a} /\ queue' = Tail(queue)
      /\ UNCHANGED <<log, uids, service, lost, pods, delayed, changes, faults>>
  BY InvParts DEF Begin, JobOK, cluster, counters, Destroys
<1>2. /\ a \in Ams /\ a \in ToSet(queue) /\ queue' \in Seq(Ams) /\ ToSet(queue') = ToSet(queue) \ {a} /\ Once(queue')
  BY <1>1, InvParts, TailOnce DEF QueueOK
<1>3. am \in Alertmanager \cup {None}
  <2>1. "am" \in Kinds
    BY DEF Kinds
  <2> QED
    BY <1>2, <2>1, InvParts, LogType DEF States, Object
<1>4. /\ am = None => job' = [step |-> "scale", key |-> a, am |-> None, owners |-> {}]
      /\ am # None /\ am.spec.paused => job' = [step |-> "end", key |-> a, am |-> am, owners |-> {}]
      /\ am # None /\ ~am.spec.paused => job' = [step |-> "service", key |-> a, am |-> am, owners |-> {}]
  BY DEF Begin, Gone
<1>5. job'.key = a /\ job'.am = am /\ job' # NoJob /\ job'.step # "apply"
  BY <1>2, <1>4, NameAssumption DEF NoJob
<1>6. TypeOK'
  <2>1. JobOK'
    <3>1. CASE am = None
      BY <1>2, <1>4, <3>1 DEF JobOK, Destroys
    <3>2. CASE am # None
      <4>1. am \in Alertmanager' /\ (am.spec.paused \/ ~am.spec.paused)
        BY <1>1, <1>3, <3>2 DEF Alertmanager
      <4> QED
        BY <1>2, <1>4, <3>2, <4>1 DEF JobOK
    <3> QED
      BY <3>1, <3>2
  <2>2. QueueOK'
    <3>1. None \notin ToSet(queue) /\ ToSet(queue) = dirty \ {None}
      BY <1>1, InvParts, NameAssumption DEF QueueOK, NoJob
    <3>2. ToSet(queue)' = dirty' \ {job'.key}
      BY <1>1, <1>2, <1>5, <3>1, InvParts, NameAssumption DEF QueueOK
    <3> QED
      BY <1>1, <1>2, <3>2, InvParts DEF QueueOK, Once
  <2>3. RestOK'
    BY <1>1, InvParts DEF RestOK
  <2>4. LogsOK'
    BY <1>1, QuietLogs
  <2> QED
    BY <2>1, <2>2, <2>3, <2>4, TypeParts, PTL
<1>7. \A b \in Ams, u \in 1 .. uids : Owns(b, u)' => Owns(b, u) \/ (b = a /\ Has(1, a, u) /\ am # None)
  <2> SUFFICES ASSUME NEW b \in Ams, NEW u \in 1 .. uids, Owns(b, u)', ~Owns(b, u)
               PROVE  b = a /\ Has(1, a, u) /\ am # None
    OBVIOUS
  <2>1. (job.key = b /\ job.am # None /\ job.am.uid = u)'
    BY <1>1 DEF Owns
  <2>2. Cached("am") = log["am"][1]
    <3>1. "am" \in Kinds
      BY DEF Kinds
    <3> QED
      BY <3>1, InvParts, LogType
  <2> QED
    BY <1>5, <2>1, <2>2 DEF Has
<1>8. PICK f : Embeds(f)
  BY <1>1, QuietLogs
<1>9. UidsFit'
  <2>1. \A b \in Ams, u \in 1 .. uids : UidFits(b, u)'
    BY <1>7, <1>8, InvParts, EmbeddedFit DEF IInv
  <2> QED
    BY <1>1, <2>1 DEF UidsFit
<1>10. DestroysOrphan'
  <2> SUFFICES ASSUME job'.step \in Destroys, NEW u \in 1 .. uids, NEW i \in DOMAIN log["am"], Owns(job.key, u)', Has(i, a, u)
               PROVE  FALSE
    BY <1>1, <1>5 DEF DestroysOrphan, Has
  <2>1. am = None
    BY <1>3, <1>4 DEF Destroys
  <2>2. Owns(a, u)'
    BY <1>5 DEF Owns
  <2>3. Owns(a, u)
    BY <1>2, <1>7, <2>1, <2>2
  <2>4. "am" \in Kinds
    BY DEF Kinds
  <2>5. 1 \in DOMAIN log["am"] /\ 1 <= i /\ Cached("am") = log["am"][1]
    BY <2>4, InvParts, LogType
  <2>6. Has(1, a, u)
    BY <1>2, <2>3, <2>5 DEF IInv, UidsFit, UidFits
  <2> QED
    BY <2>1, <2>5, <2>6 DEF Has
<1>11. NothingForgotten'
  <2>1. \A b \in Ams : Waits(b) => Waits(b)'
    BY <1>1, <1>5, NameAssumption DEF Waits, NoJob
  <2> QED
    BY <1>1, <2>1, StillKnown DEF IInv
<1>12. JobFits'
  BY <1>1, <1>3, <1>4, <1>5, QuietLogs, NameAssumption DEF JobFits
<1> QED
  BY <1>1, <1>6, <1>9, <1>10, <1>11, <1>12, QuietLogs DEF IInv

(* A sync that fails puts its key back and preserves the invariant.        *)
LEMMA RetryInv ==
  ASSUME IInv, Retry, job # NoJob, UNCHANGED <<log, uids, service, lost, pods>>,
         changes' \in Nat, faults' \in Nat, changes' + faults' <= MaxChanges
  PROVE  IInv'
<1>1. Finish /\ delayed' = delayed \cup {job.key} /\ job.key \in Ams
  BY InvParts DEF Retry, JobOK
<1>2. RestOK'
  BY <1>1, InvParts DEF RestOK
<1> QED
  BY <1>1, <1>2, EndInv

(* The action Fail preserves the invariant.                                *)
LEMMA FailInv == ASSUME IInv, Fail PROVE IInv'
<1>1. Retry /\ job # NoJob /\ UNCHANGED <<log, uids, service, lost, pods>>
  BY DEF Fail, cluster, NoJob
<1>2. changes' \in Nat /\ faults' \in Nat /\ changes' + faults' <= MaxChanges
  BY InvParts, BoundAssumption DEF Fail, RestOK
<1> QED
  BY <1>1, <1>2, RetryInv

(* The action End preserves the invariant.                                 *)
LEMMA PausedEndInv == ASSUME IInv, End PROVE IInv'
<1>1. Finish /\ UNCHANGED <<log, uids, service, lost, pods, delayed, changes, faults>> /\ job.step = "end" /\ job # NoJob
  BY DEF End, Done, cluster, counters, NoJob
<1>2. RestOK'
  BY <1>1, InvParts DEF RestOK
<1>3. job.key \in Ams /\ job.am.spec.paused
  BY <1>1, InvParts DEF JobOK, IInv, JobFits
<1>4. job.key \in dirty \/ ~Delivered("am", job.key) \/ Right(job.key)
  <2>1. CASE job.am # Cached("am")[job.key]
    BY <1>1, <2>1 DEF IInv, JobFits
  <2>2. CASE job.am = Cached("am")[job.key] /\ Delivered("am", job.key)
    <3>1. "am" \in Kinds
      BY DEF Kinds
    <3>2. Cached("am")[job.key] = Live("am")[job.key]
      BY <2>2, <3>1, InvParts, LogType DEF Delivered
    <3> QED
      BY <1>3, <2>2, <3>2 DEF Right
  <2> QED
    BY <2>1, <2>2
<1> QED
  BY <1>1, <1>2, <1>4, EndInv

(* The job while sync is busy with the Service.                            *)
LEMMA ServiceJob ==
  ASSUME IInv, job.step \in {"service", "put"}
  PROVE  /\ job \in [step : {"end", "service", "put", "apply"}, key : Ams, am : Alertmanager, owners : SUBSET (1 .. uids)]
         /\ job # NoJob /\ job.am \in Alertmanager /\ job.am.uid \in 1 .. uids
<1>1. job \in [step : {"end", "service", "put", "apply"}, key : Ams, am : Alertmanager, owners : SUBSET (1 .. uids)]
  BY InvParts DEF JobOK, NoJob, Destroys
<1>2. job # NoJob /\ job.am \in Alertmanager
  BY <1>1 DEF NoJob
<1> QED
  BY <1>1, <1>2 DEF Alertmanager

(* A job that only takes a step and other owners keeps its type.           *)
LEMMA ServiceJobType ==
  ASSUME IInv, job.step \in {"service", "put"}, uids' = uids, NEW step \in {"put", "apply"}, NEW o \in SUBSET (1 .. uids),
         job' = [job EXCEPT !.step = step, !.owners = o]
  PROVE  JobOK' /\ job' # NoJob /\ job'.key = job.key /\ job'.am = job.am /\ job'.step = step
<1> DEFINE A == Alertmanager
           O == SUBSET (1 .. uids)
<1>1. job \in [step : {"end", "service", "put", "apply"}, key : Ams, am : A, owners : O] /\ Alertmanager' = A /\ o \in O
  BY ServiceJob DEF Alertmanager
<1>2. JobOK' <=> \/ job' = NoJob
                 \/ job' \in [step : {"end", "service", "put", "apply"}, key : Ams, am : A, owners : O]
                 \/ job' \in [step : Destroys, key : Ams, am : {None}, owners : {{}}]
  BY <1>1 DEF JobOK
<1> HIDE DEF A, O
<1>3. /\ job' \in [step : {"end", "service", "put", "apply"}, key : Ams, am : A, owners : O]
      /\ job'.key = job.key /\ job'.am = job.am /\ job'.step = step
  BY <1>1
<1>4. job' # NoJob
  BY <1>3 DEF NoJob
<1> QED
  BY <1>2, <1>3, <1>4

(* The action GetService preserves the invariant.                          *)
LEMMA GetServiceInv == ASSUME IInv, GetService PROVE IInv'
<1>1. /\ job.step = "service" /\ job' = [job EXCEPT !.step = "put", !.owners = service]
      /\ UNCHANGED <<log, uids, service, lost, pods, queue, dirty, delayed, changes, faults>>
  BY DEF GetService, cluster, work, counters
<1>2. RestOK' /\ service \in SUBSET (1 .. uids)
  BY <1>1, InvParts DEF RestOK
<1>3. JobOK' /\ job' # NoJob /\ job'.key = job.key /\ job'.am = job.am /\ job'.step = "put"
  BY <1>1, <1>2, ServiceJobType
<1> QED
  BY <1>1, <1>2, <1>3, JobGoesInv

(* The action CreateOrUpdateService preserves the invariant: the           *)
(* Alertmanager owns the Service, or sync goes on without one.             *)
LEMMA ServiceInv == ASSUME IInv, CreateOrUpdateService PROVE IInv'
<1> PICK u : u = job.am.uid
  OBVIOUS
<1>1. /\ job.step = "put" /\ job' = [job EXCEPT !.step = "apply", !.owners = {}]
      /\ UNCHANGED <<log, uids, pods, queue, dirty, delayed, changes, faults>>
  BY DEF CreateOrUpdateService, work, counters
<1>2. \/ service' = MergeOwners(service, u) /\ lost' = lost \ {u}
      \/ service' = service /\ lost' = lost \cup {u}
  BY DEF CreateOrUpdateService
<1>3. u \in 1 .. uids
  BY <1>1, ServiceJob
<1>4. RestOK'
  BY <1>1, <1>2, <1>3, InvParts DEF RestOK, MergeOwners
<1>5. service \cup lost \subseteq service' \cup lost' /\ u \in service' \cup lost'
  BY <1>2 DEF MergeOwners
<1>6. JobOK' /\ job' # NoJob /\ job'.key = job.key /\ job'.am = job.am /\ job'.step = "apply"
  <2>1. {} \in SUBSET (1 .. uids)
    OBVIOUS
  <2> QED
    BY <1>1, <2>1, ServiceJobType
<1> QED
  BY <1>1, <1>4, <1>5, <1>6, JobGoesInv

(* The action ServiceConflict preserves the invariant.                     *)
LEMMA ServiceConflictInv == ASSUME IInv, ServiceConflict PROVE IInv'
<1>1. /\ Retry /\ job # NoJob /\ UNCHANGED <<log, uids, service, lost, pods>>
      /\ UNCHANGED <<changes, faults>>
  BY DEF ServiceConflict, cluster, counters, NoJob
<1>2. changes' \in Nat /\ faults' \in Nat /\ changes' + faults' <= MaxChanges
  BY <1>1, InvParts DEF RestOK
<1> QED
  BY <1>1, <1>2, RetryInv

(* The worker's writes of the StatefulSet of its key.                      *)
LEMMA DoneInv ==
  ASSUME IInv, job # NoJob, NEW s \in StatefulSet \cup {None}, Write("sset", job.key, s),
         s = None \/ Owns(job.key, s.owner), Done, UNCHANGED <<uids, service, lost, pods, changes, faults>>,
         s = Live("sset")[job.key] =>
           \/ job.key \in dirty
           \/ ~Delivered("am", job.key) \/ ~Delivered("sset", job.key)
           \/ Right(job.key)
  PROVE  IInv'
<1> PICK b : b = job.key
  OBVIOUS
<1>1. Finish /\ delayed' = delayed /\ b \in Ams
  BY InvParts DEF Done, JobOK
<1>2. RestOK'
  BY <1>1, InvParts DEF RestOK
<1>3. CASE UNCHANGED log /\ s = Live("sset")[b]
  BY <1>1, <1>2, <1>3, EndInv
<1>4. CASE Written("sset", b, s)
  <2>1. QueueOK' /\ JobOK' /\ job' = NoJob /\ dirty' = dirty
    BY <1>1, InvParts, FinishType
  <2>2. \A a \in Ams \ {b} : Waits(a) => Waits(a)'
    BY <1>1, <2>1 DEF Waits
  <2> QED
    BY <1>1, <1>2, <1>4, <2>1, <2>2, SsetInv DEF KeepsJob
<1>5. "sset" \in Kinds
  BY DEF Kinds
<1> QED
  BY <1>1, <1>3, <1>4, <1>5, InvParts, WriteStep

(* A StatefulSet that is not being deleted is not changed by saying so.    *)
LEMMA DeletingStays ==
  ASSUME NEW s \in StatefulSet, s.deleting = FALSE
  PROVE  [s EXCEPT !.deleting = FALSE] = s
  BY DEF StatefulSet

(* The action ApplyStatefulSet preserves the invariant.                    *)
LEMMA ApplyInv == ASSUME IInv, ApplyStatefulSet PROVE IInv'
<1> PICK a, new, live : a = job.key /\ new = MakeStatefulSet(job.am) /\ live = Live("sset")[a]
  OBVIOUS
<1>1. /\ job.step = "apply" /\ job # NoJob /\ UNCHANGED <<uids, service, lost, pods, changes, faults>>
      /\ changes \in Nat /\ faults \in Nat /\ changes + faults <= MaxChanges
  BY InvParts DEF ApplyStatefulSet, counters, NoJob, RestOK
<1>2. a \in Ams /\ job.am \in Alertmanager /\ job.am # None
  <2>1. None \notin Alertmanager
    BY InvParts, NameAssumption DEF Alertmanager, RestOK
  <2> QED
    BY <1>1, <2>1, InvParts DEF JobOK, NoJob, Destroys
<1>3. "sset" \in Kinds /\ "am" \in Kinds /\ "sset" # "am"
  BY DEF Kinds
<1>4. live \in StatefulSet \cup {None}
  <2>1. Live("sset") \in [Ams -> StatefulSet \cup {None}]
    BY <1>3, InvParts, LogType DEF States, Object
  <2> QED
    BY <1>2, <2>1
<1>5. /\ job.am.uid \in 1 .. uids /\ job.am.spec.version \in Nat /\ job.am.spec.storage \in Nat
  BY <1>2, SpecAssumption DEF Alertmanager
<1>6. /\ new = [owner |-> job.am.uid, version |-> job.am.spec.version, storage |-> job.am.spec.storage,
                replicas |-> 1, deleting |-> FALSE]
      /\ new \in StatefulSet
  BY <1>5 DEF MakeStatefulSet, StatefulSet
<1>7. Owns(a, new.owner)
  BY <1>2, <1>6 DEF Owns
<1>8. live # None => Owns(a, live.owner)
  <2>1. Len(log["sset"]) \in DOMAIN log["sset"] /\ Live("sset") = log["sset"][Len(log["sset"])]
    BY <1>3, InvParts, LogType
  <2> QED
    BY <2>1 DEF Owns
(* What sync read is still so, or there will be an event or a key.         *)
<1>9. \/ a \in dirty \/ ~Delivered("am", a)
      \/ Live("am")[a] = job.am /\ ~job.am.spec.paused /\ job.am.uid \in service \cup lost
  <2>1. SUFFICES ASSUME a \notin dirty, Delivered("am", a)
                 PROVE  Live("am")[a] = job.am /\ ~job.am.spec.paused /\ job.am.uid \in service \cup lost
    OBVIOUS
  <2>2. job.am = Cached("am")[a] /\ ~job.am.spec.paused
    BY <1>1, <2>1 DEF IInv, JobFits
  <2>3. Cached("am")[a] = Live("am")[a]
    BY <1>3, <2>1, InvParts, LogType DEF Delivered
  <2>4. job.am.uid \in LiveUids
    BY <1>2, <2>2, <2>3 DEF LiveUids
  <2> QED
    BY <1>1, <2>2, <2>3, <2>4 DEF IInv, JobFits
<1>10. CASE Write("sset", a, new) /\ Done /\ live = None
  <2>1. new # live
    <3>1. new \in [owner : Nat, version : Nat, storage : Nat, replicas : Nat, deleting : BOOLEAN]
      BY <1>5, <1>6, InvParts DEF RestOK
    <3> QED
      BY <1>10, <3>1, NameAssumption
  <2> QED
    BY <1>1, <1>6, <1>7, <1>10, <2>1, DoneInv
<1>11. CASE UNCHANGED log /\ Retry
  BY <1>1, <1>11, RetryInv
<1>12. CASE live # None /\ Write("sset", a, [new EXCEPT !.deleting = live.deleting]) /\ Done
  <2> PICK s : s = [new EXCEPT !.deleting = live.deleting]
    OBVIOUS
  <2>1. s \in StatefulSet /\ s.owner = new.owner /\ s.deleting = live.deleting
    BY <1>4, <1>6, <1>12 DEF StatefulSet
  <2>2. ASSUME ~s.deleting PROVE s = new
    <3>1. live.deleting \in BOOLEAN /\ ~live.deleting
      BY <1>4, <1>12, <2>1, <2>2 DEF StatefulSet
    <3>2. live.deleting = FALSE
      BY <3>1
    <3>3. new.deleting = FALSE
      BY <1>6
    <3>4. s = [new EXCEPT !.deleting = FALSE] /\ new.deleting = FALSE
      BY <3>2, <3>3, Zenon
    <3> QED
      BY <1>6, <3>4, DeletingStays
  <2>3. ASSUME s = Live("sset")[a], a \notin dirty, Delivered("am", a) PROVE Right(a)
    <3>1. Live("am")[a] = job.am /\ job.am.uid \in service \cup lost
      BY <1>9, <2>3
    <3> QED
      BY <1>12, <2>2, <2>3, <3>1 DEF Right
  <2> QED
    BY <1>1, <1>7, <1>12, <2>1, <2>3, DoneInv
<1>13. CASE live # None /\ Write("sset", a, [live EXCEPT !.deleting = TRUE]) /\ Done
  <2> PICK s : s = [live EXCEPT !.deleting = TRUE]
    OBVIOUS
  <2>1. s \in StatefulSet /\ s.owner = live.owner /\ s.deleting
    BY <1>4, <1>13 DEF StatefulSet
  <2>2. ASSUME s = Live("sset")[a], a \notin dirty, Delivered("am", a) PROVE Right(a)
    <3>1. Live("am")[a] = job.am /\ job.am.uid \in service \cup lost
      BY <1>9, <2>2
    <3> QED
      BY <1>13, <2>1, <2>2, <3>1 DEF Right
  <2> QED
    BY <1>1, <1>8, <1>13, <2>1, <2>2, DoneInv
<1> QED
  BY <1>10, <1>11, <1>12, <1>13 DEF ApplyStatefulSet

(* What destroyAlertmanager finds is an orphan.                            *)
LEMMA OrphanIsDead ==
  ASSUME IInv, job.step \in Destroys, Live("sset")[job.key] # None
  PROVE  Dead(Live("sset")[job.key]) /\ Owns(job.key, Live("sset")[job.key].owner)
<1>1. "sset" \in Kinds /\ "am" \in Kinds /\ job.key \in Ams
  BY InvParts DEF Kinds, JobOK, NoJob, Destroys
<1>2. /\ Len(log["sset"]) \in DOMAIN log["sset"] /\ Live("sset") = log["sset"][Len(log["sset"])]
      /\ Len(log["am"]) \in DOMAIN log["am"] /\ Live("am") = log["am"][Len(log["am"])]
  BY <1>1, InvParts, LogType
<1> PICK u : u = Live("sset")[job.key].owner
  OBVIOUS
<1>3. Owns(job.key, u)
  BY <1>2 DEF Owns
<1>4. u \in 1 .. uids
  BY <1>1, <1>3, InvParts, OwnsType
<1>5. ASSUME u \in LiveUids PROVE FALSE
  <2>1. PICK b \in Ams : Live("am")[b] # None /\ Live("am")[b].uid = u
    BY <1>5 DEF LiveUids
  <2>2. Has(Len(log["am"]), b, u)
    BY <1>2, <2>1 DEF Has
  <2>3. Occurs(b, u) /\ Occurs(job.key, u)
    BY <1>2, <1>3, <2>2 DEF Occurs
  <2>4. job.key = b
    BY <1>1, <1>4, <2>3 DEF IInv, UidsFit, UidFits
  <2> QED
    BY <1>2, <1>3, <1>4, <2>2, <2>4 DEF IInv, DestroysOrphan
<1> QED
  BY <1>3, <1>5 DEF Dead

(* The action ScaleDown preserves the invariant.                           *)
LEMMA ScaleDownInv == ASSUME IInv, ScaleDown PROVE IInv'
<1> PICK a, old : a = job.key /\ old = Cached("sset")[a]
  OBVIOUS
<1>1. /\ job.step = "scale" /\ job # NoJob /\ job.step \in Destroys /\ UNCHANGED <<uids, service, lost, pods, changes, faults>>
      /\ changes \in Nat /\ faults \in Nat /\ changes + faults <= MaxChanges
  BY InvParts DEF ScaleDown, counters, NoJob, RestOK, Destroys
<1>2. a \in Ams /\ job.am = None
  BY <1>1, InvParts DEF JobOK, NoJob, Destroys
<1>3. "sset" \in Kinds /\ "am" \in Kinds /\ "sset" # "am"
  BY DEF Kinds
<1>4. CASE UNCHANGED log /\ Retry
  BY <1>1, <1>4, RetryInv
<1>5. CASE UNCHANGED log /\ Done
  <2>1. Finish /\ delayed' = delayed /\ RestOK'
    BY <1>1, <1>5, InvParts DEF Done, RestOK
  <2>2. job.key \in dirty \/ ~Delivered("am", job.key) \/ Right(job.key)
    <3>1. SUFFICES ASSUME a \notin dirty, Delivered("am", a) PROVE Live("am")[a] = None
      BY <1>2 DEF Right
    <3>2. Cached("am")[a] = None
      BY <1>1, <1>2, <3>1 DEF IInv, JobFits
    <3> QED
      BY <1>3, <3>1, <3>2, InvParts, LogType DEF Delivered
  <2> QED
    BY <1>1, <1>5, <2>1, <2>2, EndInv
<1>6. CASE old # None /\ ~Outdated(a) /\ Write("sset", a, NoReplicas(old)) /\ Go("poll")
  <2> PICK s : s = NoReplicas(old)
    OBVIOUS
  <2>1. old = Live("sset")[a]
    BY <1>3, <1>6, InvParts, LogType DEF Outdated
  <2>2. old \in StatefulSet /\ Owns(a, old.owner)
    <3>1. Live("sset") \in [Ams -> StatefulSet \cup {None}]
      BY <1>3, InvParts, LogType DEF States, Object
    <3> QED
      BY <1>1, <1>2, <1>6, <2>1, <3>1, OrphanIsDead
  <2>3. s \in StatefulSet /\ s.owner = old.owner
    BY <2>2 DEF NoReplicas, StatefulSet
  <2>4. RestOK'
    BY <1>1, <1>6, InvParts DEF RestOK, Go
  <2>5. CASE UNCHANGED log
    BY <1>1, <1>6, <2>4, <2>5, GoInv DEF Destroys
  <2>6. CASE Written("sset", a, s)
    <3>1. /\ QueueOK' /\ JobOK' /\ job'.key = job.key /\ job'.am = job.am /\ job'.step = "poll" /\ dirty' = dirty
          /\ delayed' = delayed
      BY <1>1, <1>6, InvParts, GoType DEF Destroys, Go
    <3>2. KeepsJob /\ job'.step \in Destroys
      BY <1>1, <3>1 DEF KeepsJob, Destroys
    <3>3. \A b \in Ams \ {a} : Waits(b) => Waits(b)'
      BY <3>1 DEF Waits
    <3> QED
      BY <1>1, <1>2, <2>2, <2>3, <2>4, <2>6, <3>1, <3>2, <3>3, SsetInv
  <2> QED
    BY <1>2, <1>3, <1>6, <2>5, <2>6, InvParts, WriteStep
<1> QED
  BY <1>4, <1>5, <1>6 DEF ScaleDown

(* The action Poll preserves the invariant.                                *)
LEMMA PollInv == ASSUME IInv, Poll PROVE IInv'
<1>1. /\ Go("delete") /\ job.step = "poll" /\ UNCHANGED <<log, uids, service, lost, pods, changes, faults>>
  BY DEF Poll, cluster, counters
<1>2. RestOK'
  BY <1>1, InvParts DEF RestOK, Go
<1> QED
  BY <1>1, <1>2, GoInv DEF Destroys

(* The action DeleteStatefulSet preserves the invariant.                   *)
LEMMA DeleteInv == ASSUME IInv, DeleteStatefulSet PROVE IInv'
<1>1. /\ job.step = "delete" /\ job # NoJob /\ UNCHANGED <<uids, service, lost, pods, changes, faults>>
      /\ changes \in Nat /\ faults \in Nat /\ changes + faults <= MaxChanges
  BY InvParts DEF DeleteStatefulSet, counters, NoJob, RestOK
<1>2. CASE Live("sset")[job.key] # None /\ Write("sset", job.key, None) /\ Done
  BY <1>1, <1>2, DoneInv
<1>3. CASE UNCHANGED log /\ Retry
  BY <1>1, <1>3, RetryInv
<1> QED
  BY <1>2, <1>3 DEF DeleteStatefulSet

(* Others than the operator delete or change a StatefulSet.               *)
LEMMA OthersInv ==
  ASSUME IInv, NEW a \in Ams, NEW s \in StatefulSet \cup {None}, s # Live("sset")[a], Write("sset", a, s), RestOK',
         s # None => Live("sset")[a] # None /\ s.owner = Live("sset")[a].owner,
         UNCHANGED <<uids, service, lost, queue, dirty, delayed, job>>
  PROVE  IInv'
<1>1. "sset" \in Kinds
  BY DEF Kinds
<1>2. Written("sset", a, s)
  BY <1>1, InvParts, WriteStep
<1>3. Live("sset")[a] # None => Owns(a, Live("sset")[a].owner)
  <2>1. Len(log["sset"]) \in DOMAIN log["sset"] /\ Live("sset") = log["sset"][Len(log["sset"])]
    BY <1>1, InvParts, LogType
  <2> QED
    BY <2>1 DEF Owns
<1>4. QueueOK' /\ JobOK' /\ KeepsJob /\ \A b \in Ams : Waits(b) => Waits(b)'
  BY InvParts DEF QueueOK, JobOK, KeepsJob, Waits, Alertmanager, Once
<1> QED
  BY <1>2, <1>3, <1>4, SsetInv

(* The action Tamper preserves the invariant.                              *)
LEMMA TamperInv == ASSUME IInv, NEW a \in Ams, Tamper(a) PROVE IInv'
<1> PICK live : live = Live("sset")[a]
  OBVIOUS
<1>1. /\ UNCHANGED <<uids, service, lost, pods, queue, dirty, delayed, job, faults>> /\ live # None
      /\ \E s \in {None, NoReplicas(live)} : s # live /\ Write("sset", a, s)
  BY DEF Tamper, work
<1>2. RestOK'
  BY <1>1, InvParts, BoundAssumption DEF RestOK, Tamper
<1>3. live \in StatefulSet
  <2>1. "sset" \in Kinds
    BY DEF Kinds
  <2> QED
    BY <1>1, <2>1, InvParts, LogType DEF States, Object
<1>4. NoReplicas(live) \in StatefulSet /\ NoReplicas(live).owner = live.owner
  BY <1>3 DEF NoReplicas, StatefulSet
<1>5. PICK s \in {None, NoReplicas(live)} : s # live /\ Write("sset", a, s)
  BY <1>1
<1> QED
  BY <1>1, <1>2, <1>4, <1>5, OthersInv

(* The action DeleteService preserves the invariant: nothing tells the     *)
(* operator, and its owners are known to be without the Service.           *)
LEMMA DeleteServiceInv == ASSUME IInv, DeleteService PROVE IInv'
<1>1. UNCHANGED <<log, uids, job, pods, queue, dirty, delayed, faults>> /\ service' = {} /\ lost' = lost \cup service
  BY DEF DeleteService, work
<1>2. changes' \in Nat /\ changes' + faults' <= MaxChanges
  BY InvParts, BoundAssumption DEF DeleteService, RestOK
<1>3. QueueOK' /\ RestOK' /\ \A b \in Ams : Waits(b) => Waits(b)'
  BY <1>1, <1>2, InvParts DEF QueueOK, RestOK, Waits, Once
<1> QED
  BY <1>1, <1>3, QueueInv

(* The action CollectStatefulSet preserves the invariant.                  *)
LEMMA CollectStatefulSetInv == ASSUME IInv, NEW a \in Ams, CollectStatefulSet(a) PROVE IInv'
<1>1. /\ UNCHANGED <<uids, service, lost, pods, queue, dirty, delayed, job, changes, faults>>
      /\ Live("sset")[a] # None /\ Write("sset", a, None)
  BY DEF CollectStatefulSet, work, counters
<1>2. RestOK'
  BY <1>1, InvParts DEF RestOK
<1> QED
  BY <1>1, <1>2, OthersInv

(* Users write Alertmanagers: with a new uid, or the one it has.           *)
LEMMA AmInv ==
  ASSUME IInv, NEW a \in Ams, NEW s, s \in Alertmanager' \cup {None}, Written("am", a, s),
         \/ uids' = uids /\ (s = None \/ (Live("am")[a] # None /\ s.uid = Live("am")[a].uid))
         \/ uids' = uids + 1 /\ s.uid = uids',
         UNCHANGED <<service, lost, pods, queue, dirty, delayed, job>>,
         changes' \in Nat, faults' \in Nat, changes' + faults' <= MaxChanges
  PROVE  IInv'
<1>1. "sset" \in Kinds /\ "am" \in Kinds /\ "sset" \in Kinds \ {"am"}
  BY DEF Kinds
<1>2. uids \in Nat /\ uids' \in Nat /\ uids <= uids' /\ 1 .. uids \subseteq 1 .. uids' /\ Alertmanager \subseteq Alertmanager'
  BY InvParts DEF RestOK, Alertmanager
<1>3. log'["sset"] = log["sset"] /\ Cached("am")' = Cached("am")
  BY <1>1 DEF Written
<1>4. LogSteps
  BY <1>1 DEF LogSteps, Writes, Object
<1>5. TypeOK'
  <2>1. LogsOK'
    BY <1>2, <1>4, LogsStay DEF IInv
  <2>2. QueueOK' /\ RestOK'
    BY <1>2, InvParts DEF QueueOK, RestOK, Once
  <2>3. JobOK'
    <3>1. UNCHANGED job
      OBVIOUS
    <3> QED
      BY <1>2, <3>1, InvParts DEF JobOK
  <2> QED
    BY <2>1, <2>2, <2>3, TypeParts, PTL
<1>6. \A b \in Ams : \A u : Owns(b, u)' <=> Owns(b, u)
  BY <1>3 DEF Owns
<1>7. PICK f : Embeds(f)
  BY <1>2, InvParts, WrittenEmbeds
<1>8. UidsFit'
  <2>1. \A b \in Ams, u \in 1 .. uids : UidFits(b, u)'
    BY <1>6, <1>7, InvParts, EmbeddedFit DEF IInv
  <2>2. ASSUME NEW u \in 1 .. uids', u \notin 1 .. uids, NEW b \in Ams PROVE UidFits(b, u)'
    <3>1. u = uids + 1 /\ uids' = uids + 1 /\ s.uid = u
      BY <1>2, <2>2
    <3>2. \A c \in Ams : ~Owns(c, u) /\ \A j \in DOMAIN log["am"] : ~Has(j, c, u)
      BY <2>2, InvParts, OwnsType
    <3>3. PICK l : l = Len(log["am"])
      OBVIOUS
    <3>4. /\ DOMAIN log["am"] = 1 .. l /\ DOMAIN log'["am"] = 1 .. l + 1 /\ l \in Nat /\ l >= 1
          /\ Live("am") = log["am"][l] /\ Live("am") \in States("am")
          /\ \A j \in 1 .. l : log'["am"][j] = log["am"][j]
          /\ log'["am"][l + 1] = [Live("am") EXCEPT ![a] = s]
      BY <1>1, <3>3, InvParts, LogType DEF Written
    <3>5. ASSUME NEW c \in Ams, NEW j \in DOMAIN log'["am"], Has(j, c, u)' PROVE c = a /\ j = l + 1
      <4>1. CASE j \in 1 .. l
        BY <3>2, <3>4, <3>5, <4>1 DEF Has
      <4>2. CASE j = l + 1 /\ c # a
        <5>1. log'["am"][j][c] = log["am"][l][c] /\ l \in DOMAIN log["am"]
          BY <3>4, <4>2 DEF States
        <5> QED
          BY <3>2, <3>5, <5>1 DEF Has
      <4> QED
        BY <3>4, <4>1, <4>2
    <3>6. \A c \in Ams : Occurs(c, u)' => c = a
      BY <1>6, <3>2, <3>5 DEF Occurs
    <3>7. \A i, j, k \in DOMAIN log'["am"] : i <= j /\ j <= k /\ Has(i, b, u)' /\ Has(k, b, u)' => Has(j, b, u)'
      <4> SUFFICES ASSUME NEW i \in DOMAIN log'["am"], NEW j \in DOMAIN log'["am"], NEW k \in DOMAIN log'["am"],
                          i <= j, j <= k, Has(i, b, u)', Has(k, b, u)'
                   PROVE  Has(j, b, u)'
        OBVIOUS
      <4>1. i = l + 1 /\ k = l + 1
        BY <3>5
      <4>2. j = i
        BY <3>4, <4>1
      <4> QED
        BY <4>2
    <3> QED
      BY <1>6, <3>2, <3>6, <3>7 DEF UidFits
  <2> QED
    BY <2>1, <2>2 DEF UidsFit
<1>9. DestroysOrphan'
  <2> SUFFICES ASSUME job.step \in Destroys, NEW u \in 1 .. uids', NEW i \in DOMAIN log'["am"], Owns(job.key, u)'
               PROVE  ~Has(i, job.key, u)'
    BY DEF DestroysOrphan
  <2>1. job.key \in Ams
    BY InvParts DEF JobOK, NoJob, Destroys
  <2>2. \A v : Owns(job.key, v)' => Owns(job.key, v)
    BY <1>3 DEF Owns
  <2>3. u \in 1 .. uids
    BY <2>1, <2>2, InvParts, OwnsType
  <2> QED
    BY <1>7, <2>2, <2>3, InvParts, OrphanStays DEF IInv
<1>10. NothingForgotten'
  <2>1. \A b \in Ams \ {a} : Waits(b) => Waits(b)'
    BY DEF Waits
  <2> QED
    BY <1>1, <2>1, WrittenIsKnown DEF IInv
<1>11. JobFits'
  <2>1. ASSUME job.am \in Alertmanager, job.am.uid \in LiveUids' PROVE job.am.uid \in LiveUids
    <3>1. job.am.uid \in 1 .. uids
      BY <2>1 DEF Alertmanager
    <3>2. PICK b \in Ams : Live("am")'[b] # None /\ Live("am")'[b].uid = job.am.uid
      BY <2>1 DEF LiveUids
    <3>3. Live("am") \in States("am") /\ Live("am")' = [Live("am") EXCEPT ![a] = s]
      BY <1>1, InvParts, LogType DEF Written
    <3>4. CASE b # a
      <4>1. Live("am")[b] # None /\ Live("am")[b].uid = job.am.uid
        BY <3>2, <3>3, <3>4 DEF States
      <4> QED
        BY <4>1 DEF LiveUids
    <3>5. CASE b = a
      <4>1. s # None /\ s.uid = job.am.uid
        BY <3>2, <3>3, <3>5 DEF States
      <4>2. Live("am")[a] # None /\ Live("am")[a].uid = job.am.uid
        BY <1>2, <3>1, <4>1
      <4> QED
        BY <4>2 DEF LiveUids
    <3> QED
      BY <3>4, <3>5
  <2>2. job.step = "apply" => job.am \in Alertmanager
    BY InvParts DEF JobOK, NoJob, Destroys
  <2> QED
    BY <1>3, <2>1, <2>2 DEF IInv, JobFits
<1>12. OneByOne'
  BY <1>4, OneByOneStays DEF IInv
<1> QED
  BY <1>5, <1>8, <1>9, <1>10, <1>11, <1>12 DEF IInv

(* The action ChangeAlertmanager preserves the invariant.                  *)
LEMMA ChangeInv == ASSUME IInv, NEW a \in Ams, ChangeAlertmanager(a) PROVE IInv'
<1> PICK am : am = Live("am")[a]
  OBVIOUS
<1>1. /\ UNCHANGED <<service, lost, pods, queue, dirty, delayed, job, faults>>
      /\ changes' \in Nat /\ faults' \in Nat /\ changes' + faults' <= MaxChanges /\ uids \in Nat
  BY InvParts, BoundAssumption DEF ChangeAlertmanager, work, RestOK
<1>2. "am" \in Kinds /\ am \in Alertmanager \cup {None}
  <2>1. "am" \in Kinds
    BY DEF Kinds
  <2> QED
    BY <2>1, InvParts, LogType DEF States, Object
<1>3. ASSUME NEW s, Write("am", a, s), s \in Alertmanager' \cup {None}, s # am,
             \/ uids' = uids /\ (s = None \/ (am # None /\ s.uid = am.uid))
             \/ uids' = uids + 1 /\ s.uid = uids'
      PROVE  IInv'
  <2>1. Written("am", a, s)
    BY <1>2, <1>3, InvParts, WriteStep
  <2> QED
    BY <1>1, <1>3, <2>1, AmInv
<1>4. CASE am = None /\ uids' = uids + 1 /\ \E spec \in Specs : Write("am", a, [uid |-> uids', spec |-> spec])
  <2>1. PICK spec \in Specs : Write("am", a, [uid |-> uids', spec |-> spec])
    BY <1>4
  <2> PICK s : s = [uid |-> uids', spec |-> spec]
    OBVIOUS
  <2>2. s \in Alertmanager' /\ s.uid = uids'
    BY <1>1, <1>4 DEF Alertmanager
  <2>3. s # None
    <3>1. s \in [uid : Nat, spec : Specs]
      BY <1>1, <1>4
    <3> QED
      BY <3>1, NameAssumption
  <2>4. Write("am", a, s)
    BY <2>1
  <2> QED
    BY <1>3, <1>4, <2>2, <2>3, <2>4
<1>5. CASE am # None /\ uids' = uids /\ \E spec \in Specs \ {am.spec} : Write("am", a, [am EXCEPT !.spec = spec])
  <2>1. PICK spec \in Specs \ {am.spec} : Write("am", a, [am EXCEPT !.spec = spec])
    BY <1>5
  <2> PICK s : s = [am EXCEPT !.spec = spec]
    OBVIOUS
  <2>2. s \in Alertmanager' /\ s.uid = am.uid /\ s # am
    BY <1>2, <1>5 DEF Alertmanager
  <2>3. Write("am", a, s)
    BY <2>1
  <2> QED
    BY <1>3, <1>5, <2>2, <2>3
<1>6. CASE am # None /\ uids' = uids /\ Write("am", a, None)
  BY <1>3, <1>6
<1> QED
  BY <1>4, <1>5, <1>6 DEF ChangeAlertmanager

(* An event: its object waits for the worker, or is gone.                  *)
LEMMA DeliverInv == ASSUME IInv, NEW k \in Kinds, Deliver(k) PROVE IInv'
<1>1. Shown(k) /\ UNCHANGED <<uids, service, lost, pods, delayed, job, changes, faults>>
  BY InvParts, DeliverStep DEF Deliver, counters
<1>2. PICK a \in Ams : /\ log[k][1][a] # log[k][2][a]
                       /\ IF Handle(k, a) THEN Enqueue(a) ELSE UNCHANGED work
  BY DEF Deliver
<1>3. "am" \in Kinds /\ "sset" \in Kinds /\ Kinds = {"am", "sset"} /\ "am" # "sset"
  BY DEF Kinds
<1>4. /\ Len(log[k]) \in Nat /\ Len(log[k]) > 1 /\ DOMAIN log[k] = 1 .. Len(log[k]) /\ Cached(k) = log[k][1]
      /\ Cached(k)' = log[k][2] /\ 1 \in DOMAIN log[k] /\ 2 \in DOMAIN log[k]
      /\ DOMAIN log'[k] = 1 .. Len(log[k]) - 1
      /\ \A i \in DOMAIN log'[k] : log'[k][i] = log[k][i + 1] /\ i + 1 \in DOMAIN log[k]
      /\ \A i \in DOMAIN log[k] : i = 1 \/ i - 1 \in DOMAIN log'[k]
      /\ \A i \in DOMAIN log[k] : i # 1 => log'[k][i - 1] = log[k][i]
  BY <1>1, InvParts, LogType DEF Shown
<1>5. \A l \in Kinds \ {k} : log'[l] = log[l] /\ Cached(l)' = Cached(l) /\ Live(l)' = Live(l)
  BY <1>1 DEF Shown
<1>6. Live("am")' = Live("am") /\ Live("sset")' = Live("sset") /\ LiveUids' = LiveUids
  BY <1>1, <1>3 DEF Shown, LiveUids
<1>7. LogSteps /\ uids \in Nat
  BY <1>1, InvParts DEF LogSteps, RestOK
<1>8. QueueOK' /\ dirty \subseteq dirty' /\ (Handle(k, a) => a \in dirty')
  <2>1. CASE Enqueue(a)
    BY <1>1, <1>2, <2>1, InvParts, EnqueueType DEF Enqueue
  <2>2. CASE ~Handle(k, a) /\ UNCHANGED work
    BY <1>1, <2>2, InvParts DEF QueueOK, work, Once
  <2> QED
    BY <1>2, <2>1, <2>2
<1>9. TypeOK' /\ OneByOne'
  <2>1. JobOK' /\ RestOK'
    BY <1>1, InvParts DEF JobOK, RestOK, Alertmanager
  <2>2. LogsOK' /\ OneByOne'
    BY <1>1, <1>7, LogsStay, OneByOneStays DEF IInv
  <2> QED
    BY <1>8, <2>1, <2>2, TypeParts, PTL
<1>10. UidsFit' /\ DestroysOrphan'
  <2>1. KeepsJob
    BY <1>1 DEF KeepsJob
  <2>2. CASE k = "am"
    BY <1>1, <1>3, <1>5, <2>1, <2>2, ShownEmbeds, SameOwners, UidsStay DEF IInv
  <2>3. CASE k = "sset"
    BY <1>1, <1>3, <1>5, <2>1, <2>3, SameLogEmbeds, ShownOwners, UidsStay DEF IInv
  <2> QED
    BY <1>3, <2>2, <2>3
(* The informer's copies of other objects have not changed.                *)
<1>11. \A b \in Ams : b # a => log[k][1][b] = log[k][2][b]
  BY <1>2, <1>4 DEF IInv, OneByOne
<1>12. NothingForgotten'
  <2> SUFFICES ASSUME NEW b \in Ams, ~Waits(b)', Delivered("am", b)', Delivered("sset", b)'
               PROVE  Right(b)'
    BY DEF NothingForgotten
  <2>1. Right(b)' <=> Right(b)
    BY <1>1, <1>6 DEF Right, MakeStatefulSet
  <2>2. CASE b = a /\ ~Handle(k, a)
    <3>1. k = "sset" /\ Cached("am")[a] = None
      BY <1>3, <2>2 DEF Handle, HandleAlertmanager, HandleStatefulSet
    <3>2. Delivered("am", a)
      BY <1>3, <1>5, <2>2, <3>1 DEF Delivered
    <3>3. Live("am")[a] = None
      BY <1>3, <3>1, <3>2, InvParts, LogType DEF Delivered
    <3> QED
      BY <2>1, <2>2, <3>3 DEF Right
  <2>3. CASE b # a
    <3>1. Delivered(k, b)
      <4>1. Live(k)' = Live(k) /\ Delivered(k, b)'
        BY <1>3, <1>6
      <4>2. \A i \in DOMAIN log'[k] : log'[k][i][b] = Live(k)[b]
        BY <4>1 DEF Delivered
      <4>3. log[k][2][b] = Live(k)[b]
        <5>1. 1 \in DOMAIN log'[k] /\ log'[k][1] = log[k][2]
          BY <1>4
        <5> QED
          BY <4>2, <5>1
      <4>4. \A i \in DOMAIN log[k] : log[k][i][b] = Live(k)[b]
        <5> SUFFICES ASSUME NEW i \in DOMAIN log[k] PROVE log[k][i][b] = Live(k)[b]
          OBVIOUS
        <5>1. CASE i = 1
          BY <1>11, <2>3, <4>3, <5>1
        <5>2. CASE i # 1
          <6>1. i - 1 \in DOMAIN log'[k] /\ log'[k][i - 1] = log[k][i]
            BY <1>4, <5>2
          <6> QED
            BY <4>2, <6>1
        <5> QED
          BY <5>1, <5>2
      <4> QED
        BY <4>4 DEF Delivered
    <3>2. \A l \in Kinds \ {k} : Delivered(l, b)' => Delivered(l, b)
      BY <1>5 DEF Delivered
    <3>3. Delivered("am", b) /\ Delivered("sset", b)
      BY <1>3, <3>1, <3>2
    <3>4. ~Waits(b)
      BY <1>1, <1>8 DEF Waits
    <3> QED
      BY <2>1, <3>3, <3>4 DEF IInv, NothingForgotten
  <2> QED
    BY <1>8, <2>2, <2>3 DEF Waits
<1>13. JobFits'
  <2>1. ASSUME job # NoJob, job.am # Cached("am")'[job.key] PROVE job.key \in dirty'
    <3>1. job.key \in Ams
      BY <2>1, InvParts DEF JobOK
    <3>2. CASE Cached("am")'[job.key] = Cached("am")[job.key]
      BY <1>8, <2>1, <3>2 DEF IInv, JobFits
    <3>3. CASE Cached("am")'[job.key] # Cached("am")[job.key]
      <4>1. k = "am" /\ job.key = a
        BY <1>3, <1>4, <1>5, <1>11, <3>1, <3>3
      <4> QED
        BY <1>8, <4>1 DEF Handle, HandleAlertmanager
    <3> QED
      BY <3>2, <3>3
  <2> QED
    BY <1>1, <1>6, <2>1 DEF IInv, JobFits
<1> QED
  BY <1>9, <1>10, <1>12, <1>13 DEF IInv

(* The operator starts again: every Alertmanager that exists waits.        *)
LEMMA RestartInv == ASSUME IInv, Restart PROVE IInv'
<1>1. /\ Restarts /\ UNCHANGED <<uids, service, lost, pods, changes>> /\ job' = NoJob /\ delayed' = {}
      /\ dirty' = {a \in Ams : Live("am")[a] # None} /\ queue' = SetToSeq(dirty')
  BY DEF Restart, Restarts
<1>2. LogSteps /\ uids \in Nat /\ KeepsJob
  BY <1>1, InvParts DEF LogSteps, RestOK, KeepsJob
<1>3. TypeOK' /\ OneByOne'
  <2>1. JobOK' /\ RestOK'
    BY <1>1, InvParts, BoundAssumption DEF JobOK, RestOK, Restart
  <2>2. LogsOK' /\ OneByOne'
    BY <1>1, <1>2, LogsStay, OneByOneStays DEF IInv
  <2>3. QueueOK'
    <3> PICK d : d = {a \in Ams : Live("am")[a] # None}
      OBVIOUS
    <3>1. d \subseteq Ams /\ IsFiniteSet(d) /\ d \ {None} = d
      BY FiniteAssumption, FS_Subset, NameAssumption
    <3>2. SetToSeq(d) \in Seq(d) /\ ToSet(SetToSeq(d)) = d /\ Once(SetToSeq(d))
      BY <3>1, ListOfSet
    <3>3. SetToSeq(d) \in Seq(Ams)
      BY <3>1, <3>2, SeqMonotonic
    <3>4. dirty' = d /\ queue' = SetToSeq(d) /\ job'.key = None
      BY <1>1 DEF NoJob
    <3>5. ToSet(queue') = d /\ Once(queue') /\ queue' \in Seq(Ams)
      BY <3>2, <3>3, <3>4
    <3>6. ToSet(queue)' = d /\ Once(queue)'
      BY <3>5 DEF ToSet, Once
    <3> QED
      BY <3>1, <3>4, <3>5, <3>6 DEF QueueOK
  <2> QED
    BY <2>1, <2>2, <2>3, TypeParts, PTL
<1>4. UidsFit' /\ DestroysOrphan'
  BY <1>1, <1>2, RestartEmbeds, RestartOwners, UidsStay DEF IInv
<1>5. NothingForgotten'
  <2> SUFFICES ASSUME NEW a \in Ams, ~Waits(a)' PROVE Right(a)'
    BY DEF NothingForgotten
  <2>1. Live("am")[a] = None
    BY <1>1 DEF Waits
  <2>2. "am" \in Kinds
    BY DEF Kinds
  <2>3. log'["am"] = <<Live("am")>>
    BY <1>1, <2>2 DEF Restarts
  <2>4. Live("am")' = Live("am")
    BY <2>3 DEF Live, Last
  <2> QED
    BY <2>1, <2>4 DEF Right
<1>6. JobFits'
  BY <1>1 DEF JobFits
<1> QED
  BY <1>3, <1>4, <1>5, <1>6 DEF IInv

(* The invariant holds initially.                                          *)
LEMMA InitInv == Init => IInv
<1> SUFFICES ASSUME Init PROVE IInv
  OBVIOUS
<1> PICK uid : /\ uid \in [Ams -> 1 .. Cardinality(Ams)]
               /\ \A a, b \in Ams : uid[a] = uid[b] => a = b
               /\ log = [am |-> <<[a \in Ams |-> [uid |-> uid[a], spec |-> FirstSpec]]>>,
                         sset |-> <<[a \in Ams |-> None]>>]
  BY DEF Init
<1> PICK first : first = [a \in Ams |-> [uid |-> uid[a], spec |-> FirstSpec]]
  OBVIOUS
<1> PICK none : none = [a \in Ams |-> None]
  OBVIOUS
<1>1. /\ log = [am |-> <<first>>, sset |-> <<none>>] /\ service = {} /\ lost = {} /\ pods = {} /\ delayed = {} /\ job = NoJob
      /\ queue = SetToSeq(Ams) /\ dirty = Ams /\ uids = Cardinality(Ams) /\ changes = 0 /\ faults = 0
  BY DEF Init
<1>2. Cardinality(Ams) \in Nat
  BY FiniteAssumption, FS_CardinalityType
<1>3. log["am"] = <<first>> /\ log["sset"] = <<none>> /\ DOMAIN log = Kinds
  BY <1>1 DEF Kinds
<1>4. first \in [Ams -> Alertmanager \cup {None}] /\ none \in [Ams -> StatefulSet \cup {None}]
  BY <1>1, SpecAssumption DEF Alertmanager
<1>5. /\ Len(log["am"]) = 1 /\ Len(log["sset"]) = 1 /\ DOMAIN log["am"] = {1} /\ DOMAIN log["sset"] = {1}
      /\ log["am"][1] = first /\ log["sset"][1] = none
  BY <1>3
<1>6. TypeOK
  <2>1. LogsOK
    <3>1. log["am"] \in Seq([Ams -> Alertmanager \cup {None}])
      BY <1>3, <1>4
    <3>2. log["sset"] \in Seq([Ams -> StatefulSet \cup {None}])
      BY <1>3, <1>4
    <3>3. ASSUME NEW k \in Kinds PROVE Len(log[k]) \in 1 .. MaxEvents + 1
      <4>1. Len(log[k]) = 1
        BY <1>5 DEF Kinds
      <4>2. 1 \in 1 .. MaxEvents + 1
        BY BoundAssumption
      <4> QED
        BY <4>1, <4>2, Zenon
    <3> QED
      BY <1>3, <3>1, <3>2, <3>3 DEF LogsOK
  <2>2. QueueOK
    BY <1>1, ListOfSet, FiniteAssumption, NameAssumption DEF QueueOK, NoJob
  <2>3. JobOK /\ RestOK
    BY <1>1, <1>2, BoundAssumption DEF JobOK, RestOK
  <2> QED
    BY <2>1, <2>2, <2>3, TypeParts
<1>7. ASSUME NEW a \in Ams, NEW u PROVE ~Owns(a, u)
  BY <1>1, <1>5 DEF Owns, NoJob
<1>8. UidsFit
  <2> SUFFICES ASSUME NEW a \in Ams, NEW u \in 1 .. uids PROVE UidFits(a, u)
    BY DEF UidsFit
  <2>1. ASSUME NEW b \in Ams, Occurs(a, u), Occurs(b, u) PROVE a = b
    <3>1. Has(1, a, u) /\ Has(1, b, u)
      BY <1>5, <1>7, <2>1 DEF Occurs
    <3>2. uid[a] = u /\ uid[b] = u
      BY <1>5, <3>1 DEF Has
    <3> QED
      BY <3>2
  <2> QED
    BY <1>5, <1>7, <2>1 DEF UidFits
<1>9. DestroysOrphan /\ JobFits
  BY <1>1 DEF DestroysOrphan, JobFits, NoJob, Destroys
<1>10. OneByOne
  <2>1. ASSUME NEW k \in Kinds PROVE 1 .. Len(log[k]) - 1 = {}
    <3>1. Len(log[k]) = 1
      BY <1>5 DEF Kinds
    <3>2. 1 .. 1 - 1 = {}
      OBVIOUS
    <3> QED
      BY <3>1, <3>2, Zenon
  <2> QED
    BY <2>1 DEF OneByOne
<1>11. NothingForgotten
  BY <1>1 DEF NothingForgotten, Waits
<1> QED
  BY <1>6, <1>8, <1>9, <1>10, <1>11 DEF IInv

(* Every step preserves the invariant.                                     *)
LEMMA NextInv == IInv /\ [Next]_vars => IInv'
<1> SUFFICES ASSUME IInv, [Next]_vars PROVE IInv'
  OBVIOUS
<1>1. ASSUME Worker PROVE IInv'
  BY <1>1, BeginInv, PausedEndInv, GetServiceInv, ServiceInv, ServiceConflictInv, ApplyInv, ScaleDownInv, PollInv,
     DeleteInv DEF Worker
<1>2. ASSUME Fail \/ Restart \/ Resync \/ CollectService \/ DeleteService PROVE IInv'
  BY <1>2, FailInv, RestartInv, ResyncInv, CollectServiceInv, DeleteServiceInv
<1>3. ASSUME NEW k \in Kinds, Deliver(k) PROVE IInv'
  BY <1>3, DeliverInv
<1>4. ASSUME NEW a \in Ams, Requeue(a) \/ ChangeAlertmanager(a) \/ Tamper(a) \/ CollectStatefulSet(a) \/ RunPods(a)
      PROVE  IInv'
  BY <1>4, RequeueInv, ChangeInv, TamperInv, CollectStatefulSetInv, RunPodsInv
<1>5. ASSUME UNCHANGED vars PROVE IInv'
  BY <1>5, StutterInv
<1> QED
  BY <1>1, <1>2, <1>3, <1>4, <1>5 DEF Next

-----------------------------------------------------------------------------
(* The theorems.                                                           *)

(* The invariant holds: uids do not come back, what is destroyed is an     *)
(* orphan, and no Alertmanager that is not as it should be is forgotten.   *)
THEOREM InvCorrect == Spec => []IInv
  BY InitInv, NextInv, PTL DEF Spec

(* Every variable has its type; the queue holds what is to be processed,   *)
(* each key once.                                                          *)
THEOREM TypeCorrect == Spec => []TypeOK
<1>1. IInv => TypeOK
  BY DEF IInv
<1> QED
  BY <1>1, InvCorrect, PTL

(* When nothing is left to do, each Alertmanager that is not paused has    *)
(* its StatefulSet and its pods, those that are gone have neither, and it  *)
(* owns the Service, unless a user deleted that or sync took an Update     *)
(* that found none for one that worked: the next sync of it, which Resync  *)
(* can bring, is what makes one again.                                     *)
THEOREM QuietCorrect == Spec => []QuietIsRight
<1>1. IInv => QuietIsRight
  <2> SUFFICES ASSUME IInv, Quiet, NEW a \in Ams
               PROVE  LET am == Live("am")[a] IN
                      IF am = None THEN Live("sset")[a] = None /\ a \notin pods
                      ELSE am.spec.paused \/ (/\ Live("sset")[a] = MakeStatefulSet(am)
                                              /\ a \in pods /\ am.uid \in service \cup lost)
    BY DEF QuietIsRight
  <2>1. "am" \in Kinds /\ "sset" \in Kinds
    BY DEF Kinds
  <2>2. ASSUME NEW k \in Kinds PROVE Delivered(k, a)
    <3>1. Len(log[k]) = 1
      BY DEF Quiet
    <3>2. \A i \in DOMAIN log[k] : log[k][i] = Live(k)
      BY <3>1, InvParts, LogType
    <3> QED
      BY <3>2 DEF Delivered
  <2>3. ~Waits(a)
    <3>1. job = NoJob /\ queue = <<>> /\ delayed = {}
      BY DEF Quiet
    <3>2. ToSet(queue) = {}
      BY <3>1 DEF ToSet
    <3>3. dirty = {}
      BY <3>1, <3>2, InvParts, NameAssumption DEF QueueOK, NoJob
    <3> QED
      BY <3>1, <3>3, NameAssumption DEF Waits, NoJob
  <2>4. Right(a)
    BY <2>1, <2>2, <2>3 DEF IInv, NothingForgotten
  <2>5. CASE Live("am")[a] = None
    <3>1. ASSUME Live("sset")[a] # None PROVE FALSE
      <4>1. Live("sset")[a].owner \in LiveUids
        BY <3>1 DEF Quiet, Dead
      <4>2. PICK b \in Ams : Live("am")[b] # None /\ Live("am")[b].uid = Live("sset")[a].owner
        BY <4>1 DEF LiveUids
      <4>3. /\ Len(log["sset"]) \in DOMAIN log["sset"] /\ Live("sset") = log["sset"][Len(log["sset"])]
            /\ Len(log["am"]) \in DOMAIN log["am"] /\ Live("am") = log["am"][Len(log["am"])]
        BY <2>1, InvParts, LogType
      <4>4. Occurs(a, Live("sset")[a].owner) /\ Occurs(b, Live("sset")[a].owner)
        BY <3>1, <4>2, <4>3 DEF Occurs, Owns, Has
      <4>5. Live("sset")[a].owner \in 1 .. uids
        BY <3>1, <4>3, InvParts, OwnsType DEF Owns
      <4>6. a = b
        BY <4>4, <4>5 DEF IInv, UidsFit, UidFits
      <4> QED
        BY <2>5, <4>2, <4>6
    <3>2. a \notin pods
      BY <3>1 DEF Quiet, Wanted
    <3> QED
      BY <2>5, <3>1, <3>2
  <2>6. CASE Live("am")[a] # None /\ ~Live("am")[a].spec.paused
    <3>1. /\ Live("sset")[a] # None /\ Live("am")[a].uid \in service \cup lost
          /\ Live("sset")[a].deleting \/ Live("sset")[a] = MakeStatefulSet(Live("am")[a])
      BY <2>4, <2>6 DEF Right
    <3>2. Live("sset")[a] = MakeStatefulSet(Live("am")[a])
      BY <3>1 DEF Quiet
    <3>3. Live("sset")[a].replicas = 1 /\ Live("sset")[a].deleting = FALSE
      BY <3>2 DEF MakeStatefulSet
    <3>4. Wanted(a)
      BY <3>1, <3>3 DEF Wanted
    <3>5. a \in pods
      BY <3>4, Zenon DEF Quiet
    <3> QED
      BY <2>6, <3>1, <3>2, <3>5
  <2> QED
    BY <2>5, <2>6
<1> QED
  BY <1>1, InvCorrect, PTL

(* The operator never scales down nor deletes the StatefulSet of an        *)
(* Alertmanager that exists.                                               *)
THEOREM DestroysCorrect == Spec => DestroysOnlyOrphans
<1>1. ASSUME IInv, ScaleDown \/ DeleteStatefulSet
      PROVE  \A a \in Ams : Live("sset")[a] # None /\ ~Dead(Live("sset")[a]) => UNCHANGED (Live("sset")[a])
  <2> SUFFICES ASSUME NEW a \in Ams, Live("sset")[a] # None, ~Dead(Live("sset")[a])
               PROVE  Live("sset")'[a] = Live("sset")[a]
    OBVIOUS
  <2>1. job.step \in Destroys
    BY <1>1 DEF ScaleDown, DeleteStatefulSet, Destroys
  <2>2. a # job.key
    BY <1>1, <2>1, OrphanIsDead
  <2>3. "sset" \in Kinds /\ job.key \in Ams
    BY <1>1, <2>1, InvParts DEF Kinds, JobOK, NoJob, Destroys
  <2>4. UNCHANGED log \/ \E s : Write("sset", job.key, s)
    BY <1>1 DEF ScaleDown, DeleteStatefulSet
  <2>5. CASE UNCHANGED log
    BY <2>5 DEF Live
  <2>6. ASSUME NEW s, Write("sset", job.key, s) PROVE Live("sset")'[a] = Live("sset")[a]
    <3> PICK b : b = job.key
      OBVIOUS
    <3>1. UNCHANGED log \/ Written("sset", b, s)
      BY <1>1, <2>3, <2>6, InvParts, WriteStep
    <3> QED
      BY <1>1, <2>2, <2>3, <2>5, <3>1, InvParts, DeliveredWritten
  <2> QED
    BY <2>4, <2>5, <2>6
<1>2. IInv /\ [Next]_vars =>
        [(ScaleDown \/ DeleteStatefulSet) =>
           \A a \in Ams : Live("sset")[a] # None /\ ~Dead(Live("sset")[a]) => UNCHANGED (Live("sset")[a])]_vars
  BY <1>1
<1> QED
  BY <1>2, InvCorrect, PTL DEF Spec, DestroysOnlyOrphans
=============================================================================
