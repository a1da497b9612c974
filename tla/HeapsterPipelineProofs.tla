------------------------- MODULE HeapsterPipelineProofs -------------------------
(***************************************************************************)
(* Proofs about HeapsterPipeline for any finite number of nodes, containers*)
(* and tokens: what the metric sink stores is true and adds up, however    *)
(* the runs overlap.  The sums of the aggregators are the folds of the     *)
(* community modules, so the first part is about these: a finite sum does  *)
(* not depend on the order, and is the sum of the sums of its parts.       *)
(***************************************************************************)
EXTENDS HeapsterPipeline, FiniteSetTheorems, WellFoundedInduction, TLAPS

(* Induction over the subsets of a finite set: what holds of a set when it *)
(* holds of all its proper subsets holds of all.                           *)
LEMMA FiniteInduction ==
  ASSUME NEW S, IsFiniteSet(S), NEW Good,
         \A T \in SUBSET S : (\A U \in SUBSET T : U # T => U \in Good) => T \in Good
  PROVE  \A T \in SUBSET S : T \in Good
<1> DEFINE Bad == (SUBSET S) \ Good
<1> SUFFICES ASSUME Bad # {} PROVE FALSE
  OBVIOUS
<1>1. Bad \subseteq FiniteSubsetsOf(S)
  BY FS_Subset DEF FiniteSubsetsOf
<1>2. IsWellFoundedOn(StrictSubsetOrdering(S), FiniteSubsetsOf(S))
  BY FS_StrictSubsetOrderingWellFounded
<1>3. PICK B \in Bad : \A C \in Bad : ~ (<<C, B>> \in StrictSubsetOrdering(S))
  <2> HIDE DEF Bad
  <2> QED BY <1>1, <1>2, WFMin
<1>4. ASSUME NEW U \in SUBSET B, U # B PROVE U \in Good
  <2>1. U \in SUBSET S
    OBVIOUS
  <2>2. <<U, B>> \in StrictSubsetOrdering(S)
    BY <1>4 DEF StrictSubsetOrdering
  <2> QED BY <1>3, <2>1, <2>2
<1> QED BY <1>4

(* SumFunction takes an element that it chooses, and then sums what is     *)
(* left.                                                                   *)
Pick(s) == CHOOSE x \in s : TRUE
Step(g, w, s) == IF s = {} THEN 0 ELSE w[Pick(s)] + g[s \ {Pick(s)}]
Adds(g, w, S) == g = [s \in SUBSET S |-> Step(g, w, s)]

(* A sum is the value that the recursive function has at the domain.       *)
LEMMA TotalAdds == \A w : SumFunction(w) = (CHOOSE g : Adds(g, w, DOMAIN w))[DOMAIN w]
BY Zenon DEF SumFunction, SumFunctionOnSet, FoldFunctionOnSet, MapThenFoldSet, Adds, Step, Pick

(* A set that is not empty has the element that is picked.                 *)
LEMMA PickIsIn == \A s : s # {} => Pick(s) \in s
BY DEF Pick

(* The recursion has a solution on the subsets of a finite set.            *)
LEMMA AddsExists ==
  ASSUME NEW D, IsFiniteSet(D), NEW w
  PROVE  \E g : Adds(g, w, D)
<1> DEFINE Up(g, T) == \A s \in SUBSET D : Cardinality(s) <= Cardinality(T) => g[s] = Step(g, w, s)
           Good == {T \in SUBSET D : \E g : Up(g, T)}
<1>a. \A s \in SUBSET D : IsFiniteSet(s) /\ Cardinality(s) \in Nat /\ Cardinality(s) <= Cardinality(D)
  BY FS_Subset, FS_CardinalityType
<1>b. \A s \in SUBSET D : \A x \in s : s \ {x} \in SUBSET D /\ Cardinality(s \ {x}) = Cardinality(s) - 1
  BY <1>a, FS_RemoveElement
<1>1. ASSUME NEW T \in SUBSET D, \A U \in SUBSET T : U # T => U \in Good
      PROVE  T \in Good
  <2>1. CASE T = {}
    <3> DEFINE g == [s \in SUBSET D |-> 0]
    <3>1. ASSUME NEW s \in SUBSET D, Cardinality(s) <= Cardinality(T)
          PROVE  g[s] = Step(g, w, s)
      <4>1. s = {}
        BY <2>1, <3>1, <1>a, FS_EmptySet
      <4> QED BY <4>1 DEF Step
    <3>2. Up(g, T)
      BY <3>1
    <3> HIDE DEF g
    <3> QED BY <3>2
  <2>2. CASE T # {}
    <3>1. PICK x \in T : TRUE
      BY <2>2
    <3> DEFINE U == T \ {x}
    <3>2. U \in SUBSET T /\ U # T
      OBVIOUS
    <3>3. PICK g : Up(g, U)
      BY <3>2, <1>1
    <3> DEFINE h == [s \in SUBSET D |-> Step(g, w, s)]
    <3>4. ASSUME NEW s \in SUBSET D, Cardinality(s) <= Cardinality(T)
          PROVE  h[s] = Step(h, w, s)
      <4>1. CASE s = {}
        BY <4>1 DEF Step
      <4>2. CASE s # {}
        <5> DEFINE t == s \ {Pick(s)}
        <5>1. t \in SUBSET D /\ Cardinality(t) = Cardinality(s) - 1
          BY <4>2, <1>b, PickIsIn
        <5>2. Cardinality(U) = Cardinality(T) - 1
          BY <1>b
        <5>3. Cardinality(t) <= Cardinality(U)
          BY <5>1, <5>2, <3>4, <1>a
        <5>4. g[t] = h[t]
          BY <5>1, <5>3, <3>3
        <5> QED BY <4>2, <5>4 DEF Step
      <4> QED BY <4>1, <4>2
    <3>5. Up(h, T)
      BY <3>4
    <3> HIDE DEF h
    <3> QED BY <3>5
  <2> QED BY <2>1, <2>2
<1>2. D \in Good
  <2> HIDE DEF Good
  <2> QED BY <1>1, FiniteInduction
<1>3. PICK g : Up(g, D)
  BY <1>2
<1> DEFINE h == [s \in SUBSET D |-> g[s]]
<1>4. ASSUME NEW s \in SUBSET D PROVE h[s] = Step(h, w, s)
  <2>1. g[s] = Step(g, w, s)
    BY <1>3, <1>a
  <2>2. CASE s = {}
    BY <2>1, <2>2 DEF Step
  <2>3. CASE s # {}
    <3>1. h[s \ {Pick(s)}] = g[s \ {Pick(s)}]
      OBVIOUS
    <3> QED BY <2>1, <2>3, <3>1 DEF Step
  <2> QED BY <2>2, <2>3
<1>5. h = [s \in SUBSET D |-> Step(h, w, s)]
  BY <1>4
<1> HIDE DEF h
<1> QED BY <1>5 DEF Adds

(* It has only one: two solutions, of a set and of one that it is in,      *)
(* agree where both are defined.                                           *)
LEMMA AddsUnique ==
  ASSUME NEW D, IsFiniteSet(D), NEW C \in SUBSET D, NEW g, NEW w, Adds(g, w, D),
         NEW h, NEW v, Adds(h, v, C), \A x \in C : v[x] = w[x]
  PROVE  \A s \in SUBSET C : h[s] = g[s]
<1> DEFINE Good == {s \in SUBSET C : h[s] = g[s]}
<1>1. IsFiniteSet(C)
  BY FS_Subset
<1>2. ASSUME NEW T \in SUBSET C, \A U \in SUBSET T : U # T => U \in Good
      PROVE  T \in Good
  <2>1. h[T] = Step(h, v, T) /\ g[T] = Step(g, w, T)
    <3>1. T \in SUBSET D
      OBVIOUS
    <3> QED BY <3>1, Zenon DEF Adds
  <2>2. CASE T = {}
    BY <2>1, <2>2 DEF Step
  <2>3. CASE T # {}
    <3>1. Pick(T) \in T
      BY <2>3, PickIsIn
    <3>2. T \ {Pick(T)} \in SUBSET T /\ T \ {Pick(T)} # T
      BY <3>1
    <3>3. h[T \ {Pick(T)}] = g[T \ {Pick(T)}]
      BY <3>2, <1>2
    <3>4. v[Pick(T)] = w[Pick(T)]
      BY <3>1
    <3> QED BY <2>1, <2>3, <3>3, <3>4 DEF Step
  <2> QED BY <2>2, <2>3
<1>3. \A s \in SUBSET C : s \in Good
  <2> HIDE DEF Good
  <2> QED BY <1>1, <1>2, FiniteInduction
<1> QED BY <1>3

(* Whichever element is taken first, the sum is the same: the order of a   *)
(* Go map, in which an aggregator visits the metric sets, does not tell.   *)
LEMMA AnyFirst ==
  ASSUME NEW D, IsFiniteSet(D), NEW w \in [D -> Int], NEW g, Adds(g, w, D)
  PROVE  \A s \in SUBSET D : g[s] \in Int /\ \A y \in s : g[s] = w[y] + g[s \ {y}]
<1> DEFINE Good == {s \in SUBSET D : g[s] \in Int /\ \A y \in s : g[s] = w[y] + g[s \ {y}]}
<1>1. ASSUME NEW T \in SUBSET D, \A U \in SUBSET T : U # T => U \in Good
      PROVE  T \in Good
  <2>1. g[T] = Step(g, w, T)
    BY Zenon DEF Adds
  <2>2. CASE T = {}
    BY <2>1, <2>2 DEF Step
  <2>3. CASE T # {}
    <3> DEFINE x == Pick(T)
    <3>1. x \in T
      BY <2>3, PickIsIn
    <3>2. g[T] = w[x] + g[T \ {x}]
      BY <2>1, <2>3 DEF Step
    <3> HIDE DEF x
    <3>3. \A y \in T : T \ {y} \in Good
      BY <1>1
    <3>4. \A y \in T : g[T \ {y}] \in Int /\ w[y] \in Int
      BY <3>3
    <3>5. ASSUME NEW y \in T, y # x PROVE g[T] = w[y] + g[T \ {y}]
      <4>1. g[T \ {x}] = w[y] + g[(T \ {x}) \ {y}]
        BY <3>3, <3>1, <3>5
      <4>2. g[T \ {y}] = w[x] + g[(T \ {y}) \ {x}]
        BY <3>3, <3>1, <3>5
      <4>3. (T \ {x}) \ {y} = (T \ {y}) \ {x}
        OBVIOUS
      <4>4. (T \ {x}) \ {y} \in Good
        BY <1>1, <3>1
      <4> HIDE DEF Good
      <4>5. g[(T \ {x}) \ {y}] \in Int
        BY <4>4 DEF Good
      <4> DEFINE both == g[(T \ {x}) \ {y}]
      <4>6. g[T] = w[x] + (w[y] + both) /\ g[T \ {y}] = w[x] + both
        BY <3>2, <4>1, <4>2, <4>3
      <4>7. both \in Int /\ w[x] \in Int /\ w[y] \in Int
        BY <3>1, <3>4, <4>5
      <4> HIDE DEF both
      <4> QED BY <4>6, <4>7
    <3>6. \A y \in T : g[T] = w[y] + g[T \ {y}]
      BY <3>2, <3>5
    <3>7. g[T] \in Int
      BY <3>1, <3>2, <3>4
    <3> QED BY <3>6, <3>7
  <2> QED BY <2>2, <2>3
<1>2. \A s \in SUBSET D : s \in Good
  <2> HIDE DEF Good
  <2> QED BY <1>1, FiniteInduction
<1> QED BY <1>2

(* A sum of integers is an integer.                                        *)
LEMMA TotalType ==
  ASSUME NEW D, IsFiniteSet(D), NEW w \in [D -> Int]
  PROVE  SumFunction(w) \in Int
<1> DEFINE g == CHOOSE f : Adds(f, w, D)
<1>1. Adds(g, w, D)
  BY AddsExists, Zenon
<1>2. SumFunction(w) = g[D]
  BY TotalAdds
<1> HIDE DEF g
<1> QED BY <1>1, <1>2, AnyFirst

(* Nothing sums up to zero.                                                *)
LEMMA TotalEmpty ==
  ASSUME NEW w \in [{} -> Int]
  PROVE  SumFunction(w) = 0
<1> DEFINE g == CHOOSE f : Adds(f, w, {})
<1>1. Adds(g, w, {})
  BY AddsExists, FS_EmptySet, Zenon
<1>2. SumFunction(w) = g[{}]
  BY TotalAdds
<1> HIDE DEF g
<1>3. g[{}] = Step(g, w, {})
  BY <1>1, Zenon DEF Adds
<1> QED BY <1>2, <1>3 DEF Step

(* v is w without y.                                                       *)
Without(w, y, v) ==
  /\ IsFiniteSet(DOMAIN w) /\ w \in [DOMAIN w -> Int] /\ y \in DOMAIN w
  /\ v = [x \in DOMAIN w \ {y} |-> w[x]]

(* A sum is one of its values and the sum of the others.                   *)
LEMMA TotalTake ==
  ASSUME NEW w, NEW y, NEW v, Without(w, y, v)
  PROVE  SumFunction(w) = w[y] + SumFunction(v)
<1> DEFINE D == DOMAIN w
           C == D \ {y}
           g == CHOOSE f : Adds(f, w, D)
           h == CHOOSE f : Adds(f, v, C)
<1>a. IsFiniteSet(D) /\ w \in [D -> Int] /\ y \in D /\ DOMAIN v = C
  BY DEF Without
<1>1. Adds(g, w, D) /\ Adds(h, v, C)
  <2>1. IsFiniteSet(C)
    BY <1>a, FS_RemoveElement
  <2> QED BY <1>a, <2>1, AddsExists, Zenon
<1>2. SumFunction(w) = g[D] /\ SumFunction(v) = h[C]
  BY <1>a, TotalAdds
<1> HIDE DEF g, h
<1>3. g[D] = w[y] + g[C]
  <2> HIDE DEF C
  <2>1. \A s \in SUBSET D : g[s] \in Int /\ \A x \in s : g[s] = w[x] + g[s \ {x}]
    <3> HIDE DEF D
    <3> QED BY <1>1, <1>a, AnyFirst
  <2> QED BY <1>a, <2>1 DEF C
<1>4. h[C] = g[C]
  <2>1. C \in SUBSET D /\ \A x \in C : v[x] = w[x]
    BY DEF Without
  <2> HIDE DEF C, D
  <2> QED BY <1>1, <1>a, <2>1, AddsUnique, SMTT(30)
<1> QED BY <1>2, <1>3, <1>4

(* Zeros sum up to zero.                                                   *)
LEMMA TotalZero ==
  ASSUME NEW D, IsFiniteSet(D), NEW w \in [D -> {0}]
  PROVE  SumFunction(w) = 0
<1> DEFINE on(T) == [x \in T |-> w[x]]
           Good == {T \in SUBSET D : SumFunction(on(T)) = 0}
<1>1. ASSUME NEW T \in SUBSET D, \A U \in SUBSET T : U # T => U \in Good
      PROVE  T \in Good
  <2>1. CASE T = {}
    <3>1. on(T) \in [{} -> Int]
      BY <2>1
    <3>2. SumFunction(on(T)) = 0
      BY <3>1, TotalEmpty
    <3> QED BY <3>2
  <2>2. CASE T # {}
    <3>1. PICK y \in T : TRUE
      BY <2>2
    <3>2. IsFiniteSet(T) /\ on(T) \in [T -> Int] /\ on(T \ {y}) \in [T \ {y} -> Int]
      BY FS_Subset
    <3>4. on(T)[y] = 0 /\ SumFunction(on(T \ {y})) = 0
      BY <3>1, <1>1
    <3>5. SumFunction(on(T)) = on(T)[y] + SumFunction(on(T \ {y}))
      <4> DEFINE all == on(T)
                 rest == on(T \ {y})
      <4>1. Without(all, y, rest)
        BY <3>1, <3>2 DEF Without
      <4> HIDE DEF all, rest
      <4>2. SumFunction(all) = all[y] + SumFunction(rest)
        BY <4>1, TotalTake
      <4> QED BY <4>2 DEF all, rest
    <3> QED BY <3>4, <3>5
  <2> QED BY <2>1, <2>2
<1>2. D \in Good
  <2> HIDE DEF Good
  <2> QED BY <1>1, FiniteInduction
<1>3. on(D) = w
  OBVIOUS
<1> QED BY <1>2, <1>3

(* The sum of what a set has in each of its parts is what it has: every    *)
(* pod is in one namespace, so the totals of the namespaces sum up to that *)
(* of the pods.                                                            *)
LEMMA TotalParts ==
  ASSUME NEW X, IsFiniteSet(X), NEW K, IsFiniteSet(K), NEW v \in [X -> Int], NEW part \in [X -> K]
  PROVE  SumFunction([k \in K |-> SumFunction([x \in {y \in X : part[y] = k} |-> v[x]])]) = SumFunction(v)
<1> DEFINE on(T) == [x \in T |-> v[x]]
           of(T, k) == {y \in T : part[y] = k}
           parts(T) == [k \in K |-> SumFunction(on(of(T, k)))]
           Good == {T \in SUBSET X : SumFunction(parts(T)) = SumFunction(on(T))}
<1>a. ASSUME NEW T \in SUBSET X
      PROVE  IsFiniteSet(T) /\ on(T) \in [T -> Int] /\ parts(T) \in [K -> Int]
  <2>1. ASSUME NEW S \in SUBSET X PROVE IsFiniteSet(S) /\ on(S) \in [S -> Int]
    BY FS_Subset
  <2>2. ASSUME NEW k \in K PROVE SumFunction(on(of(T, k))) \in Int
    <3>1. of(T, k) \in SUBSET X
      OBVIOUS
    <3> HIDE DEF on, of
    <3> QED BY <3>1, <2>1, TotalType
  <2> QED BY <2>1, <2>2
<1>1. ASSUME NEW T \in SUBSET X, \A U \in SUBSET T : U # T => U \in Good
      PROVE  T \in Good
  <2>1. CASE T = {}
    <3>1. on(T) \in [{} -> Int] /\ \A k \in K : of(T, k) = T
      BY <2>1
    <3>2. SumFunction(on(T)) = 0
      BY <3>1, TotalEmpty
    <3>3. parts(T) \in [K -> {0}]
      BY <3>1, <3>2
    <3>4. SumFunction(parts(T)) = 0
      BY <3>3, TotalZero
    <3> QED BY <3>2, <3>4
  <2>2. CASE T # {}
    <3>1. PICK y \in T : TRUE
      BY <2>2
    <3> DEFINE U == T \ {y}
               k == part[y]
    <3>2. U \in SUBSET X /\ k \in K
      OBVIOUS
    <3>3. U \in Good
      BY <3>1, <1>1
    <3>4. SumFunction(on(T)) = v[y] + SumFunction(on(U))
      <4> DEFINE all == on(T)
                 less == on(U)
      <4>1. on(T)[y] = v[y]
        BY <3>1
      <4>2. Without(all, y, less)
        BY <1>a, <3>1 DEF Without
      <4> HIDE DEF all, less
      <4>3. SumFunction(all) = all[y] + SumFunction(less)
        BY <4>2, TotalTake
      <4> QED BY <4>1, <4>3 DEF all, less
    <3>5. parts(T)[k] = v[y] + parts(U)[k]
      <4> DEFINE A == of(T, k)
      <4>1. y \in A /\ A \in SUBSET X /\ of(U, k) = A \ {y}
        OBVIOUS
      <4>3. on(A)[y] = v[y]
        BY <4>1
      <4>5. SumFunction(on(A)) = on(A)[y] + SumFunction(on(A \ {y}))
        <5> DEFINE all == on(A)
                   less == on(A \ {y})
        <5>1. Without(all, y, less)
          <6>1. A \in SUBSET X /\ y \in A
            BY <4>1
          <6> HIDE DEF A
          <6> QED BY <1>a, <6>1 DEF Without
        <5> HIDE DEF all, less, A
        <5>2. SumFunction(all) = all[y] + SumFunction(less)
          BY <5>1, TotalTake
        <5> QED BY <5>2 DEF all, less
      <4>6. parts(T)[k] = SumFunction(on(A)) /\ parts(U)[k] = SumFunction(on(A \ {y}))
        BY <3>2, <4>1
      <4> QED BY <4>3, <4>5, <4>6
    <3>6. \A j \in K \ {k} : parts(T)[j] = parts(U)[j]
      <4>1. \A j \in K \ {k} : of(T, j) = of(U, j)
        OBVIOUS
      <4> QED BY <4>1
    <3> DEFINE rest == [j \in K \ {k} |-> parts(U)[j]]
    <3>7. parts(T) \in [K -> Int] /\ parts(U) \in [K -> Int] /\ SumFunction(on(U)) \in Int /\ v[y] \in Int
      <4>1. IsFiniteSet(U) /\ on(U) \in [U -> Int] /\ v[y] \in Int
        BY <1>a, <3>2
      <4> HIDE DEF on
      <4>2. SumFunction(on(U)) \in Int
        BY <4>1, TotalType
      <4> QED BY <1>a, <3>2, <4>1, <4>2
    <3>8. SumFunction(parts(U)) = SumFunction(on(U))
      BY <3>3
    <3>9. SumFunction(parts(T)) = parts(T)[k] + SumFunction(rest) /\ SumFunction(parts(U)) = parts(U)[k] + SumFunction(rest)
      <4> DEFINE new == parts(T)
                 old == parts(U)
      <4>1. rest = [j \in K \ {k} |-> new[j]]
        BY <3>6
      <4> HIDE DEF parts, k
      <4>2. new \in [K -> Int] /\ old \in [K -> Int]
        BY <3>7
      <4> HIDE DEF new
      <4>3. rest = [j \in K \ {k} |-> old[j]]
        OBVIOUS
      <4> HIDE DEF rest, old
      <4>4. Without(new, k, rest) /\ Without(old, k, rest)
        BY <3>2, <4>1, <4>2, <4>3 DEF Without
      <4>5. SumFunction(new) = new[k] + SumFunction(rest) /\ SumFunction(old) = old[k] + SumFunction(rest)
        BY <4>4, TotalTake
      <4> QED BY <4>5 DEF new, old
    <3>10. SumFunction(rest) \in Int
      <4> HIDE DEF parts, k
      <4>1. rest \in [K \ {k} -> Int] /\ IsFiniteSet(K \ {k})
        BY <3>7, FS_RemoveElement
      <4> QED BY <4>1, TotalType
    <3>11. SumFunction(parts(T)) = SumFunction(on(T))
      <4>1. parts(T)[k] \in Int /\ parts(U)[k] \in Int
        BY <3>2, <3>7
      <4> HIDE DEF parts, on, rest, k, U
      <4> QED BY <3>4, <3>5, <3>7, <3>8, <3>9, <3>10, <4>1
    <3> QED BY <3>11
  <2> QED BY <2>1, <2>2
<1>2. X \in Good
  <2> HIDE DEF Good
  <2> QED BY <1>1, FiniteInduction
<1>3. on(X) = v
  OBVIOUS
<1>4. parts(X) = [k \in K |-> SumFunction([x \in {y \in X : part[y] = k} |-> v[x]])]
  OBVIOUS
<1> QED BY <1>2, <1>3, <1>4

-----------------------------------------------------------------------------

(* The keys that batches have.                                             *)
ContainerKeys == {ContainerKey(c) : c \in Containers}
PodKeys == {PodKey(p) : p \in Pods}
NodeKeys == {NodeKey(n) : n \in Nodes}
NamespaceKeys == {NamespaceKey(NamespaceOf[p]) : p \in Pods}

(* A key tells what it is about.                                           *)
LEMMA KeysDiffer ==
  /\ \A k \in ContainerKeys : k[1] = "container"
  /\ \A k \in PodKeys : k[1] = "pod"
  /\ \A k \in NodeKeys : k[1] = "node"
  /\ \A k \in NamespaceKeys : k[1] = "namespace"
  /\ ClusterKey[1] = "cluster"
BY DEF ContainerKeys, PodKeys, NodeKeys, NamespaceKeys, ContainerKey, PodKey, NodeKey, NamespaceKey, ClusterKey

(* What a function makes of a finite set is finite.                        *)
LEMMA ImageIsFinite ==
  ASSUME NEW S, IsFiniteSet(S), NEW f, DOMAIN f = S
  PROVE  IsFiniteSet({f[x] : x \in S})
<1> DEFINE T == {f[x] : x \in S}
           g == [x \in S |-> f[x]]
<1>1. g \in Surjection(S, T)
  BY DEF Surjection
<1> QED BY <1>1, FS_Surjection

(* There are finitely many containers and nodes, so of keys too.           *)
LEMMA KeysAreFinite ==
  IsFiniteSet(ContainerKeys) /\ IsFiniteSet(PodKeys) /\ IsFiniteSet(NodeKeys) /\ IsFiniteSet(NamespaceKeys)
<1>1. IsFiniteSet(ContainerKeys)
  <2> DEFINE f == [c \in Containers |-> ContainerKey(c)]
  <2>1. ContainerKeys = {f[c] : c \in Containers}
    BY DEF ContainerKeys
  <2> HIDE DEF f
  <2>2. DOMAIN f = Containers
    BY DEF f
  <2> QED BY <2>1, <2>2, ImageIsFinite, FiniteAssumption
<1>2. IsFiniteSet(Pods)
  <2> DEFINE f == [c \in Containers |-> PodOf[c]]
  <2>1. Pods = {f[c] : c \in Containers}
    BY DEF Pods
  <2>2. DOMAIN f = Containers
    OBVIOUS
  <2> HIDE DEF f
  <2> QED BY <2>1, <2>2, ImageIsFinite, FiniteAssumption
<1>3. IsFiniteSet(PodKeys)
  <2> DEFINE f == [p \in Pods |-> PodKey(p)]
  <2>1. PodKeys = {f[p] : p \in Pods}
    BY DEF PodKeys
  <2>2. DOMAIN f = Pods
    OBVIOUS
  <2> HIDE DEF f
  <2> QED BY <1>2, <2>1, <2>2, ImageIsFinite
<1>4. IsFiniteSet(NodeKeys)
  <2> DEFINE f == [n \in Nodes |-> NodeKey(n)]
  <2>1. NodeKeys = {f[n] : n \in Nodes}
    BY DEF NodeKeys
  <2>2. DOMAIN f = Nodes
    OBVIOUS
  <2> HIDE DEF f
  <2> QED BY <2>1, <2>2, ImageIsFinite, FiniteAssumption
<1>5. IsFiniteSet(NamespaceKeys)
  <2> DEFINE f == [p \in Pods |-> NamespaceKey(NamespaceOf[p])]
  <2>1. NamespaceKeys = {f[p] : p \in Pods}
    BY DEF NamespaceKeys
  <2>2. DOMAIN f = Pods
    OBVIOUS
  <2> HIDE DEF f
  <2> QED BY <1>2, <2>1, <2>2, ImageIsFinite
<1> QED BY <1>1, <1>3, <1>4, <1>5

-----------------------------------------------------------------------------

(* aggregate adds what the sources have of a metric to what the target     *)
(* has: a source that has none of it counts as zero, and when no source    *)
(* has it the target stays as it was.                                      *)
LEMMA AggregateValue ==
  ASSUME NEW sets, NEW own, NEW X, IsFiniteSet(X), NEW metrics, NEW m \in metrics,
         \A x \in X : Value(sets[x], m) \in Int,
         own \in [born : Int, at : Int, node : Nodes \cup {None}, values : [DOMAIN own.values -> Int]]
  PROVE  /\ Value(Aggregate(sets, own, X, metrics), m) = Value(own, m) + Sum(sets, X, m)
         /\ Value(own, m) \in Int /\ Sum(sets, X, m) \in Int
<1> DEFINE w == [x \in X |-> Value(sets[x], m)]
           found == {n \in metrics : \E x \in X : Has(sets, x, n)}
           sums == [n \in found |-> Value(own, n) + Sum(sets, X, n)]
           new == Aggregate(sets, own, X, metrics)
<1>1. Sum(sets, X, m) = SumFunction(w) /\ w \in [X -> Int]
  BY DEF Sum
<1>2. SumFunction(w) \in Int
  <2> HIDE DEF w
  <2> QED BY <1>1, TotalType
<1>3. Value(own, m) \in Int
  BY DEF Value
<1>4. new.values = Over(sums, own.values)
  BY Zenon DEF Aggregate
<1>5. CASE m \in found
  <2>1. m \in DOMAIN new.values /\ new.values[m] = sums[m]
    BY <1>4, <1>5 DEF Over
  <2> QED BY <1>1, <1>2, <1>3, <1>5, <2>1 DEF Value
<1>6. CASE m \notin found
  <2>1. w \in [X -> {0}]
    BY <1>6 DEF Value, Has
  <2>2. SumFunction(w) = 0
    <3> HIDE DEF w
    <3> QED BY <2>1, TotalZero
  <2>3. Value(new, m) = Value(own, m)
    BY <1>4, <1>6 DEF Over, Value
  <2> QED BY <1>1, <1>2, <1>3, <2>2, <2>3
<1> QED BY <1>5, <1>6

(* Metric sets of integers, and those without any metric.                  *)
Owned(set) == set \in [born : Int, at : Int, node : Nodes \cup {None}, values : [DOMAIN set.values -> Int]]
Blank(set) == Owned(set) /\ DOMAIN set.values = {}

(* A stub has no metric.                                                   *)
LEMMA StubIsBlank ==
  ASSUME NEW node \in Nodes \cup {None}
  PROVE  Blank(Stub(node, <<>>)) /\ Stub(node, <<>>).node = node
BY DEF Blank, Owned, Stub, MetricSet

(* What an aggregator leaves alone: the sets that have no sources, and the *)
(* node of those that have.                                                *)
Kept(all, sets, sources) ==
  /\ DOMAIN all = DOMAIN sets \cup DOMAIN sources
  /\ \A k \in DOMAIN sets \ DOMAIN sources : all[k] = sets[k]
  /\ \A k \in DOMAIN sources : Owned(sets[k]) /\ k \in DOMAIN sets => all[k].node = sets[k].node

(* An aggregator writes nothing but the values of its targets.             *)
LEMMA WithAllKeeps ==
  ASSUME NEW sets, NEW sources, NEW metrics
  PROVE  Kept(WithAll(sets, sources, metrics), sets, sources)
BY DEF WithAll, Aggregate, Owned, Kept

(* The parts that part makes of X.                                         *)
Parts(sources, K, X, part) ==
  /\ IsFiniteSet(K) /\ IsFiniteSet(X) /\ part \in [X -> K]
  /\ sources = [k \in K |-> {x \in X : part[x] = k}]

(* An aggregator whose targets have no metrics yet counts every source     *)
(* once: the targets sum up to what the sources sum up to.                 *)
LEMMA AllAreCounted ==
  ASSUME NEW sets, NEW sources, NEW metrics, NEW m \in metrics, NEW K, NEW X, NEW part, Parts(sources, K, X, part),
         \A x \in X : Value(sets[x], m) \in Int,
         \A k \in K \cap DOMAIN sets : Blank(sets[k])
  PROVE  /\ \A k \in K : Value(WithAll(sets, sources, metrics)[k], m) \in Int
         /\ Sum(WithAll(sets, sources, metrics), K, m) = Sum(sets, X, m)
<1> DEFINE all == WithAll(sets, sources, metrics)
           own(k) == IF k \in DOMAIN sets THEN sets[k] ELSE Stub(None, <<>>)
           w == [x \in X |-> Value(sets[x], m)]
           of(k) == [x \in {y \in X : part[y] = k} |-> w[x]]
<1>1. w \in [X -> Int] /\ IsFiniteSet(X) /\ IsFiniteSet(K) /\ part \in [X -> K] /\ DOMAIN sources = K
  BY DEF Parts
<1>2. ASSUME NEW k \in K
      PROVE  Value(all[k], m) = SumFunction(of(k)) /\ Value(all[k], m) \in Int
  <2>1. Blank(own(k))
    BY StubIsBlank
  <2>2. all[k] = Aggregate(sets, own(k), sources[k], metrics)
    BY <1>1 DEF WithAll
  <2>3. sources[k] \subseteq X /\ sources[k] = {y \in X : part[y] = k}
    BY DEF Parts
  <2>4. IsFiniteSet(sources[k])
    BY <1>1, <2>3, FS_Subset
  <2>5. Sum(sets, sources[k], m) = SumFunction(of(k))
    <3>1. [x \in sources[k] |-> Value(sets[x], m)] = of(k)
      BY <2>3
    <3> QED BY <3>1, Zenon DEF Sum
  <2>6. Value(own(k), m) = 0
    BY <2>1 DEF Blank, Value
  <2> DEFINE mine == own(k)
             few == sources[k]
  <2>7. /\ Owned(mine) /\ IsFiniteSet(few) /\ \A x \in few : Value(sets[x], m) \in Int
    BY <2>1, <2>3, <2>4 DEF Blank
  <2> HIDE DEF mine, few
  <2>8. /\ Value(Aggregate(sets, mine, few, metrics), m) = Value(mine, m) + Sum(sets, few, m)
        /\ Sum(sets, few, m) \in Int
    BY <2>7, AggregateValue DEF Owned
  <2> QED BY <2>2, <2>5, <2>6, <2>8 DEF mine, few
<1>3. Sum(all, K, m) = SumFunction([k \in K |-> SumFunction(of(k))])
  <2>1. [k \in K |-> Value(all[k], m)] = [k \in K |-> SumFunction(of(k))]
    BY <1>2
  <2> QED BY <2>1, Zenon DEF Sum
<1>4. SumFunction([k \in K |-> SumFunction(of(k))]) = SumFunction(w)
  <2> HIDE DEF w
  <2> QED BY <1>1, TotalParts
<1>5. SumFunction(w) = Sum(sets, X, m)
  BY Zenon DEF Sum
<1> QED BY <1>2, <1>3, <1>4, <1>5

-----------------------------------------------------------------------------

(* The metrics that the aggregators add up.                                *)
Gauges == {"rate", "request"}

(* What the pod based enricher leaves: containers come with their pods and *)
(* pods with their nodes, and only containers have metrics.                *)
Enriched(sets) ==
  /\ \A k \in DOMAIN sets : k \in ContainerKeys \cup PodKeys \cup NodeKeys
  /\ \A k \in OfType(sets, "container") :
       /\ Containing(k) \in DOMAIN sets
       /\ \A m \in Gauges : Value(sets[k], m) \in Int
  /\ \A k \in OfType(sets, "pod") : Blank(sets[k]) /\ NodeKey(sets[k].node) \in DOMAIN sets
  /\ \A k \in OfType(sets, "node") : Blank(sets[k])

(* What is known of a measured batch, by the type of the key.              *)
LEMMA MeasuredKeys ==
  ASSUME NEW sets, Measured(sets)
  PROVE  /\ \A k \in DOMAIN sets : k \in ContainerKeys \cup PodKeys \cup NodeKeys
         /\ \A k \in DOMAIN sets : k[1] = "pod" => Blank(sets[k]) /\ sets[k].node \in Nodes /\ NodeKey(sets[k].node) \in DOMAIN sets
         /\ \A k \in DOMAIN sets : k[1] = "node" => Blank(sets[k])
         /\ \A k \in DOMAIN sets : k[1] = "container" =>
              /\ Containing(k) \in DOMAIN sets /\ Owned(sets[k]) /\ IsMetricSet(sets[k])
              /\ Has(sets, k, "usage") /\ sets[k].values["usage"] = sets[k].at - sets[k].born /\ ~Has(sets, k, "request")
<1> SUFFICES ASSUME NEW k \in DOMAIN sets
             PROVE  /\ k \in ContainerKeys \cup PodKeys \cup NodeKeys
                    /\ k[1] = "pod" => Blank(sets[k]) /\ sets[k].node \in Nodes /\ NodeKey(sets[k].node) \in DOMAIN sets
                    /\ k[1] = "node" => Blank(sets[k])
                    /\ k[1] = "container" =>
                         /\ Containing(k) \in DOMAIN sets /\ Owned(sets[k]) /\ IsMetricSet(sets[k])
                         /\ Has(sets, k, "usage") /\ sets[k].values["usage"] = sets[k].at - sets[k].born /\ ~Has(sets, k, "request")
  OBVIOUS
<1>1. IsMetricSet(sets[k])
  BY DEF Measured
<1>2. Owned(sets[k]) /\ sets[k].node \in Nodes
  BY <1>1 DEF IsMetricSet, Owned
<1>3. CASE k \in NodeKeys
  <2>1. k[1] = "node"
    BY <1>3, KeysDiffer
  <2>2. DOMAIN sets[k].values = {}
    BY <1>3, <2>1, KeysDiffer DEF Measured, PodKeys, ContainerKeys
  <2> QED BY <1>2, <1>3, <2>1, <2>2 DEF Blank
<1>4. CASE k \in PodKeys
  <2>1. k[1] = "pod"
    BY <1>4, KeysDiffer
  <2>2. DOMAIN sets[k].values = {} /\ NodeKey(sets[k].node) \in DOMAIN sets
    BY <1>4, <2>1, KeysDiffer DEF Measured, NodeKeys, ContainerKeys
  <2> QED BY <1>2, <1>4, <2>1, <2>2 DEF Blank
<1>5. CASE k \in ContainerKeys
  <2>1. k[1] = "container"
    BY <1>5, KeysDiffer
  <2>2. /\ Containing(k) \in DOMAIN sets
        /\ Has(sets, k, "usage") /\ sets[k].values["usage"] = sets[k].at - sets[k].born /\ ~Has(sets, k, "request")
    BY <1>5, <2>1, KeysDiffer DEF Measured, NodeKeys, PodKeys
  <2> QED BY <1>1, <1>2, <1>5, <2>1, <2>2
<1>6. k \in NodeKeys \/ k \in PodKeys \/ k \in ContainerKeys
  BY DEF Measured, NodeKeys, PodKeys, ContainerKeys
<1> QED BY <1>3, <1>4, <1>5, <1>6

(* The pod based enricher makes such a batch of a measured one, with       *)
(* whichever pods its lister knows, and leaves the rates true.             *)
LEMMA EnricherEnriches ==
  ASSUME NEW sets, Measured(sets), RatesAreTrue(sets), NEW known \in SUBSET Pods
  PROVE  Enriched(PodBasedEnricher(sets, known)) /\ RatesAreTrue(PodBasedEnricher(sets, known))
<1> DEFINE of == {c \in Containers : PodOf[c] \in known /\ PodKey(PodOf[c]) \in DOMAIN sets}
           keys == {ContainerKey(c) : c \in of}
           own(k) == IF k \in DOMAIN sets THEN sets[k] ELSE Stub(sets[PodKey(PodOf[k[2]])].node, <<>>)
           all == PodBasedEnricher(sets, known)
<1>1. /\ DOMAIN all = DOMAIN sets \cup keys
      /\ \A k \in DOMAIN sets \ keys : all[k] = sets[k]
      /\ \A k \in keys : all[k] = [own(k) EXCEPT !.values = Over(@, Single("request", 1))]
  BY DEF PodBasedEnricher
<1>2. \A k \in keys : k \in ContainerKeys /\ k[1] = "container" /\ Containing(k) \in DOMAIN sets /\ Containing(k)[1] = "pod"
                        /\ Containing(k) = PodKey(PodOf[k[2]])
  <2> SUFFICES ASSUME NEW c \in of
               PROVE  LET k == ContainerKey(c)
                      IN  /\ k \in ContainerKeys /\ k[1] = "container" /\ Containing(k) \in DOMAIN sets
                          /\ Containing(k)[1] = "pod" /\ Containing(k) = PodKey(PodOf[k[2]])
    OBVIOUS
  <2>1. ContainerKey(c)[1] = "container" /\ ContainerKey(c)[2] = c /\ ContainerKey(c) \in ContainerKeys
    BY DEF ContainerKey, ContainerKeys
  <2>2. PodKey(PodOf[c])[1] = "pod" /\ PodKey(PodOf[c]) \in DOMAIN sets
    BY DEF PodKey
  <2> QED BY <2>1, <2>2 DEF Containing
<1>3. \A k \in DOMAIN sets : k[1] # "container" => k \notin keys /\ all[k] = sets[k]
  BY <1>1, <1>2
<1>4. ASSUME NEW k \in keys
      PROVE  /\ Value(all[k], "request") = 1 /\ Value(all[k], "rate") \in {0, 1}
             /\ Has(all, k, "rate") => all[k].values["rate"] = 1
  <2>1. CASE k \in DOMAIN sets
    <3>1. own(k) = sets[k] /\ Owned(sets[k]) /\ ~Has(sets, k, "request") /\ (Has(sets, k, "rate") => sets[k].values["rate"] = 1)
      BY <2>1, <1>2, MeasuredKeys DEF RatesAreTrue, OfType
    <3> DEFINE old == own(k).values
    <3>2. all[k].values = Over(old, Single("request", 1))
      <4>1. Owned(own(k))
        BY <3>1
      <4> HIDE DEF own, keys, all
      <4>2. all[k] = [own(k) EXCEPT !.values = Over(old, Single("request", 1))]
        BY <1>1
      <4> QED BY <4>1, <4>2 DEF Owned
    <3>3. "request" \notin DOMAIN old /\ ("rate" \in DOMAIN old => old["rate"] = 1)
      BY <3>1 DEF Has
    <3> HIDE DEF old
    <3> QED BY <3>2, <3>3 DEF Over, Single, Value, Has
  <2>2. CASE k \notin DOMAIN sets
    <3>1. own(k) = Stub(sets[Containing(k)].node, <<>>) /\ sets[Containing(k)].node \in Nodes
      BY <1>2, <2>2, MeasuredKeys
    <3>2. Blank(own(k))
      BY <3>1, StubIsBlank
    <3> DEFINE old == own(k).values
    <3>3. all[k].values = Over(old, Single("request", 1)) /\ DOMAIN old = {}
      BY <1>1, <3>2 DEF Blank, Owned
    <3> HIDE DEF old
    <3> QED BY <3>3 DEF Over, Single, Value, Has
  <2> QED BY <2>1, <2>2
<1>5. ASSUME NEW k \in DOMAIN sets, k \notin keys, k[1] = "container"
      PROVE  \A m \in Gauges : Value(all[k], m) \in Int
  BY <1>1, <1>5, MeasuredKeys DEF Owned, Value
<1>6. Enriched(all)
  <2>1. \A k \in DOMAIN all : k \in ContainerKeys \cup PodKeys \cup NodeKeys
    BY <1>1, <1>2, MeasuredKeys
  <2>2. ASSUME NEW k \in DOMAIN all, k[1] = "container"
        PROVE  Containing(k) \in DOMAIN all /\ \A m \in Gauges : Value(all[k], m) \in Int
    <3> HIDE DEF keys, all
    <3> QED BY <1>1, <1>2, <1>4, <1>5, <2>2, MeasuredKeys DEF Gauges
  <2>3. ASSUME NEW k \in DOMAIN all, k[1] \in {"pod", "node"}
        PROVE  k \in DOMAIN sets /\ all[k] = sets[k]
    <3> HIDE DEF keys, all
    <3> QED BY <1>1, <1>2, <1>3, <2>3
  <2> HIDE DEF keys, all
  <2>4. \A k \in DOMAIN all : k[1] = "pod" => Blank(all[k]) /\ NodeKey(all[k].node) \in DOMAIN all
    BY <1>1, <2>3, MeasuredKeys
  <2>5. \A k \in DOMAIN all : k[1] = "node" => Blank(all[k])
    BY <2>3, MeasuredKeys
  <2> QED BY <2>1, <2>2, <2>4, <2>5 DEF Enriched, OfType
<1>7. RatesAreTrue(all)
  <2> HIDE DEF keys, all
  <2> SUFFICES ASSUME NEW k \in DOMAIN all, k[1] = "container", Has(all, k, "rate")
               PROVE  all[k].values["rate"] = 1
    BY DEF RatesAreTrue, OfType
  <2>1. CASE k \in keys
    BY <1>4, <2>1
  <2>2. CASE k \notin keys
    BY <1>1, <2>2 DEF RatesAreTrue, OfType, Has
  <2> QED BY <2>1, <2>2
<1> QED BY <1>6, <1>7

(* The same metric sets sum up to the same.                                *)
LEMMA SumSame ==
  ASSUME NEW f, NEW g, NEW X, NEW m, \A x \in X : f[x] = g[x]
  PROVE  Sum(f, X, m) = Sum(g, X, m)
<1>1. [x \in X |-> Value(f[x], m)] = [x \in X |-> Value(g[x], m)]
  OBVIOUS
<1> QED BY <1>1, Zenon DEF Sum

(* PodAggregator: the pods have what their containers have.                *)
LEMMA PodsAddUp ==
  ASSUME NEW sets, Enriched(sets)
  PROVE  LET containers == OfType(sets, "container")
             pods == OfType(sets, "pod")
             all == PodAggregator(sets)
         IN  /\ DOMAIN all = DOMAIN sets
             /\ \A k \in DOMAIN sets \ pods : all[k] = sets[k]
             /\ \A p \in pods : all[p].node = sets[p].node
             /\ \A m \in Gauges : /\ \A p \in pods : Value(all[p], m) \in Int
                                  /\ Sum(all, pods, m) = Sum(sets, containers, m)
<1> DEFINE containers == OfType(sets, "container")
           pods == OfType(sets, "pod")
           sources == [p \in pods |-> {c \in containers : Containing(c) = p}]
           part == [c \in containers |-> Containing(c)]
<1>1. PodAggregator(sets) = WithAll(sets, sources, Gauges)
  BY Zenon DEF PodAggregator, Gauges
<1>2. \A c \in containers : Containing(c) \in pods
  BY DEF Enriched, OfType, Containing, PodKey
<1>3. IsFiniteSet(pods) /\ IsFiniteSet(containers)
  <2>1. pods \subseteq PodKeys /\ containers \subseteq ContainerKeys
    BY KeysDiffer DEF Enriched, OfType
  <2> QED BY <2>1, KeysAreFinite, FS_Subset
<1>4. Parts(sources, pods, containers, part)
  <2> HIDE DEF pods, containers
  <2>1. \A p \in pods : {c \in containers : Containing(c) = p} = {c \in containers : part[c] = p}
    OBVIOUS
  <2>2. sources = [p \in pods |-> {c \in containers : part[c] = p}]
    BY <2>1
  <2>3. part \in [containers -> pods]
    BY <1>2
  <2> QED BY <1>3, <2>2, <2>3 DEF Parts
<1>5. \A p \in pods : Blank(sets[p]) /\ Owned(sets[p])
  BY DEF Enriched, Blank
<1>6. DOMAIN sources = pods /\ pods \subseteq DOMAIN sets
  BY DEF OfType
<1>7. \A m \in Gauges, c \in containers : Value(sets[c], m) \in Int
  BY DEF Enriched
<1> HIDE DEF sources, part, pods, containers
<1>8. \A m \in Gauges : /\ \A p \in pods : Value(WithAll(sets, sources, Gauges)[p], m) \in Int
                        /\ Sum(WithAll(sets, sources, Gauges), pods, m) = Sum(sets, containers, m)
  BY <1>4, <1>5, <1>7, AllAreCounted
<1>9. /\ DOMAIN WithAll(sets, sources, Gauges) = DOMAIN sets
      /\ \A k \in DOMAIN sets \ pods : WithAll(sets, sources, Gauges)[k] = sets[k]
      /\ \A k \in pods : WithAll(sets, sources, Gauges)[k].node = sets[k].node
  <2>1. Kept(WithAll(sets, sources, Gauges), sets, sources)
    BY WithAllKeeps
  <2> QED BY <1>5, <1>6, <2>1 DEF Kept
<1> QED BY <1>1, <1>8, <1>9 DEF pods, containers

(* What the aggregator of pods leaves, of the batch it began with.         *)
AfterPods(sets, first) ==
  /\ Enriched(first) /\ DOMAIN sets = DOMAIN first
  /\ \A k \in DOMAIN first : k[1] # "pod" => sets[k] = first[k]
  /\ \A p \in OfType(first, "pod") : sets[p].node = first[p].node
  /\ \A m \in Gauges : /\ \A p \in OfType(first, "pod") : Value(sets[p], m) \in Int
                       /\ Sum(sets, OfType(first, "pod"), m) = Sum(first, OfType(first, "container"), m)

(* The namespaces of the pods of a batch.                                  *)
Spaces(first) == {NamespaceOfPod(p) : p \in OfType(first, "pod")}

(* None of them was in the batch, and the keys are finitely many.          *)
LEMMA SpacesAreNew ==
  ASSUME NEW first, Enriched(first)
  PROVE  /\ IsFiniteSet(Spaces(first)) /\ \A k \in Spaces(first) : k[1] = "namespace"
         /\ \A k \in DOMAIN first : k[1] \in {"container", "pod", "node"}
         /\ IsFiniteSet(OfType(first, "pod")) /\ IsFiniteSet(OfType(first, "node"))
<1>1. \A k \in DOMAIN first : k[1] \in {"container", "pod", "node"}
  BY KeysDiffer DEF Enriched
<1>2. OfType(first, "pod") \subseteq PodKeys /\ OfType(first, "node") \subseteq NodeKeys
  BY KeysDiffer DEF Enriched, OfType
<1>3. Spaces(first) \subseteq NamespaceKeys
  <2> SUFFICES ASSUME NEW p \in Pods PROVE NamespaceOfPod(PodKey(p)) \in NamespaceKeys
    BY <1>2 DEF Spaces, PodKeys
  <2> QED BY DEF NamespaceOfPod, PodKey, NamespaceKeys
<1>4. \A k \in Spaces(first) : k[1] = "namespace"
  BY <1>3, KeysDiffer
<1> QED BY <1>1, <1>2, <1>3, <1>4, KeysAreFinite, FS_Subset

(* NamespaceAggregator: the namespaces have what the containers have.      *)
LEMMA NamespacesAddUp ==
  ASSUME NEW sets, NEW first, AfterPods(sets, first)
  PROVE  LET all == NamespaceAggregator(sets)
         IN  /\ DOMAIN all = DOMAIN first \cup Spaces(first)
             /\ \A k \in DOMAIN first : all[k] = sets[k]
             /\ \A m \in Gauges : /\ \A k \in Spaces(first) : Value(all[k], m) \in Int
                                  /\ Sum(all, Spaces(first), m) = Sum(first, OfType(first, "container"), m)
<1> DEFINE pods == OfType(first, "pod")
           keys == Spaces(first)
           sources == [k \in keys |-> {p \in pods : NamespaceOfPod(p) = k}]
           part == [p \in pods |-> NamespaceOfPod(p)]
<1>1. NamespaceAggregator(sets) = WithAll(sets, sources, Gauges)
  <2>1. OfType(sets, "pod") = pods
    BY DEF AfterPods, OfType
  <2> QED BY <2>1, Zenon DEF NamespaceAggregator, Gauges, Spaces
<1>2. IsFiniteSet(pods) /\ IsFiniteSet(keys) /\ keys \cap DOMAIN sets = {}
  BY SpacesAreNew DEF AfterPods
<1>3. part \in [pods -> keys]
  BY DEF Spaces
<1> HIDE DEF keys, pods
<1>4. Parts(sources, keys, pods, part)
  <2>1. \A k \in keys : {p \in pods : NamespaceOfPod(p) = k} = {p \in pods : part[p] = k}
    OBVIOUS
  <2>2. sources = [k \in keys |-> {p \in pods : part[p] = k}]
    BY <2>1
  <2> QED BY <1>2, <1>3, <2>2 DEF Parts
<1>5. \A m \in Gauges : /\ \A p \in pods : Value(sets[p], m) \in Int
                        /\ Sum(sets, pods, m) = Sum(first, OfType(first, "container"), m)
  BY DEF AfterPods, pods
<1>6. DOMAIN sources = keys
  OBVIOUS
<1> HIDE DEF sources, part
<1>7. \A m \in Gauges : /\ \A k \in keys : Value(WithAll(sets, sources, Gauges)[k], m) \in Int
                        /\ Sum(WithAll(sets, sources, Gauges), keys, m) = Sum(sets, pods, m)
  BY <1>2, <1>4, <1>5, AllAreCounted
<1>8. /\ DOMAIN WithAll(sets, sources, Gauges) = DOMAIN first \cup keys
      /\ \A k \in DOMAIN first : WithAll(sets, sources, Gauges)[k] = sets[k]
  <2>1. Kept(WithAll(sets, sources, Gauges), sets, sources)
    BY WithAllKeeps
  <2> QED BY <1>2, <1>6, <2>1 DEF AfterPods, Kept
<1> QED BY <1>1, <1>5, <1>7, <1>8 DEF keys

(* NodeAggregator: the nodes have the requests of the pods.                *)
LEMMA NodesAddUp ==
  ASSUME NEW sets, NEW first, Enriched(first),
         DOMAIN sets = DOMAIN first \cup Spaces(first),
         \A k \in DOMAIN first : k[1] = "node" => sets[k] = first[k],
         \A p \in OfType(first, "pod") : sets[p].node = first[p].node /\ Value(sets[p], "request") \in Int
  PROVE  LET all == NodeAggregator(sets)
         IN  /\ DOMAIN all = DOMAIN sets
             /\ \A k \in DOMAIN sets : k[1] # "node" => all[k] = sets[k]
             /\ Sum(all, OfType(first, "node"), "request") = Sum(sets, OfType(first, "pod"), "request")
<1> DEFINE pods == OfType(first, "pod")
           nodes == OfType(first, "node")
           sources == [n \in nodes |-> {p \in pods : NodeKey(sets[p].node) = n}]
           part == [p \in pods |-> NodeKey(sets[p].node)]
<1>1. NodeAggregator(sets) = WithAll(sets, sources, {"request"})
  <2>1. OfType(sets, "pod") = pods /\ OfType(sets, "node") = nodes
    BY SpacesAreNew DEF OfType
  <2> QED BY <2>1, Zenon DEF NodeAggregator
<1>2. IsFiniteSet(pods) /\ IsFiniteSet(nodes)
  BY SpacesAreNew
<1>3. part \in [pods -> nodes]
  <2>1. \A p \in pods : NodeKey(sets[p].node) \in nodes
    BY DEF Enriched, OfType, NodeKey
  <2> QED BY <2>1
<1>4. \A n \in nodes : Blank(sets[n])
  BY DEF Enriched, OfType
<1>5. \A n \in nodes : n[1] = "node" /\ n \in DOMAIN sets
  BY DEF OfType
<1> HIDE DEF nodes
<1>6. Parts(sources, nodes, pods, part)
  <2>1. \A n \in nodes : {p \in pods : NodeKey(sets[p].node) = n} = {p \in pods : part[p] = n}
    OBVIOUS
  <2>2. sources = [n \in nodes |-> {p \in pods : part[p] = n}]
    BY <2>1
  <2> QED BY <1>2, <1>3, <2>2 DEF Parts
<1>7. DOMAIN sources = nodes /\ \A p \in pods : Value(sets[p], "request") \in Int
  OBVIOUS
<1> HIDE DEF sources, part, pods
<1>8. Sum(WithAll(sets, sources, {"request"}), nodes, "request") = Sum(sets, pods, "request")
  BY <1>4, <1>6, <1>7, AllAreCounted
<1>9. /\ DOMAIN WithAll(sets, sources, {"request"}) = DOMAIN sets
      /\ \A k \in DOMAIN sets : k[1] # "node" => WithAll(sets, sources, {"request"})[k] = sets[k]
  <2>1. Kept(WithAll(sets, sources, {"request"}), sets, sources)
    BY WithAllKeeps
  <2> QED BY <1>5, <1>7, <2>1 DEF Kept
<1> QED BY <1>1, <1>8, <1>9 DEF nodes, pods

(* ClusterAggregator: the cluster has what the namespaces have.            *)
LEMMA ClusterAddsUp ==
  ASSUME NEW sets, NEW K, IsFiniteSet(K), OfType(sets, "namespace") = K, ClusterKey \notin DOMAIN sets,
         \A m \in Gauges : \A k \in K : Value(sets[k], m) \in Int
  PROVE  LET all == ClusterAggregator(sets)
         IN  /\ DOMAIN all = DOMAIN sets \cup {ClusterKey}
             /\ \A k \in DOMAIN sets : all[k] = sets[k]
             /\ \A m \in Gauges : Sum(all, {ClusterKey}, m) = Sum(sets, K, m)
<1> DEFINE one == {ClusterKey}
           sources == Single(ClusterKey, K)
           part == [k \in K |-> ClusterKey]
<1>1. ClusterAggregator(sets) = WithAll(sets, sources, Gauges)
  BY Zenon DEF ClusterAggregator, Gauges
<1>2. Parts(sources, one, K, part)
  <2>1. IsFiniteSet(one)
    BY FS_Singleton
  <2>2. sources = [k \in one |-> {x \in K : part[x] = k}]
    <3>1. \A k \in one : {x \in K : part[x] = k} = K
      OBVIOUS
    <3> QED BY <3>1 DEF Single
  <2> QED BY <2>1, <2>2 DEF Parts
<1>3. DOMAIN sources = one /\ one \cap DOMAIN sets = {}
  BY DEF Single
<1> HIDE DEF sources, part
<1>4. \A m \in Gauges : Sum(WithAll(sets, sources, Gauges), one, m) = Sum(sets, K, m)
  BY <1>2, <1>3, AllAreCounted
<1>5. /\ DOMAIN WithAll(sets, sources, Gauges) = DOMAIN sets \cup one
      /\ \A k \in DOMAIN sets : WithAll(sets, sources, Gauges)[k] = sets[k]
  <2>1. Kept(WithAll(sets, sources, Gauges), sets, sources)
    BY WithAllKeeps
  <2> QED BY <1>3, <2>1 DEF Kept
<1> QED BY <1>1, <1>4, <1>5

(* The processors after the rate calculator make a batch that adds up of   *)
(* any measured one, and do not touch its rates.                           *)
LEMMA ProcessIsSound ==
  ASSUME NEW sets, Measured(sets), RatesAreTrue(sets), NEW known \in SUBSET Pods
  PROVE  LET all == ClusterAggregator(NodeAggregator(NamespaceAggregator(PodAggregator(PodBasedEnricher(sets, known)))))
         IN  RatesAreTrue(all) /\ TotalsAddUp(all)
<1> DEFINE first == PodBasedEnricher(sets, known)
           pods == PodAggregator(first)
           namespaces == NamespaceAggregator(pods)
           nodes == NodeAggregator(namespaces)
           all == ClusterAggregator(nodes)
           C == OfType(first, "container")
           N == OfType(first, "node")
           S == Spaces(first)
<1>1. Enriched(first) /\ RatesAreTrue(first)
  BY EnricherEnriches
<1> HIDE DEF first
<1>2. AfterPods(pods, first)
  BY <1>1, PodsAddUp DEF AfterPods, OfType
<1> HIDE DEF pods
<1>3. /\ DOMAIN namespaces = DOMAIN first \cup S
      /\ \A k \in DOMAIN first : namespaces[k] = pods[k]
      /\ \A m \in Gauges : /\ \A k \in S : Value(namespaces[k], m) \in Int
                           /\ Sum(namespaces, S, m) = Sum(first, C, m)
  BY <1>2, NamespacesAddUp
<1> HIDE DEF namespaces
<1>4. \A p \in OfType(first, "pod") : /\ namespaces[p].node = first[p].node
                                      /\ namespaces[p] = pods[p]
                                      /\ Value(namespaces[p], "request") \in Int
  BY <1>2, <1>3 DEF AfterPods, OfType, Gauges
<1>5. Sum(namespaces, OfType(first, "pod"), "request") = Sum(first, C, "request")
  BY <1>2, <1>4, SumSame DEF AfterPods, Gauges
<1>6. \A k \in DOMAIN first : k[1] # "pod" => namespaces[k] = first[k]
  BY <1>2, <1>3 DEF AfterPods
<1>7. /\ DOMAIN nodes = DOMAIN first \cup S
      /\ \A k \in DOMAIN first \cup S : k[1] # "node" => nodes[k] = namespaces[k]
      /\ Sum(nodes, N, "request") = Sum(first, C, "request")
  <2>1. \A k \in DOMAIN first : k[1] = "node" => namespaces[k] = first[k]
    BY <1>6
  <2> QED BY <1>1, <1>3, <1>4, <1>5, <2>1, NodesAddUp
<1> HIDE DEF nodes
<1>8. /\ IsFiniteSet(S) /\ \A k \in S : k[1] = "namespace"
      /\ \A k \in DOMAIN first : k[1] \in {"container", "pod", "node"}
  BY <1>1, SpacesAreNew
<1>9. OfType(nodes, "namespace") = S /\ ClusterKey \notin DOMAIN nodes
  BY <1>7, <1>8, KeysDiffer DEF OfType
<1>10. \A m \in Gauges : \A k \in S : nodes[k] = namespaces[k] /\ Value(nodes[k], m) \in Int
  BY <1>3, <1>7, <1>8
<1>11. \A m \in Gauges : Sum(nodes, S, m) = Sum(first, C, m)
  BY <1>3, <1>10, SumSame
<1>12. /\ DOMAIN all = DOMAIN nodes \cup {ClusterKey}
       /\ \A k \in DOMAIN nodes : all[k] = nodes[k]
       /\ \A m \in Gauges : Sum(all, {ClusterKey}, m) = Sum(nodes, S, m)
  BY <1>8, <1>9, <1>10, ClusterAddsUp
<1> HIDE DEF all
<1>13. OfType(all, "container") = C /\ OfType(all, "node") = N
  BY <1>7, <1>8, <1>12, KeysDiffer DEF OfType
<1>14. \A k \in C : all[k] = first[k]
  BY <1>6, <1>7, <1>12 DEF OfType
<1>15. RatesAreTrue(all)
  BY <1>1, <1>13, <1>14 DEF RatesAreTrue, Has
<1>16. \A k \in N : all[k] = nodes[k]
  BY <1>7, <1>12 DEF OfType
<1>17. Sum(all, C, "rate") = Sum(first, C, "rate") /\ Sum(all, C, "request") = Sum(first, C, "request")
  BY <1>14, SumSame
<1>18. Sum(all, N, "request") = Sum(nodes, N, "request")
  BY <1>16, SumSame
<1>19. TotalsAddUp(all)
  BY <1>7, <1>11, <1>12, <1>13, <1>17, <1>18 DEF TotalsAddUp, Gauges
<1> QED BY <1>15, <1>19 DEF all, nodes, namespaces, pods, first

-----------------------------------------------------------------------------

(* The invariant, as predicates of the values that the steps change: of a  *)
(* run at the time t,                                                      *)
RunFits(r, t) ==
  /\ DOMAIN r = {"phase", "ts", "pending", "sets", "keys", "pushes"}
  /\ r.phase \in Phases /\ r.ts \in 1 .. t /\ r.pending \subseteq Nodes /\ r.pushes \subseteq Sinks
  /\ r.keys \subseteq OfType(r.sets, "container")
  /\ r.phase = "push" <=> r.pushes # {}
  /\ r.keys # {} => r.phase = "rate"
  /\ RatesAreTrue(r.sets)
  /\ IF r.phase = "push" THEN TotalsAddUp(r.sets) ELSE Measured(r.sets)

Begun(rs) == {i \in DOMAIN rs : rs[i] # None}

(* of all runs, when this period's is due or not,                          *)
AllFit(rs, t, d) ==
  /\ \A i \in Begun(rs) : RunFits(rs[i], t)
  /\ \A i, j \in Begun(rs) : rs[i].ts = rs[j].ts => i = j
  /\ d => 0 < t /\ \A i \in Begun(rs) : rs[i].ts < t

(* of the metric sink,                                                     *)
StoreFits(kept, last, t, d) ==
  /\ \A b \in kept : RatesAreTrue(b.sets) /\ TotalsAddUp(b.sets)
  /\ \A b \in kept : b.ts \in 1 .. t /\ (d => b.ts < t)
  /\ \A b, e \in kept : b.ts = e.ts => b = e
  /\ last \in kept \cup {None}

(* of the runs and what is stored of them,                                 *)
Apart(rs, kept) ==
  \A i \in Begun(rs), b \in kept : b.ts = rs[i].ts => rs[i].phase = "push" /\ "metric" \notin rs[i].pushes

(* of the rate calculator,                                                 *)
CountersFit(rs, previous) ==
  previous # None \/ (\E i \in Begun(rs) : rs[i].keys # {}) => TrueCounters(previous)

(* and of the kubelets, which heard of nothing later than t.               *)
Reported(heard, t) ==
  /\ DOMAIN heard = Nodes
  /\ \A n \in Nodes : heard[n] \in [DOMAIN heard[n] -> [born : 0 .. t, at : 0 .. t]] /\ DOMAIN heard[n] \subseteq Containers

Bounds(t, d, c) == t \in 0 .. MaxTime /\ c \in 0 .. MaxChanges /\ d \in BOOLEAN

(* The invariant is all of them.                                           *)
Split ==
  /\ Bounds(now, due, changes) /\ life \in [Containers -> [node : Nodes, born : 0 .. now]]
  /\ Reported(reports, now) /\ Slots \subseteq 1 .. MaxParallelism /\ busy \subseteq Sinks \ {"metric"}
  /\ AllFit(runs, now, due) /\ StoreFits(shortStore, latest, now, due)
  /\ Apart(runs, shortStore) /\ CountersFit(runs, previousBatch)

(* They say what the invariant says.                                       *)
LEMMA SplitJoins == Split => IInv
<1> SUFFICES ASSUME Split PROVE IInv
  OBVIOUS
<1> USE DEF Split
<1>1. Begun(runs) = Active
  BY DEF Begun, Active, Slots
<1>2. TypeOK
  BY <1>1 DEF TypeOK, AllFit, RunFits, IsRun, StoreFits, Reported, Bounds
<1>3. RunsFit
  BY <1>1 DEF RunsFit, AllFit, StoreFits, Apart
<1>4. BatchesFit
  BY <1>1 DEF BatchesFit, AllFit, RunFits, StoreFits, CountersFit
<1> QED BY <1>2, <1>3, <1>4 DEF IInv

(* The invariant holds initially: no run, no batch, no measurement.        *)
LEMMA InitSplits == Init => Split
<1> SUFFICES ASSUME Init PROVE Split
  OBVIOUS
<1> USE DEF Init
<1>1. PICK k \in 1 .. MaxParallelism : Started(1 .. k)
  OBVIOUS
<1>2. Begun(runs) = {} /\ Slots \subseteq 1 .. MaxParallelism
  BY <1>1, NumberAssumption DEF Begun, Started, Slots
<1>3. Reported(reports, now)
  BY DEF Reported
<1>4. Bounds(now, due, changes) /\ life \in [Containers -> [node : Nodes, born : 0 .. now]]
  <2>1. now \in 0 .. MaxTime /\ changes \in 0 .. MaxChanges
    BY NumberAssumption
  <2>2. due \in BOOLEAN
    BY <1>1 DEF Started
  <2>3. life \in [Containers -> [node : Nodes, born : 0 .. now]]
    BY HomeAssumption
  <2> QED BY <2>1, <2>2, <2>3 DEF Bounds
<1> QED BY <1>1, <1>2, <1>3, <1>4 DEF Split, AllFit, StoreFits, Apart, CountersFit, Started

(* One run that stays of its period, or ends, leaves the runs different.   *)
LEMMA OneRunFits ==
  ASSUME NEW rs, NEW t, NEW d, NEW i \in Begun(rs), NEW r, AllFit(rs, t, d),
         r # None => RunFits(r, t) /\ r.ts = rs[i].ts
  PROVE  AllFit([rs EXCEPT ![i] = r], t, d)
<1> DEFINE new == [rs EXCEPT ![i] = r]
<1>1. /\ Begun(new) \subseteq Begun(rs) /\ \A j \in Begun(new) : j # i => new[j] = rs[j]
      /\ i \in Begun(new) => r # None /\ new[i] = r
  BY DEF Begun
<1> HIDE DEF new
<1>2. \A j \in Begun(new) : RunFits(new[j], t) /\ new[j].ts = rs[j].ts
  BY <1>1 DEF AllFit
<1>3. AllFit(new, t, d)
  BY <1>1, <1>2 DEF AllFit
<1> QED BY <1>3 DEF new

(* One that goes on to push, or pushes, leaves what is stored apart from   *)
(* the runs: a run has stored its batch only when it no longer has to push *)
(* it to the metric sink.                                                  *)
LEMMA OneRunIsApart ==
  ASSUME NEW rs, NEW kept, NEW i \in Begun(rs), NEW r, Apart(rs, kept),
         r # None => r.ts = rs[i].ts /\ (rs[i].phase = "push" => r.phase = "push" /\ r.pushes \subseteq rs[i].pushes)
  PROVE  Apart([rs EXCEPT ![i] = r], kept)
<1> DEFINE new == [rs EXCEPT ![i] = r]
<1>1. /\ Begun(new) \subseteq Begun(rs) /\ \A j \in Begun(new) : j # i => new[j] = rs[j]
      /\ i \in Begun(new) => r # None /\ new[i] = r
  BY DEF Begun
<1> HIDE DEF new
<1>2. Apart(new, kept)
  BY <1>1 DEF Apart
<1> QED BY <1>2 DEF new

(* One that reads previousBatch only when there is one leaves its counters *)
(* true.                                                                   *)
LEMMA OneRunCounts ==
  ASSUME NEW rs, NEW previous, NEW i \in Begun(rs), NEW r, CountersFit(rs, previous),
         r # None /\ r.keys # {} => TrueCounters(previous)
  PROVE  CountersFit([rs EXCEPT ![i] = r], previous)
<1> DEFINE new == [rs EXCEPT ![i] = r]
<1>1. /\ Begun(new) \subseteq Begun(rs) /\ \A j \in Begun(new) : j # i => new[j] = rs[j]
      /\ i \in Begun(new) => r # None /\ new[i] = r
  BY DEF Begun
<1> HIDE DEF new
<1>2. CountersFit(new, previous)
  BY <1>1 DEF CountersFit
<1> QED BY <1>2 DEF new

-----------------------------------------------------------------------------

(* The source manager merges an answer into what other kubelets have       *)
(* answered: a measured batch over a measured one is measured, although    *)
(* the sets of a pod may come from one kubelet and its containers from     *)
(* another.                                                                *)
LEMMA OverIsMeasured ==
  ASSUME NEW f, NEW g, Measured(f), Measured(g), RatesAreTrue(f), RatesAreTrue(g)
  PROVE  Measured(Over(f, g)) /\ RatesAreTrue(Over(f, g))
<1> DEFINE all == Over(f, g)
<1>1. /\ DOMAIN all = DOMAIN f \cup DOMAIN g
      /\ \A k \in DOMAIN all : \/ k \in DOMAIN f /\ all[k] = f[k]
                               \/ k \in DOMAIN g /\ all[k] = g[k]
  BY DEF Over
<1> HIDE DEF all
<1>2. Measured(all)
  BY <1>1 DEF Measured, Has
<1>3. RatesAreTrue(all)
  BY <1>1 DEF RatesAreTrue, OfType, Has
<1> QED BY <1>2, <1>3 DEF all

(* What a kubelet answers is measured.                                     *)
LEMMA SummaryIsMeasured ==
  ASSUME NEW n \in Nodes, NEW t \in Nat, Reported(reports, t)
  PROVE  Measured(Summary(n)) /\ RatesAreTrue(Summary(n))
<1> DEFINE reported == DOMAIN reports[n]
           keys == {NodeKey(n)} \cup {PodKey(PodOf[c]) : c \in reported} \cup {ContainerKey(c) : c \in reported}
           all == Summary(n)
<1>1. /\ DOMAIN all = keys
      /\ \A k \in keys : k[1] = "container" =>
           all[k] = MetricSet(reports[n][k[2]].born, reports[n][k[2]].at, n, Single("usage", reports[n][k[2]].at - reports[n][k[2]].born))
      /\ \A k \in keys : k[1] # "container" => all[k] = Stub(n, <<>>)
  BY DEF Summary
<1>2. reported \subseteq Containers /\ \A c \in reported : reports[n][c].born \in Int /\ reports[n][c].at \in Int
  BY DEF Reported
<1>3. Blank(Stub(n, <<>>)) /\ Stub(n, <<>>).node = n /\ IsMetricSet(Stub(n, <<>>))
  <2>1. Blank(Stub(n, <<>>)) /\ Stub(n, <<>>).node = n
    BY StubIsBlank
  <2> QED BY <2>1 DEF Blank, Owned, IsMetricSet
<1> HIDE DEF all
<1>4. ASSUME NEW k \in keys
      PROVE  /\ IsMetricSet(all[k])
             /\ \/ k \in {NodeKey(m) : m \in Nodes} /\ DOMAIN all[k].values = {}
                \/ k \in {PodKey(p) : p \in Pods} /\ DOMAIN all[k].values = {} /\ NodeKey(all[k].node) \in DOMAIN all
                \/ /\ k \in {ContainerKey(c) : c \in Containers} /\ Containing(k) \in DOMAIN all
                   /\ Has(all, k, "usage") /\ all[k].values["usage"] = all[k].at - all[k].born /\ ~Has(all, k, "request")
             /\ ~Has(all, k, "rate")
  <2>1. CASE k = NodeKey(n)
    <3>1. all[k] = Stub(n, <<>>)
      BY <1>1, <2>1 DEF NodeKey
    <3> QED BY <1>3, <2>1, <3>1 DEF Blank, Has
  <2>2. CASE k \in {PodKey(PodOf[c]) : c \in reported}
    <3>1. k[1] = "pod" /\ k \in {PodKey(p) : p \in Pods}
      BY <1>2, <2>2 DEF PodKey, Pods
    <3>2. all[k] = Stub(n, <<>>)
      BY <1>1, <3>1
    <3>3. NodeKey(all[k].node) \in DOMAIN all
      BY <1>1, <1>3, <3>2
    <3>4. IsMetricSet(all[k]) /\ DOMAIN all[k].values = {}
      BY <1>3, <3>2 DEF Blank
    <3> QED BY <3>1, <3>3, <3>4 DEF Has
  <2>3. CASE k \in {ContainerKey(c) : c \in reported}
    <3>1. PICK c \in reported : k = ContainerKey(c)
      BY <2>3
    <3>2. k[1] = "container" /\ k[2] = c /\ c \in Containers
      BY <1>2, <3>1 DEF ContainerKey
    <3> DEFINE b == reports[n][c].born
               a == reports[n][c].at
    <3>3. all[k] = MetricSet(b, a, n, Single("usage", a - b))
      BY <1>1, <3>2
    <3>4. b \in Int /\ a \in Int
      BY <1>2
    <3>5. Containing(k) \in DOMAIN all
      BY <1>1, <3>2 DEF Containing
    <3> HIDE DEF a, b, reported, keys
    <3>6. Single("usage", a - b) \in [{"usage"} -> Int] /\ Single("usage", a - b)["usage"] = a - b
      BY <3>4 DEF Single
    <3>7. IsMetricSet(all[k]) /\ DOMAIN all[k].values = {"usage"} /\ all[k].values["usage"] = all[k].at - all[k].born
      BY <3>3, <3>4, <3>6 DEF IsMetricSet, MetricSet
    <3> QED BY <3>1, <3>2, <3>5, <3>7 DEF Has
  <2> QED BY <2>1, <2>2, <2>3
<1> HIDE DEF keys, reported
<1>5. Measured(all)
  BY <1>1, <1>4 DEF Measured
<1>6. RatesAreTrue(all)
  BY <1>1, <1>4 DEF RatesAreTrue, OfType
<1> QED BY <1>5, <1>6 DEF all

(* A number divided by itself is one.                                      *)
LEMMA Whole == \A x \in Int : x > 0 => x \div x = 1
OBVIOUS

(* The rate calculator divides what a container has used between two       *)
(* measurements of one life by the time between them; both are the same,   *)
(* whatever has been put into previousBatch meanwhile.                     *)
LEMMA RateIsTrue ==
  ASSUME NEW sets, Measured(sets), RatesAreTrue(sets), NEW k \in OfType(sets, "container"),
         NEW batch, TrueCounters(batch)
  PROVE  LET all == WithRate(sets, k, batch.sets)
         IN  DOMAIN all = DOMAIN sets /\ Measured(all) /\ RatesAreTrue(all)
<1> DEFINE old == batch.sets
           all == WithRate(sets, k, old)
<1>1. CASE ~(k \in DOMAIN old /\ Usable(sets[k], old[k]))
  BY <1>1 DEF WithRate
<1>2. CASE k \in DOMAIN old /\ Usable(sets[k], old[k])
  <2>1. k \in DOMAIN sets /\ k[1] = "container"
    BY DEF OfType
  <2>2. /\ IsMetricSet(sets[k]) /\ Has(sets, k, "usage") /\ ~Has(sets, k, "request")
        /\ sets[k].values["usage"] = sets[k].at - sets[k].born /\ Containing(k) \in DOMAIN sets
        /\ k \in ContainerKeys
    BY <2>1, MeasuredKeys, KeysDiffer
  <2> DEFINE values == Over(sets[k].values, Single("rate", Slope(sets[k], old[k])))
  <2>3. all = [sets EXCEPT ![k].values = values]
    BY <1>2 DEF WithRate
  <2>4. Slope(sets[k], old[k]) = 1
    <3>1. old[k].usage = old[k].at - old[k].born /\ old[k].born \in Int /\ old[k].at \in Int
      BY <1>2 DEF TrueCounters
    <3>2. sets[k].born \in Int /\ sets[k].at \in Int
      BY <2>2 DEF IsMetricSet
    <3>3. sets[k].at > old[k].at /\ sets[k].born = old[k].born
      BY <1>2 DEF Usable
    <3>4. sets[k].values["usage"] - old[k].usage = sets[k].at - old[k].at
      BY <2>2, <3>1, <3>2, <3>3
    <3>5. sets[k].at - old[k].at \in Int /\ sets[k].at - old[k].at > 0
      BY <3>1, <3>2, <3>3
    <3> DEFINE x == sets[k].at - old[k].at
    <3>6. x \div x = 1
      <4> HIDE DEF x
      <4> QED BY <3>5, Whole DEF x
    <3> QED BY <3>4, <3>6 DEF Slope
  <2>5. /\ DOMAIN values = DOMAIN sets[k].values \cup {"rate"}
        /\ \A m \in DOMAIN sets[k].values : values[m] = sets[k].values[m]
        /\ ~Has(sets, k, "rate") => values["rate"] = 1
    BY <2>4 DEF Over, Single, Has
  <2> HIDE DEF values
  <2>6. Has(sets, k, "rate") => sets[k].values["rate"] = 1
    BY DEF RatesAreTrue
  <2>7. values \in [DOMAIN values -> Int] /\ values["rate"] = 1
    <3>1. values["rate"] = 1
      BY <2>5, <2>6 DEF Has
    <3>2. values = [m \in DOMAIN values |-> values[m]]
      BY Zenon DEF values, Over
    <3>3. \A m \in DOMAIN values : values[m] \in Int
      BY <2>2, <2>5, <3>1 DEF IsMetricSet
    <3> QED BY <3>1, <3>2, <3>3
  <2>8. /\ DOMAIN all = DOMAIN sets /\ \A j \in DOMAIN sets : j # k => all[j] = sets[j]
        /\ all[k] = [sets[k] EXCEPT !.values = values]
    BY <2>1, <2>3
  <2> HIDE DEF all
  <2>9. /\ IsMetricSet(all[k]) /\ all[k].values = values /\ all[k].at = sets[k].at /\ all[k].born = sets[k].born
    BY <2>2, <2>7, <2>8 DEF IsMetricSet
  <2>10. Has(all, k, "usage") /\ all[k].values["usage"] = all[k].at - all[k].born /\ ~Has(all, k, "request")
    BY <2>2, <2>5, <2>9 DEF Has
  <2>11. Measured(all)
    <3> SUFFICES ASSUME NEW j \in DOMAIN sets
                 PROVE  /\ IsMetricSet(all[j])
                        /\ \/ j \in {NodeKey(m) : m \in Nodes} /\ DOMAIN all[j].values = {}
                           \/ j \in {PodKey(p) : p \in Pods} /\ DOMAIN all[j].values = {} /\ NodeKey(all[j].node) \in DOMAIN all
                           \/ /\ j \in {ContainerKey(c) : c \in Containers} /\ Containing(j) \in DOMAIN all
                              /\ Has(all, j, "usage") /\ all[j].values["usage"] = all[j].at - all[j].born /\ ~Has(all, j, "request")
      BY <2>8 DEF Measured
    <3>1. CASE j = k
      BY <2>2, <2>8, <2>9, <2>10, <3>1 DEF ContainerKeys
    <3>2. CASE j # k
      BY <2>8, <3>2 DEF Measured, Has
    <3> QED BY <3>1, <3>2
  <2>12. RatesAreTrue(all)
    BY <2>7, <2>8, <2>9 DEF RatesAreTrue, OfType, Has
  <2> QED BY <2>8, <2>11, <2>12 DEF all
<1> QED BY <1>1, <1>2

(* The rate calculator keeps true counters of a measured batch.            *)
LEMMA CountersAreTrue ==
  ASSUME NEW r, Measured(r.sets)
  PROVE  TrueCounters(Counters(r))
<1> DEFINE sets == r.sets
           all == Counters(r).sets
<1>1. /\ DOMAIN all = OfType(sets, "container")
      /\ \A k \in DOMAIN all : all[k] = [born |-> sets[k].born, at |-> sets[k].at, usage |-> sets[k].values["usage"]]
  BY DEF Counters
<1>2. \A k \in OfType(sets, "container") : /\ sets[k].born \in Int /\ sets[k].at \in Int
                                           /\ sets[k].values["usage"] = sets[k].at - sets[k].born
  BY MeasuredKeys DEF OfType, IsMetricSet
<1> HIDE DEF all
<1>3. \A k \in DOMAIN all : all[k].born \in Int /\ all[k].at \in Int /\ all[k].usage = all[k].at - all[k].born
  BY <1>1, <1>2
<1> QED BY <1>3 DEF all, TrueCounters

-----------------------------------------------------------------------------

(* A run stays of its period and fits, and does not stop pushing.          *)
Goes(old, r) ==
  r # None => /\ RunFits(r, now) /\ r.ts = old.ts
              /\ old.phase = "push" => r.phase = "push" /\ r.pushes \subseteq old.pushes

(* A step of one run keeps the invariant.                                  *)
LEMMA OneRunGoes ==
  ASSUME Split, NEW i \in Begun(runs), NEW r, Goes(runs[i], r), runs' = [runs EXCEPT ![i] = r],
         UNCHANGED <<now, cluster, due, changes, store>>, busy' \subseteq Sinks \ {"metric"},
         \/ previousBatch' = previousBatch /\ (r # None /\ r.keys # {} => TrueCounters(previousBatch))
         \/ TrueCounters(previousBatch')
  PROVE  Split'
<1>1. AllFit(runs', now', due')
  <2>1. AllFit(runs', now, due)
    BY OneRunFits DEF Split, Goes
  <2> QED BY <2>1
<1>2. Apart(runs', shortStore')
  <2>1. Apart(runs', shortStore)
    BY OneRunIsApart DEF Split, Goes
  <2> QED BY <2>1 DEF store
<1>3. CountersFit(runs', previousBatch')
  <2>1. CASE previousBatch' = previousBatch /\ (r # None /\ r.keys # {} => TrueCounters(previousBatch))
    BY <2>1, OneRunCounts DEF Split
  <2>2. CASE TrueCounters(previousBatch')
    BY <2>2 DEF CountersFit
  <2> QED BY <2>1, <2>2
<1>4. Slots' = Slots
  BY DEF Slots
<1> QED BY <1>1, <1>2, <1>3, <1>4 DEF Split, store, cluster

(* What is known of a run in a phase.                                      *)
LEMMA InIsBegun ==
  ASSUME Split, NEW i \in Slots, NEW phase, In(i, phase)
  PROVE  /\ i \in Begun(runs) /\ runs[i] # None /\ runs[i].phase = phase /\ RunFits(runs[i], now)
         /\ phase # "rate" => runs[i].keys = {}
         /\ runs[i].keys # {} => TrueCounters(previousBatch)
<1>1. i \in Begun(runs) /\ runs[i] # None /\ runs[i].phase = phase
  BY DEF In, Begun, Slots
<1>2. RunFits(runs[i], now)
  BY <1>1 DEF Split, AllFit
<1> QED BY <1>1, <1>2 DEF Split, RunFits, CountersFit

(* A step that changes only the run keeps the invariant.                   *)
LEMMA OnlyKeeps ==
  ASSUME Split, NEW i \in Begun(runs), NEW r, Goes(runs[i], r), Only(i, r),
         \/ UNCHANGED previousBatch /\ (r.keys # {} => TrueCounters(previousBatch))
         \/ TrueCounters(previousBatch')
  PROVE  Split'
<1>1. busy' \subseteq Sinks \ {"metric"}
  BY DEF Split, Only, export
<1>2. UNCHANGED <<now, cluster, due, changes, store>> /\ runs' = [runs EXCEPT ![i] = r]
  BY DEF Only, export
<1>3. \/ previousBatch' = previousBatch /\ (r # None /\ r.keys # {} => TrueCounters(previousBatch))
      \/ TrueCounters(previousBatch')
  OBVIOUS
<1> QED BY <1>1, <1>2, <1>3, OneRunGoes

(* The answer of a kubelet keeps the invariant, in any order.              *)
LEMMA AnswerKeeps ==
  ASSUME Split, NEW i \in Slots, Answer(i)
  PROVE  Split'
<1>1. In(i, "scrape") /\ UNCHANGED previousBatch
  BY DEF Answer
<1>2. PICK n \in runs[i].pending :
        Only(i, [runs[i] EXCEPT !.sets = Over(Summary(n), @), !.pending = @ \ {n},
                                !.phase = IF runs[i].pending = {n} THEN "check" ELSE @])
  BY DEF Answer
<1> DEFINE old == runs[i]
           r == [old EXCEPT !.sets = Over(Summary(n), @), !.pending = @ \ {n},
                            !.phase = IF old.pending = {n} THEN "check" ELSE @]
<1>3. i \in Begun(runs) /\ RunFits(old, now) /\ old.keys = {} /\ old.phase = "scrape"
  BY <1>1, InIsBegun
<1>4. Measured(Over(Summary(n), old.sets)) /\ RatesAreTrue(Over(Summary(n), old.sets))
  <2>1. n \in Nodes /\ Reported(reports, now) /\ now \in Nat
    BY <1>3 DEF Split, RunFits, Bounds
  <2>2. Measured(Summary(n)) /\ RatesAreTrue(Summary(n))
    BY <2>1, SummaryIsMeasured
  <2>3. Measured(old.sets) /\ RatesAreTrue(old.sets)
    BY <1>3 DEF RunFits
  <2> QED BY <2>2, <2>3, OverIsMeasured
<1> DEFINE new == Over(Summary(n), old.sets)
           next == IF old.pending = {n} THEN "check" ELSE "scrape"
<1>5. r = [old EXCEPT !.sets = new, !.pending = old.pending \ {n}, !.phase = next]
  BY <1>3 DEF RunFits
<1> HIDE DEF old, new
<1>6. r.keys = {} /\ RunFits(r, now) /\ r.ts = old.ts
  <2>1. /\ r.phase = next /\ r.ts = old.ts /\ r.pending = old.pending \ {n} /\ r.sets = new
        /\ r.keys = {} /\ r.pushes = old.pushes
        /\ DOMAIN r = DOMAIN old
    BY <1>3, <1>5 DEF RunFits
  <2>2. next \in {"scrape", "check"}
    OBVIOUS
  <2> HIDE DEF r, next
  <2> QED BY <1>3, <1>4, <2>1, <2>2 DEF RunFits, Phases, new
<1>7. Goes(old, r)
  BY <1>3, <1>6 DEF Goes
<1>8. Only(i, r)
  BY <1>2 DEF old
<1> HIDE DEF r
<1> QED BY <1>1, <1>3, <1>6, <1>7, <1>8, OnlyKeeps DEF old

(* So does the deadline, with the answers that have come.                  *)
LEMMA DeadlineKeeps ==
  ASSUME Split, NEW i \in Slots, Deadline(i)
  PROVE  Split'
<1> DEFINE old == runs[i]
           r == [old EXCEPT !.pending = {}, !.phase = "check"]
<1>1. In(i, "scrape") /\ UNCHANGED previousBatch /\ Only(i, r)
  BY DEF Deadline
<1>2. i \in Begun(runs) /\ RunFits(old, now) /\ old.keys = {} /\ old.phase = "scrape"
  BY <1>1, InIsBegun
<1> HIDE DEF old
<1>3. r.keys = {} /\ Goes(old, r)
  BY <1>2 DEF RunFits, Phases, Goes
<1> HIDE DEF r
<1> QED BY <1>1, <1>2, <1>3, OnlyKeeps DEF old

(* The check of previousBatch: a run reads its metric sets only when there *)
(* is one.                                                                 *)
LEMMA CheckKeeps ==
  ASSUME Split, NEW i \in Slots, Check(i)
  PROVE  Split'
<1> DEFINE old == runs[i]
           found == OfType(old.sets, "container")
           r(phase, keys) == [old EXCEPT !.phase = phase, !.keys = keys]
<1>1. In(i, "check") /\ UNCHANGED previousBatch
  BY DEF Check
<1>2. i \in Begun(runs) /\ RunFits(old, now) /\ old.keys = {} /\ old.phase = "check"
  BY <1>1, InIsBegun
<1>3. PICK phase \in {"rate", "process"}, keys \in {{}, found} :
        Only(i, r(phase, keys)) /\ (keys # {} => phase = "rate" /\ previousBatch # None)
  <2>1. \A phase \in {"rate", "process"} : [old EXCEPT !.phase = phase] = r(phase, {})
    BY <1>2 DEF RunFits
  <2>2. \/ Only(i, [old EXCEPT !.phase = "rate"]) \/ Only(i, [old EXCEPT !.phase = "process"])
        \/ previousBatch # None /\ Only(i, r("rate", found))
    BY DEF Check
  <2> HIDE DEF old, found
  <2> QED BY <2>1, <2>2
<1>4. keys # {} => TrueCounters(previousBatch)
  BY <1>3 DEF Split, CountersFit
<1> DEFINE new == r(phase, keys)
<1> HIDE DEF old
<1>5. Goes(old, new) /\ new.keys = keys
  <2>1. /\ new.phase = phase /\ new.ts = old.ts /\ new.pending = old.pending /\ new.sets = old.sets
        /\ new.keys = keys /\ new.pushes = old.pushes
        /\ DOMAIN new = DOMAIN old
    BY <1>2 DEF RunFits
  <2>2. keys \subseteq OfType(old.sets, "container") /\ (keys # {} => phase = "rate")
    BY <1>3
  <2> HIDE DEF new, found
  <2> QED BY <1>2, <2>1, <2>2 DEF RunFits, Phases, Goes
<1> HIDE DEF new
<1>6. Only(i, new)
  BY <1>3 DEF new
<1> QED BY <1>1, <1>2, <1>4, <1>5, <1>6, OnlyKeeps DEF old

(* One metric set of the rate calculator, after which other runs may have  *)
(* replaced previousBatch.                                                 *)
LEMMA RateKeeps ==
  ASSUME Split, NEW i \in Slots, Rate(i)
  PROVE  Split'
<1> DEFINE old == runs[i]
<1>1. In(i, "rate") /\ UNCHANGED previousBatch
  BY DEF Rate
<1>2. PICK k \in old.keys : Only(i, [old EXCEPT !.keys = @ \ {k}, !.sets = WithRate(@, k, previousBatch.sets)])
  BY DEF Rate
<1>3. i \in Begun(runs) /\ RunFits(old, now) /\ old.phase = "rate" /\ TrueCounters(previousBatch)
  BY <1>1, <1>2, InIsBegun
<1> HIDE DEF old
<1> DEFINE sets == WithRate(old.sets, k, previousBatch.sets)
           r == [old EXCEPT !.keys = old.keys \ {k}, !.sets = sets]
<1>4. DOMAIN sets = DOMAIN old.sets /\ Measured(sets) /\ RatesAreTrue(sets)
  <2>1. k \in OfType(old.sets, "container") /\ Measured(old.sets) /\ RatesAreTrue(old.sets)
    BY <1>3 DEF RunFits
  <2> QED BY <1>3, <2>1, RateIsTrue
<1> HIDE DEF sets
<1>5. Only(i, r)
  BY <1>2 DEF sets
<1>6. Goes(old, r)
  <2>1. /\ r.phase = "rate" /\ r.ts = old.ts /\ r.pending = old.pending /\ r.sets = sets
        /\ r.keys = old.keys \ {k} /\ r.pushes = old.pushes
        /\ DOMAIN r = DOMAIN old
    BY <1>3 DEF RunFits
  <2>2. OfType(sets, "container") = OfType(old.sets, "container")
    BY <1>4 DEF OfType
  <2> HIDE DEF r
  <2> QED BY <1>3, <1>4, <2>1, <2>2 DEF RunFits, Phases, Goes
<1> HIDE DEF r
<1> QED BY <1>1, <1>3, <1>5, <1>6, OnlyKeeps DEF old

(* The batch becomes the previous one.                                     *)
LEMMA SetPreviousKeeps ==
  ASSUME Split, NEW i \in Slots, SetPrevious(i)
  PROVE  Split'
<1> DEFINE old == runs[i]
           r == [old EXCEPT !.phase = "process"]
<1>1. In(i, "rate") /\ old.keys = {} /\ previousBatch' = Counters(old) /\ Only(i, r)
  BY DEF SetPrevious
<1>2. i \in Begun(runs) /\ RunFits(old, now) /\ old.phase = "rate"
  BY <1>1, InIsBegun
<1> HIDE DEF old
<1>3. TrueCounters(previousBatch')
  BY <1>1, <1>2, CountersAreTrue DEF RunFits
<1>4. Goes(old, r)
  BY <1>1, <1>2 DEF RunFits, Phases, Goes
<1> HIDE DEF r
<1> QED BY <1>1, <1>2, <1>3, <1>4, OnlyKeeps DEF old

(* The other processors.                                                   *)
LEMMA ProcessKeeps ==
  ASSUME Split, NEW i \in Slots, Process(i)
  PROVE  Split'
<1> DEFINE old == runs[i]
           sets(known) == ClusterAggregator(NodeAggregator(NamespaceAggregator(PodAggregator(PodBasedEnricher(old.sets, known)))))
<1>1. In(i, "process") /\ UNCHANGED <<now, cluster, due, previousBatch, export, newest, changes>>
  BY DEF Process
<1>2. i \in Begun(runs) /\ RunFits(old, now) /\ old.phase = "process" /\ old.keys = {}
  BY <1>1, InIsBegun
<1>3. PICK known \in SUBSET Pods : runs' = [runs EXCEPT ![i] = [@ EXCEPT !.phase = "push", !.sets = sets(known), !.pushes = Sinks]]
  BY Zenon DEF Process
<1> DEFINE new == sets(known)
           r == [old EXCEPT !.phase = "push", !.sets = new, !.pushes = Sinks]
<1>4. RatesAreTrue(new) /\ TotalsAddUp(new)
  BY <1>2, ProcessIsSound DEF RunFits
<1>5. runs' = [runs EXCEPT ![i] = r]
  BY <1>3
<1> HIDE DEF new, old
<1>6. Goes(old, r) /\ r.keys = {}
  <2>1. /\ r.phase = "push" /\ r.ts = old.ts /\ r.pending = old.pending /\ r.sets = new
        /\ r.keys = {} /\ r.pushes = Sinks
        /\ DOMAIN r = DOMAIN old
    BY <1>2 DEF RunFits
  <2> HIDE DEF r
  <2> QED BY <1>2, <1>4, <2>1, SinkAssumption DEF RunFits, Phases, Goes
<1> HIDE DEF r
<1>7. busy' \subseteq Sinks \ {"metric"} /\ UNCHANGED <<now, cluster, due, changes, store>>
  BY <1>1 DEF Split, export
<1> QED BY <1>1, <1>2, <1>5, <1>6, <1>7, OneRunGoes DEF old

-----------------------------------------------------------------------------

(* A push leaves the run with the other sinks, or ends it.                 *)
LEMMA PushedGoes ==
  ASSUME Split, NEW i \in Slots, In(i, "push"), NEW s \in runs[i].pushes
  PROVE  /\ i \in Begun(runs) /\ RunFits(runs[i], now) /\ runs[i].keys = {} /\ runs[i].phase = "push"
         /\ Goes(runs[i], Left(runs[i], s))
         /\ Left(runs[i], s) # None => Left(runs[i], s).keys = {} /\ s \notin Left(runs[i], s).pushes
<1> DEFINE old == runs[i]
           r == [old EXCEPT !.pushes = @ \ {s}]
<1>1. i \in Begun(runs) /\ RunFits(old, now) /\ old.keys = {} /\ old.phase = "push"
  BY InIsBegun
<1> HIDE DEF old
<1>2. /\ r.phase = "push" /\ r.ts = old.ts /\ r.pending = old.pending /\ r.sets = old.sets
      /\ r.keys = {} /\ r.pushes = old.pushes \ {s} /\ DOMAIN r = DOMAIN old
  BY <1>1 DEF RunFits
<1>3. CASE old.pushes = {s}
  BY <1>1, <1>3 DEF Left, Goes, old
<1>4. CASE old.pushes # {s}
  <2>1. r.pushes # {} /\ Left(old, s) = r
    BY <1>2, <1>4 DEF Left, old
  <2> HIDE DEF r
  <2>2. Goes(old, r)
    BY <1>1, <1>2, <2>1 DEF RunFits, Goes
  <2> QED BY <1>1, <1>2, <2>1, <2>2 DEF old
<1> QED BY <1>3, <1>4

(* The metric sink stores the batch of a run that had not been stored, and *)
(* is the last of it.                                                      *)
LEMMA ExportDataKeeps ==
  ASSUME Split, NEW i \in Slots, ExportData(i)
  PROVE  Split'
<1> DEFINE old == runs[i]
           r == Left(old, "metric")
           b == [ts |-> old.ts, sets |-> old.sets]
<1>1. /\ In(i, "push") /\ UNCHANGED <<now, cluster, due, previousBatch, busy, changes>> /\ "metric" \in old.pushes
      /\ runs' = [runs EXCEPT ![i] = r] /\ latest' = b /\ shortStore' = PopOld(shortStore) \cup {b}
  BY DEF ExportData, Pushed
<1>2. /\ i \in Begun(runs) /\ RunFits(old, now) /\ old.phase = "push" /\ Goes(old, r)
      /\ r # None => r.keys = {} /\ "metric" \notin r.pushes
  BY <1>1, PushedGoes
<1>3. r # None => RunFits(r, now) /\ r.ts = old.ts /\ r.phase = "push"
  BY <1>2 DEF Goes
<1>4. b.ts = old.ts /\ b.sets = old.sets /\ TotalsAddUp(old.sets) /\ RatesAreTrue(old.sets) /\ old.ts \in 1 .. now
  BY <1>2 DEF RunFits
<1> HIDE DEF r, b
<1>5. AllFit(runs', now', due')
  <2>1. AllFit(runs', now, due)
    BY <1>1, <1>2, <1>3, OneRunFits DEF Split
  <2> QED BY <1>1, <2>1
<1>6. \A e \in shortStore : e.ts # old.ts
  BY <1>1, <1>2 DEF Split, Apart
<1>7. StoreFits(shortStore', latest', now', due')
  <2>1. PopOld(shortStore) \subseteq shortStore
    BY DEF PopOld
  <2>2. due => b.ts < now
    BY <1>2, <1>4 DEF Split, AllFit
  <2>3. StoreFits(shortStore, latest, now, due)
    BY DEF Split
  <2> HIDE DEF old
  <2> QED BY <1>1, <1>4, <1>6, <2>1, <2>2, <2>3 DEF StoreFits
<1>8. Apart(runs', shortStore')
  <2>1. Apart(runs', shortStore)
    BY <1>1, <1>2, OneRunIsApart DEF Split, Goes
  <2>2. \A j \in Begun(runs') : j # i => j \in Begun(runs) /\ runs'[j] = runs[j]
    BY <1>1, <1>2 DEF Begun
  <2>3. i \in Begun(runs') => r # None /\ runs'[i] = r
    BY <1>1, <1>2 DEF Begun
  <2>4. \A j \in Begun(runs) : j # i => runs[j].ts # old.ts
    BY <1>2 DEF Split, AllFit
  <2>5. shortStore' \subseteq shortStore \cup {b}
    BY <1>1 DEF PopOld
  <2> HIDE DEF old
  <2> QED BY <1>2, <1>3, <1>4, <2>1, <2>2, <2>3, <2>4, <2>5 DEF Apart
<1>9. CountersFit(runs', previousBatch')
  BY <1>1, <1>2, OneRunCounts DEF Split
<1>10. Slots' = Slots
  BY <1>1 DEF Slots
<1> QED BY <1>1, <1>5, <1>7, <1>8, <1>9, <1>10 DEF Split, cluster

(* A sink that is ready takes the batch.                                   *)
LEMMA PushKeeps ==
  ASSUME Split, NEW i \in Slots, Push(i)
  PROVE  Split'
<1>1. PICK s \in runs[i].pushes \ (busy \cup {"metric"}) : busy' = busy \cup {s} /\ Pushed(i, s)
  BY DEF Push
<1>2. In(i, "push") /\ UNCHANGED <<now, cluster, due, previousBatch, store, changes>>
  BY DEF Push
<1> DEFINE r == Left(runs[i], s)
<1>3. /\ i \in Begun(runs) /\ RunFits(runs[i], now) /\ Goes(runs[i], r)
      /\ r # None => r.keys = {}
  BY <1>1, <1>2, PushedGoes
<1>4. runs' = [runs EXCEPT ![i] = r]
  BY <1>1 DEF Pushed
<1>5. busy' \subseteq Sinks \ {"metric"}
  BY <1>1, <1>3 DEF Split, RunFits
<1> HIDE DEF r
<1> QED BY <1>2, <1>3, <1>4, <1>5, OneRunGoes

(* A sink that hangs does not get it.                                      *)
LEMMA PushTimesOutKeeps ==
  ASSUME Split, NEW i \in Slots, PushTimesOut(i)
  PROVE  Split'
<1>1. PICK s \in runs[i].pushes \cap busy : Pushed(i, s)
  BY DEF PushTimesOut
<1>2. In(i, "push") /\ UNCHANGED <<now, cluster, due, previousBatch, export, changes>>
  BY DEF PushTimesOut
<1> DEFINE r == Left(runs[i], s)
<1>3. /\ i \in Begun(runs) /\ Goes(runs[i], r)
      /\ r # None => r.keys = {}
  BY <1>1, <1>2, PushedGoes
<1>4. runs' = [runs EXCEPT ![i] = r]
  BY <1>1 DEF Pushed
<1>5. busy' \subseteq Sinks \ {"metric"} /\ UNCHANGED store
  BY <1>2 DEF Split, export
<1> HIDE DEF r
<1> QED BY <1>2, <1>3, <1>4, <1>5, OneRunGoes

(* A period begins, later than all runs and batches.                       *)
LEMMA TickKeeps ==
  ASSUME Split, Tick
  PROVE  Split'
<1>1. /\ ~due /\ now < MaxTime /\ now' = now + 1 /\ due' = TRUE /\ now \in Nat
      /\ UNCHANGED <<cluster, runs, previousBatch, export, changes>>
  BY DEF Tick, Split, Bounds
<1>2. Bounds(now', due', changes')
  BY <1>1, NumberAssumption DEF Split, Bounds
<1>3. life' \in [Containers -> [node : Nodes, born : 0 .. now']]
  BY <1>1 DEF Split, cluster
<1>4. Reported(reports', now')
  BY <1>1 DEF Split, Reported, cluster
<1>5. AllFit(runs', now', due')
  <2>1. \A i \in Begun(runs) : RunFits(runs[i], now + 1) /\ runs[i].ts < now + 1
    BY <1>1 DEF Split, AllFit, RunFits
  <2>2. AllFit(runs, now + 1, TRUE)
    BY <1>1, <2>1 DEF Split, AllFit
  <2> QED BY <1>1, <2>2
<1>6. StoreFits(shortStore', latest', now', due')
  <2>1. StoreFits(shortStore, latest, now + 1, TRUE)
    BY <1>1 DEF Split, StoreFits
  <2> QED BY <1>1, <2>1 DEF export, store
<1>7. Slots' = Slots
  BY <1>1 DEF Slots
<1> QED BY <1>1, <1>2, <1>3, <1>4, <1>5, <1>6, <1>7 DEF Split, export, store

(* A run begins with an empty batch.                                       *)
LEMMA NewRunFits ==
  ASSUME NEW t \in Nat, 0 < t, now = t
  PROVE  RunFits(NewRun, t) /\ NewRun.ts = t /\ NewRun.keys = {}
<1>1. Measured(<<>>) /\ RatesAreTrue(<<>>)
  BY DEF Measured, RatesAreTrue, OfType
<1> QED BY <1>1 DEF RunFits, NewRun, Phases

(* The run of this period begins: no other one and no batch is of it.      *)
LEMMA BeginKeeps ==
  ASSUME Split, Begin
  PROVE  Split'
<1>1. /\ due /\ due' = FALSE /\ UNCHANGED <<now, cluster, previousBatch, export, changes>>
  BY DEF Begin
<1>2. PICK i : runs' = [runs EXCEPT ![i] = NewRun]
  BY DEF Begin
<1>3. RunFits(NewRun, now) /\ NewRun.ts = now /\ NewRun.keys = {}
  BY <1>1, NewRunFits DEF Split, AllFit, Bounds
<1>4. /\ \A j \in Begun(runs') : j # i => j \in Begun(runs) /\ runs'[j] = runs[j]
      /\ i \in Begun(runs') => runs'[i] = NewRun
  BY <1>2 DEF Begun
<1>5. AllFit(runs', now', due')
  <2>1. \A j \in Begun(runs) : RunFits(runs[j], now) /\ runs[j].ts # now
    <3>1. \A j \in Begun(runs) : RunFits(runs[j], now) /\ runs[j].ts < now
      BY <1>1 DEF Split, AllFit
    <3>2. now \in Int /\ \A j \in Begun(runs) : runs[j].ts \in Int
      BY <3>1 DEF Split, Bounds, RunFits
    <3> QED BY <3>1, <3>2
  <2>2. \A j \in Begun(runs') : RunFits(runs'[j], now)
    BY <1>3, <1>4, <2>1
  <2>3. \A j, k \in Begun(runs') : runs'[j].ts = runs'[k].ts => j = k
    <3>1. \A j, k \in Begun(runs) : runs[j].ts = runs[k].ts => j = k
      BY DEF Split, AllFit
    <3> QED BY <1>3, <1>4, <2>1, <3>1
  <2>4. AllFit(runs', now, FALSE)
    BY <2>2, <2>3 DEF AllFit
  <2> QED BY <1>1, <2>4
<1>6. StoreFits(shortStore', latest', now', due')
  <2>1. StoreFits(shortStore, latest, now, FALSE)
    BY DEF Split, StoreFits
  <2> QED BY <1>1, <2>1 DEF export, store
<1>7. Apart(runs', shortStore')
  <2>1. \A b \in shortStore : b.ts # now
    BY <1>1 DEF Split, StoreFits
  <2>2. Apart(runs', shortStore)
    BY <1>3, <1>4, <2>1 DEF Split, Apart
  <2> QED BY <1>1, <2>2 DEF export, store
<1>8. CountersFit(runs', previousBatch')
  BY <1>1, <1>3, <1>4 DEF Split, CountersFit
<1>9. Slots' = Slots /\ due' \in BOOLEAN
  BY <1>1, <1>2 DEF Slots
<1> QED BY <1>1, <1>5, <1>6, <1>7, <1>8, <1>9 DEF Split, Bounds, export, store, cluster

(* A run that is given up leaves the others.                               *)
LEMMA GiveUpKeeps ==
  ASSUME Split, GiveUp
  PROVE  Split'
<1>1. due' = FALSE /\ UNCHANGED <<now, cluster, runs, previousBatch, export, changes>>
  BY DEF GiveUp
<1>2. AllFit(runs, now, FALSE) /\ StoreFits(shortStore, latest, now, FALSE)
  BY DEF Split, AllFit, StoreFits
<1>3. Slots' = Slots /\ due' \in BOOLEAN
  BY <1>1 DEF Slots
<1> QED BY <1>1, <1>2, <1>3 DEF Split, Bounds, export, store, cluster

(* The process ends, and all that it has is lost.                          *)
LEMMA MapRaceKeeps ==
  ASSUME Split, MapRace
  PROVE  Split'
<1>1. /\ changes < MaxChanges /\ changes' = changes + 1 /\ due' = FALSE /\ runs' = [i \in Slots |-> None]
      /\ previousBatch' = None /\ busy' = {} /\ shortStore' = {} /\ latest' = None
      /\ UNCHANGED <<now, cluster>>
  BY DEF MapRace
<1>2. Begun(runs') = {} /\ Slots' = Slots
  BY <1>1 DEF Begun, Slots
<1>3. Bounds(now', due', changes')
  <2>1. changes' \in 0 .. MaxChanges
    BY <1>1, NumberAssumption DEF Split, Bounds
  <2> QED BY <1>1, <2>1 DEF Split, Bounds
<1>4. AllFit(runs', now', due') /\ StoreFits(shortStore', latest', now', due')
  BY <1>1, <1>2 DEF AllFit, StoreFits
<1>5. Apart(runs', shortStore') /\ CountersFit(runs', previousBatch')
  BY <1>1, <1>2 DEF Apart, CountersFit
<1> QED BY <1>1, <1>2, <1>3, <1>4, <1>5 DEF Split, cluster

(* Another sink ends its export.                                           *)
LEMMA OtherExportKeeps ==
  ASSUME Split, OtherExport
  PROVE  Split'
<1>1. busy' \subseteq busy /\ UNCHANGED <<now, cluster, due, runs, previousBatch, store, changes>>
  BY DEF OtherExport
<1>2. Slots' = Slots
  BY <1>1 DEF Slots
<1> QED BY <1>1, <1>2 DEF Split, Bounds, store, cluster

(* What happens in the cluster changes nothing of metrics-server.          *)
LEMMA ClusterKeeps ==
  ASSUME Split, UNCHANGED <<now, due, runs, previousBatch, export>>, changes' \in 0 .. MaxChanges,
         life' \in [Containers -> [node : Nodes, born : 0 .. now]], Reported(reports', now)
  PROVE  Split'
<1>1. Slots' = Slots
  BY DEF Slots
<1> QED BY <1>1 DEF Split, Bounds, export, store

(* A kubelet measures the containers that it has.                          *)
LEMMA MeasureKeeps ==
  ASSUME Split, NEW n \in Nodes, Measure(n)
  PROVE  Split'
<1>1. /\ UNCHANGED <<now, life, due, runs, previousBatch, export, changes>>
      /\ reports' = [reports EXCEPT ![n] = [c \in {d \in Containers : life[d].node = n} |-> [born |-> life[c].born, at |-> now]]]
  BY DEF Measure
<1>2. now \in Nat /\ life \in [Containers -> [node : Nodes, born : 0 .. now]] /\ Reported(reports, now)
      /\ changes \in 0 .. MaxChanges
  BY DEF Split, Bounds
<1> DEFINE here == {d \in Containers : life[d].node = n}
           heard == [c \in here |-> [born |-> life[c].born, at |-> now]]
<1>3. heard \in [here -> [born : 0 .. now, at : 0 .. now]] /\ here \subseteq Containers
  BY <1>2
<1> HIDE DEF heard, here
<1>4. reports' = [reports EXCEPT ![n] = heard]
  BY <1>1 DEF heard, here
<1>5. DOMAIN heard = here
  BY <1>3
<1>6. Reported(reports', now)
  BY <1>2, <1>3, <1>4, <1>5 DEF Reported
<1>7. changes' \in 0 .. MaxChanges /\ life' \in [Containers -> [node : Nodes, born : 0 .. now]]
  BY <1>1, <1>2
<1> QED BY <1>1, <1>6, <1>7, ClusterKeeps

(* A container restarts.                                                   *)
LEMMA RestartContainerKeeps ==
  ASSUME Split, NEW c \in Containers, RestartContainer(c)
  PROVE  Split'
<1>1. /\ changes < MaxChanges /\ changes' = changes + 1 /\ life' = [life EXCEPT ![c].born = now]
      /\ UNCHANGED <<now, reports, due, runs, previousBatch, export>>
  BY DEF RestartContainer
<1>2. now \in Nat /\ life \in [Containers -> [node : Nodes, born : 0 .. now]] /\ Reported(reports, now)
      /\ changes \in 0 .. MaxChanges
  BY DEF Split, Bounds
<1>3. changes' \in 0 .. MaxChanges
  BY <1>1, <1>2, NumberAssumption
<1>4. life' \in [Containers -> [node : Nodes, born : 0 .. now]]
  BY <1>1, <1>2
<1> QED BY <1>1, <1>2, <1>3, <1>4, ClusterKeeps

(* A pod moves to another node.                                            *)
LEMMA MovePodKeeps ==
  ASSUME Split, NEW p \in Pods, MovePod(p)
  PROVE  Split'
<1>1. /\ changes < MaxChanges /\ changes' = changes + 1
      /\ UNCHANGED <<now, reports, due, runs, previousBatch, export>>
  BY DEF MovePod
<1>2. PICK n \in Nodes : life' = [c \in Containers |-> IF PodOf[c] = p THEN [node |-> n, born |-> now] ELSE life[c]]
  BY DEF MovePod
<1>3. now \in Nat /\ life \in [Containers -> [node : Nodes, born : 0 .. now]] /\ Reported(reports, now)
      /\ changes \in 0 .. MaxChanges
  BY DEF Split, Bounds
<1>4. changes' \in 0 .. MaxChanges
  BY <1>1, <1>3, NumberAssumption
<1>5. life' \in [Containers -> [node : Nodes, born : 0 .. now]]
  BY <1>2, <1>3
<1> QED BY <1>1, <1>3, <1>4, <1>5, ClusterKeeps

(* Every step keeps the invariant.                                         *)
LEMMA NextKeeps == Split /\ [Next]_vars => Split'
<1> SUFFICES ASSUME Split, [Next]_vars PROVE Split'
  OBVIOUS
<1>1. CASE Tick
  BY <1>1, TickKeeps
<1>2. CASE Begin
  BY <1>2, BeginKeeps
<1>3. CASE GiveUp
  BY <1>3, GiveUpKeeps
<1>4. CASE \E i \in Slots : Run(i)
  <2> SUFFICES ASSUME NEW i \in Slots, Run(i) PROVE Split'
    BY <1>4
  <2> QED BY DeadlineKeeps, AnswerKeeps, CheckKeeps, SetPreviousKeeps, RateKeeps, ExportDataKeeps, PushKeeps,
             PushTimesOutKeeps DEF Run
<1>5. CASE \E i \in Slots : Process(i)
  BY <1>5, ProcessKeeps
<1>6. CASE MapRace
  BY <1>6, MapRaceKeeps
<1>7. CASE OtherExport
  BY <1>7, OtherExportKeeps
<1>8. CASE \E n \in Nodes : Measure(n)
  BY <1>8, MeasureKeeps
<1>9. CASE \E c \in Containers : RestartContainer(c)
  BY <1>9, RestartContainerKeeps
<1>10. CASE \E p \in Pods : MovePod(p)
  BY <1>10, MovePodKeeps
<1>11. CASE UNCHANGED vars
  <2>1. UNCHANGED <<now, due, runs, previousBatch, export>> /\ UNCHANGED <<life, reports, changes>>
    BY <1>11 DEF vars, cluster
  <2>2. changes' \in 0 .. MaxChanges /\ life' \in [Containers -> [node : Nodes, born : 0 .. now]] /\ Reported(reports', now)
    BY <2>1 DEF Split, Bounds
  <2> QED BY <2>1, <2>2, ClusterKeeps
<1> QED BY <1>1, <1>2, <1>3, <1>4, <1>5, <1>6, <1>7, <1>8, <1>9, <1>10, <1>11 DEF Next, Work

(* The inductive invariant: a run and a batch have a period of their own,  *)
(* batches in the rate calculator are measured and those in the sink add   *)
(* up, and previousBatch has true counters whenever a run may read it.     *)
THEOREM InvCorrect == Spec => []IInv
<1>1. Split => IInv
  BY SplitJoins
<1> QED BY <1>1, InitSplits, NextKeeps, PTL DEF Spec

(* Every run is well typed, has sinks to push to exactly while it pushes,  *)
(* and shares its period with no other (housekeep begins one run in a      *)
(* period and waits for a token).                                          *)
THEOREM TypeCorrect == Spec => []TypeOK
<1>1. IInv => TypeOK
  BY DEF IInv
<1> QED BY <1>1, InvCorrect, PTL

(* A request reads the last batch of the store, and answers with the rates *)
(* that it has.                                                            *)
LEMMA AnswersFollow ==
  ASSUME IInv, NEW p \in Pods
  PROVE  AnswersAreTrue(p)
<1> DEFINE sets == latest.sets
           keys == {ContainerKey(c) : c \in {d \in Containers : PodOf[d] = p}}
           rates == [k \in keys |-> sets[k].values["rate"]]
<1> SUFFICES ASSUME GetPodMetrics(p) # None
             PROVE  \A rate \in Range(GetPodMetrics(p)) : rate = 1
  BY DEF AnswersAreTrue
<1>1. /\ GetPodMetrics(p) = rates /\ latest # None
      /\ \A k \in keys : k \in DOMAIN sets /\ Has(sets, k, "rate")
  BY DEF GetPodMetrics, GetLatestDataBatch
<1>2. RatesAreTrue(sets)
  BY <1>1 DEF IInv, TypeOK, BatchesFit
<1>3. \A k \in keys : sets[k].values["rate"] = 1
  BY <1>1, <1>2 DEF RatesAreTrue, OfType, ContainerKey
<1>4. \A rate \in Range(rates) : rate = 1
  <2>1. \A k \in keys : rates[k] = 1
    BY <1>3
  <2>2. DOMAIN rates = keys
    OBVIOUS
  <2> HIDE DEF rates, keys
  <2> QED BY <2>1, <2>2 DEF Range
<1> QED BY <1>1, <1>4

(* Whatever runs overlap and whichever kubelets answer in time, every      *)
(* batch in the metric sink has true rates and counts every container once *)
(* in its pod, namespace and cluster and its request once in its node, no  *)
(* period has two batches, and requests get true rates.                    *)
THEOREM BatchesCorrect == Spec => []BatchesAreSound
<1>1. IInv => BatchesAreSound
  <2> SUFFICES ASSUME IInv PROVE BatchesAreSound
    OBVIOUS
  <2>1. \A p \in Pods : AnswersAreTrue(p)
    BY AnswersFollow
  <2> QED BY <2>1 DEF BatchesAreSound, IInv, RunsFit, BatchesFit
<1> QED BY <1>1, InvCorrect, PTL
=============================================================================
