--------------------------- MODULE StartupProofs ---------------------------
(***************************************************************************)
(* Theorems about the dependency sorts and about Start, for every set of   *)
(* plugins and sources and every graph of dependencies between them.       *)
(*                                                                         *)
(* Each sort is proved on its own, for LoadSpec and ResolveSpec.  Spec     *)
(* implies both, and what Start promises follows from what they keep.      *)
(***************************************************************************)
EXTENDS Startup, FiniteSetTheorems, SequenceTheorems, TLAPS

(***************************************************************************)
(* Sequences without repetition.                                           *)
(***************************************************************************)
Elems(q) == {q[i] : i \in 1..Len(q)}

Distinct(q) == \A i, j \in 1..Len(q) : q[i] = q[j] => i = j

\* Every element of q comes after all it needs.
Follows(q, need) == \A i \in 1..Len(q) : need[q[i]] \subseteq {q[k] : k \in 1..(i - 1)}

\* Append adds its element behind the others and, if it is new, once; an order
\* grows by an element whose needs are in it.
LEMMA AppendElems ==
  ASSUME NEW S, NEW q \in Seq(S), NEW x \in S
  PROVE  /\ Elems(Append(q, x)) = Elems(q) \cup {x}
         /\ Distinct(q) /\ x \notin Elems(q) => Distinct(Append(q, x))
         /\ \A need : Follows(q, need) /\ need[x] \subseteq Elems(q)
                          => Follows(Append(q, x), need)
<1> DEFINE r == Append(q, x)
<1>1. /\ Len(q) \in Nat
      /\ Len(r) = Len(q) + 1
      /\ \A i \in 1..Len(q) : r[i] = q[i]
      /\ r[Len(q) + 1] = x
  BY AppendProperties, LenProperties
<1> HIDE DEF r
<1>2. Elems(r) = Elems(q) \cup {x}
  <2>1. ASSUME NEW y \in Elems(r) PROVE y \in Elems(q) \cup {x}
    BY <1>1, <2>1 DEF Elems
  <2>2. ASSUME NEW y \in Elems(q) PROVE y \in Elems(r)
    BY <1>1, <2>2 DEF Elems
  <2>3. x \in Elems(r)
    BY <1>1 DEF Elems
  <2> QED BY <2>1, <2>2, <2>3
<1>3. ASSUME Distinct(q), x \notin Elems(q) PROVE Distinct(r)
  BY <1>1, <1>3 DEF Distinct, Elems
<1>4. ASSUME NEW need, Follows(q, need), need[x] \subseteq Elems(q)
      PROVE  Follows(r, need)
  <2> SUFFICES ASSUME NEW i \in 1..Len(r), NEW y \in need[r[i]]
               PROVE  \E k \in 1..(i - 1) : y = r[k]
    BY DEF Follows
  <2>1. CASE i \in 1..Len(q)
    <3>1. PICK k \in 1..(i - 1) : y = q[k]
      BY <1>1, <1>4, <2>1 DEF Follows
    <3>2. k \in 1..Len(q)
      BY <1>1, <2>1, <3>1
    <3> QED BY <1>1, <3>1, <3>2
  <2>2. CASE i = Len(q) + 1
    <3>1. PICK k \in 1..Len(q) : y = q[k]
      BY <1>1, <1>4, <2>2 DEF Elems
    <3> QED BY <1>1, <2>2, <3>1
  <2> QED BY <1>1, <2>1, <2>2
<1> QED BY <1>2, <1>3, <1>4 DEF r

\* Head is one of the elements and Tail holds the others.
LEMMA TailElems ==
  ASSUME NEW S, NEW q \in Seq(S), q # <<>>, Distinct(q)
  PROVE  /\ Head(q) \in Elems(q)
         /\ Elems(Tail(q)) = Elems(q) \ {Head(q)}
         /\ Distinct(Tail(q))
<1> DEFINE r == Tail(q)
<1>1. /\ Len(q) \in Nat \ {0}
      /\ Len(r) = Len(q) - 1
      /\ \A i \in 1..Len(r) : r[i] = q[i + 1]
      /\ Head(q) = q[1]
  BY HeadTailProperties, EmptySeq, LenProperties
<1> HIDE DEF r
<1>2. Head(q) \in Elems(q)
  BY <1>1 DEF Elems
<1>3. ASSUME NEW y \in Elems(r) PROVE y \in Elems(q) /\ y # Head(q)
  <2>1. PICK i \in 1..Len(r) : y = q[i + 1]
    BY <1>1, <1>3 DEF Elems
  <2> QED BY <1>1, <2>1 DEF Elems, Distinct
<1>4. ASSUME NEW y \in Elems(q), y # Head(q) PROVE y \in Elems(r)
  <2>1. PICK i \in 1..Len(q) : y = q[i]
    BY <1>4 DEF Elems
  <2>2. i - 1 \in 1..Len(r) /\ y = r[i - 1]
    BY <1>1, <1>4, <2>1
  <2> QED BY <2>2 DEF Elems
<1>5. Distinct(r)
  BY <1>1 DEF Distinct
<1> QED BY <1>2, <1>3, <1>4, <1>5 DEF r

\* A concatenation holds the elements of both parts.
LEMMA ConcatElems ==
  ASSUME NEW S, NEW p \in Seq(S), NEW q \in Seq(S)
  PROVE  /\ p \o q \in Seq(S)
         /\ Elems(p \o q) = Elems(p) \cup Elems(q)
         /\ Distinct(p) /\ Distinct(q) /\ Elems(p) \cap Elems(q) = {} => Distinct(p \o q)
<1> DEFINE r == p \o q
<1>1. /\ Len(p) \in Nat /\ Len(q) \in Nat
      /\ r \in Seq(S)
      /\ Len(r) = Len(p) + Len(q)
      /\ \A i \in 1..Len(r) : r[i] = IF i <= Len(p) THEN p[i] ELSE q[i - Len(p)]
  BY ConcatProperties, LenProperties
<1> HIDE DEF r
<1>2. ASSUME NEW y \in Elems(r) PROVE y \in Elems(p) \cup Elems(q)
  BY <1>1, <1>2 DEF Elems
<1>3. ASSUME NEW y \in Elems(p) PROVE y \in Elems(r)
  BY <1>1, <1>3 DEF Elems
<1>4. ASSUME NEW y \in Elems(q) PROVE y \in Elems(r)
  <2>1. PICK i \in 1..Len(q) : y = q[i]
    BY <1>4 DEF Elems
  <2> DEFINE k == i + Len(p)
  <2>2. k \in 1..Len(r) /\ k - Len(p) = i /\ ~(k <= Len(p))
    BY <1>1
  <2> HIDE DEF k
  <2>3. r[k] = y
    BY <1>1, <2>1, <2>2
  <2> QED BY <2>2, <2>3 DEF Elems
<1>5. ASSUME Distinct(p), Distinct(q), Elems(p) \cap Elems(q) = {} PROVE Distinct(r)
  <2> SUFFICES ASSUME NEW i \in 1..Len(r), NEW j \in 1..Len(r), r[i] = r[j]
               PROVE  i = j
    BY DEF Distinct
  <2>1. CASE i <= Len(p) /\ j <= Len(p)
    BY <1>1, <1>5, <2>1 DEF Distinct
  <2>2. CASE i > Len(p) /\ j > Len(p)
    <3>1. i - Len(p) \in 1..Len(q) /\ j - Len(p) \in 1..Len(q)
          /\ q[i - Len(p)] = q[j - Len(p)]
      BY <1>1, <2>2
    <3> QED BY <1>1, <1>5, <3>1 DEF Distinct
  <2>3. ASSUME NEW a \in 1..Len(p), NEW b \in 1..Len(q) PROVE p[a] # q[b]
    BY <1>5 DEF Elems
  <2>4. CASE i <= Len(p) /\ j > Len(p)
    <3>1. i \in 1..Len(p) /\ j - Len(p) \in 1..Len(q)
      BY <1>1, <2>4
    <3>2. r[i] = p[i] /\ r[j] = q[j - Len(p)]
      BY <1>1, <2>4
    <3> QED BY <2>3, <3>1, <3>2
  <2>5. CASE i > Len(p) /\ j <= Len(p)
    <3>1. j \in 1..Len(p) /\ i - Len(p) \in 1..Len(q)
      BY <1>1, <2>5
    <3>2. r[j] = p[j] /\ r[i] = q[i - Len(p)]
      BY <1>1, <2>5
    <3> QED BY <2>3, <3>1, <3>2
  <2> QED BY <1>1, <2>1, <2>2, <2>4, <2>5
<1> QED BY <1>1, <1>2, <1>3, <1>4, <1>5 DEF r

\* A sequence without repetition is as long as it has elements.
LEMMA DistinctCardinality ==
  ASSUME NEW S, NEW q \in Seq(S), Distinct(q)
  PROVE  IsFiniteSet(Elems(q)) /\ Cardinality(Elems(q)) = Len(q)
<1>1. Len(q) \in Nat /\ q \in [1..Len(q) -> S]
  BY LenProperties
<1>2. q \in Bijection(1..Len(q), Elems(q))
  <2>1. q \in [1..Len(q) -> Elems(q)]
    BY <1>1 DEF Elems
  <2>2. q \in Surjection(1..Len(q), Elems(q))
    BY <2>1 DEF Surjection, Elems
  <2>3. q \in Injection(1..Len(q), Elems(q))
    BY <2>1 DEF Injection, IsInjective, Distinct
  <2> QED BY <2>2, <2>3 DEF Bijection
<1>3. IsFiniteSet(1..Len(q)) /\ Cardinality(1..Len(q)) = Len(q)
  BY <1>1, FS_Interval
<1> QED BY <1>2, <1>3, FS_Bijection DEF ExistsBijection

\* SetToSeqs gives the sequences that hold each element of a set once.
LEMMA SetToSeqsElems ==
  ASSUME NEW S, IsFiniteSet(S), NEW q \in SetToSeqs(S)
  PROVE  q \in Seq(S) /\ Elems(q) = S /\ Distinct(q)
<1> DEFINE n == Cardinality(S)
<1>1. n \in Nat
  BY FS_CardinalityType
<1>2. q \in [1..n -> S] /\ \A i, j \in 1..n : i # j => q[i] # q[j]
  BY DEF SetToSeqs
<1>3. q \in Seq(S) /\ Len(q) = n
  BY <1>1, <1>2
<1>4. Distinct(q)
  BY <1>2, <1>3 DEF Distinct
<1>5. Elems(q) \subseteq S
  BY <1>2, <1>3 DEF Elems
<1>6. Cardinality(Elems(q)) = Cardinality(S)
  BY <1>3, <1>4, DistinctCardinality
<1> QED BY <1>3, <1>4, <1>5, <1>6, FS_Subset

\* What is left of a finite set shrinks by one when one of its elements goes.
LEMMA RemainingFinite ==
  ASSUME NEW A, IsFiniteSet(A), NEW T
  PROVE  /\ IsFiniteSet(A \ T)
         /\ Cardinality(A \ T) \in Nat
         /\ Cardinality(A \ T) = 0 <=> A \subseteq T
         /\ \A x : Cardinality(A \ (T \cup {x})) =
                       IF x \in A \ T THEN Cardinality(A \ T) - 1 ELSE Cardinality(A \ T)
<1>1. IsFiniteSet(A \ T)
  BY FS_Difference
<1>2. Cardinality(A \ T) = 0 <=> A \ T = {}
  BY <1>1, FS_EmptySet
<1>3. ASSUME NEW x
      PROVE  Cardinality(A \ (T \cup {x})) =
                 IF x \in A \ T THEN Cardinality(A \ T) - 1 ELSE Cardinality(A \ T)
  <2>1. A \ (T \cup {x}) = (A \ T) \ {x}
    OBVIOUS
  <2> QED BY <1>1, <2>1, FS_RemoveElement
<1> QED BY <1>1, <1>2, <1>3, FS_CardinalityType

-----------------------------------------------------------------------------
(***************************************************************************)
(* Plugin loading.                                                         *)
(*                                                                         *)
(* SortInv holds of the order from its first plugin on, QueueInv relates   *)
(* the counters and the queue of the sort to the order, EndInv says how a  *)
(* sort ended and RegistryInv that the registry follows the order.         *)
(***************************************************************************)
Refused == {"unknown", "disabled", "missing"}

SortInv == /\ Distinct(sorted)
           /\ Sorted \subseteq Enabled
           /\ Follows(sorted, deps)
           /\ \A S \in SUBSET Names : Cyclic(S) => S \cap Sorted = {}
           /\ phase \in {"collect", "validate"} \cup Refused => sorted = <<>>
           /\ phase \notin {"collect", "validate"} \cup Refused => Unmet = {}

QueueInv == phase = "resolve" =>
                /\ Distinct(queue)
                /\ Elems(queue) = {n \in Enabled \ Sorted : inDegree[n] = 0}
                /\ \A n \in Enabled : inDegree[n] = Cardinality(deps[n] \ Sorted)

EndInv == /\ phase \in {"load", "initialize", "done"} => Len(sorted) = EnabledEntries
          /\ phase = "circular" => /\ Len(sorted) # EnabledEntries
                                   /\ \A n \in Enabled \ Sorted : ~(deps[n] \subseteq Sorted)

RegistryInv == /\ Len(loaded) <= Len(sorted)
               /\ \A i \in 1..Len(loaded) : loaded[i] = sorted[i]
               /\ phase \notin {"load", "initialize", "done"} => loaded = <<>>
               /\ phase = "done" => Len(loaded) = Len(sorted)
               /\ DependenciesInjected

LoadInv == LoadTypeOK /\ SortInv /\ QueueInv /\ EndInv /\ RegistryInv

\* The enabled plugins are finitely many, and no more than their entries.
LEMMA EnabledFinite ==
  ASSUME configs \in Seq(Entry)
  PROVE  /\ Enabled \subseteq Names
         /\ IsFiniteSet(Enabled)
         /\ EnabledEntries \in Nat
         /\ Cardinality(Enabled) <= EnabledEntries
<1> DEFINE On == {i \in DOMAIN configs : configs[i].enabled}
           name == [i \in On |-> configs[i].name]
<1>1. Len(configs) \in Nat /\ DOMAIN configs = 1..Len(configs)
      /\ \A i \in DOMAIN configs : configs[i] \in Entry
  BY LenProperties, ElementOfSeq
<1>2. \A i \in DOMAIN configs : configs[i].name \in Names /\ configs[i].enabled \in BOOLEAN
  BY <1>1 DEF Entry
<1>3. Enabled = {configs[i].name : i \in On}
  BY <1>2 DEF Enabled, Entries, ToSet
<1>4. Enabled \subseteq Names
  BY <1>2, <1>3
<1>5. IsFiniteSet(On)
  <2>1. IsFiniteSet(DOMAIN configs)
    BY <1>1, FS_Interval
  <2> QED BY <2>1, FS_Subset
<1>6. name \in Surjection(On, Enabled)
  BY <1>3 DEF Surjection
<1>7. IsFiniteSet(Enabled) /\ Cardinality(Enabled) <= Cardinality(On)
  BY <1>5, <1>6, FS_Surjection
<1>8. EnabledEntries = Cardinality(On) /\ Cardinality(On) \in Nat
  BY <1>5, FS_CardinalityType DEF EnabledEntries
<1> QED BY <1>4, <1>7, <1>8

LEMMA WaitingFinite ==
  ASSUME LoadTypeOK, NEW n \in Names, NEW T
  PROVE  /\ IsFiniteSet(deps[n] \ T)
         /\ Cardinality(deps[n] \ T) \in Nat
         /\ Cardinality(deps[n] \ T) = 0 <=> deps[n] \subseteq T
         /\ \A x : Cardinality(deps[n] \ (T \cup {x})) =
                       IF x \in deps[n] \ T THEN Cardinality(deps[n] \ T) - 1
                                            ELSE Cardinality(deps[n] \ T)
<1>1. deps[n] \subseteq Names
  BY DEF LoadTypeOK
<1>2. IsFiniteSet(deps[n])
  BY <1>1, NamesAssumption, FS_Subset
<1> QED BY <1>2, RemainingFinite

LEMMA LoadInvInit ==
  ASSUME NEW s \in Setups, LoadInit(s)
  PROVE  LoadInv
<1>1. LoadTypeOK
  BY SetupsAssumption, EmptySeq DEF LoadInit, LoadTypeOK, Phases
<1>2. sorted = <<>> /\ loaded = <<>> /\ phase = "collect" /\ Len(sorted) = 0
  BY EmptySeq DEF LoadInit
<1>3. SortInv
  BY <1>2 DEF SortInv, Distinct, Sorted, Follows
<1>4. QueueInv /\ EndInv
  BY <1>2 DEF QueueInv, EndInv
<1>5. RegistryInv
  BY <1>2 DEF RegistryInv, DependenciesInjected, Loaded
<1> QED BY <1>1, <1>3, <1>4, <1>5 DEF LoadInv

\* Phases that end before the order is begun or after it is complete leave
\* everything else alone.
LEMMA CollectKeeps ==
  ASSUME LoadInv, CollectPluginDependencies
  PROVE  LoadInv'
<1> USE DEF LoadInv, CollectPluginDependencies, Goto, input, sort, registry
<1>1. phase' \in {"validate", "unknown"} /\ phase = "collect"
  BY DEF CollectPluginDependencies
<1>2. LoadTypeOK'
  BY <1>1 DEF LoadTypeOK, Phases, Failures
<1>3. SortInv'
  BY <1>1 DEF SortInv, Refused, Sorted, Enabled, Entries, Follows, Cyclic, Distinct
<1>4. QueueInv' /\ EndInv'
  BY <1>1 DEF QueueInv, EndInv
<1>5. RegistryInv'
  BY <1>1 DEF RegistryInv, DependenciesInjected, Loaded
<1> QED BY <1>2, <1>3, <1>4, <1>5

LEMMA ValidateKeeps ==
  ASSUME LoadInv, ValidateDependencies
  PROVE  LoadInv'
<1> USE DEF LoadInv, ValidateDependencies, Goto, input, sort, registry
<1>1. phase' \in {"disabled", "missing"} /\ phase = "validate"
  BY DEF ValidateDependencies
<1>2. LoadTypeOK'
  BY <1>1 DEF LoadTypeOK, Phases, Failures
<1>3. SortInv'
  BY <1>1 DEF SortInv, Refused, Sorted, Enabled, Entries, Follows, Cyclic, Distinct
<1>4. QueueInv' /\ EndInv'
  BY <1>1 DEF QueueInv, EndInv
<1>5. RegistryInv'
  BY <1>1 DEF RegistryInv, DependenciesInjected, Loaded
<1> QED BY <1>2, <1>3, <1>4, <1>5

\* The counters start at the number of dependencies and the queue with the
\* plugins that have none.
LEMMA StartSortKeeps ==
  ASSUME LoadInv, StartSort
  PROVE  LoadInv'
<1> USE DEF LoadInv, StartSort, Goto, input, registry
<1> DEFINE R == {n \in Enabled : deps[n] = {}}
<1>1. phase = "validate" /\ phase' = "resolve" /\ Unmet = {}
      /\ configs' = configs /\ deps' = deps /\ sorted' = sorted
      /\ loaded' = loaded /\ injected' = injected
  OBVIOUS
<1>2. Enabled \subseteq Names /\ IsFiniteSet(Enabled)
  BY EnabledFinite DEF LoadTypeOK
<1>3. \A n \in Names : /\ Cardinality(deps[n]) \in Nat
                       /\ Cardinality(deps[n]) = 0 <=> deps[n] = {}
  <2> SUFFICES ASSUME NEW n \in Names
               PROVE  /\ Cardinality(deps[n]) \in Nat
                      /\ Cardinality(deps[n]) = 0 <=> deps[n] = {}
    OBVIOUS
  <2>1. deps[n] \ {} = deps[n]
    OBVIOUS
  <2> QED BY <2>1, WaitingFinite
<1>4. queue' \in Seq(R) /\ Elems(queue') = R /\ Distinct(queue')
  <2>1. IsFiniteSet(R)
    BY <1>2, FS_Subset
  <2> QED BY <2>1, SetToSeqsElems
<1>5. LoadTypeOK'
  <2>1. queue' \in Seq(Names)
    BY <1>2, <1>4, SeqMonotonic
  <2>2. inDegree' \in [Names -> Nat]
    BY <1>3
  <2> QED BY <1>1, <2>1, <2>2 DEF LoadTypeOK, Phases
<1>6. Enabled' = Enabled /\ Unmet' = Unmet /\ Sorted' = Sorted
  BY <1>1 DEF Enabled, Entries, Unmet, Sorted
<1>7. SortInv'
  BY <1>1, <1>6 DEF SortInv, Refused, Follows, Cyclic, Distinct
<1>8. QueueInv'
  <2>1. Sorted = {}
    BY <1>1, EmptySeq DEF SortInv, Sorted
  <2>2. \A n \in Enabled : inDegree'[n] = Cardinality(deps[n] \ {})
    <3>1. \A n \in Enabled : deps[n] \ {} = deps[n] /\ inDegree'[n] = Cardinality(deps[n])
      BY <1>2
    <3> QED BY <3>1
  <2>3. R = {n \in Enabled : inDegree'[n] = 0}
    BY <1>2, <1>3
  <2> QED BY <1>1, <1>4, <1>6, <2>1, <2>2, <2>3 DEF QueueInv
<1>9. EndInv' /\ RegistryInv'
  BY <1>1 DEF EndInv, RegistryInv, DependenciesInjected, Loaded
<1> QED BY <1>5, <1>7, <1>8, <1>9

\* The head of the queue waits for nothing, so it comes after all it needs; of
\* its dependents those that waited for it alone join the queue.
LEMMA VisitKeeps ==
  ASSUME LoadInv, Visit
  PROVE  LoadInv'
<1> DEFINE n == Head(queue)
           R == {d \in Dependents(n) : inDegree[d] = 1}
<1>1. /\ phase = "resolve" /\ phase' = "resolve" /\ queue # <<>>
      /\ configs' = configs /\ deps' = deps
      /\ loaded' = loaded /\ injected' = injected
      /\ sorted' = Append(sorted, n)
      /\ inDegree' = [d \in Names |-> IF d \in Dependents(n) THEN inDegree[d] - 1
                                      ELSE inDegree[d]]
      /\ \E released \in SetToSeqs(R) : queue' = Tail(queue) \o released
  BY DEF Visit, input, registry
<1>2. /\ queue \in Seq(Names) /\ sorted \in Seq(Names) /\ inDegree \in [Names -> Nat]
      /\ deps \in [Names -> SUBSET Names]
  BY DEF LoadInv, LoadTypeOK
<1>3. /\ Enabled \subseteq Names /\ IsFiniteSet(Enabled) /\ Enabled' = Enabled
      /\ Unmet' = Unmet
  BY <1>1, EnabledFinite DEF LoadInv, LoadTypeOK, Enabled, Entries, Unmet
<1>4. /\ Distinct(queue)
      /\ Elems(queue) = {m \in Enabled \ Sorted : inDegree[m] = 0}
      /\ \A m \in Enabled : inDegree[m] = Cardinality(deps[m] \ Sorted)
  BY <1>1 DEF LoadInv, QueueInv
<1>5. /\ n \in Names
      /\ Elems(Tail(queue)) = Elems(queue) \ {n}
      /\ Distinct(Tail(queue)) /\ Tail(queue) \in Seq(Names)
      /\ n \in Elems(queue)
  BY <1>1, <1>2, <1>4, TailElems, HeadTailProperties
<1>6. n \in Enabled /\ n \notin Sorted /\ deps[n] \subseteq Sorted
  BY <1>3, <1>4, <1>5, WaitingFinite DEF LoadInv
<1>7. Sorted = Elems(sorted) /\ Sorted' = Elems(sorted')
  BY DEF Sorted, Elems
<1>8. /\ Sorted' = Sorted \cup {n}
      /\ sorted' \in Seq(Names) /\ Distinct(sorted') /\ Follows(sorted', deps)
  BY <1>1, <1>2, <1>5, <1>6, <1>7, AppendElems, AppendProperties DEF LoadInv, SortInv
<1> HIDE DEF n
<1>9. \A d \in Dependents(n) : d \in Enabled /\ n \in deps[d] /\ d \notin Sorted
  <2> SUFFICES ASSUME NEW d \in Dependents(n), d \in Sorted PROVE FALSE
    BY DEF Dependents
  <2>1. PICK i \in 1..Len(sorted) : d = sorted[i]
    BY DEF Sorted
  <2>2. n \in {sorted[k] : k \in 1..(i - 1)}
    BY <2>1 DEF Dependents, LoadInv, SortInv, Follows
  <2>3. n \in Sorted
    BY <1>2, <2>2, LenProperties DEF Sorted
  <2> QED BY <1>6, <2>3
<1>10. \A m \in Enabled : /\ inDegree'[m] = Cardinality(deps[m] \ Sorted')
                          /\ inDegree[m] \in Nat /\ inDegree'[m] \in Nat
                          /\ m \in Dependents(n) => inDegree[m] # 0
  <2> SUFFICES ASSUME NEW m \in Enabled
               PROVE  /\ inDegree'[m] = Cardinality(deps[m] \ Sorted')
                      /\ inDegree[m] \in Nat /\ inDegree'[m] \in Nat
                      /\ m \in Dependents(n) => inDegree[m] # 0
    OBVIOUS
  <2>1. m \in Dependents(n) <=> n \in deps[m] \ Sorted
    BY <1>6 DEF Dependents
  <2>2. /\ inDegree[m] = Cardinality(deps[m] \ Sorted) /\ inDegree[m] \in Nat
        /\ Cardinality(deps[m] \ Sorted) = 0 <=> deps[m] \subseteq Sorted
        /\ Cardinality(deps[m] \ Sorted') = IF n \in deps[m] \ Sorted THEN inDegree[m] - 1
                                            ELSE inDegree[m]
        /\ Cardinality(deps[m] \ Sorted') \in Nat
    <3>1. /\ Cardinality(deps[m] \ Sorted) \in Nat
          /\ Cardinality(deps[m] \ Sorted) = 0 <=> deps[m] \subseteq Sorted
          /\ Cardinality(deps[m] \ (Sorted \cup {n})) =
                IF n \in deps[m] \ Sorted THEN Cardinality(deps[m] \ Sorted) - 1
                                         ELSE Cardinality(deps[m] \ Sorted)
      BY <1>3, WaitingFinite DEF LoadInv
    <3>2. Cardinality(deps[m] \ (Sorted \cup {n})) \in Nat
      BY <1>3, WaitingFinite DEF LoadInv
    <3> QED BY <1>4, <1>8, <3>1, <3>2
  <2>3. inDegree'[m] = IF m \in Dependents(n) THEN inDegree[m] - 1 ELSE inDegree[m]
    BY <1>1, <1>3
  <2> QED BY <2>1, <2>2, <2>3
<1>11. PICK released \in SetToSeqs(R) : queue' = Tail(queue) \o released
  BY <1>1
<1>12. R \subseteq Enabled /\ IsFiniteSet(R)
  BY <1>3, <1>9, FS_Subset
<1>13. /\ released \in Seq(Names) /\ Elems(released) = R /\ Distinct(released)
  BY <1>3, <1>12, SetToSeqsElems, SeqMonotonic
<1>14. Elems(Tail(queue)) \cap R = {}
  BY <1>4, <1>5
<1>15. /\ queue' \in Seq(Names)
       /\ Elems(queue') = (Elems(queue) \ {n}) \cup R
       /\ Distinct(queue')
  <2>1. /\ Tail(queue) \o released \in Seq(Names)
        /\ Elems(Tail(queue) \o released) = Elems(Tail(queue)) \cup Elems(released)
        /\ Distinct(Tail(queue) \o released)
    <3>1. Elems(Tail(queue)) \cap Elems(released) = {}
      BY <1>13, <1>14
    <3> DEFINE t == Tail(queue)
    <3>2. t \in Seq(Names) /\ released \in Seq(Names) /\ Elems(t) \cap Elems(released) = {}
          /\ Distinct(t) /\ Distinct(released)
      BY <1>5, <1>13, <3>1
    <3> HIDE DEF R, t
    <3>3. /\ t \o released \in Seq(Names)
          /\ Elems(t \o released) = Elems(t) \cup Elems(released)
          /\ Distinct(t \o released)
      BY <3>2, ConcatElems
    <3> QED BY <3>3 DEF t
  <2> QED BY <1>5, <1>11, <1>13, <2>1
<1>16. LoadTypeOK'
  <2>1. inDegree' \in [Names -> Nat]
    BY <1>1, <1>2, <1>9, <1>10
  <2> QED BY <1>1, <1>8, <1>15, <2>1 DEF LoadInv, LoadTypeOK
<1>17. SortInv'
  <2>1. ASSUME NEW S \in SUBSET Names, Cyclic(S) PROVE S \cap Sorted' = {}
    <3>1. S \cap Sorted = {} /\ \A m \in S : deps[m] \cap S # {}
      BY <2>1 DEF LoadInv, SortInv, Cyclic
    <3> QED BY <1>6, <1>8, <3>1
  <2>2. \A S : Cyclic(S)' <=> Cyclic(S)
    BY <1>1 DEF Cyclic
  <2>3. Unmet' = {} /\ Sorted' \subseteq Enabled'
    BY <1>1, <1>3, <1>6, <1>8 DEF LoadInv, SortInv, Refused
  <2> QED BY <1>1, <1>8, <2>1, <2>2, <2>3 DEF SortInv, Refused
<1>18. QueueInv'
  <2>1. (Elems(queue) \ {n}) \cup R = {m \in Enabled \ Sorted' : inDegree'[m] = 0}
    <3>1. \A m \in Enabled : inDegree'[m] = IF m \in Dependents(n) THEN inDegree[m] - 1
                                            ELSE inDegree[m]
      BY <1>1, <1>3
    <3>2. n \notin R
      BY <1>4, <1>5
    <3>3. ASSUME NEW m \in (Elems(queue) \ {n}) \cup R
          PROVE  m \in Enabled \ Sorted' /\ inDegree'[m] = 0
      <4>1. CASE m \in R
        BY <1>6, <1>8, <1>9, <3>1, <3>2, <4>1
      <4>2. CASE m \in Elems(queue) \ {n}
        BY <1>4, <1>8, <1>10, <3>1, <4>2
      <4> QED BY <3>3, <4>1, <4>2
    <3>4. ASSUME NEW m \in Enabled \ Sorted', inDegree'[m] = 0
          PROVE  m \in (Elems(queue) \ {n}) \cup R
      <4>1. CASE m \in Dependents(n)
        <5>1. inDegree[m] \in Nat /\ inDegree[m] - 1 = 0
          BY <1>10, <3>1, <3>4, <4>1
        <5> QED BY <4>1, <5>1
      <4>2. CASE m \notin Dependents(n)
        BY <1>4, <1>8, <3>1, <3>4, <4>2
      <4> QED BY <4>1, <4>2
    <3> QED BY <3>3, <3>4
  <2> QED BY <1>1, <1>3, <1>10, <1>15, <2>1 DEF QueueInv
<1>19. EndInv'
  BY <1>1 DEF EndInv
<1>20. RegistryInv'
  <2>1. loaded = <<>> /\ loaded' = <<>>
    BY <1>1 DEF LoadInv, RegistryInv
  <2>2. Len(loaded') = 0 /\ Len(sorted') \in Nat
    BY <1>8, <2>1, LenProperties, EmptySeq
  <2> QED BY <1>1, <2>1, <2>2 DEF RegistryInv, DependenciesInjected, Loaded
<1> QED BY <1>16, <1>17, <1>18, <1>19, <1>20 DEF LoadInv

\* When the queue is empty every plugin left waits for one that is left.
LEMMA FinishSortKeeps ==
  ASSUME LoadInv, FinishSort
  PROVE  LoadInv'
<1>1. /\ phase = "resolve" /\ queue = <<>>
      /\ phase' = IF Len(sorted) = EnabledEntries THEN "load" ELSE "circular"
      /\ UNCHANGED <<configs, deps, inDegree, queue, sorted, loaded, injected>>
  BY DEF FinishSort, Goto, input, sort, registry
<1>2. /\ Enabled' = Enabled /\ Sorted' = Sorted /\ Unmet' = Unmet
      /\ EnabledEntries' = EnabledEntries
  BY <1>1 DEF Enabled, Entries, Sorted, Unmet, EnabledEntries
<1>3. LoadTypeOK'
  BY <1>1 DEF LoadInv, LoadTypeOK, Phases, Failures
<1>4. SortInv'
  BY <1>1, <1>2 DEF LoadInv, SortInv, Refused, Follows, Cyclic, Distinct
<1>5. QueueInv'
  BY <1>1 DEF QueueInv
<1>6. \A n \in Enabled \ Sorted : ~(deps[n] \subseteq Sorted)
  <2>1. Elems(queue) = {}
    BY <1>1, EmptySeq DEF Elems
  <2>2. \A n \in Enabled \ Sorted : Cardinality(deps[n] \ Sorted) # 0
    BY <1>1, <2>1 DEF LoadInv, QueueInv
  <2>3. Enabled \subseteq Names
    BY EnabledFinite DEF LoadInv, LoadTypeOK
  <2> QED BY <2>2, <2>3, WaitingFinite DEF LoadInv
<1>7. EndInv'
  BY <1>1, <1>2, <1>6 DEF EndInv
<1>8. RegistryInv'
  BY <1>1 DEF LoadInv, RegistryInv, DependenciesInjected, Loaded
<1> QED BY <1>3, <1>4, <1>5, <1>7, <1>8 DEF LoadInv

\* What comes next needs only what was initialised before it.
LEMMA UpcomingReady ==
  ASSUME LoadInv, phase = "load", Len(loaded) < Len(sorted)
  PROVE  /\ Upcoming \in Names
         /\ Upcoming \notin Loaded
         /\ deps[Upcoming] \subseteq Loaded
<1> DEFINE i == Len(loaded) + 1
<1>1. /\ Len(loaded) \in Nat /\ Len(sorted) \in Nat
      /\ i \in 1..Len(sorted) /\ Upcoming = sorted[i]
      /\ sorted \in Seq(Names)
  BY LenProperties DEF LoadInv, LoadTypeOK, Upcoming
<1>2. \A k \in 1..Len(loaded) : loaded[k] = sorted[k] /\ k \in 1..Len(sorted) /\ k # i
  BY <1>1 DEF LoadInv, RegistryInv
<1>3. Upcoming \notin Loaded
  BY <1>1, <1>2 DEF Loaded, LoadInv, SortInv, Distinct
<1>4. deps[Upcoming] \subseteq {sorted[k] : k \in 1..(i - 1)}
  BY <1>1 DEF LoadInv, SortInv, Follows
<1>5. i - 1 = Len(loaded)
  BY <1>1
<1> HIDE DEF i
<1>6. {sorted[k] : k \in 1..(i - 1)} = Loaded
  BY <1>2, <1>5 DEF Loaded
<1>7. Upcoming \in Names
  BY <1>1, ElementOfSeq
<1> QED BY <1>3, <1>4, <1>6, <1>7

LEMMA InitializeKeeps ==
  ASSUME LoadInv, Initialize
  PROVE  LoadInv'
<1>1. /\ phase = "load" /\ phase' = "load" /\ Len(loaded) < Len(sorted)
      /\ injected' = [injected EXCEPT ![Upcoming] = deps[Upcoming] \cap Loaded]
      /\ loaded' = Append(loaded, Upcoming)
      /\ UNCHANGED <<configs, deps, inDegree, queue, sorted>>
  BY DEF Initialize, input, sort
<1>2. /\ Enabled' = Enabled /\ Sorted' = Sorted /\ Unmet' = Unmet
      /\ EnabledEntries' = EnabledEntries
  BY <1>1 DEF Enabled, Entries, Sorted, Unmet, EnabledEntries
<1>3. /\ Upcoming \in Names /\ deps[Upcoming] \subseteq Loaded
      /\ injected' = [injected EXCEPT ![Upcoming] = deps[Upcoming]]
  <2>1. Upcoming \in Names /\ deps[Upcoming] \subseteq Loaded
    BY <1>1, UpcomingReady
  <2>2. deps[Upcoming] \cap Loaded = deps[Upcoming]
    BY <2>1
  <2> QED BY <1>1, <2>1, <2>2
<1>4. /\ loaded \in Seq(Names) /\ sorted \in Seq(Names)
      /\ Len(loaded) \in Nat /\ Len(sorted) \in Nat
      /\ injected \in [Names -> SUBSET Names] /\ deps \in [Names -> SUBSET Names]
  BY LenProperties DEF LoadInv, LoadTypeOK
<1>5. /\ loaded' \in Seq(Names)
      /\ Len(loaded') = Len(loaded) + 1
      /\ \A i \in 1..Len(loaded) : loaded'[i] = loaded[i]
      /\ loaded'[Len(loaded) + 1] = Upcoming
  BY <1>1, <1>3, <1>4, AppendProperties
<1>6. LoadTypeOK'
  BY <1>1, <1>3, <1>4, <1>5 DEF LoadInv, LoadTypeOK
<1>7. SortInv'
  BY <1>1, <1>2 DEF LoadInv, SortInv, Refused, Follows, Cyclic, Distinct
<1>8. QueueInv' /\ EndInv'
  BY <1>1, <1>2 DEF LoadInv, QueueInv, EndInv
<1>9. RegistryInv'
  <2>1. Len(loaded') <= Len(sorted')
    BY <1>1, <1>4, <1>5
  <2>2. \A i \in 1..Len(loaded') : loaded'[i] = sorted'[i]
    BY <1>1, <1>4, <1>5 DEF LoadInv, RegistryInv, Upcoming
  <2>3. DependenciesInjected'
    <3>1. ASSUME NEW n \in Loaded' PROVE injected'[n] = deps[n]
      <4>1. n \in Loaded \cup {Upcoming}
        BY <1>4, <1>5, <3>1 DEF Loaded
      <4>2. n \in Loaded => n \in Names
        BY <1>4, ElementOfSeq DEF Loaded
      <4> QED BY <1>3, <1>4, <4>1, <4>2 DEF LoadInv, RegistryInv, DependenciesInjected
    <3> QED BY <1>1, <3>1 DEF DependenciesInjected
  <2> QED BY <1>1, <2>1, <2>2, <2>3 DEF RegistryInv
<1> QED BY <1>6, <1>7, <1>8, <1>9 DEF LoadInv

\* The error and the end of the loop change nothing but the phase.
LEMMA LoadingEndsKeeps ==
  ASSUME LoadInv, InitializeFails \/ Finish
  PROVE  LoadInv'
<1>1. /\ phase = "load" /\ phase' \in {"initialize", "done"}
      /\ phase' = "done" => Len(loaded) = Len(sorted)
      /\ UNCHANGED <<configs, deps, inDegree, queue, sorted, loaded, injected>>
  BY DEF InitializeFails, Finish, Goto, input, sort, registry
<1>2. /\ Enabled' = Enabled /\ Sorted' = Sorted /\ Unmet' = Unmet
      /\ EnabledEntries' = EnabledEntries
  BY <1>1 DEF Enabled, Entries, Sorted, Unmet, EnabledEntries
<1>3. LoadTypeOK'
  BY <1>1 DEF LoadInv, LoadTypeOK, Phases, Failures
<1>4. SortInv'
  BY <1>1, <1>2 DEF LoadInv, SortInv, Refused, Follows, Cyclic, Distinct
<1>5. QueueInv' /\ EndInv'
  BY <1>1, <1>2 DEF LoadInv, QueueInv, EndInv
<1>6. RegistryInv'
  BY <1>1 DEF LoadInv, RegistryInv, DependenciesInjected, Loaded
<1> QED BY <1>3, <1>4, <1>5, <1>6 DEF LoadInv

LEMMA LoadStutterKeeps ==
  ASSUME LoadInv, UNCHANGED loadVars
  PROVE  LoadInv'
<1>1. UNCHANGED <<configs, deps, phase, inDegree, queue, sorted, loaded, injected>>
  BY DEF loadVars, input, sort, registry
<1>2. /\ Enabled' = Enabled /\ Sorted' = Sorted /\ Unmet' = Unmet
      /\ EnabledEntries' = EnabledEntries
  BY <1>1 DEF Enabled, Entries, Sorted, Unmet, EnabledEntries
<1>3. LoadTypeOK'
  BY <1>1 DEF LoadInv, LoadTypeOK
<1>4. SortInv'
  <2>1. Distinct(sorted)' /\ Follows(sorted, deps)'
    BY <1>1 DEF LoadInv, SortInv, Distinct, Follows
  <2>2. \A S : Cyclic(S)' <=> Cyclic(S)
    BY <1>1 DEF Cyclic
  <2> QED BY <1>1, <1>2, <2>1, <2>2 DEF LoadInv, SortInv
<1>5. QueueInv' /\ EndInv' /\ RegistryInv'
  BY <1>1, <1>2 DEF LoadInv, QueueInv, EndInv, RegistryInv, DependenciesInjected, Loaded,
                    Distinct, Elems
<1> QED BY <1>3, <1>4, <1>5 DEF LoadInv

\* LoadInv is inductive: LoadPlugins keeps its order, its queue and its
\* registry in step.
THEOREM LoadInvariance == LoadSpec => []LoadInv
<1>1. (\E s \in Setups : LoadInit(s)) => LoadInv
  BY LoadInvInit
<1>2. LoadInv /\ [LoadNext]_loadVars => LoadInv'
  BY CollectKeeps, ValidateKeeps, StartSortKeeps, VisitKeeps, FinishSortKeeps,
     InitializeKeeps, LoadingEndsKeeps, LoadStutterKeeps DEF LoadNext, LoadStep
<1> QED BY <1>1, <1>2, PTL DEF LoadSpec

\* A sort that counted as many plugins as there are entries has them all.
LEMMA AllSorted ==
  ASSUME LoadInv, Len(sorted) = EnabledEntries
  PROVE  Sorted = Enabled
<1>1. /\ IsFiniteSet(Enabled) /\ Cardinality(Enabled) <= EnabledEntries
      /\ Cardinality(Enabled) \in Nat
  BY EnabledFinite, FS_CardinalityType DEF LoadInv, LoadTypeOK
<1>2. Sorted = Elems(sorted)
  BY DEF Sorted, Elems
<1>3. Cardinality(Sorted) = EnabledEntries
  BY <1>2, DistinctCardinality DEF LoadInv, LoadTypeOK, SortInv
<1>4. Sorted \in SUBSET Enabled
  BY DEF LoadInv, SortInv
<1>5. Cardinality(Sorted) <= Cardinality(Enabled)
  BY <1>1, <1>4, FS_Subset
<1>6. Cardinality(Enabled) = Cardinality(Sorted)
  BY <1>1, <1>3, <1>5
<1> QED BY <1>1, <1>4, <1>6, FS_Subset

\* A finished LoadPlugins has every enabled plugin in the registry.
LEMMA AllLoaded ==
  ASSUME LoadInv, phase = "done"
  PROVE  Loaded = Enabled
<1>1. Sorted = Enabled
  BY AllSorted DEF LoadInv, EndInv
<1>2. Loaded = Sorted
  BY DEF LoadInv, RegistryInv, Loaded, Sorted
<1> QED BY <1>1, <1>2

\* Each plugin is given every dependency it declares.
THEOREM DependenciesComeInjected == LoadSpec => []DependenciesInjected
<1>1. LoadInv => DependenciesInjected
  BY DEF LoadInv, RegistryInv
<1> QED BY <1>1, LoadInvariance, PTL

\* No plugin of a cycle is initialised, and where no plugin is configured twice
\* only cycles are refused as such.
THEOREM CyclesRefused == LoadSpec => []CyclesAndOnlyCycles
<1>1. ASSUME LoadInv PROVE CyclesAndOnlyCycles
  <2> DEFINE cycle == \E S \in SUBSET Enabled : Cyclic(S)
  <2>1. Enabled \subseteq Names
    BY <1>1, EnabledFinite DEF LoadInv, LoadTypeOK
  <2>2. ASSUME phase \in {"load", "done"} PROVE ~cycle
    <3>1. Sorted = Enabled
      BY <1>1, <2>2, AllSorted DEF LoadInv, EndInv
    <3>2. \A S \in SUBSET Enabled : Cyclic(S) => S \cap Enabled = {}
      BY <1>1, <2>1, <3>1 DEF LoadInv, SortInv
    <3> QED BY <3>2 DEF Cyclic
  <2>3. ASSUME phase = "circular", EnabledEntries = Cardinality(Enabled) PROVE cycle
    <3> DEFINE left == Enabled \ Sorted
    <3>1. left # {}
      <4>1. Cardinality(Elems(sorted)) = Len(sorted)
        BY <1>1, DistinctCardinality DEF LoadInv, LoadTypeOK, SortInv
      <4>2. Sorted # Enabled
        BY <1>1, <2>3, <4>1 DEF LoadInv, EndInv, Sorted, Elems
      <4> QED BY <1>1, <4>2 DEF LoadInv, SortInv
    <3>2. \A n \in left : deps[n] \cap left # {}
      <4>1. \A n \in Enabled : deps[n] \subseteq Enabled
        <5>1. Unmet = {}
          BY <1>1, <2>3 DEF LoadInv, SortInv, Refused
        <5>2. ASSUME NEW n \in Enabled, NEW d \in deps[n] PROVE d \in Enabled
          <6>1. d \in UNION {deps[m] : m \in Enabled}
            OBVIOUS
          <6> QED BY <5>1, <6>1 DEF Unmet
        <5> QED BY <5>2
      <4> QED BY <1>1, <2>3, <4>1 DEF LoadInv, EndInv
    <3> QED BY <3>1, <3>2 DEF Cyclic
  <2> QED BY <2>2, <2>3 DEF CyclesAndOnlyCycles
<1> QED BY <1>1, LoadInvariance, PTL

\* LoadPlugins implements DependencyOrder: plugins are initialised once each,
\* and after all they depend on.
THEOREM PluginsOrdered == LoadSpec => PluginsInOrder
<1>1. ASSUME NEW s \in Setups, LoadInit(s) PROVE PluginOrder!Init
  <2>1. LoadTypeOK
    BY <1>1, LoadInvInit DEF LoadInv
  <2> QED BY <1>1, <2>1 DEF LoadInit, LoadTypeOK, PluginOrder!Init
<1>2. ASSUME LoadInv, [LoadNext]_loadVars PROVE [PluginOrder!Next]_PluginOrder!vars
  <2>1. CASE Initialize
    <3>1. /\ Upcoming \in Names /\ Upcoming \notin Loaded /\ deps[Upcoming] \subseteq Loaded
      BY <1>2, <2>1, UpcomingReady DEF Initialize
    <3>2. loaded' = Append(loaded, Upcoming) /\ deps' = deps
      BY <2>1 DEF Initialize, input
    <3>3. PluginOrder!Emit(Upcoming)
      BY <3>1, <3>2 DEF PluginOrder!Emit, PluginOrder!Emitted, Loaded
    <3> QED BY <3>1, <3>3 DEF PluginOrder!Next
  <2>2. CASE ~Initialize
    <3>1. loaded' = loaded /\ deps' = deps
      BY <1>2, <2>2 DEF LoadNext, LoadStep, CollectPluginDependencies, ValidateDependencies,
            StartSort, Visit, FinishSort, InitializeFails, Finish, loadVars, input, registry
    <3> QED BY <3>1 DEF PluginOrder!vars
  <2> QED BY <2>1, <2>2
<1>3. (\E s \in Setups : LoadInit(s)) => PluginOrder!Init
  BY <1>1
<1> QED BY <1>2, <1>3, LoadInvariance, PTL DEF LoadSpec, PluginsInOrder, PluginOrder!Spec

-----------------------------------------------------------------------------
(***************************************************************************)
(* Migration sources.  The invariant is that of the plugins without the    *)
(* queue: who is ready is read off the counters.                           *)
(***************************************************************************)
NeedsOf == [s \in SourceNames |-> Needs(s)]

Waiting(S) == \A s \in S : sourceDeps[s] \cap S # {}

ResolveInv ==
    /\ ResolveTypeOK
    /\ Distinct(sourceOrder)
    /\ Ordered \subseteq sources
    /\ Follows(sourceOrder, NeedsOf)
    /\ \A S \in SUBSET sources : Waiting(S) => S \cap Ordered = {}
    /\ resolver = "idle" => sourceOrder = <<>> /\ sources = {}
    /\ resolver = "sorting" =>
           \A s \in sources : pending[s] = Cardinality(Needs(s) \ Ordered)
    /\ resolver = "ordered" => Ordered = sources
    /\ resolver = "circular" => /\ Ordered # sources
                                /\ \A s \in sources \ Ordered : ~(Needs(s) \subseteq Ordered)

LEMMA NeedsFinite ==
  ASSUME ResolveTypeOK, NEW s \in SourceNames
  PROVE  IsFiniteSet(Needs(s)) /\ Needs(s) \subseteq SourceNames
<1>1. Needs(s) \in SUBSET SourceNames
  BY DEF ResolveTypeOK, Needs
<1> QED BY <1>1, RankAssumption, FS_Subset

LEMMA ResolveKeeps ==
  ASSUME ResolveInv, NEW S \in SUBSET SourceNames, NEW D \in [SourceNames -> SUBSET SourceNames],
         Resolve(S, D)
  PROVE  ResolveInv'
<1>1. /\ resolver' = "sorting" /\ sources' = S /\ sourceDeps' = D
      /\ pending' = [s \in SourceNames |-> IF s \in S THEN Cardinality(D[s] \cap S) ELSE 0]
      /\ sourceOrder' = <<>>
  BY DEF Resolve, ResolveInv
<1>2. /\ Len(sourceOrder') = 0 /\ sourceOrder' \in Seq(SourceNames) /\ Ordered' = {}
  BY <1>1, EmptySeq DEF Ordered
<1>3. \A s \in SourceNames : /\ Needs(s)' = D[s] \cap S
                             /\ IsFiniteSet(D[s] \cap S)
                             /\ Cardinality(D[s] \cap S) \in Nat
  <2> SUFFICES ASSUME NEW s \in SourceNames
               PROVE  /\ Needs(s)' = D[s] \cap S
                      /\ IsFiniteSet(D[s] \cap S)
                      /\ Cardinality(D[s] \cap S) \in Nat
    OBVIOUS
  <2>1. D[s] \cap S \in SUBSET SourceNames
    OBVIOUS
  <2> QED BY <1>1, <2>1, RankAssumption, FS_Subset, FS_CardinalityType DEF Needs
<1>4. ResolveTypeOK'
  BY <1>1, <1>2, <1>3 DEF ResolveTypeOK
<1>5. \A s \in sources' : pending'[s] = Cardinality(Needs(s)' \ Ordered')
  <2>1. \A s \in S : Needs(s)' \ Ordered' = D[s] \cap S
    BY <1>2, <1>3
  <2> QED BY <1>1, <2>1
<1>6. Distinct(sourceOrder)' /\ Follows(sourceOrder, NeedsOf)'
  BY <1>2 DEF Distinct, Follows
<1>7. \A T : T \cap Ordered' = {}
  BY <1>2
<1>8. Ordered' \subseteq sources'
  BY <1>2
<1> QED BY <1>1, <1>4, <1>5, <1>6, <1>7, <1>8 DEF ResolveInv

\* A source that comes out waits for nothing, and those that needed it wait for
\* one less.
LEMMA EmitKeeps ==
  ASSUME ResolveInv, NEW s \in SourceNames, EmitSource(s)
  PROVE  ResolveInv'
<1>1. /\ resolver = "sorting" /\ s \in sources \ Ordered /\ pending[s] = 0
      /\ sourceOrder' = Append(sourceOrder, s)
      /\ pending' = [t \in SourceNames |-> IF t \in sources /\ s \in Needs(t) THEN pending[t] - 1
                                           ELSE pending[t]]
      /\ resolver' = resolver /\ sources' = sources /\ sourceDeps' = sourceDeps
  BY DEF EmitSource, NextSource, Ready
<1>2. /\ sourceOrder \in Seq(SourceNames) /\ sources \subseteq SourceNames
      /\ pending \in [SourceNames -> Nat] /\ sourceDeps \in [SourceNames -> SUBSET SourceNames]
  BY DEF ResolveInv, ResolveTypeOK
<1>3. Ordered = Elems(sourceOrder) /\ Ordered' = Elems(sourceOrder')
  BY DEF Ordered, Elems
<1>4. NeedsOf' = NeedsOf /\ \A t : Needs(t)' = Needs(t)
  BY <1>1 DEF NeedsOf, Needs
<1>5. Needs(s) \subseteq Ordered
  BY <1>1, <1>2, NeedsFinite, RemainingFinite DEF ResolveInv
<1>6. /\ sourceOrder' \in Seq(SourceNames) /\ Ordered' = Ordered \cup {s}
      /\ Distinct(sourceOrder') /\ Follows(sourceOrder', NeedsOf)
  BY <1>1, <1>2, <1>3, <1>5, AppendElems, AppendProperties DEF ResolveInv, NeedsOf
<1>7. \A t \in sources : /\ pending'[t] = Cardinality(Needs(t) \ Ordered')
                         /\ pending'[t] \in Nat
  <2> SUFFICES ASSUME NEW t \in sources
               PROVE  /\ pending'[t] = Cardinality(Needs(t) \ Ordered')
                      /\ pending'[t] \in Nat
    OBVIOUS
  <2>1. /\ pending[t] = Cardinality(Needs(t) \ Ordered)
        /\ pending'[t] = IF s \in Needs(t) THEN pending[t] - 1 ELSE pending[t]
    BY <1>1, <1>2 DEF ResolveInv
  <2>2. IsFiniteSet(Needs(t))
    BY <1>2, NeedsFinite DEF ResolveInv
  <2>3. /\ Cardinality(Needs(t) \ (Ordered \cup {s})) =
              IF s \in Needs(t) \ Ordered THEN Cardinality(Needs(t) \ Ordered) - 1
                                          ELSE Cardinality(Needs(t) \ Ordered)
    BY <2>2, RemainingFinite
  <2>4. Cardinality(Needs(t) \ (Ordered \cup {s})) \in Nat
    BY <2>2, FS_Difference, FS_CardinalityType
  <2> QED BY <1>1, <1>6, <2>1, <2>3, <2>4
<1>8. ResolveTypeOK'
  <2>1. pending' \in [SourceNames -> Nat]
    BY <1>1, <1>2, <1>7
  <2> QED BY <1>1, <1>6, <2>1 DEF ResolveInv, ResolveTypeOK
<1>9. ASSUME NEW S \in SUBSET sources, Waiting(S) PROVE S \cap Ordered' = {}
  <2>1. S \cap Ordered = {}
    BY <1>9 DEF ResolveInv
  <2>2. s \notin S
    BY <1>5, <1>9, <2>1 DEF Waiting, Needs
  <2> QED BY <1>6, <2>1, <2>2
<1>10. \A S : Waiting(S)' <=> Waiting(S)
  BY <1>1 DEF Waiting
<1>11. Ordered' \subseteq sources'
  BY <1>1, <1>6 DEF ResolveInv
<1> QED BY <1>1, <1>4, <1>6, <1>7, <1>8, <1>9, <1>10, <1>11 DEF ResolveInv

\* When nothing is ready every source left waits for one that is left.
LEMMA FinishResolveKeeps ==
  ASSUME ResolveInv, FinishResolve
  PROVE  ResolveInv'
<1>1. /\ resolver = "sorting" /\ Ready = {}
      /\ resolver' = IF Len(sourceOrder) = Cardinality(sources) THEN "ordered" ELSE "circular"
      /\ UNCHANGED <<sources, sourceDeps, pending, sourceOrder>>
  BY DEF FinishResolve
<1>2. /\ Ordered' = Ordered /\ NeedsOf' = NeedsOf
      /\ \A t : Needs(t)' = Needs(t)
      /\ \A S : Waiting(S)' <=> Waiting(S)
  BY <1>1 DEF Ordered, NeedsOf, Needs, Waiting
<1>3. IsFiniteSet(sources) /\ Cardinality(Ordered) = Len(sourceOrder)
  <2>1. Ordered = Elems(sourceOrder)
    BY DEF Ordered, Elems
  <2> QED BY <2>1, RankAssumption, FS_Subset, DistinctCardinality DEF ResolveInv, ResolveTypeOK
<1>4. Len(sourceOrder) = Cardinality(sources) <=> Ordered = sources
  BY <1>3, FS_Subset DEF ResolveInv
<1>5. \A s \in sources \ Ordered : ~(Needs(s) \subseteq Ordered)
  <2> SUFFICES ASSUME NEW s \in sources \ Ordered PROVE ~(Needs(s) \subseteq Ordered)
    OBVIOUS
  <2>1. s \in SourceNames /\ pending[s] # 0 /\ pending[s] = Cardinality(Needs(s) \ Ordered)
    BY <1>1 DEF Ready, ResolveInv, ResolveTypeOK
  <2> QED BY <2>1, NeedsFinite, RemainingFinite DEF ResolveInv
<1>6. ResolveTypeOK'
  BY <1>1 DEF ResolveInv, ResolveTypeOK
<1>7. Distinct(sourceOrder)' /\ Follows(sourceOrder, NeedsOf)'
  BY <1>1, <1>2 DEF ResolveInv, Distinct, Follows
<1> QED BY <1>1, <1>2, <1>4, <1>5, <1>6, <1>7 DEF ResolveInv

LEMMA ResolveStutterKeeps ==
  ASSUME ResolveInv, UNCHANGED resolveVars
  PROVE  ResolveInv'
<1>1. UNCHANGED <<resolver, sources, sourceDeps, pending, sourceOrder>>
  BY DEF resolveVars
<1>2. /\ Ordered' = Ordered /\ NeedsOf' = NeedsOf
      /\ \A t : Needs(t)' = Needs(t)
      /\ \A S : Waiting(S)' <=> Waiting(S)
  BY <1>1 DEF Ordered, NeedsOf, Needs, Waiting
<1>3. ResolveTypeOK'
  BY <1>1 DEF ResolveInv, ResolveTypeOK
<1>4. Distinct(sourceOrder)' /\ Follows(sourceOrder, NeedsOf)'
  BY <1>1, <1>2 DEF ResolveInv, Distinct, Follows
<1> QED BY <1>1, <1>2, <1>3, <1>4 DEF ResolveInv

\* ResolveInv is inductive.
THEOREM ResolveInvariance == ResolveSpec => []ResolveInv
<1>1. ResolveInit => ResolveInv
  <2> SUFFICES ASSUME ResolveInit PROVE ResolveInv
    OBVIOUS
  <2>1. sourceOrder = <<>> /\ Len(sourceOrder) = 0 /\ resolver = "idle" /\ sources = {}
    BY EmptySeq DEF ResolveInit
  <2>2. ResolveTypeOK
    BY EmptySeq DEF ResolveInit, ResolveTypeOK
  <2> QED BY <2>1, <2>2 DEF ResolveInv, Distinct, Ordered, Follows
<1>2. ResolveInv /\ [ResolveNext]_resolveVars => ResolveInv'
  BY ResolveKeeps, EmitKeeps, FinishResolveKeeps, ResolveStutterKeeps
     DEF ResolveNext, ResolveStep
<1> QED BY <1>1, <1>2, PTL DEF ResolveSpec

\* Resolve returns an order exactly when there is no cycle.
THEOREM ResolvesOrReportsCycle == ResolveSpec => []ResolvesOrReports
<1>1. ASSUME ResolveInv PROVE ResolvesOrReports
  <2> DEFINE cycle == \E S \in SUBSET sources : S # {} /\ Waiting(S)
  <2>1. ASSUME resolver = "ordered" PROVE ~cycle /\ Ordered = sources
    BY <1>1, <2>1 DEF ResolveInv
  <2>2. ASSUME resolver = "circular" PROVE cycle
    <3> DEFINE left == sources \ Ordered
    <3>1. left # {}
      BY <1>1, <2>2 DEF ResolveInv
    <3>2. Waiting(left)
      BY <1>1, <2>2 DEF ResolveInv, Waiting, Needs
    <3> QED BY <3>1, <3>2
  <2> QED BY <2>1, <2>2 DEF ResolvesOrReports, Waiting
<1> QED BY <1>1, ResolveInvariance, PTL

\* The order of the sources implements DependencyOrder: once each, and after
\* all that it needs of those that are there.
THEOREM SourcesOrdered == ResolveSpec => SourcesInOrder
<1>1. ResolveInit => SourceSorting!Init
  BY DEF ResolveInit, SourceSorting!Init, Needs
<1>2. ASSUME ResolveInv, [ResolveNext]_resolveVars
      PROVE  [SourceSorting!Next]_SourceSorting!vars
  <2>1. CASE \E S \in SUBSET SourceNames, D \in [SourceNames -> SUBSET SourceNames] :
                 Resolve(S, D)
    <3>1. sourceOrder = <<>> /\ sourceOrder' = sourceOrder
      BY <1>2, <2>1 DEF Resolve, ResolveInv
    <3>2. sourceDeps' \in [SourceNames -> SUBSET SourceNames]
      BY <2>1 DEF Resolve
    <3>3. NeedsOf' \in [SourceNames -> SUBSET SourceNames]
      BY <3>2 DEF NeedsOf, Needs
    <3> QED BY <3>1, <3>3 DEF SourceSorting!Next, SourceSorting!Learn, NeedsOf
  <2>2. ASSUME NEW s \in SourceNames, EmitSource(s) PROVE SourceSorting!Next
    <3>1. /\ s \notin Ordered /\ Needs(s) \subseteq Ordered
          /\ sourceOrder' = Append(sourceOrder, s)
          /\ sources' = sources /\ sourceDeps' = sourceDeps
      <4>1. s \in sources \ Ordered /\ pending[s] = Cardinality(Needs(s) \ Ordered)
            /\ pending[s] = 0
        BY <1>2, <2>2 DEF EmitSource, NextSource, Ready, ResolveInv
      <4>2. Needs(s) \subseteq Ordered
        BY <1>2, <4>1, NeedsFinite, RemainingFinite DEF ResolveInv
      <4> QED BY <2>2, <4>1, <4>2 DEF EmitSource
    <3>2. NeedsOf' = NeedsOf /\ NeedsOf[s] = Needs(s)
      BY <3>1 DEF NeedsOf, Needs
    <3>3. SourceSorting!Emit(s)
      BY <3>1, <3>2 DEF SourceSorting!Emit, SourceSorting!Emitted, Ordered, NeedsOf
    <3> QED BY <3>3 DEF SourceSorting!Next
  <2>3. CASE FinishResolve \/ UNCHANGED resolveVars
    <3>1. UNCHANGED <<sources, sourceDeps, sourceOrder>>
      BY <2>3 DEF FinishResolve, resolveVars
    <3> QED BY <3>1 DEF SourceSorting!vars, Needs
  <2> QED BY <1>2, <2>1, <2>2, <2>3 DEF ResolveNext, ResolveStep
<1> QED BY <1>1, <1>2, ResolveInvariance, PTL
        DEF ResolveSpec, SourcesInOrder, SourceSorting!Spec

-----------------------------------------------------------------------------
(***************************************************************************)
(* Start.  Its steps are steps of LoadPlugins, of Resolve or of neither,   *)
(* so that what was proved of the two holds of it; StartInv is what ties   *)
(* them together: nothing is registered before plugins are loaded, and     *)
(* what was registered does not change afterwards.                         *)
(***************************************************************************)
SettingsInv == /\ core \subseteq CoreSources
               /\ migrating \subseteq Names
               /\ requires \in [Names -> SUBSET (Names \cup CoreSources)]

Later == {"migrations", "openapi", "endpoints", "serving"}

StartInv == /\ stage \in Stages
            /\ migrated \in Seq(SourceNames)
            /\ documented \subseteq Names
            /\ stage = "plugins" => resolver = "idle"
            /\ stage \in Later \/ resolver # "idle" => phase = "done"
            /\ resolver # "idle" => /\ sources = RegisteredSources
                                    /\ sourceDeps = MappedDependencies
            /\ migrated # <<>> => resolver = "ordered" /\ migrated = sourceOrder
            /\ stage \in {"endpoints", "serving"} /\ OpenAPI \in Loaded => documented = Loaded

\* The settings are read once.
LEMMA SettingsInvariance == Spec => []SettingsInv
<1>1. Init => SettingsInv
  BY MigratingAssumption DEF Init, SettingsInv
<1>2. [Next]_vars => UNCHANGED settings
  BY DEF Next, Step, Mishap, LoadPlugins, PluginFails, LoadingFails, RegisterSources,
         NothingToMigrate, ResolveSources, Migrate, CycleFound, MigrationFails,
         ReinitializeOpenAPI, ReinitializationFails, NoOpenAPI, SetupEndpoints, SetupFails, vars
<1>3. SettingsInv /\ UNCHANGED settings => SettingsInv'
  BY DEF SettingsInv, settings
<1> QED BY <1>1, <1>2, <1>3, PTL DEF Spec

\* Start loads plugins as LoadPlugins does.
THEOREM StartLoads == Spec => LoadSpec
<1>1. Init => \E s \in Setups : LoadInit(s)
  BY DEF Init
<1>2. [Next]_vars => [LoadNext]_loadVars
  <2> SUFFICES ASSUME [Next]_vars, ~UNCHANGED loadVars PROVE LoadNext
    OBVIOUS
  <2>1. LoadPlugins \/ PluginFails
    BY DEF Next, Step, Mishap, LoadingFails, RegisterSources,
           NothingToMigrate, ResolveSources, Migrate, CycleFound, MigrationFails,
           ReinitializeOpenAPI, ReinitializationFails, NoOpenAPI, SetupEndpoints, SetupFails, vars
  <2> QED BY <2>1 DEF LoadPlugins, PluginFails, LoadNext
<1> QED BY <1>1, <1>2, PTL DEF Spec, LoadSpec

LEMMA RegisteredTypes ==
  ASSUME LoadTypeOK, SettingsInv
  PROVE  /\ RegisteredSources \in SUBSET SourceNames
         /\ MappedDependencies \in [SourceNames -> SUBSET SourceNames]
<1>1. Providers \subseteq Names
  BY DEF SettingsInv, Providers
<1>2. \A n \in Providers : SourceOf[n] \in SourceNames
  BY <1>1, SourceAssumption
<1>3. RegisteredSources \in SUBSET SourceNames
  BY <1>2, SourceAssumption DEF RegisteredSources, SettingsInv
<1>4. ASSUME NEW s \in SourceNames PROVE MappedDependencies[s] \in SUBSET SourceNames
  BY <1>2 DEF MappedDependencies
<1> QED BY <1>3, <1>4 DEF MappedDependencies

\* Start orders the sources as Resolve does.
THEOREM StartResolves == Spec => ResolveSpec
<1>1. Init => ResolveInit
  BY DEF Init
<1>2. ASSUME LoadInv, SettingsInv, [Next]_vars PROVE [ResolveNext]_resolveVars
  <2> SUFFICES ASSUME ~UNCHANGED resolveVars PROVE ResolveNext
    OBVIOUS
  <2>1. RegisterSources \/ ResolveSources
    BY <1>2 DEF Next, Step, Mishap, LoadPlugins, PluginFails, LoadingFails,
           NothingToMigrate, Migrate, CycleFound, MigrationFails,
           ReinitializeOpenAPI, ReinitializationFails, NoOpenAPI, SetupEndpoints, SetupFails, vars
  <2>2. CASE RegisterSources
    BY <1>2, <2>2, RegisteredTypes DEF RegisterSources, ResolveNext, LoadInv
  <2>3. CASE ResolveSources
    BY <2>3 DEF ResolveSources, ResolveNext
  <2> QED BY <2>1, <2>2, <2>3
<1>3. Spec => []LoadInv
  BY StartLoads, LoadInvariance, PTL
<1> QED BY <1>1, <1>2, <1>3, SettingsInvariance, PTL DEF Spec, ResolveSpec

\* While neither plugins nor settings change, neither does what is registered.
LEMMA RegisteredUnchanged ==
  ASSUME UNCHANGED loaded, UNCHANGED settings
  PROVE  /\ Loaded' = Loaded
         /\ RegisteredSources' = RegisteredSources
         /\ MappedDependencies' = MappedDependencies
<1>1. Loaded' = Loaded /\ Providers' = Providers
  BY DEF Loaded, Providers, settings
<1> QED BY <1>1 DEF RegisteredSources, MappedDependencies, settings

\* The stages in which plugins are loaded leave the sources alone.
LEMMA PluginStageKeeps ==
  ASSUME LoadInv, StartInv, LoadPlugins \/ PluginFails \/ LoadingFails
  PROVE  StartInv'
<1>1. /\ stage = "plugins" /\ stage' \in {"plugins", "exited"} /\ resolver = "idle"
      /\ UNCHANGED <<resolver, sources, sourceDeps, migrated, documented>>
  BY DEF LoadPlugins, PluginFails, LoadingFails, Enter, resolveVars, StartInv
<1>2. migrated = <<>>
  BY <1>1 DEF StartInv
<1> QED BY <1>1, <1>2 DEF StartInv, Later, Stages

LEMMA RegisterKeeps ==
  ASSUME StartInv, RegisterSources
  PROVE  StartInv'
<1>1. /\ phase = "done" /\ phase' = "done" /\ stage' = "migrations" /\ resolver' = "sorting"
      /\ resolver = "idle"
      /\ sources' = RegisteredSources /\ sourceDeps' = MappedDependencies
      /\ UNCHANGED <<loaded, settings, migrated, documented>>
  BY DEF RegisterSources, Resolve, Enter, StartInv, loadVars, registry
<1>2. /\ RegisteredSources' = RegisteredSources
      /\ MappedDependencies' = MappedDependencies
  BY <1>1, RegisteredUnchanged
<1>3. migrated = <<>>
  BY <1>1 DEF StartInv
<1> QED BY <1>1, <1>2, <1>3 DEF StartInv, Later, Stages

\* Sources come out without the registered ones changing.
LEMMA ResolvingKeeps ==
  ASSUME StartInv, ResolveSources
  PROVE  StartInv'
<1>1. /\ stage = "migrations" /\ resolver = "sorting" /\ resolver' \in {"sorting", "ordered", "circular"}
      /\ UNCHANGED <<stage, phase, loaded, sources, sourceDeps, settings, migrated, documented>>
  BY DEF ResolveSources, ResolveStep, EmitSource, FinishResolve, loadVars, registry
<1>2. /\ RegisteredSources' = RegisteredSources /\ Loaded' = Loaded
      /\ MappedDependencies' = MappedDependencies
  BY <1>1, RegisteredUnchanged
<1>3. migrated = <<>>
  BY <1>1 DEF StartInv
<1> QED BY <1>1, <1>2, <1>3 DEF StartInv, Later, Stages

\* Every other step leaves plugins and sources as they are.
LEMMA LaterStageKeeps ==
  ASSUME LoadInv, ResolveInv, StartInv,
         \/ NothingToMigrate \/ CycleFound \/ Migrate \/ MigrationFails
         \/ ReinitializeOpenAPI \/ ReinitializationFails \/ NoOpenAPI
         \/ SetupEndpoints \/ SetupFails \/ UNCHANGED vars
  PROVE  StartInv'
<1>1. UNCHANGED <<phase, loaded, resolver, sources, sourceDeps, sourceOrder, settings>>
  BY DEF NothingToMigrate, CycleFound, Migrate, MigrationFails, ReinitializeOpenAPI,
         ReinitializationFails, NoOpenAPI, SetupEndpoints, SetupFails, vars,
         loadVars, resolveVars, registry
<1>2. /\ RegisteredSources' = RegisteredSources /\ Loaded' = Loaded
      /\ MappedDependencies' = MappedDependencies
  BY <1>1, RegisteredUnchanged
<1>3. Loaded \subseteq Names
  BY ElementOfSeq DEF LoadInv, LoadTypeOK, Loaded
<1>4. stage' \in Stages /\ (stage' = "plugins" => stage = "plugins")
  BY DEF NothingToMigrate, CycleFound, Migrate, MigrationFails, ReinitializeOpenAPI,
         ReinitializationFails, NoOpenAPI, SetupEndpoints, SetupFails, vars, Enter,
         StartInv, Stages
<1>5. stage' \in Later => phase = "done"
  BY DEF NothingToMigrate, CycleFound, Migrate, MigrationFails, ReinitializeOpenAPI,
         ReinitializationFails, NoOpenAPI, SetupEndpoints, SetupFails, vars, Enter,
         StartInv, Later
<1>6. \/ migrated' = migrated
      \/ resolver = "ordered" /\ migrated' = sourceOrder
  BY DEF NothingToMigrate, CycleFound, Migrate, MigrationFails, ReinitializeOpenAPI,
         ReinitializationFails, NoOpenAPI, SetupEndpoints, SetupFails, vars
<1>7. /\ documented' \in {documented, Loaded}
      /\ stage' \in {"endpoints", "serving"} /\ OpenAPI \in Loaded => documented' = Loaded
  BY DEF NothingToMigrate, CycleFound, Migrate, MigrationFails, ReinitializeOpenAPI,
         ReinitializationFails, NoOpenAPI, SetupEndpoints, SetupFails, vars, Enter,
         StartInv
<1>8. migrated' \in Seq(SourceNames)
  BY <1>6 DEF StartInv, ResolveInv, ResolveTypeOK
<1> QED BY <1>1, <1>2, <1>3, <1>4, <1>5, <1>6, <1>7, <1>8 DEF StartInv

Inv == LoadInv /\ ResolveInv /\ SettingsInv /\ StartInv

\* What the three invariants say together holds in every reachable state.
THEOREM StartInvariance == Spec => []Inv
<1>1. Init => StartInv
  BY EmptySeq DEF Init, ResolveInit, StartInv, Stages, Later
<1>2. LoadInv /\ ResolveInv /\ StartInv /\ [Next]_vars => StartInv'
  BY PluginStageKeeps, RegisterKeeps, ResolvingKeeps, LaterStageKeeps DEF Next, Step, Mishap
<1>3. Spec => []LoadInv
  BY StartLoads, LoadInvariance, PTL
<1>4. Spec => []ResolveInv
  BY StartResolves, ResolveInvariance, PTL
<1> QED BY <1>1, <1>2, <1>3, <1>4, SettingsInvariance, PTL DEF Spec, Inv

\* Type correctness.
THEOREM TypeCorrect == Spec => []TypeOK
<1>1. Inv => TypeOK
  BY DEF Inv, LoadInv, ResolveInv, SettingsInv, StartInv, TypeOK
<1> QED BY <1>1, StartInvariance, PTL

\* What LoadPlugins and Resolve promise holds when Start calls them.
THEOREM StartKeepsPromises ==
  Spec => /\ []DependenciesInjected
          /\ []OrderedUnlessCyclic
          /\ PluginsInOrder
          /\ SourcesInOrder
BY StartLoads, StartResolves, DependenciesComeInjected, CyclesRefused, PluginsOrdered,
   ResolvesOrReportsCycle, SourcesOrdered, PTL DEF OrderedUnlessCyclic

\* The migrations of a plugin are executed after those of the plugins it
\* requires, in whatever order maps are iterated and plugins come.
THEOREM MigrationsFollow == Spec => []PluginMigrationsFollow
<1>1. ASSUME Inv, migrated # <<>>,
             NEW n \in Providers, NEW d \in requires[n] \cap Providers
      PROVE  Before(SourceOf[d], SourceOf[n])
  <2>1. /\ migrated = sourceOrder /\ resolver = "ordered"
        /\ sources = RegisteredSources /\ sourceDeps = MappedDependencies
        /\ sourceOrder \in Seq(SourceNames)
    BY <1>1 DEF Inv, StartInv, ResolveInv, ResolveTypeOK
  <2>2. n \in Names /\ d \in Names /\ SourceOf[n] \in SourceNames
    BY <1>1, SourceAssumption DEF Providers, Inv, SettingsInv
  <2>3. SourceOf[n] \in sources /\ SourceOf[d] \in sources
    BY <2>1 DEF RegisteredSources
  <2>4. SourceOf[d] \in sourceDeps[SourceOf[n]]
    <3>1. n \in {p \in Providers : SourceOf[p] = SourceOf[n]}
      OBVIOUS
    <3>2. SourceOf[d] \in {SourceOf[c] : c \in requires[n] \cap Providers}
      OBVIOUS
    <3> QED BY <2>1, <2>2, <3>1, <3>2 DEF MappedDependencies
  <2>5. SourceOf[n] \in Ordered
    BY <1>1, <2>1, <2>3 DEF Inv, ResolveInv
  <2>6. PICK j \in 1..Len(sourceOrder) : sourceOrder[j] = SourceOf[n]
    BY <2>5 DEF Ordered
  <2>7. SourceOf[d] \in NeedsOf[sourceOrder[j]]
    BY <2>2, <2>3, <2>4, <2>6 DEF NeedsOf, Needs
  <2>8. PICK i \in 1..(j - 1) : sourceOrder[i] = SourceOf[d]
    BY <1>1, <2>7 DEF Inv, ResolveInv, Follows
  <2>9. i \in DOMAIN sourceOrder /\ j \in DOMAIN sourceOrder /\ i < j
    BY <2>1, <2>6, <2>8, LenProperties
  <2> QED BY <2>1, <2>6, <2>8, <2>9 DEF Before
<1>2. Inv => PluginMigrationsFollow
  BY <1>1 DEF PluginMigrationsFollow
<1> QED BY <1>2, StartInvariance, PTL

\* When the server serves, openapi was last initialised with the registry of
\* all enabled plugins.
THEOREM OpenAPIComplete == Spec => []OpenAPIDocumentsAll
<1>1. ASSUME Inv, stage = "serving", OpenAPI \in Enabled PROVE documented = Enabled
  <2>1. Loaded = Enabled
    BY <1>1, AllLoaded DEF Inv, StartInv, Later
  <2> QED BY <1>1, <2>1 DEF Inv, StartInv
<1>2. Inv => OpenAPIDocumentsAll
  BY <1>1 DEF OpenAPIDocumentsAll
<1> QED BY <1>2, StartInvariance, PTL
=============================================================================
