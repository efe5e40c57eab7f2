----------------------------- MODULE RunqLemmas -----------------------------
(***************************************************************************)
(* What the operations of SchedFp return, for every run queue and affinity *)
(* mask: the facts about sequences that the proofs about Schedule cite.    *)
(***************************************************************************)
EXTENDS ScheduleInv, NaturalsInduction, WellFoundedInduction, SequenceTheorems,
        FiniteSetTheorems, TLAPS

Elems(q) == {q[i] : i \in 1 .. Len(q)}

(* A non-empty set of naturals has a minimum, the one FiniteSetsExt!Min     *)
(* chooses; list scans and cpumask_cycle() are expressed with it.           *)
LEMMA MinIsLeast ==
  ASSUME NEW S, S \subseteq Nat, S # {}
  PROVE  Min(S) \in S /\ \A x \in S : Min(S) <= x
<1>1. PICK m \in S : \A y \in S : <<y, m>> \notin OpToRel(<, Nat)
  BY NatLessThanWellFounded, WFMin
<1>2. \A y \in S : ~(y < m)
  BY <1>1, Zenon DEF OpToRel
<1>3. \A y \in S : m <= y
  BY <1>2
<1>. QED BY <1>3 DEF Min

------------------------------------------------------------------------------
(* The mean queue position *)

(* f is the sum of p over the subsets of S, taken element by element as     *)
(* MapThenSumSet does.                                                      *)
Fold(f, p, S) ==
  f = [s \in SUBSET S |-> IF s = {} THEN 0
                          ELSE p[CHOOSE x \in s : TRUE] + f[s \ {CHOOSE x \in s : TRUE}]]

(* f is that for the subsets of at most n elements. *)
FoldUpTo(f, p, S, n) ==
  \A s \in SUBSET S : Cardinality(s) <= n =>
    f[s] = IF s = {} THEN 0
           ELSE p[CHOOSE x \in s : TRUE] + f[s \ {CHOOSE x \in s : TRUE}]

(* Taking the chosen element out of a finite set makes it smaller. *)
LEMMA Smaller ==
  ASSUME NEW S, IsFiniteSet(S), NEW s \in SUBSET S, s # {}
  PROVE  /\ (CHOOSE x \in s : TRUE) \in s
         /\ s \ {CHOOSE x \in s : TRUE} \in SUBSET S
         /\ Cardinality(s) \in Nat
         /\ Cardinality(s \ {CHOOSE x \in s : TRUE}) = Cardinality(s) - 1
<1>1. (CHOOSE x \in s : TRUE) \in s
  OBVIOUS
<1>2. IsFiniteSet(s)
  BY FS_Subset
<1>3. Cardinality(s) \in Nat
  BY <1>2, FS_CardinalityType
<1>4. Cardinality(s \ {CHOOSE x \in s : TRUE}) = Cardinality(s) - 1
  BY <1>1, <1>2, FS_RemoveElement
<1>. QED BY <1>1, <1>3, <1>4

(* The recursion that defines the sum has a solution: one for the sets of   *)
(* at most n elements extends to those of n + 1, and there is no least n    *)
(* without one.                                                             *)
LEMMA FoldExists ==
  ASSUME NEW S, IsFiniteSet(S), NEW p, \A x \in S : p[x] \in Nat
  PROVE  \E f : Fold(f, p, S)
<1>. DEFINE el(s) == CHOOSE x \in s : TRUE
            N == {n \in Nat : \E f \in [SUBSET S -> Nat] : FoldUpTo(f, p, S, n)}
<1>1. 0 \in N
  <2>. DEFINE f == [s \in SUBSET S |-> 0]
  <2>1. f \in [SUBSET S -> Nat]
    OBVIOUS
  <2>2. ASSUME NEW s \in SUBSET S, Cardinality(s) <= 0 PROVE s = {}
    BY <2>2, FS_Subset, FS_EmptySet, FS_CardinalityType
  <2>3. FoldUpTo(f, p, S, 0)
    BY <2>2 DEF FoldUpTo
  <2>. QED BY <2>1, <2>3
<1>2. ASSUME NEW n \in N PROVE n + 1 \in N
  <2>1. PICK f \in [SUBSET S -> Nat] : FoldUpTo(f, p, S, n)
    OBVIOUS
  <2>. DEFINE g == [s \in SUBSET S |-> IF Cardinality(s) <= n THEN f[s]
                                       ELSE p[el(s)] + f[s \ {el(s)}]]
  <2>0. n \in Nat
    OBVIOUS
  <2>2. ASSUME NEW s \in SUBSET S, s # {}
        PROVE  p[el(s)] \in Nat /\ s \ {el(s)} \in SUBSET S /\ Cardinality(s) \in Nat
               /\ Cardinality(s \ {el(s)}) = Cardinality(s) - 1
    BY <2>2, Smaller
  <2>3. Cardinality({}) = 0
    BY FS_EmptySet
  <2>. HIDE DEF el
  <2>4. g \in [SUBSET S -> Nat]
    <3>. SUFFICES ASSUME NEW s \in SUBSET S, ~(Cardinality(s) <= n)
                  PROVE  p[el(s)] + f[s \ {el(s)}] \in Nat
      OBVIOUS
    <3>1. ASSUME s = {} PROVE FALSE
      <4>1. Cardinality(s) = 0
        BY <2>3, <3>1
      <4>. QED BY <2>0, <4>1
    <3>. QED BY <2>2, <3>1
  <2>5. ASSUME NEW s \in SUBSET S, Cardinality(s) <= n + 1
        PROVE  g[s] = IF s = {} THEN 0 ELSE p[el(s)] + g[s \ {el(s)}]
    <3>1. CASE s = {}
      BY <2>0, <2>1, <2>3, <3>1 DEF FoldUpTo
    <3>2. CASE s # {}
      <4>1. Cardinality(s \ {el(s)}) <= n /\ s \ {el(s)} \in SUBSET S
        BY <2>0, <2>2, <2>5, <3>2
      <4>2. g[s \ {el(s)}] = f[s \ {el(s)}]
        BY <4>1
      <4>3. g[s] = p[el(s)] + f[s \ {el(s)}]
        <5>1. CASE Cardinality(s) <= n
          BY <2>1, <3>2, <5>1 DEF FoldUpTo, el
        <5>2. CASE ~(Cardinality(s) <= n)
          BY <5>2
        <5>. QED BY <5>1, <5>2
      <4>. QED BY <3>2, <4>2, <4>3
    <3>. QED BY <3>1, <3>2
  <2>6. FoldUpTo(g, p, S, n + 1)
    BY <2>5 DEF FoldUpTo, el
  <2>. HIDE DEF g
  <2>7. \E h \in [SUBSET S -> Nat] : FoldUpTo(h, p, S, n + 1)
    BY <2>4, <2>6
  <2>8. n + 1 \in Nat
    BY <2>0
  <2>. QED BY <2>7, <2>8, Zenon
<1>3. N = Nat
  <2>. SUFFICES ASSUME Nat \ N # {} PROVE FALSE
    OBVIOUS
  <2>. HIDE DEF N
  <2>1. PICK m \in Nat \ N : \A x \in Nat \ N : m <= x
    BY MinIsLeast
  <2>2. m # 0 /\ m - 1 \in Nat
    BY <1>1
  <2>3. m - 1 \in N
    BY <2>1, <2>2
  <2>. QED BY <1>2, <2>1, <2>2, <2>3
<1>4. Cardinality(S) \in Nat
  BY FS_CardinalityType
<1>5. PICK f \in [SUBSET S -> Nat] : FoldUpTo(f, p, S, Cardinality(S))
  BY <1>3, <1>4
<1>6. \A s \in SUBSET S : Cardinality(s) <= Cardinality(S)
  BY FS_Subset
<1>. QED BY <1>5, <1>6 DEF Fold, FoldUpTo

SumOver(p, S) == MapThenSumSet(LAMBDA x : p[x], S)

(* A sum of naturals over a finite set is a natural: a smallest set whose   *)
(* sum is not would have a smaller one.                                     *)
LEMMA SumTyped ==
  ASSUME NEW S, IsFiniteSet(S), NEW p, \A x \in S : p[x] \in Nat
  PROVE  SumOver(p, S) \in Nat
<1>. DEFINE F == CHOOSE f : Fold(f, p, S)
            B == {n \in Nat : \E s \in SUBSET S : Cardinality(s) = n /\ F[s] \notin Nat}
<1>1. Fold(F, p, S)
  BY FoldExists
<1>2. SumOver(p, S) = F[S]
  BY DEF SumOver, MapThenSumSet, MapThenFoldSet, Fold
<1>. HIDE DEF F
<1>3. B = {}
  <2>. SUFFICES ASSUME B # {} PROVE FALSE
    OBVIOUS
  <2>1. PICK m \in B : \A x \in B : m <= x
    BY MinIsLeast
  <2>2. PICK s \in SUBSET S : Cardinality(s) = m /\ F[s] \notin Nat
    OBVIOUS
  <2>3. s # {}
    BY <1>1, <2>2 DEF Fold
  <2>. DEFINE e == CHOOSE x \in s : TRUE
  <2>4. e \in s /\ s \ {e} \in SUBSET S /\ m \in Nat /\ Cardinality(s \ {e}) = m - 1
    BY <2>2, <2>3, Smaller
  <2>5. F[s] = p[e] + F[s \ {e}]
    BY <1>1, <2>3 DEF Fold
  <2>. HIDE DEF e
  <2>6. F[s \ {e}] \notin Nat
    BY <2>2, <2>4, <2>5
  <2>7. m - 1 \in Nat
    <3>1. Cardinality(s \ {e}) \in Nat
      BY <2>4, FS_Subset, FS_CardinalityType
    <3>. QED BY <2>4, <3>1
  <2>8. m - 1 \in B
    BY <2>4, <2>6, <2>7
  <2>. QED BY <2>1, <2>4, <2>8
<1>4. Cardinality(S) \in Nat
  BY FS_CardinalityType
<1>5. F[S] \in Nat
  BY <1>3, <1>4
<1>. QED BY <1>2, <1>5

(* The priority handlers of the three strategies yield a number: the mean   *)
(* of fp_prio_handler is taken over the domain of a vCPU, which has one.    *)
LEMMA PrioHandlerTyped ==
  ASSUME TypeOK, NEW v \in Vcpus, NEW prio \in Int, NEW pos \in [Vcpus -> Nat]
  PROVE  PrioHandler(VcpuDomain[v], prio, pos) \in Int
<1>. DEFINE d == VcpuDomain[v]
            vs == {w \in Vcpus : VcpuDomain[w] = d}
            sum == SumOver(pos, vs)
<1>1. IsFiniteSet(vs) /\ v \in vs
  BY ConfigAssumption, FS_Subset DEF ConfigAssumption
<1>2. Cardinality(vs) \in Nat /\ Cardinality(vs) # 0
  BY <1>1, FS_CardinalityType, FS_EmptySet
<1>3. sum \in Nat
  BY <1>1, SumTyped
<1>4. PrioHandler(d, prio, pos) = CASE strategy = "FP" -> prio
        [] strategy # "FP" /\ d = Dom0 -> VM_DOM0_PRIO
        [] strategy # "FP" /\ d # Dom0 -> VM_DOM0_PRIO - sum \div Cardinality(vs) - 1
  BY DEF PrioHandler, SumOver
<1>. HIDE DEF d, vs, sum
<1>5. sum \div Cardinality(vs) \in Int
  BY <1>2, <1>3
<1>. QED BY <1>4, <1>5 DEF VM_DOM0_PRIO, d

------------------------------------------------------------------------------
(* Run queues *)

(* The scan of __runq_insert stops at an element or at the list's head.     *)
LEMMA InsertionPointInRange ==
  ASSUME NEW q \in Seq(Vcpus), NEW v
  PROVE  InsertionPoint(q, v) \in 1 .. Len(q) + 1
<1>. DEFINE S == {i \in 1 .. Len(q) + 1 : i = Len(q) + 1 \/ compare(v, q[i])}
<1>1. Len(q) + 1 \in S
  OBVIOUS
<1>2. Min(S) \in S
  <2>1. S \subseteq Nat /\ S # {}
    BY <1>1
  <2>. QED BY <2>1, MinIsLeast
<1>. QED BY <1>2 DEF InsertionPoint

(* list_add_tail() at position k, element by element. *)
LEMMA InsertAtElements ==
  ASSUME NEW q \in Seq(Vcpus), NEW v \in Vcpus, NEW k \in 1 .. Len(q) + 1
  PROVE  /\ InsertAt(q, k, v) \in Seq(Vcpus)
         /\ Len(InsertAt(q, k, v)) = Len(q) + 1
         /\ \A i \in 1 .. Len(q) + 1 :
              InsertAt(q, k, v)[i] = IF i < k THEN q[i] ELSE IF i = k THEN v ELSE q[i - 1]
<1>. DEFINE a == SubSeq(q, 1, k - 1)
            b == SubSeq(q, k, Len(q))
            ae == a \o <<v>>
<1>0. Len(q) \in Nat /\ \A i \in 1 .. Len(q) : q[i] \in Vcpus
  OBVIOUS
<1>1. a \in Seq(Vcpus) /\ Len(a) = k - 1 /\ \A i \in 1 .. k - 1 : a[i] = q[i]
  <2>1. \A i \in 1 .. k - 1 : q[i] \in Vcpus
    BY <1>0
  <2>. QED BY <1>0, <2>1, SubSeqProperties
<1>2. b \in Seq(Vcpus) /\ Len(b) = Len(q) - k + 1
        /\ \A i \in 1 .. Len(q) - k + 1 : b[i] = q[k + i - 1]
  <2>1. \A i \in k .. Len(q) : q[i] \in Vcpus
    BY <1>0
  <2>. QED BY <1>0, <2>1, SubSeqProperties
<1>. HIDE DEF a, b
<1>3. <<v>> \in Seq(Vcpus) /\ Len(<<v>>) = 1 /\ <<v>>[1] = v
  OBVIOUS
<1>4. ae \in Seq(Vcpus) /\ Len(ae) = k
        /\ \A i \in 1 .. k : ae[i] = IF i < k THEN q[i] ELSE v
  BY <1>1, <1>3, ConcatProperties
<1>. HIDE DEF ae
<1>5. /\ ae \o b \in Seq(Vcpus)
      /\ Len(ae \o b) = Len(q) + 1
      /\ \A i \in 1 .. Len(q) + 1 : (ae \o b)[i] = IF i <= k THEN ae[i] ELSE b[i - k]
  <2>1. /\ ae \o b \in Seq(Vcpus)
        /\ Len(ae \o b) = Len(ae) + Len(b)
        /\ \A i \in 1 .. Len(ae) + Len(b) :
             (ae \o b)[i] = IF i <= Len(ae) THEN ae[i] ELSE b[i - Len(ae)]
    BY <1>2, <1>4, ConcatProperties, Zenon
  <2>2. Len(ae) + Len(b) = Len(q) + 1
    BY <1>0, <1>2, <1>4
  <2>. QED BY <2>1, <2>2, <1>4
<1>6. InsertAt(q, k, v) = ae \o b
  BY DEF InsertAt, ae, a, b
<1>7. \A i \in 1 .. Len(q) + 1 :
        (ae \o b)[i] = IF i < k THEN q[i] ELSE IF i = k THEN v ELSE q[i - 1]
  <2>. SUFFICES ASSUME NEW i \in 1 .. Len(q) + 1
                PROVE (ae \o b)[i] = IF i < k THEN q[i] ELSE IF i = k THEN v ELSE q[i - 1]
    OBVIOUS
  <2>1. CASE i <= k
    BY <2>1, <1>0, <1>4, <1>5
  <2>2. CASE i > k
    <3>1. i - k \in 1 .. Len(q) - k + 1 /\ k + (i - k) - 1 = i - 1
      BY <2>2, <1>0
    <3>2. b[i - k] = q[k + (i - k) - 1]
      BY <3>1, <1>2
    <3>. QED BY <3>1, <3>2, <2>2, <1>5
  <2>3. i <= k \/ i > k
    BY <1>0
  <2>. QED BY <2>1, <2>2, <2>3, Zenon
<1>. QED BY <1>5, <1>6, <1>7

(* list_del_init() of the element at position k. *)
LEMMA RemoveAtElements ==
  ASSUME NEW q \in Seq(Vcpus), NEW k \in 1 .. Len(q)
  PROVE  /\ RemoveAt(q, k) \in Seq(Vcpus)
         /\ Len(RemoveAt(q, k)) = Len(q) - 1
         /\ \A i \in 1 .. Len(q) - 1 :
              RemoveAt(q, k)[i] = IF i < k THEN q[i] ELSE q[i + 1]
<1>. DEFINE a == SubSeq(q, 1, k - 1)
            b == SubSeq(q, k + 1, Len(q))
<1>0. Len(q) \in Nat /\ \A i \in 1 .. Len(q) : q[i] \in Vcpus
  OBVIOUS
<1>1. a \in Seq(Vcpus) /\ Len(a) = k - 1 /\ \A i \in 1 .. k - 1 : a[i] = q[i]
  <2>1. \A i \in 1 .. k - 1 : q[i] \in Vcpus
    BY <1>0
  <2>. QED BY <1>0, <2>1, SubSeqProperties
<1>2. b \in Seq(Vcpus) /\ Len(b) = Len(q) - k
        /\ \A i \in 1 .. Len(q) - k : b[i] = q[k + i]
  <2>1. \A i \in k + 1 .. Len(q) : q[i] \in Vcpus
    BY <1>0
  <2>. QED BY <1>0, <2>1, SubSeqProperties
<1>. HIDE DEF a, b
<1>3. /\ a \o b \in Seq(Vcpus)
      /\ Len(a \o b) = Len(q) - 1
      /\ \A i \in 1 .. Len(q) - 1 : (a \o b)[i] = IF i <= k - 1 THEN a[i] ELSE b[i - (k - 1)]
  <2>1. /\ a \o b \in Seq(Vcpus)
        /\ Len(a \o b) = Len(a) + Len(b)
        /\ \A i \in 1 .. Len(a) + Len(b) :
             (a \o b)[i] = IF i <= Len(a) THEN a[i] ELSE b[i - Len(a)]
    BY <1>1, <1>2, ConcatProperties, Zenon
  <2>2. Len(a) + Len(b) = Len(q) - 1
    BY <1>0, <1>1, <1>2
  <2>. QED BY <2>1, <2>2, <1>1
<1>4. RemoveAt(q, k) = a \o b
  BY DEF RemoveAt, a, b
<1>5. \A i \in 1 .. Len(q) - 1 : (a \o b)[i] = IF i < k THEN q[i] ELSE q[i + 1]
  <2>. SUFFICES ASSUME NEW i \in 1 .. Len(q) - 1
                PROVE (a \o b)[i] = IF i < k THEN q[i] ELSE q[i + 1]
    OBVIOUS
  <2>1. CASE i < k
    BY <2>1, <1>0, <1>1, <1>3
  <2>2. CASE i >= k
    <3>1. i - (k - 1) \in 1 .. Len(q) - k /\ k + (i - (k - 1)) = i + 1
      BY <2>2, <1>0
    <3>2. b[i - (k - 1)] = q[k + (i - (k - 1))]
      BY <3>1, <1>2
    <3>3. ~(i <= k - 1)
      BY <2>2, <1>0
    <3>4. (a \o b)[i] = b[i - (k - 1)]
      BY <3>3, <1>3, Zenon
    <3>. QED BY <3>1, <3>2, <3>4, <2>2
  <2>3. i < k \/ i >= k
    BY <1>0
  <2>. QED BY <2>1, <2>2, <2>3, Zenon
<1>. QED BY <1>3, <1>4, <1>5

(* __runq_insert adds the vCPU and nothing else; a queue that holds every   *)
(* vCPU once still does if the vCPU was not on it.                          *)
LEMMA InsertIntoElems ==
  ASSUME NEW q \in Seq(Vcpus), NEW v \in Vcpus
  PROVE  /\ InsertInto(q, v) \in Seq(Vcpus)
         /\ Elems(InsertInto(q, v)) = Elems(q) \cup {v}
         /\ Once(q) /\ v \notin Elems(q) => Once(InsertInto(q, v))
<1>. DEFINE k == InsertionPoint(q, v)
            r == InsertInto(q, v)
<1>0. Len(q) \in Nat
  OBVIOUS
<1>1. k \in 1 .. Len(q) + 1
  BY InsertionPointInRange
<1>. HIDE DEF k
<1>2. /\ r \in Seq(Vcpus)
      /\ Len(r) = Len(q) + 1
      /\ \A i \in 1 .. Len(q) + 1 :
           r[i] = IF i < k THEN q[i] ELSE IF i = k THEN v ELSE q[i - 1]
  BY <1>1, InsertAtElements, ZenonT(30) DEF InsertInto, k
<1>. HIDE DEF r
<1>3. ASSUME NEW i \in 1 .. Len(r)
      PROVE  r[i] \in Elems(q) \cup {v}
  <2>1. CASE i < k
    <3>1. i \in 1 .. Len(q) /\ r[i] = q[i]
      BY <2>1, <1>0, <1>1, <1>2
    <3>. QED BY <3>1 DEF Elems
  <2>2. CASE i = k
    BY <2>2, <1>0, <1>1, <1>2
  <2>3. CASE i > k
    <3>1. i - 1 \in 1 .. Len(q) /\ r[i] = q[i - 1]
      BY <2>3, <1>0, <1>1, <1>2
    <3>. QED BY <3>1 DEF Elems
  <2>. QED BY <1>0, <1>1, <1>2, <2>1, <2>2, <2>3
<1>4. v \in Elems(r)
  BY <1>0, <1>1, <1>2 DEF Elems
<1>5. ASSUME NEW i \in 1 .. Len(q)
      PROVE  q[i] \in Elems(r)
  <2>1. CASE i < k
    BY <2>1, <1>0, <1>1, <1>2 DEF Elems
  <2>2. CASE i >= k
    <3>1. i + 1 \in 1 .. Len(q) + 1 /\ ~(i + 1 < k) /\ i + 1 # k /\ (i + 1) - 1 = i
      BY <2>2, <1>0, <1>1
    <3>2. r[i + 1] = q[i]
      BY <3>1, <1>2
    <3>. QED BY <3>1, <3>2, <1>2 DEF Elems
  <2>. QED BY <1>1, <2>1, <2>2
<1>6. Elems(r) = Elems(q) \cup {v}
  BY <1>3, <1>4, <1>5 DEF Elems
<1>7. ASSUME Once(q), v \notin Elems(q)
      PROVE  Once(r)
  <2>1. \A i \in 1 .. Len(q) : q[i] # v
    BY <1>7 DEF Elems
  <2>. DEFINE src(i) == IF i < k THEN i ELSE i - 1
  <2>2. \A i \in 1 .. Len(q) + 1 : i # k => src(i) \in 1 .. Len(q) /\ r[i] = q[src(i)]
    BY <1>0, <1>1, <1>2
  <2>3. r[k] = v
    BY <1>0, <1>1, <1>2
  <2>4. \A i, j \in 1 .. Len(q) + 1 : i # k /\ j # k /\ src(i) = src(j) => i = j
    BY <1>0, <1>1
  <2>. HIDE DEF src
  <2>. SUFFICES ASSUME NEW i \in 1 .. Len(q) + 1, NEW j \in 1 .. Len(q) + 1, r[i] = r[j]
                PROVE  i = j
    BY <1>2 DEF Once
  <2>5. CASE i = k \/ j = k
    BY <2>1, <2>2, <2>3, <2>5
  <2>6. CASE i # k /\ j # k
    <3>1. src(i) \in 1 .. Len(q) /\ src(j) \in 1 .. Len(q) /\ q[src(i)] = q[src(j)]
      BY <2>2, <2>6
    <3>2. src(i) = src(j)
      BY <3>1, <1>7 DEF Once
    <3>. QED BY <3>2, <2>4, <2>6
  <2>. QED BY <2>5, <2>6
<1>. QED BY <1>2, <1>6, <1>7 DEF r

(* list_del_init() takes only the vCPU away, and takes it away for good if  *)
(* the queue held it once.                                                  *)
LEMMA WithoutElems ==
  ASSUME NEW q \in Seq(Vcpus), NEW v
  PROVE  /\ Without(q, v) \in Seq(Vcpus)
         /\ Elems(Without(q, v)) \subseteq Elems(q)
         /\ Elems(q) \ {v} \subseteq Elems(Without(q, v))
         /\ Once(q) => Once(Without(q, v)) /\ v \notin Elems(Without(q, v))
<1>0. Len(q) \in Nat
  OBVIOUS
<1>1. CASE ~\E i \in 1 .. Len(q) : q[i] = v
  <2>1. Without(q, v) = q
    BY <1>1 DEF Without
  <2>2. v \notin Elems(q)
    BY <1>1 DEF Elems
  <2>. QED BY <2>1, <2>2
<1>2. CASE \E i \in 1 .. Len(q) : q[i] = v
  <2>. DEFINE k == CHOOSE i \in 1 .. Len(q) : q[i] = v
              r == Without(q, v)
  <2>1. k \in 1 .. Len(q) /\ q[k] = v
    BY <1>2
  <2>2. r = RemoveAt(q, k)
    BY <1>2 DEF Without
  <2>. HIDE DEF k, r
  <2>3. /\ r \in Seq(Vcpus)
        /\ Len(r) = Len(q) - 1
        /\ \A i \in 1 .. Len(q) - 1 : r[i] = IF i < k THEN q[i] ELSE q[i + 1]
    BY <2>1, <2>2, RemoveAtElements
  <2>. DEFINE src(i) == IF i < k THEN i ELSE i + 1
  <2>4. \A i \in 1 .. Len(q) - 1 :
          src(i) \in 1 .. Len(q) /\ src(i) # k /\ r[i] = q[src(i)]
    BY <1>0, <2>1, <2>3
  <2>5. \A i, j \in 1 .. Len(q) - 1 : src(i) = src(j) => i = j
    BY <1>0, <2>1
  <2>6. \A j \in 1 .. Len(q) : j # k => \E i \in 1 .. Len(q) - 1 : src(i) = j
    <3>. SUFFICES ASSUME NEW j \in 1 .. Len(q), j # k
                  PROVE  \E i \in 1 .. Len(q) - 1 : src(i) = j
      OBVIOUS
    <3>1. CASE j < k
      <4>1. j \in 1 .. Len(q) - 1 /\ src(j) = j
        BY <3>1, <1>0, <2>1
      <4>. QED BY <4>1
    <3>2. CASE j > k
      <4>1. j - 1 \in 1 .. Len(q) - 1 /\ src(j - 1) = j
        BY <3>2, <1>0, <2>1
      <4>. QED BY <4>1
    <3>. QED BY <3>1, <3>2, <2>1
  <2>. HIDE DEF src
  <2>7. Elems(r) \subseteq Elems(q)
    BY <2>3, <2>4 DEF Elems
  <2>8. Elems(q) \ {v} \subseteq Elems(r)
    <3>. SUFFICES ASSUME NEW j \in 1 .. Len(q), q[j] # v
                  PROVE  q[j] \in Elems(r)
      BY DEF Elems
    <3>1. PICK i \in 1 .. Len(q) - 1 : src(i) = j
      BY <2>1, <2>6
    <3>2. r[i] = q[j] /\ i \in 1 .. Len(r)
      BY <3>1, <2>3, <2>4
    <3>. QED BY <3>2 DEF Elems
  <2>9. ASSUME Once(q)
        PROVE  Once(r) /\ v \notin Elems(r)
    <3>1. Once(r)
      <4>. SUFFICES ASSUME NEW i \in 1 .. Len(q) - 1, NEW j \in 1 .. Len(q) - 1, r[i] = r[j]
                    PROVE  i = j
        BY <2>3 DEF Once
      <4>1. src(i) = src(j)
        BY <2>4, <2>9 DEF Once
      <4>. QED BY <4>1, <2>5
    <3>2. v \notin Elems(r)
      <4>1. \A i \in 1 .. Len(q) - 1 : r[i] # v
        BY <2>1, <2>4, <2>9 DEF Once
      <4>. QED BY <4>1, <2>3 DEF Elems
    <3>. QED BY <3>1, <3>2
  <2>. QED BY <2>3, <2>7, <2>8, <2>9 DEF r
<1>. QED BY <1>1, <1>2

------------------------------------------------------------------------------
(* The operations on the state *)

(* __runq_insert: only one queue changes, and by one vCPU. *)
LEMMA RunqInsert ==
  ASSUME TypeOK, NEW c \in Cpus, NEW v \in Vcpus, runq_insert(c, v)
  PROVE  /\ runq' \in [Cpus -> Seq(Vcpus)]
         /\ position' \in [Vcpus -> Nat]
         /\ \A d \in Cpus : Queued(d)' = IF d = c THEN Queued(d) \cup {v} ELSE Queued(d)
         /\ \A d \in Cpus : Once(runq[d]) /\ v \notin Queued(c) => Once(runq[d])'
<1>1. runq \in [Cpus -> Seq(Vcpus)] /\ position \in [Vcpus -> Nat]
  BY DEF TypeOK
<1>2. runq' = [runq EXCEPT ![c] = InsertInto(runq[c], v)]
  BY DEF runq_insert
<1>3. /\ InsertInto(runq[c], v) \in Seq(Vcpus)
      /\ Elems(InsertInto(runq[c], v)) = Elems(runq[c]) \cup {v}
      /\ Once(runq[c]) /\ v \notin Elems(runq[c]) => Once(InsertInto(runq[c], v))
  BY <1>1, InsertIntoElems
<1>4. runq' \in [Cpus -> Seq(Vcpus)]
  BY <1>1, <1>2, <1>3
<1>5. \A d \in Cpus : runq'[d] = IF d = c THEN InsertInto(runq[c], v) ELSE runq[d]
  BY <1>1, <1>2
<1>6. \A d \in Cpus : Queued(d) = Elems(runq[d]) /\ Queued(d)' = Elems(runq'[d])
  BY DEF Queued, Elems
<1>7. position' \in [Vcpus -> Nat]
  <2>. DEFINE q == runq'[c]
  <2>1. Len(q) \in Nat
    BY <1>4
  <2>2. position' = Renumbered(q)
    BY DEF runq_insert
  <2>. HIDE DEF q
  <2>3. \A w \in Vcpus : (\E i \in 1 .. Len(q) : q[i] = w)
                         => (CHOOSE i \in 1 .. Len(q) : q[i] = w) \in 1 .. Len(q)
    OBVIOUS
  <2>4. \A w \in Vcpus : (\E i \in 1 .. Len(q) : q[i] = w)
                         => (CHOOSE i \in 1 .. Len(q) : q[i] = w) - 1 \in Nat
    BY <2>1, <2>3
  <2>. QED BY <1>1, <2>2, <2>4 DEF Renumbered
<1>8. \A d \in Cpus : Queued(d)' = IF d = c THEN Queued(d) \cup {v} ELSE Queued(d)
  BY <1>3, <1>5, <1>6
<1>9. \A d \in Cpus : Once(runq[d]) /\ v \notin Queued(c) => Once(runq'[d])
  BY <1>3, <1>5, <1>6
<1>. QED BY <1>4, <1>7, <1>8, <1>9 DEF Once

(* list_del_init: no queue gains a vCPU, none loses another one. *)
LEMMA RunqRemove ==
  ASSUME TypeOK, NEW v \in Vcpus, remove_from_queue(v)
  PROVE  /\ runq' \in [Cpus -> Seq(Vcpus)]
         /\ \A d \in Cpus : Queued(d)' \subseteq Queued(d) /\ Queued(d) \ {v} \subseteq Queued(d)'
         /\ \A d \in Cpus : Once(runq[d]) => Once(runq[d])' /\ v \notin Queued(d)'
<1>1. runq \in [Cpus -> Seq(Vcpus)]
  BY DEF TypeOK
<1>2. ASSUME NEW d \in Cpus
      PROVE  /\ runq'[d] \in Seq(Vcpus)
             /\ Elems(runq'[d]) \subseteq Elems(runq[d])
             /\ Elems(runq[d]) \ {v} \subseteq Elems(runq'[d])
             /\ Once(runq[d]) => Once(runq'[d]) /\ v \notin Elems(runq'[d])
  <2>1. runq'[d] = Without(runq[d], v)
    BY DEF remove_from_queue
  <2>2. runq[d] \in Seq(Vcpus)
    BY <1>1
  <2>. QED BY <2>1, <2>2, WithoutElems
<1>3. \A d \in Cpus : Queued(d) = Elems(runq[d]) /\ Queued(d)' = Elems(runq'[d])
  BY DEF Queued, Elems
<1>4. runq' \in [Cpus -> Seq(Vcpus)]
  BY <1>2 DEF remove_from_queue
<1>. QED BY <1>2, <1>3, <1>4 DEF Once

(* fp_pick_cpu never returns a pCPU outside the affinity mask, and leaves a *)
(* vCPU that is already inside it where it is.                              *)
LEMMA PickCpu ==
  ASSUME TypeOK, NEW v \in Vcpus
  PROVE  /\ fp_pick_cpu(v) \in Cpus \cap hardAffinity[v]
         /\ processor[v] \in hardAffinity[v] => fp_pick_cpu(v) = processor[v]
<1>. DEFINE allowed == Cpus \cap hardAffinity[v]
            above == {c \in allowed : c > processor[v]}
<1>1. allowed \subseteq Nat /\ allowed # {} /\ processor[v] \in Cpus
  <2>1. hardAffinity[v] \in (SUBSET Cpus) \ {{}} /\ processor[v] \in Cpus
    BY DEF TypeOK
  <2>2. allowed = hardAffinity[v] /\ hardAffinity[v] # {}
    BY <2>1
  <2>. QED BY <2>1, <2>2, ConfigAssumption DEF ConfigAssumption
<1>2. Min(allowed) \in allowed
  BY <1>1, MinIsLeast
<1>3. above # {} => Min(above) \in above
  <2>1. above \subseteq Nat
    BY <1>1
  <2>. QED BY <2>1, MinIsLeast
<1>4. above \subseteq allowed
  OBVIOUS
<1>5. cpumask_cycle(processor[v], allowed) = IF above # {} THEN Min(above) ELSE Min(allowed)
  BY DEF cpumask_cycle
<1>6. fp_pick_cpu(v) = IF processor[v] \in allowed THEN processor[v]
                                                 ELSE cpumask_cycle(processor[v], allowed)
  BY DEF fp_pick_cpu
<1>. QED BY <1>1, <1>2, <1>3, <1>4, <1>5, <1>6, Zenon

(* fp_do_schedule picks the idle vCPU or a runnable one of its own queue.   *)
LEMMA DoSchedule ==
  ASSUME TypeOK, NEW c \in Cpus, NEW hasBudget, NEW work \in BOOLEAN
  PROVE  LET next == fp_do_schedule(c, hasBudget, work)
         IN  next = Idle \/ (next \in Vcpus /\ next \in Queued(c) /\ vcpu_runnable(next))
<1>. DEFINE q == runq[c]
            eligible == {i \in 1 .. Len(q) : vcpu_runnable(q[i]) /\ q[i] \in hasBudget}
<1>1. q \in Seq(Vcpus) /\ eligible \subseteq Nat
  BY DEF TypeOK
<1>2. eligible # {} => Min(eligible) \in eligible
  BY <1>1, MinIsLeast
<1>3. fp_do_schedule(c, hasBudget, work)
        = IF work \/ eligible = {} THEN Idle ELSE q[Min(eligible)]
  BY DEF fp_do_schedule
<1>4. \A i \in eligible : q[i] \in Vcpus /\ q[i] \in Queued(c) /\ vcpu_runnable(q[i])
  BY <1>1 DEF Queued
<1>. QED BY <1>2, <1>3, <1>4, Zenon

------------------------------------------------------------------------------
(* The order of a run queue *)

(* Under each of the three strategies compare is total and transitive.      *)
LEMMA CompareOrder ==
  ASSUME TypeOK
  PROVE  /\ \A u, v \in Vcpus : compare(u, v) \/ compare(v, u)
         /\ \A u, v, w \in Vcpus : compare(u, v) /\ compare(v, w) => compare(u, w)
<1>1. /\ strategy \in {"RM", "DM", "FP"}
      /\ \A v \in Vcpus : /\ period[VcpuDomain[v]] \in Int /\ deadline[VcpuDomain[v]] \in Int
                          /\ priority[VcpuDomain[v]] \in Int
  <2>1. strategy \in {"RM", "DM", "FP"}
    BY ConfigAssumption DEF ConfigAssumption, TypeOK
  <2>2. \A v \in Vcpus : VcpuDomain[v] \in Domains
    BY ConfigAssumption DEF ConfigAssumption
  <2>3. /\ period \in [Domains -> Nat] /\ deadline \in [Domains -> Nat]
        /\ priority \in [Domains -> Int]
    BY DEF TypeOK
  <2>. QED BY <2>1, <2>2, <2>3
<1>2. CASE strategy = "RM"
  <2>1. \A u, v : compare(u, v) <=> period[VcpuDomain[u]] <= period[VcpuDomain[v]]
    BY <1>2 DEF compare
  <2>. QED BY <1>1, <2>1
<1>3. CASE strategy = "DM"
  <2>1. \A u, v : compare(u, v) <=> deadline[VcpuDomain[u]] <= deadline[VcpuDomain[v]]
    BY <1>3 DEF compare
  <2>. QED BY <1>1, <2>1
<1>4. CASE strategy = "FP"
  <2>1. \A u, v : compare(u, v) <=> priority[VcpuDomain[u]] >= priority[VcpuDomain[v]]
    BY <1>4 DEF compare
  <2>. QED BY <1>1, <2>1
<1>. QED BY <1>1, <1>2, <1>3, <1>4

(* What stands in front of a vCPU of D precedes it. *)
OrderedBehind(q, D) ==
  \A i, j \in 1 .. Len(q) : i < j /\ q[j] \in D => compare(q[i], q[j])

(* __runq_insert keeps the order, however the vCPUs outside D are placed:   *)
(* it stops at the first vCPU that the new one precedes, which precedes all *)
(* those of D behind it.                                                    *)
LEMMA InsertKeepsOrder ==
  ASSUME TypeOK, NEW q \in Seq(Vcpus), NEW v \in Vcpus, NEW D, OrderedBehind(q, D)
  PROVE  OrderedBehind(InsertInto(q, v), D)
<1>. DEFINE k == InsertionPoint(q, v)
            r == InsertInto(q, v)
            S == {i \in 1 .. Len(q) + 1 : i = Len(q) + 1 \/ compare(v, q[i])}
<1>0. Len(q) \in Nat /\ \A i \in 1 .. Len(q) : q[i] \in Vcpus
  OBVIOUS
<1>1. k \in S /\ \A i \in S : k <= i
  <2>1. Len(q) + 1 \in S /\ S \subseteq Nat
    BY <1>0
  <2>2. k = Min(S)
    BY DEF InsertionPoint
  <2>. HIDE DEF S
  <2>3. S # {}
    BY <2>1
  <2>. QED BY <2>1, <2>2, <2>3, MinIsLeast
<1>2. k \in 1 .. Len(q) + 1 /\ (k <= Len(q) => compare(v, q[k]))
  BY <1>0, <1>1
<1>3. ASSUME NEW i \in 1 .. Len(q), i < k PROVE ~compare(v, q[i])
  <2>1. i \notin S
    <3>. HIDE DEF S
    <3>. QED BY <1>0, <1>1, <1>2, <1>3
  <2>. QED BY <1>0, <2>1
<1>4. /\ Len(r) = Len(q) + 1
      /\ \A i \in 1 .. Len(q) + 1 : r[i] = IF i < k THEN q[i] ELSE IF i = k THEN v ELSE q[i - 1]
  BY <1>2, InsertAtElements, ZenonT(30) DEF InsertInto
<1>. HIDE DEF r, k, S
<1>5. \A i, j \in 1 .. Len(q) : i < j /\ q[j] \in D => compare(q[i], q[j])
  BY DEF OrderedBehind
<1>. SUFFICES ASSUME NEW i \in 1 .. Len(q) + 1, NEW j \in 1 .. Len(q) + 1, i < j, r[j] \in D
              PROVE  compare(r[i], r[j])
  BY <1>4 DEF OrderedBehind, r
<1>6. CASE j < k
  <2>1. r[i] = q[i] /\ r[j] = q[j] /\ i \in 1 .. Len(q) /\ j \in 1 .. Len(q)
    BY <1>0, <1>2, <1>4, <1>6
  <2>. QED BY <1>5, <2>1
<1>7. CASE j = k
  <2>1. r[i] = q[i] /\ r[j] = v /\ i \in 1 .. Len(q) /\ i < k
    BY <1>0, <1>2, <1>4, <1>7
  <2>. QED BY <1>0, <1>3, <2>1, CompareOrder
<1>8. CASE j > k /\ i # k
  <2>. DEFINE m == IF i < k THEN i ELSE i - 1
  <2>1. r[i] = q[m] /\ r[j] = q[j - 1] /\ m \in 1 .. Len(q) /\ j - 1 \in 1 .. Len(q) /\ m < j - 1
    BY <1>0, <1>2, <1>4, <1>8
  <2>. HIDE DEF m
  <2>. QED BY <1>5, <2>1
<1>9. CASE j > k /\ i = k
  <2>1. r[i] = v /\ r[j] = q[j - 1] /\ k \in 1 .. Len(q) /\ j - 1 \in 1 .. Len(q) /\ k <= j - 1
    BY <1>0, <1>2, <1>4, <1>9
  <2>2. compare(v, q[k])
    BY <1>0, <1>2, <2>1
  <2>3. k = j - 1 \/ compare(q[k], q[j - 1])
    BY <1>5, <2>1
  <2>. QED BY <1>0, <2>1, <2>2, <2>3, CompareOrder
<1>. QED BY <1>2, <1>6, <1>7, <1>8, <1>9

(* Unlinking a vCPU keeps the order of the others, and adds the unlinked    *)
(* one to D for free.                                                       *)
LEMMA RemoveKeepsOrder ==
  ASSUME NEW q \in Seq(Vcpus), NEW v, NEW D, OrderedBehind(q, D)
  PROVE  /\ OrderedBehind(Without(q, v), D)
         /\ Once(q) => OrderedBehind(Without(q, v), D \cup {v})
<1>. DEFINE r == Without(q, v)
<1>0. Len(q) \in Nat
  OBVIOUS
<1>1. OrderedBehind(r, D)
  <2>1. CASE ~\E i \in 1 .. Len(q) : q[i] = v
    BY <2>1 DEF Without
  <2>2. CASE \E i \in 1 .. Len(q) : q[i] = v
    <3>. DEFINE k == CHOOSE i \in 1 .. Len(q) : q[i] = v
    <3>1. k \in 1 .. Len(q) /\ r = RemoveAt(q, k)
      BY <2>2 DEF Without
    <3>. HIDE DEF k, r
    <3>2. /\ Len(r) = Len(q) - 1
          /\ \A i \in 1 .. Len(q) - 1 : r[i] = IF i < k THEN q[i] ELSE q[i + 1]
      BY <3>1, RemoveAtElements
    <3>. SUFFICES ASSUME NEW i \in 1 .. Len(q) - 1, NEW j \in 1 .. Len(q) - 1, i < j, r[j] \in D
                  PROVE  compare(r[i], r[j])
      BY <3>2 DEF OrderedBehind
    <3>. DEFINE m == IF i < k THEN i ELSE i + 1
                n == IF j < k THEN j ELSE j + 1
    <3>3. m \in 1 .. Len(q) /\ n \in 1 .. Len(q) /\ m < n /\ r[i] = q[m] /\ r[j] = q[n]
      BY <1>0, <3>1, <3>2
    <3>. HIDE DEF m, n
    <3>. QED BY <3>3 DEF OrderedBehind
  <2>. QED BY <2>1, <2>2
<1>2. ASSUME Once(q) PROVE OrderedBehind(r, D \cup {v})
  <2>1. v \notin Elems(r)
    BY <1>2, WithoutElems
  <2>2. \A j \in 1 .. Len(r) : r[j] # v
    BY <2>1 DEF Elems
  <2>. QED BY <1>1, <2>2 DEF OrderedBehind
<1>. QED BY <1>1, <1>2

------------------------------------------------------------------------------
(* The regions under the schedule lock *)

(* vcpu_wake inserts the vCPU into its own processor's queue or leaves the  *)
(* queues alone, never links a vCPU twice, and leaves a runnable vCPU       *)
(* queued unless its processor takes it for the one it runs.                *)
LEMMA WakeQueues ==
  ASSUME TypeOK, NEW v \in Vcpus, vcpu_wake(v)
  PROVE  /\ runq' \in [Cpus -> Seq(Vcpus)]
         /\ position' \in [Vcpus -> Nat]
         /\ priority' \in [Domains -> Int]
         /\ softirq' \in [Cpus -> BOOLEAN]
         /\ runstate' \in [Vcpus -> RunStates]
         /\ \A w \in Vcpus : runstate'[w] = "running" <=> runstate[w] = "running"
         /\ \A d \in Cpus : \/ Queued(d)' = Queued(d)
                            \/ d = processor[v] /\ Queued(d)' = Queued(d) \cup {v}
         /\ \A d \in Cpus : Once(runq[d]) => Once(runq[d])'
         /\ vcpu_runnable(v) => vcpu_on_q(v)' \/ curr[processor[v]] = v
         /\ ~vcpu_runnable(v) => \A d \in Cpus : Queued(d)' = Queued(d)
<1>0. /\ runq \in [Cpus -> Seq(Vcpus)] /\ position \in [Vcpus -> Nat]
      /\ priority \in [Domains -> Int] /\ softirq \in [Cpus -> BOOLEAN]
      /\ runstate \in [Vcpus -> RunStates] /\ processor[v] \in Cpus
  BY DEF TypeOK
<1>1. /\ runstate' \in [Vcpus -> RunStates]
      /\ \A w \in Vcpus : runstate'[w] = "running" <=> runstate[w] = "running"
  BY <1>0 DEF vcpu_wake, RunStates
<1>2. CASE ~vcpu_runnable(v) \/ curr[processor[v]] = v \/ vcpu_on_q(v)
  <2>1. UNCHANGED <<runq, position, priority, softirq>>
    BY <1>2 DEF vcpu_wake, fp_vcpu_wake
  <2>2. \A d \in Cpus : Queued(d)' = Queued(d)
    BY <2>1 DEF Queued
  <2>3. vcpu_on_q(v) => vcpu_on_q(v)'
    BY <2>2 DEF vcpu_on_q
  <2>. QED BY <1>0, <1>1, <1>2, <2>1, <2>2, <2>3 DEF Once
<1>3. CASE vcpu_runnable(v) /\ curr[processor[v]] # v /\ ~vcpu_on_q(v)
  <2>1. /\ runq_insert(processor[v], v)
        /\ cpu_raise_softirq(processor[v])
    BY <1>3 DEF vcpu_wake, fp_vcpu_wake
  <2>2. softirq' \in [Cpus -> BOOLEAN]
    BY <1>0, <2>1 DEF cpu_raise_softirq
  <2>3. /\ runq' \in [Cpus -> Seq(Vcpus)]
        /\ position' \in [Vcpus -> Nat]
        /\ \A d \in Cpus : Queued(d)' = IF d = processor[v] THEN Queued(d) \cup {v} ELSE Queued(d)
        /\ \A d \in Cpus : Once(runq[d]) /\ v \notin Queued(processor[v]) => Once(runq[d])'
    BY <1>0, <2>1, RunqInsert
  <2>4. v \notin Queued(processor[v])
    BY <1>0, <1>3 DEF vcpu_on_q
  <2>5. vcpu_on_q(v)'
    BY <1>0, <2>3 DEF vcpu_on_q
  <2>6. priority' \in [Domains -> Int]
    <3>. DEFINE d == VcpuDomain[v]
    <3>1. d \in Domains /\ priority[d] \in Int
      BY <1>0, ConfigAssumption DEF ConfigAssumption
    <3>2. PrioHandler(d, priority[d], position') \in Int
      BY <2>3, <3>1, PrioHandlerTyped
    <3>3. priority' = [priority EXCEPT ![d] = PrioHandler(d, priority[d], position')]
      BY <1>3 DEF vcpu_wake, fp_vcpu_wake
    <3>. QED BY <1>0, <3>1, <3>2, <3>3
  <2>. QED BY <1>0, <1>1, <1>3, <2>1, <2>2, <2>3, <2>4, <2>5, <2>6
<1>. QED BY <1>2, <1>3

(* vcpu_sleep_nosync takes off the queues a vCPU that may not run, unless   *)
(* its processor is running it, and touches no other vCPU.                  *)
LEMMA SleepQueues ==
  ASSUME TypeOK, NEW v \in Vcpus, vcpu_sleep_nosync(v)
  PROVE  /\ runq' \in [Cpus -> Seq(Vcpus)]
         /\ softirq' \in [Cpus -> BOOLEAN]
         /\ runstate' \in [Vcpus -> RunStates]
         /\ \A w \in Vcpus : runstate'[w] = "running" <=> runstate[w] = "running"
         /\ \A d \in Cpus : Queued(d)' \subseteq Queued(d) /\ Queued(d) \ {v} \subseteq Queued(d)'
         /\ \A d \in Cpus : Once(runq[d]) => Once(runq[d])'
         /\ vcpu_runnable(v) \/ curr[processor[v]] = v => \A d \in Cpus : Queued(d)' = Queued(d)
         /\ ~vcpu_runnable(v) /\ curr[processor[v]] # v /\ (\A d \in Cpus : Once(runq[d]))
              => ~vcpu_on_q(v)'
<1>0. /\ runq \in [Cpus -> Seq(Vcpus)] /\ softirq \in [Cpus -> BOOLEAN]
      /\ runstate \in [Vcpus -> RunStates] /\ processor[v] \in Cpus
  BY DEF TypeOK
<1>1. /\ runstate' \in [Vcpus -> RunStates]
      /\ \A w \in Vcpus : runstate'[w] = "running" <=> runstate[w] = "running"
  BY <1>0 DEF vcpu_sleep_nosync, RunStates
<1>2. softirq' \in [Cpus -> BOOLEAN]
  BY <1>0 DEF vcpu_sleep_nosync, fp_sleep, cpu_raise_softirq
<1>3. CASE vcpu_runnable(v) \/ curr[processor[v]] = v
  <2>1. runq' = runq
    BY <1>3 DEF vcpu_sleep_nosync, fp_sleep
  <2>2. \A d \in Cpus : Queued(d)' = Queued(d)
    BY <2>1 DEF Queued
  <2>. QED BY <1>0, <1>1, <1>2, <1>3, <2>1, <2>2 DEF Once
<1>4. CASE ~vcpu_runnable(v) /\ curr[processor[v]] # v
  <2>1. remove_from_queue(v)
    BY <1>4 DEF vcpu_sleep_nosync, fp_sleep
  <2>2. /\ runq' \in [Cpus -> Seq(Vcpus)]
        /\ \A d \in Cpus : Queued(d)' \subseteq Queued(d) /\ Queued(d) \ {v} \subseteq Queued(d)'
        /\ \A d \in Cpus : Once(runq[d]) => Once(runq[d])' /\ v \notin Queued(d)'
    BY <2>1, RunqRemove
  <2>3. (\A d \in Cpus : Once(runq[d])) => ~vcpu_on_q(v)'
    BY <2>2 DEF vcpu_on_q
  <2>. QED BY <1>1, <1>2, <1>4, <2>2, <2>3
<1>. QED BY <1>3, <1>4
=============================================================================
