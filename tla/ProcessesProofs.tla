-------------------------- MODULE ProcessesProofs ---------------------------
(***************************************************************************)
(* The core map and the process table stay sound, and the core map         *)
(* implements PageAllocator, whatever the number of entries, pages, block  *)
(* sizes and priorities, as long as the array of the core map is not full  *)
(* or is large enough for the worst case: TablesSound, NoSleepWhileFits,   *)
(* ImplementsAllocator and TurnsGoRound of Processes.                      *)
(***************************************************************************)
EXTENDS Processes, SequenceTheorems, FiniteSetTheorems, WellFoundedInduction, TLAPS

\* Every other page can be a fragment of its own.
Ample == NPages <= 2 * Usable

\* rmfree finds room for one fragment more (ProcessesFull.cfg shows what it does
\* otherwise).
Room(m) == Ample \/ Len(m) < Usable
RoomLeft == Room(map)

Fragment == [addr : 1..NPages, size : 1..NPages]

\* Sorted, and no two that could be one.
Apart(m) == \A i, j \in 1..Len(m) : i < j => m[i].addr + m[i].size < m[j].addr

Within(m) == \A i \in 1..Len(m) : m[i].addr + m[i].size <= NPages + 1

Fragments(m) == m \in Seq(Fragment) /\ Apart(m) /\ Within(m)

Updated(m, k, e) == [m EXCEPT ![k] = e]

\* Fragment e abuts none of the entries of m before lo and after hi.
ClearOf(m, lo, hi, e) ==
  /\ e \in Fragment /\ e.addr + e.size <= NPages + 1
  /\ \A i \in 1..Len(m) : i < lo => m[i].addr + m[i].size < e.addr
  /\ \A i \in 1..Len(m) : i > hi => e.addr + e.size < m[i].addr
----------------------------------------------------------------------------
(* Numbers and sequences.                                                  *)

\* The least of a set of numbers.
LEMMA LeastIn ==
  ASSUME NEW S \in SUBSET Nat, S # {}
  PROVE  Min(S) \in S /\ \A x \in S : Min(S) <= x
<1> DEFINE Reach == {0..k : k \in S}
<1>1. Reach \subseteq FiniteSubsetsOf(Nat) /\ Reach # {}
  <2>1. \A k \in S : IsFiniteSet(0..k) /\ 0..k \in SUBSET Nat
    BY FS_Interval
  <2> QED BY <2>1 DEF FiniteSubsetsOf
<1>2. PICK R \in Reach : \A T \in Reach : ~(<<T, R>> \in StrictSubsetOrdering(Nat))
  BY <1>1, FS_StrictSubsetOrderingWellFounded, WFMin
<1>3. PICK k \in S : R = 0..k
  OBVIOUS
<1>4. ASSUME NEW j \in S PROVE k <= j
  <2> SUFFICES ASSUME j < k PROVE FALSE
    BY <1>4
  <2>1. 0..j \subseteq 0..k /\ 0..j # 0..k /\ 0..k \in SUBSET Nat /\ 0..j \in SUBSET Nat
    <3>1. k \in 0..k /\ k \notin 0..j
      OBVIOUS
    <3> QED BY <3>1
  <2>2. 0..j \in Reach
    OBVIOUS
  <2> QED BY <1>2, <1>3, <2>1, <2>2 DEF StrictSubsetOrdering
<1>5. \E x \in S : \A y \in S : x <= y
  BY <1>3, <1>4
<1> QED BY <1>5 DEF Min

LEMMA RemovedEntries ==
  ASSUME NEW S, NEW s \in Seq(S), NEW k \in 1..Len(s), NEW r, r = RemoveAt(s, k)
  PROVE  /\ r \in Seq(S) /\ Len(r) = Len(s) - 1
         /\ \A i \in 1..Len(s) - 1 : r[i] = IF i < k THEN s[i] ELSE s[i + 1]
<1> DEFINE a == SubSeq(s, 1, k - 1)
           b == SubSeq(s, k + 1, Len(s))
<1>1. Len(s) \in Nat /\ \A i \in 1..Len(s) : s[i] \in S
  BY ElementOfSeq, LenProperties
<1>2. a \in Seq(S) /\ Len(a) = k - 1 /\ \A i \in 1..k-1 : a[i] = s[i]
  BY <1>1, SubSeqProperties
<1>3. b \in Seq(S) /\ Len(b) = Len(s) - k /\ \A i \in 1..Len(s)-k : b[i] = s[k + i]
  <2>1. \A i \in k+1..Len(s) : s[i] \in S
    BY <1>1
  <2>2. k + 1 \in Int /\ Len(s) \in Int /\ k \in Int
    BY <1>1
  <2>3. /\ b \in Seq(S) /\ Len(b) = IF k + 1 <= Len(s) THEN Len(s) - (k + 1) + 1 ELSE 0
        /\ \A i \in 1..Len(s) - (k + 1) + 1 : b[i] = s[k + 1 + i - 1]
    BY <2>1, <2>2, SubSeqProperties
  <2> HIDE DEF b
  <2> QED BY <2>2, <2>3, <1>1
<1> HIDE DEF a, b
<1>4. /\ a \o b \in Seq(S) /\ Len(a \o b) = Len(a) + Len(b)
      /\ \A i \in 1..Len(a) + Len(b) : (a \o b)[i] = IF i <= Len(a) THEN a[i] ELSE b[i - Len(a)]
  BY <1>2, <1>3, ConcatProperties
<1>5. r = a \o b
  BY DEF RemoveAt, a, b
<1>6. r \in Seq(S) /\ Len(r) = Len(s) - 1
  <2>1. r \in Seq(S) /\ Len(r) = Len(a) + Len(b)
    BY <1>4, <1>5
  <2>2. Len(a) = k - 1 /\ Len(b) = Len(s) - k /\ Len(s) \in Nat
    BY <1>1, <1>2, <1>3
  <2> QED BY <2>1, <2>2
<1>7. ASSUME NEW i \in 1..Len(r) PROVE r[i] = IF i < k THEN s[i] ELSE s[i + 1]
  <2>1. i \in Int /\ k \in Int /\ Len(s) \in Int /\ i >= 1 /\ i <= Len(s) - 1 /\ k <= Len(s) /\ k >= 1
    BY <1>1, <1>6
  <2>2. r[i] = IF i <= k - 1 THEN a[i] ELSE b[i - (k - 1)]
    BY <1>2, <1>3, <1>4, <1>5, <2>1
  <2>3. CASE i < k
    BY <1>2, <2>1, <2>2, <2>3
  <2>4. CASE ~(i < k)
    <3>1. i - (k - 1) \in 1..Len(s)-k /\ k + (i - (k - 1)) = i + 1
      BY <2>1, <2>4
    <3> QED BY <1>3, <2>1, <2>2, <2>4, <3>1
  <2> QED BY <2>3, <2>4
<1> QED BY <1>6, <1>7

LEMMA InsertedEntries ==
  ASSUME NEW S, NEW s \in Seq(S), NEW k \in 1..Len(s) + 1, NEW e \in S,
         NEW r, r = InsertAt(s, k, e)
  PROVE  /\ r \in Seq(S) /\ Len(r) = Len(s) + 1
         /\ \A i \in 1..Len(s) + 1 : r[i] = IF i < k THEN s[i] ELSE IF i = k THEN e ELSE s[i - 1]
<1> DEFINE a == SubSeq(s, 1, k - 1)
           b == SubSeq(s, k, Len(s))
           c == a \o <<e>>
<1>1. Len(s) \in Nat /\ \A i \in 1..Len(s) : s[i] \in S
  BY ElementOfSeq, LenProperties
<1>2. a \in Seq(S) /\ Len(a) = k - 1 /\ \A i \in 1..k-1 : a[i] = s[i]
  BY <1>1, SubSeqProperties
<1>3. b \in Seq(S) /\ Len(b) = Len(s) - k + 1 /\ \A i \in 1..Len(s)-k+1 : b[i] = s[k + i - 1]
  <2>1. \A i \in k..Len(s) : s[i] \in S
    BY <1>1
  <2>2. k \in Int /\ Len(s) \in Int
    BY <1>1
  <2>3. /\ b \in Seq(S) /\ Len(b) = IF k <= Len(s) THEN Len(s) - k + 1 ELSE 0
        /\ \A i \in 1..Len(s) - k + 1 : b[i] = s[k + i - 1]
    BY <2>1, <2>2, SubSeqProperties
  <2> HIDE DEF b
  <2> QED BY <2>2, <2>3, <1>1
<1>4. <<e>> \in Seq(S) /\ Len(<<e>>) = 1 /\ <<e>>[1] = e
  OBVIOUS
<1> HIDE DEF a, b
<1>5. /\ c \in Seq(S) /\ Len(c) = Len(a) + 1
      /\ \A i \in 1..Len(a) + 1 : c[i] = IF i <= Len(a) THEN a[i] ELSE <<e>>[i - Len(a)]
  BY <1>2, <1>4, ConcatProperties
<1>6. c \in Seq(S) /\ Len(c) = k /\ \A i \in 1..k : c[i] = IF i < k THEN s[i] ELSE e
  <2> HIDE DEF c
  <2> QED BY <1>2, <1>4, <1>5
<1> HIDE DEF c
<1>7. r = c \o b
  BY DEF InsertAt, a, b, c
<1>8. /\ r \in Seq(S) /\ Len(r) = Len(c) + Len(b)
      /\ \A i \in 1..Len(c) + Len(b) : r[i] = IF i <= Len(c) THEN c[i] ELSE b[i - Len(c)]
  BY <1>3, <1>6, <1>7, ConcatProperties
<1> QED BY <1>1, <1>3, <1>6, <1>8, SMTT(30)
----------------------------------------------------------------------------
(* Resource maps: what rmalloc and rmfree make of the fragments.           *)

LEMMA BlockFields ==
  ASSUME NEW a \in 1..NPages, NEW n \in 1..NPages
  PROVE  /\ Block(a, n) \in Fragment /\ Block(a, n).addr = a /\ Block(a, n).size = n
         /\ UnitsOf(Block(a, n)) = a..a+n-1
BY DEF Block, Fragment, UnitsOf

LEMMA FragmentFields ==
  ASSUME NEW m, Fragments(m)
  PROVE  /\ Len(m) \in Nat /\ NPages \in Nat /\ MapSize \in Nat
         /\ \A i \in 1..Len(m) :
              /\ m[i] \in Fragment /\ m[i] = Block(m[i].addr, m[i].size)
              /\ m[i].addr \in 1..NPages /\ m[i].size \in 1..NPages
              /\ m[i].addr + m[i].size <= NPages + 1
         /\ \A i, j \in 1..Len(m) : i < j => m[i].addr + m[i].size < m[j].addr
<1>1. Len(m) \in Nat /\ \A i \in 1..Len(m) : m[i] \in Fragment
  BY ElementOfSeq, LenProperties DEF Fragments
<1> QED BY <1>1, ProcessesAssumption, MapSizeAssumption DEF Fragments, Fragment, Block, Within, Apart

LEMMA FragmentNumbers ==
  ASSUME NEW m, Fragments(m)
  PROVE  /\ Len(m) \in Nat
         /\ \A i \in 1..Len(m) : m[i].addr \in Nat /\ m[i].size \in Nat /\ m[i].size >= 1
         /\ \A i, j \in 1..Len(m) : i < j => m[i].addr + m[i].size < m[j].addr
<1>1. Len(m) \in Nat /\ NPages \in Nat
  BY FragmentFields
<1>2. \A i \in 1..Len(m) : m[i].addr \in 1..NPages /\ m[i].size \in 1..NPages
  BY FragmentFields
<1>3. \A i, j \in 1..Len(m) : i < j => m[i].addr + m[i].size < m[j].addr
  BY FragmentFields
<1>4. \A i \in 1..Len(m) : m[i].addr \in Nat /\ m[i].size \in Nat /\ m[i].size >= 1
  BY <1>1, <1>2
<1> QED BY <1>1, <1>3, <1>4

LEMMA InUnits ==
  ASSUME NEW m, NEW u
  PROVE  u \in Units(m) <=> \E i \in 1..Len(m) : u \in UnitsOf(m[i])
BY DEF Units

LEMMA InFragment ==
  ASSUME NEW m, Fragments(m), NEW i \in 1..Len(m), NEW u
  PROVE  u \in UnitsOf(m[i]) <=> u \in Int /\ m[i].addr <= u /\ u < m[i].addr + m[i].size
BY FragmentFields DEF UnitsOf

LEMMA UnitsInRange ==
  ASSUME NEW m, Fragments(m)
  PROVE  Units(m) \subseteq 1..NPages
<1> SUFFICES ASSUME NEW u \in Units(m) PROVE u \in 1..NPages
  OBVIOUS
<1>1. PICK i \in 1..Len(m) : u \in UnitsOf(m[i])
  BY InUnits
<1>2. /\ u \in Int /\ m[i].addr <= u /\ u < m[i].addr + m[i].size
      /\ m[i].addr \in 1..NPages /\ m[i].size \in 1..NPages /\ NPages \in Nat
      /\ m[i].addr + m[i].size <= NPages + 1
  BY <1>1, InFragment, FragmentFields
<1> QED BY <1>2

\* Below(m, a) entries lie at a or below, and they are the first ones.
LEMMA BelowSplits ==
  ASSUME NEW m, Fragments(m), NEW a \in Int
  PROVE  /\ Below(m, a) \in 0..Len(m)
         /\ \A i \in 1..Len(m) : m[i].addr <= a <=> i <= Below(m, a)
<1> DEFINE T == {i \in 1..Len(m) : m[i].addr <= a}
           U == (1..Len(m) + 1) \ T
           k == Min(U)
<1>0. Len(m) \in Nat
  BY FragmentFields
<1>1. Len(m) + 1 \in U /\ U \in SUBSET Nat /\ U # {}
  BY <1>0
<1>2. k \in U /\ \A i \in U : k <= i
  <2> HIDE DEF U
  <2> QED BY <1>1, LeastIn
<1>3. k \in 1..Len(m) + 1
  BY <1>2
<1> HIDE DEF k
<1>4. T = 1..k-1
  <2>1. ASSUME NEW i \in 1..k-1 PROVE i \in T
    BY <1>0, <1>2, <1>3
  <2>2. ASSUME NEW i \in T, i > k PROVE FALSE
    <3>1. k \in 1..Len(m) /\ m[k].addr > a
      BY <1>0, <1>2, <1>3, <2>2, FragmentFields
    <3>2. /\ m[k].addr \in 1..NPages /\ m[k].size \in 1..NPages /\ m[i].addr \in 1..NPages
          /\ m[k].addr + m[k].size < m[i].addr /\ m[i].addr <= a
      BY <2>2, <3>1, FragmentFields
    <3> QED BY <3>1, <3>2
  <2>3. k \notin T
    BY <1>2
  <2> QED BY <1>0, <1>3, <2>1, <2>2, <2>3
<1>5. Below(m, a) = k - 1
  <2>1. Below(m, a) = Cardinality(1..k-1)
    BY <1>4 DEF Below
  <2>2. k - 1 \in Int /\ 1 \in Int
    BY <1>3
  <2>3. Cardinality(1..k-1) = IF 1 > k - 1 THEN 0 ELSE (k - 1) - 1 + 1
    BY <2>2, FS_Interval
  <2> QED BY <1>3, <2>1, <2>3
<1>6. \A i \in 1..Len(m) : m[i].addr <= a <=> i \in 1..k-1
  BY <1>4
<1> QED BY <1>0, <1>3, <1>5, <1>6

LEMMA DisjointFragments ==
  ASSUME NEW m, Fragments(m), NEW j \in 1..Len(m), NEW k \in 1..Len(m), j # k
  PROVE  UnitsOf(m[j]) \cap UnitsOf(m[k]) = {}
<1> SUFFICES ASSUME NEW u, u \in UnitsOf(m[j]), u \in UnitsOf(m[k]) PROVE FALSE
  OBVIOUS
<1>1. /\ u \in Int /\ m[j].addr <= u /\ u < m[j].addr + m[j].size
      /\ m[k].addr <= u /\ u < m[k].addr + m[k].size
  BY InFragment
<1>2. /\ m[j].addr \in Nat /\ m[j].size \in Nat /\ m[k].addr \in Nat /\ m[k].size \in Nat
      /\ (m[j].addr + m[j].size < m[k].addr \/ m[k].addr + m[k].size < m[j].addr)
  BY FragmentFields, SMTT(30)
<1> QED BY <1>1, <1>2

\* Entry k goes.
LEMMA Removed ==
  ASSUME NEW m, Fragments(m), NEW k \in 1..Len(m), NEW r, r = RemoveAt(m, k)
  PROVE  /\ Fragments(r) /\ Len(r) = Len(m) - 1
         /\ Units(r) = Units(m) \ UnitsOf(m[k])
         /\ \A i \in 1..Len(r) : \E j \in 1..Len(m) : r[i] = m[j]
<1>0. m \in Seq(Fragment)
  BY DEF Fragments
<1>1. /\ r \in Seq(Fragment) /\ Len(r) = Len(m) - 1
      /\ \A i \in 1..Len(r) : r[i] = IF i < k THEN m[i] ELSE m[i + 1]
  <2>1. /\ r \in Seq(Fragment) /\ Len(r) = Len(m) - 1
        /\ \A i \in 1..Len(m) - 1 : r[i] = IF i < k THEN m[i] ELSE m[i + 1]
    BY <1>0, RemovedEntries, Z3T(30)
  <2> QED BY <2>1
<1>2. Len(m) \in Nat
  BY FragmentFields
<1> DEFINE from(i) == IF i < k THEN i ELSE i + 1
<1>3. /\ \A i \in 1..Len(r) : from(i) \in 1..Len(m) /\ from(i) # k /\ r[i] = m[from(i)]
      /\ \A i, j \in 1..Len(r) : i < j => from(i) < from(j)
  BY <1>1, <1>2
<1>4. \A j \in 1..Len(m) \ {k} : \E i \in 1..Len(r) : r[i] = m[j]
  <2> SUFFICES ASSUME NEW j \in 1..Len(m) \ {k} PROVE \E i \in 1..Len(r) : r[i] = m[j]
    OBVIOUS
  <2>1. CASE j < k
    BY <1>1, <1>2, <2>1
  <2>2. CASE j > k
    <3>1. j - 1 \in 1..Len(r) /\ ~(j - 1 < k) /\ j - 1 + 1 = j
      BY <1>1, <1>2, <2>2
    <3>2. r[j - 1] = m[j]
      BY <1>1, <3>1
    <3> QED BY <3>1, <3>2
  <2> QED BY <1>2, <2>1, <2>2
<1> HIDE DEF from
<1>5. Apart(r) /\ Within(r)
  BY <1>3, FragmentFields DEF Apart, Within
<1>6. ASSUME NEW u PROVE u \in Units(r) <=> u \in Units(m) /\ u \notin UnitsOf(m[k])
  <2>2. \A j \in 1..Len(m) \ {k} : u \in UnitsOf(m[j]) => u \notin UnitsOf(m[k])
    BY DisjointFragments
  <2>3. u \in Units(r) => \E j \in 1..Len(m) \ {k} : u \in UnitsOf(m[j])
    BY <1>3, InUnits
  <2>4. (\E j \in 1..Len(m) \ {k} : u \in UnitsOf(m[j])) => u \in Units(r)
    BY <1>4, InUnits
  <2> QED BY <2>2, <2>3, <2>4, InUnits
<1> QED BY <1>1, <1>3, <1>5, <1>6 DEF Fragments

\* Entry k becomes e.
LEMMA Replaced ==
  ASSUME NEW m, Fragments(m), NEW k \in 1..Len(m), NEW e, ClearOf(m, k, k, e),
         NEW r, r = Updated(m, k, e)
  PROVE  /\ Fragments(r) /\ Len(r) = Len(m)
         /\ Units(r) = (Units(m) \ UnitsOf(m[k])) \cup UnitsOf(e)
         /\ \A i \in 1..Len(m) : r[i] = IF i = k THEN e ELSE m[i]
<1>0. /\ m \in Seq(Fragment) /\ e \in Fragment /\ e.addr + e.size <= NPages + 1
      /\ \A i \in 1..Len(m) : i < k => m[i].addr + m[i].size < e.addr
      /\ \A i \in 1..Len(m) : i > k => e.addr + e.size < m[i].addr
  BY DEF Fragments, ClearOf
<1>1. /\ r \in Seq(Fragment) /\ Len(r) = Len(m)
      /\ \A i \in 1..Len(r) : r[i] = IF i = k THEN e ELSE m[i]
  BY <1>0, ExceptSeq DEF Updated
<1>2. Len(m) \in Nat
  BY FragmentFields
<1>3. Apart(r) /\ Within(r)
  <2>1. \A i, j \in 1..Len(m) : i < j => m[i].addr + m[i].size < m[j].addr
    BY FragmentFields
  <2>2. \A i, j \in 1..Len(m) : i < j => r[i].addr + r[i].size < r[j].addr
    BY <1>0, <1>1, <1>2, <2>1
  <2>3. Within(r)
    BY <1>0, <1>1, FragmentFields DEF Within
  <2> QED BY <1>1, <2>2, <2>3 DEF Apart
<1>6. ASSUME NEW u
      PROVE  u \in Units(r) <=> (u \in Units(m) /\ u \notin UnitsOf(m[k])) \/ u \in UnitsOf(e)
  <2>2. \A j \in 1..Len(m) \ {k} : u \in UnitsOf(m[j]) => u \notin UnitsOf(m[k])
    BY DisjointFragments
  <2>3. u \in Units(r) <=> u \in UnitsOf(e) \/ \E j \in 1..Len(m) \ {k} : u \in UnitsOf(m[j])
    BY <1>1, InUnits
  <2> QED BY <2>2, <2>3, InUnits
<1> QED BY <1>1, <1>3, <1>6 DEF Fragments

\* A new entry e comes in as number k.
LEMMA Inserted ==
  ASSUME NEW m, Fragments(m), NEW k \in 1..Len(m) + 1, NEW e, ClearOf(m, k, k - 1, e),
         NEW r, r = InsertAt(m, k, e)
  PROVE  /\ Fragments(r) /\ Len(r) = Len(m) + 1
         /\ Units(r) = Units(m) \cup UnitsOf(e)
<1>0. /\ m \in Seq(Fragment) /\ e \in Fragment /\ e.addr + e.size <= NPages + 1
      /\ \A i \in 1..Len(m) : i < k => m[i].addr + m[i].size < e.addr
      /\ \A i \in 1..Len(m) : i >= k => e.addr + e.size < m[i].addr
  <2>1. Len(m) \in Nat
    BY FragmentFields
  <2> QED BY <2>1 DEF Fragments, ClearOf
<1>1. /\ r \in Seq(Fragment) /\ Len(r) = Len(m) + 1
      /\ \A i \in 1..Len(r) : r[i] = IF i < k THEN m[i] ELSE IF i = k THEN e ELSE m[i - 1]
  <2>1. /\ r \in Seq(Fragment) /\ Len(r) = Len(m) + 1
        /\ \A i \in 1..Len(m) + 1 : r[i] = IF i < k THEN m[i] ELSE IF i = k THEN e ELSE m[i - 1]
    <3>1. m \in Seq(Fragment) /\ e \in Fragment
      BY <1>0
    <3>2. PICK S : S = Fragment
      OBVIOUS
    <3>3. m \in Seq(S) /\ e \in S
      BY <3>1, <3>2
    <3>4. /\ r \in Seq(S) /\ Len(r) = Len(m) + 1
          /\ \A i \in 1..Len(m) + 1 : r[i] = IF i < k THEN m[i] ELSE IF i = k THEN e ELSE m[i - 1]
      BY <3>3, InsertedEntries, Z3T(60)
    <3> QED BY <3>2, <3>4
  <2> QED BY <2>1
<1>2. Len(m) \in Nat
  BY FragmentFields
<1> DEFINE from(i) == IF i < k THEN i ELSE i - 1
<1>3. /\ r[k] = e /\ k \in 1..Len(r)
      /\ \A i \in 1..Len(r) \ {k} : from(i) \in 1..Len(m) /\ r[i] = m[from(i)]
      /\ \A i, j \in 1..Len(r) \ {k} : i < j => from(i) < from(j)
      /\ \A i \in 1..Len(r) \ {k} : i < k <=> from(i) < k
  BY <1>1, <1>2
<1>4. \A j \in 1..Len(m) : \E i \in 1..Len(r) : r[i] = m[j]
  <2> SUFFICES ASSUME NEW j \in 1..Len(m) PROVE \E i \in 1..Len(r) : r[i] = m[j]
    OBVIOUS
  <2>1. CASE j < k
    BY <1>1, <1>2, <2>1
  <2>2. CASE j >= k
    <3>1. j + 1 \in 1..Len(r) /\ ~(j + 1 <= k) /\ j + 1 - 1 = j
      BY <1>1, <1>2, <2>2
    <3>2. r[j + 1] = m[j]
      BY <1>1, <3>1
    <3> QED BY <3>1, <3>2
  <2> QED BY <1>2, <2>1, <2>2
<1> HIDE DEF from
<1>5. Apart(r)
  <2> SUFFICES ASSUME NEW i \in 1..Len(r), NEW j \in 1..Len(r), i < j
               PROVE  r[i].addr + r[i].size < r[j].addr
    BY DEF Apart
  <2>1. CASE i = k
    <3>1. from(j) \in 1..Len(m) /\ from(j) >= k /\ r[j] = m[from(j)]
      BY <1>1, <1>2, <1>3, <2>1
    <3> QED BY <1>0, <1>3, <2>1, <3>1
  <2>2. CASE j = k
    BY <1>0, <1>3, <2>2
  <2>3. CASE i # k /\ j # k
    <3>1. /\ from(i) \in 1..Len(m) /\ from(j) \in 1..Len(m) /\ from(i) < from(j)
          /\ r[i] = m[from(i)] /\ r[j] = m[from(j)]
      BY <1>3, <2>3
    <3>2. m[from(i)].addr + m[from(i)].size < m[from(j)].addr
      BY <3>1, FragmentFields
    <3> QED BY <3>1, <3>2
  <2> QED BY <2>1, <2>2, <2>3
<1>6. Within(r)
  BY <1>0, <1>3, FragmentFields DEF Within
<1>7. ASSUME NEW u PROVE u \in Units(r) <=> u \in Units(m) \/ u \in UnitsOf(e)
  <2>1. u \in Units(r) => u \in Units(m) \/ u \in UnitsOf(e)
    BY <1>3, InUnits
  <2>2. u \in Units(m) \/ u \in UnitsOf(e) => u \in Units(r)
    BY <1>3, <1>4, InUnits, SMTT(30)
  <2> QED BY <2>1, <2>2
<1> QED BY <1>1, <1>5, <1>6, <1>7 DEF Fragments

\* No two fragments abut, so that there are at most half as many as pages.
LEMMA RoomSuffices ==
  ASSUME NEW m, Fragments(m), Ample
  PROVE  Len(m) <= Usable
<1>0. Len(m) \in Nat /\ MapSize \in Nat /\ NPages \in Nat
  BY FragmentFields
<1> DEFINE Bad == {i \in 1..Len(m) : m[i].addr < 2*i - 1}
<1>1. ASSUME Bad # {} PROVE FALSE
  <2>1. PICK k \in Bad : \A i \in Bad : k <= i
    <3>1. Bad \in SUBSET Nat
      BY <1>0
    <3> HIDE DEF Bad
    <3> QED BY <1>1, <3>1, LeastIn
  <2>2. k \in 1..Len(m) /\ m[k].addr < 2*k - 1
    OBVIOUS
  <2>3. CASE k = 1
    BY <2>2, <2>3, FragmentFields
  <2>4. CASE k > 1
    <3>1. k - 1 \in 1..Len(m) /\ k - 1 \notin Bad
      BY <1>0, <2>1, <2>2, <2>4
    <3>2. m[k - 1].addr >= 2*k - 3
      BY <2>2, <3>1, FragmentFields
    <3>3. m[k - 1].addr + m[k - 1].size < m[k].addr
      BY <2>2, <3>1, FragmentFields
    <3>4. m[k - 1].size >= 1 /\ m[k - 1].addr \in Nat /\ m[k - 1].size \in Nat /\ m[k].addr \in Nat
      BY <2>2, <3>1, FragmentFields, SMTT(30)
    <3> QED BY <2>2, <3>2, <3>3, <3>4
  <2> QED BY <1>0, <2>2, <2>3, <2>4
<1>2. CASE Len(m) = 0
  BY <1>0, <1>2, MapSizeAssumption DEF Usable
<1>3. CASE Len(m) > 0
  <2>1. Len(m) \in 1..Len(m) /\ Len(m) \notin Bad
    BY <1>0, <1>1, <1>3
  <2>2. m[Len(m)].addr \in 1..NPages /\ m[Len(m)].addr >= 2*Len(m) - 1
    BY <2>1, FragmentFields
  <2> QED BY <1>0, <2>2 DEF Ample, Usable
<1> QED BY <1>0, <1>2, <1>3

\* rmalloc of n pages that can be had.
LEMMA Taken ==
  ASSUME NEW m, Fragments(m), NEW n \in 1..NPages, Fits(m, n) # {}
  PROVE  /\ RmallocAddr(m, n) \in 1..NPages /\ RmallocAddr(m, n) + n <= NPages + 1
         /\ UnitsOf(Block(RmallocAddr(m, n), n)) \subseteq Units(m)
         /\ Fragments(RmallocMap(m, n))
         /\ Units(RmallocMap(m, n)) = Units(m) \ UnitsOf(Block(RmallocAddr(m, n), n))
         /\ \A s \in Nat : Fits(RmallocMap(m, n), s) # {} => Fits(m, s) # {}
<1>0. Len(m) \in Nat /\ NPages \in Nat
  BY FragmentFields
<1> DEFINE k == Min(Fits(m, n))
<1>1. k \in 1..Len(m) /\ m[k].size >= n
  <2>1. Fits(m, n) \in SUBSET Nat
    BY <1>0 DEF Fits
  <2>2. k \in Fits(m, n)
    BY <2>1, LeastIn
  <2> QED BY <2>2 DEF Fits
<1>r. PICK r, a : r = RmallocMap(m, n) /\ a = RmallocAddr(m, n)
  OBVIOUS
<1>2. a = m[k].addr
  BY <1>r DEF RmallocAddr
<1>3. /\ m[k].addr \in 1..NPages /\ m[k].size \in 1..NPages
      /\ m[k].addr + m[k].size <= NPages + 1
      /\ \A i \in 1..Len(m) : i < k => m[i].addr + m[i].size < m[k].addr
      /\ \A i \in 1..Len(m) : i > k => m[k].addr + m[k].size < m[i].addr
      /\ \A i \in 1..Len(m) : m[i].size \in Nat
  BY <1>1, FragmentFields
<1>4. UnitsOf(m[k]) = m[k].addr .. m[k].addr + m[k].size - 1 /\ UnitsOf(m[k]) \subseteq Units(m)
  BY <1>1 DEF UnitsOf, Units
<1>5. UnitsOf(Block(a, n)) = a..a+n-1
  BY <1>2, <1>3, BlockFields
<1>6. /\ a \in 1..NPages /\ a + n <= NPages + 1
      /\ UnitsOf(Block(a, n)) \subseteq UnitsOf(m[k])
  <2> HIDE DEF k
  <2>1. PICK b \in Nat, s \in Nat : b = m[k].addr /\ s = m[k].size
    BY <1>0, <1>3
  <2>2. n \in Nat /\ n <= s /\ a = b /\ a \in 1..NPages /\ b + s <= NPages + 1
    BY <1>0, <1>1, <1>2, <1>3, <2>1
  <2>3. b \in Nat /\ s \in Nat /\ NPages \in Nat
    BY <1>0, <2>1
  <2>4. a + n <= NPages + 1 /\ a + n - 1 <= b + s - 1
    BY <2>2, <2>3
  <2>5. a..a+n-1 \subseteq b..b+s-1
    BY <2>2, <2>3, <2>4
  <2> QED BY <1>4, <1>5, <2>1, <2>2, <2>4, <2>5
<1> DEFINE e == Block(m[k].addr + n, m[k].size - n)
<1>7. r = IF m[k].size = n THEN RemoveAt(m, k) ELSE Updated(m, k, e)
  BY <1>r DEF RmallocMap, Updated
<1> HIDE DEF k
<1>8. CASE m[k].size = n
  <2>1. r = RemoveAt(m, k)
    BY <1>7, <1>8
  <2>2. /\ Fragments(r) /\ Units(r) = Units(m) \ UnitsOf(m[k])
        /\ \A i \in 1..Len(r) : \E j \in 1..Len(m) : r[i] = m[j]
    BY <1>1, <2>1, Removed, SMTT(30)
  <2>3. UnitsOf(m[k]) = UnitsOf(Block(a, n))
    BY <1>2, <1>4, <1>5, <1>8
  <2>4. \A s \in Nat : Fits(r, s) # {} => Fits(m, s) # {}
    BY <2>2 DEF Fits
  <2> QED BY <1>r, <1>4, <1>6, <2>2, <2>3, <2>4
<1>9. CASE m[k].size # n
  <2>1. r = Updated(m, k, e)
    BY <1>7, <1>9
  <2>2. m[k].addr + n \in 1..NPages /\ m[k].size - n \in 1..NPages
    BY <1>0, <1>1, <1>3, <1>9, SMTT(30)
  <2>3. /\ e \in Fragment /\ e.addr = a + n /\ e.size = m[k].size - n
        /\ UnitsOf(e) = a+n .. m[k].addr + m[k].size - 1
    <3>1. /\ e \in Fragment /\ e.addr = m[k].addr + n /\ e.size = m[k].size - n
          /\ UnitsOf(e) = m[k].addr + n .. m[k].addr + n + (m[k].size - n) - 1
      BY <2>2, BlockFields
    <3>2. m[k].addr + n + (m[k].size - n) - 1 = m[k].addr + m[k].size - 1
      BY <1>3
    <3> HIDE DEF e
    <3> QED BY <1>2, <3>1, <3>2
  <2> HIDE DEF e
  <2>4. /\ e.addr + e.size = m[k].addr + m[k].size
        /\ m[k].addr <= e.addr
    BY <1>2, <1>3, <2>3
  <2>5. /\ \A i \in 1..Len(m) : i < k => m[i].addr + m[i].size < e.addr
        /\ \A i \in 1..Len(m) : i > k => e.addr + e.size < m[i].addr
    <3>1. \A i \in 1..Len(m) : m[i].addr \in Nat /\ m[i].size \in Nat
      BY FragmentFields
    <3>2. e.addr \in Nat /\ a \in Nat
      BY <1>6, <2>3
    <3> QED BY <1>3, <2>4, <3>1, <3>2, SMTT(30)
  <2>6. /\ Fragments(r) /\ Len(r) = Len(m)
        /\ Units(r) = (Units(m) \ UnitsOf(m[k])) \cup UnitsOf(e)
        /\ \A i \in 1..Len(m) : r[i] = IF i = k THEN e ELSE m[i]
    <3>1. ClearOf(m, k, k, e)
      BY <1>3, <2>3, <2>4, <2>5 DEF ClearOf
    <3> QED BY <1>1, <2>1, <3>1, Replaced
  <2>7. UnitsOf(e) = UnitsOf(m[k]) \ UnitsOf(Block(a, n))
    BY <1>0, <1>2, <1>3, <1>4, <1>5, <2>2, <2>3, SMTT(30)
  <2>8. Units(r) = Units(m) \ UnitsOf(Block(a, n))
    BY <1>4, <1>6, <2>6, <2>7
  <2>9. \A s \in Nat : Fits(r, s) # {} => Fits(m, s) # {}
    <3> SUFFICES ASSUME NEW s \in Nat, NEW i \in Fits(r, s) PROVE Fits(m, s) # {}
      OBVIOUS
    <3>1. i \in 1..Len(m) /\ r[i].size >= s
      BY <2>6 DEF Fits
    <3>2. m[i].size >= r[i].size /\ m[i].size \in Nat /\ r[i].size \in Nat
      BY <1>1, <1>3, <2>3, <2>6, <3>1, <1>0
    <3>3. m[i].size >= s
      BY <3>1, <3>2
    <3> QED BY <3>1, <3>3 DEF Fits
  <2> QED BY <1>r, <1>4, <1>6, <2>6, <2>8, <2>9
<1> QED BY <1>8, <1>9

\* What lies before and after the place of a block that nobody has put back.
LEMMA Gap ==
  ASSUME NEW m, Fragments(m), NEW a \in 1..NPages, NEW n \in 1..NPages,
         a..a+n-1 \cap Units(m) = {}
  PROVE  LET k == Below(m, a) IN
         /\ k \in 0..Len(m)
         /\ \A i \in 1..Len(m) : i <= k => m[i].addr + m[i].size <= a
         /\ \A i \in 1..Len(m) : i > k => a + n <= m[i].addr
         /\ ~GrowsUp(m, a) => \A i \in 1..Len(m) : i <= k => m[i].addr + m[i].size < a
         /\ ~GrowsDown(m, n, a) => \A i \in 1..Len(m) : i > k => a + n < m[i].addr
<1>a. /\ a \in Nat /\ n \in Nat /\ n >= 1 /\ a \in a..a+n-1
      /\ \A u \in a..a+n-1 : \A i \in 1..Len(m) : u \notin UnitsOf(m[i])
  <2>1. NPages \in Nat
    BY FragmentFields
  <2>2. a \in Nat /\ n \in Nat /\ n >= 1
    BY <2>1
  <2>3. a \in a..a+n-1
    BY <2>2
  <2>4. \A u \in a..a+n-1 : \A i \in 1..Len(m) : u \notin UnitsOf(m[i])
    BY InUnits
  <2> QED BY <2>2, <2>3, <2>4
<1>0. /\ a \in Nat /\ n \in Nat /\ n >= 1 /\ Len(m) \in Nat
      /\ \A i \in 1..Len(m) : m[i].addr \in Nat /\ m[i].size \in Nat /\ m[i].size >= 1
      /\ \A i, j \in 1..Len(m) : i < j => m[i].addr + m[i].size < m[j].addr
  <2>1. /\ Len(m) \in Nat
        /\ \A i \in 1..Len(m) : m[i].addr \in Nat /\ m[i].size \in Nat /\ m[i].size >= 1
        /\ \A i, j \in 1..Len(m) : i < j => m[i].addr + m[i].size < m[j].addr
    BY FragmentNumbers
  <2> QED BY <1>a, <2>1
<1>1. PICK k : k = Below(m, a)
  OBVIOUS
<1>2. /\ k \in 0..Len(m)
      /\ \A i \in 1..Len(m) : m[i].addr <= a <=> i <= k
  <2>1. PICK x \in Int : x = a
    BY <1>0
  <2>2. /\ Below(m, x) \in 0..Len(m)
        /\ \A i \in 1..Len(m) : m[i].addr <= x <=> i <= Below(m, x)
    BY BelowSplits
  <2>3. Below(m, x) = k
    BY <1>1, <2>1
  <2> QED BY <2>1, <2>2, <2>3
<1>3. ASSUME NEW i \in 1..Len(m), i <= k PROVE m[i].addr + m[i].size <= a
  <2>1. m[i].addr <= a
    BY <1>2, <1>3
  <2>2. a \notin UnitsOf(m[i])
    BY <1>a
  <2>3. ~(a < m[i].addr + m[i].size)
    BY <1>0, <2>1, <2>2, InFragment
  <2> QED BY <1>0, <2>3
<1>4. ASSUME NEW i \in 1..Len(m), i > k PROVE a + n <= m[i].addr
  <2>1. m[i].addr > a
    BY <1>0, <1>2, <1>4
  <2>2. m[i].addr \in UnitsOf(m[i])
    <3>1. m[i].addr \in Nat /\ m[i].size \in Nat /\ m[i].size >= 1
      BY <1>0
    <3> QED BY <3>1 DEF UnitsOf
  <2>3. m[i].addr \notin a..a+n-1
    BY <1>a, <2>2
  <2> QED BY <1>0, <2>1, <2>3
<1>5. ASSUME ~GrowsUp(m, a), NEW i \in 1..Len(m), i <= k PROVE m[i].addr + m[i].size < a
  <2>1. k > 0 => m[k].addr + m[k].size # a
    BY <1>1, <1>5 DEF GrowsUp
  <2>2. k \in 1..Len(m)
    BY <1>0, <1>2, <1>5
  <2>3. m[k].addr + m[k].size <= a
    BY <1>2, <1>3, <2>2
  <2>4. m[k].addr + m[k].size < a
    <3>1. m[k].addr \in Nat /\ m[k].size \in Nat /\ k > 0 /\ a \in Nat
      BY <1>0, <1>2, <2>2
    <3> QED BY <2>1, <2>3, <3>1
  <2>5. CASE i = k
    BY <2>4, <2>5
  <2>6. CASE i < k
    <3>1. m[i].addr + m[i].size < m[k].addr
      BY <1>0, <2>2, <2>6
    <3> QED BY <1>0, <2>2, <2>4, <3>1, SMTT(30)
  <2> QED BY <1>2, <1>5, <2>5, <2>6
<1>6. ASSUME ~GrowsDown(m, n, a), NEW i \in 1..Len(m), i > k PROVE a + n < m[i].addr
  <2>1. k < Len(m) => a + n # m[k + 1].addr
    BY <1>1, <1>6 DEF GrowsDown
  <2>2. k + 1 \in 1..Len(m) /\ k + 1 > k /\ k < Len(m)
    BY <1>0, <1>2, <1>6
  <2>3. a + n <= m[k + 1].addr
    BY <1>4, <2>2
  <2>4. a + n < m[k + 1].addr
    <3>1. m[k + 1].addr \in Nat /\ a \in Nat /\ n \in Nat
      BY <1>0, <2>2
    <3> QED BY <2>1, <2>2, <2>3, <3>1
  <2>5. CASE i = k + 1
    BY <2>4, <2>5
  <2>6. CASE i > k + 1
    <3>1. m[k + 1].addr + m[k + 1].size < m[i].addr
      BY <1>0, <2>2, <2>6
    <3> QED BY <1>0, <2>2, <2>4, <3>1
  <2> QED BY <1>2, <1>6, <2>2, <2>5, <2>6
<1> QED BY <1>1, <1>2, <1>3, <1>4, <1>5, <1>6

\* The n pages between entry k and the next one are all there is between them.
Joins(m, k, n) == k < Len(m) /\ m[k].addr + m[k].size + n = m[k + 1].addr

Merged(m, k, n) == RemoveAt([m EXCEPT ![k].size = @ + n + m[k + 1].size], k + 1)

\* Entry k + 1 goes, and its pages and n more in between go to entry k.
LEMMA Combined ==
  ASSUME NEW m, Fragments(m), NEW k \in 1..Len(m), NEW n \in Nat, Joins(m, k, n)
  PROVE  /\ Fragments(Merged(m, k, n))
         /\ Units(Merged(m, k, n)) = Units(m) \cup (m[k].addr + m[k].size .. m[k + 1].addr - 1)
<1>0. /\ m \in Seq(Fragment) /\ Len(m) \in Nat /\ k \in Nat /\ k + 1 \in 1..Len(m) /\ NPages \in Nat
      /\ m[k].addr + m[k].size + n = m[k + 1].addr
      /\ \A i \in 1..Len(m) :
           /\ m[i] \in Fragment /\ m[i] = Block(m[i].addr, m[i].size)
           /\ m[i].addr \in 1..NPages /\ m[i].size \in 1..NPages
           /\ m[i].addr + m[i].size <= NPages + 1
      /\ \A i, j \in 1..Len(m) : i < j => m[i].addr + m[i].size < m[j].addr
  BY FragmentFields DEF Fragments, Joins
<1>l. PICK l : l = k + 1
  OBVIOUS
<1>n. /\ l \in 1..Len(m) /\ NPages \in Nat
      /\ m[k].addr \in 1..NPages /\ m[k].size \in 1..NPages
      /\ m[l].addr \in 1..NPages /\ m[l].size \in 1..NPages
      /\ m[l].addr + m[l].size <= NPages + 1
      /\ m[k].addr + m[k].size + n = m[l].addr
  BY <1>0, <1>l
<1>m. PICK ka \in Nat, ks \in Nat, la \in Nat, ls \in Nat :
        ka = m[k].addr /\ ks = m[k].size /\ la = m[l].addr /\ ls = m[l].size
  <2>1. m[k].addr \in Nat /\ m[k].size \in Nat /\ m[l].addr \in Nat /\ m[l].size \in Nat
    BY <1>n, FragmentNumbers
  <2> QED BY <2>1
<1>N. ka >= 1 /\ ks >= 1 /\ ls >= 1 /\ la + ls <= NPages + 1 /\ ka + ks + n = la /\ NPages \in Nat
  BY <1>n, <1>m
<1> DEFINE size == ks + n + ls
           e == Block(ka, size)
<1>1. /\ e \in Fragment /\ e.addr = ka /\ e.size = size /\ e.addr + e.size = la + ls
      /\ UnitsOf(e) = ka .. la + ls - 1
  <2>1. size \in 1..NPages /\ ka + size = la + ls /\ ka \in 1..NPages
    BY <1>N
  <2> HIDE DEF size
  <2>2. /\ e \in Fragment /\ e.addr = ka /\ e.size = size
        /\ UnitsOf(e) = ka .. ka + size - 1
    BY <2>1, BlockFields
  <2> HIDE DEF e
  <2> QED BY <2>1, <2>2
<1>2. [m EXCEPT ![k].size = @ + n + m[k + 1].size] = Updated(m, k, e)
  <2>1. [m[k] EXCEPT !.size = @ + n + m[k + 1].size] = e
    <3>1. m[k] = Block(ka, ks) /\ m[k + 1].size = ls
      BY <1>0, <1>l, <1>m
    <3> QED BY <3>1 DEF Block
  <2> HIDE DEF e
  <2> QED BY <2>1 DEF Updated
<1> HIDE DEF e, size
<1>3. PICK q : q = Updated(m, k, e)
  OBVIOUS
<1>4. PICK r : r = RemoveAt(q, l)
  OBVIOUS
<1>5. PICK s : s = RemoveAt(m, l)
  OBVIOUS
<1>6. PICK t : t = Updated(s, k, e)
  OBVIOUS
<1>7. /\ Fragments(s) /\ Len(s) = Len(m) - 1
      /\ Units(s) = Units(m) \ UnitsOf(m[l])
  BY <1>5, <1>n, Removed
<1>8. \A i \in 1..Len(s) : s[i] = IF i < k + 1 THEN m[i] ELSE m[i + 1]
  <2>1. m \in Seq(Fragment) /\ l \in 1..Len(m)
    BY <1>0, <1>n
  <2>2. /\ s \in Seq(Fragment) /\ Len(s) = Len(m) - 1
        /\ \A i \in 1..Len(m) - 1 : s[i] = IF i < l THEN m[i] ELSE m[i + 1]
    BY <1>5, <2>1, RemovedEntries
  <2> QED BY <1>l, <2>2
<1>9. k \in 1..Len(s) /\ s[k] = m[k]
  BY <1>0, <1>7, <1>8
<1>10. ClearOf(s, k, k, e)
  <2>1. ASSUME NEW i \in 1..Len(s), i < k PROVE s[i].addr + s[i].size < e.addr
    <3>1. i \in 1..Len(m) /\ i < k + 1
      BY <1>0, <1>7, <2>1
    <3>2. s[i] = m[i]
      BY <1>8, <3>1
    <3> QED BY <1>0, <1>1, <1>m, <2>1, <3>1, <3>2
  <2>2. ASSUME NEW i \in 1..Len(s), i > k PROVE e.addr + e.size < s[i].addr
    <3>0. i + 1 \in 1..Len(m) /\ k + 1 < i + 1 /\ ~(i < k + 1)
      BY <1>0, <1>7, <2>2
    <3>1. s[i] = m[i + 1] /\ i + 1 \in 1..Len(m) /\ k + 1 < i + 1
      BY <1>8, <3>0
    <3>2. m[l].addr + m[l].size < s[i].addr
      BY <1>0, <1>l, <3>1
    <3> QED BY <1>1, <1>m, <3>2
  <2> QED BY <1>1, <1>N, <2>1, <2>2 DEF ClearOf
<1>11. /\ Fragments(t) /\ Len(t) = Len(s)
       /\ Units(t) = (Units(s) \ UnitsOf(s[k])) \cup UnitsOf(e)
       /\ \A i \in 1..Len(s) : t[i] = IF i = k THEN e ELSE s[i]
  BY <1>6, <1>7, <1>9, <1>10, Replaced
<1>12. /\ q \in Seq(Fragment) /\ Len(q) = Len(m)
       /\ \A i \in 1..Len(m) : q[i] = IF i = k THEN e ELSE m[i]
  <2>1. m \in Seq(Fragment) /\ e \in Fragment
    BY <1>0, <1>1
  <2> QED BY <1>3, <2>1, ExceptSeq DEF Updated
<1>13. /\ r \in Seq(Fragment) /\ Len(r) = Len(m) - 1
       /\ \A i \in 1..Len(r) : r[i] = IF i < l THEN q[i] ELSE q[i + 1]
  <2>1. q \in Seq(Fragment) /\ l \in 1..Len(q) /\ Len(q) = Len(m)
    BY <1>n, <1>12
  <2>2. /\ r \in Seq(Fragment) /\ Len(r) = Len(q) - 1
        /\ \A i \in 1..Len(q) - 1 : r[i] = IF i < l THEN q[i] ELSE q[i + 1]
    BY <1>4, <2>1, RemovedEntries, SMTT(30)
  <2> QED BY <2>1, <2>2
<1>14. r = t
  <2>1. \A i \in 1..Len(r) : r[i] = t[i]
    <3> SUFFICES ASSUME NEW i \in 1..Len(r) PROVE r[i] = t[i]
      OBVIOUS
    <3>1. i \in Nat /\ i \in 1..Len(s) /\ i \in 1..Len(m) /\ i + 1 \in 1..Len(m) /\ k \in Nat
      BY <1>0, <1>7, <1>13
    <3>2. CASE i < l
      BY <1>l, <1>8, <1>11, <1>12, <1>13, <3>1, <3>2
    <3>3. CASE ~(i < l)
      <4>1. i + 1 # k /\ i # k
        BY <1>l, <3>1, <3>3
      <4>2. r[i] = m[i + 1]
        BY <1>12, <1>13, <3>1, <3>3, <4>1
      <4>3. t[i] = m[i + 1]
        BY <1>l, <1>8, <1>11, <3>1, <3>3, <4>1
      <4> QED BY <4>2, <4>3
    <3> QED BY <3>2, <3>3
  <2> QED BY <1>7, <1>11, <1>13, <2>1, SeqEqual DEF Fragments
<1>15. Units(r) = Units(m) \cup (m[k].addr + m[k].size .. m[k + 1].addr - 1)
  <2>1. UnitsOf(m[k]) = ka .. ka + ks - 1 /\ UnitsOf(m[l]) = la .. la + ls - 1
    BY <1>m DEF UnitsOf
  <2>2. UnitsOf(m[k]) \subseteq Units(m) /\ UnitsOf(m[l]) \subseteq Units(m)
    BY <1>n DEF Units
  <2>3. UnitsOf(e) = UnitsOf(m[k]) \cup (ka + ks .. la - 1) \cup UnitsOf(m[l])
    BY <1>1, <1>N, <2>1
  <2>4. Units(r) = ((Units(m) \ UnitsOf(m[l])) \ UnitsOf(m[k])) \cup UnitsOf(e)
    BY <1>7, <1>9, <1>11, <1>14
  <2>5. Units(r) = Units(m) \cup (ka + ks .. la - 1)
    BY <2>2, <2>3, <2>4
  <2> QED BY <1>l, <1>m, <2>5
<1>16. Merged(m, k, n) = r
  BY <1>l, <1>2, <1>3, <1>4 DEF Merged
<1> QED BY <1>11, <1>14, <1>15, <1>16

\* rmfree of n pages that nobody has put back, when there is room for all fragments.
LEMMA Given ==
  ASSUME NEW m, Fragments(m), Room(m),
         NEW a \in 1..NPages, NEW n \in 1..NPages, a + n <= NPages + 1,
         UnitsOf(Block(a, n)) \cap Units(m) = {}
  PROVE  /\ ~Overflows(m, n, a)
         /\ Fragments(RmfreeMap(m, n, a))
         /\ Units(RmfreeMap(m, n, a)) = Units(m) \cup UnitsOf(Block(a, n))
<1>0. /\ Len(m) \in Nat /\ NPages \in Nat /\ a \in Nat /\ n \in Nat /\ n >= 1 /\ m \in Seq(Fragment)
      /\ UnitsOf(Block(a, n)) = a..a+n-1
  BY FragmentFields, BlockFields DEF Fragments
<1>1. PICK k : k = Below(m, a)
  OBVIOUS
<1>2. /\ k \in 0..Len(m)
      /\ \A i \in 1..Len(m) : i <= k => m[i].addr + m[i].size <= a
      /\ \A i \in 1..Len(m) : i > k => a + n <= m[i].addr
      /\ ~GrowsUp(m, a) => \A i \in 1..Len(m) : i <= k => m[i].addr + m[i].size < a
      /\ ~GrowsDown(m, n, a) => \A i \in 1..Len(m) : i > k => a + n < m[i].addr
  BY <1>0, <1>1, Gap
<1>3. PICK l : l = k + 1
  OBVIOUS
<1>4. GrowsUp(m, a) => k \in 1..Len(m) /\ m[k].addr + m[k].size = a
  BY <1>0, <1>1, <1>2 DEF GrowsUp
<1>5. GrowsDown(m, n, a) => k < Len(m) /\ l \in 1..Len(m) /\ a + n = m[l].addr
  BY <1>0, <1>1, <1>2, <1>3 DEF GrowsDown
<1>6. l \in 1..Len(m) + 1 /\ k \in Nat
  BY <1>0, <1>2, <1>3
<1>7. \A i \in 1..Len(m) : UnitsOf(m[i]) = m[i].addr .. m[i].addr + m[i].size - 1 /\ UnitsOf(m[i]) \subseteq Units(m)
  BY DEF UnitsOf, Units
<1>8. /\ \A i \in 1..Len(m) : m[i].addr \in Nat /\ m[i].size \in Nat /\ m[i].size >= 1
      /\ \A i, j \in 1..Len(m) : i < j => m[i].addr + m[i].size < m[j].addr
      /\ \A i \in 1..Len(m) : m[i] = Block(m[i].addr, m[i].size) /\ m[i].addr + m[i].size <= NPages + 1
  BY FragmentFields, FragmentNumbers
<1>9. CASE GrowsUp(m, a) /\ GrowsDown(m, n, a)
  <2>1. RmfreeMap(m, n, a) = Merged(m, k, n)
    BY <1>1, <1>9 DEF RmfreeMap, Merged
  <2>2. Joins(m, k, n)
    BY <1>3, <1>4, <1>5, <1>9 DEF Joins
  <2>3. m[k].addr + m[k].size = a /\ m[k + 1].addr - 1 = a + n - 1
    BY <1>0, <1>3, <1>4, <1>5, <1>9
  <2>4. /\ Fragments(Merged(m, k, n))
        /\ Units(Merged(m, k, n)) = Units(m) \cup (m[k].addr + m[k].size .. m[k + 1].addr - 1)
    BY <1>0, <1>4, <1>9, <2>2, Combined
  <2> QED BY <1>0, <1>9, <2>1, <2>3, <2>4 DEF Overflows
<1>10. CASE GrowsUp(m, a) /\ ~GrowsDown(m, n, a)
  <2> DEFINE e == Block(m[k].addr, m[k].size + n)
  <2>1. /\ k \in 1..Len(m) /\ m[k].addr + m[k].size = a
        /\ m[k].addr \in Nat /\ m[k].addr >= 1 /\ m[k].size \in Nat /\ m[k].size >= 1
    BY <1>4, <1>10, FragmentFields, FragmentNumbers
  <2>2. /\ e \in Fragment /\ e.addr = m[k].addr /\ e.addr + e.size = a + n
        /\ UnitsOf(e) = m[k].addr .. a + n - 1
    <3>1. m[k].addr \in 1..NPages /\ m[k].size + n \in 1..NPages /\ m[k].addr + (m[k].size + n) = a + n
      <4>1. PICK b \in Nat, s \in Nat : b = m[k].addr /\ s = m[k].size
        BY <2>1
      <4>2. b >= 1 /\ s >= 1 /\ b + s = a /\ a + n <= NPages + 1 /\ NPages \in Nat /\ n \in Nat
        BY <1>0, <2>1, <4>1
      <4>3. b \in 1..NPages /\ s + n \in 1..NPages /\ b + (s + n) = a + n
        BY <4>2
      <4> QED BY <4>1, <4>3
    <3>2. /\ e \in Fragment /\ e.addr = m[k].addr /\ e.size = m[k].size + n
          /\ UnitsOf(e) = m[k].addr .. m[k].addr + (m[k].size + n) - 1
      BY <3>1, BlockFields
    <3> HIDE DEF e
    <3> QED BY <3>1, <3>2
  <2>3. [m EXCEPT ![k].size = @ + n] = Updated(m, k, e)
    <3>1. [m[k] EXCEPT !.size = @ + n] = e
      <4>1. m[k] = Block(m[k].addr, m[k].size)
        BY <1>8, <2>1
      <4> QED BY <4>1 DEF Block
    <3> HIDE DEF e
    <3> QED BY <3>1 DEF Updated
  <2> HIDE DEF e
  <2>4. RmfreeMap(m, n, a) = Updated(m, k, e)
    BY <1>1, <1>10, <2>3 DEF RmfreeMap
  <2>5. ClearOf(m, k, k, e)
    <3>1. \A i \in 1..Len(m) : i < k => m[i].addr + m[i].size < e.addr
      BY <1>8, <2>1, <2>2
    <3>2. \A i \in 1..Len(m) : i > k => e.addr + e.size < m[i].addr
      BY <1>2, <1>10, <2>2
    <3> QED BY <2>2, <3>1, <3>2 DEF ClearOf
  <2>6. /\ Fragments(Updated(m, k, e))
        /\ Units(Updated(m, k, e)) = (Units(m) \ UnitsOf(m[k])) \cup UnitsOf(e)
    BY <2>1, <2>5, Replaced
  <2>7. UnitsOf(e) = UnitsOf(m[k]) \cup (a..a+n-1) /\ UnitsOf(m[k]) \subseteq Units(m)
    <3>1. UnitsOf(m[k]) = m[k].addr .. a - 1 /\ UnitsOf(m[k]) \subseteq Units(m)
      BY <1>7, <2>1, SMTT(30)
    <3>2. m[k].addr \in Nat /\ a \in Nat /\ n \in Nat /\ n >= 1 /\ m[k].addr <= a
      BY <1>0, <2>1
    <3> QED BY <2>2, <3>1, <3>2
  <2> QED BY <1>0, <1>10, <2>4, <2>6, <2>7 DEF Overflows
<1>11. CASE ~GrowsUp(m, a) /\ GrowsDown(m, n, a)
  <2> DEFINE e == Block(a, m[l].size + n)
  <2>1. /\ l \in 1..Len(m) /\ m[l].addr = a + n /\ k < l
        /\ m[l].size \in Nat /\ m[l].size >= 1 /\ m[l].addr + m[l].size <= NPages + 1
    BY <1>0, <1>3, <1>5, <1>6, <1>8, <1>11
  <2>2. /\ e \in Fragment /\ e.addr = a /\ e.addr + e.size = m[l].addr + m[l].size
        /\ UnitsOf(e) = a .. m[l].addr + m[l].size - 1
    <3>1. m[l].size + n \in 1..NPages /\ a + (m[l].size + n) = m[l].addr + m[l].size
      BY <1>0, <2>1
    <3>2. /\ e \in Fragment /\ e.addr = a /\ e.size = m[l].size + n
          /\ UnitsOf(e) = a .. a + (m[l].size + n) - 1
      BY <3>1, BlockFields
    <3> HIDE DEF e
    <3>3. e.addr + e.size = m[l].addr + m[l].size
      BY <3>1, <3>2
    <3>4. UnitsOf(e) = a .. m[l].addr + m[l].size - 1
      <4>1. a + (m[l].size + n) - 1 = m[l].addr + m[l].size - 1
        BY <1>0, <2>1
      <4> QED BY <3>2, <4>1
    <3> QED BY <3>2, <3>3, <3>4
  <2>3. [m EXCEPT ![l] = Block(a, @.size + n)] = Updated(m, l, e)
    BY DEF Updated
  <2> HIDE DEF e
  <2>4. RmfreeMap(m, n, a) = Updated(m, l, e)
    BY <1>1, <1>3, <1>11, <2>3 DEF RmfreeMap
  <2>5. ClearOf(m, l, l, e)
    <3>1. \A i \in 1..Len(m) : i < l => m[i].addr + m[i].size < e.addr
      BY <1>2, <1>3, <1>6, <1>11, <2>2
    <3>2. \A i \in 1..Len(m) : i > l => e.addr + e.size < m[i].addr
      BY <1>8, <2>1, <2>2
    <3> QED BY <2>1, <2>2, <3>1, <3>2 DEF ClearOf
  <2>6. /\ Fragments(Updated(m, l, e))
        /\ Units(Updated(m, l, e)) = (Units(m) \ UnitsOf(m[l])) \cup UnitsOf(e)
    BY <2>1, <2>5, Replaced
  <2>7. UnitsOf(e) = UnitsOf(m[l]) \cup (a..a+n-1) /\ UnitsOf(m[l]) \subseteq Units(m)
    BY <1>0, <1>7, <2>1, <2>2, SMTT(30)
  <2> QED BY <1>0, <1>11, <2>4, <2>6, <2>7 DEF Overflows
<1>12. CASE ~GrowsUp(m, a) /\ ~GrowsDown(m, n, a)
  <2> DEFINE e == Block(a, n)
  <2>1. PICK r : r = InsertAt(m, l, e)
    OBVIOUS
  <2>2. /\ e \in Fragment /\ e.addr = a /\ e.size = n
    BY BlockFields
  <2> HIDE DEF e
  <2>3. ClearOf(m, l, l - 1, e)
    <3>1. \A i \in 1..Len(m) : i < l => m[i].addr + m[i].size < e.addr
      BY <1>2, <1>3, <1>6, <1>12, <2>2
    <3>2. \A i \in 1..Len(m) : i > l - 1 => e.addr + e.size < m[i].addr
      BY <1>2, <1>3, <1>6, <1>12, <2>2
    <3> QED BY <1>0, <2>2, <3>1, <3>2 DEF ClearOf
  <2>4. /\ Fragments(r) /\ Len(r) = Len(m) + 1
        /\ Units(r) = Units(m) \cup UnitsOf(e)
    BY <1>6, <2>1, <2>3, Inserted
  <2>5. Usable \in Int
    BY MapSizeAssumption DEF Usable
  <2>6. ~Overflows(m, n, a)
    <3>1. CASE Ample
      <4>1. Len(r) <= Usable
        BY <2>4, <3>1, RoomSuffices
      <4> QED BY <1>0, <2>4, <2>5, <4>1 DEF Overflows
    <3>2. CASE Len(m) < Usable
      BY <1>0, <2>5, <3>2 DEF Overflows
    <3> QED BY <3>1, <3>2 DEF Room
  <2>7. RmfreeMap(m, n, a) = SubSeq(r, 1, Len(r))
    <3>1. RmfreeMap(m, n, a) = SubSeq(InsertAt(m, k + 1, e), 1, Len(m) + 1)
      BY <1>1, <1>12, <2>6 DEF RmfreeMap, e
    <3> QED BY <1>3, <2>1, <2>4, <3>1
  <2>8. SubSeq(r, 1, Len(r)) = r
    BY <2>4, SubSeqFull DEF Fragments
  <2> QED BY <2>4, <2>6, <2>7, <2>8 DEF e
<1> QED BY <1>9, <1>10, <1>11, <1>12

\* A run of free pages lies in one fragment.
LEMMA RunFits ==
  ASSUME NEW m, Fragments(m), NEW lo \in 1..NPages, NEW n \in 1..NPages, lo..lo+n-1 \subseteq Units(m)
  PROVE  Fits(m, n) # {}
<1>0. /\ Len(m) \in Nat /\ NPages \in Nat /\ lo \in Nat /\ n \in Nat /\ n >= 1
      /\ \A i \in 1..Len(m) : m[i].addr \in Nat /\ m[i].size \in Nat /\ m[i].size >= 1
      /\ \A i, j \in 1..Len(m) : i < j => m[i].addr + m[i].size < m[j].addr
  <2>1. /\ Len(m) \in Nat
        /\ \A i \in 1..Len(m) : m[i].addr \in Nat /\ m[i].size \in Nat /\ m[i].size >= 1
        /\ \A i, j \in 1..Len(m) : i < j => m[i].addr + m[i].size < m[j].addr
    BY FragmentNumbers
  <2>2. NPages \in Nat
    BY FragmentFields
  <2>3. lo \in Nat /\ n \in Nat /\ n >= 1
    BY <2>2
  <2> QED BY <2>1, <2>2, <2>3
<1>1. PICK i \in 1..Len(m) : lo \in UnitsOf(m[i])
  <2>1. lo \in lo..lo+n-1
    BY <1>0
  <2> QED BY <2>1, InUnits
<1>2. PICK b \in Nat, s \in Nat : b = m[i].addr /\ s = m[i].size
  BY <1>0
<1>3. b <= lo /\ lo < b + s
  BY <1>1, <1>2, InFragment
<1>4. ASSUME s < n PROVE FALSE
  <2>1. PICK u \in Nat : u = b + s
    BY <1>2
  <2>2. u \in lo..lo+n-1
    BY <1>0, <1>2, <1>3, <1>4, <2>1
  <2>3. PICK j \in 1..Len(m) : u \in UnitsOf(m[j])
    BY <2>2, InUnits
  <2>4. m[j].addr <= u /\ u < m[j].addr + m[j].size /\ m[j].addr \in Nat /\ m[j].size \in Nat
    BY <1>0, <2>3, InFragment
  <2>5. CASE j = i
    BY <1>2, <2>1, <2>4, <2>5
  <2>6. CASE j < i
    <3>1. m[j].addr + m[j].size < m[i].addr
      BY <1>0, <2>6
    <3> QED BY <1>2, <2>1, <2>4, <3>1, SMTT(30)
  <2>7. CASE i < j
    <3>1. m[i].addr + m[i].size < m[j].addr
      BY <1>0, <2>7
    <3> QED BY <1>2, <2>1, <2>4, <3>1
  <2> QED BY <2>5, <2>6, <2>7
<1>5. m[i].size >= n
  BY <1>0, <1>2, <1>4
<1> QED BY <1>5 DEF Fits
----------------------------------------------------------------------------
(* Who has which pages: U are free, blocks bs are taken, and each of the    *)
(* entries in ow has a page, which st tells.                                *)

Owned(U, bs, ow, st) ==
  /\ \A b \in bs : /\ b \in Fragment /\ b.addr + b.size <= NPages + 1
                   /\ UnitsOf(b) \cap U = {}
  /\ \A b, c \in bs : b # c => UnitsOf(b) \cap UnitsOf(c) = {}
  /\ \A i \in ow : /\ st[i] \in 1..NPages /\ st[i] \notin U
                   /\ \A b \in bs : st[i] \notin UnitsOf(b)
  /\ \A i, j \in ow : st[i] = st[j] => i = j

LEMMA OwnedLess ==
  ASSUME NEW U, NEW bs, NEW ow, NEW st, Owned(U, bs, ow, st),
         NEW V, V \subseteq U, NEW cs, cs \subseteq bs, NEW ox, ox \subseteq ow,
         NEW su, \A i \in ox : su[i] = st[i]
  PROVE  Owned(V, cs, ox, su)
BY DEF Owned

LEMMA BlockTaken ==
  ASSUME NEW U, NEW bs, NEW ow, NEW st, Owned(U, bs, ow, st),
         NEW e \in Fragment, e.addr + e.size <= NPages + 1, UnitsOf(e) \subseteq U
  PROVE  Owned(U \ UnitsOf(e), bs \cup {e}, ow, st)
<1>1. \A b \in bs : UnitsOf(b) \cap UnitsOf(e) = {}
  BY DEF Owned
<1>2. \A i \in ow : st[i] \notin UnitsOf(e)
  BY DEF Owned
<1> QED BY <1>1, <1>2 DEF Owned

LEMMA StackTaken ==
  ASSUME NEW U, NEW bs, NEW ow, NEW st, Owned(U, bs, ow, st),
         NEW a \in 1..NPages, a \in U, NEW k, k \notin ow,
         NEW su, su[k] = a, \A i \in ow : su[i] = st[i]
  PROVE  Owned(U \ {a}, bs, ow \cup {k}, su)
<1>1. \A b \in bs : a \notin UnitsOf(b) /\ UnitsOf(b) \cap (U \ {a}) = {}
  BY DEF Owned
<1>2. \A i \in ow : st[i] # a /\ st[i] \notin U \ {a}
  BY DEF Owned
<1>3. \A i, j \in ow \cup {k} : su[i] = su[j] => i = j
  BY <1>2 DEF Owned
<1>4. \A i \in ow \cup {k} : /\ su[i] \in 1..NPages /\ su[i] \notin U \ {a}
                             /\ \A b \in bs : su[i] \notin UnitsOf(b)
  BY <1>1, <1>2 DEF Owned
<1> QED BY <1>1, <1>3, <1>4 DEF Owned

LEMMA BlockGiven ==
  ASSUME NEW U, NEW bs, NEW ow, NEW st, Owned(U, bs, ow, st), NEW b \in bs
  PROVE  Owned(U \cup UnitsOf(b), bs \ {b}, ow, st)
<1>1. \A c \in bs \ {b} : UnitsOf(c) \cap (U \cup UnitsOf(b)) = {}
  BY DEF Owned
<1>2. \A i \in ow : st[i] \notin U \cup UnitsOf(b)
  BY DEF Owned
<1> QED BY <1>1, <1>2 DEF Owned

LEMMA StackGiven ==
  ASSUME NEW U, NEW bs, NEW ow, NEW st, Owned(U, bs, ow, st), NEW k \in ow,
         NEW su, \A i \in ow \ {k} : su[i] = st[i]
  PROVE  Owned(U \cup {st[k]}, bs, ow \ {k}, su)
<1>1. \A b \in bs : UnitsOf(b) \cap (U \cup {st[k]}) = {}
  BY DEF Owned
<1>2. \A i \in ow \ {k} : su[i] \notin U \cup {st[k]}
  BY DEF Owned
<1> QED BY <1>1, <1>2 DEF Owned

\* FreePageCnt when n pages go, or come.
LEMMA Counting ==
  ASSUME NEW U \in SUBSET (1..NPages), NEW a \in 1..NPages, NEW n \in 1..NPages, a + n <= NPages + 1
  PROVE  /\ Cardinality(U) \in 0..NPages
         /\ UnitsOf(Block(a, n)) \subseteq U =>
              Cardinality(U \ UnitsOf(Block(a, n))) = Cardinality(U) - n
         /\ UnitsOf(Block(a, n)) \cap U = {} =>
              Cardinality(U \cup UnitsOf(Block(a, n))) = Cardinality(U) + n
<1>0. NPages \in Nat /\ a \in Nat /\ n \in Nat /\ n >= 1
  BY ProcessesAssumption
<1> DEFINE B == UnitsOf(Block(a, n))
<1>1. B = a..a+n-1
  BY BlockFields
<1>2. IsFiniteSet(B) /\ Cardinality(B) = n
  <2>1. PICK z \in Int : z = a + n - 1
    BY <1>0
  <2>2. a \in Int
    BY <1>0
  <2>3. IsFiniteSet(a..z) /\ Cardinality(a..z) = IF a > z THEN 0 ELSE z - a + 1
    BY <2>2, FS_Interval
  <2> QED BY <1>0, <1>1, <2>1, <2>3
<1>3. IsFiniteSet(U) /\ Cardinality(U) \in 0..NPages
  <2>1. IsFiniteSet(1..NPages) /\ Cardinality(1..NPages) = NPages
    <3>1. 1 \in Int /\ NPages \in Int
      BY <1>0
    <3>2. IsFiniteSet(1..NPages) /\ Cardinality(1..NPages) = IF 1 > NPages THEN 0 ELSE NPages - 1 + 1
      BY <3>1, FS_Interval
    <3> QED BY <1>0, <3>2
  <2>2. IsFiniteSet(U) /\ Cardinality(U) <= Cardinality(1..NPages)
    BY <2>1, FS_Subset
  <2>3. Cardinality(U) \in Nat
    BY <2>2, FS_CardinalityType
  <2> QED BY <1>0, <2>1, <2>2, <2>3
<1> HIDE DEF B
<1>4. ASSUME B \subseteq U PROVE Cardinality(U \ B) = Cardinality(U) - n
  <2>1. Cardinality(U \ B) = Cardinality(U) - Cardinality(U \cap B)
    BY <1>3, FS_Difference
  <2>2. U \cap B = B
    BY <1>4
  <2> QED BY <1>2, <2>1, <2>2
<1>5. ASSUME B \cap U = {} PROVE Cardinality(U \cup B) = Cardinality(U) + n
  <2>1. Cardinality(U \cup B) = Cardinality(U) + Cardinality(B) - Cardinality(U \cap B)
    BY <1>2, <1>3, FS_Union
  <2>2. U \cap B = {} /\ Cardinality({}) = 0
    BY <1>5, FS_EmptySet
  <2> QED BY <1>0, <1>2, <1>3, <2>1, <2>2
<1> QED BY <1>3, <1>4, <1>5 DEF B
----------------------------------------------------------------------------
(* The inductive invariant.                                                *)

\* What each entry of the table is, and is doing.
Posts ==
  /\ P # Nobody => stat[P] = "SRUN"
  /\ \A i \in Slot : wchan[i] # NoChan <=> stat[i] = "SWAIT"
  /\ \A i \in Slot : stat[i] \in {"SFREE", "SIDL"} => act[i] = NoCall
  /\ \A i \in Slot : act[i].call = "alloc" => act[i].size \in BlockSizes
  /\ \A i \in Slot : act[i].call = "spawn" => act[i].slot \in Slot

\* Those who wait for pages are in kmem_alloc, and cannot have them.
Waiters == \A i \in Sleepers(CoreMap) : act[i].call = "alloc" /\ Fits(map, act[i].size) = {}

CoreSound == /\ Fragments(map)
             /\ FreePageCnt = Cardinality(Units(map))
             /\ Owned(Units(map), blocks, Equipped, stack)

Stats == {"SFREE", "SRUN", "SWAIT", "SIDL"}
Chans == {NoChan, CoreMap, "io", "reply"}
Calls == [call: {"none", "alloc", "spawn", "end"},
          size: BlockSizes \cup {0}, slot: Slot \cup {0}]

Entries == /\ P \in Slot \cup {Nobody} /\ last \in Slot
           /\ looked \in 0..NotYet /\ found \in Slot \cup {Nobody} /\ late \subseteq Slot
           /\ curpri \in Priorities /\ runrun \in BOOLEAN
           /\ stat \in [Slot -> Stats] /\ wchan \in [Slot -> Chans]
           /\ pri \in [Slot -> Priorities]
           /\ stack \in [Slot -> 0..NPages] /\ vmstack \in [Slot -> BOOLEAN]
           /\ act \in [Slot -> Calls]

\* What the search has found can run.
Chosen == /\ P # Nobody => found = Nobody
          /\ found # Nobody => stat[found] = "SRUN"

IInv == Entries /\ CoreSound /\ Posts /\ Chosen /\ Waiters /\ BuiltByOne

LEMMA ConstantFacts ==
  /\ NPROC \in Nat /\ NPROC >= 1 /\ NPages \in Nat /\ NPages >= 1
  /\ BlockSizes \subseteq 1..NPages /\ BlockSizes \subseteq Nat /\ Priorities \subseteq Nat
  /\ Unset \in Priorities /\ 1 \in Slot /\ Nobody \notin Slot
  /\ NoCall \in Calls
  /\ NoCall.call = "none" /\ NoCall.size = 0 /\ NoCall.slot = 0
<1>1. Unset \in Priorities
  BY ProcessesAssumption, LeastIn DEF Unset
<1> QED BY <1>1, ProcessesAssumption DEF Slot, Nobody, NoCall, Calls

LEMMA IInvSuffices ==
  ASSUME IInv, RoomLeft
  PROVE  TablesSound /\ NoSleepWhileFits
<1>1. /\ FreePageCnt \in 0..NPages
      /\ Units(map) \subseteq 1..NPages
  <2>1. Units(map) \in SUBSET (1..NPages)
    BY UnitsInRange DEF IInv, CoreSound
  <2>2. 1 \in 1..NPages /\ 1 + 1 <= NPages + 1
    BY ConstantFacts
  <2> QED BY <2>1, <2>2, Counting DEF IInv, CoreSound
<1>2. \A b \in blocks : UnitsOf(b) \subseteq 1..NPages
  BY ConstantFacts DEF IInv, CoreSound, Owned, UnitsOf, Fragment
<1>3. WellFormed(map)
  <2>1. Len(map) <= Usable
    <3>1. CASE Ample
      BY <3>1, RoomSuffices DEF IInv, CoreSound
    <3>2. CASE Len(map) < Usable
      BY <3>2, FragmentFields DEF IInv, CoreSound, Usable
    <3> QED BY <3>1, <3>2 DEF RoomLeft, Room
  <2>2. /\ Len(map) \in Nat
        /\ \A i \in 1..Len(map) : map[i].size \in Nat /\ map[i].size >= 1
        /\ \A i, j \in 1..Len(map) : i < j => map[i].addr + map[i].size < map[j].addr
    BY FragmentNumbers DEF IInv, CoreSound
  <2>3. \A i \in 1..Len(map)-1 : i \in 1..Len(map) /\ i + 1 \in 1..Len(map) /\ i < i + 1
    BY <2>2
  <2>4. \A i \in 1..Len(map) : map[i].size > 0
    BY <2>2
  <2>5. \A i \in 1..Len(map)-1 : map[i].addr + map[i].size < map[i + 1].addr
    BY <2>2, <2>3
  <2> QED BY <2>1, <2>4, <2>5 DEF WellFormed
<1>4. ASSUME NEW n \in 1..NPages, NEW lo \in 1..NPages, lo..lo+n-1 \subseteq Units(map)
      PROVE  Fits(map, n) # {}
  BY <1>4, RunFits DEF IInv, CoreSound
<1>5. MapIsHonest
  BY <1>3, <1>4 DEF MapIsHonest, IInv, CoreSound
<1> QED BY <1>1, <1>2, <1>5 DEF TablesSound, TypeOK, NoSleepWhileFits, IInv, Entries, Waiters, Stats, Chans, Calls

LEMMA IInvInit == Init => IInv
<1> SUFFICES ASSUME Init PROVE IInv
  OBVIOUS
<1>1. Entries
  <2>1. /\ P \in Slot \cup {Nobody} /\ last \in Slot
        /\ found \in Slot \cup {Nobody} /\ late \subseteq Slot
        /\ curpri \in Priorities /\ runrun \in BOOLEAN
        /\ vmstack \in [Slot -> BOOLEAN]
    BY ConstantFacts DEF Init
  <2>7. looked \in 0..NotYet
    BY ConstantFacts DEF Init, NotYet
  <2>2. stat \in [Slot -> Stats]
    BY DEF Init, Stats
  <2>3. wchan \in [Slot -> Chans]
    BY DEF Init, Chans
  <2>4. pri \in [Slot -> Priorities]
    BY ConstantFacts DEF Init
  <2>5. stack \in [Slot -> 0..NPages]
    BY ConstantFacts DEF Init, NoStack
  <2>6. act \in [Slot -> Calls]
    BY ConstantFacts DEF Init
  <2> QED BY <2>1, <2>2, <2>3, <2>4, <2>5, <2>6, <2>7 DEF Entries
<1>2. Posts /\ Chosen /\ BuiltByOne
  BY ConstantFacts DEF Init, Posts, Chosen, BuiltByOne, NoChan, NoCall
<1>3. Waiters
  BY ConstantFacts DEF Init, Waiters, Sleepers, CoreMap, NoChan
<1>4. Fragments(map) /\ Units(map) = 2..NPages
  <2>1. CASE NPages = 1
    <3>1. map = <<>> /\ map \in Seq(Fragment) /\ Len(map) = 0
      BY <2>1, EmptySeq DEF Init
    <3> QED BY <2>1, <3>1 DEF Fragments, Apart, Within, Units
  <2>2. CASE NPages # 1
    <3> DEFINE e == Block(2, NPages - 1)
    <3>1. 2 \in 1..NPages /\ NPages - 1 \in 1..NPages /\ 2 + (NPages - 1) - 1 = NPages
      BY <2>2, ConstantFacts
    <3>2. e \in Fragment /\ e.addr = 2 /\ e.size = NPages - 1 /\ UnitsOf(e) = 2..2 + (NPages - 1) - 1
      BY <3>1, BlockFields
    <3> HIDE DEF e
    <3>3. map = <<e>>
      BY <2>2 DEF Init, e
    <3>4. map \in Seq(Fragment) /\ Len(map) = 1 /\ map[1] = e
      BY <3>2, <3>3
    <3>5. Apart(map) /\ Within(map)
      BY <3>1, <3>2, <3>4, ConstantFacts DEF Apart, Within
    <3>6. Units(map) = UnitsOf(e)
      BY <3>4 DEF Units
    <3> QED BY <3>1, <3>2, <3>4, <3>5, <3>6 DEF Fragments
  <2> QED BY <2>1, <2>2
<1>5. FreePageCnt = Cardinality(Units(map))
  <2>1. 2 \in Int /\ NPages \in Int
    BY ConstantFacts
  <2>2. Cardinality(2..NPages) = IF 2 > NPages THEN 0 ELSE NPages - 2 + 1
    BY <2>1, FS_Interval
  <2> QED BY <1>4, <2>2, ConstantFacts DEF Init
<1>6. Owned(Units(map), blocks, Equipped, stack)
  <2>1. Equipped = {1} /\ blocks = {} /\ stack[1] = 1
    BY ConstantFacts DEF Init, Equipped
  <2> QED BY <1>4, <2>1, ConstantFacts DEF Owned
<1> QED BY <1>1, <1>2, <1>3, <1>4, <1>5, <1>6 DEF IInv, CoreSound
----------------------------------------------------------------------------
(* How far the search has to go.                                           *)

LEMMA Modulo ==
  ASSUME NEW x \in Int, -NPROC <= x, x < NPROC
  PROVE  x % NPROC = (IF x >= 0 THEN x ELSE x + NPROC) /\ x % NPROC \in 0..NPROC-1
<1>1. ASSUME NEW y \in 0..NPROC-1 PROVE y % NPROC = y
  BY ProcessesAssumption
<1>2. ASSUME NEW y \in (-NPROC)..(-1) PROVE y % NPROC = y + NPROC
  BY ProcessesAssumption
<1>3. CASE x >= 0
  BY <1>1, <1>3, ProcessesAssumption
<1>4. CASE x < 0
  <2>1. x \in (-NPROC)..(-1)
    BY <1>4, ProcessesAssumption
  <2>2. x % NPROC = x + NPROC
    BY <1>2, <2>1
  <2> QED BY <1>4, <2>2, ProcessesAssumption
<1> QED BY <1>3, <1>4

\* How far i is from where a search that starts after l looks first.
Steps(l, i) == (i - l - 1) % NPROC

LEMMA StepsIs ==
  ASSUME NEW l \in Slot, NEW i \in Slot
  PROVE  /\ Steps(l, i) = (IF i > l THEN i - l - 1 ELSE i - l - 1 + NPROC)
         /\ Steps(l, i) \in 0..NPROC-1 /\ Steps(l, i) \in Nat
<1>1. PICK x \in Int : x = i - l - 1
  BY ProcessesAssumption DEF Slot
<1>2. -NPROC <= x /\ x < NPROC /\ (x >= 0 <=> i > l)
  BY <1>1, ProcessesAssumption DEF Slot
<1>3. Steps(l, i) = (IF x >= 0 THEN x ELSE x + NPROC) /\ Steps(l, i) \in 0..NPROC-1
  BY <1>1, <1>2, Modulo DEF Steps
<1>4. \A y \in 0..NPROC-1 : y \in Nat
  BY ProcessesAssumption
<1> QED BY <1>1, <1>2, <1>3, <1>4

\* After k, which the search finds first, i is nearer.
LEMMA StepsLess ==
  ASSUME NEW l \in Slot, NEW i \in Slot, NEW k \in Slot, k # i, Steps(l, k) <= Steps(l, i)
  PROVE  Steps(k, i) < Steps(l, i)
<1>1. l \in Nat /\ i \in Nat /\ k \in Nat /\ NPROC \in Nat /\ l <= NPROC /\ i <= NPROC /\ k <= NPROC
      /\ l >= 1 /\ i >= 1 /\ k >= 1
  BY ProcessesAssumption DEF Slot
<1>2. /\ Steps(l, k) = (IF k > l THEN k - l - 1 ELSE k - l - 1 + NPROC)
      /\ Steps(l, i) = (IF i > l THEN i - l - 1 ELSE i - l - 1 + NPROC)
      /\ Steps(k, i) = (IF i > k THEN i - k - 1 ELSE i - k - 1 + NPROC)
  BY StepsIs
<1> QED BY <1>1, <1>2

\* Two entries are not as far.
LEMMA StepsApart ==
  ASSUME NEW l \in Slot, NEW i \in Slot, NEW k \in Slot, Steps(l, i) = Steps(l, k)
  PROVE  i = k
<1>1. l \in Nat /\ i \in Nat /\ k \in Nat /\ NPROC \in Nat /\ l <= NPROC /\ i <= NPROC /\ k <= NPROC
      /\ l >= 1 /\ i >= 1 /\ k >= 1
  BY ProcessesAssumption DEF Slot
<1>2. /\ Steps(l, k) = (IF k > l THEN k - l - 1 ELSE k - l - 1 + NPROC)
      /\ Steps(l, i) = (IF i > l THEN i - l - 1 ELSE i - l - 1 + NPROC)
  BY StepsIs
<1> QED BY <1>1, <1>2
----------------------------------------------------------------------------
(* What the steps have in common.                                          *)

LEMMA TakeStep ==
  ASSUME Fragments(map), FreePageCnt = Cardinality(Units(map)), NEW n \in 1..NPages, Take(n)
  PROVE  /\ Fragments(map') /\ FreePageCnt' = Cardinality(Units(map'))
         /\ \A s \in Nat : Fits(map', s) # {} => Fits(map, s) # {}
         /\ Fits(map, n) = {} => map' = map /\ RmallocAddr(map, n) = 0
         /\ Fits(map, n) # {} =>
              /\ RmallocAddr(map, n) \in 1..NPages /\ RmallocAddr(map, n) + n <= NPages + 1
              /\ UnitsOf(Block(RmallocAddr(map, n), n)) \subseteq Units(map)
              /\ Units(map') = Units(map) \ UnitsOf(Block(RmallocAddr(map, n), n))
<1>1. map' = RmallocMap(map, n) /\ FreePageCnt' = FreePageCnt - (IF Fits(map, n) = {} THEN 0 ELSE n)
  BY DEF Take
<1>2. Units(map) \in SUBSET (1..NPages)
  BY UnitsInRange
<1>3. CASE Fits(map, n) = {}
  <2>1. map' = map /\ RmallocAddr(map, n) = 0
    BY <1>1, <1>3 DEF RmallocMap, RmallocAddr
  <2>2. 1 \in 1..NPages /\ 1 + 1 <= NPages + 1
    BY ConstantFacts
  <2>3. Cardinality(Units(map)) \in 0..NPages
    BY <1>2, <2>2, Counting
  <2>4. FreePageCnt' = Cardinality(Units(map'))
    BY <1>1, <1>3, <2>1, <2>3
  <2> QED BY <1>3, <2>1, <2>4
<1>4. CASE Fits(map, n) # {}
  <2>1. PICK a : a = RmallocAddr(map, n)
    OBVIOUS
  <2>2. /\ a \in 1..NPages /\ a + n <= NPages + 1
        /\ UnitsOf(Block(a, n)) \subseteq Units(map)
        /\ Fragments(map')
        /\ Units(map') = Units(map) \ UnitsOf(Block(a, n))
        /\ \A s \in Nat : Fits(map', s) # {} => Fits(map, s) # {}
    BY <1>1, <1>4, <2>1, Taken
  <2>3. Cardinality(Units(map')) = Cardinality(Units(map)) - n
    BY <1>2, <2>2, Counting
  <2> QED BY <1>1, <1>4, <2>1, <2>2, <2>3
<1> QED BY <1>3, <1>4

LEMMA GiveStep ==
  ASSUME Fragments(map), FreePageCnt = Cardinality(Units(map)), RoomLeft,
         NEW a \in 1..NPages, NEW n \in 1..NPages, a + n <= NPages + 1,
         UnitsOf(Block(a, n)) \cap Units(map) = {}, Give(n, a)
  PROVE  /\ Fragments(map') /\ FreePageCnt' = Cardinality(Units(map'))
         /\ Units(map') = Units(map) \cup UnitsOf(Block(a, n))
         /\ WokenByFree(n, a) = Sleepers(CoreMap)
<1>1. /\ ~Overflows(map, n, a)
      /\ Fragments(RmfreeMap(map, n, a))
      /\ Units(RmfreeMap(map, n, a)) = Units(map) \cup UnitsOf(Block(a, n))
  BY Given DEF RoomLeft
<1>2. map' = RmfreeMap(map, n, a) /\ FreePageCnt' = FreePageCnt + n
  BY <1>1 DEF Give
<1>3. Units(map) \in SUBSET (1..NPages)
  BY UnitsInRange
<1>4. Cardinality(Units(map')) = Cardinality(Units(map)) + n
  BY <1>1, <1>2, <1>3, Counting
<1> QED BY <1>1, <1>2, <1>4 DEF WokenByFree

\* The entries of woken, which were asleep, become runnable.
LEMMA SetRunStep ==
  ASSUME IInv, NEW woken \in SUBSET Slot, \A i \in woken : wchan[i] # NoChan,
         SetRun(woken), UNCHANGED <<P, last, looked, found, curpri, pri, stacks, act>>
  PROVE  /\ Entries' /\ Posts' /\ Chosen' /\ BuiltByOne' /\ Equipped' = Equipped
         /\ \A i \in Slot : wchan'[i] = CoreMap => wchan[i] = CoreMap /\ i \notin woken
<1>1. /\ stat \in [Slot -> Stats] /\ wchan \in [Slot -> Chans]
      /\ \A i \in Slot : wchan[i] # NoChan <=> stat[i] = "SWAIT"
  BY DEF IInv, Entries, Posts
<1>2. /\ \A i \in woken : stat[i] = "SWAIT" /\ stat'[i] = "SRUN" /\ wchan'[i] = NoChan
      /\ \A i \in Slot \ woken : stat'[i] = stat[i] /\ wchan'[i] = wchan[i]
      /\ stat' \in [Slot -> Stats] /\ wchan' \in [Slot -> Chans] /\ runrun' \in BOOLEAN /\ late' \subseteq Slot
  <2>1. stat' \in [Slot -> Stats] /\ wchan' \in [Slot -> Chans]
    BY <1>1 DEF SetRun, Stats, Chans
  <2>2. runrun' \in BOOLEAN
    BY DEF SetRun, IInv, Entries
  <2>3. late' \subseteq Slot
    BY DEF SetRun, IInv, Entries
  <2> QED BY <1>1, <2>1, <2>2, <2>3 DEF SetRun
<1>3. Entries'
  BY <1>2 DEF IInv, Entries, stacks
<1>4. Posts'
  BY <1>1, <1>2 DEF IInv, Posts, Entries, NoChan
<1>5. BuiltByOne'
  BY <1>1, <1>2 DEF IInv, BuiltByOne, Posts, Entries
<1>6. Equipped' = Equipped
  BY <1>1, <1>2 DEF Equipped
<1>7. Chosen'
  BY <1>1, <1>2 DEF IInv, Chosen, Entries
<1> QED BY <1>2, <1>3, <1>4, <1>5, <1>6, <1>7 DEF NoChan, CoreMap

LEMMA CoreKept ==
  ASSUME IInv, UNCHANGED core, Equipped' \subseteq Equipped, \A i \in Equipped' : stack'[i] = stack[i]
  PROVE  CoreSound'
<1>1. UNCHANGED <<map, FreePageCnt, blocks>>
  BY DEF core
<1>2. Owned(Units(map), blocks, Equipped', stack')
  BY OwnedLess DEF IInv, CoreSound
<1> QED BY <1>1, <1>2 DEF IInv, CoreSound

\* A process stops, with call a, to wait for chan.
LEMMA SleepStep ==
  ASSUME IInv, P # Nobody, NEW chan \in {CoreMap, "io"}, NEW priority \in Priorities,
         NEW a \in Calls, a.call \in {"none", "alloc"}, a.call = "alloc" => a.size \in BlockSizes,
         chan = CoreMap => a.call = "alloc" /\ Fits(map, a.size) = {},
         act[P].call \in {"none", "alloc"},
         Sleep(chan, priority, a), UNCHANGED <<stacks, core>>
  PROVE  IInv'
<1>1. /\ P \in Slot /\ stat[P] = "SRUN" /\ chan # NoChan /\ chan \in Chans
      /\ stat \in [Slot -> Stats] /\ wchan \in [Slot -> Chans]
      /\ pri \in [Slot -> Priorities] /\ act \in [Slot -> Calls]
  BY DEF IInv, Entries, Posts, NoChan, CoreMap, Chans
<1>2. PICK s, pr : s = [stat EXCEPT ![P] = "SWAIT"] /\ pr = [pri EXCEPT ![P] = priority]
  OBVIOUS
<1>3. /\ stat' = s /\ pri' = pr /\ Switch
      /\ wchan' = [wchan EXCEPT ![P] = chan] /\ act' = [act EXCEPT ![P] = a]
  BY <1>2 DEF Sleep
<1>4. /\ s \in [Slot -> Stats] /\ pr \in [Slot -> Priorities]
      /\ s[P] = "SWAIT" /\ \A i \in Slot \ {P} : s[i] = stat[i]
  BY <1>1, <1>2 DEF Stats
<1>5. /\ wchan' \in [Slot -> Chans] /\ act' \in [Slot -> Calls]
      /\ wchan'[P] = chan /\ act'[P] = a
      /\ \A i \in Slot \ {P} : wchan'[i] = wchan[i] /\ act'[i] = act[i]
  BY <1>1, <1>3
<1>6. P' = Nobody /\ UNCHANGED <<last, looked, found, late, curpri, runrun>>
  BY <1>3 DEF Switch, search
<1>7. Entries'
  BY <1>3, <1>4, <1>5, <1>6 DEF IInv, Entries, stacks
<1>8. Posts'
  BY <1>1, <1>3, <1>4, <1>5, <1>6 DEF IInv, Posts
<1>9. map' = map
  BY DEF core
<1>10. Waiters'
  BY <1>5, <1>9 DEF IInv, Waiters, Sleepers
<1>11. BuiltByOne'
  BY <1>1, <1>3, <1>4, <1>5 DEF IInv, BuiltByOne, Posts
<1>12. CoreSound'
  <2>1. Equipped' \subseteq Equipped
    BY <1>1, <1>3, <1>4, <1>5 DEF Equipped
  <2> QED BY <2>1, CoreKept DEF stacks
<1>13. Chosen'
  BY <1>6 DEF IInv, Chosen
<1> QED BY <1>7, <1>8, <1>10, <1>11, <1>12, <1>13 DEF IInv
----------------------------------------------------------------------------
(* Every step keeps the invariant.                                         *)

LEMMA KmemTryStep ==
  ASSUME IInv, P # Nobody, act[P].call \in {"none", "alloc"}, NEW size \in BlockSizes, KmemTry(size)
  PROVE  IInv'
<1>1. /\ P \in Slot /\ stat[P] = "SRUN" /\ act \in [Slot -> Calls] /\ size \in 1..NPages /\ size \in Nat
      /\ pri[P] \in Priorities
  BY ConstantFacts DEF IInv, Entries, Posts
<1>2. CASE Fits(map, size) = {}
  <2> DEFINE a == [NoCall EXCEPT !.call = "alloc", !.size = size]
  <2>1. Sleep(CoreMap, pri[P], a) /\ UNCHANGED <<stacks, core>>
    BY <1>2 DEF KmemTry
  <2>2. a \in Calls /\ a.call = "alloc" /\ a.size = size
    BY DEF NoCall, Calls
  <2> HIDE DEF a
  <2>3. PICK priority \in Priorities : priority = pri[P]
    BY <1>1
  <2> QED BY <1>2, <2>1, <2>2, <2>3, SleepStep
<1>3. CASE Fits(map, size) # {}
  <2>1. PICK a : a = RmallocAddr(map, size)
    OBVIOUS
  <2>2. /\ Take(size) /\ blocks' = blocks \cup {Block(a, size)}
        /\ act' = [act EXCEPT ![P] = NoCall]
        /\ UNCHANGED <<cpu, stat, wchan, pri, stacks>>
    BY <1>3, <2>1 DEF KmemTry
  <2>3. /\ Fragments(map') /\ FreePageCnt' = Cardinality(Units(map'))
        /\ \A s \in Nat : Fits(map', s) # {} => Fits(map, s) # {}
        /\ a \in 1..NPages /\ a + size <= NPages + 1
        /\ UnitsOf(Block(a, size)) \subseteq Units(map)
        /\ Units(map') = Units(map) \ UnitsOf(Block(a, size))
    BY <1>1, <1>3, <2>1, <2>2, TakeStep DEF IInv, CoreSound
  <2>4. /\ act' \in [Slot -> Calls] /\ act'[P] = NoCall
        /\ \A i \in Slot \ {P} : act'[i] = act[i]
    BY <1>1, <2>2, ConstantFacts
  <2>5. UNCHANGED <<P, last, looked, found, late, curpri, runrun, stat, wchan, pri, stack, vmstack>>
    BY <2>2 DEF cpu, search, stacks
  <2>6. Entries'
    BY <2>4, <2>5 DEF IInv, Entries
  <2>7. Posts'
    BY <1>1, <2>4, <2>5, ConstantFacts DEF IInv, Posts
  <2>8. BuiltByOne'
    BY <1>1, <2>4, <2>5, ConstantFacts DEF IInv, BuiltByOne
  <2>9. Waiters'
    <3> SUFFICES ASSUME NEW i \in Sleepers(CoreMap)' PROVE (act[i].call = "alloc" /\ Fits(map, act[i].size) = {})'
      BY DEF Waiters
    <3>1. i \in Slot /\ wchan[i] = CoreMap /\ stat[i] = "SWAIT" /\ i # P
      BY <1>1, <2>5 DEF Sleepers, IInv, Posts, CoreMap, NoChan
    <3>2. act[i].call = "alloc" /\ Fits(map, act[i].size) = {} /\ act[i].size \in Nat
      BY <3>1, ConstantFacts DEF IInv, Waiters, Sleepers, Posts
    <3> QED BY <2>3, <2>4, <3>1, <3>2
  <2>10. Equipped' \subseteq Equipped
    BY <1>1, <2>4, <2>5, ConstantFacts DEF Equipped
  <2>11. Owned(Units(map'), blocks', Equipped', stack')
    <3>1. PICK e \in Fragment : e = Block(a, size)
      BY <1>1, <2>3, BlockFields
    <3>2. e.addr + e.size <= NPages + 1 /\ UnitsOf(e) \subseteq Units(map)
      BY <1>1, <2>3, <3>1, BlockFields
    <3>3. Owned(Units(map) \ UnitsOf(e), blocks \cup {e}, Equipped, stack)
      BY <3>2, BlockTaken DEF IInv, CoreSound
    <3> QED BY <2>2, <2>3, <2>5, <2>10, <3>1, <3>3, OwnedLess
  <2>12. Chosen'
    BY <2>5 DEF IInv, Chosen
  <2> QED BY <2>3, <2>6, <2>7, <2>8, <2>9, <2>11, <2>12 DEF IInv, CoreSound
<1> QED BY <1>2, <1>3

LEMMA KmemFreeStep ==
  ASSUME IInv, RoomLeft, KmemFree
  PROVE  IInv'
<1>1. PICK b \in blocks : /\ Give(b.size, b.addr)
                          /\ SetRun(WokenByFree(b.size, b.addr))
                          /\ blocks' = blocks \ {b}
  BY DEF KmemFree
<1>2. /\ b.addr \in 1..NPages /\ b.size \in 1..NPages /\ b.addr + b.size <= NPages + 1
      /\ b = Block(b.addr, b.size) /\ UnitsOf(b) \cap Units(map) = {}
  BY DEF IInv, CoreSound, Owned, Fragment, Block
<1>3. /\ Fragments(map') /\ FreePageCnt' = Cardinality(Units(map'))
      /\ Units(map') = Units(map) \cup UnitsOf(b)
      /\ WokenByFree(b.size, b.addr) = Sleepers(CoreMap)
  BY <1>1, <1>2, GiveStep DEF IInv, CoreSound
<1>4. UNCHANGED <<P, last, looked, found, curpri, pri, stacks, act>>
  BY DEF KmemFree
<1>5. Sleepers(CoreMap) \in SUBSET Slot /\ \A i \in Sleepers(CoreMap) : wchan[i] # NoChan
  BY DEF Sleepers, CoreMap, NoChan
<1>6. /\ Entries' /\ Posts' /\ Chosen' /\ BuiltByOne' /\ Equipped' = Equipped
      /\ \A i \in Slot : wchan'[i] = CoreMap => wchan[i] = CoreMap /\ i \notin Sleepers(CoreMap)
  BY <1>1, <1>3, <1>4, <1>5, SetRunStep
<1>7. Waiters'
  BY <1>6 DEF Waiters, Sleepers
<1>8. Owned(Units(map'), blocks', Equipped', stack')
  <2>1. Owned(Units(map) \cup UnitsOf(b), blocks \ {b}, Equipped, stack)
    BY BlockGiven DEF IInv, CoreSound
  <2> QED BY <1>1, <1>3, <1>4, <1>6, <2>1 DEF stacks
<1> QED BY <1>3, <1>6, <1>7, <1>8 DEF IInv, CoreSound

\* Entry i, which was not in use, gets a page, if there is one, and is runnable.
LEMMA EquipStep ==
  ASSUME IInv, P # Nobody, act[P].call \in {"none", "spawn"},
         NEW i \in Slot, stat[i] \in {"SFREE", "SIDL"}, NEW user \in BOOLEAN, Equip(i, user),
         act' \in [Slot -> Calls], \A j \in Slot \ {P} : act'[j] = act[j], act'[P] \in {act[P], NoCall},
         \A j \in Slot : act'[j].call = "spawn" => act'[j].slot # i
  PROVE  IInv'
<1>1. /\ P \in Slot /\ stat[P] = "SRUN" /\ i # P /\ act[i] = NoCall /\ wchan[i] = NoChan
      /\ stat \in [Slot -> Stats] /\ stack \in [Slot -> 0..NPages] /\ vmstack \in [Slot -> BOOLEAN]
      /\ pri \in [Slot -> Priorities] /\ 1 \in 1..NPages
  BY ConstantFacts DEF IInv, Entries, Posts
<1>2. PICK a, room : a = RmallocAddr(map, 1) /\ room = (Fits(map, 1) # {})
  OBVIOUS
<1>3. /\ Take(1)
      /\ stat' = [stat EXCEPT ![i] = IF room THEN "SRUN" ELSE "SFREE"]
      /\ pri' = [pri EXCEPT ![i] = IF room THEN pri[P] ELSE Unset]
      /\ stack' = [stack EXCEPT ![i] = a]
      /\ vmstack' = [vmstack EXCEPT ![i] = room /\ user]
      /\ UNCHANGED <<wchan, blocks, cpu>>
  BY <1>2 DEF Equip
<1>4. /\ Fragments(map') /\ FreePageCnt' = Cardinality(Units(map'))
      /\ \A s \in Nat : Fits(map', s) # {} => Fits(map, s) # {}
      /\ ~room => map' = map /\ a = 0
      /\ room => /\ a \in 1..NPages /\ a + 1 <= NPages + 1
                 /\ UnitsOf(Block(a, 1)) \subseteq Units(map)
                 /\ Units(map') = Units(map) \ UnitsOf(Block(a, 1))
  BY <1>1, <1>2, <1>3, TakeStep DEF IInv, CoreSound
<1>5. /\ stat' \in [Slot -> Stats] /\ stat'[i] = (IF room THEN "SRUN" ELSE "SFREE")
      /\ \A j \in Slot \ {i} : stat'[j] = stat[j]
  BY <1>1, <1>3 DEF Stats
<1>6. pri' \in [Slot -> Priorities]
  BY <1>1, <1>3, ConstantFacts
<1>7. /\ stack' \in [Slot -> 0..NPages] /\ stack'[i] = a
      /\ \A j \in Slot \ {i} : stack'[j] = stack[j]
  <2>1. a \in 0..NPages
    BY <1>4, <1>2, ConstantFacts
  <2> QED BY <1>1, <1>3, <2>1
<1>8. vmstack' \in [Slot -> BOOLEAN]
  BY <1>1, <1>2, <1>3
<1>9. UNCHANGED <<P, last, looked, found, late, curpri, runrun, wchan, blocks>>
  BY <1>3 DEF cpu, search
<1>10. Entries'
  BY <1>5, <1>6, <1>7, <1>8, <1>9 DEF IInv, Entries
<1>11. act'[i] = NoCall
  BY <1>1
<1>12. Posts'
  <2>1. (P # Nobody => stat[P] = "SRUN")'
    BY <1>1, <1>5, <1>9
  <2>2. (\A j \in Slot : wchan[j] # NoChan <=> stat[j] = "SWAIT")'
    BY <1>1, <1>5, <1>9 DEF IInv, Posts
  <2>3. (\A j \in Slot : stat[j] \in {"SFREE", "SIDL"} => act[j] = NoCall)'
    BY <1>1, <1>5, <1>11 DEF IInv, Posts
  <2>4. (\A j \in Slot : act[j].call = "alloc" => act[j].size \in BlockSizes)'
    BY ConstantFacts DEF IInv, Posts
  <2>5. (\A j \in Slot : act[j].call = "spawn" => act[j].slot \in Slot)'
    BY ConstantFacts DEF IInv, Posts
  <2> QED BY <2>1, <2>2, <2>3, <2>4, <2>5 DEF Posts
<1>13. BuiltByOne'
  <2> SUFFICES ASSUME NEW j \in Slot, act'[j].call = "spawn"
               PROVE  /\ stat'[act'[j].slot] = "SIDL"
                      /\ \A u \in Slot \ {j} : act'[u].call # "spawn" \/ act'[u].slot # act'[j].slot
    BY DEF BuiltByOne
  <2>1. \A u \in Slot : act'[u].call = "spawn" => act'[u] = act[u]
    BY ConstantFacts
  <2>2. act[j].call = "spawn" /\ act'[j] = act[j] /\ act[j].slot # i /\ act[j].slot \in Slot
    BY <2>1 DEF IInv, Posts
  <2> QED BY <1>5, <2>1, <2>2 DEF IInv, BuiltByOne
<1>14. Waiters'
  <2> SUFFICES ASSUME NEW j \in Sleepers(CoreMap)' PROVE (act[j].call = "alloc" /\ Fits(map, act[j].size) = {})'
    BY DEF Waiters
  <2>1. j \in Slot /\ wchan[j] = CoreMap /\ stat[j] = "SWAIT" /\ j # P
    BY <1>1, <1>9 DEF Sleepers, IInv, Posts, CoreMap, NoChan
  <2>2. act[j].call = "alloc" /\ Fits(map, act[j].size) = {} /\ act[j].size \in Nat
    BY <2>1, ConstantFacts DEF IInv, Waiters, Sleepers, Posts
  <2> QED BY <1>4, <2>1, <2>2
<1>15. \A j \in Slot : act'[j].call # "end" <=> act[j].call # "end"
  BY ConstantFacts
<1>16. Owned(Units(map'), blocks', Equipped', stack')
  <2>1. i \notin Equipped /\ Equipped \subseteq Slot
    BY <1>1 DEF Equipped
  <2>2. CASE room
    <3>1. UnitsOf(Block(a, 1)) = {a}
      BY <1>1, <1>4, <2>2, BlockFields, ConstantFacts
    <3>2. Equipped' = Equipped \cup {i}
      BY <1>1, <1>5, <1>11, <1>15, <2>2, ConstantFacts DEF Equipped
    <3>3. Owned(Units(map) \ {a}, blocks, Equipped \cup {i}, stack')
      BY <1>4, <1>7, <2>1, <2>2, <3>1, StackTaken DEF IInv, CoreSound
    <3> QED BY <1>4, <1>9, <2>2, <3>1, <3>2, <3>3
  <2>3. CASE ~room
    <3>1. Equipped' \subseteq Equipped /\ i \notin Equipped'
      BY <1>5, <1>15, <2>1, <2>3 DEF Equipped
    <3> QED BY <1>4, <1>7, <1>9, <2>1, <2>3, <3>1, OwnedLess DEF IInv, CoreSound
  <2> QED BY <1>2, <2>2, <2>3
<1>17. Chosen'
  BY <1>9 DEF IInv, Chosen
<1> QED BY <1>4, <1>10, <1>12, <1>13, <1>14, <1>16, <1>17 DEF IInv, CoreSound

LEMMA FreeSlot ==
  ASSUME FreeSlots # {}
  PROVE  Min(FreeSlots) \in Slot /\ stat[Min(FreeSlots)] = "SFREE"
<1>1. FreeSlots \in SUBSET Nat
  BY DEF FreeSlots, Slot
<1>2. Min(FreeSlots) \in FreeSlots
  BY <1>1, LeastIn
<1> QED BY <1>2 DEF FreeSlots

LEMMA SpawnStep ==
  ASSUME IInv, SpawnProc \/ StackAllocated
  PROVE  IInv'
<1>1. act \in [Slot -> Calls] /\ vmstack \in [Slot -> BOOLEAN] /\ P \in Slot \cup {Nobody}
  BY DEF IInv, Entries
<1>2. CASE SpawnProc
  <2>1. PICK i \in Slot : i = Min(FreeSlots) /\ stat[i] = "SFREE"
    BY <1>2, FreeSlot DEF SpawnProc
  <2>2. P # Nobody /\ P \in Slot /\ act[P].call = "none" /\ Equip(i, vmstack[P]) /\ act' = act
    BY <1>1, <1>2, <2>1 DEF SpawnProc, Running
  <2>3. PICK user \in BOOLEAN : user = vmstack[P]
    BY <1>1, <2>2
  <2>4. \A j \in Slot : act[j].call = "spawn" => act[j].slot # i
    BY <2>1 DEF IInv, BuiltByOne
  <2> QED BY <1>1, <2>1, <2>2, <2>3, <2>4, EquipStep
<1>3. CASE StackAllocated
  <2>1. P # Nobody /\ P \in Slot /\ act[P].call = "spawn" /\ Equip(act[P].slot, TRUE)
        /\ act' = [act EXCEPT ![P] = NoCall]
    BY <1>1, <1>3 DEF StackAllocated, Running
  <2>2. PICK i \in Slot : i = act[P].slot
    BY <2>1 DEF IInv, Posts
  <2>3. /\ stat[i] = "SIDL"
        /\ \A j \in Slot \ {P} : act[j].call # "spawn" \/ act[j].slot # i
    BY <2>1, <2>2 DEF IInv, BuiltByOne
  <2>4. /\ act' \in [Slot -> Calls] /\ act'[P] = NoCall
        /\ \A j \in Slot \ {P} : act'[j] = act[j]
    BY <1>1, <2>1, ConstantFacts
  <2>5. \A j \in Slot : act'[j].call = "spawn" => act'[j].slot # i
    BY <2>3, <2>4, ConstantFacts
  <2>6. Equip(i, TRUE)
    BY <2>1, <2>2
  <2> QED BY <2>1, <2>3, <2>4, <2>5, <2>6, EquipStep
<1> QED BY <1>2, <1>3

LEMMA SpawnUserStep ==
  ASSUME IInv, SpawnUserProc
  PROVE  IInv'
<1>1. PICK i \in Slot : i = Min(FreeSlots) /\ stat[i] = "SFREE"
  BY FreeSlot DEF SpawnUserProc
<1>2. PICK a : a = [NoCall EXCEPT !.call = "spawn", !.slot = i]
  OBVIOUS
<1>3. a \in Calls /\ a.call = "spawn" /\ a.slot = i
  BY <1>2 DEF NoCall, Calls
<1>4. /\ P \in Slot /\ stat[P] = "SRUN" /\ act[P].call = "none" /\ i # P
      /\ stat \in [Slot -> Stats] /\ wchan \in [Slot -> Chans]
      /\ pri \in [Slot -> Priorities] /\ act \in [Slot -> Calls]
      /\ wchan[i] = NoChan /\ act[i] = NoCall
  BY <1>1 DEF IInv, Entries, Posts, SpawnUserProc, Running
<1>5. PICK s : s = [stat EXCEPT ![i] = "SIDL", ![P] = "SWAIT"]
  OBVIOUS
<1>6. /\ stat' = s /\ Switch
      /\ wchan' = [wchan EXCEPT ![P] = "reply"] /\ act' = [act EXCEPT ![P] = a]
      /\ UNCHANGED <<pri, stacks, core>>
  BY <1>1, <1>2, <1>5 DEF SpawnUserProc
<1>7. /\ s \in [Slot -> Stats] /\ s[i] = "SIDL" /\ s[P] = "SWAIT"
      /\ \A j \in Slot \ {i, P} : s[j] = stat[j]
  BY <1>4, <1>5 DEF Stats
<1>8. /\ wchan' \in [Slot -> Chans] /\ act' \in [Slot -> Calls]
      /\ wchan'[P] = "reply" /\ act'[P] = a
      /\ \A j \in Slot \ {P} : wchan'[j] = wchan[j] /\ act'[j] = act[j]
  BY <1>3, <1>4, <1>6 DEF Chans
<1>9. P' = Nobody /\ UNCHANGED <<last, looked, found, late, curpri, runrun>>
  BY <1>6 DEF Switch, search
<1>10. Entries'
  BY <1>6, <1>7, <1>8, <1>9 DEF IInv, Entries, stacks
<1>11. Posts'
  <2>1. (P # Nobody => stat[P] = "SRUN")'
    BY <1>9
  <2>2. (\A j \in Slot : wchan[j] # NoChan <=> stat[j] = "SWAIT")'
    BY <1>4, <1>6, <1>7, <1>8 DEF IInv, Posts, NoChan
  <2>3. (\A j \in Slot : stat[j] \in {"SFREE", "SIDL"} => act[j] = NoCall)'
    BY <1>4, <1>6, <1>7, <1>8 DEF IInv, Posts
  <2>4. (\A j \in Slot : act[j].call = "alloc" => act[j].size \in BlockSizes)'
    BY <1>3, <1>8 DEF IInv, Posts
  <2>5. (\A j \in Slot : act[j].call = "spawn" => act[j].slot \in Slot)'
    BY <1>3, <1>8 DEF IInv, Posts
  <2> QED BY <2>1, <2>2, <2>3, <2>4, <2>5 DEF Posts
<1>12. map' = map
  BY <1>6 DEF core
<1>13. Waiters'
  BY <1>8, <1>12 DEF IInv, Waiters, Sleepers, CoreMap
<1>14. BuiltByOne'
  <2>1. \A j \in Slot : act[j].call = "spawn" =>
          /\ stat[act[j].slot] = "SIDL" /\ act[j].slot \in Slot
          /\ \A u \in Slot \ {j} : act[u].call # "spawn" \/ act[u].slot # act[j].slot
    BY DEF IInv, BuiltByOne, Posts
  <2>2. \A j \in Slot : act[j].call = "spawn" => act[j].slot # i /\ act[j].slot # P /\ j # P
    BY <1>1, <1>4, <2>1
  <2>3. \A j \in Slot \ {P} : act'[j].call = "spawn" => stat'[act'[j].slot] = "SIDL"
    BY <1>6, <1>7, <1>8, <2>1, <2>2
  <2>4. stat'[act'[P].slot] = "SIDL"
    BY <1>3, <1>6, <1>7, <1>8
  <2>5. \A j, u \in Slot : j # u /\ act'[j].call = "spawn" /\ act'[u].call = "spawn" =>
          act'[u].slot # act'[j].slot
    BY <1>3, <1>8, <2>1, <2>2
  <2> QED BY <2>3, <2>4, <2>5 DEF BuiltByOne
<1>15. CoreSound'
  <2>1. Equipped' \subseteq Equipped
    BY <1>4, <1>6, <1>7, <1>8 DEF Equipped
  <2> QED BY <1>6, <2>1, CoreKept DEF stacks
<1>16. Chosen'
  BY <1>4, <1>9 DEF IInv, Chosen, Nobody, Slot
<1> QED BY <1>10, <1>11, <1>13, <1>14, <1>15, <1>16 DEF IInv

LEMMA RefusedStep ==
  ASSUME IInv, StackRefused
  PROVE  IInv'
<1>1. /\ P \in Slot /\ act[P].call = "spawn" /\ act' = [act EXCEPT ![P] = NoCall]
      /\ stat[P] = "SRUN" /\ act \in [Slot -> Calls]
      /\ UNCHANGED <<cpu, core, stat, wchan, pri, stacks>>
  BY DEF IInv, Entries, Posts, StackRefused, Running
<1>2. /\ act' \in [Slot -> Calls] /\ act'[P] = NoCall
      /\ \A j \in Slot \ {P} : act'[j] = act[j]
  BY <1>1, ConstantFacts
<1>3. Entries'
  BY <1>1, <1>2 DEF IInv, Entries, cpu, search, stacks
<1>4. Posts' /\ Chosen' /\ BuiltByOne'
  BY <1>1, <1>2, ConstantFacts DEF IInv, Posts, Chosen, BuiltByOne, cpu, search
<1>5. map' = map /\ wchan' = wchan
  BY <1>1 DEF core
<1>6. Waiters'
  BY <1>1, <1>2, <1>5, ConstantFacts DEF IInv, Waiters, Sleepers
<1>7. CoreSound'
  <2>1. Equipped' \subseteq Equipped
    BY <1>1, <1>2 DEF Equipped
  <2> QED BY <1>1, <2>1, CoreKept DEF stacks
<1> QED BY <1>3, <1>4, <1>6, <1>7 DEF IInv

\* A step of the search, and the switch at the end of a system call.
LEMMA SwitchStep ==
  ASSUME IInv, UNCHANGED <<table, core>>,
         P' \in Slot \cup {Nobody}, last' \in Slot, curpri' \in Priorities, runrun' \in BOOLEAN,
         looked' \in 0..NotYet, found' \in Slot \cup {Nobody}, late' \subseteq Slot,
         P' # Nobody => found' = Nobody /\ stat[P'] = "SRUN",
         found' # Nobody => stat[found'] = "SRUN"
  PROVE  IInv'
<1>1. UNCHANGED <<stat, wchan, pri, stack, vmstack, act, map>>
  BY DEF table, stacks, core
<1>2. Entries'
  BY <1>1 DEF IInv, Entries
<1>3. Posts' /\ Chosen' /\ BuiltByOne' /\ Waiters'
  BY <1>1 DEF IInv, Posts, Chosen, BuiltByOne, Waiters, Sleepers
<1>4. CoreSound'
  BY <1>1, CoreKept DEF Equipped
<1> QED BY <1>2, <1>3, <1>4 DEF IInv

LEMMA SearchStep ==
  ASSUME IInv, Reschedule \/ StartSearch \/ (\E i \in Slot : LookAt(i)) \/ IdleEnds \/ Resume
  PROVE  IInv'
<1>1. /\ P \in Slot \cup {Nobody} /\ last \in Slot /\ curpri \in Priorities /\ runrun \in BOOLEAN
      /\ looked \in 0..NotYet /\ found \in Slot \cup {Nobody} /\ late \subseteq Slot
      /\ P # Nobody => found = Nobody /\ stat[P] = "SRUN"
      /\ found # Nobody => stat[found] = "SRUN"
      /\ pri \in [Slot -> Priorities]
  BY DEF IInv, Entries, Posts, Chosen
<1>2. CASE Reschedule
  <2>1. /\ P' = Nobody /\ UNCHANGED <<last, looked, found, late, curpri, runrun>>
        /\ UNCHANGED <<table, core>>
    BY <1>2 DEF Reschedule, Switch, search
  <2> QED BY <1>1, <2>1, SwitchStep
<1>3. CASE StartSearch
  <2>1. 0 \in 0..NotYet
    BY ConstantFacts DEF NotYet
  <2>2. /\ P = Nobody /\ runrun' = FALSE /\ looked' = 0 /\ found' = Nobody
        /\ UNCHANGED <<P, last, late, curpri, table, core>>
    BY <1>3 DEF StartSearch
  <2> QED BY <1>1, <2>1, <2>2, SwitchStep
<1>4. ASSUME NEW i \in Slot, LookAt(i) PROVE IInv'
  <2>1. /\ P = Nobody /\ Before(i) = looked /\ looked' = looked + 1
        /\ found' = IF Better(i) THEN i ELSE found
        /\ UNCHANGED <<P, last, late, curpri, runrun, table, core>>
    BY <1>4 DEF LookAt
  <2>2. looked \in 0..NPROC-1
    BY <1>1, <2>1, StepsIs DEF Before, Steps
  <2>3. looked' \in 0..NotYet
    BY <2>1, <2>2, ConstantFacts DEF NotYet
  <2>4. found' \in Slot \cup {Nobody} /\ (found' # Nobody => stat[found'] = "SRUN")
    BY <1>1, <2>1 DEF Better
  <2> QED BY <1>1, <2>1, <2>3, <2>4, SwitchStep
<1>5. CASE IdleEnds
  <2>1. NotYet \in 0..NotYet
    BY ConstantFacts DEF NotYet
  <2>2. /\ P = Nobody /\ found = Nobody /\ looked' = NotYet /\ late' = {}
        /\ UNCHANGED <<P, last, found, curpri, runrun, table, core>>
    BY <1>5 DEF IdleEnds
  <2> QED BY <1>1, <2>1, <2>2, SwitchStep
<1>6. CASE Resume
  <2>1. NotYet \in 0..NotYet
    BY ConstantFacts DEF NotYet
  <2>2. /\ found # Nobody /\ P' = found /\ last' = found /\ curpri' = pri[found]
        /\ looked' = NotYet /\ found' = Nobody /\ late' = {}
        /\ UNCHANGED <<runrun, table, core>>
    BY <1>6 DEF Resume
  <2> QED BY <1>1, <2>1, <2>2, SwitchStep
<1> QED BY <1>2, <1>3, <1>4, <1>5, <1>6

LEMMA DestroyStep ==
  ASSUME IInv, RoomLeft, DestroyProc
  PROVE  IInv'
<1>1. /\ P \in Slot /\ stat[P] = "SRUN" /\ act[P].call = "none" /\ wchan[P] = NoChan
      /\ stat \in [Slot -> Stats] /\ wchan \in [Slot -> Chans] /\ stack \in [Slot -> 0..NPages]
      /\ pri \in [Slot -> Priorities] /\ act \in [Slot -> Calls] /\ vmstack \in [Slot -> BOOLEAN]
      /\ \A i \in Slot : wchan[i] # NoChan <=> stat[i] = "SWAIT"
  BY DEF IInv, Entries, Posts, DestroyProc, Running
<1>2. P \in Equipped
  BY <1>1 DEF Equipped
<1>3. PICK a \in 1..NPages : a = stack[P] /\ a \notin Units(map)
  BY <1>2 DEF IInv, CoreSound, Owned
<1>4. /\ 1 \in 1..NPages /\ a + 1 <= NPages + 1 /\ UnitsOf(Block(a, 1)) = {a}
  BY BlockFields, ConstantFacts
<1>5. Give(1, a)
  BY <1>3 DEF DestroyProc
<1>6. /\ Fragments(map') /\ FreePageCnt' = Cardinality(Units(map'))
      /\ Units(map') = Units(map) \cup {a}
      /\ WokenByFree(1, a) = Sleepers(CoreMap)
  BY <1>3, <1>4, <1>5, GiveStep DEF IInv, CoreSound
<1>7. PICK woken, user, s :
        /\ woken = Sleepers(CoreMap) /\ user = vmstack[P]
        /\ s = [i \in Slot |-> IF i = P THEN (IF user THEN "SWAIT" ELSE "SFREE")
                              ELSE IF i \in woken THEN "SRUN" ELSE stat[i]]
  OBVIOUS
<1>8. /\ wchan' = [i \in Slot |-> IF i = P /\ user THEN "reply"
                                 ELSE IF i \in woken THEN NoChan ELSE wchan[i]]
      /\ stat' = s
      /\ act' = [act EXCEPT ![P] = IF user THEN [NoCall EXCEPT !.call = "end"] ELSE NoCall]
      /\ stack' = [stack EXCEPT ![P] = IF user THEN @ ELSE NoStack]
      /\ pri' = [pri EXCEPT ![P] = IF user THEN @ ELSE Unset]
      /\ Switch
      /\ UNCHANGED <<vmstack, blocks>>
  BY <1>3, <1>6, <1>7 DEF DestroyProc
<1>9. woken \in SUBSET Slot /\ P \notin woken /\ \A i \in woken : stat[i] = "SWAIT" /\ wchan[i] = CoreMap
  BY <1>1, <1>7 DEF Sleepers, CoreMap, NoChan
<1>10. user \in BOOLEAN
  BY <1>1, <1>7
<1>11. /\ s \in [Slot -> Stats] /\ s[P] = (IF user THEN "SWAIT" ELSE "SFREE")
       /\ \A i \in woken : s[i] = "SRUN"
       /\ \A i \in Slot \ (woken \cup {P}) : s[i] = stat[i]
  <2>1. \A i \in Slot : (IF i = P THEN (IF user THEN "SWAIT" ELSE "SFREE")
                         ELSE IF i \in woken THEN "SRUN" ELSE stat[i]) \in Stats
    BY <1>1 DEF Stats
  <2> QED BY <1>1, <1>7, <1>9, <2>1
<1>12. /\ wchan' \in [Slot -> Chans] /\ wchan'[P] = (IF user THEN "reply" ELSE NoChan)
       /\ \A i \in woken : wchan'[i] = NoChan
       /\ \A i \in Slot \ (woken \cup {P}) : wchan'[i] = wchan[i]
  <2>1. \A i \in Slot : (IF i = P /\ user THEN "reply"
                         ELSE IF i \in woken THEN NoChan ELSE wchan[i]) \in Chans
    BY <1>1 DEF Chans
  <2> QED BY <1>1, <1>8, <1>9, <2>1
<1>13. PICK e : e = IF user THEN [NoCall EXCEPT !.call = "end"] ELSE NoCall
  OBVIOUS
<1>14. e \in Calls /\ (user => e.call = "end") /\ (~user => e = NoCall) /\ e.call \in {"none", "end"}
  BY <1>13 DEF NoCall, Calls
<1>15. act' \in [Slot -> Calls] /\ act'[P] = e /\ \A i \in Slot \ {P} : act'[i] = act[i]
  <2>1. act' = [act EXCEPT ![P] = e]
    BY <1>8, <1>13
  <2> QED BY <1>1, <1>14, <2>1
<1>16. stack' \in [Slot -> 0..NPages] /\ \A i \in Slot \ {P} : stack'[i] = stack[i]
  BY <1>1, <1>8, ConstantFacts DEF NoStack
<1>17. pri' \in [Slot -> Priorities]
  BY <1>1, <1>8, ConstantFacts
<1>18. P' = Nobody /\ UNCHANGED <<last, looked, found, late, curpri, runrun>>
  BY <1>8 DEF Switch, search
<1>19. Entries'
  BY <1>1, <1>8, <1>11, <1>12, <1>15, <1>16, <1>17, <1>18 DEF IInv, Entries
<1>20. Posts'
  <2>1. (P # Nobody => stat[P] = "SRUN")'
    BY <1>18
  <2>2. (\A j \in Slot : wchan[j] # NoChan <=> stat[j] = "SWAIT")'
    <3> SUFFICES ASSUME NEW j \in Slot PROVE wchan'[j] # NoChan <=> s[j] = "SWAIT"
      BY <1>8
    <3>1. CASE j = P
      BY <1>10, <1>11, <1>12, <3>1 DEF NoChan
    <3>2. CASE j \in woken
      BY <1>11, <1>12, <3>2
    <3>3. CASE j \notin woken \cup {P}
      BY <1>1, <1>11, <1>12, <3>3
    <3> QED BY <3>1, <3>2, <3>3
  <2>3. (\A j \in Slot : stat[j] \in {"SFREE", "SIDL"} => act[j] = NoCall)'
    <3> SUFFICES ASSUME NEW j \in Slot, s[j] \in {"SFREE", "SIDL"} PROVE act'[j] = NoCall
      BY <1>8
    <3>1. CASE j = P
      BY <1>10, <1>11, <1>14, <1>15, <3>1
    <3>2. CASE j # P
      <4>1. j \notin woken /\ stat[j] = s[j]
        BY <1>11, <3>2
      <4> QED BY <1>15, <3>2, <4>1 DEF IInv, Posts
    <3> QED BY <3>1, <3>2
  <2>4. (\A j \in Slot : act[j].call = "alloc" => act[j].size \in BlockSizes)'
    BY <1>14, <1>15 DEF IInv, Posts
  <2>5. (\A j \in Slot : act[j].call = "spawn" => act[j].slot \in Slot)'
    BY <1>14, <1>15 DEF IInv, Posts
  <2> QED BY <2>1, <2>2, <2>3, <2>4, <2>5 DEF Posts
<1>21. BuiltByOne'
  <2>1. \A j \in Slot : act'[j].call = "spawn" => j # P /\ act'[j] = act[j]
    BY <1>14, <1>15
  <2>2. \A j \in Slot : act[j].call = "spawn" =>
          /\ stat[act[j].slot] = "SIDL" /\ act[j].slot \in Slot
          /\ \A u \in Slot \ {j} : act[u].call # "spawn" \/ act[u].slot # act[j].slot
    BY DEF IInv, BuiltByOne, Posts
  <2>3. \A i \in Slot : stat[i] = "SIDL" => s[i] = "SIDL"
    BY <1>1, <1>9, <1>11
  <2> QED BY <1>8, <2>1, <2>2, <2>3 DEF BuiltByOne
<1>22. Waiters'
  <2>1. \A j \in Slot : wchan'[j] # CoreMap
    BY <1>7, <1>10, <1>12 DEF Sleepers, CoreMap, NoChan
  <2> QED BY <2>1 DEF Waiters, Sleepers
<1>23. Owned(Units(map'), blocks', Equipped', stack')
  <2>1. Equipped' \subseteq Equipped \ {P}
    <3> SUFFICES ASSUME NEW j \in Slot, s[j] \in {"SRUN", "SWAIT"}, act'[j].call # "end"
                 PROVE  j \in Equipped \ {P}
      BY <1>8 DEF Equipped
    <3>1. j # P
      BY <1>10, <1>11, <1>14, <1>15
    <3>2. stat[j] \in {"SRUN", "SWAIT"}
      BY <1>9, <1>11, <3>1
    <3> QED BY <1>15, <3>1, <3>2 DEF Equipped
  <2>2. \A i \in Equipped \ {P} : stack'[i] = stack[i]
    BY <1>16 DEF Equipped
  <2>3. Owned(Units(map) \cup {a}, blocks, Equipped \ {P}, stack')
    BY <1>2, <1>3, <2>2, StackGiven DEF IInv, CoreSound
  <2> QED BY <1>6, <1>8, <2>1, <2>3, OwnedLess
<1>24. Chosen'
  BY <1>1, <1>18 DEF IInv, Chosen, Nobody, Slot
<1> QED BY <1>6, <1>19, <1>20, <1>21, <1>22, <1>23, <1>24 DEF IInv, CoreSound

LEMMA DeallocatedStep ==
  ASSUME IInv, StackDeallocated
  PROVE  IInv'
<1>1. /\ P \in Slot /\ stat[P] = "SRUN" /\ act[P].call = "end" /\ wchan[P] = NoChan
      /\ stat \in [Slot -> Stats] /\ wchan \in [Slot -> Chans] /\ stack \in [Slot -> 0..NPages]
      /\ pri \in [Slot -> Priorities] /\ act \in [Slot -> Calls] /\ vmstack \in [Slot -> BOOLEAN]
  BY DEF IInv, Entries, Posts, StackDeallocated, Running
<1>2. PICK s : s = [stat EXCEPT ![P] = "SFREE"]
  OBVIOUS
<1>3. /\ stat' = s /\ Switch
      /\ act' = [act EXCEPT ![P] = NoCall] /\ stack' = [stack EXCEPT ![P] = NoStack]
      /\ vmstack' = [vmstack EXCEPT ![P] = FALSE] /\ pri' = [pri EXCEPT ![P] = Unset]
      /\ UNCHANGED <<wchan, core>>
  BY <1>2 DEF StackDeallocated
<1>4. /\ s \in [Slot -> Stats] /\ s[P] = "SFREE" /\ \A i \in Slot \ {P} : s[i] = stat[i]
  BY <1>1, <1>2 DEF Stats
<1>5. act' \in [Slot -> Calls] /\ act'[P] = NoCall /\ \A i \in Slot \ {P} : act'[i] = act[i]
  BY <1>1, <1>3, ConstantFacts
<1>6. /\ stack' \in [Slot -> 0..NPages] /\ \A i \in Slot \ {P} : stack'[i] = stack[i]
      /\ vmstack' \in [Slot -> BOOLEAN] /\ pri' \in [Slot -> Priorities]
  BY <1>1, <1>3, ConstantFacts DEF NoStack
<1>7. P' = Nobody /\ UNCHANGED <<last, looked, found, late, curpri, runrun>>
  BY <1>3 DEF Switch, search
<1>8. Entries'
  BY <1>1, <1>3, <1>4, <1>5, <1>6, <1>7 DEF IInv, Entries
<1>9. Posts' /\ Chosen' /\ BuiltByOne'
  BY <1>1, <1>3, <1>4, <1>5, <1>7, ConstantFacts DEF IInv, Posts, Chosen, BuiltByOne
<1>10. map' = map
  BY <1>3 DEF core
<1>11. Waiters'
  BY <1>1, <1>3, <1>5, <1>10 DEF IInv, Waiters, Sleepers, CoreMap, NoChan
<1>12. CoreSound'
  <2>1. Equipped' \subseteq Equipped /\ P \notin Equipped'
    BY <1>1, <1>3, <1>4, <1>5 DEF Equipped
  <2>2. \A i \in Equipped' : stack'[i] = stack[i]
    BY <1>6, <2>1 DEF Equipped
  <2> QED BY <1>3, <2>1, <2>2, CoreKept
<1> QED BY <1>8, <1>9, <1>11, <1>12 DEF IInv

LEMMA WakeStep ==
  ASSUME IInv, NEW woken \in SUBSET Slot, \A i \in woken : wchan[i] # NoChan,
         SetRun(woken), UNCHANGED <<P, last, looked, found, curpri, pri, stacks, act, core>>
  PROVE  IInv'
<1>1. /\ Entries' /\ Posts' /\ Chosen' /\ BuiltByOne' /\ Equipped' = Equipped
      /\ \A i \in Slot : wchan'[i] = CoreMap => wchan[i] = CoreMap /\ i \notin woken
  BY SetRunStep
<1>2. map' = map /\ stack' = stack /\ act' = act
  BY DEF core, stacks
<1>3. Waiters'
  BY <1>1, <1>2 DEF IInv, Waiters, Sleepers
<1>4. CoreSound'
  BY <1>1, <1>2, CoreKept
<1> QED BY <1>1, <1>3, <1>4 DEF IInv

LEMMA IInvStep ==
  ASSUME IInv, RoomLeft, [Next]_vars
  PROVE  IInv'
<1>0. P \in Slot \cup {Nobody} /\ act \in [Slot -> Calls] /\ pri \in [Slot -> Priorities]
  BY DEF IInv, Entries
<1>1. CASE SleepIO
  <2>1. PICK priority \in Priorities : Sleep("io", priority, NoCall)
    BY <1>1 DEF SleepIO
  <2>2. P # Nobody /\ act[P].call = "none" /\ UNCHANGED <<stacks, core>>
    BY <1>1 DEF SleepIO, Running
  <2>3. NoCall \in Calls /\ NoCall.call = "none" /\ "io" # CoreMap
    BY ConstantFacts DEF CoreMap
  <2> QED BY <2>1, <2>2, <2>3, SleepStep
<1>2. CASE KmemAlloc
  BY <1>2, KmemTryStep DEF KmemAlloc, Running
<1>3. CASE KmemRetry
  <2>1. P \in Slot /\ act[P].call = "alloc" /\ KmemTry(act[P].size)
    BY <1>0, <1>3 DEF KmemRetry, Running
  <2>2. PICK size \in BlockSizes : size = act[P].size
    BY <2>1 DEF IInv, Posts
  <2> QED BY <1>0, <2>1, <2>2, KmemTryStep, ConstantFacts
<1>4. CASE KmemFree
  BY <1>4, KmemFreeStep
<1>5. CASE SpawnProc \/ StackAllocated
  BY <1>5, SpawnStep
<1>6. CASE SpawnUserProc
  BY <1>6, SpawnUserStep
<1>7. CASE StackRefused
  BY <1>7, RefusedStep
<1>8. CASE DestroyProc
  BY <1>8, DestroyStep
<1>9. CASE StackDeallocated
  BY <1>9, DeallocatedStep
<1>10. CASE Reschedule \/ StartSearch \/ (\E i \in Slot : LookAt(i)) \/ IdleEnds \/ Resume
  BY <1>10, SearchStep
<1>11. CASE Interrupt
  <2>1. Sleepers("io") \in SUBSET Slot /\ \A i \in Sleepers("io") : wchan[i] # NoChan
    BY DEF Sleepers, NoChan
  <2> QED BY <1>11, <2>1, WakeStep DEF Interrupt
<1>12. ASSUME NEW i \in Slot, HostReplies(i) PROVE IInv'
  <2>1. {i} \in SUBSET Slot /\ \A j \in {i} : wchan[j] # NoChan
    BY <1>12 DEF HostReplies, NoChan
  <2>2. SetRun({i}) /\ UNCHANGED <<P, last, looked, found, curpri, pri, stacks, act, core>>
    BY <1>12 DEF HostReplies
  <2> QED BY <2>1, <2>2, WakeStep
<1>13. CASE UNCHANGED vars
  <2>1. /\ UNCHANGED <<P, last, looked, found, late, curpri, runrun, stat, wchan, pri, stack, vmstack, act>>
        /\ UNCHANGED <<map, FreePageCnt, blocks>>
    BY <1>13 DEF vars, table, cpu, search, core, stacks
  <2> QED BY <2>1 DEF IInv, Entries, CoreSound, Posts, Chosen, Waiters, Sleepers, BuiltByOne, Equipped
<1> QED BY <1>1, <1>2, <1>3, <1>4, <1>5, <1>6, <1>7, <1>8, <1>9, <1>10, <1>11, <1>12, <1>13 DEF Next
----------------------------------------------------------------------------
(* The theorems.                                                           *)

\* With room for half as many fragments as there are pages the assumption of the
\* theorems below always holds (coremap_size).
LEMMA WorstCaseFits == Ample => (Spec => []RoomLeft)
<1> SUFFICES ASSUME Ample PROVE Spec => []RoomLeft
  OBVIOUS
<1>1. RoomLeft
  BY DEF RoomLeft, Room
<1> QED BY <1>1, PTL

\* Whatever the processes, the host and the interrupts do, in whatever order, the
\* fragments of the core map are apart and within the map, its counter is right,
\* every page is free or has one owner, whoever sleeps for pages cannot have them,
\* and an entry under construction has one builder, as long as the array of the map
\* is not full or is ample (rmalloc, rmfree, kmem_alloc, SpawnProc).
THEOREM IInvCorrect == Spec /\ []RoomLeft => []IInv
<1>1. IInv /\ RoomLeft /\ [Next]_vars => IInv'
  BY IInvStep
<1> QED BY IInvInit, <1>1, PTL DEF Spec

\* The core map has every fragment once and merged, first fit fails only if no run
\* of free pages is long enough, FreePageCnt counts the free pages, and an entry
\* under construction is built by one process (rmfree, FreePageCnt, SpawnUserProc).
THEOREM TablesSoundCorrect == Spec /\ []RoomLeft => []TablesSound
<1>1. IInv /\ RoomLeft => TablesSound
  BY IInvSuffices
<1> QED BY IInvCorrect, <1>1, PTL

\* Nobody sleeps in kmem_alloc while his block could be had (kmem_alloc, rmfree).
THEOREM NoSleepWhileFitsCorrect == Spec /\ []RoomLeft => []NoSleepWhileFits
<1>1. IInv /\ RoomLeft => NoSleepWhileFits
  BY IInvSuffices
<1> QED BY IInvCorrect, <1>1, PTL
----------------------------------------------------------------------------
(* Whose turn it is.                                                       *)

\* What the search knows of the entries it has passed, but for the late ones.
Beaten(i) == /\ found # Nobody
             /\ \/ i = found
                \/ pri[found] < pri[i]
                \/ pri[found] = pri[i] /\ Steps(last, found) < Steps(last, i)

Searched == /\ P # Nobody => looked = NotYet
            /\ looked = NotYet => found = Nobody
            /\ looked # NotYet => /\ found # Nobody => Steps(last, found) < looked
                                 /\ \A i \in Slot \ late : stat[i] = "SRUN" /\ Steps(last, i) < looked
                                                         => Beaten(i)

LEMMA LookAtSearched ==
  ASSUME IInv, Searched, NEW k \in Slot, LookAt(k)
  PROVE  Searched'
<1>1. /\ P = Nobody /\ looked = Steps(last, k) /\ looked' = looked + 1
      /\ found' = IF Better(k) THEN k ELSE found
      /\ UNCHANGED <<P, last, late, stat, pri>>
  BY DEF LookAt, table, Before, Steps
<1>2. /\ last \in Slot /\ found \in Slot \cup {Nobody} /\ pri \in [Slot -> Priorities]
      /\ looked \in 0..NotYet
  BY DEF IInv, Entries
<1>3. /\ \A i \in Slot : pri[i] \in Nat /\ Steps(last, i) \in Nat
      /\ looked \in 0..NPROC-1 /\ looked \in Nat /\ looked # NotYet /\ looked' # NotYet
  <2>1. \A i \in Slot : pri[i] \in Nat /\ Steps(last, i) \in Nat
    BY <1>2, StepsIs, ConstantFacts
  <2>2. looked \in 0..NPROC-1
    BY <1>1, <1>2, StepsIs
  <2> QED BY <1>1, <2>1, <2>2, ConstantFacts DEF NotYet
<1>4. /\ found # Nobody => Steps(last, found) < looked
      /\ \A i \in Slot \ late : stat[i] = "SRUN" /\ Steps(last, i) < looked => Beaten(i)
  BY <1>3 DEF Searched
<1>5. ASSUME found' # Nobody PROVE Steps(last, found') < looked'
  BY <1>1, <1>2, <1>3, <1>4, <1>5
<1>6. ASSUME NEW i \in Slot \ late, stat[i] = "SRUN", Steps(last, i) < looked + 1
      PROVE  /\ found' # Nobody
             /\ \/ i = found'
                \/ pri[found'] < pri[i]
                \/ pri[found'] = pri[i] /\ Steps(last, found') < Steps(last, i)
  <2>1. CASE Steps(last, i) = looked
    <3>1. i = k
      BY <1>1, <1>2, <2>1, StepsApart
    <3>2. CASE Better(k)
      BY <1>1, <3>1, <3>2 DEF Nobody, Slot
    <3>3. CASE ~Better(k)
      <4>1. found' = found /\ found \in Slot /\ found # Nobody /\ ~(pri[k] < pri[found])
        BY <1>1, <1>2, <1>6, <3>1, <3>3 DEF Better
      <4>2. pri[found] < pri[i] \/ pri[found] = pri[i]
        BY <1>3, <3>1, <4>1
      <4> QED BY <1>4, <2>1, <4>1, <4>2
    <3> QED BY <3>2, <3>3
  <2>2. CASE Steps(last, i) # looked
    <3>1. Beaten(i) /\ found \in Slot
      BY <1>2, <1>3, <1>4, <1>6, <2>2 DEF Beaten
    <3>2. CASE Better(k)
      <4>1. found' = k /\ pri[k] < pri[found] /\ k # Nobody
        BY <1>1, <3>1, <3>2 DEF Better, Beaten, Nobody, Slot
      <4>2. pri[k] < pri[i]
        BY <1>3, <3>1, <4>1 DEF Beaten
      <4> QED BY <4>1, <4>2
    <3>3. CASE ~Better(k)
      BY <1>1, <3>1, <3>3 DEF Beaten
    <3> QED BY <3>2, <3>3
  <2> QED BY <1>3, <1>6, <2>1, <2>2
<1> QED BY <1>1, <1>3, <1>5, <1>6 DEF Searched, Beaten

\* Those who are woken and whom the search has passed are late.
LEMMA WakeSearched ==
  ASSUME IInv, Searched, NEW woken \in SUBSET Slot, \A i \in woken : wchan[i] # NoChan,
         SetRun(woken), UNCHANGED <<P, last, looked, found, pri>>
  PROVE  Searched'
<1>1. CASE P = Nobody /\ looked # NotYet
  <2>1. /\ late' = late \cup {i \in woken : Steps(last, i) < looked}
        /\ \A i \in Slot \ woken : stat'[i] = stat[i]
    BY <1>1 DEF SetRun, Before, Steps
  <2>2. ASSUME NEW i \in Slot \ late', stat'[i] = "SRUN", Steps(last, i) < looked PROVE Beaten(i)
    BY <1>1, <2>1, <2>2 DEF Searched
  <2> QED BY <1>1, <2>2 DEF Searched, Beaten
<1>2. CASE ~(P = Nobody /\ looked # NotYet)
  BY <1>2 DEF Searched
<1> QED BY <1>1, <1>2

\* A process that has the processor does not search.
LEMMA ProcessSearched ==
  ASSUME Searched, P # Nobody, UNCHANGED <<looked, found>>
  PROVE  Searched'
BY DEF Searched

LEMMA KeepsSearch ==
  ASSUME \/ SleepIO \/ KmemAlloc \/ KmemRetry \/ KmemFree
         \/ SpawnProc \/ SpawnUserProc \/ StackAllocated \/ StackRefused
         \/ DestroyProc \/ StackDeallocated \/ Reschedule
  PROVE  P # Nobody /\ P' \in {P, Nobody} /\ UNCHANGED <<looked, found>>
<1>1. ASSUME NEW chan, NEW priority, NEW a, Sleep(chan, priority, a)
      PROVE  P' = Nobody /\ UNCHANGED <<looked, found>>
  BY <1>1 DEF Sleep, Switch, search
<1>2. ASSUME NEW size, KmemTry(size) PROVE P' \in {P, Nobody} /\ UNCHANGED <<looked, found>>
  BY <1>1, <1>2 DEF KmemTry, cpu, search
<1>3. ASSUME NEW i, NEW user, Equip(i, user) PROVE P' = P /\ UNCHANGED <<looked, found>>
  BY <1>3 DEF Equip, cpu, search
<1>4. CASE SleepIO
  BY <1>1, <1>4 DEF SleepIO, Running
<1>5. CASE KmemAlloc \/ KmemRetry
  BY <1>2, <1>5 DEF KmemAlloc, KmemRetry, Running
<1>6. CASE SpawnProc \/ StackAllocated
  BY <1>3, <1>6 DEF SpawnProc, StackAllocated, Running
<1>7. CASE KmemFree \/ StackRefused
  BY <1>7 DEF KmemFree, StackRefused, Running, cpu, search
<1>8. CASE SpawnUserProc
  BY <1>8 DEF SpawnUserProc, Running, Switch, search
<1>9. CASE DestroyProc
  BY <1>9 DEF DestroyProc, Running, Switch, search
<1>10. CASE StackDeallocated \/ Reschedule
  BY <1>10 DEF StackDeallocated, Reschedule, Running, Switch, search
<1> QED BY <1>4, <1>5, <1>6, <1>7, <1>8, <1>9, <1>10

LEMMA SearchedStep ==
  ASSUME IInv, Searched, [Next]_vars
  PROVE  Searched'
<1>1. CASE \/ SleepIO \/ KmemAlloc \/ KmemRetry \/ KmemFree
           \/ SpawnProc \/ SpawnUserProc \/ StackAllocated \/ StackRefused
           \/ DestroyProc \/ StackDeallocated \/ Reschedule
  BY <1>1, KeepsSearch, ProcessSearched
<1>2. CASE StartSearch
  <2>1. /\ P' = Nobody /\ looked' = 0 /\ found' = Nobody /\ last' = last /\ last \in Slot
    BY <1>2 DEF StartSearch, IInv, Entries
  <2>2. \A i \in Slot : ~(Steps(last, i) < 0)
    BY <2>1, StepsIs
  <2>3. 0 # NotYet
    BY ConstantFacts DEF NotYet
  <2> QED BY <2>1, <2>2, <2>3 DEF Searched
<1>3. ASSUME NEW i \in Slot, LookAt(i) PROVE Searched'
  BY <1>3, LookAtSearched
<1>4. CASE IdleEnds \/ Resume
  BY <1>4 DEF IdleEnds, Resume, Searched
<1>5. CASE Interrupt
  <2>1. Sleepers("io") \in SUBSET Slot /\ \A i \in Sleepers("io") : wchan[i] # NoChan
    BY DEF Sleepers, NoChan
  <2> QED BY <1>5, <2>1, WakeSearched DEF Interrupt
<1>6. ASSUME NEW i \in Slot, HostReplies(i) PROVE Searched'
  <2>1. {i} \in SUBSET Slot /\ \A j \in {i} : wchan[j] # NoChan
    BY <1>6 DEF HostReplies, NoChan
  <2> QED BY <1>6, <2>1, WakeSearched DEF HostReplies
<1>7. CASE UNCHANGED vars
  BY <1>7 DEF Searched, Beaten, vars, cpu, search, table
<1> QED BY <1>1, <1>2, <1>3, <1>4, <1>5, <1>6, <1>7 DEF Next

Turns == \A i \in Slot \ late :
  P = Nobody /\ P' \notin {i, Nobody} /\ stat[i] = "SRUN"
  => \/ pri[P'] < pri[i]
     \/ pri[P'] = pri[i] /\ Before(i)' < Before(i)

LEMMA TurnsStep ==
  ASSUME IInv, Searched, [Next]_vars
  PROVE  Turns
<1>1. CASE Resume
  <2> SUFFICES ASSUME NEW i \in Slot \ late, P' # i, stat[i] = "SRUN"
               PROVE  \/ pri[P'] < pri[i]
                      \/ pri[P'] = pri[i] /\ Before(i)' < Before(i)
    BY DEF Turns
  <2>1. PICK k \in Slot : k = found
    BY <1>1 DEF Resume, IInv, Entries
  <2>2. P' = k /\ last' = k /\ looked = NPROC /\ looked # NotYet /\ last \in Slot
    BY <1>1, <2>1, ConstantFacts DEF Resume, NotYet, IInv, Entries
  <2>3. Steps(last, i) < looked /\ Steps(last, i) \in Nat /\ Steps(last, k) \in Nat
    BY <2>2, StepsIs, ConstantFacts
  <2>4. Beaten(i)
    BY <2>2, <2>3 DEF Searched
  <2>5. \/ pri[k] < pri[i]
        \/ pri[k] = pri[i] /\ Steps(last, k) < Steps(last, i)
    BY <2>1, <2>2, <2>4 DEF Beaten
  <2>6. CASE pri[k] = pri[i] /\ Steps(last, k) < Steps(last, i)
    <3>1. Steps(k, i) < Steps(last, i)
      BY <2>2, <2>3, <2>6, StepsLess
    <3>2. Before(i)' = Steps(k, i) /\ Before(i) = Steps(last, i)
      BY <2>2 DEF Before, Steps
    <3> QED BY <2>2, <2>6, <3>1, <3>2
  <2> QED BY <2>2, <2>5, <2>6
<1>2. CASE \/ SleepIO \/ KmemAlloc \/ KmemRetry \/ KmemFree
           \/ SpawnProc \/ SpawnUserProc \/ StackAllocated \/ StackRefused
           \/ DestroyProc \/ StackDeallocated \/ Reschedule
  BY <1>2, KeepsSearch DEF Turns
<1>3. CASE StartSearch \/ IdleEnds \/ Interrupt \/ (\E i \in Slot : LookAt(i) \/ HostReplies(i))
           \/ UNCHANGED vars
  <2>1. P' = P
    BY <1>3 DEF StartSearch, IdleEnds, Interrupt, LookAt, HostReplies, vars, cpu
  <2> QED BY <2>1 DEF Turns
<1> QED BY <1>1, <1>2, <1>3 DEF Next

\* Whoever gets the processor is more urgent than every entry that waits for its turn,
\* or as urgent and then the search comes nearer to the entry, but for those whom an
\* interrupt has woken when the search had passed them (Switch).
THEOREM TurnsGoRoundCorrect == Spec /\ []RoomLeft => TurnsGoRound
<1>1. Init => Searched
  BY DEF Init, Searched
<1>2. IInv /\ Searched /\ [Next]_vars => Searched'
  BY SearchedStep
<1>3. IInv /\ Searched /\ [Next]_vars => Turns
  BY TurnsStep
<1>4. Turns => \A i \in Slot \ late :
        P = Nobody /\ P' \notin {i, Nobody} /\ stat[i] = "SRUN"
        => \/ pri[P'] < pri[i]
           \/ pri[P'] = pri[i] /\ Before(i)' < Before(i)
  BY DEF Turns
<1> QED BY IInvCorrect, <1>1, <1>2, <1>3, <1>4, PTL DEF Spec, TurnsGoRound
----------------------------------------------------------------------------
(* The core map implements PageAllocator.                                  *)

Holds(bs, ow, st) == {UnitsOf(b) : b \in bs} \cup {{st[i]} : i \in ow}

LEMMA BlockIsRun ==
  ASSUME NEW e \in Fragment, e.addr + e.size <= NPages + 1
  PROVE  UnitsOf(e) \in Allocator!Runs /\ e.addr \in UnitsOf(e)
<1>1. PICK lo \in 1..NPages, hi \in 1..NPages : lo = e.addr /\ hi = e.addr + e.size - 1
  BY ConstantFacts DEF Fragment
<1>2. UnitsOf(e) = lo..hi /\ lo <= hi
  BY <1>1, ConstantFacts DEF UnitsOf, Fragment
<1>3. lo \in lo..hi
  BY <1>2, ConstantFacts
<1> QED BY <1>1, <1>2, <1>3 DEF Allocator!Runs

LEMMA PageIsRun ==
  ASSUME NEW a \in 1..NPages
  PROVE  {a} \in Allocator!Runs
<1>1. {a} = a..a
  BY ConstantFacts
<1> QED BY <1>1 DEF Allocator!Runs

LEMMA AllocatorInit ==
  ASSUME IInv
  PROVE  Allocator!Init
<1>1. Units(map) \subseteq 1..NPages
  BY UnitsInRange DEF IInv, CoreSound
<1>2. Owned(Units(map), blocks, Equipped, stack)
  BY DEF IInv, CoreSound
<1>3. ASSUME NEW b \in blocks PROVE UnitsOf(b) \in Allocator!Runs /\ UnitsOf(b) \cap Units(map) = {}
  BY <1>2, BlockIsRun DEF Owned
<1>4. ASSUME NEW i \in Equipped PROVE {stack[i]} \in Allocator!Runs /\ {stack[i]} \cap Units(map) = {}
  BY <1>2, PageIsRun DEF Owned
<1> QED BY <1>1, <1>3, <1>4 DEF Allocator!Init, Held

\* Who keeps what he has.
LEMMA HeldKept ==
  ASSUME map' = map, blocks' = blocks, Equipped' = Equipped, \A i \in Equipped : stack'[i] = stack[i]
  PROVE  UNCHANGED Allocator!vars
BY DEF Allocator!vars, Held

LEMMA BlockLeaves ==
  ASSUME NEW U, NEW bs, NEW ow, NEW st, Owned(U, bs, ow, st), NEW b \in bs
  PROVE  Holds(bs \ {b}, ow, st) = Holds(bs, ow, st) \ {UnitsOf(b)}
<1>1. b.addr \in UnitsOf(b)
  BY BlockIsRun DEF Owned
<1>2. \A c \in bs : c # b => UnitsOf(c) # UnitsOf(b)
  BY <1>1 DEF Owned
<1>3. \A i \in ow : {st[i]} # UnitsOf(b)
  BY DEF Owned
<1> QED BY <1>2, <1>3 DEF Holds

LEMMA StackLeaves ==
  ASSUME NEW U, NEW bs, NEW ow, NEW st, Owned(U, bs, ow, st), NEW k \in ow,
         NEW su, \A i \in ow \ {k} : su[i] = st[i]
  PROVE  Holds(bs, ow \ {k}, su) = Holds(bs, ow, st) \ {{st[k]}}
<1>1. \A c \in bs : UnitsOf(c) # {st[k]}
  BY DEF Owned
<1>2. \A i \in ow \ {k} : {su[i]} # {st[k]}
  BY DEF Owned
<1> QED BY <1>1, <1>2 DEF Holds

\* A run goes to a new owner, or comes back.
LEMMA AllocatorTakes ==
  ASSUME NEW run \in Allocator!Runs, run \subseteq Units(map), Units(map') = Units(map) \ run,
         Held' = Held \cup {run}
  PROVE  Allocator!Next
BY DEF Allocator!Next, Allocator!Take

LEMMA AllocatorGets ==
  ASSUME NEW run \in Allocator!Runs, run \in Held, Units(map') = Units(map) \cup run,
         Held' = Held \ {run}
  PROVE  Allocator!Next
BY DEF Allocator!Next, Allocator!Give

LEMMA KmemTryMaps ==
  ASSUME IInv, P # Nobody, act[P].call \in {"none", "alloc"}, NEW size \in BlockSizes, KmemTry(size)
  PROVE  Allocator!Next \/ UNCHANGED Allocator!vars
<1>1. /\ P \in Slot /\ stat[P] = "SRUN" /\ size \in 1..NPages
      /\ stat \in [Slot -> Stats] /\ act \in [Slot -> Calls]
  BY ConstantFacts DEF IInv, Entries, Posts
<1>2. CASE Fits(map, size) = {}
  <2>1. PICK a : a = [NoCall EXCEPT !.call = "alloc", !.size = size]
    OBVIOUS
  <2>2. Sleep(CoreMap, pri[P], a) /\ UNCHANGED <<stacks, core>>
    BY <1>2, <2>1 DEF KmemTry
  <2>3. a.call = "alloc"
    BY <2>1 DEF NoCall
  <2>4. stat' = [stat EXCEPT ![P] = "SWAIT"] /\ act' = [act EXCEPT ![P] = a]
    BY <2>2 DEF Sleep
  <2>5. Equipped' = Equipped
    BY <1>1, <2>3, <2>4 DEF Equipped
  <2> QED BY <2>2, <2>5, HeldKept DEF stacks, core
<1>3. CASE Fits(map, size) # {}
  <2>1. PICK a : a = RmallocAddr(map, size)
    OBVIOUS
  <2>2. /\ Take(size) /\ blocks' = blocks \cup {Block(a, size)}
        /\ act' = [act EXCEPT ![P] = NoCall]
        /\ UNCHANGED <<cpu, stat, wchan, pri, stacks>>
    BY <1>3, <2>1 DEF KmemTry
  <2>3. /\ a \in 1..NPages /\ a + size <= NPages + 1
        /\ UnitsOf(Block(a, size)) \subseteq Units(map)
        /\ Units(map') = Units(map) \ UnitsOf(Block(a, size))
    BY <1>1, <1>3, <2>1, <2>2, TakeStep DEF IInv, CoreSound
  <2>4. PICK e \in Fragment : e = Block(a, size) /\ e.addr + e.size <= NPages + 1
    BY <1>1, <2>3, BlockFields
  <2>5. Equipped' = Equipped /\ stack' = stack
    BY <1>1, <2>2, ConstantFacts DEF Equipped, stacks
  <2>6. Held' = Held \cup {UnitsOf(e)}
    BY <2>2, <2>4, <2>5 DEF Held
  <2>7. UnitsOf(e) \in Allocator!Runs
    BY <2>4, BlockIsRun
  <2> QED BY <2>3, <2>4, <2>6, <2>7, AllocatorTakes
<1> QED BY <1>2, <1>3

LEMMA KmemFreeMaps ==
  ASSUME IInv, RoomLeft, KmemFree
  PROVE  Allocator!Next
<1>1. PICK b \in blocks : /\ Give(b.size, b.addr)
                          /\ SetRun(WokenByFree(b.size, b.addr))
                          /\ blocks' = blocks \ {b}
  BY DEF KmemFree
<1>2. /\ b \in Fragment /\ b.addr \in 1..NPages /\ b.size \in 1..NPages
      /\ b.addr + b.size <= NPages + 1
      /\ b = Block(b.addr, b.size) /\ UnitsOf(b) \cap Units(map) = {}
  BY DEF IInv, CoreSound, Owned, Fragment, Block
<1>3. /\ Units(map') = Units(map) \cup UnitsOf(b)
      /\ WokenByFree(b.size, b.addr) = Sleepers(CoreMap)
  BY <1>1, <1>2, GiveStep DEF IInv, CoreSound
<1>4. UNCHANGED <<P, last, looked, found, curpri, pri, stacks, act>>
  BY DEF KmemFree
<1>5. Sleepers(CoreMap) \in SUBSET Slot /\ \A i \in Sleepers(CoreMap) : wchan[i] # NoChan
  BY DEF Sleepers, CoreMap, NoChan
<1>6. Equipped' = Equipped /\ stack' = stack
  BY <1>1, <1>3, <1>4, <1>5, SetRunStep DEF stacks
<1>7. Held' = Held \ {UnitsOf(b)}
  <2>1. Holds(blocks \ {b}, Equipped, stack) = Holds(blocks, Equipped, stack) \ {UnitsOf(b)}
    BY BlockLeaves DEF IInv, CoreSound
  <2> QED BY <1>1, <1>6, <2>1 DEF Holds, Held
<1>8. UnitsOf(b) \in Allocator!Runs /\ UnitsOf(b) \in Held
  BY <1>2, BlockIsRun DEF Held
<1> QED BY <1>3, <1>7, <1>8, AllocatorGets

LEMMA EquipMaps ==
  ASSUME IInv, P # Nobody, act[P].call \in {"none", "spawn"},
         NEW i \in Slot, stat[i] \in {"SFREE", "SIDL"}, NEW user, Equip(i, user),
         act' = act \/ act' = [act EXCEPT ![P] = NoCall]
  PROVE  Allocator!Next \/ UNCHANGED Allocator!vars
<1>1. /\ P \in Slot /\ stat[P] = "SRUN" /\ i # P /\ act[i] = NoCall
      /\ stat \in [Slot -> Stats] /\ stack \in [Slot -> 0..NPages] /\ act \in [Slot -> Calls]
      /\ 1 \in 1..NPages
  BY ConstantFacts DEF IInv, Entries, Posts
<1>2. PICK a, room : a = RmallocAddr(map, 1) /\ room = (Fits(map, 1) # {})
  OBVIOUS
<1>3. /\ Take(1) /\ blocks' = blocks
      /\ stat' = [stat EXCEPT ![i] = IF room THEN "SRUN" ELSE "SFREE"]
      /\ stack' = [stack EXCEPT ![i] = a]
  BY <1>2 DEF Equip
<1>4. /\ ~room => map' = map
      /\ room => /\ a \in 1..NPages /\ a + 1 <= NPages + 1
                 /\ UnitsOf(Block(a, 1)) \subseteq Units(map)
                 /\ Units(map') = Units(map) \ UnitsOf(Block(a, 1))
  BY <1>1, <1>2, <1>3, TakeStep DEF IInv, CoreSound
<1>5. /\ stack'[i] = a /\ \A j \in Slot \ {i} : stack'[j] = stack[j]
      /\ stat'[i] = (IF room THEN "SRUN" ELSE "SFREE")
      /\ \A j \in Slot \ {i} : stat'[j] = stat[j]
  BY <1>1, <1>3
<1>6. act'[i] = NoCall /\ \A j \in Slot : act'[j].call # "end" <=> act[j].call # "end"
  BY <1>1, ConstantFacts
<1>7. i \notin Equipped /\ Equipped \subseteq Slot
  BY <1>1 DEF Equipped
<1>8. CASE room
  <2>1. Equipped' = Equipped \cup {i}
    BY <1>5, <1>6, <1>7, <1>8, ConstantFacts DEF Equipped
  <2>2. UnitsOf(Block(a, 1)) = {a}
    BY <1>1, <1>4, <1>8, BlockFields, ConstantFacts
  <2>3. {{stack'[j]} : j \in Equipped'} = {{stack[j]} : j \in Equipped} \cup {{a}}
    BY <1>5, <1>7, <2>1
  <2>4. Held' = Held \cup {{a}}
    BY <1>3, <2>3 DEF Held
  <2>5. {a} \in Allocator!Runs
    BY <1>4, <1>8, PageIsRun
  <2> QED BY <1>4, <1>8, <2>2, <2>4, <2>5, AllocatorTakes
<1>9. CASE ~room
  <2>1. Equipped' = Equipped
    BY <1>5, <1>6, <1>7, <1>9 DEF Equipped
  <2>2. \A j \in Equipped : stack'[j] = stack[j]
    BY <1>5, <1>7
  <2> QED BY <1>3, <1>4, <1>9, <2>1, <2>2, HeldKept
<1> QED BY <1>2, <1>8, <1>9

LEMMA DestroyMaps ==
  ASSUME IInv, RoomLeft, DestroyProc
  PROVE  Allocator!Next
<1>1. /\ P \in Slot /\ stat[P] = "SRUN" /\ act[P].call = "none" /\ wchan[P] = NoChan
      /\ stat \in [Slot -> Stats] /\ stack \in [Slot -> 0..NPages] /\ act \in [Slot -> Calls]
      /\ vmstack \in [Slot -> BOOLEAN]
      /\ \A i \in Slot : wchan[i] # NoChan <=> stat[i] = "SWAIT"
  BY DEF IInv, Entries, Posts, DestroyProc, Running
<1>2. P \in Equipped
  BY <1>1 DEF Equipped
<1>3. PICK a \in 1..NPages : a = stack[P] /\ a \notin Units(map)
  BY <1>2 DEF IInv, CoreSound, Owned
<1>4. /\ 1 \in 1..NPages /\ a + 1 <= NPages + 1 /\ UnitsOf(Block(a, 1)) = {a}
  BY BlockFields, ConstantFacts
<1>5. Give(1, a)
  BY <1>3 DEF DestroyProc
<1>6. Units(map') = Units(map) \cup {a} /\ WokenByFree(1, a) = Sleepers(CoreMap)
  BY <1>3, <1>4, <1>5, GiveStep DEF IInv, CoreSound
<1>7. PICK woken, user, s :
        /\ woken = Sleepers(CoreMap) /\ user = vmstack[P]
        /\ s = [i \in Slot |-> IF i = P THEN (IF user THEN "SWAIT" ELSE "SFREE")
                              ELSE IF i \in woken THEN "SRUN" ELSE stat[i]]
  OBVIOUS
<1>8. PICK e : e = IF user THEN [NoCall EXCEPT !.call = "end"] ELSE NoCall
  OBVIOUS
<1>9. /\ stat' = s /\ act' = [act EXCEPT ![P] = e] /\ blocks' = blocks
      /\ stack' = [stack EXCEPT ![P] = IF user THEN @ ELSE NoStack]
  BY <1>3, <1>6, <1>7, <1>8 DEF DestroyProc
<1>10. /\ user \in BOOLEAN /\ (user => e.call = "end")
       /\ woken \subseteq Slot /\ P \notin woken /\ \A i \in woken : stat[i] = "SWAIT"
  BY <1>1, <1>7, <1>8 DEF Sleepers, CoreMap, NoChan, NoCall
<1>11. /\ s[P] = (IF user THEN "SWAIT" ELSE "SFREE")
       /\ \A i \in woken : s[i] = "SRUN"
       /\ \A i \in Slot \ (woken \cup {P}) : s[i] = stat[i]
  BY <1>1, <1>7, <1>10
<1>12. act'[P] = e /\ \A i \in Slot \ {P} : act'[i] = act[i] /\ stack'[i] = stack[i]
  BY <1>1, <1>9
<1>13. P \notin Equipped'
  BY <1>9, <1>10, <1>11, <1>12 DEF Equipped
<1>14. ASSUME NEW i \in Slot \ {P} PROVE i \in Equipped' <=> i \in Equipped
  <2>1. s[i] \in {"SRUN", "SWAIT"} <=> stat[i] \in {"SRUN", "SWAIT"}
    BY <1>10, <1>11
  <2> QED BY <1>9, <1>12, <2>1 DEF Equipped
<1>15. Equipped' = Equipped \ {P}
  <2>1. Equipped \subseteq Slot /\ Equipped' \subseteq Slot
    BY DEF Equipped
  <2> QED BY <1>13, <1>14, <2>1
<1>16. Held' = Held \ {{a}}
  <2>1. \A i \in Equipped \ {P} : stack'[i] = stack[i]
    BY <1>12 DEF Equipped
  <2>2. Holds(blocks, Equipped \ {P}, stack') = Holds(blocks, Equipped, stack) \ {{stack[P]}}
    BY <1>2, <2>1, StackLeaves DEF IInv, CoreSound
  <2> QED BY <1>3, <1>9, <1>15, <2>2 DEF Holds, Held
<1>17. {a} \in Allocator!Runs /\ {a} \in Held
  BY <1>2, <1>3, PageIsRun DEF Held
<1> QED BY <1>6, <1>16, <1>17, AllocatorGets

LEMMA AllocatorStep ==
  ASSUME IInv, RoomLeft, [Next]_vars
  PROVE  [Allocator!Next]_Allocator!vars
<1>0. /\ P \in Slot \cup {Nobody} /\ act \in [Slot -> Calls] /\ vmstack \in [Slot -> BOOLEAN]
      /\ stat \in [Slot -> Stats] /\ stack \in [Slot -> 0..NPages]
      /\ P # Nobody => P \in Slot /\ stat[P] = "SRUN"
  BY DEF IInv, Entries, Posts
<1>1. CASE SleepIO
  <2>1. PICK priority \in Priorities : Sleep("io", priority, NoCall)
    BY <1>1 DEF SleepIO
  <2>2. /\ P # Nobody /\ act[P].call = "none" /\ UNCHANGED <<stacks, core>>
        /\ stat' = [stat EXCEPT ![P] = "SWAIT"] /\ act' = [act EXCEPT ![P] = NoCall]
    BY <1>1, <2>1 DEF SleepIO, Running, Sleep
  <2>3. Equipped' = Equipped
    BY <1>0, <2>2, ConstantFacts DEF Equipped
  <2> QED BY <2>2, <2>3, HeldKept DEF stacks, core
<1>2. CASE KmemAlloc
  BY <1>2, KmemTryMaps DEF KmemAlloc, Running
<1>3. CASE KmemRetry
  <2>1. P \in Slot /\ act[P].call = "alloc" /\ KmemTry(act[P].size)
    BY <1>0, <1>3 DEF KmemRetry, Running
  <2>2. PICK size \in BlockSizes : size = act[P].size
    BY <2>1 DEF IInv, Posts
  <2> QED BY <1>0, <2>1, <2>2, KmemTryMaps, ConstantFacts
<1>4. CASE KmemFree
  BY <1>4, KmemFreeMaps
<1>5. CASE SpawnProc
  <2>1. PICK i \in Slot : i = Min(FreeSlots) /\ stat[i] = "SFREE"
    BY <1>5, FreeSlot DEF SpawnProc
  <2>2. P # Nobody /\ act[P].call = "none" /\ Equip(i, vmstack[P]) /\ act' = act
    BY <1>5, <2>1 DEF SpawnProc, Running
  <2> QED BY <2>1, <2>2, EquipMaps
<1>6. CASE StackAllocated
  <2>1. P # Nobody /\ P \in Slot /\ act[P].call = "spawn" /\ Equip(act[P].slot, TRUE)
        /\ act' = [act EXCEPT ![P] = NoCall]
    BY <1>0, <1>6 DEF StackAllocated, Running
  <2>2. PICK i \in Slot : i = act[P].slot /\ stat[i] = "SIDL"
    BY <2>1 DEF IInv, Posts, BuiltByOne
  <2> QED BY <2>1, <2>2, EquipMaps
<1>7. CASE SpawnUserProc
  <2>1. PICK i \in Slot : i = Min(FreeSlots) /\ stat[i] = "SFREE"
    BY <1>7, FreeSlot DEF SpawnUserProc
  <2>2. PICK a : a = [NoCall EXCEPT !.call = "spawn", !.slot = i]
    OBVIOUS
  <2>3. a.call = "spawn"
    BY <2>2 DEF NoCall
  <2>4. /\ P \in Slot /\ stat[P] = "SRUN" /\ act[P].call = "none" /\ i # P
        /\ stat' = [stat EXCEPT ![i] = "SIDL", ![P] = "SWAIT"]
        /\ act' = [act EXCEPT ![P] = a]
        /\ UNCHANGED <<stacks, core>>
    BY <1>0, <1>7, <2>1, <2>2 DEF SpawnUserProc, Running
  <2>5. Equipped' = Equipped
    BY <1>0, <2>1, <2>3, <2>4 DEF Equipped
  <2> QED BY <2>4, <2>5, HeldKept DEF stacks, core
<1>8. CASE StackRefused
  <2>1. /\ P \in Slot /\ act[P].call = "spawn" /\ act' = [act EXCEPT ![P] = NoCall]
        /\ UNCHANGED <<core, stat, stacks>>
    BY <1>0, <1>8 DEF StackRefused, Running
  <2>2. Equipped' = Equipped
    BY <1>0, <2>1, ConstantFacts DEF Equipped
  <2> QED BY <2>1, <2>2, HeldKept DEF stacks, core
<1>9. CASE DestroyProc
  BY <1>9, DestroyMaps
<1>10. CASE StackDeallocated
  <2>1. /\ P \in Slot /\ act[P].call = "end"
        /\ stat' = [stat EXCEPT ![P] = "SFREE"] /\ act' = [act EXCEPT ![P] = NoCall]
        /\ stack' = [stack EXCEPT ![P] = NoStack] /\ UNCHANGED core
    BY <1>0, <1>10 DEF StackDeallocated, Running
  <2>2. Equipped' = Equipped /\ P \notin Equipped
    BY <1>0, <2>1 DEF Equipped
  <2>3. \A i \in Equipped : stack'[i] = stack[i]
    BY <1>0, <2>1, <2>2 DEF Equipped
  <2> QED BY <2>1, <2>2, <2>3, HeldKept DEF core
<1>11. CASE \/ Reschedule \/ StartSearch \/ (\E i \in Slot : LookAt(i)) \/ IdleEnds \/ Resume
            \/ UNCHANGED vars
  <2>1. UNCHANGED <<stat, act, stacks, core>>
    BY <1>11 DEF Reschedule, StartSearch, LookAt, IdleEnds, Resume, vars, table
  <2> QED BY <2>1, HeldKept DEF stacks, core, Equipped
<1>12. ASSUME NEW woken \in SUBSET Slot, \A i \in woken : wchan[i] # NoChan,
              SetRun(woken), UNCHANGED <<P, last, looked, found, curpri, pri, stacks, act, core>>
       PROVE  UNCHANGED Allocator!vars
  <2>1. Equipped' = Equipped
    BY <1>12, SetRunStep
  <2> QED BY <1>12, <2>1, HeldKept DEF stacks, core
<1>13. CASE Interrupt
  <2>1. Sleepers("io") \in SUBSET Slot /\ \A i \in Sleepers("io") : wchan[i] # NoChan
    BY DEF Sleepers, NoChan
  <2> QED BY <1>12, <1>13, <2>1 DEF Interrupt
<1>14. ASSUME NEW i \in Slot, HostReplies(i) PROVE UNCHANGED Allocator!vars
  <2>1. {i} \in SUBSET Slot /\ \A j \in {i} : wchan[j] # NoChan
    BY <1>14 DEF HostReplies, NoChan
  <2> QED BY <1>12, <1>14, <2>1 DEF HostReplies
<1> QED BY <1>1, <1>2, <1>3, <1>4, <1>5, <1>6, <1>7, <1>8, <1>9, <1>10, <1>11, <1>13, <1>14 DEF Next

\* While there is room for its fragments, the core map hands out pages nobody else has
\* and loses none, whatever is allocated and freed in whatever order (rmalloc, rmfree,
\* kmem_alloc, SpawnProc, DestroyProc).
THEOREM ImplementsAllocatorCorrect == Spec /\ []RoomLeft => ImplementsAllocator
<1>1. Init => Allocator!Init
  BY IInvInit, AllocatorInit
<1>2. IInv /\ RoomLeft /\ [Next]_vars => [Allocator!Next]_Allocator!vars
  BY AllocatorStep
<1> QED BY IInvCorrect, <1>1, <1>2, PTL DEF Spec, ImplementsAllocator, Allocator!Spec
=============================================================================
