--------------------------- MODULE PageUnitsProofs ---------------------------
(***************************************************************************)
(* Proofs about PageUnits, for every page an extraction may hold: that the *)
(* Markdown that is indexed was printed, that it names no column, and that *)
(* what is stored stands in reading order.                                 *)
(***************************************************************************)
EXTENDS PageUnits, FiniteSetTheorems, TLAPS

-----------------------------------------------------------------------------
(* Sorting.                                                                *)

\* What a sort needs: nothing is ahead of itself, of two one is ahead of the
\* other, and what is ahead of something is ahead of all behind it.
StrictOrder(ahead) ==
  /\ IsFiniteSet(DOMAIN ahead)
  /\ ahead \in [DOMAIN ahead -> SUBSET DOMAIN ahead]
  /\ \A i \in DOMAIN ahead : i \notin ahead[i]
  /\ \A i, j \in DOMAIN ahead : i # j => i \in ahead[j] \/ j \in ahead[i]
  /\ \A i, j, k \in DOMAIN ahead : i \in ahead[j] /\ j \in ahead[k] => i \in ahead[k]

\* The further back, the more is ahead.
LEMMA RankGrows ==
  ASSUME NEW ahead, StrictOrder(ahead)
  PROVE  /\ \A i \in DOMAIN ahead :
              /\ IsFiniteSet(ahead[i])
              /\ Cardinality(ahead[i]) \in 0 .. Cardinality(DOMAIN ahead) - 1
         /\ \A i, j \in DOMAIN ahead :
              i \in ahead[j] => Cardinality(ahead[i]) < Cardinality(ahead[j])
<1> DEFINE S == DOMAIN ahead
<1>1. IsFiniteSet(S) /\ \A i \in S : ahead[i] \in SUBSET S
  BY DEF StrictOrder
<1>2. \A i \in S : IsFiniteSet(ahead[i])
  BY <1>1, FS_Subset
<1>3. ASSUME NEW i \in S, NEW T \in SUBSET S, ahead[i] \subseteq T, i \in T, IsFiniteSet(T)
      PROVE  Cardinality(ahead[i]) < Cardinality(T)
  <2>1. Cardinality(ahead[i]) \in Nat /\ Cardinality(T) \in Nat
    BY <1>2, <1>3, FS_CardinalityType
  <2>2. i \notin ahead[i]
    BY DEF StrictOrder
  <2>3. Cardinality(ahead[i]) <= Cardinality(T)
    BY <1>3, FS_Subset
  <2>4. Cardinality(ahead[i]) # Cardinality(T)
    BY <1>3, <2>2, FS_Subset
  <2> QED
    BY <2>1, <2>3, <2>4
<1>4. ASSUME NEW i \in S
      PROVE  Cardinality(ahead[i]) \in 0 .. Cardinality(S) - 1
  <2>1. Cardinality(ahead[i]) < Cardinality(S)
    BY <1>1, <1>3
  <2>2. Cardinality(ahead[i]) \in Nat /\ Cardinality(S) \in Nat
    BY <1>1, <1>2, FS_CardinalityType
  <2> QED
    BY <2>1, <2>2
<1>5. ASSUME NEW i \in S, NEW j \in S, i \in ahead[j]
      PROVE  Cardinality(ahead[i]) < Cardinality(ahead[j])
  <2>1. ahead[i] \subseteq ahead[j]
    BY <1>1, <1>5 DEF StrictOrder
  <2> QED
    BY <1>1, <1>2, <1>3, <1>5, <2>1
<1> QED
  BY <1>2, <1>4, <1>5

\* A list of everything once, and what is ahead first.
Sorts(s, ahead) ==
  LET n == Cardinality(DOMAIN ahead)
  IN  /\ n \in Nat
      /\ s \in [1 .. n -> DOMAIN ahead]
      /\ \A i \in DOMAIN ahead : \E k \in 1 .. n : s[k] = i
      /\ \A k, l \in 1 .. n : k < l <=> s[k] \in ahead[s[l]]

LEMMA OrderedSorts ==
  ASSUME NEW ahead, StrictOrder(ahead)
  PROVE  Sorts(Ordered(ahead), ahead)
<1> DEFINE S == DOMAIN ahead
           n == Cardinality(S)
           s == Ordered(ahead)
           rank == [i \in S |-> Cardinality(ahead[i]) + 1]
<1>1. n \in Nat /\ IsFiniteSet(S)
  BY FS_CardinalityType DEF StrictOrder
<1>2. rank \in Injection(S, 1 .. n)
  <2>1. rank \in [S -> 1 .. n]
    BY <1>1, RankGrows
  <2>2. ASSUME NEW i \in S, NEW j \in S, i # j
        PROVE  rank[i] # rank[j]
    <3>1. Cardinality(ahead[i]) \in Nat /\ Cardinality(ahead[j]) \in Nat
      BY RankGrows, FS_CardinalityType
    <3>2. \/ Cardinality(ahead[i]) < Cardinality(ahead[j])
          \/ Cardinality(ahead[j]) < Cardinality(ahead[i])
      BY <2>2, RankGrows DEF StrictOrder
    <3> QED
      BY <3>1, <3>2
  <2> QED
    BY <2>1, <2>2 DEF Injection, IsInjective
<1>3. rank \in Surjection(S, 1 .. n)
  <2>1. IsFiniteSet(1 .. n) /\ Cardinality(1 .. n) = n
    BY <1>1, FS_Interval
  <2> QED
    BY <1>2, <2>1, FS_Injection
<1>4. ASSUME NEW k \in 1 .. n
      PROVE  s[k] \in S /\ Cardinality(ahead[s[k]]) = k - 1
  <2>1. PICK i \in S : rank[i] = k
    BY <1>3 DEF Surjection
  <2>2. Cardinality(ahead[i]) = k - 1
    BY <2>1, <1>1, RankGrows, FS_CardinalityType
  <2>3. s[k] = CHOOSE j \in S : Cardinality(ahead[j]) = k - 1
    BY DEF Ordered
  <2> QED
    BY <2>2, <2>3
<1>5. s \in [1 .. n -> S]
  BY <1>4 DEF Ordered
<1>6. ASSUME NEW i \in S
      PROVE  \E k \in 1 .. n : s[k] = i
  <2> DEFINE k == rank[i]
  <2>1. k \in 1 .. n /\ Cardinality(ahead[i]) = k - 1
    BY <1>2, RankGrows, FS_CardinalityType DEF Injection
  <2>2. s[k] \in S /\ Cardinality(ahead[s[k]]) = k - 1
    BY <1>4, <2>1
  <2>3. rank[s[k]] = rank[i]
    BY <2>1, <2>2
  <2>4. s[k] = i
    BY <1>2, <2>2, <2>3 DEF Injection, IsInjective
  <2> QED
    BY <2>1, <2>4
<1>7. ASSUME NEW k \in 1 .. n, NEW l \in 1 .. n
      PROVE  k < l <=> s[k] \in ahead[s[l]]
  <2>1. /\ s[k] \in S /\ Cardinality(ahead[s[k]]) = k - 1
        /\ s[l] \in S /\ Cardinality(ahead[s[l]]) = l - 1
    BY <1>4
  <2>2. s[k] \in ahead[s[l]] => k < l
    <3>1. s[k] \in ahead[s[l]] => Cardinality(ahead[s[k]]) < Cardinality(ahead[s[l]])
      BY <2>1, RankGrows
    <3> QED
      BY <3>1, <2>1, <1>1
  <2>3. s[l] \in ahead[s[k]] => l < k
    <3>1. s[l] \in ahead[s[k]] => Cardinality(ahead[s[l]]) < Cardinality(ahead[s[k]])
      BY <2>1, RankGrows
    <3> QED
      BY <3>1, <2>1, <1>1
  <2>4. k # l => s[k] # s[l]
    BY <2>1, <1>1
  <2>5. s[k] # s[l] => s[k] \in ahead[s[l]] \/ s[l] \in ahead[s[k]]
    BY <2>1 DEF StrictOrder
  <2> QED
    BY <2>2, <2>3, <2>4, <2>5, <1>1
<1> QED
  BY <1>1, <1>5, <1>6, <1>7 DEF Sorts

\* A sorted list is a list without repetition.
LEMMA SortedList ==
  ASSUME NEW s, NEW ahead, Sorts(s, ahead), NEW S, DOMAIN ahead = S, StrictOrder(ahead)
  PROVE  /\ s \in Seq(S) /\ Len(s) = Cardinality(S) /\ ToSet(s) = S
         /\ \A k, l \in 1 .. Len(s) : s[k] = s[l] => k = l
<1> DEFINE n == Cardinality(S)
<1>1. n \in Nat /\ s \in [1 .. n -> S] /\ \A i \in S : \E k \in 1 .. n : s[k] = i
  BY DEF Sorts
<1>2. s \in Seq(S) /\ Len(s) = n
  BY <1>1
<1>3. ToSet(s) = S
  BY <1>1 DEF ToSet
<1>4. ASSUME NEW k \in 1 .. n, NEW l \in 1 .. n, s[k] = s[l]
      PROVE  k = l
  <2>1. ~(k < l) /\ ~(l < k)
    BY <1>1, <1>4 DEF Sorts, StrictOrder
  <2> QED
    BY <2>1, <1>1
<1> QED
  BY <1>1, <1>2, <1>3, <1>4

-----------------------------------------------------------------------------
(* Lists of some of the elements of a list.                                *)

\* The first of a sort has nothing ahead of it.
LEMMA SomethingIsFirst ==
  ASSUME NEW ahead, StrictOrder(ahead), DOMAIN ahead # {}
  PROVE  \E i \in DOMAIN ahead : ahead[i] = {}
<1> DEFINE S == DOMAIN ahead
           s == Ordered(ahead)
<1>1. PICK size \in Nat : /\ s \in [1 .. size -> S]
                          /\ \A i \in S : \E k \in 1 .. size : s[k] = i
                          /\ \A k, l \in 1 .. size : k < l <=> s[k] \in ahead[s[l]]
  BY OrderedSorts DEF Sorts
<1> HIDE DEF s
<1>2. 1 \in 1 .. size /\ s[1] \in S
  BY <1>1
<1>3. ASSUME NEW i \in ahead[s[1]]
      PROVE  FALSE
  <2>1. i \in S
    BY <1>2, <1>3 DEF StrictOrder
  <2>2. PICK k \in 1 .. size : s[k] = i
    BY <1>1, <2>1
  <2>3. k < 1
    BY <1>1, <1>2, <1>3, <2>2
  <2> QED
    BY <2>3
<1> QED
  BY <1>2, <1>3

LEMMA LeastOf ==
  ASSUME NEW T, IsFiniteSet(T), T \subseteq Int, T # {}
  PROVE  Min(T) \in T /\ \A m \in T : Min(T) <= m
<1> DEFINE ahead == [k \in T |-> {l \in T : l < k}]
<1>1. StrictOrder(ahead) /\ DOMAIN ahead = T
  BY DEF StrictOrder
<1>2. PICK n \in T : ahead[n] = {}
  <2> HIDE DEF ahead
  <2> QED
    BY <1>1, SomethingIsFirst
<1>3. \A m \in T : n <= m
  BY <1>2
<1> QED
  BY <1>3 DEF Min

LEMMA GreatestOf ==
  ASSUME NEW T, IsFiniteSet(T), T \subseteq Int, T # {}
  PROVE  Max(T) \in T /\ \A m \in T : Max(T) >= m
<1> DEFINE ahead == [k \in T |-> {l \in T : l > k}]
<1>1. StrictOrder(ahead) /\ DOMAIN ahead = T
  BY DEF StrictOrder
<1>2. PICK n \in T : ahead[n] = {}
  <2> HIDE DEF ahead
  <2> QED
    BY <1>1, SomethingIsFirst
<1>3. \A m \in T : n >= m
  BY <1>2
<1> QED
  BY <1>3 DEF Max

\* Numbers in a row, each once and rising.
Rises(s, numbers) ==
  /\ s \in Seq(numbers) /\ ToSet(s) = numbers
  /\ \A k, l \in 1 .. Len(s) : k < l => s[k] < s[l]

LEMMA AscendingRises ==
  ASSUME NEW numbers, IsFiniteSet(numbers), numbers \subseteq Int
  PROVE  Rises(Ascending(numbers), numbers)
<1> DEFINE ahead == [k \in numbers |-> {l \in numbers : l < k}]
           s == Ordered(ahead)
<1>1. StrictOrder(ahead) /\ DOMAIN ahead = numbers
  BY DEF StrictOrder
<1>2. s = Ascending(numbers)
  BY DEF Ascending
<1>3. s \in Seq(numbers) /\ ToSet(s) = numbers /\ Sorts(s, ahead) /\ Len(s) = Cardinality(numbers)
  <2> HIDE DEF ahead
  <2> QED
    BY <1>1, OrderedSorts, SortedList
<1>4. ASSUME NEW k \in 1 .. Len(s), NEW l \in 1 .. Len(s), k < l
      PROVE  s[k] < s[l]
  <2>1. s[l] \in numbers
    BY <1>3
  <2>2. s[k] \in ahead[s[l]]
    BY <1>1, <1>3, <1>4, Zenon DEF Sorts
  <2> QED
    BY <2>1, <2>2
<1> QED
  BY <1>2, <1>3, <1>4 DEF Rises

\* Some of the places of a list.
LEMMA PlacesOf ==
  ASSUME NEW S, NEW list \in Seq(S), NEW places \in SUBSET DOMAIN list
  PROVE  /\ IsFiniteSet(places) /\ places \subseteq Nat
         /\ Rises(Ascending(places), places)
<1>1. places \subseteq 1 .. Len(list) /\ Len(list) \in Nat
  OBVIOUS
<1>2. IsFiniteSet(1 .. Len(list))
  BY <1>1, FS_Interval
<1>3. IsFiniteSet(places)
  BY <1>1, <1>2, FS_Subset
<1> QED
  BY <1>1, <1>3, AscendingRises

LEMMA AtList ==
  ASSUME NEW S, NEW list \in Seq(S), NEW places \in SUBSET DOMAIN list
  PROVE  /\ At(list, places) \in Seq(S)
         /\ ToSet(At(list, places)) = {list[k] : k \in places}
         /\ Len(At(list, places)) = Len(Ascending(places))
         /\ \A n \in 1 .. Len(Ascending(places)) : At(list, places)[n] = list[Ascending(places)[n]]
<1> DEFINE kept == Ascending(places)
           at == At(list, places)
<1>1. kept \in Seq(places) /\ ToSet(kept) = places
  BY PlacesOf DEF Rises
<1>2. at = [n \in DOMAIN kept |-> list[kept[n]]]
  BY DEF At
<1> HIDE DEF kept, at
<1>3. \A k \in places : list[k] \in S
  OBVIOUS
<1>4. /\ Len(kept) \in Nat /\ DOMAIN kept = 1 .. Len(kept)
      /\ \A n \in 1 .. Len(kept) : kept[n] \in places
  BY <1>1
<1>5. at \in Seq(S) /\ Len(at) = Len(kept)
  BY <1>2, <1>3, <1>4
<1>6. ToSet(at) = {list[k] : k \in places}
  BY <1>1, <1>2, <1>4 DEF ToSet
<1> QED
  BY <1>2, <1>4, <1>5, <1>6 DEF kept, at

-----------------------------------------------------------------------------
(* Lists of lists.                                                         *)

LEMMA Concatenated ==
  ASSUME NEW U, NEW s \in Seq(U), NEW t \in Seq(U)
  PROVE  /\ s \o t \in Seq(U) /\ Len(s \o t) = Len(s) + Len(t)
         /\ ToSet(s \o t) = ToSet(s) \union ToSet(t)
<1> DEFINE st == s \o t
<1>1. /\ Len(s) \in Nat /\ Len(t) \in Nat /\ DOMAIN s = 1 .. Len(s) /\ DOMAIN t = 1 .. Len(t)
      /\ st \in Seq(U) /\ Len(st) = Len(s) + Len(t) /\ DOMAIN st = 1 .. Len(s) + Len(t)
  OBVIOUS
<1>2. /\ \A i \in 1 .. Len(s) : st[i] = s[i]
      /\ \A i \in Len(s) + 1 .. Len(s) + Len(t) :
           i - Len(s) \in 1 .. Len(t) /\ st[i] = t[i - Len(s)]
  OBVIOUS
<1>3. \A j \in 1 .. Len(t) : Len(s) + j \in Len(s) + 1 .. Len(s) + Len(t) /\ st[Len(s) + j] = t[j]
  OBVIOUS
<1>4. \A i \in 1 .. Len(s) + Len(t) : i \in 1 .. Len(s) \/ i \in Len(s) + 1 .. Len(s) + Len(t)
  BY <1>1
<1> HIDE DEF st
<1>5. ToSet(st) = ToSet(s) \union ToSet(t)
  <2>1. ToSet(st) \subseteq ToSet(s) \union ToSet(t)
    BY <1>1, <1>2, <1>4 DEF ToSet
  <2>2. ToSet(s) \subseteq ToSet(st)
    BY <1>1, <1>2 DEF ToSet
  <2>3. ToSet(t) \subseteq ToSet(st)
    BY <1>1, <1>3 DEF ToSet
  <2> QED
    BY <2>1, <2>2, <2>3
<1> QED
  BY <1>1, <1>5 DEF st

\* A concatenation of the first n lists, built up from the left.
Joins(f, lists, n) ==
  f = [i \in 1 .. n |-> IF i = 1 THEN lists[i] ELSE f[i - 1] \o lists[i]]

LEMMA JoinsExists ==
  ASSUME NEW lists, NEW size \in Nat
  PROVE  \E f : Joins(f, lists, size)
<1> DEFINE lacking == {n \in 0 .. size : ~ \E f : Joins(f, lists, n)}
<1>1. SUFFICES ASSUME lacking # {} PROVE FALSE
  OBVIOUS
<1>2. IsFiniteSet(lacking) /\ lacking \subseteq Int
  <2>1. IsFiniteSet(0 .. size) /\ lacking \in SUBSET (0 .. size)
    BY FS_Interval
  <2> QED
    BY <2>1, FS_Subset
<1> DEFINE n == Min(lacking)
<1>3. n \in lacking /\ \A m \in lacking : n <= m
  BY <1>1, <1>2, LeastOf
<1> HIDE DEF n
<1>4. n \in 0 .. size /\ ~ \E f : Joins(f, lists, n)
  BY <1>3
<1>5. CASE n = 0
  <2>1. Joins(<<>>, lists, 0)
    BY DEF Joins
  <2> QED
    BY <1>4, <1>5, <2>1
<1>6. CASE n # 0
  <2>1. n - 1 \in 0 .. size /\ n - 1 \notin lacking
    BY <1>3, <1>4, <1>6
  <2>2. PICK g : Joins(g, lists, n - 1)
    BY <2>1
  <2> DEFINE f == [i \in 1 .. n |-> IF i = n THEN IF n = 1 THEN lists[1] ELSE g[n - 1] \o lists[n]
                                    ELSE g[i]]
  <2>3. \A i \in 1 .. n : f[i] = IF i = 1 THEN lists[i] ELSE f[i - 1] \o lists[i]
    <3> SUFFICES ASSUME NEW i \in 1 .. n
                 PROVE  f[i] = IF i = 1 THEN lists[i] ELSE f[i - 1] \o lists[i]
      OBVIOUS
    <3>1. CASE i = n
      <4>1. n # 1 => n - 1 \in 1 .. n /\ f[n - 1] = g[n - 1]
        BY <1>4, <1>6
      <4> QED
        BY <3>1, <4>1
    <3>2. CASE i # n
      <4>1. i \in 1 .. n - 1 /\ f[i] = g[i]
        BY <1>4, <3>2
      <4>2. g[i] = IF i = 1 THEN lists[i] ELSE g[i - 1] \o lists[i]
        BY <2>2, <4>1 DEF Joins
      <4>3. i # 1 => i - 1 \in 1 .. n /\ f[i - 1] = g[i - 1]
        BY <1>4, <4>1
      <4> QED
        BY <4>1, <4>2, <4>3
    <3> QED
      BY <3>1, <3>2
  <2>4. f = [i \in 1 .. n |-> f[i]]
    OBVIOUS
  <2> HIDE DEF f
  <2>5. Joins(f, lists, n)
    BY <2>3, <2>4 DEF Joins
  <2> QED
    BY <1>4, <2>5
<1> QED
  BY <1>5, <1>6

\* What a concatenation of lists holds.
LEMMA Flattened ==
  ASSUME NEW U, NEW lists \in Seq(Seq(U))
  PROVE  /\ FlattenSeq(lists) \in Seq(U)
         /\ \A x \in ToSet(FlattenSeq(lists)) : \E k \in DOMAIN lists : x \in ToSet(lists[k])
<1> DEFINE size == Len(lists)
<1>1. size \in Nat /\ DOMAIN lists = 1 .. size /\ \A k \in 1 .. size : lists[k] \in Seq(U)
  OBVIOUS
<1> HIDE DEF size
<1>2. CASE size = 0
  <2>1. FlattenSeq(lists) = <<>>
    BY <1>2 DEF FlattenSeq, size
  <2> QED
    BY <2>1 DEF ToSet
<1>3. CASE size # 0
  <2> DEFINE f == CHOOSE f : Joins(f, lists, size)
  <2>1. Joins(f, lists, size)
    BY <1>1, JoinsExists
  <2>2. FlattenSeq(lists) = f[size]
    BY <1>3 DEF FlattenSeq, Joins, size
  <2> HIDE DEF f
  <2>3. \A i \in 1 .. size : f[i] = IF i = 1 THEN lists[i] ELSE f[i - 1] \o lists[i]
    BY <2>1 DEF Joins
  <2> DEFINE right(i) == /\ f[i] \in Seq(U)
                         /\ \A x \in ToSet(f[i]) : \E k \in 1 .. i : x \in ToSet(lists[k])
             wrong == {i \in 1 .. size : ~right(i)}
  <2>4. wrong = {}
    <3> SUFFICES ASSUME wrong # {} PROVE FALSE
      OBVIOUS
    <3>1. IsFiniteSet(wrong) /\ wrong \subseteq Int
      <4>1. IsFiniteSet(1 .. size) /\ wrong \in SUBSET (1 .. size)
        BY <1>1, FS_Interval
      <4> QED
        BY <4>1, <1>1, FS_Subset
    <3> DEFINE i == Min(wrong)
    <3>2. i \in wrong /\ \A m \in wrong : i <= m
      <4> HIDE DEF wrong
      <4> QED
        BY <3>1, LeastOf
    <3> HIDE DEF i
    <3>3. i \in 1 .. size /\ ~right(i)
      BY <3>2
    <3>4. CASE i = 1
      <4>1. f[1] = lists[1]
        BY <3>3, <3>4, <2>3
      <4> QED
        BY <1>1, <3>3, <3>4, <4>1
    <3>5. CASE i # 1
      <4>1. i - 1 \in 1 .. size
        BY <1>1, <3>3, <3>5
      <4>2. i - 1 \notin wrong
        <5> HIDE DEF wrong
        <5> QED
          BY <1>1, <3>2, <3>3
      <4> HIDE DEF right
      <4>3. right(i - 1)
        BY <4>1, <4>2
      <4> USE DEF right
      <4>4. f[i] = f[i - 1] \o lists[i] /\ lists[i] \in Seq(U)
        BY <1>1, <3>3, <3>5, <2>3
      <4>5. f[i] \in Seq(U) /\ ToSet(f[i]) = ToSet(f[i - 1]) \union ToSet(lists[i])
        BY <4>3, <4>4, Concatenated
      <4>6. \A x \in ToSet(f[i]) : \E k \in 1 .. i : x \in ToSet(lists[k])
        <5> SUFFICES ASSUME NEW x \in ToSet(f[i]) PROVE \E k \in 1 .. i : x \in ToSet(lists[k])
          OBVIOUS
        <5>1. CASE x \in ToSet(lists[i])
          BY <5>1, <3>3
        <5>2. CASE x \in ToSet(f[i - 1])
          <6>1. PICK k \in 1 .. i - 1 : x \in ToSet(lists[k])
            BY <4>3, <5>2
          <6>2. k \in 1 .. i
            BY <3>3, <1>1
          <6> QED
            BY <6>1, <6>2
        <5> QED
          BY <4>5, <5>1, <5>2
      <4> QED
        BY <4>5, <4>6, <3>3
    <3> QED
      BY <3>4, <3>5
  <2> HIDE DEF right
  <2>6. \A i \in 1 .. size : right(i)
    BY <2>4
  <2>7. size \in 1 .. size
    BY <1>1, <1>3
  <2>5. right(size)
    BY <2>6, <2>7
  <2> USE DEF right
  <2> QED
    BY <1>1, <2>2, <2>5
<1> QED
  BY <1>2, <1>3

-----------------------------------------------------------------------------
(* Something for each of some numbers, in their order.                     *)

FromEach(list, G, places) ==
  list = [k \in DOMAIN Ascending(places) |-> G[Ascending(places)[k]]]

HasEach(list, G, places) ==
  /\ \A U : (\A i \in places : G[i] \in U) => list \in Seq(U)
  /\ \A k \in DOMAIN list : \E i \in places : list[k] = G[i]

LEMMA EachOf ==
  ASSUME NEW places, IsFiniteSet(places), places \subseteq Int,
         NEW G, NEW list, FromEach(list, G, places)
  PROVE  HasEach(list, G, places)
<1> DEFINE s == Ascending(places)
<1>1. s \in Seq(places)
  BY AscendingRises DEF Rises
<1> HIDE DEF s
<1>2. Len(s) \in Nat /\ DOMAIN s = 1 .. Len(s) /\ \A k \in 1 .. Len(s) : s[k] \in places
  BY <1>1
<1>3. list = [k \in 1 .. Len(s) |-> G[s[k]]]
  BY <1>2 DEF s, FromEach
<1>4. ASSUME NEW U, \A i \in places : G[i] \in U
       PROVE  list \in Seq(U)
  <2>1. \A k \in 1 .. Len(s) : list[k] \in U
    BY <1>2, <1>3, <1>4
  <2>2. list \in [1 .. Len(s) -> U]
    BY <1>3, <2>1
  <2> QED
    BY <1>2, <2>2
<1>5. \A k \in DOMAIN list : \E i \in places : list[k] = G[i]
  BY <1>2, <1>3
<1> QED
  BY <1>4, <1>5 DEF HasEach

LEMMA FiniteImage ==
  ASSUME NEW S, IsFiniteSet(S), NEW f, DOMAIN f = S
  PROVE  IsFiniteSet({f[x] : x \in S})
<1> DEFINE T == {f[x] : x \in S}
           g == [x \in S |-> f[x]]
<1>1. g \in Surjection(S, T)
  BY DEF Surjection
<1> HIDE DEF T, g
<1> QED
  BY <1>1, FS_Surjection DEF T

\* Places of a list are finitely many numbers.
LEMMA PlacesFinite ==
  ASSUME NEW S, NEW list \in Seq(S), NEW places \in SUBSET DOMAIN list
  PROVE  IsFiniteSet(places) /\ places \subseteq Int
  BY PlacesOf

-----------------------------------------------------------------------------
(* Texts and boxes.                                                        *)

LEMMA ListOfOne ==
  ASSUME NEW U, NEW x \in U
  PROVE  <<x>> \in Seq(U) /\ ToSet(<<x>>) = {x}
  BY DEF ToSet

LEMMA JoinedIsText ==
  ASSUME NEW texts \in Seq(Texts), NEW glue \in Glyphs
  PROVE  Joined(texts, glue) \in Texts
<1> DEFINE pieces == [k \in DOMAIN texts |-> IF k = 1 THEN texts[k] ELSE <<glue>> \o texts[k]]
<1>1. \A k \in DOMAIN texts : texts[k] \in Seq(Glyphs)
  BY DEF Texts
<1>2. <<glue>> \in Seq(Glyphs)
  BY ListOfOne
<1>3. \A k \in DOMAIN texts : <<glue>> \o texts[k] \in Seq(Glyphs)
  BY <1>1, <1>2, Concatenated
<1>4. Len(texts) \in Nat /\ DOMAIN texts = 1 .. Len(texts)
  OBVIOUS
<1>5. pieces \in Seq(Seq(Glyphs))
  <2> DEFINE U == Seq(Glyphs)
  <2>1. \A k \in DOMAIN texts : texts[k] \in U /\ <<glue>> \o texts[k] \in U
    BY <1>1, <1>3
  <2> HIDE DEF U
  <2>2. \A k \in 1 .. Len(texts) : pieces[k] \in U
    BY <1>4, <2>1
  <2>3. pieces = [k \in 1 .. Len(texts) |-> pieces[k]]
    BY <1>4
  <2> HIDE DEF pieces
  <2>4. pieces \in Seq(U)
    BY <1>4, <2>2, <2>3
  <2> QED
    BY <2>4 DEF U
<1>6. Joined(texts, glue) = FlattenSeq(pieces)
  BY DEF Joined
<1> HIDE DEF pieces
<1> QED
  BY <1>5, <1>6, Flattened DEF Texts

LEMMA MinOfTwo ==
  ASSUME NEW a \in Int, NEW b \in Int
  PROVE  Min({a, b}) = IF a <= b THEN a ELSE b
  BY DEF Min

LEMMA MaxOfTwo ==
  ASSUME NEW a \in Int, NEW b \in Int
  PROVE  Max({a, b}) = IF a >= b THEN a ELSE b
  BY DEF Max

\* A box that is turned round or out of bounds is on the page all the same.
LEMMA TopOnPage ==
  ASSUME NEW box \in Boxes
  PROVE  TopOf(box) \in 0 .. Height
<1> DEFINE top == IF box.origin = "BOTTOMLEFT" THEN Height - box.t ELSE box.t
           bottom == IF box.origin = "BOTTOMLEFT" THEN Height - box.b ELSE box.b
<1>1. top \in Int /\ bottom \in Int
  BY DEF Boxes, Height
<1> HIDE DEF top, bottom
<1>2. Min({top, bottom}) \in Int
  BY <1>1, MinOfTwo
<1> DEFINE least == Min({top, bottom})
<1>3. TopOf(box) = Min({Height, Max({0, least})})
  BY DEF TopOf, top, bottom
<1> HIDE DEF least
<1>4. least \in Int
  BY <1>2 DEF least
<1>5. Max({0, least}) \in Int /\ Max({0, least}) >= 0
  BY <1>4, MaxOfTwo
<1> DEFINE clipped == Max({0, least})
<1> HIDE DEF clipped
<1>6. clipped \in Int /\ clipped >= 0 /\ TopOf(box) = Min({Height, clipped})
  BY <1>3, <1>5 DEF clipped
<1> QED
  BY <1>6, MinOfTwo DEF Height

LEMMA LeastTop ==
  ASSUME NEW T \in SUBSET (0 .. Height), T # {}
  PROVE  Min(T) \in 0 .. Height
<1>1. Height \in Int
  BY DEF Height
<1>2. IsFiniteSet(0 .. Height)
  BY <1>1, FS_Interval
<1>3. IsFiniteSet(T)
  BY <1>2, FS_Subset
<1>4. T \subseteq Int
  BY <1>1
<1> QED
  BY <1>3, <1>4, LeastOf

-----------------------------------------------------------------------------
(* What is printed on a page: its units.                                   *)

Keys ==
  ({"narrative", "visual"} \X Nat)
  \union ({"table_row"} \X Nat \X Nat) \union ({"table_value"} \X Nat \X Nat \X Nat)

PrintedUnits ==
  [key : Keys, kind : {"narrative", "table_row", "table_value", "visual"},
   literals : SUBSET Texts, prints : SUBSET Texts, top : 0 .. Height, sources : {<<>>}]

LEMMA NarrativeList ==
  ASSUME IsPage(page)
  PROVE  NarrativeUnits \in Seq(PrintedUnits)
<1> DEFINE places == {i \in DOMAIN page.blocks :
                        /\ page.blocks[i].text # <<>> /\ ~page.blocks[i].picture
                        /\ Given(page.blocks[i].box)}
           G == [i \in places |->
                  [key |-> <<"narrative", page.blocks[i].id>>, kind |-> "narrative",
                   literals |-> {page.blocks[i].text}, prints |-> {page.blocks[i].text},
                   top |-> TopOf(page.blocks[i].box), sources |-> <<>>]]
<1>1. page.blocks \in Seq(Blocks)
  BY DEF IsPage
<1>2. IsFiniteSet(places) /\ places \subseteq Int
  BY <1>1, PlacesFinite
<1>3. \A i \in places : G[i] \in PrintedUnits
  <2> SUFFICES ASSUME NEW i \in places PROVE G[i] \in PrintedUnits
    OBVIOUS
  <2>1. page.blocks[i] \in Blocks
    BY <1>1
  <2>2. /\ page.blocks[i].text \in Texts /\ page.blocks[i].id \in Nat
        /\ TopOf(page.blocks[i].box) \in 0 .. Height
    BY <2>1, TopOnPage DEF Blocks
  <2>3. <<"narrative", page.blocks[i].id>> \in Keys
    BY <2>2 DEF Keys
  <2> QED
    BY <2>2, <2>3 DEF PrintedUnits
<1>4. FromEach(NarrativeUnits, G, places)
  <2>1. \A k \in DOMAIN Ascending(places) : Ascending(places)[k] \in places
    <3> HIDE DEF places
    <3>1. Ascending(places) \in Seq(places)
      BY <1>2, AscendingRises DEF Rises
    <3> QED
      BY <3>1
  <2> QED
    BY <2>1 DEF NarrativeUnits, Each, FromEach
<1> HIDE DEF places, G
<1>5. HasEach(NarrativeUnits, G, places)
  BY <1>2, <1>4, EachOf
<1> QED
  BY <1>3, <1>5 DEF HasEach

\* The places of a list that pass a test are numbers, and stay so when listed.
LEMMA ListedPlaces ==
  ASSUME NEW places, IsFiniteSet(places), places \subseteq Int
  PROVE  \A k \in DOMAIN Ascending(places) : Ascending(places)[k] \in places
<1>1. Ascending(places) \in Seq(places)
  BY AscendingRises DEF Rises
<1> QED
  BY <1>1

LEMMA VisualList ==
  ASSUME IsPage(page)
  PROVE  VisualUnits \in Seq(PrintedUnits)
<1> DEFINE places == {i \in DOMAIN page.images : /\ page.images[i].admissible
                                                 /\ page.images[i].box.state = "usable"}
           G == [i \in places |->
                  [key |-> <<"visual", page.images[i].id>>, kind |-> "visual",
                   literals |-> {page.images[i].path}, prints |-> {page.images[i].summary},
                   top |-> TopOf(page.images[i].box), sources |-> <<>>]]
<1>1. page.images \in Seq(Charts)
  BY DEF IsPage
<1>2. IsFiniteSet(places) /\ places \subseteq Int
  BY <1>1, PlacesFinite
<1>3. \A i \in places : G[i] \in PrintedUnits
  <2> SUFFICES ASSUME NEW i \in places PROVE G[i] \in PrintedUnits
    OBVIOUS
  <2>1. page.images[i] \in Charts
    BY <1>1
  <2>2. /\ page.images[i].path \in Texts /\ page.images[i].summary \in Texts
        /\ page.images[i].id \in Nat /\ TopOf(page.images[i].box) \in 0 .. Height
    BY <2>1, TopOnPage DEF Charts
  <2>3. <<"visual", page.images[i].id>> \in Keys
    BY <2>2 DEF Keys
  <2> QED
    BY <2>2, <2>3 DEF PrintedUnits
<1>4. FromEach(VisualUnits, G, places)
  <2>1. \A k \in DOMAIN Ascending(places) : Ascending(places)[k] \in places
    <3> HIDE DEF places
    <3> QED
      BY <1>2, ListedPlaces
  <2> QED
    BY <2>1 DEF VisualUnits, Each, FromEach
<1> HIDE DEF places, G
<1>5. HasEach(VisualUnits, G, places)
  BY <1>2, <1>4, EachOf
<1> QED
  BY <1>3, <1>5 DEF HasEach

\* Of one table.
Proper(table) == IsTable(table) /\ table.rows # <<>> /\ HeaderRows(table) < Len(table.rows)

LEMMA TableShape ==
  ASSUME NEW table, Proper(table)
  PROVE  /\ table.rows \in Seq(Seq(Texts)) /\ Len(table.rows) \in Nat
         /\ DOMAIN table.rows = 1 .. Len(table.rows)
         /\ HeaderRows(table) \in Nat \ {0} /\ HeaderRows(table) < Len(table.rows)
         /\ Columns(table) \in Nat
         /\ \A r \in DOMAIN table.rows : \A c : Cell(table, r, c) \in Texts
         /\ \A coordinates : Tops(table, coordinates) \subseteq 0 .. Height
         /\ TopOf(table.box) \in 0 .. Height
<1>1. /\ table.rows \in Seq(Seq(Texts)) /\ table.rows # <<>> /\ table.header \in Nat
      /\ table.box \in Boxes /\ \A k \in DOMAIN table.cells : table.cells[k] \in Boxes
      /\ HeaderRows(table) < Len(table.rows)
  BY DEF Proper, IsTable
<1>2. Len(table.rows) \in Nat /\ DOMAIN table.rows = 1 .. Len(table.rows) /\ Len(table.rows) # 0
  BY <1>1
<1>3. HeaderRows(table) \in Nat \ {0}
  BY <1>1, MaxOfTwo DEF HeaderRows
<1>4. \A r \in DOMAIN table.rows : table.rows[r] \in Seq(Texts)
  BY <1>1
<1>5. Columns(table) \in Nat
  <2> DEFINE places == DOMAIN table.rows
             widths == {Len(table.rows[r]) : r \in places}
  <2>1. IsFiniteSet(places)
    BY <1>2, FS_Interval
  <2>2. IsFiniteSet(widths)
    <3> DEFINE f == [r \in places |-> Len(table.rows[r])]
    <3>1. IsFiniteSet({f[r] : r \in places})
      <4> HIDE DEF f
      <4>1. DOMAIN f = places
        BY DEF f
      <4> QED
        BY <2>1, <4>1, FiniteImage
    <3> QED
      BY <3>1
  <2>3. widths \subseteq Nat /\ widths # {}
    <3>1. \A r \in places : Len(table.rows[r]) \in Nat
      BY <1>4
    <3>2. 1 \in places
      BY <1>2
    <3> QED
      BY <3>1, <3>2
  <2>4. widths \subseteq Int
    BY <2>3
  <2>5. Columns(table) = Max(widths)
    BY DEF Columns
  <2> HIDE DEF widths
  <2> QED
    BY <2>2, <2>3, <2>4, <2>5, GreatestOf
<1>6. ASSUME NEW r \in DOMAIN table.rows, NEW c
      PROVE  Cell(table, r, c) \in Texts
  <2>1. \A d \in DOMAIN table.rows[r] : table.rows[r][d] \in Texts
    BY <1>4
  <2>2. <<>> \in Texts
    BY DEF Texts
  <2> QED
    BY <2>1, <2>2 DEF Cell
<1>7. ASSUME NEW coordinates
      PROVE  Tops(table, coordinates) \subseteq 0 .. Height
  BY <1>1, TopOnPage DEF Tops, Boxed
<1>8. TopOf(table.box) \in 0 .. Height
  BY <1>1, TopOnPage
<1> QED
  BY <1>1, <1>2, <1>3, <1>5, <1>6, <1>7, <1>8

LEMMA HeaderIsText ==
  ASSUME NEW table, Proper(table), NEW c
  PROVE  HeaderText(table, c) \in Texts
<1> DEFINE path == [r \in 1 .. HeaderRows(table) |-> Cell(table, r, c)]
           kept == {r \in DOMAIN path : path[r] # <<>> /\ \A q \in 1 .. r - 1 : path[q] # path[r]}
<1>1. path \in Seq(Texts)
  <2>1. HeaderRows(table) \in Nat /\ \A r \in 1 .. HeaderRows(table) : r \in DOMAIN table.rows
    BY TableShape
  <2>2. \A r \in 1 .. HeaderRows(table) : Cell(table, r, c) \in Texts
    BY <2>1, TableShape
  <2> QED
    BY <2>1, <2>2
<1>2. Header(table, c) = At(path, kept)
  BY DEF Header
<1>3. kept \in SUBSET DOMAIN path
  OBVIOUS
<1> HIDE DEF path, kept
<1>4. Header(table, c) \in Seq(Texts)
  BY <1>1, <1>2, <1>3, AtList
<1>5. Space \in Glyphs
  BY ConstantsAssumption
<1> QED
  BY <1>4, <1>5, JoinedIsText DEF HeaderText

LEMMA OrOnPage ==
  ASSUME NEW tops \in SUBSET (0 .. Height), NEW others \in SUBSET (0 .. Height), others # {}
  PROVE  Or(tops, others) \in SUBSET (0 .. Height) /\ Or(tops, others) # {}
  BY DEF Or

LEMMA RowIsPrinted ==
  ASSUME NEW table, Proper(table), NEW r \in DOMAIN table.rows
  PROVE  RowUnit(table, r) \in PrintedUnits
<1> DEFINE unit == Cell(table, r, UnitColumn(table))
           named == {d \in 2 .. Columns(table) \ {UnitColumn(table)} : Cell(table, r, d) # <<>>}
           prints == {Cell(table, r, 1), unit} \union
                     UNION {{HeaderText(table, c), Cell(table, r, c)} : c \in named}
           tops == Or(Tops(table, {r} \X (1 .. Columns(table))), {TopOf(table.box)})
<1>1. Cell(table, r, 1) \in Texts /\ unit \in Texts
  BY TableShape
<1>2. prints \in SUBSET Texts
  <2>1. \A c \in named : HeaderText(table, c) \in Texts /\ Cell(table, r, c) \in Texts
    BY TableShape, HeaderIsText
  <2> HIDE DEF named, unit
  <2> QED
    BY <1>1, <2>1
<1>3. Min(tops) \in 0 .. Height
  <2>1. Tops(table, {r} \X (1 .. Columns(table))) \in SUBSET (0 .. Height)
    BY TableShape
  <2>2. {TopOf(table.box)} \in SUBSET (0 .. Height) /\ {TopOf(table.box)} # {}
    BY TableShape
  <2>3. tops \in SUBSET (0 .. Height) /\ tops # {}
    BY <2>1, <2>2, OrOnPage
  <2> HIDE DEF tops
  <2> QED
    BY <2>3, LeastTop
<1>4. <<"table_row", table.id, r>> \in Keys
  <2>1. r \in Nat /\ table.id \in Nat
    BY TableShape DEF Proper, IsTable
  <2> QED
    BY <2>1 DEF Keys
<1>5. RowUnit(table, r) =
        [key |-> <<"table_row", table.id, r>>, kind |-> "table_row",
         literals |-> {Cell(table, r, 1), unit}, prints |-> prints, top |-> Min(tops),
         sources |-> <<>>]
  BY DEF RowUnit
<1> HIDE DEF unit, prints, tops
<1> QED
  BY <1>1, <1>2, <1>3, <1>4, <1>5 DEF PrintedUnits

LEMMA ValueIsPrinted ==
  ASSUME NEW table, Proper(table), NEW r \in DOMAIN table.rows, NEW c \in Nat
  PROVE  ValueUnit(table, r, c) \in PrintedUnits
<1> DEFINE unit == UnitColumn(table)
           row == Tops(table, {r} \X (1 .. Columns(table)))
           naming == Tops(table, {<<r, 1>>, <<HeaderRows(table), c>>, <<r, unit>>})
           own == Tops(table, {<<r, c>>})
           tops == naming \union Or(own, Or(row, {TopOf(table.box)}))
           prints == {Cell(table, r, 1), HeaderText(table, c), Cell(table, r, unit),
                      Cell(table, r, c)}
<1>1. prints \in SUBSET Texts /\ Cell(table, r, c) \in Texts
  BY TableShape, HeaderIsText
<1>2. Min(tops) \in 0 .. Height
  <2>1. /\ row \in SUBSET (0 .. Height) /\ naming \in SUBSET (0 .. Height)
        /\ own \in SUBSET (0 .. Height)
    BY TableShape
  <2>2. {TopOf(table.box)} \in SUBSET (0 .. Height) /\ {TopOf(table.box)} # {}
    BY TableShape
  <2> HIDE DEF row, naming, own
  <2> DEFINE fallback == Or(row, {TopOf(table.box)})
  <2>3. fallback \in SUBSET (0 .. Height) /\ fallback # {}
    BY <2>1, <2>2, OrOnPage
  <2> HIDE DEF fallback
  <2>4. Or(own, fallback) \in SUBSET (0 .. Height) /\ Or(own, fallback) # {}
    BY <2>1, <2>3, OrOnPage
  <2>5. tops = naming \union Or(own, fallback)
    BY DEF fallback
  <2>6. tops \in SUBSET (0 .. Height) /\ tops # {}
    BY <2>1, <2>4, <2>5
  <2> HIDE DEF tops
  <2> QED
    BY <2>6, LeastTop
<1>3. <<"table_value", table.id, r, c>> \in Keys
  <2>1. r \in Nat /\ table.id \in Nat
    BY TableShape DEF Proper, IsTable
  <2> QED
    BY <2>1 DEF Keys
<1>4. ValueUnit(table, r, c) =
        [key |-> <<"table_value", table.id, r, c>>, kind |-> "table_value",
         literals |-> {Cell(table, r, c)}, prints |-> prints, top |-> Min(tops), sources |-> <<>>]
  BY DEF ValueUnit
<1> HIDE DEF prints, tops
<1> QED
  BY <1>1, <1>2, <1>3, <1>4 DEF PrintedUnits

LEMMA RowList ==
  ASSUME NEW table, Proper(table), NEW r \in DOMAIN table.rows
  PROVE  UnitsOfRow(table, r) \in Seq(PrintedUnits)
<1> DEFINE places == ValuesRead(table, r)
           G == [c \in places |-> ValueUnit(table, r, c)]
           values == Each(Ascending(places), LAMBDA c : ValueUnit(table, r, c))
           head == <<RowUnit(table, r)>>
<1>1. IsFiniteSet(places) /\ places \subseteq Int /\ places \subseteq Nat
  <2>1. Columns(table) \in Nat
    BY TableShape
  <2>2. IsFiniteSet(1 .. Columns(table)) /\ places \in SUBSET (1 .. Columns(table))
    BY <2>1, FS_Interval DEF ValuesRead
  <2>3. IsFiniteSet(places)
    BY <2>2, FS_Subset
  <2> QED
    BY <2>2, <2>3
<1> HIDE DEF places
<1>2. \A c \in places : G[c] \in PrintedUnits
  BY <1>1, ValueIsPrinted
<1>3. FromEach(values, G, places)
  <2>1. \A k \in DOMAIN Ascending(places) : Ascending(places)[k] \in places
    BY <1>1, ListedPlaces
  <2> QED
    BY <2>1 DEF Each, FromEach
<1>4. UnitsOfRow(table, r) = head \o values
  BY DEF UnitsOfRow, places
<1>5. head \in Seq(PrintedUnits)
  BY RowIsPrinted, ListOfOne
<1> HIDE DEF G, values, head
<1>6. HasEach(values, G, places)
  BY <1>1, <1>3, EachOf
<1>7. values \in Seq(PrintedUnits)
  BY <1>2, <1>6 DEF HasEach
<1> QED
  BY <1>4, <1>5, <1>7, Concatenated

LEMMA TableList ==
  ASSUME NEW table, IsTable(table)
  PROVE  TableUnits(table) \in Seq(PrintedUnits)
<1>1. CASE table.rows = <<>> \/ HeaderRows(table) >= Len(table.rows)
  BY <1>1 DEF TableUnits
<1>2. CASE ~(table.rows = <<>> \/ HeaderRows(table) >= Len(table.rows))
  <2> DEFINE places == RowsRead(table)
             G == [r \in places |-> UnitsOfRow(table, r)]
             rows == Each(Ascending(places), LAMBDA r : UnitsOfRow(table, r))
             P == Seq(PrintedUnits)
  <2>1. Proper(table)
    <3>1. HeaderRows(table) \in Int /\ Len(table.rows) \in Int
      BY MaxOfTwo DEF IsTable, HeaderRows
    <3> QED
      BY <1>2, <3>1 DEF Proper
  <2>2. IsFiniteSet(places) /\ places \subseteq Int /\ places \subseteq DOMAIN table.rows
    <3>1. table.rows \in Seq(Seq(Texts)) /\ places \in SUBSET DOMAIN table.rows
      BY DEF IsTable, RowsRead
    <3> HIDE DEF places
    <3> QED
      BY <3>1, PlacesFinite
  <2> HIDE DEF places
  <2>3. \A r \in places : G[r] \in P
    BY <2>1, <2>2, RowList
  <2>4. FromEach(rows, G, places)
    <3>1. \A k \in DOMAIN Ascending(places) : Ascending(places)[k] \in places
      BY <2>2, ListedPlaces
    <3> QED
      BY <3>1 DEF Each, FromEach
  <2>5. TableUnits(table) = FlattenSeq(rows)
    BY <1>2 DEF TableUnits, places
  <2> HIDE DEF G, rows, P
  <2>6. HasEach(rows, G, places)
    BY <2>2, <2>4, EachOf
  <2>7. rows \in Seq(P)
    BY <2>3, <2>6 DEF HasEach
  <2> QED
    BY <2>5, <2>7, Flattened DEF P
<1> QED
  BY <1>1, <1>2

LEMMA TablesList ==
  ASSUME IsPage(page)
  PROVE  UnitsOfTables \in Seq(PrintedUnits)
<1> DEFINE places == UsableTables
           G == [t \in places |-> TableUnits(page.tables[t])]
           tables == Each(Ascending(places), LAMBDA t : TableUnits(page.tables[t]))
           P == Seq(PrintedUnits)
<1>1. /\ IsFiniteSet(places) /\ places \subseteq Int
      /\ \A t \in places : IsTable(page.tables[t])
  <2>1. page.tables \in Seq(ToSet(page.tables)) /\ \A table \in ToSet(page.tables) : IsTable(table)
    BY DEF IsPage
  <2>2. places \in SUBSET DOMAIN page.tables
    BY DEF UsableTables
  <2> HIDE DEF places
  <2>3. IsFiniteSet(places) /\ places \subseteq Int
    BY <2>1, <2>2, PlacesFinite
  <2>4. \A t \in DOMAIN page.tables : page.tables[t] \in ToSet(page.tables)
    BY DEF ToSet
  <2> QED
    BY <2>1, <2>2, <2>3, <2>4
<1> HIDE DEF places
<1>2. \A t \in places : G[t] \in P
  BY <1>1, TableList
<1>3. FromEach(tables, G, places)
  <2>1. \A k \in DOMAIN Ascending(places) : Ascending(places)[k] \in places
    BY <1>1, ListedPlaces
  <2> QED
    BY <2>1 DEF Each, FromEach
<1>4. UnitsOfTables = FlattenSeq(tables)
  BY DEF UnitsOfTables, places
<1> HIDE DEF G, tables, P
<1>5. HasEach(tables, G, places)
  BY <1>1, <1>3, EachOf
<1>6. tables \in Seq(P)
  BY <1>2, <1>5 DEF HasEach
<1> QED
  BY <1>4, <1>6, Flattened DEF P

\* The units of the page itself, in the order they are built.
Printed == (NarrativeUnits \o UnitsOfTables) \o VisualUnits

LEMMA PrintedList ==
  ASSUME IsPage(page)
  PROVE  Printed \in Seq(PrintedUnits)
<1>1. NarrativeUnits \o UnitsOfTables \in Seq(PrintedUnits)
  BY NarrativeList, TablesList, Concatenated
<1> QED
  BY <1>1, VisualList, Concatenated DEF Printed

-----------------------------------------------------------------------------
(* Segments of the Markdown.                                               *)

\* A line that names no column of its table, or stands in no table with a rule.
Reading(line) ==
  \E k \in DOMAIN page.chunks : \E i \in DOMAIN page.chunks[k] :
    /\ page.chunks[k][i] = line
    /\ Separators(page.chunks[k], i) # {} =>
         \E j \in Separators(page.chunks[k], i) : j < i

LEMMA SegmentsOfChunk ==
  ASSUME NEW chunk \in Seq(Lines)
  PROVE  /\ SegmentsOf(chunk) \in Seq(Lines)
         /\ \A line \in ToSet(SegmentsOf(chunk)) : line.pipe =>
              \E i \in DOMAIN chunk : chunk[i] = line /\
                (Separators(chunk, i) # {} => \E j \in Separators(chunk, i) : j < i)
<1>1. CASE \E i \in DOMAIN chunk : chunk[i].pipe
  <2> DEFINE places == {i \in DOMAIN chunk : Asserts(chunk, i)}
  <2>1. SegmentsOf(chunk) = At(chunk, places)
    BY <1>1 DEF SegmentsOf
  <2>2. /\ At(chunk, places) \in Seq(Lines)
        /\ ToSet(At(chunk, places)) = {chunk[k] : k \in places}
    BY AtList
  <2>3. ASSUME NEW i \in places, chunk[i].pipe, Separators(chunk, i) # {}
        PROVE  \E j \in Separators(chunk, i) : j < i
    <3>1. i > Min(Separators(chunk, i))
      BY <2>3 DEF Asserts
    <3>2. Separators(chunk, i) \in SUBSET DOMAIN chunk
      BY DEF Separators
    <3>3. IsFiniteSet(Separators(chunk, i)) /\ Separators(chunk, i) \subseteq Int
      BY <3>2, PlacesFinite
    <3>4. Min(Separators(chunk, i)) \in Separators(chunk, i)
      BY <2>3, <3>3, LeastOf
    <3>5. Min(Separators(chunk, i)) < i
      BY <3>1, <3>3, <3>4
    <3> QED
      BY <3>4, <3>5
  <2> QED
    BY <2>1, <2>2, <2>3
<1>2. CASE ~ \E i \in DOMAIN chunk : chunk[i].pipe
  <2> DEFINE texts == [i \in DOMAIN chunk |-> chunk[i].cells[1]]
             line == [pipe |-> FALSE, cells |-> <<Joined(texts, Space)>>]
  <2>1. \A i \in DOMAIN chunk : chunk[i].cells[1] \in Texts
    <3> SUFFICES ASSUME NEW i \in DOMAIN chunk PROVE chunk[i].cells[1] \in Texts
      OBVIOUS
    <3>1. chunk[i] \in Lines
      OBVIOUS
    <3>2. chunk[i].cells \in Seq(Texts) /\ chunk[i].cells # <<>>
      BY <3>1 DEF Lines
    <3> QED
      BY <3>2
  <2>2. texts \in Seq(Texts)
    <3>1. Len(chunk) \in Nat /\ DOMAIN chunk = 1 .. Len(chunk)
      OBVIOUS
    <3>2. texts \in [1 .. Len(chunk) -> Texts]
      BY <2>1, <3>1
    <3> QED
      BY <3>1, <3>2
  <2>3. Joined(texts, Space) \in Texts
    BY <2>2, JoinedIsText, ConstantsAssumption
  <2> HIDE DEF texts
  <2>4. <<Joined(texts, Space)>> \in Seq(Texts) \ {<<>>}
    BY <2>3
  <2>5. line \in Lines /\ ~line.pipe
    BY <2>4 DEF Lines
  <2>6. SegmentsOf(chunk) = <<line>>
    BY <1>2 DEF SegmentsOf, texts
  <2> HIDE DEF line
  <2>7. <<line>> \in Seq(Lines) /\ ToSet(<<line>>) = {line}
    BY <2>5, ListOfOne
  <2> QED
    BY <2>5, <2>6, <2>7
<1> QED
  BY <1>1, <1>2

LEMMA SegmentList ==
  ASSUME IsPage(page)
  PROVE  /\ Segments \in Seq(Lines)
         /\ \A line \in ToSet(Segments) : line.pipe => Reading(line)
<1> DEFINE lists == [k \in DOMAIN page.chunks |-> SegmentsOf(page.chunks[k])]
           P == Seq(Lines)
<1>1. page.chunks \in Seq(P)
  BY DEF IsPage
<1>2. \A k \in DOMAIN page.chunks : page.chunks[k] \in P
  BY <1>1
<1>3. \A k \in DOMAIN page.chunks : SegmentsOf(page.chunks[k]) \in P
  BY <1>2, SegmentsOfChunk
<1> HIDE DEF P
<1>4. Len(page.chunks) \in Nat /\ DOMAIN page.chunks = 1 .. Len(page.chunks)
  BY <1>1
<1>5. lists \in [1 .. Len(page.chunks) -> P]
  BY <1>3, <1>4
<1>6. lists \in Seq(P)
  BY <1>4, <1>5
<1>7. /\ DOMAIN lists = DOMAIN page.chunks
      /\ \A k \in DOMAIN lists : lists[k] = SegmentsOf(page.chunks[k])
  OBVIOUS
<1>8. Segments = FlattenSeq(lists)
  BY DEF Segments
<1> HIDE DEF lists
<1>9. /\ Segments \in Seq(Lines)
      /\ \A x \in ToSet(Segments) : \E k \in DOMAIN lists : x \in ToSet(lists[k])
  BY <1>6, <1>8, Flattened DEF P
<1>10. ASSUME NEW line \in ToSet(Segments), line.pipe
       PROVE  Reading(line)
  <2>1. PICK k \in DOMAIN page.chunks : line \in ToSet(SegmentsOf(page.chunks[k]))
    BY <1>7, <1>9
  <2> DEFINE chunk == page.chunks[k]
  <2>2. chunk \in Seq(Lines) /\ line \in ToSet(SegmentsOf(chunk))
    BY <1>2, <2>1 DEF P
  <2> HIDE DEF chunk
  <2>3. PICK i \in DOMAIN chunk :
          /\ chunk[i] = line
          /\ Separators(chunk, i) # {} => \E j \in Separators(chunk, i) : j < i
    BY <1>10, <2>2, SegmentsOfChunk
  <2> QED
    BY <2>3 DEF chunk, Reading
<1> QED
  BY <1>9, <1>10

LEMMA LineIsText ==
  ASSUME NEW line \in Lines
  PROVE  TextOf(line) \in Texts /\ Len(TextOf(line)) \in Nat
<1>1. line.cells \in Seq(Texts) /\ line.cells # <<>>
  BY DEF Lines
<1>2. Bar \in Glyphs /\ <<Bar>> \in Texts
  BY ConstantsAssumption, ListOfOne DEF Texts
<1>3. Joined(line.cells, Bar) \in Texts
  BY <1>1, <1>2, JoinedIsText
<1>4. <<Bar>> \o Joined(line.cells, Bar) \o <<Bar>> \in Texts
  BY <1>2, <1>3 DEF Texts
<1>5. line.cells[1] \in Texts
  BY <1>1
<1>6. TextOf(line) \in Texts
  BY <1>4, <1>5 DEF TextOf
<1> QED
  BY <1>6 DEF Texts
-----------------------------------------------------------------------------
(* The invariant.                                                          *)

GeneratedUnits ==
  [key : {"page_markdown"} \X (Nat \ {0}), kind : {"page_markdown"}, literals : {{}},
   prints : {{}}, top : {0}, sources : Seq(Keys)]

AllUnits == PrintedUnits \union GeneratedUnits

\* The keys a segment may map onto.
Owned == {u.key : u \in Citable}

Typed ==
  /\ page \in Pages
  /\ pc \in {"blocks", "tables", "images", "segment", "anchors", "cells", "stored", "failed"}
  /\ units \in Seq(AllUnits)
  /\ segment \in Nat \ {0}
  /\ pc \in {"anchors", "cells"} => segment <= Len(Segments)

\* Until the first segment the units are the page's own, in the order they are read.
Built ==
  /\ pc = "blocks" => units = <<>>
  /\ pc = "tables" => units = NarrativeUnits
  /\ pc = "images" => units = NarrativeUnits \o UnitsOfTables

\* What was generated names the segment it came from.
Numbered == \A u \in Mapped : u.key[2] <= Len(Segments)

\* What an anchored segment rests on so far: spans of its text that one key owns
\* and that do not meet.
Apart(spans) == \A p, q \in spans : p # q => p.to < q.from \/ q.to < p.from
Taken ==
  pc = "anchors" =>
    /\ left \subseteq Anchors
    /\ IsFiniteSet(placed) /\ placed \subseteq Spans(TextOf(Current), Owned) /\ Apart(placed)

Traced(line, keys) ==
  keys \in Seq(Owned) /\ keys # <<>> /\ (WrittenBy(TextOf(line), keys) \/ RebuiltFrom(line, keys))

IInv ==
  /\ Typed /\ Built /\ Numbered /\ Taken
  /\ \A u \in Mapped : Traced(SegmentOf(u), u.sources)
  /\ StoredInReadingOrder

\* Of the units there are, those that can be cited and those that were generated.
LEMMA UnitShapes ==
  ASSUME units \in Seq(AllUnits)
  PROVE  /\ \A u \in DOMAIN units : units[u] \in AllUnits
         /\ Citable = {u \in ToSet(units) : u.kind # "page_markdown"}
         /\ IsFiniteSet(Citable) /\ Citable \subseteq PrintedUnits
         /\ Mapped \subseteq GeneratedUnits /\ Owned \subseteq Keys
<1>1. Len(units) \in Nat /\ DOMAIN units = 1 .. Len(units)
  OBVIOUS
<1>2. \A u \in DOMAIN units : units[u] \in AllUnits
  OBVIOUS
<1>3. \A u \in AllUnits :
        IF u.kind = "page_markdown" THEN u \in GeneratedUnits ELSE u \in PrintedUnits
  BY DEF AllUnits, PrintedUnits, GeneratedUnits
<1>4. Citable = {u \in ToSet(units) : u.kind # "page_markdown"}
  BY DEF Citable, ToSet
<1>5. \A u \in ToSet(units) : u \in AllUnits
  BY <1>2 DEF ToSet
<1>6. Citable \subseteq PrintedUnits /\ Mapped \subseteq GeneratedUnits
  BY <1>3, <1>4, <1>5 DEF Mapped
<1>7. IsFiniteSet(Citable)
  <2>1. IsFiniteSet(DOMAIN units)
    BY <1>1, FS_Interval
  <2>2. IsFiniteSet({units[u] : u \in DOMAIN units})
    BY <2>1, FiniteImage
  <2>3. Citable \in SUBSET {units[u] : u \in DOMAIN units}
    BY DEF Citable
  <2> QED
    BY <2>2, <2>3, FS_Subset
<1>8. Owned \subseteq Keys
  BY <1>6 DEF Owned, PrintedUnits
<1> QED
  BY <1>2, <1>4, <1>6, <1>7, <1>8

\* The keys of some citable units are finitely many.
LEMMA KeysFinite ==
  ASSUME units \in Seq(AllUnits), NEW C \in SUBSET Citable
  PROVE  IsFiniteSet({u.key : u \in C}) /\ {u.key : u \in C} \subseteq Owned
<1> DEFINE key == [u \in C |-> u.key]
<1>1. IsFiniteSet(C)
  BY UnitShapes, FS_Subset
<1>2. IsFiniteSet({key[u] : u \in C})
  <2>1. DOMAIN key = C
    OBVIOUS
  <2> HIDE DEF key
  <2> QED
    BY <1>1, <2>1, FiniteImage
<1> QED
  BY <1>2 DEF Owned

\* A literal worth trusting is a text, and some unit prints it.
LEMMA AnchorShapes ==
  ASSUME units \in Seq(AllUnits)
  PROVE  /\ \A a \in Anchors : /\ a \in Texts /\ Len(a) \in Nat \ {0} /\ Owners(a) # {}
         /\ \A text : IsFiniteSet(Owners(text)) /\ Owners(text) \subseteq Owned
         /\ \A cell : IsFiniteSet(Printing(cell)) /\ Printing(cell) \subseteq Owned
<1>1. ASSUME NEW a \in Anchors
      PROVE  a \in Texts /\ Len(a) \in Nat \ {0} /\ Owners(a) # {}
  <2>1. PICK u \in Citable : a \in u.literals
    BY DEF Anchors
  <2>2. u \in PrintedUnits
    BY UnitShapes
  <2>3. a \in Texts
    BY <2>1, <2>2 DEF PrintedUnits
  <2>4. Len(a) \in Nat /\ Len(a) >= MinAnchor
    BY <2>3 DEF Texts, Anchors
  <2>5. Len(a) \in Nat \ {0}
    BY <2>4, ConstantsAssumption
  <2>6. u.key \in Owners(a)
    BY <2>1 DEF Owners
  <2> QED
    BY <2>3, <2>5, <2>6
<1>2. ASSUME NEW text
      PROVE  IsFiniteSet(Owners(text)) /\ Owners(text) \subseteq Owned
  BY KeysFinite DEF Owners
<1>3. ASSUME NEW cell
      PROVE  IsFiniteSet(Printing(cell)) /\ Printing(cell) \subseteq Owned
  BY KeysFinite DEF Printing
<1> QED
  BY <1>1, <1>2, <1>3

\* One of a set of one.
LEMMA OnlyOne ==
  ASSUME NEW S, IsFiniteSet(S), Cardinality(S) = 1
  PROVE  S = {CHOOSE x \in S : TRUE} /\ (CHOOSE x \in S : TRUE) \in S
<1>1. PICK x : S = {x}
  BY FS_Singleton
<1> QED
  BY <1>1

-----------------------------------------------------------------------------
(* What can be cited is settled before the first segment is mapped.        *)

LEMMA Settled ==
  ASSUME page' = page, Citable' = Citable
  PROVE  /\ Segments' = Segments /\ Anchors' = Anchors /\ Owned' = Owned
         /\ \A text : (Owners(text))' = Owners(text)
         /\ \A line, keys : (Traced(line, keys))' <=> Traced(line, keys)
         /\ \A text, keys : (Spans(text, keys))' = Spans(text, keys)
<1>1. Segments' = Segments
  BY DEF Segments
<1>2. Anchors' = Anchors /\ Owned' = Owned
  BY DEF Anchors, Owned
<1>3. \A text : (Owners(text))' = Owners(text)
  BY DEF Owners
<1>4. \A cell : (Printing(cell))' = Printing(cell)
  BY DEF Printing
<1>5. \A text, keys : (Spans(text, keys))' = Spans(text, keys)
  BY <1>2, <1>3 DEF Spans
<1>6. \A text, keys : (WrittenBy(text, keys))' <=> WrittenBy(text, keys)
  BY <1>5 DEF WrittenBy
<1>7. \A line, keys : (RebuiltFrom(line, keys))' <=> RebuiltFrom(line, keys)
  BY <1>4 DEF RebuiltFrom
<1>8. \A line, keys : (Traced(line, keys))' <=> Traced(line, keys)
  BY <1>2, <1>6, <1>7 DEF Traced
<1> QED
  BY <1>1, <1>2, <1>3, <1>5, <1>8
-----------------------------------------------------------------------------
(* A list without its repetitions.                                         *)

\* Where each element of d stands in the list for the first time.
FirstsOf(first, list, d) ==
  /\ \A n \in 1 .. Len(d) : /\ first[n] \in DOMAIN list /\ d[n] = list[first[n]]
                            /\ \A m \in DOMAIN list : list[m] = d[n] => first[n] <= m
  /\ \A k, l \in 1 .. Len(d) : k < l => first[k] < first[l]

LEMMA DistinctList ==
  ASSUME NEW U, NEW list \in Seq(U)
  PROVE  /\ Distinct(list) \in Seq(U) /\ ToSet(Distinct(list)) = ToSet(list)
         /\ \E first : FirstsOf(first, list, Distinct(list))
<1> DEFINE places == {k \in DOMAIN list : \A j \in 1 .. k - 1 : list[j] # list[k]}
           first == Ascending(places)
           d == At(list, places)
<1>1. Distinct(list) = d
  BY DEF Distinct
<1>2. places \in SUBSET DOMAIN list /\ DOMAIN list = 1 .. Len(list) /\ Len(list) \in Nat
  OBVIOUS
<1>3. \A k \in places : \A m \in DOMAIN list : list[m] = list[k] => k <= m
  BY <1>2
<1>4. \A m \in DOMAIN list : \E k \in places : list[k] = list[m]
  <2> SUFFICES ASSUME NEW m \in DOMAIN list PROVE \E k \in places : list[k] = list[m]
    OBVIOUS
  <2> DEFINE same == {i \in DOMAIN list : list[i] = list[m]}
  <2>1. same \in SUBSET DOMAIN list /\ m \in same
    OBVIOUS
  <2>2. Min(same) \in same /\ \A i \in same : Min(same) <= i
    <3> HIDE DEF same
    <3> QED
      BY <2>1, PlacesFinite, LeastOf
  <2> DEFINE k == Min(same)
  <2> HIDE DEF k
  <2>3. k \in DOMAIN list /\ list[k] = list[m] /\ \A i \in DOMAIN list : list[i] = list[m] => k <= i
    BY <2>2 DEF k
  <2>4. \A j \in 1 .. k - 1 : list[j] # list[k]
    BY <1>2, <2>3
  <2> QED
    BY <2>3, <2>4
<1> HIDE DEF places, d
<1>5. /\ d \in Seq(U) /\ ToSet(d) = {list[k] : k \in places} /\ Len(d) = Len(first)
      /\ \A n \in 1 .. Len(first) : d[n] = list[first[n]]
  BY <1>2, AtList DEF d
<1>6. first \in Seq(places) /\ \A k, l \in 1 .. Len(first) : k < l => first[k] < first[l]
  BY <1>2, PlacesOf DEF Rises
<1> HIDE DEF first
<1>7. ToSet(d) = ToSet(list)
  BY <1>2, <1>4, <1>5 DEF ToSet
<1>8. \A n \in 1 .. Len(d) : first[n] \in places
  BY <1>5, <1>6
<1>9. FirstsOf(first, list, d)
  BY <1>2, <1>3, <1>5, <1>6, <1>8 DEF FirstsOf
<1> QED
  BY <1>1, <1>5, <1>7, <1>9

-----------------------------------------------------------------------------
(* Literals placed in a text.                                              *)

\* A span of a text is a literal of one key, at one place of the text.
LEMMA SpanShapes ==
  ASSUME units \in Seq(AllUnits), NEW text \in Texts, NEW keys, NEW p \in Spans(text, keys)
  PROVE  /\ p.from \in Nat \ {0} /\ p.to \in Nat /\ p.from <= p.to
         /\ p.key \in Owned /\ p.key \in keys
<1>1. PICK a \in {b \in Anchors : Cardinality(Owners(b)) = 1 /\ Owners(b) \subseteq keys} :
        p \in {[from |-> i, to |-> i + Len(a) - 1, key |-> CHOOSE k \in Owners(a) : TRUE] :
               i \in Occurrences(a, text)}
  BY DEF Spans
<1>2. PICK i \in Occurrences(a, text) :
        /\ a \in Anchors /\ Cardinality(Owners(a)) = 1 /\ Owners(a) \subseteq keys
        /\ p = [from |-> i, to |-> i + Len(a) - 1, key |-> CHOOSE k \in Owners(a) : TRUE]
  BY <1>1
<1>3. Len(a) \in Nat \ {0} /\ i \in Nat \ {0}
  BY AnchorShapes DEF Occurrences
<1>4. IsFiniteSet(Owners(a)) /\ Owners(a) \subseteq Owned
  BY AnchorShapes
<1>5. p.key \in Owners(a)
  BY <1>2, <1>4, OnlyOne
<1> QED
  BY <1>2, <1>3, <1>4, <1>5

LEMMA SpanOf ==
  ASSUME NEW text, NEW keys, NEW a \in Anchors, NEW i \in Occurrences(a, text),
         Cardinality(Owners(a)) = 1, Owners(a) \subseteq keys
  PROVE  [from |-> i, to |-> i + Len(a) - 1, key |-> CHOOSE k \in Owners(a) : TRUE]
           \in Spans(text, keys)
<1> DEFINE of(b) == {[from |-> j, to |-> j + Len(b) - 1, key |-> CHOOSE k \in Owners(b) : TRUE] :
                     j \in Occurrences(b, text)}
           owned == {b \in Anchors : Cardinality(Owners(b)) = 1 /\ Owners(b) \subseteq keys}
<1>1. Spans(text, keys) = UNION {of(b) : b \in owned}
  BY DEF Spans
<1>2. [from |-> i, to |-> i + Len(a) - 1, key |-> CHOOSE k \in Owners(a) : TRUE] \in of(a)
  OBVIOUS
<1>3. a \in owned
  OBVIOUS
<1> HIDE DEF of, owned
<1> QED
  BY <1>1, <1>2, <1>3

\* A span that one key owns is a span of any keys that have that one.
LEMMA SpansOfOwner ==
  ASSUME units \in Seq(AllUnits), NEW text, NEW keys, NEW p \in Spans(text, Owned), p.key \in keys
  PROVE  p \in Spans(text, keys)
<1>1. PICK a \in {b \in Anchors : Cardinality(Owners(b)) = 1 /\ Owners(b) \subseteq Owned} :
        p \in {[from |-> i, to |-> i + Len(a) - 1, key |-> CHOOSE k \in Owners(a) : TRUE] :
               i \in Occurrences(a, text)}
  BY DEF Spans
<1>2. PICK i \in Occurrences(a, text) :
        /\ a \in Anchors /\ Cardinality(Owners(a)) = 1 /\ Owners(a) \subseteq Owned
        /\ p = [from |-> i, to |-> i + Len(a) - 1, key |-> CHOOSE k \in Owners(a) : TRUE]
  BY <1>1
<1>3. Owners(a) = {p.key}
  BY <1>2, AnchorShapes, OnlyOne
<1>4. Owners(a) \subseteq keys
  BY <1>3
<1> QED
  BY <1>2, <1>4, SpanOf

\* The literal a step places: a span of the text that one key owns, apart from the
\* spans before it.
LEMMA PlacedSpan ==
  ASSUME units \in Seq(AllUnits), NEW text \in Texts, NEW a \in Anchors,
         placed \subseteq Spans(text, Owned), Apart(placed), IsFiniteSet(placed),
         Free(a, text) # {}, ~(Cardinality(Owners(a)) > 1)
  PROVE  LET p == [from |-> Min(Free(a, text)), to |-> Min(Free(a, text)) + Len(a) - 1,
                   key |-> CHOOSE k \in Owners(a) : TRUE]
         IN  /\ placed \union {p} \subseteq Spans(text, Owned)
             /\ Apart(placed \union {p}) /\ IsFiniteSet(placed \union {p})
<1> DEFINE i == Min(Free(a, text))
           p == [from |-> i, to |-> i + Len(a) - 1, key |-> CHOOSE k \in Owners(a) : TRUE]
<1>1. Len(a) \in Nat \ {0} /\ Owners(a) # {} /\ IsFiniteSet(Owners(a)) /\ Owners(a) \subseteq Owned
  BY AnchorShapes
<1>2. Len(text) \in Nat
  BY DEF Texts
<1>3. i \in Free(a, text)
  <2>1. IsFiniteSet(1 .. Len(text) - Len(a) + 1)
    BY <1>1, <1>2, FS_Interval
  <2>2. Free(a, text) \in SUBSET (1 .. Len(text) - Len(a) + 1)
    BY DEF Free, Occurrences
  <2>3. IsFiniteSet(Free(a, text)) /\ Free(a, text) \subseteq Int
    BY <2>1, <2>2, FS_Subset
  <2> QED
    BY <2>3, LeastOf
<1> HIDE DEF i
<1>4. /\ i \in Occurrences(a, text) /\ i \in Nat
      /\ \A q \in placed : i + Len(a) - 1 < q.from \/ i > q.to
  BY <1>3 DEF Free, Occurrences
<1>5. Cardinality(Owners(a)) = 1
  <2>1. Cardinality(Owners(a)) \in Nat /\ Cardinality(Owners(a)) # 0
    BY <1>1, FS_CardinalityType, FS_EmptySet
  <2> QED
    BY <2>1
<1>6. p \in Spans(text, Owned)
  BY <1>1, <1>4, <1>5, SpanOf
<1>7. \A q \in placed : q.from \in Nat /\ q.to \in Nat
  BY SpanShapes
<1>8. \A q \in placed : /\ p.to < q.from \/ q.to < p.from
                        /\ q.to < p.from \/ p.to < q.from
  BY <1>1, <1>4, <1>7
<1> HIDE DEF p
<1>9. Apart(placed \union {p})
  BY <1>8 DEF Apart
<1>10. IsFiniteSet(placed \union {p})
  BY FS_AddElement
<1> QED
  BY <1>6, <1>9, <1>10 DEF p, i
\* The spans of a text, first to last.
LEMMA SpansSorted ==
  ASSUME units \in Seq(AllUnits), NEW text \in Texts,
         placed \subseteq Spans(text, Owned), Apart(placed), IsFiniteSet(placed)
  PROVE  \E spans \in Seq(placed) :
           /\ KeysInOrder = Distinct([k \in DOMAIN spans |-> spans[k].key])
           /\ ToSet(spans) = placed
           /\ \A k, l \in DOMAIN spans : k < l => spans[k].from < spans[l].from
<1> DEFINE ahead == [p \in placed |-> {q \in placed : q.from < p.from}]
           spans == Ordered(ahead)
<1>1. \A p \in placed : p.from \in Nat /\ p.to \in Nat /\ p.from <= p.to
  BY SpanShapes
<1>2. \A p, q \in placed : p # q => p.from < q.from \/ q.from < p.from
  <2> SUFFICES ASSUME NEW p \in placed, NEW q \in placed, p # q
               PROVE  p.from < q.from \/ q.from < p.from
    OBVIOUS
  <2>1. p.to < q.from \/ q.to < p.from
    BY DEF Apart
  <2> QED
    BY <1>1, <2>1
<1>3. StrictOrder(ahead) /\ DOMAIN ahead = placed
  BY <1>1, <1>2 DEF StrictOrder
<1>4. KeysInOrder = Distinct([k \in DOMAIN spans |-> spans[k].key])
  BY DEF KeysInOrder
<1>5. \A p, q \in placed : p \in ahead[q] => p.from < q.from
  OBVIOUS
<1> HIDE DEF ahead
<1>6. /\ Sorts(spans, ahead) /\ spans \in Seq(placed) /\ ToSet(spans) = placed
      /\ Len(spans) = Cardinality(placed)
  BY <1>3, OrderedSorts, SortedList
<1> HIDE DEF spans
<1>7. ASSUME NEW k \in DOMAIN spans, NEW l \in DOMAIN spans, k < l
      PROVE  spans[k].from < spans[l].from
  <2>1. k \in 1 .. Cardinality(placed) /\ l \in 1 .. Cardinality(placed)
    BY <1>6
  <2>2. spans[k] \in ahead[spans[l]]
    BY <2>1, <1>3, <1>6, <1>7, Zenon DEF Sorts
  <2>3. spans[k] \in placed /\ spans[l] \in placed
    BY <1>6
  <2> QED
    BY <2>2, <2>3, <1>5
<1> QED
  BY <1>4, <1>6, <1>7

\* A text the spans account for is written by the units that own them.
LEMMA CoveredIsTraced ==
  ASSUME units \in Seq(AllUnits), NEW line \in Lines,
         placed \subseteq Spans(TextOf(line), Owned), Apart(placed), IsFiniteSet(placed),
         Covered(TextOf(line))
  PROVE  Traced(line, KeysInOrder)
<1> DEFINE text == TextOf(line)
           keys == KeysInOrder
<1>1. text \in Texts
  BY LineIsText
<1>2. PICK spans \in Seq(placed) :
        /\ keys = Distinct([k \in DOMAIN spans |-> spans[k].key])
        /\ ToSet(spans) = placed
        /\ \A k, l \in DOMAIN spans : k < l => spans[k].from < spans[l].from
  BY <1>1, SpansSorted
<1> DEFINE list == [k \in DOMAIN spans |-> spans[k].key]
<1>3. /\ DOMAIN spans = 1 .. Len(spans) /\ Len(spans) \in Nat
      /\ \A k \in DOMAIN spans : spans[k] \in placed
  OBVIOUS
<1>4. \A p \in placed : p.key \in Owned /\ p.from \in Nat
  BY <1>1, SpanShapes
<1>5. list \in Seq(Owned)
  <2>1. list \in [1 .. Len(spans) -> Owned]
    BY <1>3, <1>4
  <2> QED
    BY <1>3, <2>1
<1>6. DOMAIN list = DOMAIN spans /\ \A k \in DOMAIN spans : list[k] = spans[k].key
  OBVIOUS
<1>7. keys = Distinct(list)
  BY <1>2
<1> HIDE DEF text, keys, list
<1>8. keys \in Seq(Owned) /\ ToSet(keys) = ToSet(list)
  BY <1>5, <1>7, DistinctList
<1>9. PICK first : FirstsOf(first, list, keys)
  BY <1>5, <1>7, DistinctList
<1>10. ToSet(keys) = {p.key : p \in placed}
  <2>1. ToSet(list) = {p.key : p \in ToSet(spans)}
    BY <1>6 DEF ToSet
  <2> QED
    BY <2>1, <1>2, <1>8
<1>11. placed # {} /\ \A i \in Residual(text) : text[i] \in Syntax
  BY DEF Covered, text
<1>12. keys # <<>>
  <2>1. ToSet(keys) # {}
    BY <1>10, <1>11
  <2> QED
    BY <2>1 DEF ToSet
<1>13. placed \subseteq Spans(text, ToSet(keys))
  <2> SUFFICES ASSUME NEW p \in placed PROVE p \in Spans(text, ToSet(keys))
    OBVIOUS
  <2>1. p \in Spans(text, Owned) /\ p.key \in ToSet(keys)
    BY <1>10 DEF text
  <2> QED
    BY <2>1, SpansOfOwner
<1>14. \A p, q \in placed : p # q => p.to < q.from \/ q.to < p.from
  BY DEF Apart
<1>15. \A i \in DOMAIN text : text[i] \in Syntax \/ \E p \in placed : i \in p.from .. p.to
  <2> SUFFICES ASSUME NEW i \in DOMAIN text, i \notin Residual(text)
               PROVE  \E p \in placed : i \in p.from .. p.to
    BY <1>11
  <2>1. PICK p \in placed : ~(i < p.from \/ i > p.to)
    BY DEF Residual
  <2>2. i \in Nat /\ p.from \in Nat /\ p.to \in Nat
    BY <1>1, SpanShapes DEF text, Texts
  <2> QED
    BY <2>1, <2>2
<1>16. ASSUME NEW n \in DOMAIN keys
       PROVE  Min({p.from : p \in {q \in placed : q.key = keys[n]}}) = spans[first[n]].from
  <2> DEFINE froms == {p.from : p \in {q \in placed : q.key = keys[n]}}
  <2>1. n \in 1 .. Len(keys)
    BY <1>8, <1>16
  <2>2. /\ first[n] \in DOMAIN spans /\ keys[n] = spans[first[n]].key
        /\ \A m \in DOMAIN spans : spans[m].key = keys[n] => first[n] <= m
    BY <1>6, <1>9, <2>1 DEF FirstsOf
  <2>3. spans[first[n]].from \in froms
    BY <1>3, <2>2
  <2>4. ASSUME NEW p \in placed, p.key = keys[n]
        PROVE  spans[first[n]].from <= p.from
    <3>1. PICK m \in DOMAIN spans : spans[m] = p
      BY <1>2 DEF ToSet
    <3>2. first[n] = m \/ first[n] < m
      BY <1>3, <2>2, <2>4, <3>1
    <3>3. spans[first[n]].from = spans[m].from \/ spans[first[n]].from < spans[m].from
      BY <1>2, <2>2, <3>2
    <3>4. spans[first[n]].from \in Nat /\ spans[m].from \in Nat
      BY <1>3, <1>4, <2>2
    <3> QED
      BY <3>1, <3>3, <3>4
  <2>5. froms \subseteq Nat /\ \A f \in froms : spans[first[n]].from <= f
    BY <1>4, <2>4
  <2> HIDE DEF froms
  <2>6. Min(froms) = spans[first[n]].from
    BY <2>3, <2>5 DEF Min
  <2> QED
    BY <2>6 DEF froms
<1>17. ASSUME NEW j \in DOMAIN keys, NEW k \in DOMAIN keys, j < k
       PROVE  Min({p.from : p \in {q \in placed : q.key = keys[j]}}) <
                Min({p.from : p \in {q \in placed : q.key = keys[k]}})
  <2>1. j \in 1 .. Len(keys) /\ k \in 1 .. Len(keys)
    BY <1>8, <1>17
  <2>2. first[j] \in DOMAIN spans /\ first[k] \in DOMAIN spans /\ first[j] < first[k]
    BY <1>6, <1>9, <1>17, <2>1 DEF FirstsOf
  <2>3. spans[first[j]].from < spans[first[k]].from
    BY <1>2, <2>2
  <2> QED
    BY <1>16, <2>3
<1>18. WrittenBy(text, keys)
  BY <1>10, <1>13, <1>14, <1>15, <1>17 DEF WrittenBy
<1> QED
  BY <1>8, <1>12, <1>18 DEF Traced, text, keys

\* What MatchCells offers for a row, unless it is nothing.
CellsOf(line) == Only(line.cells, ToSet(line.cells) \ {<<>>})
KeysOfCells(line) ==
  Distinct([k \in DOMAIN CellsOf(line) |-> CHOOSE key \in Printing(CellsOf(line)[k]) : TRUE])

\* A row whose every cell is found under one key is rebuilt from those keys.
LEMMA RowIsTraced ==
  ASSUME units \in Seq(AllUnits), NEW line \in Lines, line.pipe,
         \A k \in DOMAIN CellsOf(line) : Cardinality(Printing(CellsOf(line)[k])) = 1,
         KeysOfCells(line) # <<>>
  PROVE  Traced(line, KeysOfCells(line))
<1> DEFINE cells == CellsOf(line)
           keys == KeysOfCells(line)
           list == [k \in DOMAIN cells |-> CHOOSE key \in Printing(cells[k]) : TRUE]
<1>1. line.cells \in Seq(Texts) /\ DOMAIN line.cells = 1 .. Len(line.cells)
  BY DEF Lines
<1>2. /\ cells \in Seq(Texts)
      /\ ToSet(cells) = {line.cells[c] : c \in {d \in DOMAIN line.cells : line.cells[d] # <<>>}}
  <2> DEFINE places == {d \in DOMAIN line.cells : line.cells[d] \in ToSet(line.cells) \ {<<>>}}
  <2>1. cells = At(line.cells, places)
    BY DEF CellsOf, Only
  <2>2. places = {d \in DOMAIN line.cells : line.cells[d] # <<>>}
    BY DEF ToSet
  <2>3. places \in SUBSET DOMAIN line.cells
    OBVIOUS
  <2> HIDE DEF places, cells
  <2>4. cells \in Seq(Texts) /\ ToSet(cells) = {line.cells[c] : c \in places}
    BY <1>1, <2>1, <2>3, AtList
  <2> QED
    BY <2>2, <2>4 DEF cells
<1>3. DOMAIN cells = 1 .. Len(cells) /\ Len(cells) \in Nat
  BY <1>2
<1>4. keys = Distinct(list)
  BY DEF KeysOfCells
<1>5. /\ DOMAIN list = DOMAIN cells
      /\ \A k \in DOMAIN cells : list[k] = CHOOSE key \in Printing(cells[k]) : TRUE
  OBVIOUS
<1>6. list = [k \in 1 .. Len(cells) |-> list[k]]
  BY <1>3
<1> HIDE DEF list
<1>7. \A k \in DOMAIN cells : Printing(cells[k]) = {list[k]} /\ list[k] \in Owned
  <2> SUFFICES ASSUME NEW k \in DOMAIN cells
               PROVE  Printing(cells[k]) = {list[k]} /\ list[k] \in Owned
    OBVIOUS
  <2>1. IsFiniteSet(Printing(cells[k])) /\ Printing(cells[k]) \subseteq Owned
    BY AnchorShapes
  <2>2. Cardinality(Printing(cells[k])) = 1
    OBVIOUS
  <2> HIDE DEF cells
  <2>3. /\ Printing(cells[k]) = {CHOOSE key \in Printing(cells[k]) : TRUE}
        /\ (CHOOSE key \in Printing(cells[k]) : TRUE) \in Printing(cells[k])
    BY <2>1, <2>2, OnlyOne
  <2> QED
    BY <1>5, <2>1, <2>3
<1> HIDE DEF cells, keys
<1>8. list \in Seq(Owned)
  <2>1. list \in [1 .. Len(cells) -> Owned]
    BY <1>3, <1>6, <1>7
  <2> QED
    BY <1>3, <2>1
<1>9. keys \in Seq(Owned) /\ ToSet(keys) = ToSet(list)
  BY <1>4, <1>8, DistinctList
<1>10. ASSUME NEW c \in DOMAIN line.cells, line.cells[c] # <<>>
       PROVE  \E k \in DOMAIN keys : Printing(line.cells[c]) = {keys[k]}
  <2>1. PICK m \in DOMAIN cells : cells[m] = line.cells[c]
    BY <1>2, <1>10 DEF ToSet
  <2>2. list[m] \in ToSet(keys)
    BY <1>5, <1>9 DEF ToSet
  <2>3. PICK k \in DOMAIN keys : keys[k] = list[m]
    BY <2>2 DEF ToSet
  <2> QED
    BY <1>7, <2>1, <2>3
<1>11. ASSUME NEW k \in DOMAIN keys
       PROVE  \E c \in DOMAIN line.cells :
                line.cells[c] # <<>> /\ Printing(line.cells[c]) = {keys[k]}
  <2>1. keys[k] \in ToSet(list)
    BY <1>9, <1>11 DEF ToSet
  <2>2. PICK m \in DOMAIN cells : list[m] = keys[k]
    BY <1>5, <2>1 DEF ToSet
  <2>3. cells[m] \in ToSet(cells)
    BY DEF ToSet
  <2>4. PICK c \in DOMAIN line.cells : line.cells[c] # <<>> /\ line.cells[c] = cells[m]
    BY <1>2, <2>3
  <2> QED
    BY <1>7, <2>2, <2>4
<1>12. RebuiltFrom(line, keys)
  BY <1>10, <1>11 DEF RebuiltFrom
<1> QED
  BY <1>9, <1>12 DEF Traced, keys
-----------------------------------------------------------------------------
(* Every step keeps the invariant.                                         *)

LEMMA PageGiven ==
  ASSUME IInv
  PROVE  IsPage(page) /\ Segments \in Seq(Lines)
         /\ (pc \in {"anchors", "cells"} => /\ segment \in DOMAIN Segments
                                            /\ Current \in Lines /\ TextOf(Current) \in Texts)
<1>1. IsPage(page)
  BY ConstantsAssumption DEF IInv, Typed
<1>2. Segments \in Seq(Lines)
  BY <1>1, SegmentList
<1>3. ASSUME pc \in {"anchors", "cells"}
      PROVE  segment \in DOMAIN Segments /\ Current \in Lines
  <2>1. segment \in Nat \ {0} /\ segment <= Len(Segments)
    BY <1>3 DEF IInv, Typed
  <2> QED
    BY <1>2, <2>1 DEF Current
<1> QED
  BY <1>1, <1>2, <1>3, LineIsText

LEMMA SameUnits ==
  ASSUME IInv, page' = page, units' = units, segment' = segment,
         pc' \notin {"blocks", "tables", "images"}, Typed', Taken', StoredInReadingOrder'
  PROVE  IInv'
<1>1. Citable' = Citable /\ Mapped' = Mapped
  BY DEF Citable, Mapped
<1>2. Segments' = Segments /\ \A line, keys : (Traced(line, keys))' <=> Traced(line, keys)
  BY <1>1, Settled
<1>3. Numbered'
  BY <1>1, <1>2 DEF IInv, Numbered
<1>4. (\A u \in Mapped : Traced(SegmentOf(u), u.sources))'
  BY <1>1, <1>2 DEF IInv, SegmentOf
<1>5. Built'
  BY DEF Built
<1> QED
  BY <1>3, <1>4, <1>5 DEF IInv

\* While the units are the page's own, none is generated.
LEMMA OwnUnits ==
  ASSUME IInv, page' = page, units' \in Seq(PrintedUnits), Typed', Built', Taken',
         pc' # "stored"
  PROVE  IInv'
<1>1. Mapped' = {}
  <2>1. \A u \in PrintedUnits : u.kind # "page_markdown"
    BY DEF PrintedUnits
  <2>2. \A u \in ToSet(units') : u \in PrintedUnits
    BY DEF ToSet
  <2> QED
    BY <2>1, <2>2 DEF Mapped
<1>2. Numbered' /\ (\A u \in Mapped : Traced(SegmentOf(u), u.sources))'
  BY <1>1 DEF Numbered
<1>3. StoredInReadingOrder'
  BY DEF StoredInReadingOrder
<1> QED
  BY <1>2, <1>3 DEF IInv

LEMMA PrintedAreUnits ==
  ASSUME NEW s \in Seq(PrintedUnits)
  PROVE  s \in Seq(AllUnits)
<1>1. PrintedUnits \subseteq AllUnits
  BY DEF AllUnits
<1> HIDE DEF PrintedUnits, AllUnits
<1> QED
  BY <1>1

LEMMA SegmentEnds ==
  ASSUME IInv, pc \in {"anchors", "cells"}, NEW keys, keys # <<>> => Traced(Current, keys),
         EndSegment(keys)
  PROVE  IInv'
<1> DEFINE new == [key |-> <<"page_markdown", segment>>, kind |-> "page_markdown",
                   literals |-> {}, prints |-> {}, top |-> 0, sources |-> keys]
<1>1. /\ page' = page /\ segment' = segment + 1 /\ pc' = "segment"
      /\ units' = IF keys = <<>> THEN units ELSE Append(units, new)
  BY DEF EndSegment
<1>2. /\ units \in Seq(AllUnits) /\ segment \in Nat \ {0} /\ segment <= Len(Segments)
      /\ \A u \in Mapped : u.key[2] <= Len(Segments)
      /\ \A u \in Mapped : Traced(SegmentOf(u), u.sources)
  BY DEF IInv, Typed, Numbered
<1>3. /\ IsPage(page) /\ segment \in DOMAIN Segments
  BY PageGiven
<1>4. new.kind = "page_markdown" /\ new.key = <<"page_markdown", segment>> /\ new.sources = keys
  OBVIOUS
<1>5. keys # <<>> => new \in AllUnits
  <2> SUFFICES ASSUME keys # <<>> PROVE new \in GeneratedUnits
    BY DEF AllUnits
  <2>1. keys \in Seq(Owned) /\ Owned \subseteq Keys
    BY <1>2, UnitShapes DEF Traced
  <2>2. keys \in Seq(Keys)
    BY <2>1
  <2>3. <<"page_markdown", segment>> \in {"page_markdown"} \X (Nat \ {0})
    BY <1>2
  <2> QED
    BY <2>2, <2>3 DEF GeneratedUnits
<1> HIDE DEF new
<1>6. /\ units' \in Seq(AllUnits)
      /\ ToSet(units') = IF keys = <<>> THEN ToSet(units) ELSE ToSet(units) \union {new}
  <2>1. CASE keys = <<>>
    BY <2>1, <1>1, <1>2
  <2>2. CASE keys # <<>>
    <3>1. <<new>> \in Seq(AllUnits) /\ ToSet(<<new>>) = {new}
      BY <2>2, <1>5, ListOfOne
    <3>2. units' = units \o <<new>>
      BY <2>2, <1>1, <1>2
    <3>3. ToSet(units \o <<new>>) = ToSet(units) \union ToSet(<<new>>)
      BY <1>2, <3>1, Concatenated
    <3>4. units \o <<new>> \in Seq(AllUnits)
      BY <1>2, <3>1, Concatenated
    <3> QED
      BY <2>2, <3>1, <3>2, <3>3, <3>4
  <2> QED
    BY <2>1, <2>2
<1>7. Citable' = Citable
  <2>1. Citable = {u \in ToSet(units) : u.kind # "page_markdown"}
    BY <1>2, UnitShapes
  <2>2. Citable' = {u \in ToSet(units') : u.kind # "page_markdown"}
    BY DEF Citable, ToSet
  <2> QED
    BY <1>4, <1>6, <2>1, <2>2
<1>8. Mapped' = IF keys = <<>> THEN Mapped ELSE Mapped \union {new}
  BY <1>4, <1>6 DEF Mapped
<1>9. Segments' = Segments /\ \A line, ks : (Traced(line, ks))' <=> Traced(line, ks)
  BY <1>1, <1>7, Settled
<1>10. Numbered'
  <2>1. \A u \in Mapped' : u.key[2] <= Len(Segments)
    BY <1>2, <1>4, <1>8
  <2> QED
    BY <1>9, <2>1 DEF Numbered
<1>11. (\A u \in Mapped : Traced(SegmentOf(u), u.sources))'
  <2>1. SegmentOf(new) = Current
    BY <1>4 DEF SegmentOf, Current
  <2>2. \A u \in Mapped' : Traced(SegmentOf(u), u.sources)
    BY <1>2, <1>4, <1>8, <2>1
  <2>3. \A u : (SegmentOf(u))' = SegmentOf(u)
    BY <1>9 DEF SegmentOf
  <2> QED
    BY <1>9, <2>2, <2>3
<1>12. Typed' /\ Built' /\ Taken' /\ StoredInReadingOrder'
  BY <1>1, <1>2, <1>6 DEF IInv, Typed, Built, Taken, StoredInReadingOrder
<1> QED
  BY <1>10, <1>11, <1>12 DEF IInv
\* What stands further up is stored first, and what was generated last.
LEMMA OrderStores ==
  ASSUME IInv, Order
  PROVE  StoredInReadingOrder'
<1> DEFINE ahead == [u \in DOMAIN units |-> {v \in DOMAIN units :
                       \/ Position(v) < Position(u)
                       \/ Position(v) = Position(u) /\ v < u}]
           s == Ordered(ahead)
           n == Len(units)
<1>1. /\ units' = units /\ pc' = "stored"
      /\ ordered' = Each(s, LAMBDA u : units[u])
  BY DEF Order
<1>2. /\ units \in Seq(AllUnits)
      /\ \A u \in Mapped : Traced(SegmentOf(u), u.sources)
  BY DEF IInv, Typed
<1>3. /\ n \in Nat /\ DOMAIN units = 1 .. n
      /\ IsFiniteSet(DOMAIN units) /\ Cardinality(DOMAIN units) = n
  <2>1. n \in Nat /\ DOMAIN units = 1 .. n
    BY <1>2
  <2> HIDE DEF n
  <2>2. IsFiniteSet(1 .. n) /\ Cardinality(1 .. n) = n
    BY <2>1, FS_Interval
  <2> QED
    BY <2>1, <2>2
<1>4. \A u \in DOMAIN units :
        IF units[u].kind = "page_markdown" THEN Position(u) = 11 /\ units[u] \in GeneratedUnits
        ELSE Position(u) = units[u].top /\ Position(u) \in 0 .. 10 /\ units[u] \in PrintedUnits
  <2> SUFFICES ASSUME NEW u \in DOMAIN units
               PROVE  IF units[u].kind = "page_markdown"
                        THEN Position(u) = 11 /\ units[u] \in GeneratedUnits
                        ELSE /\ Position(u) = units[u].top /\ Position(u) \in 0 .. 10
                             /\ units[u] \in PrintedUnits
    OBVIOUS
  <2>1. units[u] \in PrintedUnits \/ units[u] \in GeneratedUnits
    BY <1>2, UnitShapes DEF AllUnits
  <2>2. CASE units[u] \in PrintedUnits
    <3>1. units[u].kind # "page_markdown" /\ units[u].top \in 0 .. Height
      BY <2>2 DEF PrintedUnits
    <3> QED
      BY <2>2, <3>1 DEF Position, Height
  <2>3. CASE units[u] \in GeneratedUnits
    <3>1. units[u].kind = "page_markdown"
      BY <2>3 DEF GeneratedUnits
    <3> QED
      BY <2>3, <3>1 DEF Position, Height
  <2> QED
    BY <2>1, <2>2, <2>3
<1>5. \A u \in DOMAIN units : Position(u) \in Int
  BY <1>4
<1>6. StrictOrder(ahead) /\ DOMAIN ahead = DOMAIN units
  <2>1. ahead \in [DOMAIN units -> SUBSET DOMAIN units]
    OBVIOUS
  <2>2. \A u, v \in DOMAIN units : u # v => u \in ahead[v] \/ v \in ahead[u]
    BY <1>3, <1>5
  <2>3. \A u \in DOMAIN units : u \notin ahead[u]
    BY <1>3, <1>5
  <2>4. \A u, v, w \in DOMAIN units : u \in ahead[v] /\ v \in ahead[w] => u \in ahead[w]
    BY <1>3, <1>5
  <2> QED
    BY <1>3, <2>1, <2>2, <2>3, <2>4 DEF StrictOrder
<1>7. \A u, v \in DOMAIN units :
        u \in ahead[v] <=> \/ Position(u) < Position(v)
                           \/ Position(u) = Position(v) /\ u < v
  OBVIOUS
<1> HIDE DEF ahead
<1>8. /\ s \in [1 .. n -> DOMAIN units] /\ \A u \in DOMAIN units : \E k \in 1 .. n : s[k] = u
      /\ \A k, l \in 1 .. n : k < l <=> s[k] \in ahead[s[l]]
  <2>1. Sorts(s, ahead)
    BY <1>6, OrderedSorts
  <2> HIDE DEF s
  <2> QED
    BY <1>3, <1>6, <2>1 DEF Sorts
<1> HIDE DEF s, n
<1>9. \A k \in 1 .. n : s[k] \in DOMAIN units
  BY <1>8
<1>10. ordered' = [k \in 1 .. n |-> units[s[k]]]
  <2>1. DOMAIN s = 1 .. n
    BY <1>8
  <2> QED
    BY <1>1, <2>1 DEF Each
<1>11. Len(ordered') = n /\ DOMAIN ordered' = 1 .. n /\ \A k \in 1 .. n : ordered'[k] = units[s[k]]
  BY <1>3, <1>10
<1>12. ASSUME NEW x
       PROVE  Times(ordered', x) = Times(units, x)
  <2> DEFINE A == {k \in 1 .. n : units[s[k]] = x}
             B == {u \in DOMAIN units : units[u] = x}
             f == [k \in A |-> s[k]]
  <2>1. f \in [A -> B]
    BY <1>9
  <2>2. \A u \in B : \E k \in A : f[k] = u
    BY <1>8
  <2>3. ASSUME NEW k \in A, NEW l \in A, f[k] = f[l]
        PROVE  k = l
    <3>1. k \in 1 .. n /\ l \in 1 .. n /\ s[k] = s[l] /\ s[k] \in DOMAIN units
      BY <1>9, <2>3
    <3>2. ~(k < l) /\ ~(l < k)
      BY <1>6, <1>8, <3>1 DEF StrictOrder
    <3> QED
      BY <1>3, <3>1, <3>2
  <2>4. IsFiniteSet(A)
    <3>1. IsFiniteSet(1 .. n) /\ A \in SUBSET (1 .. n)
      BY <1>3, FS_Interval
    <3> HIDE DEF A
    <3> QED
      BY <3>1, FS_Subset
  <2>5. Times(ordered', x) = Cardinality(A)
    <3>1. {k \in DOMAIN ordered' : ordered'[k] = x} = A
      BY <1>11
    <3> HIDE DEF A
    <3> QED
      BY <3>1 DEF Times
  <2>6. Times(units, x) = Cardinality(B)
    BY DEF Times
  <2> HIDE DEF A, B, f
  <2>7. f \in Bijection(A, B)
    <3>1. \A k, l \in DOMAIN f : f[k] = f[l] => k = l
      BY <2>1, <2>3
    <3> QED
      BY <2>1, <2>2, <3>1 DEF Bijection, Injection, Surjection, IsInjective
  <2>8. Cardinality(B) = Cardinality(A)
    BY <2>4, <2>7, FS_Bijection DEF ExistsBijection
  <2> QED
    BY <2>5, <2>6, <2>8
<1>13. ASSUME NEW i \in 1 .. n, NEW j \in 1 .. n, i < j
       PROVE  /\ \/ ordered'[j].kind = "page_markdown"
                 \/ ordered'[i].kind # "page_markdown" /\ ordered'[i].top <= ordered'[j].top
              /\ Level(ordered'[i], ordered'[j]) =>
                   \E u, v \in DOMAIN units :
                     u < v /\ units[u] = ordered'[i] /\ units[v] = ordered'[j]
  <2> DEFINE u == s[i]
             v == s[j]
  <2>1. /\ u \in DOMAIN units /\ v \in DOMAIN units
        /\ ordered'[i] = units[u] /\ ordered'[j] = units[v]
    BY <1>9, <1>11
  <2>2. u \in ahead[v]
    BY <1>8, <1>13
  <2> HIDE DEF u, v
  <2>3. \/ Position(u) < Position(v)
        \/ Position(u) = Position(v) /\ u < v
    BY <1>7, <2>1, <2>2
  <2>4. \/ units[v].kind = "page_markdown"
        \/ units[u].kind # "page_markdown" /\ units[u].top <= units[v].top
    <3> SUFFICES ASSUME units[v].kind # "page_markdown"
                 PROVE  units[u].kind # "page_markdown" /\ units[u].top <= units[v].top
      OBVIOUS
    <3>1. Position(v) = units[v].top /\ Position(v) \in 0 .. 10
      BY <1>4, <2>1
    <3>2. Position(u) \in Int /\ Position(u) <= Position(v)
      BY <1>5, <2>1, <2>3, <3>1
    <3>3. Position(u) # 11
      BY <3>1, <3>2
    <3>4. units[u].kind # "page_markdown" /\ Position(u) = units[u].top
      BY <1>4, <2>1, <3>3
    <3> QED
      BY <3>1, <3>2, <3>4
  <2>5. Level(units[u], units[v]) => u < v
    <3>1. Level(units[u], units[v]) => Position(u) = Position(v)
      BY <2>1 DEF Position, Level
    <3> QED
      BY <1>5, <2>1, <2>3, <3>1
  <2> QED
    BY <2>1, <2>4, <2>5
<1>14. ASSUME NEW j \in 1 .. n, NEW k \in DOMAIN ordered'[j].sources
       PROVE  \E i \in 1 .. j - 1 : /\ ordered'[i].key = ordered'[j].sources[k]
                                     /\ ordered'[i].kind # "page_markdown"
  <2> DEFINE v == s[j]
             x == units[v]
  <2>1. v \in DOMAIN units /\ ordered'[j] = x
    BY <1>9, <1>11
  <2> HIDE DEF v
  <2>2. x.kind = "page_markdown" /\ Position(v) = 11
    <3>1. x \in PrintedUnits => x.sources = <<>>
      BY DEF PrintedUnits
    <3>2. x \notin PrintedUnits
      BY <1>14, <2>1, <3>1
    <3> QED
      BY <1>4, <2>1, <3>2
  <2>3. x \in Mapped
    BY <2>1, <2>2 DEF Mapped, ToSet
  <2>4. x.sources \in Seq(Owned)
    BY <1>2, <2>3 DEF Traced
  <2>5. x.sources[k] \in Owned
    BY <1>14, <2>1, <2>4
  <2>6. PICK u \in DOMAIN units : units[u].kind # "page_markdown" /\ units[u].key = x.sources[k]
    BY <2>5 DEF Owned, Citable
  <2>7. Position(u) \in 0 .. 10
    BY <1>4, <2>6
  <2>8. u \in ahead[v]
    BY <1>7, <2>1, <2>2, <2>7
  <2>9. PICK i \in 1 .. n : s[i] = u
    BY <1>8
  <2>10. i < j
    BY <1>8, <2>8, <2>9 DEF v
  <2>11. i \in 1 .. j - 1 /\ ordered'[i] = units[u]
    BY <1>3, <1>11, <2>9, <2>10
  <2> QED
    BY <2>1, <2>6, <2>11
<1>15. Len(ordered') = Len(units') /\ units' = units /\ \A x : (Times(ordered, x))' = (Times(units, x))'
  BY <1>1, <1>11, <1>12 DEF n, Times
<1> QED
  BY <1>11, <1>13, <1>14, <1>15 DEF StoredInReadingOrder, Level

LEMMA Starts == Init => IInv
<1> SUFFICES ASSUME Init PROVE IInv
  OBVIOUS
<1>1. page \in Pages /\ pc = "blocks" /\ units = <<>> /\ segment = 1
  BY DEF Init
<1>2. Mapped = {}
  BY <1>1 DEF Mapped, ToSet
<1>3. units \in Seq(AllUnits)
  BY <1>1
<1> QED
  BY <1>1, <1>2, <1>3 DEF IInv, Typed, Built, Numbered, Taken, StoredInReadingOrder

\* The units of the page depend on the page alone.
LEMMA OfPage ==
  ASSUME page' = page
  PROVE  NarrativeUnits' = NarrativeUnits /\ UnitsOfTables' = UnitsOfTables
<1>1. NarrativeUnits' = NarrativeUnits
  BY DEF NarrativeUnits, Each
<1>2. UnitsOfTables' = UnitsOfTables
  BY DEF UnitsOfTables, UsableTables, Each
<1> QED
  BY <1>1, <1>2

LEMMA Keeps == IInv /\ [Next]_vars => IInv'
<1> SUFFICES ASSUME IInv, [Next]_vars PROVE IInv'
  OBVIOUS
<1>1. /\ page \in Pages /\ units \in Seq(AllUnits) /\ segment \in Nat \ {0}
      /\ pc \in {"blocks", "tables", "images", "segment", "anchors", "cells", "stored", "failed"}
      /\ pc \in {"anchors", "cells"} => segment <= Len(Segments)
      /\ IsPage(page)
  BY PageGiven DEF IInv, Typed
<1>2. CASE ReadBlocks
  <2>1. /\ pc = "blocks" /\ page' = page /\ segment' = segment
        /\ \/ pc' = "failed" /\ units' = units
           \/ pc' = "tables" /\ units' = NarrativeUnits
    BY <1>2 DEF ReadBlocks, mapping
  <2>2. units = <<>>
    BY <2>1 DEF IInv, Built
  <2>3. NarrativeUnits' = NarrativeUnits
    BY <2>1, OfPage
  <2>4. units' \in Seq(PrintedUnits)
    <3>1. <<>> \in Seq(PrintedUnits)
      OBVIOUS
    <3> QED
      BY <1>1, <2>1, <2>2, <3>1, NarrativeList
  <2>5. Typed' /\ Built' /\ Taken' /\ pc' # "stored"
    <3>1. units' \in Seq(AllUnits)
      BY <2>4, PrintedAreUnits
    <3> QED
      BY <1>1, <2>1, <2>3, <3>1 DEF Typed, Built, Taken
  <2> QED
    BY <2>1, <2>4, <2>5, OwnUnits
<1>3. CASE ReadTables
  <2>1. /\ pc = "tables" /\ page' = page /\ segment' = segment /\ pc' = "images"
        /\ units' = units \o UnitsOfTables
    BY <1>3 DEF ReadTables, mapping
  <2>2. units' = NarrativeUnits \o UnitsOfTables
    BY <2>1 DEF IInv, Built
  <2>3. NarrativeUnits' = NarrativeUnits /\ UnitsOfTables' = UnitsOfTables
    BY <2>1, OfPage
  <2>4. units' \in Seq(PrintedUnits)
    BY <1>1, <2>2, NarrativeList, TablesList, Concatenated
  <2>5. Typed' /\ Built' /\ Taken' /\ pc' # "stored"
    <3>1. units' \in Seq(AllUnits)
      BY <2>4, PrintedAreUnits
    <3> QED
      BY <1>1, <2>1, <2>2, <2>3, <3>1 DEF Typed, Built, Taken
  <2> QED
    BY <2>1, <2>4, <2>5, OwnUnits
<1>4. CASE ReadImages
  <2>1. /\ pc = "images" /\ page' = page /\ segment' = segment /\ pc' = "segment"
        /\ units' = units \o VisualUnits
    BY <1>4 DEF ReadImages, mapping
  <2>2. units' = Printed
    BY <2>1 DEF IInv, Built, Printed
  <2>3. units' \in Seq(PrintedUnits)
    BY <1>1, <2>2, PrintedList
  <2>4. Typed' /\ Built' /\ Taken' /\ pc' # "stored"
    <3>1. units' \in Seq(AllUnits)
      BY <2>3, PrintedAreUnits
    <3> QED
      BY <1>1, <2>1, <3>1 DEF Typed, Built, Taken
  <2> QED
    BY <2>1, <2>3, <2>4, OwnUnits
<1>5. CASE StartSegment
  <2>1. /\ pc' = "anchors" /\ page' = page /\ segment' = segment /\ units' = units
        /\ segment <= Len(Segments) /\ left' = Anchors /\ placed' = {}
    BY <1>5 DEF StartSegment
  <2>2. Citable' = Citable
    BY <2>1 DEF Citable
  <2>3. Segments' = Segments /\ Anchors' = Anchors
    BY <2>1, <2>2, Settled
  <2>4. Taken'
    <3>1. IsFiniteSet({})
      BY FS_EmptySet
    <3> QED
      BY <2>1, <2>3, <3>1 DEF Taken, Apart
  <2>5. Typed' /\ StoredInReadingOrder'
    BY <1>1, <2>1, <2>3 DEF Typed, StoredInReadingOrder
  <2> QED
    BY <2>1, <2>4, <2>5, SameUnits
<1>6. CASE \E text \in left : PlaceAnchor(text)
  <2>1. PICK text \in left : PlaceAnchor(text)
    BY <1>6
  <2>2. /\ pc = "anchors" /\ page' = page /\ segment' = segment /\ units' = units
        /\ left' = left \ {text}
    BY <2>1 DEF PlaceAnchor
  <2>3. Citable' = Citable
    BY <2>2 DEF Citable
  <2>4. /\ Segments' = Segments /\ Anchors' = Anchors /\ Owned' = Owned
        /\ \A t, keys : (Spans(t, keys))' = Spans(t, keys)
    BY <2>2, <2>3, Settled
  <2>5. /\ left \subseteq Anchors
        /\ IsFiniteSet(placed) /\ placed \subseteq Spans(TextOf(Current), Owned) /\ Apart(placed)
    BY <2>2 DEF IInv, Taken
  <2>6. TextOf(Current) \in Texts /\ (TextOf(Current))' = TextOf(Current)
    <3>1. Current' = Current
      BY <2>2, <2>4 DEF Current
    <3> QED
      BY <2>2, <3>1, PageGiven
  <2> DEFINE free == Free(text, TextOf(Current))
             p == [from |-> Min(free), to |-> Min(free) + Len(text) - 1,
                   key |-> CHOOSE k \in Owners(text) : TRUE]
  <2>7. \/ pc' = "anchors" /\ placed' = placed
        \/ pc' = "cells" /\ placed' = placed
        \/ /\ free # {} /\ ~(Cardinality(Owners(text)) > 1)
           /\ pc' = "anchors" /\ placed' = placed \union {p}
    BY <2>1, <2>2 DEF PlaceAnchor
  <2>8. free # {} /\ ~(Cardinality(Owners(text)) > 1) =>
          /\ placed \union {p} \subseteq Spans(TextOf(Current), Owned)
          /\ Apart(placed \union {p}) /\ IsFiniteSet(placed \union {p})
    <3>1. text \in Anchors
      BY <2>1, <2>5
    <3> QED
      BY <1>1, <2>5, <2>6, <3>1, PlacedSpan
  <2> HIDE DEF free, p
  <2>9. Taken'
    BY <2>2, <2>4, <2>5, <2>6, <2>7, <2>8 DEF Taken, Apart
  <2>10. Typed' /\ StoredInReadingOrder' /\ pc' \in {"anchors", "cells"}
    BY <1>1, <2>2, <2>4, <2>7 DEF Typed, StoredInReadingOrder
  <2> QED
    BY <2>2, <2>9, <2>10, SameUnits
<1>7. CASE EndAnchors
  <2>1. pc = "anchors"
    BY <1>7 DEF EndAnchors
  <2>2. Current \in Lines
    BY <2>1, PageGiven
  <2>3. CASE Covered(TextOf(Current)) /\ EndSegment(KeysInOrder)
    <3>1. Traced(Current, KeysInOrder)
      BY <1>1, <2>1, <2>2, <2>3, CoveredIsTraced DEF IInv, Taken
    <3> QED
      BY <2>1, <2>3, <3>1, SegmentEnds
  <2>4. CASE pc' = "cells" /\ UNCHANGED <<page, units, skipped, mapping, ordered>>
    <3>1. page' = page /\ units' = units /\ segment' = segment
      BY <2>4 DEF mapping
    <3>2. Segments' = Segments
      BY <3>1 DEF Segments
    <3>3. Typed' /\ Taken' /\ StoredInReadingOrder'
      BY <1>1, <2>1, <2>4, <3>1, <3>2 DEF Typed, Taken, StoredInReadingOrder
    <3> QED
      BY <2>4, <3>1, <3>3, SameUnits
  <2> QED
    BY <1>7, <2>3, <2>4 DEF EndAnchors
<1>8. CASE MatchCells
  <2> DEFINE cells == CellsOf(Current)
             found == [k \in DOMAIN cells |-> Printing(cells[k])]
             complete == /\ Current.pipe
                         /\ \A k \in DOMAIN cells : Cardinality(Printing(cells[k])) = 1
  <2>1. pc = "cells" /\ EndSegment(IF complete THEN KeysOfCells(Current) ELSE <<>>)
    <3>1. [k \in DOMAIN cells |-> CHOOSE key \in found[k] : TRUE] =
            [k \in DOMAIN cells |-> CHOOSE key \in Printing(cells[k]) : TRUE]
      OBVIOUS
    <3>2. (\A k \in DOMAIN cells : Cardinality(found[k]) = 1) <=>
            \A k \in DOMAIN cells : Cardinality(Printing(cells[k])) = 1
      OBVIOUS
    <3> QED
      BY <1>8, <3>1, <3>2 DEF MatchCells, KeysOfCells, CellsOf
  <2>2. Current \in Lines
    BY <2>1, PageGiven
  <2>3. complete /\ KeysOfCells(Current) # <<>> => Traced(Current, KeysOfCells(Current))
    BY <1>1, <2>2, RowIsTraced
  <2> HIDE DEF complete
  <2> QED
    BY <2>1, <2>3, SegmentEnds
<1>9. CASE Order
  <2>1. pc = "segment" /\ pc' = "stored" /\ page' = page /\ units' = units /\ segment' = segment
    BY <1>9 DEF Order, mapping
  <2>2. Typed' /\ Taken'
    BY <1>1, <2>1 DEF Typed, Taken
  <2>3. StoredInReadingOrder'
    BY <1>9, OrderStores
  <2> QED
    BY <2>1, <2>2, <2>3, SameUnits
<1>10. CASE Finished \/ UNCHANGED vars
  <2>1. UNCHANGED vars
    BY <1>10 DEF Finished
  <2>2. page' = page /\ units' = units /\ pc' = pc /\ segment' = segment
    BY <2>1 DEF vars, mapping
  <2>3. left' = left /\ placed' = placed /\ ordered' = ordered
    BY <2>1 DEF vars, mapping
  <2>4. Citable' = Citable /\ Mapped' = Mapped
    BY <2>2 DEF Citable, Mapped
  <2>5. /\ Segments' = Segments /\ Anchors' = Anchors /\ Owned' = Owned
        /\ \A text, keys : (Spans(text, keys))' = Spans(text, keys)
        /\ \A line, keys : (Traced(line, keys))' <=> Traced(line, keys)
    BY <2>2, <2>4, Settled
  <2>6. NarrativeUnits' = NarrativeUnits /\ UnitsOfTables' = UnitsOfTables
    BY <2>2, OfPage
  <2>7. Typed' /\ Built' /\ Numbered'
    BY <2>2, <2>4, <2>5, <2>6 DEF IInv, Typed, Built, Numbered
  <2>8. Taken'
    BY <2>2, <2>3, <2>5 DEF IInv, Taken, Current, Apart
  <2>9. (\A u \in Mapped : Traced(SegmentOf(u), u.sources))'
    BY <2>4, <2>5 DEF IInv, SegmentOf
  <2>10. StoredInReadingOrder'
    BY <2>2, <2>3 DEF IInv, StoredInReadingOrder
  <2> QED
    BY <2>7, <2>8, <2>9, <2>10 DEF IInv
<1> QED
  BY <1>2, <1>3, <1>4, <1>5, <1>6, <1>7, <1>8, <1>9, <1>10 DEF Next

LEMMA Invariant == Spec => []IInv
BY Starts, Keeps, PTL DEF Spec
-----------------------------------------------------------------------------
(* What holds of every page.                                               *)

\* Markdown is indexed only where all of it was printed: as words of the units it
\* names, which no unit of another key shares, in the order it names them, or cell by cell
\* (anchor_segment, row_cell_sources).
THEOREM IndexedMarkdownIsPrinted == Spec => []MappedTextIsPrinted
<1>1. IInv => MappedTextIsPrinted
  BY DEF IInv, Traced, MappedTextIsPrinted
<1> QED
  BY <1>1, Invariant, PTL

\* No row at or above the rule of its table becomes evidence, where no other row
\* reads the same (_table_rows).
THEOREM HeadersAreNotOffered == Spec => []HeadersAreNotReadings
<1>1. IInv => HeadersAreNotReadings
  <2> SUFFICES ASSUME IInv, NEW u \in Mapped, SegmentOf(u).pipe
               PROVE  Reading(SegmentOf(u))
    BY DEF HeadersAreNotReadings, Reading
  <2>1. u \in GeneratedUnits
    BY UnitShapes DEF IInv, Typed
  <2>2. u.key[2] \in Nat \ {0} /\ u.key[2] <= Len(Segments)
    BY <2>1 DEF IInv, Numbered, GeneratedUnits
  <2>3. IsPage(page) /\ Segments \in Seq(Lines)
    BY PageGiven
  <2>4. SegmentOf(u) \in ToSet(Segments)
    BY <2>2, <2>3 DEF SegmentOf, ToSet
  <2> QED
    BY <2>3, <2>4, SegmentList
<1> QED
  BY <1>1, Invariant, PTL

\* Every unit is stored as often as it was built, down the page and in the order of the
\* artifacts where two are level, what was generated after all it was generated from
\* (_in_reading_order).
THEOREM StoredInOrder == Spec => []StoredInReadingOrder
<1>1. IInv => StoredInReadingOrder
  BY DEF IInv
<1> QED
  BY <1>1, Invariant, PTL

=============================================================================
