--------------------------- MODULE RetrievalProofs ---------------------------
(***************************************************************************)
(* Proofs about Retrieval: that generated Markdown takes no one's place,   *)
(* that two searches which agree outrank one, and that a value travels     *)
(* with its table row.                                                     *)
(***************************************************************************)
EXTENDS Retrieval, FiniteSetTheorems, TLAPS

-----------------------------------------------------------------------------
(* Sorting.                                                                *)

\* What a sort needs: nothing is ahead of itself, of two one is ahead of the
\* other, and what is ahead of something is ahead of all behind it.
StrictOrder(ahead) ==
  /\ IsFiniteSet(DOMAIN ahead)
  /\ ahead \in [DOMAIN ahead -> SUBSET DOMAIN ahead]
  /\ \A i \in DOMAIN ahead : i \notin ahead[i]
  /\ \A i, j \in DOMAIN ahead : i # j => i \in ahead[j] \/ j \in ahead[i]
  /\ \A i, j, k \in DOMAIN ahead : i \in ahead[j] /\ j \in ahead[k] => i \in ahead[k]

\* The further back, the more is ahead.
LEMMA RankGrows ==
  ASSUME NEW ahead, StrictOrder(ahead)
  PROVE  /\ \A i \in DOMAIN ahead :
              /\ IsFiniteSet(ahead[i])
              /\ Cardinality(ahead[i]) \in 0 .. Cardinality(DOMAIN ahead) - 1
         /\ \A i, j \in DOMAIN ahead :
              i \in ahead[j] => Cardinality(ahead[i]) < Cardinality(ahead[j])
<1> DEFINE S == DOMAIN ahead
<1>1. IsFiniteSet(S) /\ \A i \in S : ahead[i] \in SUBSET S
  BY DEF StrictOrder
<1>2. \A i \in S : IsFiniteSet(ahead[i])
  BY <1>1, FS_Subset
<1>3. ASSUME NEW i \in S, NEW T \in SUBSET S, ahead[i] \subseteq T, i \in T, IsFiniteSet(T)
      PROVE  Cardinality(ahead[i]) < Cardinality(T)
  <2>1. Cardinality(ahead[i]) \in Nat /\ Cardinality(T) \in Nat
    BY <1>2, <1>3, FS_CardinalityType
  <2>2. i \notin ahead[i]
    BY DEF StrictOrder
  <2>3. Cardinality(ahead[i]) <= Cardinality(T)
    BY <1>3, FS_Subset
  <2>4. Cardinality(ahead[i]) # Cardinality(T)
    BY <1>3, <2>2, FS_Subset
  <2> QED
    BY <2>1, <2>3, <2>4
<1>4. ASSUME NEW i \in S
      PROVE  Cardinality(ahead[i]) \in 0 .. Cardinality(S) - 1
  <2>1. Cardinality(ahead[i]) < Cardinality(S)
    BY <1>1, <1>3
  <2>2. Cardinality(ahead[i]) \in Nat /\ Cardinality(S) \in Nat
    BY <1>1, <1>2, FS_CardinalityType
  <2> QED
    BY <2>1, <2>2
<1>5. ASSUME NEW i \in S, NEW j \in S, i \in ahead[j]
      PROVE  Cardinality(ahead[i]) < Cardinality(ahead[j])
  <2>1. ahead[i] \subseteq ahead[j]
    BY <1>1, <1>5 DEF StrictOrder
  <2> QED
    BY <1>1, <1>2, <1>3, <1>5, <2>1
<1> QED
  BY <1>2, <1>4, <1>5

\* A list of everything once, and what is ahead first.
Sorts(s, ahead) ==
  LET n == Cardinality(DOMAIN ahead)
  IN  /\ n \in Nat
      /\ s \in [1 .. n -> DOMAIN ahead]
      /\ \A i \in DOMAIN ahead : \E k \in 1 .. n : s[k] = i
      /\ \A k, l \in 1 .. n : k < l <=> s[k] \in ahead[s[l]]

LEMMA OrderedSorts ==
  ASSUME NEW ahead, StrictOrder(ahead)
  PROVE  Sorts(Ordered(ahead), ahead)
<1> DEFINE S == DOMAIN ahead
           n == Cardinality(S)
           s == Ordered(ahead)
           rank == [i \in S |-> Cardinality(ahead[i]) + 1]
<1>1. n \in Nat /\ IsFiniteSet(S)
  BY FS_CardinalityType DEF StrictOrder
<1>2. rank \in Injection(S, 1 .. n)
  <2>1. rank \in [S -> 1 .. n]
    BY <1>1, RankGrows
  <2>2. ASSUME NEW i \in S, NEW j \in S, i # j
        PROVE  rank[i] # rank[j]
    <3>1. Cardinality(ahead[i]) \in Nat /\ Cardinality(ahead[j]) \in Nat
      BY RankGrows, FS_CardinalityType
    <3>2. Cardinality(ahead[i]) < Cardinality(ahead[j]) \/ Cardinality(ahead[j]) < Cardinality(ahead[i])
      BY <2>2, RankGrows DEF StrictOrder
    <3> QED
      BY <3>1, <3>2
  <2> QED
    BY <2>1, <2>2 DEF Injection, IsInjective
<1>3. rank \in Surjection(S, 1 .. n)
  <2>1. IsFiniteSet(1 .. n) /\ Cardinality(1 .. n) = n
    BY <1>1, FS_Interval
  <2> QED
    BY <1>2, <2>1, FS_Injection
<1>4. ASSUME NEW k \in 1 .. n
      PROVE  s[k] \in S /\ Cardinality(ahead[s[k]]) = k - 1
  <2>1. PICK i \in S : rank[i] = k
    BY <1>3 DEF Surjection
  <2>2. Cardinality(ahead[i]) = k - 1
    BY <2>1, <1>1, RankGrows, FS_CardinalityType
  <2>3. s[k] = CHOOSE j \in S : Cardinality(ahead[j]) = k - 1
    BY DEF Ordered
  <2> QED
    BY <2>2, <2>3
<1>5. s \in [1 .. n -> S]
  BY <1>4 DEF Ordered
<1>6. ASSUME NEW i \in S
      PROVE  \E k \in 1 .. n : s[k] = i
  <2> DEFINE k == rank[i]
  <2>1. k \in 1 .. n /\ Cardinality(ahead[i]) = k - 1
    BY <1>2, RankGrows, FS_CardinalityType DEF Injection
  <2>2. s[k] \in S /\ Cardinality(ahead[s[k]]) = k - 1
    BY <1>4, <2>1
  <2>3. rank[s[k]] = rank[i]
    BY <2>1, <2>2
  <2>4. s[k] = i
    BY <1>2, <2>2, <2>3 DEF Injection, IsInjective
  <2> QED
    BY <2>1, <2>4
<1>7. ASSUME NEW k \in 1 .. n, NEW l \in 1 .. n
      PROVE  k < l <=> s[k] \in ahead[s[l]]
  <2>1. /\ s[k] \in S /\ Cardinality(ahead[s[k]]) = k - 1
        /\ s[l] \in S /\ Cardinality(ahead[s[l]]) = l - 1
    BY <1>4
  <2>2. s[k] \in ahead[s[l]] => k < l
    <3>1. s[k] \in ahead[s[l]] => Cardinality(ahead[s[k]]) < Cardinality(ahead[s[l]])
      BY <2>1, RankGrows
    <3> QED
      BY <3>1, <2>1, <1>1
  <2>3. s[l] \in ahead[s[k]] => l < k
    <3>1. s[l] \in ahead[s[k]] => Cardinality(ahead[s[l]]) < Cardinality(ahead[s[k]])
      BY <2>1, RankGrows
    <3> QED
      BY <3>1, <2>1, <1>1
  <2>4. k # l => s[k] # s[l]
    BY <2>1, <1>1
  <2>5. s[k] # s[l] => s[k] \in ahead[s[l]] \/ s[l] \in ahead[s[k]]
    BY <2>1 DEF StrictOrder
  <2> QED
    BY <2>2, <2>3, <2>4, <2>5, <1>1
<1> QED
  BY <1>1, <1>5, <1>6, <1>7 DEF Sorts

\* A sorted list is a list without repetition.
LEMMA SortedList ==
  ASSUME NEW s, NEW ahead, Sorts(s, ahead), NEW S, DOMAIN ahead = S, StrictOrder(ahead)
  PROVE  /\ s \in Seq(S) /\ Len(s) = Cardinality(S) /\ ToSet(s) = S
         /\ \A k, l \in 1 .. Len(s) : s[k] = s[l] => k = l
<1> DEFINE n == Cardinality(S)
<1>1. n \in Nat /\ s \in [1 .. n -> S] /\ \A i \in S : \E k \in 1 .. n : s[k] = i
  BY DEF Sorts
<1>2. s \in Seq(S) /\ Len(s) = n
  BY <1>1
<1>3. ToSet(s) = S
  BY <1>1 DEF ToSet
<1>4. ASSUME NEW k \in 1 .. n, NEW l \in 1 .. n, s[k] = s[l]
      PROVE  k = l
  <2>1. ~(k < l) /\ ~(l < k)
    BY <1>1, <1>4 DEF Sorts, StrictOrder
  <2> QED
    BY <2>1, <1>1
<1> QED
  BY <1>1, <1>2, <1>3, <1>4

-----------------------------------------------------------------------------
(* Cutting and filtering.                                                  *)

LEMMA MinOfTwo ==
  ASSUME NEW a \in Int, NEW b \in Int
  PROVE  Min({a, b}) = IF a <= b THEN a ELSE b
  BY DEF Min

\* The first of a list.
LEMMA FirstOfList ==
  ASSUME NEW S, NEW s \in Seq(S), NEW n \in Nat
  PROVE  /\ First(n, s) \in Seq(S)
         /\ Len(First(n, s)) = IF n <= Len(s) THEN n ELSE Len(s)
         /\ \A k \in 1 .. Len(First(n, s)) : First(n, s)[k] = s[k]
         /\ Len(s) <= n => First(n, s) = s
<1>1. Len(s) \in Nat /\ Min({n, Len(s)}) = IF n <= Len(s) THEN n ELSE Len(s)
  BY MinOfTwo
<1> DEFINE m == Min({n, Len(s)})
<1>2. m \in 0 .. Len(s)
  BY <1>1
<1>3. First(n, s) = SubSeq(s, 1, m)
  BY DEF First
<1> HIDE DEF m
<1>4. SubSeq(s, 1, m) \in Seq(S) /\ Len(SubSeq(s, 1, m)) = m
  BY <1>2
<1>5. \A k \in 1 .. m : SubSeq(s, 1, m)[k] = s[k]
  BY <1>2
<1>6. m = Len(s) => SubSeq(s, 1, m) = s
  BY <1>4, <1>5
<1>7. m = IF n <= Len(s) THEN n ELSE Len(s)
  BY <1>1 DEF m
<1>8. Len(s) <= n => m = Len(s)
  BY <1>1, <1>7
<1> QED
  BY <1>3, <1>4, <1>5, <1>6, <1>7, <1>8, Zenon

\* Positions of a list, in their order.
Earlier(places) == [k \in places |-> {l \in places : l < k}]

LEMMA PlacesInOrder ==
  ASSUME NEW places, IsFiniteSet(places), places \subseteq Nat
  PROVE  StrictOrder(Earlier(places)) /\ DOMAIN Earlier(places) = places
  BY DEF StrictOrder, Earlier

\* A nonempty finite set of naturals has a least element, the first when sorted.
LEMMA LeastPlace ==
  ASSUME NEW T, IsFiniteSet(T), T \subseteq Nat, T # {}
  PROVE  \E n \in T : \A m \in T : n <= m
<1> DEFINE s == Ordered(Earlier(T))
           size == Cardinality(T)
<1>1. /\ size \in Nat /\ s \in [1 .. size -> T]
      /\ \A i \in T : \E k \in 1 .. size : s[k] = i
      /\ \A k, l \in 1 .. size : k < l <=> s[k] \in Earlier(T)[s[l]]
  BY PlacesInOrder, OrderedSorts DEF Sorts
<1> HIDE DEF s, size
<1>2. 1 \in 1 .. size
  <2>1. PICK m \in T : TRUE
    OBVIOUS
  <2>2. PICK k \in 1 .. size : s[k] = m
    BY <1>1
  <2>3. size \in Nat
    BY <1>1
  <2> QED
    BY <2>2, <2>3
<1>3. ASSUME NEW m \in T
      PROVE  s[1] <= m
  <2>1. PICK k \in 1 .. size : s[k] = m
    BY <1>1
  <2>2. CASE k = 1
    BY <2>1, <2>2, <1>3
  <2>3. CASE k # 1
    <3>1. s[1] \in Earlier(T)[m]
      BY <2>1, <2>3, <1>1, <1>2
    <3>2. s[1] \in Nat /\ m \in Nat
      BY <1>1, <1>2, <1>3
    <3>3. s[1] < m
      BY <3>1, <1>3 DEF Earlier
    <3> QED
      BY <3>2, <3>3
  <2> QED
    BY <2>2, <2>3
<1> QED
  BY <1>1, <1>2, <1>3

\* What a list has of a set: as long as the list at most, of its elements, without
\* repetition if it has none.
LEMMA OnlyOfList ==
  ASSUME NEW S, NEW s \in Seq(S), NEW T
  PROVE  /\ Only(s, T) \in Seq(S) /\ Len(Only(s, T)) <= Len(s)
         /\ ToSet(Only(s, T)) = ToSet(s) \cap T
         /\ (\A k, l \in 1 .. Len(s) : s[k] = s[l] => k = l) =>
              \A k, l \in 1 .. Len(Only(s, T)) : Only(s, T)[k] = Only(s, T)[l] => k = l
<1> DEFINE places == {k \in DOMAIN s : s[k] \in T}
           kept == Ordered(Earlier(places))
<1>1. Len(s) \in Nat /\ DOMAIN s = 1 .. Len(s) /\ \A k \in 1 .. Len(s) : s[k] \in S
  OBVIOUS
<1>2. IsFiniteSet(places) /\ places \subseteq Nat /\ Cardinality(places) <= Len(s)
  <2>1. places \in SUBSET (1 .. Len(s))
    BY <1>1
  <2> DEFINE n == Len(s)
  <2>2. IsFiniteSet(1 .. n) /\ Cardinality(1 .. n) = n
    <3> n \in Nat
      BY <1>1
    <3> HIDE DEF n
    <3> QED
      BY FS_Interval
  <2> QED
    BY <2>1, <2>2, <1>1, FS_Subset
<1>3. /\ kept \in Seq(places) /\ Len(kept) = Cardinality(places) /\ ToSet(kept) = places
      /\ \A k, l \in 1 .. Len(kept) : kept[k] = kept[l] => k = l
  BY <1>2, PlacesInOrder, OrderedSorts, SortedList
<1>4. Only(s, T) = [n \in DOMAIN kept |-> s[kept[n]]]
  BY DEF Only, At, Ascending, Earlier
<1> HIDE DEF kept
<1>5. Len(kept) \in Nat /\ DOMAIN kept = 1 .. Len(kept) /\ \A n \in 1 .. Len(kept) : kept[n] \in places
  <2> HIDE DEF places
  <2>1. kept \in Seq(places)
    BY <1>3
  <2> QED
    BY <2>1
<1>6. Only(s, T) \in [1 .. Len(kept) -> S]
  BY <1>1, <1>4, <1>5
<1>7. Only(s, T) \in Seq(S) /\ Len(Only(s, T)) = Len(kept)
  BY <1>5, <1>6
<1>8. ToSet(Only(s, T)) = ToSet(s) \cap T
  <2>1. ToSet(Only(s, T)) \subseteq ToSet(s) \cap T
    BY <1>1, <1>4, <1>5 DEF ToSet
  <2>2. ASSUME NEW x \in ToSet(s) \cap T
        PROVE  x \in ToSet(Only(s, T))
    <3>1. PICK k \in places : s[k] = x
      BY <2>2 DEF ToSet
    <3>2. PICK n \in DOMAIN kept : kept[n] = k
      BY <3>1, <1>3 DEF ToSet
    <3> QED
      BY <3>1, <3>2, <1>4 DEF ToSet
  <2> QED
    BY <2>1, <2>2
<1>9. ASSUME \A k, l \in 1 .. Len(s) : s[k] = s[l] => k = l,
             NEW k \in 1 .. Len(kept), NEW l \in 1 .. Len(kept), Only(s, T)[k] = Only(s, T)[l]
      PROVE  k = l
  <2>1. s[kept[k]] = s[kept[l]]
    BY <1>4, <1>5, <1>9
  <2>2. kept[k] \in 1 .. Len(s) /\ kept[l] \in 1 .. Len(s)
    BY <1>1, <1>5
  <2> QED
    BY <1>3, <1>9, <2>1, <2>2
<1> QED
  BY <1>2, <1>3, <1>7, <1>8, <1>9

-----------------------------------------------------------------------------
(* What a retrieval has at each moment.                                    *)

Entries == [id : DOMAIN index, score : Nat]

\* What the searches found, and what is ranked of it.  The version that answers only
\* goes up, so no row was found of one that does not answer yet.
Searched ==
  /\ index \in Indexes /\ serving \in {1, 2} /\ pass \in {"direct", "mapped"}
  /\ matched \in [Channels -> Seq(DOMAIN index)]
  /\ ranked = [c \in Channels |-> Ranked(matched[c])]
  /\ \A c \in Channels : \A i \in ToSet(matched[c]) : index[i].version <= serving

\* The citable rows of the table row of i.
TableRow(i) ==
  {j \in Ready \ {i} : /\ index[j].page = index[i].page
                       /\ index[j].kind # "markdown" /\ SharesContext(i, j)}

WholeRow(i) ==
  index[i].version = serving /\ Cardinality(TableRow(i)) <= Near => TableRow(i) \subseteq Ids(candidates)

Seeds == Min({Top, Len(Kept(ranked))})

\* The kept candidates come first, nothing comes twice, and those expanded have
\* their rows.
Listed ==
  /\ seed \in 1 .. Seeds + 1
  /\ candidates \in Seq(Entries)
  /\ Len(Kept(ranked)) <= Len(candidates)
  /\ \A k \in 1 .. Len(Kept(ranked)) : candidates[k] = Kept(ranked)[k]
  /\ \A k, l \in 1 .. Len(candidates) : candidates[k].id = candidates[l].id => k = l
  /\ \A k \in 1 .. seed - 1 : WholeRow(candidates[k].id)
  /\ pass = "mapped" => candidates = Kept(ranked)

Expanded ==
  /\ pc \in {"graph", "lexical", "vector", "fuse", "expand", "done"}
  /\ Merging => Listed
  /\ ~Merging => seed = 1
  /\ pc = "expand" => pass = "direct"
  /\ pc = "done" /\ pass = "direct" => seed = Seeds + 1

Inductive == Searched /\ Expanded

-----------------------------------------------------------------------------
(* The index and its searches.                                             *)

\* Row i of an index.
LEMMA IndexShape ==
  ASSUME index \in Indexes
  PROVE  /\ DOMAIN index \subseteq Nat /\ IsFiniteSet(DOMAIN index)
         /\ \A i \in DOMAIN index : index[i] \in Rows
<1>1. index \in Seq(ToSet(index)) /\ ToSet(index) \subseteq Rows
  BY ConstantsAssumption
<1>2. DOMAIN index = 1 .. Len(index) /\ Len(index) \in Nat
  BY <1>1
<1>3. \A i \in DOMAIN index : index[i] \in ToSet(index)
  BY DEF ToSet
<1> DEFINE n == Len(index)
<1>4. IsFiniteSet(1 .. n)
  <2> n \in Nat
    BY <1>2
  <2> HIDE DEF n
  <2> QED
    BY FS_Interval
<1> QED
  BY <1>1, <1>2, <1>3, <1>4

\* What a row scores is a number.
LEMMA RowNumbers ==
  ASSUME index \in Indexes, NEW i \in DOMAIN index
  PROVE  /\ \A c \in Channels : index[i][c] \in Nat
         /\ index[i].page \in Nat /\ index[i].order \in 0 .. Unordered
         /\ index[i].hits \in Nat /\ index[i].version \in {1, 2}
         /\ i \in Nat
  BY IndexShape DEF Rows, Channels

LEMMA MatchesFinite ==
  ASSUME index \in Indexes, NEW c
  PROVE  IsFiniteSet(Matches(c)) /\ Matches(c) \subseteq DOMAIN index
<1>1. Matches(c) \in SUBSET DOMAIN index
  BY DEF Matches, Ready
<1> QED
  BY <1>1, IndexShape, FS_Subset

\* A search returns rows that match.
LEMMA SortedMatches ==
  ASSUME index \in Indexes, NEW c \in Channels
  PROVE  Sorted(c) \in Seq(Matches(c))
<1> DEFINE ahead == [i \in Matches(c) |-> {j \in Matches(c) : Better(c, j, i)}]
<1>1. \A i \in Matches(c) : i \in Nat /\ index[i][c] \in Nat
  BY MatchesFinite, RowNumbers
<1>2. StrictOrder(ahead)
  <2>1. /\ \A i \in Matches(c) : ~Better(c, i, i)
        /\ \A i, j \in Matches(c) : i # j => Better(c, i, j) \/ Better(c, j, i)
        /\ \A i, j, k \in Matches(c) : Better(c, i, j) /\ Better(c, j, k) => Better(c, i, k)
    BY <1>1 DEF Better
  <2> QED
    BY <2>1, MatchesFinite DEF StrictOrder
<1>3. Ordered(ahead) \in Seq(Matches(c))
  <2>1. DOMAIN ahead = Matches(c)
    OBVIOUS
  <2> HIDE DEF ahead
  <2> QED
    BY <1>2, <2>1, OrderedSorts, SortedList
<1> QED
  BY <1>3 DEF Sorted

LEMMA NearestMatches ==
  ASSUME index \in Indexes, NEW c \in Channels, NEW found \in SUBSET Matches(c),
         NEW answer \in NearestFirst(c, found)
  PROVE  answer \in Seq(Matches(c))
<1>1. Cardinality(found) \in Nat
  BY MatchesFinite, FS_Subset, FS_CardinalityType
<1>2. answer \in [1 .. Cardinality(found) -> found]
  BY DEF NearestFirst, SetToSeqs
<1> QED
  BY <1>1, <1>2

\* What is ranked of an answer.
LEMMA RankedOfAnswer ==
  ASSUME NEW answer \in Seq(DOMAIN index)
  PROVE  /\ Ranked(answer) \in Seq(DOMAIN index) /\ Len(Ranked(answer)) <= Pool
         /\ ToSet(Ranked(answer)) \subseteq ToSet(answer)
         /\ Len(answer) <= Pool => Ranked(answer) = Only(answer, Admitted)
<1> DEFINE top == First(Pool, answer)
<1>1. Pool \in Nat
  BY ConstantsAssumption
<1>2. /\ top \in Seq(DOMAIN index) /\ Len(top) <= Pool /\ Len(top) <= Len(answer)
      /\ \A k \in 1 .. Len(top) : top[k] = answer[k]
      /\ Len(answer) <= Pool => top = answer
  <2>1. Len(answer) \in Nat
    OBVIOUS
  <2> QED
    BY <1>1, <2>1, FirstOfList
<1>3. ToSet(top) \subseteq ToSet(answer)
  <2>1. Len(answer) \in Nat /\ DOMAIN answer = 1 .. Len(answer)
    OBVIOUS
  <2>2. Len(top) \in Nat /\ DOMAIN top = 1 .. Len(top)
    BY <1>2
  <2> QED
    BY <1>2, <2>1, <2>2 DEF ToSet
<1>4. Ranked(answer) = Only(top, Admitted)
  BY DEF Ranked
<1> HIDE DEF top
<1>5. /\ Only(top, Admitted) \in Seq(DOMAIN index) /\ Len(Only(top, Admitted)) <= Len(top)
      /\ ToSet(Only(top, Admitted)) \subseteq ToSet(top)
  BY <1>2, OnlyOfList
<1>6. Len(Only(top, Admitted)) <= Pool
  BY <1>1, <1>2, <1>5
<1> QED
  BY <1>2, <1>3, <1>4, <1>5, <1>6

LEMMA NothingRanked == Ranked(<<>>) = <<>>
<1>1. <<>> \in Seq(DOMAIN index) /\ ToSet(<<>>) = {}
  BY DEF ToSet
<1>2. Ranked(<<>>) \in Seq(DOMAIN index) /\ ToSet(Ranked(<<>>)) = {}
  BY <1>1, RankedOfAnswer
<1> DEFINE r == Ranked(<<>>)
<1> HIDE DEF r
<1>3. DOMAIN r = {}
  BY <1>2 DEF ToSet, r
<1> QED
  BY <1>2, <1>3 DEF r

-----------------------------------------------------------------------------
(* Fusion.                                                                 *)

LEMMA Quotient ==
  ASSUME NEW a \in Nat, NEW b \in Nat \ {0}
  PROVE  a \div b \in Nat
  OBVIOUS

\* The first place of a row in a list.
LEMMA PlaceInList ==
  ASSUME NEW S, NEW list \in Seq(S), NEW i \in ToSet(list)
  PROVE  Min({k \in DOMAIN list : list[k] = i}) \in 1 .. Len(list)
<1> DEFINE T == {k \in DOMAIN list : list[k] = i}
<1>1. T \subseteq 1 .. Len(list) /\ Len(list) \in Nat
  OBVIOUS
<1>2. T # {}
  BY DEF ToSet
<1>3. \E n \in T : \A m \in T : n <= m
  <2> DEFINE size == Len(list)
  <2>1. T \in SUBSET (1 .. size) /\ size \in Nat
    BY <1>1
  <2> HIDE DEF T, size
  <2>2. IsFiniteSet(T) /\ T \subseteq Nat
    <3>1. IsFiniteSet(1 .. size)
      BY <2>1, FS_Interval
    <3>2. IsFiniteSet(T)
      BY <3>1, <2>1, FS_Subset
    <3>3. T \subseteq Nat
      BY <2>1
    <3> QED
      BY <3>2, <3>3
  <2> QED
    BY <1>2, <2>2, LeastPlace
<1> QED
  BY <1>1, <1>3 DEF Min

\* A multiple of b is b times its quotient.
LEMMA EvenShare ==
  ASSUME NEW a \in Nat, NEW b \in Nat \ {0}, a % (4 * b) = 0
  PROVE  (a \div b) * b = a
<1> DEFINE c == 4 * b
           q == a \div c
           d == a \div b
           m == a % b
<1>1. c \in Nat \ {0} /\ c = b * 4
  OBVIOUS
<1>2. q \in Nat /\ a = c * q
  <2>1. a % c = 0
    OBVIOUS
  <2> HIDE DEF c
  <2> QED
    BY <1>1, <2>1
<1>3. d \in Nat /\ m \in 0 .. b - 1 /\ a = b * d + m
  OBVIOUS
<1> HIDE DEF c, q, d, m
<1>4. c * q = b * (4 * q)
  BY <1>1, <1>2
<1>5. m = (4 * q - d) * b
  BY <1>2, <1>3, <1>4
<1>6. ~(4 * q - d >= 1)
  <2>1. SUFFICES ASSUME 4 * q - d >= 1 PROVE FALSE
    OBVIOUS
  <2>2. (4 * q - d) * b >= b
    BY <1>2, <1>3, <2>1
  <2> QED
    BY <1>3, <1>5, <2>2
<1>7. ~(4 * q - d <= -1)
  <2>1. SUFFICES ASSUME 4 * q - d <= -1 PROVE FALSE
    OBVIOUS
  <2>2. (4 * q - d) * b < 0
    BY <1>2, <1>3, <2>1
  <2> QED
    BY <1>3, <1>5, <2>2
<1>8. 4 * q - d = 0
  BY <1>2, <1>3, <1>6, <1>7
<1>9. m = 0
  BY <1>3, <1>5, <1>8
<1> QED
  BY <1>3, <1>9 DEF d

\* What a rank of the pool is worth, without remainder.
LEMMA ShareExact ==
  ASSUME NEW p \in 1 .. Pool
  PROVE  Share(p) \in Nat \ {0} /\ Share(p) * (RRFK + p) = Scale
<1>1. RRFK \in Nat \ {0} /\ Pool \in Nat /\ Scale \in Nat \ {0}
  BY ConstantsAssumption
<1>2. Scale % (4 * (RRFK + p)) = 0
  BY ConstantsAssumption
<1>3. RRFK + p \in Nat \ {0}
  BY <1>1
<1>4. Share(p) * (RRFK + p) = Scale
  BY <1>1, <1>2, <1>3, EvenShare DEF Share
<1>5. Share(p) \in Nat
  BY <1>1, <1>3, Quotient DEF Share
<1> QED
  BY <1>1, <1>3, <1>4, <1>5

\* Two ranks, however low, are worth more than one, however high, in a pool no larger
\* than RRF_K + 1.
LEMMA TwoSharesOutweighOne ==
  ASSUME Pool <= RRFK + 1, NEW a \in 1 .. Pool, NEW b \in 1 .. Pool, NEW c \in 1 .. Pool
  PROVE  Share(a) + Share(b) > Share(c)
<1>1. RRFK \in Nat \ {0} /\ Pool \in Nat /\ Scale \in Nat \ {0}
  BY ConstantsAssumption
<1>2. ASSUME NEW p \in 1 .. Pool
      PROVE  2 * Share(p) > Share(c)
  <2> DEFINE s == Share(p)
             t == Share(c)
             m == RRFK + 1
  <2>1. s \in Nat \ {0} /\ s * (RRFK + p) = Scale /\ t \in Nat \ {0} /\ t * (RRFK + c) = Scale
    BY ShareExact
  <2>2. m \in Nat \ {0} /\ RRFK + p <= 2 * m - 1 /\ RRFK + c >= m /\ RRFK + p \in Nat /\ RRFK + c \in Nat
    BY <1>1
  <2> HIDE DEF s, t, m
  <2>3. s * (RRFK + p) <= s * (2 * m - 1)
    BY <1>1, <2>1, <2>2
  <2>4. t * m <= t * (RRFK + c)
    BY <1>1, <2>1, <2>2
  <2>5. t * m <= s * (2 * m - 1)
    BY <1>1, <2>1, <2>2, <2>3, <2>4
  <2>6. s * (2 * m - 1) = (2 * s) * m - s
    BY <2>1, <2>2
  <2>7. t * m < (2 * s) * m
    BY <2>1, <2>2, <2>5, <2>6
  <2>8. ~(2 * s <= t)
    <3>1. SUFFICES ASSUME 2 * s <= t PROVE FALSE
      OBVIOUS
    <3>2. (2 * s) * m <= t * m
      BY <2>1, <2>2, <3>1
    <3> QED
      BY <2>1, <2>2, <2>7, <3>2
  <2> QED
    BY <2>1, <2>8 DEF s, t
<1>3. Share(a) \in Nat /\ Share(b) \in Nat /\ Share(c) \in Nat
  BY ShareExact
<1> QED
  BY <1>2, <1>3

\* What fusion adds up is a number.
LEMMA WorthNatural ==
  ASSUME NEW S, NEW list \in Seq(S), NEW i
  PROVE  Worth(list, i) \in Nat
<1>1. RRFK \in Nat \ {0} /\ Scale \in Nat
  BY ConstantsAssumption
<1>2. CASE i \notin ToSet(list)
  BY <1>2 DEF Worth
<1>3. CASE i \in ToSet(list)
  <2> DEFINE p == Min({k \in DOMAIN list : list[k] = i})
  <2>1. p \in Nat
    <3>1. p \in 1 .. Len(list)
      BY <1>3, PlaceInList
    <3> QED
      BY <3>1
  <2>2. Worth(list, i) = Scale \div (RRFK + p)
    BY <1>3 DEF Worth, Share
  <2> HIDE DEF p
  <2> QED
    BY <1>1, <2>1, <2>2, Quotient
<1> QED
  BY <1>2, <1>3

LEMMA BonusNatural ==
  ASSUME index \in Indexes, NEW i \in DOMAIN index
  PROVE  Bonus(i) \in Nat
<1>1. RRFK \in Nat \ {0} /\ Scale \in Nat /\ Tokens \in Nat \ {0} /\ index[i].hits \in Nat
  BY RowNumbers, ConstantsAssumption
<1> DEFINE a == Scale * index[i].hits
           b == RRFK * Tokens
<1>2. a \in Nat /\ b \in Nat \ {0} /\ 2 * RRFK \in Nat \ {0}
  BY <1>1
<1>3. Scale \div (2 * RRFK) \in Nat
  BY <1>1, <1>2, Quotient
<1> HIDE DEF a, b
<1>4. a \div b \in Nat
  BY <1>2, Quotient
<1> QED
  BY <1>3, <1>4 DEF Bonus, a, b

LEMMA ScoreNatural ==
  ASSUME index \in Indexes, NEW lists \in [Channels -> Seq(DOMAIN index)], NEW i \in DOMAIN index
  PROVE  Score(lists, i) \in Nat
<1>1. \A c \in Channels : Worth(lists[c], i) \in Nat
  BY WorthNatural
<1>2. Worth(lists["graph"], i) \in Nat /\ Worth(lists["lexical"], i) \in Nat /\ Worth(lists["vector"], i) \in Nat
  BY <1>1 DEF Channels
<1> QED
  BY <1>2, BonusNatural DEF Score

\* The rows fusion merges, and which of them come before another.
Merges(lists) == UNION {ToSet(lists[c]) : c \in Channels}
Leads(lists, i) ==
  {j \in Merges(lists) :
     \/ Score(lists, j) > Score(lists, i)
     \/ Score(lists, j) = Score(lists, i) /\ EarlierInDocument(j, i)}

LEMMA MergesFinite ==
  ASSUME index \in Indexes, NEW lists \in [Channels -> Seq(DOMAIN index)]
  PROVE  Merges(lists) \subseteq DOMAIN index /\ IsFiniteSet(Merges(lists))
<1>1. ASSUME NEW c \in Channels
      PROVE  ToSet(lists[c]) \subseteq DOMAIN index
  BY DEF ToSet
<1>2. Merges(lists) \in SUBSET DOMAIN index
  BY <1>1 DEF Merges
<1> QED
  BY <1>2, IndexShape, FS_Subset

LEMMA LeadsOrder ==
  ASSUME index \in Indexes, NEW lists \in [Channels -> Seq(DOMAIN index)]
  PROVE  StrictOrder([i \in Merges(lists) |-> Leads(lists, i)])
<1> DEFINE S == Merges(lists)
           score == [i \in S |-> Score(lists, i)]
           leads(j, i) == score[j] > score[i] \/ (score[j] = score[i] /\ EarlierInDocument(j, i))
<1>1. S \subseteq DOMAIN index /\ IsFiniteSet(S)
  BY MergesFinite
<1>2. \A i \in S : score[i] \in Nat /\ i \in Nat /\ index[i].page \in Nat /\ index[i].order \in Nat
  <2>1. \A i \in S : i \in Nat /\ index[i].page \in Nat /\ index[i].order \in 0 .. Unordered
    BY <1>1, RowNumbers
  <2>2. \A i \in S : score[i] \in Nat
    BY <1>1, ScoreNatural
  <2>3. \A i \in S : index[i].order \in Nat
    <3>1. \A x \in 0 .. Unordered : x \in Nat
      OBVIOUS
    <3> QED
      BY <2>1, <3>1, Zenon
  <2> QED
    BY <2>1, <2>2, <2>3, Zenon
<1>3. \A i \in S : Leads(lists, i) = {j \in S : leads(j, i)}
  BY DEF Leads
<1> HIDE DEF S, score
<1>4. /\ \A i \in S : ~EarlierInDocument(i, i)
      /\ \A i, j \in S : i # j => EarlierInDocument(i, j) \/ EarlierInDocument(j, i)
      /\ \A i, j, k \in S : EarlierInDocument(i, j) /\ EarlierInDocument(j, k) => EarlierInDocument(i, k)
  BY <1>2 DEF EarlierInDocument
<1>5. /\ \A i \in S : ~leads(i, i)
      /\ \A i, j \in S : i # j => leads(i, j) \/ leads(j, i)
      /\ \A i, j, k \in S : leads(i, j) /\ leads(j, k) => leads(i, k)
  BY <1>2, <1>4
<1> HIDE DEF leads
<1>6. StrictOrder([i \in S |-> {j \in S : leads(j, i)}])
  BY <1>1, <1>5 DEF StrictOrder
<1>7. [i \in S |-> Leads(lists, i)] = [i \in S |-> {j \in S : leads(j, i)}]
  BY <1>3
<1> QED
  BY <1>6, <1>7 DEF S

\* Fusion lists every row a search found once, and the better first.
LEMMA MergedSorts ==
  ASSUME index \in Indexes, NEW lists \in [Channels -> Seq(DOMAIN index)]
  PROVE  LET all == Merged(lists)
         IN  /\ all \in Seq(Entries)
             /\ \A k \in 1 .. Len(all) : all[k].id \in Merges(lists)
             /\ \A k, l \in 1 .. Len(all) : all[k].id = all[l].id => k = l
             /\ \A k, l \in 1 .. Len(all) :
                  Score(lists, all[k].id) > Score(lists, all[l].id) => k < l
<1> DEFINE S == Merges(lists)
           ahead == [i \in S |-> Leads(lists, i)]
           best == Ordered(ahead)
           all == Merged(lists)
           score == [i \in S |-> Score(lists, i)]
           n == Cardinality(S)
<1>1. S \subseteq DOMAIN index /\ IsFiniteSet(S) /\ StrictOrder(ahead) /\ DOMAIN ahead = S
  BY MergesFinite, LeadsOrder
<1>2. \A i \in S : Score(lists, i) \in Nat
  BY <1>1, ScoreNatural
<1>3. all = [k \in DOMAIN best |-> [id |-> best[k], score |-> score[best[k]]]]
  <2>1. ahead = [i \in S |-> {j \in S : \/ score[j] > score[i]
                                        \/ score[j] = score[i] /\ EarlierInDocument(j, i)}]
    BY DEF Leads
  <2> QED
    BY <2>1 DEF Merged, Merges
<1> HIDE DEF ahead
<1>4. /\ n \in Nat /\ best \in [1 .. n -> S]
      /\ \A k, l \in 1 .. n : k < l <=> best[k] \in ahead[best[l]]
  BY <1>1, OrderedSorts DEF Sorts
<1>5. \A k, l \in 1 .. n : best[k] = best[l] => k = l
  BY <1>1, <1>4, OrderedSorts, SortedList
<1> HIDE DEF best, all, n
<1>6. all \in [1 .. n -> Entries] /\ \A k \in 1 .. n : all[k].id = best[k]
  BY <1>1, <1>2, <1>3, <1>4 DEF Entries
<1>7. all \in Seq(Entries) /\ Len(all) = n
  BY <1>4, <1>6
<1>8. ASSUME NEW k \in 1 .. n, NEW l \in 1 .. n, Score(lists, best[k]) > Score(lists, best[l])
      PROVE  k < l
  <2>1. best[k] \in S /\ best[l] \in S
    BY <1>4
  <2>2. best[k] \in Leads(lists, best[l])
    BY <2>1, <1>8 DEF Leads
  <2> QED
    BY <1>4, <2>1, <2>2 DEF ahead
<1> QED
  BY <1>4, <1>5, <1>6, <1>7, <1>8 DEF all

-----------------------------------------------------------------------------
(* The properties, of any state the invariant describes.                   *)

\* The kept candidates are the best.
LEMMA KeptOfMerged ==
  ASSUME index \in Indexes, NEW lists \in [Channels -> Seq(DOMAIN index)]
  PROVE  LET kept == Kept(lists)
         IN  /\ kept \in Seq(Entries)
             /\ \A k \in 1 .. Len(kept) : kept[k].id \in Merges(lists)
             /\ \A k, l \in 1 .. Len(kept) : kept[k].id = kept[l].id => k = l
<1> DEFINE all == Merged(lists)
           kept == Kept(lists)
<1>1. /\ all \in Seq(Entries)
      /\ \A k \in 1 .. Len(all) : all[k].id \in Merges(lists)
      /\ \A k, l \in 1 .. Len(all) : all[k].id = all[l].id => k = l
  BY MergedSorts
<1>2. Limit \in Nat
  BY ConstantsAssumption
<1>3. kept = First(Limit, all)
  BY DEF Kept
<1> HIDE DEF all, kept
<1>4. /\ kept \in Seq(Entries) /\ \A k \in 1 .. Len(kept) : kept[k] = all[k]
      /\ Len(kept) = IF Limit <= Len(all) THEN Limit ELSE Len(all)
  BY <1>1, <1>2, <1>3, FirstOfList
<1>5. 1 .. Len(kept) \subseteq 1 .. Len(all)
  <2>1. Len(all) \in Nat
    BY <1>1
  <2> QED
    BY <1>2, <1>4, <2>1
<1> QED
  BY <1>1, <1>4, <1>5 DEF kept

\* What is ranked.
LEMMA RankedLists ==
  ASSUME Searched
  PROVE  /\ ranked \in [Channels -> Seq(DOMAIN index)]
         /\ \A c \in Channels : Len(ranked[c]) <= Pool
         /\ Merges(ranked) \subseteq DOMAIN index
         /\ \A i \in Merges(ranked) : index[i].version <= serving
<1>1. \A c \in Channels : matched[c] \in Seq(DOMAIN index) /\ ranked[c] = Ranked(matched[c])
  BY DEF Searched
<1>2. \A c \in Channels : /\ ranked[c] \in Seq(DOMAIN index) /\ Len(ranked[c]) <= Pool
                          /\ ToSet(ranked[c]) \subseteq ToSet(matched[c])
  BY <1>1, RankedOfAnswer
<1>3. ranked \in [Channels -> Seq(DOMAIN index)]
  BY <1>2 DEF Searched
<1>4. Merges(ranked) \subseteq DOMAIN index
  BY <1>3, MergesFinite DEF Searched
<1>5. \A i \in Merges(ranked) : index[i].version <= serving
  BY <1>2 DEF Merges, Searched
<1> QED
  BY <1>2, <1>3, <1>4, <1>5

\* As long as nothing was cut, Markdown makes no difference to the direct pass and
\* the rest none to the mapped one.
LEMMA MarkdownStandsApart ==
  ASSUME Inductive
  PROVE  PassesDoNotCompete
<1>1. SUFFICES ASSUME Merging, \A c \in Channels : Len(matched[c]) <= Pool
               PROVE  LET alone == Kept([c \in Channels |-> Only(matched[c], Admitted)])
                      IN  SubSeq(candidates, 1, Len(alone)) = alone /\ (pass = "mapped" => candidates = alone)
  BY DEF PassesDoNotCompete
<1> DEFINE alone == Kept([c \in Channels |-> Only(matched[c], Admitted)])
           n == Len(alone)
<1>2. \A c \in Channels : Ranked(matched[c]) = Only(matched[c], Admitted)
  BY <1>1, RankedOfAnswer DEF Inductive, Searched
<1>3. ranked = [c \in Channels |-> Only(matched[c], Admitted)]
  BY <1>2 DEF Inductive, Searched
<1>4. alone = Kept(ranked)
  BY <1>3
<1>5. /\ candidates \in Seq(Entries) /\ n <= Len(candidates)
      /\ \A k \in 1 .. n : candidates[k] = alone[k]
      /\ pass = "mapped" => candidates = alone
  BY <1>1, <1>4 DEF Inductive, Expanded, Listed
<1>6. alone \in Seq(Entries)
  BY <1>4, KeptOfMerged, RankedLists DEF Inductive, Searched
<1> HIDE DEF alone
<1>7. n \in Nat
  BY <1>6
<1>8. SubSeq(candidates, 1, n) = alone
  <2>1. SubSeq(candidates, 1, n) \in Seq(Entries) /\ Len(SubSeq(candidates, 1, n)) = n
    BY <1>5, <1>7
  <2>2. \A k \in 1 .. n : SubSeq(candidates, 1, n)[k] = candidates[k]
    BY <1>5, <1>7
  <2> QED
    BY <1>5, <1>6, <2>1, <2>2
<1> QED
  BY <1>5, <1>8 DEF alone

\* What a list of the pool is worth to a row in it.
LEMMA WorthOfPlace ==
  ASSUME NEW S, NEW list \in Seq(S), Len(list) <= Pool, NEW i
  PROVE  /\ i \notin ToSet(list) => Worth(list, i) = 0
         /\ i \in ToSet(list) => \E p \in 1 .. Pool : Worth(list, i) = Share(p)
<1>1. CASE i \notin ToSet(list)
  BY <1>1 DEF Worth
<1>2. CASE i \in ToSet(list)
  <2> DEFINE p == Min({k \in DOMAIN list : list[k] = i})
  <2>1. p \in 1 .. Len(list) /\ Worth(list, i) = Share(p)
    BY <1>2, PlaceInList DEF Worth
  <2>2. Len(list) \in Nat /\ Pool \in Nat
    BY ConstantsAssumption
  <2> HIDE DEF p
  <2>3. p \in 1 .. Pool
    BY <2>1, <2>2
  <2> QED
    BY <1>2, <2>1, <2>3
<1> QED
  BY <1>1, <1>2

LEMMA AgreementWins ==
  ASSUME Searched, Pool <= RRFK + 1
  PROVE  AgreementOutranks
<1> DEFINE all == Merged(ranked)
           w(c, i) == Worth(ranked[c], i)
<1>1. ranked \in [Channels -> Seq(DOMAIN index)] /\ Merges(ranked) \subseteq DOMAIN index
      /\ \A c \in Channels : Len(ranked[c]) <= Pool
  BY RankedLists
<1>2. index \in Indexes
  BY DEF Searched
<1>3. /\ all \in Seq(Entries)
      /\ \A k \in 1 .. Len(all) : all[k].id \in Merges(ranked)
      /\ \A k, l \in 1 .. Len(all) : Score(ranked, all[k].id) > Score(ranked, all[l].id) => k < l
  BY <1>1, <1>2, MergedSorts
<1>4. \A c \in Channels : \A i : w(c, i) \in Nat
  BY <1>1, WorthNatural
<1>5. \A c \in Channels : \A i : i \notin ToSet(ranked[c]) => w(c, i) = 0
  BY <1>1, WorthOfPlace
<1>6. \A c \in Channels : \A i : i \in ToSet(ranked[c]) => \E p \in 1 .. Pool : w(c, i) = Share(p)
  BY <1>1, WorthOfPlace
<1>7. \A i : Score(ranked, i) = Bonus(i) + w("graph", i) + w("lexical", i) + w("vector", i)
  BY DEF Score
<1> HIDE DEF all, w
<1>8. ASSUME NEW i \in DOMAIN index, NEW j \in DOMAIN index, Bonus(i) >= Bonus(j),
             Cardinality(FoundBy(ranked, i)) > 1, Cardinality(FoundBy(ranked, j)) = 1
      PROVE  Score(ranked, i) > Score(ranked, j)
  <2>1. FoundBy(ranked, i) \subseteq Channels /\ FoundBy(ranked, j) \subseteq Channels
    BY DEF FoundBy
  <2>2. PICK a \in FoundBy(ranked, i), b \in FoundBy(ranked, i) : a # b
    <3> DEFINE F == FoundBy(ranked, i)
    <3>1. SUFFICES ASSUME \A a, b \in F : a = b PROVE FALSE
      OBVIOUS
    <3>2. F = {} \/ \E a : F = {a}
      BY <3>1
    <3> HIDE DEF F
    <3>3. Cardinality(F) \in {0, 1}
      BY <3>2, FS_EmptySet, FS_Singleton
    <3> QED
      BY <3>3, <1>8 DEF F
  <2>3. PICK c : FoundBy(ranked, j) = {c}
    <3> DEFINE F == FoundBy(ranked, j)
    <3>1. IsFiniteSet(F)
      <4>1. IsFiniteSet(Channels)
        <5>1. IsFiniteSet({"graph"}) /\ IsFiniteSet({"lexical"}) /\ IsFiniteSet({"vector"})
          BY FS_Singleton
        <5>2. Channels = ({"graph"} \cup {"lexical"}) \cup {"vector"}
          BY DEF Channels
        <5> QED
          BY <5>1, <5>2, FS_Union
      <4> QED
        BY <2>1, <4>1, FS_Subset
    <3> QED
      BY <3>1, <1>8, FS_Singleton
  <2>4. a \in Channels /\ b \in Channels /\ c \in Channels
    BY <2>1, <2>3
  <2>5. PICK p \in 1 .. Pool, q \in 1 .. Pool : w(a, i) = Share(p) /\ w(b, i) = Share(q)
    BY <1>6, <2>2, <2>4 DEF FoundBy
  <2>6. PICK r \in 1 .. Pool : w(c, j) = Share(r)
    <3>1. j \in ToSet(ranked[c])
      BY <2>3 DEF FoundBy
    <3> QED
      BY <1>6, <2>4, <3>1
  <2>7. \A d \in Channels \ {c} : w(d, j) = 0
    BY <1>5, <2>3 DEF FoundBy
  <2>8. w(a, i) + w(b, i) > w(c, j)
    BY <2>5, <2>6, TwoSharesOutweighOne
  <2>9. /\ w("graph", i) + w("lexical", i) + w("vector", i) >= w(a, i) + w(b, i)
        /\ w("graph", i) + w("lexical", i) + w("vector", i) \in Nat
    <3>1. w("graph", i) \in Nat /\ w("lexical", i) \in Nat /\ w("vector", i) \in Nat
      BY <1>4 DEF Channels
    <3> QED
      BY <3>1, <2>2, <2>4 DEF Channels
  <2>10. w("graph", j) + w("lexical", j) + w("vector", j) = w(c, j)
    <3>1. w("graph", j) \in Nat /\ w("lexical", j) \in Nat /\ w("vector", j) \in Nat
      BY <1>4 DEF Channels
    <3> QED
      BY <3>1, <2>4, <2>7 DEF Channels
  <2>11. w(a, i) \in Nat /\ w(b, i) \in Nat /\ w(c, j) \in Nat
    BY <1>4, <2>4
  <2>12. Bonus(i) \in Nat /\ Bonus(j) \in Nat
    BY <1>2, BonusNatural
  <2>13. /\ w("graph", i) \in Nat /\ w("lexical", i) \in Nat /\ w("vector", i) \in Nat
         /\ w("graph", j) \in Nat /\ w("lexical", j) \in Nat /\ w("vector", j) \in Nat
    BY <1>4 DEF Channels
  <2> QED
    BY <1>7, <1>8, <2>8, <2>9, <2>10, <2>11, <2>12, <2>13
<1>9. DOMAIN all = 1 .. Len(all)
  BY <1>3
<1>10. ASSUME NEW k \in DOMAIN all, NEW l \in DOMAIN all, Bonus(all[k].id) >= Bonus(all[l].id),
             Cardinality(FoundBy(ranked, all[k].id)) > 1, Cardinality(FoundBy(ranked, all[l].id)) = 1
       PROVE  k < l
  <2>1. all[k].id \in DOMAIN index /\ all[l].id \in DOMAIN index
    BY <1>1, <1>3, <1>9
  <2>2. Score(ranked, all[k].id) > Score(ranked, all[l].id)
    BY <1>8, <1>10, <2>1
  <2> QED
    BY <1>3, <1>9, <2>2
<1> QED
  BY <1>10 DEF AgreementOutranks, all

-----------------------------------------------------------------------------
(* Neighbours.                                                             *)

LEMMA MaxOfTwo ==
  ASSUME NEW a \in Int, NEW b \in Int
  PROVE  Max({a, b}) = IF a <= b THEN b ELSE a
  BY DEF Max

LEMMA DistanceInt ==
  ASSUME index \in Indexes, NEW i \in DOMAIN index, NEW j \in DOMAIN index
  PROVE  Distance(i, j) \in Int
<1> DEFINE apart == index[i].order - index[j].order
<1>1. \A x \in 0 .. Unordered : x \in Int
  OBVIOUS
<1>2. index[i].order \in Int /\ index[j].order \in Int
  BY <1>1, RowNumbers, Zenon
<1>3. apart \in Int /\ -apart \in Int
  BY <1>2
<1> HIDE DEF apart
<1>4. Max({apart, -apart}) \in Int
  BY <1>3, MaxOfTwo
<1> QED
  BY <1>4 DEF Distance, Unordered, apart

\* The rows on the page of row i, the nearer first.
Nears(i) == [k \in OnPage(i) |-> {j \in OnPage(i) : Nearer(i, j, k)}]

LEMMA NearsOrder ==
  ASSUME index \in Indexes, NEW i \in DOMAIN index
  PROVE  StrictOrder(Nears(i)) /\ OnPage(i) \subseteq DOMAIN index
<1> DEFINE S == OnPage(i)
           d == [j \in S |-> Distance(i, j)]
<1>1. S \in SUBSET DOMAIN index
  BY DEF OnPage, Ready
<1>2. IsFiniteSet(S)
  BY <1>1, IndexShape, FS_Subset
<1>3. \A j \in S : d[j] \in Int /\ j \in Nat
  BY <1>1, DistanceInt, RowNumbers
<1>4. \A j, k \in S : Closer(i, j, k) <=> d[j] < d[k] \/ (d[j] = d[k] /\ j < k)
  BY DEF Closer
<1> HIDE DEF S, d
<1>5. /\ \A j \in S : ~Closer(i, j, j)
      /\ \A j, k \in S : j # k => Closer(i, j, k) \/ Closer(i, k, j)
      /\ \A j, k, l \in S : Closer(i, j, k) /\ Closer(i, k, l) => Closer(i, j, l)
  BY <1>3, <1>4
<1>6. \A j, k : Nearer(i, j, k) <=>
        \/ SharesContext(i, j) /\ ~SharesContext(i, k)
        \/ (SharesContext(i, j) <=> SharesContext(i, k)) /\ Closer(i, j, k)
  BY DEF Nearer, SharesContext
<1>7. /\ \A j \in S : ~Nearer(i, j, j)
      /\ \A j, k \in S : j # k => Nearer(i, j, k) \/ Nearer(i, k, j)
      /\ \A j, k, l \in S : Nearer(i, j, k) /\ Nearer(i, k, l) => Nearer(i, j, l)
  BY <1>5, <1>6
<1>8. StrictOrder([k \in S |-> {j \in S : Nearer(i, j, k)}])
  BY <1>2, <1>7 DEF StrictOrder
<1> QED
  BY <1>1, <1>8 DEF Nears, S

LEMMA NeighboursList ==
  ASSUME index \in Indexes, NEW i \in DOMAIN index
  PROVE  /\ neighbours(i) \in Seq(DOMAIN index)
         /\ \A k, l \in 1 .. Len(neighbours(i)) : neighbours(i)[k] = neighbours(i)[l] => k = l
<1> DEFINE s == Ordered(Nears(i))
           r == neighbours(i)
<1>1. DOMAIN Nears(i) = OnPage(i)
  BY DEF Nears
<1>2. s \in Seq(OnPage(i)) /\ \A k, l \in 1 .. Len(s) : s[k] = s[l] => k = l
  BY <1>1, NearsOrder, OrderedSorts, SortedList
<1>3. r = First(Near, s) /\ Near \in Nat
  BY ConstantsAssumption DEF neighbours, Nears
<1> HIDE DEF s, r
<1>4. /\ r \in Seq(OnPage(i)) /\ \A k \in 1 .. Len(r) : r[k] = s[k]
      /\ Len(r) = IF Near <= Len(s) THEN Near ELSE Len(s)
  BY <1>2, <1>3, FirstOfList
<1>5. 1 .. Len(r) \subseteq 1 .. Len(s)
  <2>1. Len(s) \in Nat
    BY <1>2
  <2> QED
    BY <1>3, <1>4, <2>1
<1>6. r \in Seq(DOMAIN index)
  BY <1>4, NearsOrder
<1> QED
  BY <1>2, <1>4, <1>5, <1>6 DEF r

\* A table row that fits is among the neighbours of its members.
LEMMA NeighboursHoldRow ==
  ASSUME index \in Indexes, NEW i \in DOMAIN index,
         index[i].version = serving, Cardinality(TableRow(i)) <= Near
  PROVE  TableRow(i) \subseteq ToSet(neighbours(i))
<1> DEFINE S == OnPage(i)
           s == Ordered(Nears(i))
           n == Cardinality(S)
           R == TableRow(i)
<1>1. DOMAIN Nears(i) = S /\ StrictOrder(Nears(i))
  BY NearsOrder DEF Nears
<1>2. /\ n \in Nat /\ s \in [1 .. n -> S]
      /\ \A j \in S : \E k \in 1 .. n : s[k] = j
      /\ \A k, l \in 1 .. n : k < l <=> s[k] \in Nears(i)[s[l]]
  BY <1>1, OrderedSorts DEF Sorts
<1>3. /\ s \in Seq(S) /\ Len(s) = n
      /\ \A k, l \in 1 .. n : s[k] = s[l] => k = l
  BY <1>1, OrderedSorts, SortedList
<1>4. R = {j \in S : SharesContext(i, j)}
  BY DEF OnPage, TableRow, Ready
<1>5. IsFiniteSet(S)
  BY <1>1 DEF StrictOrder
<1>6. IsFiniteSet(R) /\ Cardinality(R) \in Nat
  BY <1>4, <1>5, FS_Subset, FS_CardinalityType
<1>7. neighbours(i) = First(Near, s) /\ Near \in Nat /\ Cardinality(R) <= Near
  BY ConstantsAssumption DEF neighbours, Nears
<1> HIDE DEF s, n, S, R
<1>8. ASSUME NEW j \in R
      PROVE  j \in ToSet(neighbours(i))
  <2>1. PICK k \in 1 .. n : s[k] = j
    BY <1>2, <1>4
  <2>2. ASSUME NEW l \in 1 .. k
        PROVE  s[l] \in R
    <3>1. l \in 1 .. n
      BY <1>2
    <3>2. CASE l = k
      BY <2>1, <3>2
    <3>3. CASE l # k
      <4>1. s[l] \in Nears(i)[s[k]] /\ s[l] \in S /\ s[k] \in S
        BY <1>2, <3>1, <3>3
      <4>2. Nearer(i, s[l], j)
        BY <2>1, <4>1 DEF Nears, S
      <4>3. SharesContext(i, j)
        BY <1>4
      <4>4. SharesContext(i, s[l])
        BY <4>2, <4>3 DEF Nearer, SharesContext
      <4> QED
        BY <1>4, <4>1, <4>4
    <3> QED
      BY <3>2, <3>3
  <2> DEFINE f == [l \in 1 .. k |-> s[l]]
  <2>3. f \in Injection(1 .. k, R)
    <3>1. f \in [1 .. k -> R]
      BY <2>2
    <3>2. 1 .. k \subseteq 1 .. n
      BY <1>2
    <3> QED
      BY <1>3, <3>1, <3>2 DEF Injection, IsInjective
  <2>4. Cardinality(1 .. k) = k
    BY <1>2, FS_Interval
  <2>5. k <= Cardinality(R)
    BY <1>6, <2>3, <2>4, FS_Injection
  <2>6. k <= Near
    BY <1>2, <1>6, <1>7, <2>5
  <2> DEFINE r == First(Near, s)
  <2>7. /\ Len(r) = IF Near <= n THEN Near ELSE n
        /\ \A l \in 1 .. Len(r) : r[l] = s[l]
        /\ r \in Seq(S)
    BY <1>3, <1>7, FirstOfList
  <2> HIDE DEF r
  <2>8. k \in 1 .. Len(r)
    BY <1>2, <1>7, <2>6, <2>7
  <2>9. k \in DOMAIN r /\ r[k] = j
    BY <2>1, <2>7, <2>8
  <2> QED
    BY <1>7, <2>9 DEF ToSet, r
<1> QED
  BY <1>8 DEF R

-----------------------------------------------------------------------------
(* The invariant, step by step.                                            *)

\* Nothing but the index and what is ranked decides what is kept.
LEMMA KeptStays ==
  ASSUME index' = index, ranked' = ranked
  PROVE  Kept(ranked)' = Kept(ranked) /\ Seeds' = Seeds /\ Entries' = Entries
<1>1. Merged(ranked)' = Merged(ranked)
  BY DEF Merged, Score, Bonus, Worth, EarlierInDocument
<1>2. Kept(ranked)' = Kept(ranked)
  BY <1>1 DEF Kept, First
<1> QED
  BY <1>2 DEF Seeds, Entries

LEMMA RankedStays ==
  ASSUME index' = index, pass' = pass, matched' = matched, ranked' = ranked,
         serving' \in {serving, 2}, Searched
  PROVE  Searched'
<1>1. Admitted' = Admitted
  BY DEF Admitted
<1>2. \A c \in Channels : Ranked(matched[c])' = Ranked(matched[c])
  BY <1>1 DEF Ranked
<1>3. ASSUME NEW c \in Channels, NEW i \in ToSet(matched[c])
      PROVE  index[i].version <= serving'
  <2>1. i \in DOMAIN index
    BY DEF Searched, ToSet
  <2>2. index[i].version \in {1, 2} /\ index[i].version <= serving
    BY <2>1, RowNumbers DEF Searched
  <2> QED
    BY <2>2
<1> QED
  BY <1>2, <1>3 DEF Searched

\* A row that is whole stays whole.
LEMMA WholeStays ==
  ASSUME index' = index, serving' = serving, NEW i, WholeRow(i), Ids(candidates) \subseteq Ids(candidates)'
  PROVE  WholeRow(i)'
<1>1. TableRow(i)' = TableRow(i)
  BY DEF TableRow, Ready, SharesContext
<1> QED
  BY <1>1 DEF WholeRow

LEMMA ListStays ==
  ASSUME Listed, index' = index, serving' = serving, pass' = pass, ranked' = ranked,
         candidates' = candidates, seed' = seed
  PROVE  Listed'
<1>1. Kept(ranked)' = Kept(ranked) /\ Seeds' = Seeds /\ Entries' = Entries
  BY KeptStays
<1>2. Ids(candidates)' = Ids(candidates)
  BY DEF Ids
<1>3. \A k \in 1 .. seed - 1 : WholeRow(candidates[k].id)'
  <2>1. \A i : WholeRow(i) => WholeRow(i)'
    BY <1>2, WholeStays
  <2>2. ASSUME NEW k \in 1 .. seed - 1
        PROVE  WholeRow(candidates[k].id)'
    BY <2>1 DEF Listed
  <2> QED
    BY <2>2
<1> QED
  BY <1>1, <1>3 DEF Listed

LEMMA InitInductive == Init => Inductive
<1> SUFFICES ASSUME Init PROVE Inductive
  OBVIOUS
<1>1. Searched
  <2>1. Nothing \in [Channels -> Seq(DOMAIN index)] /\ \A c \in Channels : ToSet(Nothing[c]) = {}
    BY DEF Nothing, ToSet
  <2>2. Nothing = [c \in Channels |-> Ranked(Nothing[c])]
    BY NothingRanked DEF Nothing
  <2> QED
    BY <2>1, <2>2 DEF Init, Searched
<1>2. Expanded
  BY DEF Init, Expanded, Merging
<1> QED
  BY <1>1, <1>2 DEF Inductive

\* A search adds rows that match in the version that answers.
LEMMA AnsweredInductive ==
  ASSUME Inductive, NEW c \in Channels, NEW answer \in Seq(Matches(c)), Answered(c, answer),
         ~Merging, pc' \in {"lexical", "vector", "fuse"}
  PROVE  Inductive'
<1>1. answer \in Seq(DOMAIN index) /\ \A i \in ToSet(answer) : index[i].version = serving
  <2>1. Matches(c) \subseteq DOMAIN index /\ \A i \in Matches(c) : index[i].version = serving
    BY DEF Matches, Ready
  <2>2. ToSet(answer) \subseteq Matches(c)
    BY DEF ToSet
  <2> QED
    BY <2>1, <2>2
<1>2. /\ index' = index /\ serving' = serving /\ pass' = pass /\ seed' = seed
      /\ matched' = [matched EXCEPT ![c] = answer]
      /\ ranked' = [ranked EXCEPT ![c] = Ranked(answer)]
  BY DEF Answered
<1>3. Searched
  BY DEF Inductive
<1>4. \A d \in Channels : ranked'[d] = Ranked(matched'[d])
  BY <1>2, <1>3 DEF Searched
<1>5. Admitted' = Admitted
  BY <1>2 DEF Admitted
<1>6. \A d \in Channels : Ranked(matched[d])' = Ranked(matched'[d])
  BY <1>5 DEF Ranked
<1>7. ranked' = [d \in Channels |-> ranked'[d]] /\ matched' \in [Channels -> Seq(DOMAIN index)]
  BY <1>1, <1>2, <1>3 DEF Searched
<1>8. serving \in {1, 2}
  BY <1>3 DEF Searched
<1>9. \A d \in Channels : \A i \in ToSet(matched'[d]) : index[i].version <= serving
  BY <1>1, <1>2, <1>3, <1>8 DEF Searched
<1>10. Searched'
  BY <1>2, <1>3, <1>4, <1>6, <1>7, <1>9 DEF Searched
<1>11. Expanded'
  BY <1>2 DEF Inductive, Expanded, Merging
<1> QED
  BY <1>10, <1>11 DEF Inductive

LEMMA SearchInductive ==
  ASSUME Inductive, GraphSearch \/ LexicalSearch \/ VectorSearch
  PROVE  Inductive'
<1>1. index \in Indexes
  BY DEF Inductive, Searched
<1>2. CASE GraphSearch
  <2>1. Sorted("graph") \in Seq(Matches("graph")) /\ "graph" \in Channels
    BY <1>1, SortedMatches DEF Channels
  <2> QED
    BY <1>2, <2>1, AnsweredInductive DEF GraphSearch, Merging
<1>3. CASE LexicalSearch
  <2>1. Sorted("lexical") \in Seq(Matches("lexical")) /\ "lexical" \in Channels
    BY <1>1, SortedMatches DEF Channels
  <2> QED
    BY <1>3, <2>1, AnsweredInductive DEF LexicalSearch, Merging
<1>4. CASE VectorSearch
  <2>1. "vector" \in Channels
    BY DEF Channels
  <2>2. PICK found \in SUBSET Matches("vector") :
          \E answer \in NearestFirst("vector", found) : Answered("vector", answer)
    BY <1>4 DEF VectorSearch
  <2>3. PICK answer \in NearestFirst("vector", found) : Answered("vector", answer)
    BY <2>2
  <2>4. answer \in Seq(Matches("vector"))
    BY <1>1, <2>1, NearestMatches
  <2> QED
    BY <1>4, <2>1, <2>3, <2>4, AnsweredInductive DEF VectorSearch, Merging
<1> QED
  BY <1>2, <1>3, <1>4

LEMMA NoEmbeddingInductive ==
  ASSUME Inductive, NoEmbedding
  PROVE  Inductive'
<1>1. Searched'
  BY RankedStays DEF Inductive, NoEmbedding
<1>2. Expanded'
  BY DEF NoEmbedding, Inductive, Expanded, Merging
<1> QED
  BY <1>1, <1>2 DEF Inductive

\* The places to expand.
LEMMA SeedsBounded ==
  ASSUME Searched
  PROVE  /\ Seeds \in Nat /\ Seeds <= Len(Kept(ranked)) /\ Len(Kept(ranked)) \in Nat
<1> DEFINE n == Len(Kept(ranked))
<1>1. Kept(ranked) \in Seq(Entries)
  BY KeptOfMerged, RankedLists DEF Searched
<1>2. n \in Nat /\ Top \in Nat
  BY <1>1, ConstantsAssumption
<1>3. Seeds = Min({Top, n})
  BY DEF Seeds
<1> HIDE DEF n
<1>4. Seeds = IF Top <= n THEN Top ELSE n
  BY <1>2, <1>3, MinOfTwo
<1> QED
  BY <1>2, <1>4 DEF n

LEMMA FuseInductive ==
  ASSUME Inductive, Fuse
  PROVE  Inductive'
<1>1. /\ index' = index /\ serving' = serving /\ pass' = pass /\ seed' = seed
      /\ matched' = matched /\ ranked' = ranked /\ candidates' = Kept(ranked)
      /\ seed = 1 /\ pc' = IF pass = "direct" THEN "expand" ELSE "done"
  BY DEF Fuse, Inductive, Expanded, Merging
<1>2. Searched'
  BY <1>1, RankedStays DEF Inductive
<1>3. Kept(ranked)' = Kept(ranked) /\ Seeds' = Seeds /\ Entries' = Entries
  BY <1>1, KeptStays
<1>4. /\ Kept(ranked) \in Seq(Entries)
      /\ \A k, l \in 1 .. Len(Kept(ranked)) : Kept(ranked)[k].id = Kept(ranked)[l].id => k = l
  BY KeptOfMerged, RankedLists DEF Inductive, Searched
<1>5. Seeds \in Nat /\ Len(Kept(ranked)) \in Nat
  BY SeedsBounded DEF Inductive
<1>6. seed' \in 1 .. Seeds + 1
  BY <1>1, <1>5
<1>7. \A k \in 1 .. seed' - 1 : WholeRow(candidates[k].id)'
  BY <1>1
<1>8. Len(Kept(ranked)) <= Len(Kept(ranked))
  BY <1>5
<1>9. Listed'
  BY <1>1, <1>3, <1>4, <1>6, <1>7, <1>8 DEF Listed
<1>10. pass \in {"direct", "mapped"}
  BY DEF Inductive, Searched
<1>11. Expanded'
  BY <1>1, <1>9, <1>10 DEF Expanded, Merging
<1> QED
  BY <1>2, <1>11 DEF Inductive

\* What answers later was not found earlier, so no expanded row of it is waited for.
LEMMA PublishInductive ==
  ASSUME Inductive, Publish
  PROVE  Inductive'
<1>1. /\ serving = 1 /\ serving' = 2 /\ index' = index /\ pass' = pass /\ pc' = pc
      /\ matched' = matched /\ ranked' = ranked /\ candidates' = candidates /\ seed' = seed
  BY DEF Publish
<1>2. Searched'
  BY <1>1, RankedStays DEF Inductive
<1>3. Kept(ranked)' = Kept(ranked) /\ Seeds' = Seeds /\ Entries' = Entries
  BY <1>1, KeptStays
<1>4. ASSUME Listed, NEW k \in 1 .. seed - 1
      PROVE  WholeRow(candidates[k].id)'
  <2>1. k \in 1 .. Len(Kept(ranked))
    <3>1. Seeds \in Nat /\ Seeds <= Len(Kept(ranked)) /\ Len(Kept(ranked)) \in Nat
      BY SeedsBounded DEF Inductive
    <3>2. seed \in 1 .. Seeds + 1
      BY <1>4 DEF Listed
    <3> QED
      BY <3>1, <3>2, <1>4
  <2>2. candidates[k].id \in Merges(ranked)
    <3>1. Kept(ranked)[k].id \in Merges(ranked)
      BY <2>1, KeptOfMerged, RankedLists DEF Inductive, Searched
    <3> QED
      BY <3>1, <2>1, <1>4 DEF Listed
  <2>3. index[candidates[k].id].version <= 1
    BY <1>1, <2>2, RankedLists DEF Inductive
  <2>4. index'[candidates'[k].id].version # serving'
    BY <1>1, <2>3
  <2> QED
    BY <2>4 DEF WholeRow
<1>5. Listed => Listed'
  BY <1>1, <1>3, <1>4 DEF Listed
<1>6. Expanded'
  BY <1>1, <1>3, <1>5 DEF Inductive, Expanded, Merging
<1> QED
  BY <1>2, <1>6 DEF Inductive

LEMMA EndExpansionInductive ==
  ASSUME Inductive, EndExpansion
  PROVE  Inductive'
<1>1. /\ serving' = serving /\ index' = index /\ pass' = pass /\ pc' = "done" /\ pc = "expand"
      /\ matched' = matched /\ ranked' = ranked /\ candidates' = candidates /\ seed' = seed
      /\ seed > Seeds
  BY DEF EndExpansion, Seeds
<1>2. Searched'
  BY <1>1, RankedStays DEF Inductive
<1>3. Listed
  BY <1>1 DEF Inductive, Expanded, Merging
<1>4. Listed' /\ Seeds' = Seeds
  BY <1>1, <1>3, ListStays, KeptStays
<1>5. seed = Seeds + 1
  <2>1. Seeds \in Nat /\ seed \in 1 .. Seeds + 1
    BY <1>3, SeedsBounded DEF Inductive, Listed
  <2> QED
    BY <1>1, <2>1
<1>6. Expanded'
  BY <1>1, <1>4, <1>5 DEF Expanded, Merging
<1> QED
  BY <1>2, <1>6 DEF Inductive

LEMMA StutterInductive ==
  ASSUME Inductive, UNCHANGED vars
  PROVE  Inductive'
<1>1. /\ serving' = serving /\ index' = index /\ pass' = pass /\ pc' = pc
      /\ matched' = matched /\ ranked' = ranked /\ candidates' = candidates /\ seed' = seed
  BY DEF vars
<1>2. Searched'
  BY <1>1, RankedStays DEF Inductive
<1>3. Listed => Listed'
  BY <1>1, ListStays
<1>4. Seeds' = Seeds
  BY <1>1, KeptStays
<1>5. Expanded'
  BY <1>1, <1>3, <1>4 DEF Inductive, Expanded, Merging
<1> QED
  BY <1>2, <1>5 DEF Inductive

\* A list and another after it.
LEMMA Appended ==
  ASSUME NEW S, NEW s \in Seq(S), NEW t \in Seq(S)
  PROVE  /\ s \o t \in Seq(S) /\ Len(s \o t) = Len(s) + Len(t)
         /\ \A k \in 1 .. Len(s) : (s \o t)[k] = s[k]
         /\ \A k \in 1 .. Len(t) : (s \o t)[Len(s) + k] = t[k]
         /\ \A k \in 1 .. Len(s \o t) :
              k \in 1 .. Len(s) \/ \E l \in 1 .. Len(t) : k = Len(s) + l
<1>1. s \o t \in Seq(S) /\ Len(s \o t) = Len(s) + Len(t) /\ Len(s) \in Nat /\ Len(t) \in Nat
  OBVIOUS
<1>2. /\ \A k \in 1 .. Len(s) : (s \o t)[k] = s[k]
      /\ \A k \in 1 .. Len(t) : (s \o t)[Len(s) + k] = t[k]
  OBVIOUS
<1>3. ASSUME NEW k \in 1 .. Len(s \o t), k \notin 1 .. Len(s)
      PROVE  k - Len(s) \in 1 .. Len(t) /\ k = Len(s) + (k - Len(s))
  BY <1>1, <1>3
<1> QED
  BY <1>1, <1>2, <1>3

\* What an expanded candidate pulls in.
LEMMA PulledList ==
  ASSUME index \in Indexes, NEW i \in DOMAIN index, NEW score \in Nat
  PROVE  LET p == Pulled(i, score)
         IN  /\ p \in Seq(Entries)
             /\ \A k, l \in 1 .. Len(p) : p[k].id = p[l].id => k = l
             /\ \A k \in 1 .. Len(p) : p[k].id \notin Ids(candidates)
             /\ \A j \in ToSet(neighbours(i)) \ Ids(candidates) : \E k \in 1 .. Len(p) : p[k].id = j
<1> DEFINE near == neighbours(i)
           T == DOMAIN index \ Ids(candidates)
           new == Only(near, T)
           p == Pulled(i, score)
<1>1. near \in Seq(DOMAIN index) /\ \A k, l \in 1 .. Len(near) : near[k] = near[l] => k = l
  BY NeighboursList
<1> HIDE DEF near
<1>2. /\ new \in Seq(DOMAIN index) /\ ToSet(new) = ToSet(near) \cap T
      /\ \A k, l \in 1 .. Len(new) : new[k] = new[l] => k = l
  BY <1>1, OnlyOfList
<1>3. p = [k \in DOMAIN new |-> [id |-> new[k], score |-> score \div 4]]
  BY DEF Pulled, near
<1>4. score \div 4 \in Nat
  BY Quotient
<1> HIDE DEF new, p
<1>5. DOMAIN new = 1 .. Len(new) /\ Len(new) \in Nat /\ \A k \in 1 .. Len(new) : new[k] \in DOMAIN index
  BY <1>2
<1>6. p \in [1 .. Len(new) -> Entries] /\ \A k \in 1 .. Len(new) : p[k].id = new[k]
  BY <1>3, <1>4, <1>5 DEF Entries
<1>7. p \in Seq(Entries) /\ Len(p) = Len(new)
  BY <1>5, <1>6
<1>8. \A k \in 1 .. Len(new) : new[k] \notin Ids(candidates)
  BY <1>2, <1>5 DEF ToSet
<1>9. ASSUME NEW j \in ToSet(near) \ Ids(candidates)
      PROVE  \E k \in 1 .. Len(new) : new[k] = j
  <2>1. j \in DOMAIN index
    BY <1>1 DEF ToSet
  <2> QED
    BY <2>1, <1>2, <1>5 DEF ToSet
<1> QED
  BY <1>2, <1>6, <1>7, <1>8, <1>9 DEF p, near

\* Expanding a candidate adds what it has not brought yet, after everything else.
LEMMA ExpandInductive ==
  ASSUME Inductive, ExpandOne
  PROVE  Inductive'
<1> DEFINE i == candidates[seed].id
           p == Pulled(i, candidates[seed].score)
           n == Len(candidates)
           kept == Len(Kept(ranked))
<1>1. /\ index' = index /\ serving' = serving /\ pass' = pass /\ pc' = pc /\ pc = "expand"
      /\ matched' = matched /\ ranked' = ranked /\ seed <= Seeds
      /\ candidates' = candidates \o p /\ seed' = seed + 1
  BY DEF ExpandOne, Seeds
<1>2. Searched /\ Listed /\ pass = "direct" /\ index \in Indexes
  BY <1>1 DEF Inductive, Searched, Expanded, Merging
<1>3. Searched'
  BY <1>1, <1>2, RankedStays
<1>4. Kept(ranked)' = Kept(ranked) /\ Seeds' = Seeds /\ Entries' = Entries
  BY <1>1, KeptStays
<1>5. /\ candidates \in Seq(Entries) /\ kept <= n
      /\ \A k \in 1 .. kept : candidates[k] = Kept(ranked)[k]
      /\ \A k, l \in 1 .. n : candidates[k].id = candidates[l].id => k = l
      /\ \A k \in 1 .. seed - 1 : WholeRow(candidates[k].id)
      /\ seed \in 1 .. Seeds + 1
  BY <1>2 DEF Listed
<1>6. Seeds \in Nat /\ Seeds <= kept /\ kept \in Nat
  BY <1>2, SeedsBounded
<1>7. n \in Nat /\ DOMAIN candidates = 1 .. n /\ \A k \in 1 .. n : candidates[k] \in Entries
  BY <1>5
<1> HIDE DEF n, kept
<1>8. seed \in 1 .. n /\ 1 .. kept \subseteq 1 .. n /\ 1 .. seed \subseteq 1 .. n
  BY <1>1, <1>5, <1>6, <1>7
<1>9. i \in DOMAIN index /\ candidates[seed].score \in Nat
  BY <1>7, <1>8 DEF Entries
<1> HIDE DEF i, p
<1>10. /\ p \in Seq(Entries)
       /\ \A k, l \in 1 .. Len(p) : p[k].id = p[l].id => k = l
       /\ \A k \in 1 .. Len(p) : p[k].id \notin Ids(candidates)
       /\ \A j \in ToSet(neighbours(i)) \ Ids(candidates) : \E k \in 1 .. Len(p) : p[k].id = j
  BY <1>2, <1>9, PulledList DEF p
<1> DEFINE c == candidates \o p
           m == Len(p)
<1>11. /\ c \in Seq(Entries) /\ Len(c) = n + m
       /\ \A k \in 1 .. n : c[k] = candidates[k]
       /\ \A k \in 1 .. m : c[n + k] = p[k]
       /\ \A k \in 1 .. Len(c) : k \in 1 .. n \/ \E l \in 1 .. m : k = n + l
  BY <1>5, <1>10, Appended DEF n
<1>12. m \in Nat /\ DOMAIN c = 1 .. Len(c)
  BY <1>10, <1>11
<1>13. candidates' = c
  BY <1>1
<1> HIDE DEF c, m
<1>14. 1 .. n \subseteq DOMAIN c /\ \A k \in 1 .. m : n + k \in DOMAIN c
  BY <1>7, <1>11, <1>12
<1>15. Ids(candidates) \subseteq Ids(c) /\ \A k \in 1 .. m : p[k].id \in Ids(c)
  BY <1>7, <1>11, <1>14 DEF Ids
<1>16. ASSUME NEW k \in 1 .. Len(c), NEW l \in 1 .. Len(c), c[k].id = c[l].id
       PROVE  k = l
  <2>1. \A a \in 1 .. n : c[a].id \in Ids(candidates)
    BY <1>7, <1>11 DEF Ids
  <2>2. \A a \in 1 .. m : c[n + a].id \notin Ids(candidates)
    BY <1>10, <1>11 DEF m
  <2>3. CASE k \in 1 .. n /\ l \in 1 .. n
    BY <2>3, <1>5, <1>11, <1>16 DEF n
  <2>4. CASE k \notin 1 .. n /\ l \notin 1 .. n
    <3>1. PICK a \in 1 .. m, b \in 1 .. m : k = n + a /\ l = n + b
      BY <2>4, <1>11
    <3>2. p[a].id = p[b].id
      BY <3>1, <1>11, <1>16
    <3>3. a = b
      BY <3>2, <1>10 DEF m
    <3> QED
      BY <3>1, <3>3
  <2> QED
    BY <2>1, <2>2, <2>3, <2>4, <1>11, <1>16
<1>17. ASSUME NEW k \in 1 .. seed
       PROVE  WholeRow(candidates[k].id)'
  <2>1. candidates'[k].id = candidates[k].id
    BY <1>8, <1>11, <1>13
  <2>2. \A j : TableRow(j)' = TableRow(j)
    BY <1>1 DEF TableRow, Ready, SharesContext
  <2>3. Ids(candidates)' = Ids(c)
    BY <1>13 DEF Ids
  <2>4. CASE k # seed
    <3>1. k \in 1 .. seed - 1
      BY <2>4, <1>5, <1>6
    <3>2. \A j : WholeRow(j) => WholeRow(j)'
      BY <1>1, <1>15, <2>3, WholeStays
    <3>3. WholeRow(candidates[k].id)
      BY <3>1, <1>5
    <3>4. \A j : j = candidates[k].id => WholeRow(j)'
      BY <3>2, <3>3
    <3> QED
      BY <2>1, <3>4
  <2>5. CASE k = seed
    <3>1. ASSUME index[i].version = serving, Cardinality(TableRow(i)) <= Near
          PROVE  TableRow(i) \subseteq Ids(c)
      <4>1. TableRow(i) \subseteq ToSet(neighbours(i))
        BY <1>2, <1>9, <3>1, NeighboursHoldRow
      <4> QED
        BY <4>1, <1>10, <1>15 DEF m
    <3>2. \A j : j = i => WholeRow(j)'
      BY <1>1, <2>2, <2>3, <3>1 DEF WholeRow
    <3>3. candidates'[k].id = i
      BY <2>1, <2>5 DEF i
    <3> QED
      BY <3>2, <3>3
  <2> QED
    BY <2>4, <2>5
<1>18. seed' \in 1 .. Seeds + 1 /\ seed' - 1 = seed
  BY <1>1, <1>5, <1>6
<1>19. kept <= Len(c) /\ \A k \in 1 .. kept : c[k] = Kept(ranked)[k]
  BY <1>5, <1>6, <1>7, <1>8, <1>11, <1>12
<1>20. Listed'
  BY <1>1, <1>2, <1>4, <1>11, <1>13, <1>16, <1>17, <1>18, <1>19 DEF Listed, kept
<1>21. Expanded'
  BY <1>1, <1>2, <1>20 DEF Expanded, Merging
<1> QED
  BY <1>3, <1>21 DEF Inductive

LEMMA NextInductive == Inductive /\ [Next]_vars => Inductive'
<1> SUFFICES ASSUME Inductive, [Next]_vars PROVE Inductive'
  OBVIOUS
<1>1. CASE GraphSearch \/ LexicalSearch \/ VectorSearch
  BY <1>1, SearchInductive
<1>2. CASE NoEmbedding
  BY <1>2, NoEmbeddingInductive
<1>3. CASE Fuse
  BY <1>3, FuseInductive
<1>4. CASE ExpandOne
  BY <1>4, ExpandInductive
<1>5. CASE EndExpansion
  BY <1>5, EndExpansionInductive
<1>6. CASE Publish
  BY <1>6, PublishInductive
<1>7. CASE Finished \/ UNCHANGED vars
  BY <1>7, StutterInductive DEF Finished
<1> QED
  BY <1>1, <1>2, <1>3, <1>4, <1>5, <1>6, <1>7 DEF Next

LEMMA Invariance == Spec => []Inductive
  BY InitInductive, NextInductive, PTL DEF Spec

\* At the end each seed has its row, and nothing comes twice.
LEMMA RowsTravel ==
  ASSUME Inductive
  PROVE  RowTravelsWithItsValue
<1> SUFFICES ASSUME pc = "done" PROVE RowTravelsWithItsValue
  BY DEF RowTravelsWithItsValue
<1> DEFINE n == Len(candidates)
<1>1. Listed /\ Searched /\ (pass = "direct" => seed = Seeds + 1)
  BY DEF Inductive, Expanded, Merging
<1>2. /\ candidates \in Seq(Entries)
      /\ \A k, l \in 1 .. n : candidates[k].id = candidates[l].id => k = l
  BY <1>1 DEF Listed
<1>3. n \in Nat /\ DOMAIN candidates = 1 .. n
  BY <1>2
<1>4. Cardinality(Ids(candidates)) = n
  <2> DEFINE f == [k \in 1 .. n |-> candidates[k].id]
  <2> HIDE DEF n
  <2>1. f \in Bijection(1 .. n, Ids(candidates))
    <3>1. f \in [1 .. n -> Ids(candidates)]
      BY <1>3 DEF Ids
    <3>2. \A k, l \in 1 .. n : f[k] = f[l] => k = l
      BY <1>2
    <3>3. \A j \in Ids(candidates) : \E k \in 1 .. n : f[k] = j
      BY <1>3 DEF Ids
    <3> QED
      BY <3>1, <3>2, <3>3 DEF Bijection, Injection, Surjection, IsInjective
  <2>2. IsFiniteSet(1 .. n) /\ Cardinality(1 .. n) = n
    BY <1>3, FS_Interval
  <2>3. ExistsBijection(1 .. n, Ids(candidates))
    BY <2>1 DEF ExistsBijection
  <2> QED
    BY <2>2, <2>3, FS_Bijection
<1>5. ASSUME pass = "direct", NEW k \in 1 .. Seeds
      PROVE  WholeRow(candidates[k].id)
  <2>1. Seeds \in Nat
    BY <1>1, SeedsBounded
  <2>2. k \in 1 .. seed - 1
    BY <1>1, <1>5, <2>1
  <2> QED
    BY <1>1, <2>2 DEF Listed
<1> QED
  BY <1>4, <1>5 DEF RowTravelsWithItsValue, WholeRow, TableRow, Seeds

-----------------------------------------------------------------------------
(* The theorems.                                                           *)

\* Whatever an index holds and whatever the searches return of it, generated
\* Markdown takes no one's place in the direct pass, nor the rest in the mapped one,
\* as long as no search was cut (retrieve.py _admitted, fuse).
THEOREM MarkdownTakesNoPlace == Spec => []PassesDoNotCompete
<1>1. Inductive => PassesDoNotCompete
  BY MarkdownStandsApart
<1> QED
  BY <1>1, Invariance, PTL

\* With any RRF_K and any pool up to RRF_K + 1, of which the defaults of 60 and 60 are
\* one, two searches that agree outrank one (retrieve.py fuse).
THEOREM AgreementPrevails ==
  ASSUME Pool <= RRFK + 1
  PROVE  Spec => []AgreementOutranks
<1>1. Inductive => AgreementOutranks
  BY AgreementWins DEF Inductive
<1> QED
  BY <1>1, Invariance, PTL

\* Whatever is published between two statements, an expanded candidate that still
\* answers has its table row beside it, and nothing comes twice (retrieve.py expand).
THEOREM RowsTravelWhole == Spec => []RowTravelsWithItsValue
<1>1. Inductive => RowTravelsWithItsValue
  BY RowsTravel
<1> QED
  BY <1>1, Invariance, PTL
=============================================================================
