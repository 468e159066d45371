------------------------- MODULE ModelAnswersProofs -------------------------
(***************************************************************************)
(* Proofs about ModelAnswers: that grounding, which takes the first place  *)
(* each token fits, loses no placement; that what passes was asserted;     *)
(* that a silent model concludes nothing; that vectors find their texts;   *)
(* and that a crop shows what was cited.                                   *)
(***************************************************************************)
EXTENDS ModelAnswers, FiniteSetTheorems, WellFoundedInduction, SequenceTheorems, TLAPS

-----------------------------------------------------------------------------
(* Least and greatest elements, and lists.                                 *)

\* Every nonempty set of naturals has a least element.
LEMMA LeastNat ==
  ASSUME NEW S \in SUBSET Nat, S # {}
  PROVE  \E n \in S : \A m \in S : n <= m
<1> DEFINE T == {1 .. n : n \in S}
           R == StrictSubsetOrdering(Nat)
<1>1. T \subseteq FiniteSubsetsOf(Nat)
  BY FS_Interval DEF FiniteSubsetsOf
<1>2. PICK X \in T : \A Y \in T : ~(<<Y, X>> \in R)
  <2>1. IsWellFoundedOn(R, FiniteSubsetsOf(Nat))
    BY FS_StrictSubsetOrderingWellFounded
  <2>2. T # {}
    OBVIOUS
  <2> HIDE DEF T, R
  <2> QED
    BY <1>1, <2>1, <2>2, WFMin
<1>3. PICK n \in S : X = 1 .. n
  OBVIOUS
<1>4. ASSUME NEW m \in S, m < n PROVE FALSE
  <2>1. <<1 .. m, 1 .. n>> \in R
    <3>1. (1 .. m) \subseteq (1 .. n) /\ n \in 1 .. n /\ n \notin 1 .. m
      BY <1>4
    <3> QED
      BY <3>1 DEF StrictSubsetOrdering
  <2> QED
    BY <1>2, <1>3, <2>1
<1> QED
  BY <1>4

\* It is the Min of the set.
LEMMA LeastIsMin ==
  ASSUME NEW S \in SUBSET Nat, S # {}
  PROVE  Min(S) \in S /\ \A m \in S : Min(S) <= m
  BY LeastNat DEF Min

\* A bounded one has a greatest.
LEMMA GreatestIsMax ==
  ASSUME NEW b \in Nat, NEW S \in SUBSET (0 .. b), S # {}
  PROVE  Max(S) \in S /\ \A m \in S : Max(S) >= m
<1> DEFINE T == {n \in 0 .. b : \A m \in S : m <= n}
<1>1. b \in T
  OBVIOUS
<1>2. PICK n \in T : \A m \in T : n <= m
  <2>1. T \in SUBSET Nat /\ T # {}
    BY <1>1
  <2> HIDE DEF T
  <2> QED
    BY <2>1, LeastNat
<1>3. n \in S
  <2>1. SUFFICES ASSUME n \notin S PROVE FALSE
    OBVIOUS
  <2>2. \A m \in S : m <= n - 1
    BY <2>1
  <2>3. n > 0
    <3>1. PICK m \in S : TRUE
      OBVIOUS
    <3>2. m \in Nat /\ n \in Nat /\ m <= n - 1
      BY <2>2
    <3> QED
      BY <3>2
  <2>4. n - 1 \in T
    BY <2>2, <2>3
  <2> QED
    BY <2>4, <1>2
<1> QED
  BY <1>3 DEF Max

\* The smaller and the larger of two.
LEMMA MinOfTwo ==
  ASSUME NEW a \in Int, NEW b \in Int
  PROVE  Min({a, b}) = IF a <= b THEN a ELSE b
  BY DEF Min

LEMMA MaxOfTwo ==
  ASSUME NEW a \in Int, NEW b \in Int
  PROVE  Max({a, b}) = IF a <= b THEN b ELSE a
  BY DEF Max

\* A sequence over any set is one over its own elements.
LEMMA ListOver ==
  ASSUME NEW S, NEW s \in Seq(S)
  PROVE  /\ IsSequence(s)
         /\ Len(s) \in Nat /\ DOMAIN s = 1 .. Len(s)
         /\ \A k \in 1 .. Len(s) : s[k] \in S
<1>1. Len(s) \in Nat /\ s \in [1 .. Len(s) -> S] /\ DOMAIN s = 1 .. Len(s)
  OBVIOUS
<1>2. s \in [1 .. Len(s) -> ToSet(s)]
  BY <1>1 DEF ToSet
<1> QED
  BY <1>1, <1>2 DEF IsSequence

\* What a list is made of.
LEMMA ListElements ==
  ASSUME NEW s, IsSequence(s)
  PROVE  /\ Len(s) \in Nat /\ DOMAIN s = 1 .. Len(s)
         /\ s \in [1 .. Len(s) -> ToSet(s)]
         /\ \A k \in 1 .. Len(s) : s[k] \in ToSet(s)
         /\ s = <<>> <=> Len(s) = 0
         /\ \A x \in ToSet(s) : \E k \in 1 .. Len(s) : s[k] = x
  BY DEF IsSequence, ToSet

\* A list with one more element.
LEMMA Appended ==
  ASSUME NEW s, IsSequence(s), NEW x
  PROVE  /\ IsSequence(Append(s, x))
         /\ Len(Append(s, x)) = Len(s) + 1
         /\ \A k \in 1 .. Len(s) : Append(s, x)[k] = s[k]
         /\ Append(s, x)[Len(s) + 1] = x
         /\ Last(Append(s, x)) = x
<1> DEFINE T == ToSet(s) \union {x}
<1>1. s \in Seq(T)
  BY ListElements
<1>2. Append(s, x) \in Seq(T) /\ x \in T
  BY <1>1
<1>3. IsSequence(Append(s, x))
  BY <1>2, ListOver
<1>4. Len(Append(s, x)) = Len(s) + 1 /\ Append(s, x)[Len(s) + 1] = x
  BY <1>1, <1>2
<1>5. \A k \in 1 .. Len(s) : Append(s, x)[k] = s[k]
  BY <1>1, <1>2
<1> QED
  BY <1>3, <1>4, <1>5 DEF Last

-----------------------------------------------------------------------------
(* Grounding: the first place each token fits.                             *)

\* The places in the post where the first n tokens of a claim occur in order.
Embeddings(n, claim, post) ==
  {e \in [1 .. n -> 1 .. Len(post)] :
     /\ \A i \in 1 .. n : post[e[i]] = claim[i]
     /\ \A i, j \in 1 .. n : i < j => e[i] < e[j]}

\* Such a placement, with no token later than in any other.
Earliest(places, claim, post) ==
  /\ Len(places) \in 0 .. Len(claim)
  /\ places \in Embeddings(Len(places), claim, post)
  /\ \A n \in 1 .. Len(places) : \A e \in Embeddings(n, claim, post) : places[n] <= e[n]

\* ground_claim's cursor: past the last token placed.
Past(places) == IF places = <<>> THEN 1 ELSE places[Len(places)] + 1

From(start, post, token) == {i \in start .. Len(post) : post[i] = token}

\* A placement of n tokens places the first k of them.
LEMMA EmbeddingShortened ==
  ASSUME NEW claim, NEW post, NEW n \in Nat, NEW k \in 0 .. n,
         NEW e \in Embeddings(n, claim, post)
  PROVE  [i \in 1 .. k |-> e[i]] \in Embeddings(k, claim, post)
  BY DEF Embeddings

\* Embeds, and its instance for a prefix, in terms of placements.
LEMMA EmbedsIsEmbedding ==
  ASSUME NEW claim, IsSequence(claim), NEW post
  PROVE  Embeds(claim, post) <=> Embeddings(Len(claim), claim, post) # {}
  BY DEF Embeds, Embeddings

LEMMA PrefixEmbeds ==
  ASSUME NEW claim, IsSequence(claim), NEW post, NEW n \in 1 .. Len(claim)
  PROVE  Embeds(SubSeq(claim, 1, n), post) <=> Embeddings(n, claim, post) # {}
<1>1. claim \in Seq(ToSet(claim)) /\ Len(claim) \in Nat
  BY DEF IsSequence
<1>2. Len(SubSeq(claim, 1, n)) = n /\ \A i \in 1 .. n : SubSeq(claim, 1, n)[i] = claim[i]
  BY <1>1
<1> QED
  BY <1>2 DEF Embeds, Embeddings

\* The first token that no placement reaches is the one the claim is lost at.
LEMMA LostAtFirst ==
  ASSUME NEW claim, IsSequence(claim), NEW post, NEW n \in 1 .. Len(claim),
         Embeddings(n, claim, post) = {}, Embeddings(n - 1, claim, post) # {}
  PROVE  LostAt(claim, post) = n /\ ~Embeds(claim, post)
<1> DEFINE S == {k \in 1 .. Len(claim) : ~Embeds(SubSeq(claim, 1, k), post)}
<1>1. Len(claim) \in Nat
  BY ListElements
<1>2. n \in S
  BY PrefixEmbeds
<1>3. ASSUME NEW k \in S, k < n PROVE FALSE
  <2>1. PICK e : e \in Embeddings(n - 1, claim, post)
    OBVIOUS
  <2>2. [i \in 1 .. k |-> e[i]] \in Embeddings(k, claim, post)
    BY <1>1, <1>3, <2>1, EmbeddingShortened
  <2> QED
    BY <1>3, <2>2, PrefixEmbeds
<1>4. Min(S) = n
  <2>1. S \in SUBSET Nat /\ S # {} /\ n \in Nat
    BY <1>1, <1>2
  <2>2. Min(S) \in S /\ Min(S) <= n
    BY <2>1, <1>2, LeastIsMin
  <2>3. Min(S) \in Nat
    BY <2>1, <2>2
  <2> HIDE DEF S
  <2> QED
    BY <2>1, <2>2, <2>3, <1>3
<1>5. ~Embeds(claim, post)
  <2>1. ASSUME NEW e \in Embeddings(Len(claim), claim, post) PROVE FALSE
    <3>1. Len(claim) \in Nat /\ n \in 0 .. Len(claim)
      BY <1>1
    <3>2. [i \in 1 .. n |-> e[i]] \in Embeddings(n, claim, post)
      BY <3>1, EmbeddingShortened
    <3> QED
      BY <3>2
  <2> QED
    BY <2>1, EmbedsIsEmbedding
<1> QED
  BY <1>4, <1>5 DEF LostAt

\* Wherever the next token is put, a placement keeps it past the earliest ones.
LEMMA NextTokenIsPast ==
  ASSUME NEW claim, IsSequence(claim), NEW post, IsSequence(post), NEW places,
         Earliest(places, claim, post), Len(places) < Len(claim),
         NEW e \in Embeddings(Len(places) + 1, claim, post)
  PROVE  e[Len(places) + 1] \in From(Past(places), post, claim[Len(places) + 1])
<1> DEFINE n == Len(places)
<1>1. n \in Nat /\ Len(claim) \in Nat /\ Len(post) \in Nat
  BY ListElements DEF Earliest
<1>2. e[n + 1] \in 1 .. Len(post) /\ post[e[n + 1]] = claim[n + 1]
  BY <1>1 DEF Embeddings
<1>3. CASE n = 0
  BY <1>1, <1>2, <1>3 DEF From, Past, Earliest, Embeddings
<1>4. CASE n # 0
  <2>1. [i \in 1 .. n |-> e[i]] \in Embeddings(n, claim, post)
    BY <1>1, EmbeddingShortened
  <2>2. places[n] <= [i \in 1 .. n |-> e[i]][n]
    BY <1>1, <1>4, <2>1 DEF Earliest
  <2>3. places[n] <= e[n] /\ e[n] < e[n + 1] /\ places[n] \in Int /\ e[n] \in Int
    BY <1>1, <1>4, <2>2 DEF Embeddings, Earliest
  <2>4. places # <<>>
    BY <1>4
  <2> QED
    BY <1>1, <1>2, <2>3, <2>4 DEF From, Past
<1> QED
  BY <1>3, <1>4

\* Placing a token at the first place it fits keeps the placement the earliest.
LEMMA PlacedEarliest ==
  ASSUME NEW claim, IsSequence(claim), NEW post, IsSequence(post),
         NEW places \in Seq(Nat),
         Earliest(places, claim, post), Len(places) < Len(claim),
         From(Past(places), post, claim[Len(places) + 1]) # {}
  PROVE  LET at == Min(From(Past(places), post, claim[Len(places) + 1]))
         IN  /\ at \in Nat
             /\ Earliest(Append(places, at), claim, post)
             /\ Past(Append(places, at)) = at + 1
<1> DEFINE n == Len(places)
           F == From(Past(places), post, claim[n + 1])
           at == Min(F)
           longer == Append(places, at)
<1>1. n \in Nat /\ Len(claim) \in Nat /\ Len(post) \in Nat
  BY ListElements
<1>2. /\ Past(places) \in 1 .. Len(post) + 1
      /\ \A i \in 1 .. n : places[i] \in 1 .. Len(post) /\ places[i] < Past(places)
  <2>1. CASE n = 0
    BY <1>1, <2>1 DEF Past, Earliest, Embeddings
  <2>2. CASE n # 0
    <3>1. places # <<>> /\ n \in 1 .. n
      BY <1>1, <2>2
    <3>2. \A i \in 1 .. n : places[i] \in 1 .. Len(post)
      BY DEF Earliest, Embeddings
    <3>3. \A i \in 1 .. n : i < n => places[i] < places[n]
      BY <3>1 DEF Earliest, Embeddings
    <3>4. Past(places) = places[n] + 1
      BY <3>1 DEF Past
    <3>5. places[n] \in 1 .. Len(post)
      BY <3>1, <3>2
    <3>6. ASSUME NEW i \in 1 .. n PROVE places[i] \in 1 .. Len(post) /\ places[i] <= places[n]
      <4>1. CASE i = n
        BY <3>5, <4>1
      <4>2. CASE i # n
        BY <1>1, <3>2, <3>3, <4>2
      <4> QED
        BY <4>1, <4>2
    <3> QED
      BY <1>1, <3>4, <3>5, <3>6
  <2> QED
    BY <2>1, <2>2
<1>3. at \in F /\ \A i \in F : at <= i
  <2>1. F \in SUBSET Nat /\ F # {}
    BY <1>1, <1>2 DEF From
  <2> HIDE DEF F
  <2> QED
    BY <2>1, LeastIsMin
<1>4. at \in 1 .. Len(post) /\ at >= Past(places) /\ post[at] = claim[n + 1]
  BY <1>1, <1>2, <1>3 DEF From
<1> HIDE DEF at
<1>5. /\ Len(longer) = n + 1 /\ longer[n + 1] = at
      /\ \A i \in 1 .. n : longer[i] = places[i]
      /\ longer \in [1 .. n + 1 -> 1 .. Len(post)]
  <2>1. at \in Nat
    BY <1>1, <1>4
  <2>2. Len(longer) = n + 1 /\ longer[n + 1] = at
    BY <2>1
  <2>3. \A i \in 1 .. n : longer[i] = places[i]
    BY <2>1
  <2>4. longer \in Seq(Nat)
    BY <2>1
  <2>5. \A i \in 1 .. n + 1 : longer[i] \in 1 .. Len(post)
    BY <1>1, <1>2, <1>4, <2>2, <2>3
  <2> HIDE DEF longer
  <2> QED
    BY <2>2, <2>3, <2>4, <2>5
<1>6. longer \in Embeddings(n + 1, claim, post)
  <2>1. \A i \in 1 .. n + 1 : post[longer[i]] = claim[i]
    BY <1>1, <1>4, <1>5 DEF Earliest, Embeddings
  <2>2. ASSUME NEW i \in 1 .. n + 1, NEW j \in 1 .. n + 1, i < j PROVE longer[i] < longer[j]
    <3>1. CASE j = n + 1
      BY <1>1, <1>2, <1>4, <1>5, <2>2, <3>1
    <3>2. CASE j # n + 1
      <4>1. i \in 1 .. n /\ j \in 1 .. n
        BY <1>1, <2>2, <3>2
      <4> QED
        BY <1>5, <2>2, <4>1 DEF Earliest, Embeddings
    <3> QED
      BY <3>1, <3>2
  <2> HIDE DEF longer
  <2> QED
    BY <1>5, <2>1, <2>2 DEF Embeddings
<1>7. ASSUME NEW k \in 1 .. n + 1, NEW e \in Embeddings(k, claim, post)
      PROVE longer[k] <= e[k]
  <2>1. CASE k = n + 1
    <3>1. e[n + 1] \in F
      BY <2>1, <1>7, NextTokenIsPast
    <3> QED
      BY <1>3, <1>5, <2>1, <3>1
  <2>2. CASE k # n + 1
    <3>1. k \in 1 .. n
      BY <1>1, <2>2
    <3> QED
      BY <1>5, <1>7, <3>1 DEF Earliest
  <2> QED
    BY <2>1, <2>2
<1>8. Past(longer) = at + 1
  <2>1. longer # <<>>
    BY <1>1, <1>5
  <2> QED
    BY <1>5, <2>1 DEF Past
<1> HIDE DEF longer
<1>9. Earliest(longer, claim, post)
  BY <1>1, <1>5, <1>6, <1>7 DEF Earliest
<1> QED
  BY <1>1, <1>4, <1>8, <1>9 DEF at, longer

-----------------------------------------------------------------------------
(* What the splitter's reply becomes.                                      *)

\* decompose_claims keeps a list of texts: blank ones dropped, none made up.
LEMMA ProposalsAreTexts ==
  ASSUME NEW split \in SplitReplies, NEW blank
  PROVE  /\ IsSequence(Proposals(split, blank))
         /\ \A k \in DOMAIN Proposals(split, blank) : IsSequence(Proposals(split, blank)[k])
<1> DEFINE L == Len(split)
           step(f, n) == IF n = 0 THEN <<>>
                         ELSE IF n \in blank THEN f[n - 1] ELSE Append(f[n - 1], split[n])
           Upto(f, n) == f = [k \in 0 .. n |-> step(f, k)]
           T == ToSet(split)
<1>1. /\ L \in Nat
      /\ \A n \in 1 .. L : split[n] \in T
      /\ \A t \in T : IsSequence(t)
  <2>1. IsSequence(split) /\ \A k \in DOMAIN split : IsSequence(split[k])
    BY ConstantsAssumption
  <2> QED
    BY <2>1, ListElements
<1>2. \A n \in 0 .. L : \E f : Upto(f, n)
  <2> DEFINE Bad == {n \in 0 .. L : ~ \E f : Upto(f, n)}
  <2>1. SUFFICES ASSUME Bad # {} PROVE FALSE
    OBVIOUS
  <2>2. PICK n \in Bad : \A m \in Bad : n <= m
    <3>1. Bad \in SUBSET Nat
      BY <1>1
    <3> HIDE DEF Bad
    <3> QED
      BY <2>1, <3>1, LeastNat
  <2>3. CASE n = 0
    <3>1. Upto([k \in 0 .. 0 |-> <<>>], 0)
      OBVIOUS
    <3> QED
      BY <2>2, <2>3, <3>1
  <2>4. CASE n # 0
    <3>1. n \in Nat /\ n - 1 \in 0 .. L /\ n - 1 \notin Bad
      <4>1. n \in 1 .. L /\ n - 1 \in 0 .. L /\ ~(n <= n - 1)
        BY <1>1, <2>4
      <4> HIDE DEF Bad
      <4> QED
        BY <2>2, <4>1
    <3>2. PICK g : Upto(g, n - 1)
      BY <3>1
    <3> DEFINE f == [k \in 0 .. n |-> IF k < n THEN g[k] ELSE step(g, n)]
    <3>3. ASSUME NEW k \in 0 .. n PROVE f[k] = step(f, k)
      <4>1. CASE k = n
        <5>1. f[n] = step(g, n) /\ f[n - 1] = g[n - 1]
          BY <3>1
        <5> QED
          BY <2>4, <4>1, <5>1
      <4>2. CASE k # n
        <5>1. k \in 0 .. n - 1 /\ f[k] = g[k] /\ (k # 0 => f[k - 1] = g[k - 1])
          BY <3>1, <4>2
        <5>2. g[k] = step(g, k)
          BY <3>2, <5>1
        <5> QED
          BY <5>1, <5>2
      <4> QED
        BY <4>1, <4>2
    <3>4. Upto(f, n)
      <4>1. f = [k \in 0 .. n |-> f[k]]
        OBVIOUS
      <4> HIDE DEF f, step
      <4> QED
        BY <3>3, <4>1
    <3> QED
      BY <2>2, <3>4
  <2> QED
    BY <2>3, <2>4
<1> DEFINE upto == CHOOSE f : Upto(f, L)
<1>3. Upto(upto, L)
  <2>1. \E f : Upto(f, L)
    <3>1. L \in 0 .. L
      BY <1>1
    <3> HIDE DEF Upto, L
    <3> QED
      BY <1>2, <3>1
  <2> HIDE DEF Upto
  <2> QED
    BY <2>1
<1>4. Proposals(split, blank) = upto[L]
  BY DEF Proposals
<1> HIDE DEF upto
<1>5. \A n \in 0 .. L : upto[n] \in Seq(T)
  <2> DEFINE Bad == {n \in 0 .. L : upto[n] \notin Seq(T)}
  <2>1. SUFFICES ASSUME Bad # {} PROVE FALSE
    OBVIOUS
  <2>2. PICK n \in Bad : \A m \in Bad : n <= m
    <3>1. Bad \in SUBSET Nat
      BY <1>1
    <3> HIDE DEF Bad
    <3> QED
      BY <2>1, <3>1, LeastNat
  <2>3. upto[n] = step(upto, n) /\ n \in 0 .. L
    BY <1>3, <2>2
  <2>4. CASE n = 0
    <3>1. upto[n] = <<>>
      BY <2>3, <2>4
    <3>2. <<>> \in Seq(T)
      <4> HIDE DEF T
      <4> QED
        OBVIOUS
    <3> HIDE DEF T
    <3> QED
      BY <2>2, <3>1, <3>2
  <2>5. CASE n # 0
    <3>1. n \in 1 .. L /\ n - 1 \in 0 .. L /\ ~(n <= n - 1)
      BY <1>1, <2>3, <2>5
    <3>2. n - 1 \notin Bad
      <4> HIDE DEF Bad
      <4> QED
        BY <2>2, <3>1
    <3>3. upto[n - 1] \in Seq(T) /\ split[n] \in T
      BY <1>1, <3>1, <3>2
    <3>4. upto[n] = upto[n - 1] \/ upto[n] = Append(upto[n - 1], split[n])
      BY <2>3, <2>5
    <3>5. upto[n] \in Seq(T)
      <4> HIDE DEF T
      <4>1. \A s \in Seq(T), t \in T : Append(s, t) \in Seq(T)
        OBVIOUS
      <4> QED
        BY <3>3, <3>4, <4>1
    <3> QED
      BY <2>2, <3>5
  <2> QED
    BY <2>4, <2>5
<1>6. Proposals(split, blank) \in Seq(T)
  BY <1>1, <1>4, <1>5
<1> HIDE DEF T
<1> QED
  BY <1>1, <1>6, ListOver

-----------------------------------------------------------------------------
(* The inductive invariant.                                                *)

Shapes ==
  /\ request \in Requests /\ pc \in {"start", "ask", "ground", "done"}
  /\ IsSequence(claims) /\ \A k \in DOMAIN claims : IsSequence(claims[k])
  /\ IsSequence(grounded) /\ Len(grounded) <= Len(claims)
  /\ matched \in Seq(Nat) /\ cursor \in Nat
  /\ IsSequence(replies)

\* How far a call has come, and what it cannot have yet.
Stages ==
  /\ pc # "done" => checks = <<>> /\ result = "none"
  /\ pc = "start" \/ (pc = "ask" /\ ~Op("verify")) => grounded = <<>> /\ matched = <<>> /\ cursor = 1
  /\ pc = "ground" => Op("decompose") \/ Op("verify")

\* The claim being grounded: its tokens up to here are placed as early as they fit.
Placing ==
  pc = "ground" =>
    /\ cursor = Past(matched)
    /\ Len(grounded) = Len(claims) => matched = <<>>
    /\ Len(grounded) < Len(claims) => Earliest(matched, Current, request.source)

RightlyGrounded(claim, outcome) ==
  IF claim = <<>> THEN outcome.reason = "empty_claim"
  ELSE IF Embeds(claim, request.source)
    THEN /\ outcome.grounding = "token_grounded"
         /\ \A i \in DOMAIN claim : request.source[outcome.at[i]] = claim[i]
    ELSE /\ outcome.grounding = "not_grounded"
         /\ outcome.reason = "protected_token_changed" <=>
              claim[LostAt(claim, request.source)] \in Protected

Decided ==
  \A c \in DOMAIN grounded :
    /\ RightlyGrounded(claims[c], grounded[c])
    /\ grounded[c].grounding = "token_grounded" => claims[c] # <<>>

AllGrounded ==
  /\ Len(claims) \in 1 .. MaxClaims /\ Len(grounded) = Len(claims)
  /\ \A c \in DOMAIN grounded : grounded[c].grounding = "token_grounded"

\* The entailment question is asked about claims that are all grounded.
Asked == pc = "ask" /\ Op("verify") => AllGrounded

\* What came of the requests to the model so far.
Replied ==
  /\ Op("embed") => replies = <<>>
  /\ pc = "start" => replies = <<>>
  /\ pc = "ask" => Len(replies) <= 1 /\ \A k \in 1 .. Len(replies) : replies[k] = "invalid"
  /\ pc = "ground" =>
       IF Op("verify") THEN replies = <<>>
       ELSE /\ Len(replies) \in 1 .. 2 /\ Last(replies) = "valid"
            /\ \A k \in 1 .. Len(replies) - 1 : replies[k] = "invalid"

\* Batches are stored whole: all but the last are of BatchSize texts.
Batched ==
  Op("embed") =>
    /\ Len(vectors) \in 0 .. request.pending
    /\ vectors = [t \in 1 .. Len(vectors) |-> VectorOf(t)]
    /\ Len(vectors) < request.pending => \E batches \in 0 .. request.pending : Len(vectors) = batches * BatchSize
    /\ pc = "ask" => Chunk # {}
    /\ result = "embedded" => Len(vectors) = request.pending

Cut ==
  crop # <<>> =>
    /\ Op("crop") /\ request.regions # {}
    /\ crop = CropBox(request.regions, request.width)

GroundingInvariant == Shapes /\ Stages /\ Placing /\ Decided /\ Asked

\* What a request carries, by its kind.
LEMMA RequestArguments ==
  ASSUME request \in Requests
  PROVE  /\ request.op \in {"decompose", "verify", "crop", "embed"}
         /\ Op("decompose") \/ Op("verify") => request.source \in Posts /\ IsSequence(request.source)
         /\ Op("verify") => request.submitted \in ClaimLists
         /\ Op("crop") => request.regions \in RegionLists /\ request.width \in Nat \ {0}
         /\ Op("embed") => request.pending \in Nat /\ request.backend \in {"ollama", "llamacpp"}
<1>1. CASE request \in [op : {"decompose"}, valid : BOOLEAN, source : Posts]
  BY <1>1, ConstantsAssumption DEF Op
<1>2. CASE request \in [op : {"verify"}, valid : BOOLEAN, source : Posts, submitted : ClaimLists]
  BY <1>2, ConstantsAssumption DEF Op
<1>3. CASE request \in [op : {"crop"}, regions : RegionLists, readable : BOOLEAN, width : Widths,
                        figure : {{}} \union {{f} : f \in Figures}]
  BY <1>3, ConstantsAssumption DEF Op
<1>4. CASE request \in [op : {"embed"}, backend : {"ollama", "llamacpp"}, pending : 0..MaxPending]
  BY <1>4, ConstantsAssumption DEF Op
<1> QED
  BY <1>1, <1>2, <1>3, <1>4 DEF Requests

\* Nothing yet.
LEMMA EmptyList ==
  IsSequence(<<>>) /\ Len(<<>>) = 0 /\ DOMAIN <<>> = {}
  BY DEF IsSequence

\* No token placed is the earliest placement of no token.
LEMMA EmptyEarliest ==
  ASSUME NEW claim, IsSequence(claim), NEW post
  PROVE  Earliest(<<>>, claim, post)
<1>1. Len(claim) \in Nat /\ Len(<<>>) = 0
  BY ListElements
<1>2. <<>> \in Embeddings(0, claim, post)
  BY DEF Embeddings
<1> QED
  BY <1>1, <1>2 DEF Earliest

\* The claim being grounded, and where its next token may go.
LEMMA CurrentClaim ==
  ASSUME GroundingInvariant, Grounding
  PROVE  /\ Len(grounded) \in Nat /\ Len(claims) \in Nat
         /\ Len(grounded) + 1 \in 1 .. Len(claims) /\ Current = claims[Len(grounded) + 1]
         /\ IsSequence(Current) /\ IsSequence(request.source)
         /\ Earliest(matched, Current, request.source)
         /\ Placements = From(Past(matched), request.source, Token)
<1>1. /\ IsSequence(claims) /\ IsSequence(grounded)
      /\ Len(grounded) < Len(claims) /\ pc = "ground"
  BY DEF GroundingInvariant, Shapes, Grounding
<1>2. /\ Len(grounded) \in Nat /\ Len(claims) \in Nat
      /\ Len(grounded) + 1 \in DOMAIN claims /\ Len(grounded) + 1 \in 1 .. Len(claims)
  BY <1>1, ListElements
<1>3. IsSequence(Current)
  BY <1>2 DEF Current, GroundingInvariant, Shapes
<1>4. IsSequence(request.source)
  BY <1>1, RequestArguments DEF GroundingInvariant, Shapes, Stages
<1>5. Earliest(matched, Current, request.source) /\ cursor = Past(matched)
  BY <1>1 DEF GroundingInvariant, Placing
<1> QED
  BY <1>2, <1>3, <1>4, <1>5 DEF Current, Placements, From

\* A verdict stands while its claim and the post do.
LEMMA DecidedStill ==
  ASSUME Decided, UNCHANGED <<request, claims, grounded>>
  PROVE  Decided'
  BY DEF Decided, RightlyGrounded

\* A step that grounds nothing.
LEMMA NothingGrounded ==
  ASSUME GroundingInvariant, UNCHANGED <<request, grounding>>, IsSequence(replies'),
         pc' \in {"start", "ask", "done"},
         pc' # "done" => checks' = checks /\ result' = result /\ pc # "done",
         pc' \in {"start", "ask"} => \/ pc' = pc
                                     \/ pc \in {"start", "ask"} /\ ~Op("verify")
                                     \/ Op("verify") /\ AllGrounded /\ pc' = "ask"
  PROVE  GroundingInvariant'
<1> USE DEF GroundingInvariant, grounding
<1>1. Shapes'
  BY DEF Shapes
<1>2. Stages'
  BY DEF Stages, Op
<1>3. Placing'
  BY DEF Placing
<1>4. Decided'
  BY DecidedStill
<1>5. Asked'
  BY DEF Asked, AllGrounded, Op, Stages
<1> QED
  BY <1>1, <1>2, <1>3, <1>4, <1>5

\* A list of claims to ground arrives.
LEMMA ClaimsArrive ==
  ASSUME GroundingInvariant, UNCHANGED <<request, grounded, cursor, matched, checks, result>>,
         Op("decompose") \/ Op("verify"), pc # "done",
         grounded = <<>>, matched = <<>>, cursor = 1, pc' = "ground",
         IsSequence(replies'), IsSequence(claims'), \A k \in DOMAIN claims' : IsSequence(claims'[k])
  PROVE  GroundingInvariant'
<1> USE DEF GroundingInvariant
<1>1. Len(grounded) = 0 /\ DOMAIN grounded = {} /\ Len(claims') \in Nat
  BY EmptyList, ListElements
<1>2. Shapes'
  BY <1>1 DEF Shapes
<1>3. Stages'
  BY DEF Stages, Op
<1>4. Placing'
  <2>1. ASSUME Len(grounded) < Len(claims') PROVE Earliest(matched, Current', request.source)
    <3>1. 1 \in DOMAIN claims'
      BY <1>1, <2>1, ListElements
    <3>2. IsSequence(claims'[1])
      BY <3>1
    <3>3. Current' = claims'[1]
      BY <1>1 DEF Current
    <3> QED
      BY <3>2, <3>3, EmptyEarliest
  <2> QED
    BY <2>1 DEF Placing, Past
<1>5. Decided'
  BY <1>1 DEF Decided
<1>6. Asked'
  BY DEF Asked
<1> QED
  BY <1>2, <1>3, <1>4, <1>5, <1>6

\* A claim is grounded or refused, and the next one is begun.
LEMMA ClaimDecided ==
  ASSUME GroundingInvariant, Grounding, NEW outcome, NextClaim(outcome),
         UNCHANGED <<request, pc, claims, replies, checks, result>>,
         RightlyGrounded(Current, outcome),
         outcome.grounding = "token_grounded" => Current # <<>>
  PROVE  GroundingInvariant'
<1> USE DEF GroundingInvariant
<1> DEFINE n == Len(grounded)
<1>1. /\ n \in Nat /\ Len(claims) \in Nat /\ n + 1 \in 1 .. Len(claims)
      /\ Current = claims[n + 1] /\ IsSequence(grounded)
  BY CurrentClaim DEF Shapes
<1>2. /\ grounded' = Append(grounded, outcome) /\ cursor' = 1 /\ matched' = <<>>
      /\ IsSequence(grounded') /\ Len(grounded') = n + 1 /\ grounded'[n + 1] = outcome
      /\ \A k \in 1 .. n : grounded'[k] = grounded[k]
  BY <1>1, Appended DEF NextClaim
<1>3. Shapes'
  BY <1>1, <1>2 DEF Shapes
<1>4. Stages'
  BY DEF Stages, Op, Grounding
<1>5. Placing'
  <2>1. ASSUME Len(grounded') < Len(claims) PROVE Earliest(<<>>, Current', request.source)
    <3>1. n + 2 \in DOMAIN claims /\ Len(grounded') + 1 = n + 2
      BY <1>1, <1>2, <2>1, ListElements DEF Shapes
    <3>2. IsSequence(claims[n + 2])
      BY <3>1 DEF Shapes
    <3>3. Current' = claims[n + 2]
      BY <3>1 DEF Current
    <3> QED
      BY <3>2, <3>3, EmptyEarliest
  <2> QED
    BY <1>2, <2>1 DEF Placing, Past
<1>6. Decided'
  <2>1. DOMAIN grounded = 1 .. n /\ DOMAIN grounded' = 1 .. n + 1
    BY <1>1, <1>2, ListElements
  <2>2. ASSUME NEW c \in 1 .. n + 1
        PROVE  /\ RightlyGrounded(claims[c], grounded'[c])
               /\ grounded'[c].grounding = "token_grounded" => claims[c] # <<>>
    <3>1. CASE c = n + 1
      BY <1>1, <1>2, <3>1
    <3>2. CASE c # n + 1
      <4>1. c \in DOMAIN grounded /\ grounded'[c] = grounded[c]
        BY <1>1, <1>2, <2>1, <3>2
      <4> QED
        BY <4>1 DEF Decided
    <3> QED
      BY <3>1, <3>2
  <2> QED
    BY <2>1, <2>2 DEF Decided, RightlyGrounded
<1>7. Asked'
  BY DEF Asked, Grounding
<1> QED
  BY <1>3, <1>4, <1>5, <1>6, <1>7

\* PlaceToken, AcceptClaim and RefuseClaim.
LEMMA TokenPlaced ==
  ASSUME GroundingInvariant, PlaceToken
  PROVE  GroundingInvariant'
<1> USE DEF GroundingInvariant
<1> DEFINE at == Min(Placements)
<1>1. /\ IsSequence(Current) /\ IsSequence(request.source)
      /\ Earliest(matched, Current, request.source)
      /\ Placements = From(Past(matched), request.source, Current[Len(matched) + 1])
      /\ Len(matched) < Len(Current) /\ Placements # {} /\ matched \in Seq(Nat)
  BY CurrentClaim DEF PlaceToken, Token, Shapes
<1>2. /\ at \in Nat
      /\ Earliest(Append(matched, at), Current, request.source)
      /\ Past(Append(matched, at)) = at + 1
  BY <1>1, PlacedEarliest
<1>3. /\ matched' = Append(matched, at) /\ cursor' = at + 1
      /\ UNCHANGED <<request, pc, claims, grounded, replies, checks, result>>
      /\ pc = "ground" /\ Len(grounded) < Len(claims)
  BY DEF PlaceToken, Grounding
<1> HIDE DEF at
<1>4. Shapes'
  BY <1>1, <1>2, <1>3 DEF Shapes
<1>5. Stages'
  BY <1>3 DEF Stages, Op
<1>6. Placing'
  <2>1. Len(grounded) \in Nat /\ Len(claims) \in Nat
    BY ListElements DEF Shapes
  <2> QED
    BY <1>2, <1>3, <2>1 DEF Placing, Current
<1>7. Decided'
  BY <1>3, DecidedStill
<1>8. Asked'
  BY <1>3 DEF Asked
<1> QED
  BY <1>4, <1>5, <1>6, <1>7, <1>8

LEMMA ClaimAccepted ==
  ASSUME GroundingInvariant, AcceptClaim
  PROVE  GroundingInvariant'
<1> DEFINE outcome == [grounding |-> "token_grounded", reason |-> "none", at |-> matched]
<1>1. /\ IsSequence(Current) /\ Earliest(matched, Current, request.source)
      /\ Current # <<>> /\ Len(matched) = Len(Current)
      /\ Grounding /\ NextClaim(outcome)
      /\ UNCHANGED <<request, pc, claims, replies, checks, result>>
  BY CurrentClaim DEF AcceptClaim
<1>2. matched \in Embeddings(Len(Current), Current, request.source)
  BY <1>1 DEF Earliest
<1>3. Embeds(Current, request.source)
  BY <1>1, <1>2, EmbedsIsEmbedding
<1>4. \A i \in DOMAIN Current : request.source[matched[i]] = Current[i]
  BY <1>1, <1>2, ListElements DEF Embeddings
<1>5. RightlyGrounded(Current, outcome)
  BY <1>1, <1>3, <1>4 DEF RightlyGrounded
<1> QED
  BY <1>1, <1>5, ClaimDecided

LEMMA ClaimRefused ==
  ASSUME GroundingInvariant, RefuseClaim
  PROVE  GroundingInvariant'
<1>1. /\ IsSequence(Current) /\ IsSequence(request.source)
      /\ Earliest(matched, Current, request.source)
      /\ Placements = From(Past(matched), request.source, Token) /\ Grounding
      /\ UNCHANGED <<request, pc, claims, replies, checks, result>>
  BY CurrentClaim DEF RefuseClaim
<1>2. CASE /\ Current = <<>>
           /\ NextClaim([grounding |-> "not_grounded", reason |-> "empty_claim", at |-> <<>>])
  <2> DEFINE outcome == [grounding |-> "not_grounded", reason |-> "empty_claim", at |-> <<>>]
  <2>1. RightlyGrounded(Current, outcome) /\ outcome.grounding # "token_grounded"
    BY <1>2 DEF RightlyGrounded
  <2> QED
    BY <1>1, <1>2, <2>1, ClaimDecided
<1>3. CASE /\ Len(matched) < Len(Current) /\ Placements = {}
           /\ NextClaim([grounding |-> "not_grounded", at |-> <<>>,
                         reason |-> IF Token \in Protected THEN "protected_token_changed"
                                    ELSE "token_not_in_source"])
  <2> DEFINE n == Len(matched) + 1
             outcome == [grounding |-> "not_grounded", at |-> <<>>,
                         reason |-> IF Token \in Protected THEN "protected_token_changed"
                                    ELSE "token_not_in_source"]
  <2>1. Len(matched) \in Nat /\ Len(Current) \in Nat /\ n \in 1 .. Len(Current) /\ n - 1 = Len(matched)
    BY <1>1, <1>3, ListElements DEF GroundingInvariant, Shapes
  <2>2. Token = Current[n]
    BY DEF Token
  <2>3. Embeddings(n, Current, request.source) = {}
    BY <1>1, <1>3, <2>2, NextTokenIsPast
  <2>4. Embeddings(n - 1, Current, request.source) # {}
    BY <1>1, <2>1 DEF Earliest
  <2>5. LostAt(Current, request.source) = n /\ ~Embeds(Current, request.source)
    BY <1>1, <2>1, <2>3, <2>4, LostAtFirst
  <2>6. Current # <<>>
    BY <2>1
  <2>7. RightlyGrounded(Current, outcome) /\ outcome.grounding # "token_grounded"
    BY <2>2, <2>5, <2>6 DEF RightlyGrounded
  <2> QED
    BY <1>1, <1>3, <2>7, ClaimDecided
<1> QED
  BY <1>2, <1>3 DEF RefuseClaim

\* ByIndex reads a check the verifier sent.
LEMMA ByIndexReads ==
  ASSUME NEW list \in CheckLists, NEW i \in DOMAIN ByIndex(list)
  PROVE  \E check \in ToSet(list) : check.index = i /\ check.outcome = ByIndex(list)[i]
<1> DEFINE S == {k \in DOMAIN list : list[k].index = i}
<1>1. IsSequence(list)
  BY ConstantsAssumption
<1>2. /\ Len(list) \in Nat /\ DOMAIN list = 1 .. Len(list)
      /\ \A k \in 1 .. Len(list) : list[k] \in ToSet(list)
      /\ \A x \in ToSet(list) : \E k \in 1 .. Len(list) : list[k] = x
  BY <1>1, ListElements
<1>3. i \in {check.index : check \in ToSet(list)} /\ ByIndex(list)[i] = list[Max(S)].outcome
  BY DEF ByIndex
<1>4. S # {} /\ S \in SUBSET (0 .. Len(list))
  <2>1. PICK check \in ToSet(list) : check.index = i
    BY <1>3
  <2>2. PICK k \in 1 .. Len(list) : list[k] = check
    BY <1>2, <2>1
  <2>3. k \in S
    BY <1>2, <2>1, <2>2
  <2> QED
    BY <1>2, <2>3
<1>5. Max(S) \in S
  <2> HIDE DEF S
  <2> QED
    BY <1>2, <1>4, GreatestIsMax
<1> HIDE DEF S
<1>6. Max(S) \in 1 .. Len(list) /\ list[Max(S)].index = i
  BY <1>2, <1>5 DEF S
<1> QED
  BY <1>2, <1>3, <1>6

ReplyTo(k) == replies' = Append(replies, k)

\* Replies stay a list.
LEMMA RepliesAreList ==
  ASSUME GroundingInvariant, NEW k, ReplyTo(k)
  PROVE  IsSequence(replies')
  BY Appended DEF GroundingInvariant, Shapes, ReplyTo

\* The invariant holds at the start and after every step.
LEMMA GroundingStarts ==
  ASSUME Init
  PROVE  GroundingInvariant
<1>1. Shapes
  BY EmptyList DEF Init, Shapes
<1>2. Stages /\ Placing /\ Decided /\ Asked
  BY EmptyList DEF Init, Stages, Placing, Decided, Asked
<1> QED
  BY <1>1, <1>2 DEF GroundingInvariant

LEMMA GroundingKept ==
  ASSUME GroundingInvariant, [Next]_vars
  PROVE  GroundingInvariant'
<1>0. IsSequence(replies)
  BY DEF GroundingInvariant, Shapes
<1>1. ASSUME NEW reply, UnusableReply(reply) PROVE GroundingInvariant'
  <2>1. IsSequence(replies')
    BY <1>1, RepliesAreList DEF UnusableReply, ReplyTo
  <2> QED
    BY <1>1, <2>1, NothingGrounded DEF UnusableReply, Done
<1>2. ASSUME ReceiveText PROVE GroundingInvariant'
  <2>1. CASE pc' = "ground"
    <3>1. request.submitted \in ClaimLists /\ claims' = request.submitted /\ Op("verify")
      BY <1>2, <2>1, RequestArguments DEF ReceiveText, Done, GroundingInvariant, Shapes
    <3>2. IsSequence(claims') /\ \A k \in DOMAIN claims' : IsSequence(claims'[k])
      BY <3>1, ConstantsAssumption
    <3>3. /\ UNCHANGED <<request, grounded, cursor, matched, replies, checks, result>>
          /\ grounded = <<>> /\ matched = <<>> /\ cursor = 1 /\ pc = "start"
      BY <1>2, <2>1 DEF ReceiveText, Done, GroundingInvariant, Stages
    <3> QED
      BY <1>0, <2>1, <3>1, <3>2, <3>3, ClaimsArrive
  <2>2. CASE pc' # "ground"
    <3>1. /\ UNCHANGED <<request, grounding, replies, checks>> /\ pc = "start"
          /\ pc' = "done" \/ (pc' = "ask" /\ result' = result /\ Op("decompose"))
      BY <1>2, <2>2 DEF ReceiveText, Done, grounding
    <3> QED
      BY <1>0, <3>1, NothingGrounded DEF Op
  <2> QED
    BY <2>1, <2>2
<1>3. ASSUME NEW split \in SplitReplies, ReceiveSplit(split) PROVE GroundingInvariant'
  <2>0. IsSequence(replies')
    BY <1>3, RepliesAreList DEF ReceiveSplit, UsableReply, ReplyTo
  <2>1. CASE pc' = "ground"
    <3>0. PICK blank \in SUBSET {n \in DOMAIN split : split[n] = <<>>} :
            claims' = Proposals(split, blank)
      BY <1>3, <2>1 DEF ReceiveSplit, Done
    <3>1. claims' = Proposals(split, blank) /\ Op("decompose") /\ ~Op("verify")
      BY <1>3, <3>0 DEF ReceiveSplit, Op
    <3>2. IsSequence(claims') /\ \A k \in DOMAIN claims' : IsSequence(claims'[k])
      BY <3>1, ProposalsAreTexts
    <3>3. /\ UNCHANGED <<request, grounded, cursor, matched, checks, result>>
          /\ grounded = <<>> /\ matched = <<>> /\ cursor = 1 /\ pc = "ask"
      BY <1>3, <2>1, <3>1 DEF ReceiveSplit, UsableReply, Done, GroundingInvariant, Stages
    <3> QED
      BY <2>0, <2>1, <3>1, <3>2, <3>3, ClaimsArrive
  <2>2. CASE pc' # "ground"
    <3>1. UNCHANGED <<request, grounding, checks>> /\ pc' = "done"
      BY <1>3, <2>2 DEF ReceiveSplit, Done, grounding
    <3> QED
      BY <2>0, <3>1, NothingGrounded
  <2> QED
    BY <2>1, <2>2
<1>4. ASSUME ReturnDecomposition PROVE GroundingInvariant'
  BY <1>0, <1>4, NothingGrounded DEF ReturnDecomposition, Done
<1>5. ASSUME NEW identical \in BOOLEAN, DecideGrounded(identical) PROVE GroundingInvariant'
  <2>1. UNCHANGED <<request, grounding, replies, checks>> /\ pc = "ground" /\ Op("verify")
    BY <1>5 DEF DecideGrounded
  <2>2. CASE pc' = "done"
    BY <1>0, <2>1, <2>2, NothingGrounded
  <2>3. CASE pc' # "done"
    <3>1. /\ pc' = "ask" /\ result' = result
          /\ Len(grounded) = Len(claims) /\ claims # <<>> /\ ~(Len(claims) > MaxClaims)
          /\ \A c \in DOMAIN grounded : grounded[c].grounding = "token_grounded"
      BY <1>5, <2>3 DEF DecideGrounded, Done
    <3>2. Len(claims) \in 1 .. MaxClaims
      BY <3>1, ListElements, ConstantsAssumption DEF GroundingInvariant, Shapes
    <3>3. AllGrounded
      BY <3>1, <3>2 DEF AllGrounded
    <3> QED
      BY <1>0, <2>1, <3>1, <3>3, NothingGrounded
  <2> QED
    BY <2>2, <2>3
<1>6. ASSUME NEW list \in CheckLists, ReceiveChecks(list) PROVE GroundingInvariant'
  <2>1. IsSequence(replies')
    BY <1>6, RepliesAreList DEF ReceiveChecks, UsableReply, ReplyTo
  <2> QED
    BY <1>6, <2>1, NothingGrounded DEF ReceiveChecks, Done
<1>7. ASSUME CropRegion PROVE GroundingInvariant'
  <2>1. /\ UNCHANGED <<request, grounding, replies, checks>> /\ pc = "start" /\ ~Op("verify")
        /\ pc' = "done" \/ (pc' = "ask" /\ result' = result)
    BY <1>7 DEF CropRegion, Done, Op
  <2> QED
    BY <1>0, <2>1, NothingGrounded
<1>8. ASSUME NEW finding, ReceiveFinding(finding) PROVE GroundingInvariant'
  <2>1. IsSequence(replies')
    BY <1>8, RepliesAreList DEF ReceiveFinding, UsableReply, ReplyTo
  <2> QED
    BY <1>8, <2>1, NothingGrounded DEF ReceiveFinding, Done
<1>9. ASSUME StartBatch PROVE GroundingInvariant'
  <2>1. /\ UNCHANGED <<request, grounding, replies, checks>> /\ pc = "start" /\ ~Op("verify")
        /\ pc' = "done" \/ (pc' = "ask" /\ result' = result)
    BY <1>9 DEF StartBatch, Done, Op
  <2> QED
    BY <1>0, <2>1, NothingGrounded
<1>10. ASSUME NEW rows, ReceiveVectors(rows) PROVE GroundingInvariant'
  <2>1. /\ UNCHANGED <<request, grounding, replies, checks>> /\ pc = "ask" /\ ~Op("verify")
        /\ pc' = "done" \/ (pc' = "start" /\ result' = result)
    BY <1>10 DEF ReceiveVectors, Done, Op
  <2> QED
    BY <1>0, <2>1, NothingGrounded
<1>11. ASSUME EmbeddingFails PROVE GroundingInvariant'
  BY <1>0, <1>11, NothingGrounded DEF EmbeddingFails, Done
<1>12. ASSUME UNCHANGED vars PROVE GroundingInvariant'
  <2>1. Shapes' /\ Stages' /\ Placing' /\ Asked'
    BY <1>12 DEF vars, grounding, GroundingInvariant, Shapes, Stages, Placing, Asked, AllGrounded, Op, Current
  <2>2. Decided'
    BY <1>12, DecidedStill DEF vars, grounding, GroundingInvariant
  <2> QED
    BY <2>1, <2>2 DEF GroundingInvariant
<1> QED
  BY <1>1, <1>2, <1>3, <1>4, <1>5, <1>6, <1>7, <1>8, <1>9, <1>10, <1>11, <1>12,
     TokenPlaced, ClaimRefused, ClaimAccepted DEF Next, Finished

\* Grounding finds a placement of a claim in its post whenever there is one, and
\* blames the token at which every placement ends (ground_claim).
THEOREM GreedyIsEnough == Spec => []GroundingMatchesDefinition
<1>1. GroundingInvariant => GroundingMatchesDefinition
  BY DEF GroundingInvariant, Decided, RightlyGrounded, GroundingMatchesDefinition
<1> QED
  BY <1>1, GroundingStarts, GroundingKept, PTL DEF Spec

-----------------------------------------------------------------------------
(* What may be concluded from the answers.                                 *)

\* A step either concludes a call, or leaves its conclusion open, or is a stutter.
LEMMA ConcludedOnce ==
  ASSUME GroundingInvariant, [Next]_vars
  PROVE  UNCHANGED vars \/ pc # "done"
  BY DEF Next, UnusableReply, ReceiveText, ReceiveSplit, UsableReply, PlaceToken, RefuseClaim,
         AcceptClaim, Grounding, ReturnDecomposition, DecideGrounded, ReceiveChecks, CropRegion,
         ReceiveFinding, StartBatch, ReceiveVectors, EmbeddingFails, Finished

\* A batch grounded whole is asserted whole.
LEMMA GroundedClaimsEmbed ==
  ASSUME GroundingInvariant, Len(grounded) = Len(claims),
         \A c \in DOMAIN grounded : grounded[c].grounding = "token_grounded"
  PROVE  \A c \in DOMAIN claims : claims[c] # <<>> /\ Embeds(claims[c], request.source)
<1>1. DOMAIN grounded = DOMAIN claims
  BY ListElements DEF GroundingInvariant, Shapes
<1> QED
  BY <1>1 DEF GroundingInvariant, Decided, RightlyGrounded

\* Only a decision without a model, or an answer to exactly these claims, passes.
LEMMA PassedKept ==
  ASSUME GroundingInvariant, [Next]_vars, OnlyAssertedClaimsPass
  PROVE  OnlyAssertedClaimsPass'
<1>0. CASE UNCHANGED vars
  BY <1>0 DEF vars, grounding, OnlyAssertedClaimsPass
<1>1. CASE pc # "done"
  <2>1. SUFFICES ASSUME result' = "passed" PROVE OnlyAssertedClaimsPass'
    BY DEF OnlyAssertedClaimsPass
  <2>2. result = "none" /\ checks = <<>>
    BY <1>1 DEF GroundingInvariant, Stages
  <2>3. \/ DecideGrounded(TRUE) /\ claims # <<>> /\ ~(Len(claims) > MaxClaims)
           /\ \A c \in DOMAIN grounded : grounded[c].grounding = "token_grounded"
        \/ \E list \in CheckLists :
             /\ ReceiveChecks(list) /\ AnswersThese(list)
             /\ \A i \in DOMAIN ByIndex(list) : ByIndex(list)[i] = "entailed"
    <3>1. ASSUME NEW reply, UnusableReply(reply) PROVE FALSE
      BY <2>1, <2>2, <3>1 DEF UnusableReply, Done, OnModelError
    <3>2. ASSUME ReceiveText PROVE FALSE
      BY <2>1, <2>2, <3>2 DEF ReceiveText, Done
    <3>3. ASSUME NEW split, ReceiveSplit(split) PROVE FALSE
      BY <2>1, <2>2, <3>3 DEF ReceiveSplit, Done
    <3>4. ASSUME PlaceToken \/ RefuseClaim \/ AcceptClaim \/ ReturnDecomposition PROVE FALSE
      BY <2>1, <2>2, <3>4 DEF PlaceToken, RefuseClaim, AcceptClaim, ReturnDecomposition, Done
    <3>5. ASSUME NEW identical \in BOOLEAN, DecideGrounded(identical)
          PROVE  /\ identical = TRUE /\ claims # <<>> /\ ~(Len(claims) > MaxClaims)
                 /\ \A c \in DOMAIN grounded : grounded[c].grounding = "token_grounded"
      BY <2>1, <2>2, <3>5 DEF DecideGrounded, Done
    <3>6. ASSUME NEW list \in CheckLists, ReceiveChecks(list)
          PROVE  AnswersThese(list) /\ \A i \in DOMAIN ByIndex(list) : ByIndex(list)[i] = "entailed"
      BY <2>1, <2>2, <3>6 DEF ReceiveChecks, Done
    <3>7. ASSUME NEW finding, ReceiveFinding(finding) PROVE FALSE
      BY <2>1, <2>2, <3>7 DEF ReceiveFinding, Done, StatusOf
    <3>8. ASSUME NEW rows, ReceiveVectors(rows) PROVE FALSE
      BY <2>1, <2>2, <3>8 DEF ReceiveVectors, Done
    <3>9. ASSUME CropRegion \/ StartBatch \/ EmbeddingFails PROVE FALSE
      BY <2>1, <2>2, <3>9 DEF CropRegion, StartBatch, EmbeddingFails, Done
    <3>10. ~UNCHANGED vars
      BY <2>1, <2>2 DEF vars
    <3> QED
      BY <3>1, <3>2, <3>3, <3>4, <3>5, <3>6, <3>7, <3>8, <3>9, <3>10 DEF Next, Finished
  <2>4. CASE DecideGrounded(TRUE) /\ claims # <<>> /\ ~(Len(claims) > MaxClaims)
             /\ \A c \in DOMAIN grounded : grounded[c].grounding = "token_grounded"
    <3>1. /\ Len(grounded) = Len(claims) /\ Len(claims) = 1 /\ claims[1] = request.source
          /\ UNCHANGED <<request, claims, checks>>
      BY <2>4 DEF DecideGrounded, grounding
    <3>2. claims = <<request.source>>
      BY <3>1, ListElements DEF GroundingInvariant, Shapes
    <3>3. Len(claims) \in 1 .. MaxClaims
      BY <2>4, <3>1, ConstantsAssumption
    <3> QED
      BY <2>2, <2>4, <3>1, <3>2, <3>3, GroundedClaimsEmbed DEF OnlyAssertedClaimsPass
  <2>5. ASSUME NEW list \in CheckLists, ReceiveChecks(list), AnswersThese(list),
               \A i \in DOMAIN ByIndex(list) : ByIndex(list)[i] = "entailed"
        PROVE  OnlyAssertedClaimsPass'
    <3>1. UNCHANGED <<request, claims>> /\ checks' = list /\ pc = "ask" /\ Op("verify")
      BY <2>5 DEF ReceiveChecks, UsableReply, grounding
    <3>2. AllGrounded
      BY <3>1 DEF GroundingInvariant, Asked
    <3>3. \A c \in DOMAIN claims : claims[c] # <<>> /\ Embeds(claims[c], request.source)
      BY <3>2, GroundedClaimsEmbed DEF AllGrounded
    <3>4. {check.index : check \in ToSet(list)} = 0 .. Len(claims) - 1
      BY <2>5 DEF AnswersThese, ByIndex
    <3>5. ASSUME NEW c \in DOMAIN claims
          PROVE \E check \in ToSet(list) : check.index = c - 1 /\ check.outcome = "entailed"
      <4>1. c - 1 \in 0 .. Len(claims) - 1
        BY ListElements DEF GroundingInvariant, Shapes
      <4>2. c - 1 \in DOMAIN ByIndex(list)
        BY <2>5, <4>1 DEF AnswersThese
      <4> QED
        BY <2>5, <4>2, ByIndexReads
    <3> QED
      BY <3>1, <3>2, <3>3, <3>4, <3>5 DEF OnlyAssertedClaimsPass, AllGrounded
  <2> QED
    BY <2>3, <2>4, <2>5
<1> QED
  BY <1>0, <1>1, ConcludedOnce

\* What may be audited was grounded whole and found entailed, claim by claim, by a
\* verifier that spoke of these claims and no others (verify_claims).
THEOREM PassedIsAsserted == Spec => []OnlyAssertedClaimsPass
<1>1. Init => OnlyAssertedClaimsPass
  BY DEF Init, OnlyAssertedClaimsPass
<1> QED
  BY <1>1, GroundingStarts, GroundingKept, PassedKept, PTL DEF Spec

RepliesInvariant == Replied /\ UnusableRepliesFailClosed

\* The invariant of the replies holds at the start.
LEMMA RepliesStart ==
  ASSUME Init
  PROVE  RepliesInvariant
  BY EmptyList DEF Init, RepliesInvariant, Replied, UnusableRepliesFailClosed

\* A step that hears nothing from the model.
LEMMA NothingHeard ==
  ASSUME GroundingInvariant, RepliesInvariant, UNCHANGED <<request, replies>>, pc # "done",
         pc' = "done" \/ result' = result,
         pc' = "start" => replies = <<>>,
         pc' = "ask" => replies = <<>>,
         pc' = "ground" => pc = "ground" \/ (replies = <<>> /\ Op("verify")),
         pc' = "done" /\ replies # <<>> => Last(replies) = "valid",
         result' \in {"decomposed", "verified"} => replies # <<>>
  PROVE  RepliesInvariant'
<1> USE DEF GroundingInvariant
<1>1. IsSequence(replies) /\ Len(replies) \in Nat
  BY ListElements DEF Shapes
<1>2. result = "none" /\ checks = <<>>
  BY DEF Stages
<1>3. pc' \in {"start", "ask", "ground", "done"} \/ pc' \notin {"start", "ask", "ground", "done"}
  OBVIOUS
<1>4. Replied'
  BY <1>1, EmptyList DEF Replied, RepliesInvariant, Op
<1>5. UnusableRepliesFailClosed'
  BY <1>1, <1>2, EmptyList DEF UnusableRepliesFailClosed, RepliesInvariant, Op
<1> QED
  BY <1>4, <1>5 DEF RepliesInvariant

\* A reply is added to those that could not be read.
LEMMA OneMoreReply ==
  ASSUME GroundingInvariant, RepliesInvariant, pc = "ask", NEW k, ReplyTo(k)
  PROVE  /\ Len(replies) \in 0 .. 1 /\ Len(replies') = Len(replies) + 1
         /\ Len(replies') \in 1 .. 2 /\ Len(replies') <= 2
         /\ replies' # <<>> /\ Last(replies') = k
         /\ \A n \in 1 .. Len(replies') - 1 : replies'[n] = "invalid"
         /\ replies'[Len(replies) + 1] = k
<1>1. IsSequence(replies) /\ Len(replies) \in Nat
  BY ListElements DEF GroundingInvariant, Shapes
<1>2. Len(replies) <= 1 /\ \A n \in 1 .. Len(replies) : replies[n] = "invalid"
  BY DEF RepliesInvariant, Replied
<1>3. /\ Len(replies') = Len(replies) + 1
      /\ \A n \in 1 .. Len(replies) : replies'[n] = replies[n]
      /\ Last(replies') = k /\ replies'[Len(replies) + 1] = k
  BY <1>1, Appended DEF ReplyTo
<1>4. \A n \in 1 .. Len(replies') - 1 : replies'[n] = "invalid"
  BY <1>1, <1>2, <1>3
<1>5. replies' # <<>>
  BY <1>1, <1>3, EmptyList
<1> DEFINE m == Len(replies)
           n == Len(replies')
<1>6. n \in 1 .. 2 /\ n <= 2 /\ m \in 0 .. 1
  <2>1. m \in Nat /\ m <= 1 /\ n = m + 1
    BY <1>1, <1>2, <1>3
  <2> HIDE DEF m, n
  <2> QED
    BY <2>1
<1> QED
  BY <1>3, <1>4, <1>5, <1>6

\* And after every step.
LEMMA RepliesKept ==
  ASSUME GroundingInvariant, RepliesInvariant, [Next]_vars
  PROVE  RepliesInvariant'
<1> USE DEF GroundingInvariant
<1>0. IsSequence(replies) /\ Len(replies) \in Nat
  BY ListElements DEF Shapes
<1>1. ASSUME NEW reply \in {"failed", "no_message", "invalid"}, UnusableReply(reply)
      PROVE  RepliesInvariant'
  <2>1. pc = "ask" /\ ReplyTo(reply) /\ ~Op("embed") /\ request' = request /\ checks' = checks
    BY <1>1 DEF UnusableReply, ReplyTo
  <2>2. result = "none" /\ checks = <<>>
    BY <2>1 DEF Stages
  <2>5. /\ Len(replies) \in 0 .. 1 /\ Len(replies') = Len(replies) + 1
        /\ replies' # <<>> /\ Last(replies') = reply
        /\ \A n \in 1 .. Len(replies') - 1 : replies'[n] = "invalid"
        /\ replies'[Len(replies) + 1] = reply
    BY <2>1, OneMoreReply
  <2>3. CASE MayRetry(reply, replies)
    <3>1. Len(replies) = 0 /\ reply = "invalid" /\ pc' = "ask" /\ result' = result
      BY <1>0, <1>1, <2>3 DEF UnusableReply, MayRetry, Attempts
    <3> QED
      BY <2>1, <2>2, <2>5, <3>1 DEF RepliesInvariant, Replied, UnusableRepliesFailClosed, Op
  <2>4. CASE ~MayRetry(reply, replies)
    <3>1. pc' = "done" /\ result' = OnModelError
      BY <1>1, <2>4 DEF UnusableReply, Done
    <3> QED
      BY <1>1, <2>1, <2>2, <2>5, <3>1 DEF RepliesInvariant, Replied, UnusableRepliesFailClosed, Op, OnModelError
  <2> QED
    BY <2>3, <2>4
<1>2. ASSUME pc = "ask", ReplyTo("valid"), ~Op("embed"), request' = request,
             pc' = "done" \/ (pc' = "ground" /\ result' = result /\ Op("decompose"))
      PROVE  RepliesInvariant'
  <2>1. result = "none"
    BY <1>2 DEF Stages
  <2>4. /\ Len(replies) \in 0 .. 1 /\ Len(replies') = Len(replies) + 1
        /\ replies' # <<>> /\ Last(replies') = "valid"
        /\ \A n \in 1 .. Len(replies') - 1 : replies'[n] = "invalid"
        /\ replies'[Len(replies) + 1] = "valid"
    BY <1>2, OneMoreReply
  <2>5. Len(replies') \in 1 .. 2 /\ Len(replies') <= 2
    BY <1>2, OneMoreReply
  <2>6. request'.op # "embed" /\ pc' # "start" /\ pc' # "ask"
        /\ (pc' = "ground" => request'.op # "verify")
    BY <1>2 DEF Op
  <2>2. Replied'
    BY <2>4, <2>5, <2>6 DEF Replied, Op
  <2>3. UnusableRepliesFailClosed'
    BY <2>4, <2>5 DEF UnusableRepliesFailClosed
  <2> QED
    BY <2>2, <2>3 DEF RepliesInvariant
<1>3. ASSUME ReceiveText PROVE RepliesInvariant'
  <2>1. /\ UNCHANGED <<request, replies>> /\ pc = "start" /\ replies = <<>>
        /\ \/ pc' = "done" /\ result' = "validation_error"
           \/ pc' = "ask" /\ result' = result
           \/ pc' = "ground" /\ result' = result /\ Op("verify")
    BY <1>3 DEF ReceiveText, Done, RepliesInvariant, Replied
  <2> QED
    BY <2>1, NothingHeard DEF Stages
<1>4. ASSUME NEW split, ReceiveSplit(split) PROVE RepliesInvariant'
  BY <1>2, <1>4 DEF ReceiveSplit, UsableReply, ReplyTo, Done, Op
<1>5. ASSUME PlaceToken \/ RefuseClaim \/ AcceptClaim PROVE RepliesInvariant'
  <2>1. UNCHANGED <<request, pc, replies, result>> /\ pc = "ground"
    BY <1>5 DEF PlaceToken, RefuseClaim, AcceptClaim, Grounding
  <2> QED
    BY <2>1, NothingHeard DEF Stages
<1>6. ASSUME ReturnDecomposition PROVE RepliesInvariant'
  <2>1. /\ UNCHANGED <<request, replies>> /\ pc = "ground" /\ pc' = "done"
        /\ Op("decompose") /\ ~Op("verify")
    BY <1>6 DEF ReturnDecomposition, Done, Op
  <2>2. Len(replies) \in 1 .. 2 /\ Last(replies) = "valid" /\ replies # <<>>
    BY <2>1, EmptyList DEF RepliesInvariant, Replied
  <2> QED
    BY <2>1, <2>2, NothingHeard
<1>7. ASSUME NEW identical, DecideGrounded(identical) PROVE RepliesInvariant'
  <2>1. /\ UNCHANGED <<request, replies>> /\ pc = "ground" /\ Op("verify") /\ replies = <<>>
        /\ \/ pc' = "done" /\ result' \notin {"decomposed", "verified"}
           \/ pc' = "ask" /\ result' = result
    BY <1>7 DEF DecideGrounded, Done, RepliesInvariant, Replied
  <2> QED
    BY <2>1, NothingHeard DEF Stages
<1>8. ASSUME NEW list, ReceiveChecks(list) PROVE RepliesInvariant'
  BY <1>2, <1>8 DEF ReceiveChecks, UsableReply, ReplyTo, Done, Op
<1>9. ASSUME CropRegion \/ StartBatch PROVE RepliesInvariant'
  <2>1. /\ UNCHANGED <<request, replies>> /\ pc = "start" /\ replies = <<>>
        /\ \/ pc' = "done" /\ result' \in {"rejected", "embedded"}
           \/ pc' = "ask" /\ result' = result
    BY <1>9 DEF CropRegion, StartBatch, Done, RepliesInvariant, Replied
  <2> QED
    BY <2>1, NothingHeard DEF Stages
<1>10. ASSUME NEW finding, ReceiveFinding(finding) PROVE RepliesInvariant'
  BY <1>2, <1>10 DEF ReceiveFinding, UsableReply, ReplyTo, Done, Op
<1>11. ASSUME NEW rows, ReceiveVectors(rows) PROVE RepliesInvariant'
  <2>1. /\ UNCHANGED <<request, replies>> /\ pc = "ask" /\ replies = <<>>
        /\ \/ pc' = "done" /\ result' = "unavailable"
           \/ pc' = "start" /\ result' = result
    BY <1>11 DEF ReceiveVectors, Done, RepliesInvariant, Replied
  <2> QED
    BY <2>1, NothingHeard DEF Stages
<1>12. ASSUME EmbeddingFails PROVE RepliesInvariant'
  <2>1. /\ UNCHANGED <<request, replies>> /\ pc = "ask" /\ replies = <<>>
        /\ pc' = "done" /\ result' = "unavailable"
    BY <1>12 DEF EmbeddingFails, Done, RepliesInvariant, Replied
  <2> QED
    BY <2>1, NothingHeard
<1>13. ASSUME UNCHANGED vars PROVE RepliesInvariant'
  BY <1>13 DEF vars, RepliesInvariant, Replied, UnusableRepliesFailClosed, Op
<1> QED
  BY <1>1, <1>3, <1>4, <1>5, <1>6, <1>7, <1>8, <1>9, <1>10, <1>11, <1>12, <1>13
  DEF Next, Finished

\* Nothing is concluded from a model that did not answer, and it is asked again
\* only when what it sent could not be read (ModelClient._structured and its callers).
THEOREM SilenceFailsClosed == Spec => []UnusableRepliesFailClosed
<1>1. RepliesInvariant => UnusableRepliesFailClosed
  BY DEF RepliesInvariant
<1> QED
  BY <1>1, GroundingStarts, GroundingKept, RepliesStart, RepliesKept, PTL DEF Spec

-----------------------------------------------------------------------------
(* Embeddings: each vector with its own text.                              *)

\* A call keeps its arguments.
LEMMA RequestFixed ==
  ASSUME [Next]_vars
  PROVE  request' = request
  BY DEF Next, vars, UnusableReply, ReceiveText, ReceiveSplit, PlaceToken, RefuseClaim,
         AcceptClaim, ReturnDecomposition, DecideGrounded, ReceiveChecks, CropRegion,
         ReceiveFinding, StartBatch, ReceiveVectors, EmbeddingFails, Finished

\* _embed_pending's next batch, from the text after those embedded.
LEMMA BatchBounds ==
  ASSUME GroundingInvariant, Op("embed"), Len(vectors) \in Nat, Len(vectors) <= request.pending
  PROVE  \E last \in Nat :
           /\ Chunk = Len(vectors) + 1 .. last
           /\ Len(vectors) <= last /\ last <= request.pending
           /\ last = Len(vectors) + BatchSize \/ last = request.pending
           /\ Cardinality(Chunk) = last - Len(vectors)
           /\ Chunk # {} => last > Len(vectors) /\ Min(Chunk) = Len(vectors) + 1
           /\ Chunk = {} => Len(vectors) = request.pending
<1> DEFINE n == Len(vectors)
           last == Min({n + BatchSize, request.pending})
<1>1. request.pending \in Nat /\ BatchSize \in Nat \ {0} /\ n \in Nat /\ n <= request.pending
  BY RequestArguments, ConstantsAssumption DEF GroundingInvariant, Shapes
<1>2. last = IF n + BatchSize <= request.pending THEN n + BatchSize ELSE request.pending
  BY <1>1, MinOfTwo
<1>3. Chunk = n + 1 .. last
  BY DEF Chunk
<1> HIDE DEF n, last
<1>4. last \in Nat /\ n <= last /\ last <= request.pending
      /\ (last = n + BatchSize \/ last = request.pending)
      /\ (last = n => n = request.pending)
  BY <1>1, <1>2
<1>5. Cardinality(Chunk) = last - n
  <2>1. Cardinality(n + 1 .. last) = IF n + 1 > last THEN 0 ELSE last - (n + 1) + 1
    BY <1>1, <1>4, FS_Interval
  <2>2. (IF n + 1 > last THEN 0 ELSE last - (n + 1) + 1) = last - n
    BY <1>1, <1>4
  <2> QED
    BY <1>3, <2>1, <2>2
<1>6. ASSUME Chunk # {} PROVE last > n /\ Min(Chunk) = n + 1
  <2>1. last > n
    BY <1>1, <1>3, <1>4, <1>6
  <2>2. Chunk \in SUBSET Nat /\ n + 1 \in Chunk
    BY <1>1, <1>3, <1>4, <2>1
  <2>3. Min(Chunk) \in Chunk /\ Min(Chunk) <= n + 1
    BY <2>2, LeastIsMin
  <2> QED
    BY <1>1, <1>3, <1>4, <2>1, <2>3
<1>7. ASSUME Chunk = {} PROVE n = request.pending
  BY <1>1, <1>3, <1>4, <1>7
<1> QED
  BY <1>3, <1>4, <1>5, <1>6, <1>7 DEF n

\* A vector that may be kept is of a text of the batch, the one its row's number says.
LEMMA UsableRow ==
  ASSUME NEW row \in Rows, row.vector.usable
  PROVE  \E t \in Chunk : row = [index |-> t - Min(Chunk), vector |-> VectorOf(t)]
<1>1. ~Unusable.usable
  BY DEF Unusable
<1>2. ASSUME row \in {[index |-> i, vector |-> v] : i \in {-1, Cardinality(Chunk)}, v \in {Unusable}}
      PROVE  FALSE
  <2>1. row.vector = Unusable
    BY <1>2
  <2> QED
    BY <1>1, <2>1
<1>3. ASSUME row \in {[index |-> t - Min(Chunk), vector |-> v] : t \in Chunk, v \in {Unusable}}
      PROVE  FALSE
  <2>1. row.vector = Unusable
    BY <1>3
  <2> QED
    BY <1>1, <2>1
<1> QED
  BY <1>2, <1>3 DEF Rows

\* A function on 1 .. size is a list of that length.
LEMMA FunctionIsList ==
  ASSUME NEW S, NEW size \in Nat, NEW f \in [1 .. size -> S]
  PROVE  f \in Seq(S) /\ Len(f) = size
  OBVIOUS

\* An answer to a batch that passes the checks holds the batch's vectors in order,
\* whatever order its rows came in (the order of Ollama's is the texts').
LEMMA OrderedIsBatch ==
  ASSUME NEW n \in Nat, NEW size \in Nat \ {0}, Cardinality(Chunk) = size,
         Chunk = n + 1 .. n + size, Min(Chunk) = n + 1,
         request.backend \in {"ollama", "llamacpp"},
         NEW rows \in RowLists, WellNumbered(rows),
         \A k \in DOMAIN rows : rows[k].vector.usable,
         request.backend = "ollama" => \A k \in DOMAIN rows : rows[k].index = k - 1
  PROVE  /\ Ordered(rows) \in Seq({VectorOf(t) : t \in Nat}) /\ Len(Ordered(rows)) = size
         /\ \A k \in 1 .. size : Ordered(rows)[k] = VectorOf(n + k)
<1>1. PICK len \in Nat : rows \in [1 .. len -> Rows]
  <2>1. PICK len \in 0 .. Cardinality(Chunk) + 1 : rows \in [1 .. len -> Rows]
    BY DEF RowLists
  <2> QED
    BY <2>1
<1>2. Len(rows) = size /\ DOMAIN rows = 1 .. size /\ rows \in [1 .. size -> Rows]
  <2>1. rows \in Seq(Rows)
    BY <1>1
  <2> QED
    BY <2>1 DEF WellNumbered
\* A usable vector is of the text its row's number says.
<1>3. \A k \in 1 .. size : rows[k].vector = VectorOf(n + 1 + rows[k].index) /\ rows[k].index \in Int
  <2>1. TAKE k \in 1 .. size
  <2>2. rows[k] \in Rows /\ rows[k].vector.usable
    BY <1>2
  <2>3. PICK t \in Chunk : rows[k] = [index |-> t - Min(Chunk), vector |-> VectorOf(t)]
    BY <2>2, UsableRow
  <2>4. t \in Int /\ rows[k].index = t - (n + 1)
    BY <2>3
  <2>5. n + 1 + rows[k].index = t
    BY <2>4
  <2> QED
    BY <2>3, <2>4, <2>5
<1>4. CASE request.backend = "ollama"
  <2>1. \A k \in 1 .. size : rows[k].vector = VectorOf(n + k)
    BY <1>2, <1>3, <1>4
  <2>2. Ordered(rows) = [k \in 1 .. size |-> rows[k].vector]
    BY <1>2, <1>4 DEF Ordered
  <2>3. Ordered(rows) \in [1 .. size -> {VectorOf(t) : t \in Nat}]
    BY <2>1, <2>2
  <2>4. Ordered(rows) \in Seq({VectorOf(t) : t \in Nat}) /\ Len(Ordered(rows)) = size
    BY <2>3, FunctionIsList
  <2> QED
    BY <2>1, <2>2, <2>4
<1>5. CASE request.backend = "llamacpp"
  <2> DEFINE number == [k \in 1 .. size |-> rows[k].index]
             row(k) == CHOOSE j \in DOMAIN rows : rows[j].index = k - 1
  <2>1. \A k \in 1 .. size : \E j \in 1 .. size : rows[j].index = k - 1
    <3>1. number \in Injection(1 .. size, 0 .. size - 1)
      <4>1. number \in [1 .. size -> 0 .. size - 1]
        BY <1>2, <1>5 DEF WellNumbered
      <4>2. \A i, j \in 1 .. size : number[i] = number[j] => i = j
        BY <1>2, <1>5 DEF WellNumbered
      <4> QED
        BY <4>1, <4>2 DEF Injection, IsInjective
    <3>2. /\ IsFiniteSet(0 .. size - 1) /\ Cardinality(0 .. size - 1) = size
          /\ Cardinality(1 .. size) = size
      BY FS_Interval
    <3>3. number \in Surjection(1 .. size, 0 .. size - 1)
      <4> HIDE DEF number
      <4> QED
        BY <3>1, <3>2, FS_Injection
    <3>4. TAKE k \in 1 .. size
    <3>5. k - 1 \in 0 .. size - 1
      OBVIOUS
    <3>6. \E j \in 1 .. size : number[j] = k - 1
      <4> HIDE DEF number
      <4> QED
        BY <3>3, <3>5 DEF Surjection
    <3> QED
      BY <3>6
  <2>2. \A k \in 1 .. size : row(k) \in 1 .. size /\ rows[row(k)].index = k - 1
    BY <1>2, <2>1
  <2>3. Ordered(rows) = [k \in 1 .. size |-> rows[row(k)].vector]
    BY <1>2, <1>5 DEF Ordered
  <2> HIDE DEF row
  <2>4. \A k \in 1 .. size : rows[row(k)].vector = VectorOf(n + k)
    <3>1. TAKE k \in 1 .. size
    <3>2. rows[row(k)].vector = VectorOf(n + 1 + (k - 1))
      BY <1>3, <2>2
    <3> QED
      BY <3>2
  <2>5. Ordered(rows) \in [1 .. size -> {VectorOf(t) : t \in Nat}]
    BY <2>3, <2>4
  <2>6. Ordered(rows) \in Seq({VectorOf(t) : t \in Nat}) /\ Len(Ordered(rows)) = size
    BY <2>5, FunctionIsList
  <2> QED
    BY <2>3, <2>4, <2>6
<1> QED
  BY <1>4, <1>5

\* A batch that is stored extends the texts embedded by exactly its own.
LEMMA BatchStored ==
  ASSUME GroundingInvariant, Batched, NEW rows \in RowLists, ReceiveVectors(rows)
  PROVE  Batched'
<1> DEFINE n == Len(vectors)
           pending == request.pending
<1>1. /\ Op("embed") /\ pc = "ask" /\ request' = request
      /\ request.backend = "ollama" => \A k \in DOMAIN rows : rows[k].index = k - 1
      /\ pending \in Nat /\ request.backend \in {"ollama", "llamacpp"} /\ result = "none"
      /\ BatchSize \in Nat \ {0}
  BY RequestArguments, ConstantsAssumption
  DEF ReceiveVectors, GroundingInvariant, Shapes, Stages
<1>2. /\ n \in Nat /\ n <= pending /\ Chunk # {}
      /\ vectors = [t \in 1 .. n |-> VectorOf(t)]
      /\ n < pending => \E batches \in 0 .. pending : n = batches * BatchSize
  <2>1. /\ n \in 0 .. pending /\ Chunk # {}
        /\ vectors = [t \in 1 .. n |-> VectorOf(t)]
        /\ n < pending => \E batches \in 0 .. pending : n = batches * BatchSize
    BY <1>1 DEF Batched
  <2> HIDE DEF n, pending
  <2> QED
    BY <1>1, <2>1
<1>3. CASE vectors' = vectors /\ result' = "unavailable" /\ pc' = "done"
  BY <1>1, <1>2, <1>3 DEF Batched, Op
<1>4. CASE /\ vectors' = vectors \o Ordered(rows) /\ pc' = "start" /\ result' = result
           /\ WellNumbered(rows) /\ \A k \in DOMAIN rows : rows[k].vector.usable
  <2>1. PICK last \in Nat :
           /\ Chunk = n + 1 .. last
           /\ n < last /\ last <= pending
           /\ last = n + BatchSize \/ last = pending
           /\ Cardinality(Chunk) = last - n
           /\ Min(Chunk) = n + 1
    BY <1>1, <1>2, BatchBounds
  <2> HIDE DEF n, pending
  <2> DEFINE size == last - n
             sent == Ordered(rows)
  <2>2. size \in Nat \ {0} /\ n + size = last
    BY <1>2, <2>1
  <2>3. /\ sent \in Seq({VectorOf(t) : t \in Nat}) /\ Len(sent) = size
        /\ \A k \in 1 .. size : sent[k] = VectorOf(n + k)
    <3> HIDE DEF size
    <3>1. Chunk = n + 1 .. n + size /\ Cardinality(Chunk) = size
      BY <2>1, <2>2 DEF size
    <3> QED
      BY <1>1, <1>2, <1>4, <2>1, <2>2, <3>1, OrderedIsBatch
  <2>4. vectors \in Seq({VectorOf(t) : t \in Nat})
    <3>1. vectors \in [1 .. n -> {VectorOf(t) : t \in Nat}]
      BY <1>2
    <3> QED
      BY <1>2, <3>1
  <2>5. Len(vectors') = last /\ vectors' \in Seq({VectorOf(t) : t \in Nat})
    <3> HIDE DEF sent
    <3> QED
      BY <1>4, <2>1, <2>2, <2>3, <2>4 DEF sent, n
  <2>6. \A t \in 1 .. last : vectors'[t] = VectorOf(t)
    <3>1. TAKE t \in 1 .. last
    <3>2. CASE t <= n
      <4>1. vectors'[t] = vectors[t]
        BY <1>2, <1>4, <2>3, <2>4, <3>2
      <4> QED
        BY <1>2, <3>2, <4>1
    <3>3. CASE t > n
      <4>1. t - n \in 1 .. size /\ n + (t - n) = t
        BY <1>2, <2>1, <2>2, <3>3
      <4>2. vectors'[t] = sent[t - n]
        <5> HIDE DEF sent, size
        <5>1. t \in (n + 1) .. (n + Len(sent))
          BY <1>2, <2>2, <2>3, <3>3
        <5> QED
          BY <1>2, <1>4, <2>3, <2>4, <5>1 DEF sent
      <4> QED
        BY <2>3, <4>1, <4>2
    <3> QED
      BY <1>2, <3>2, <3>3
  <2>7. vectors' = [t \in 1 .. last |-> VectorOf(t)]
    BY <2>5, <2>6
  <2>8. last < pending => \E batches \in 0 .. pending : last = batches * BatchSize
    <3>1. SUFFICES ASSUME last < pending PROVE \E batches \in 0 .. pending : last = batches * BatchSize
      OBVIOUS
    <3>2. last = n + BatchSize /\ n < pending
      BY <1>1, <1>2, <2>1, <3>1
    <3>3. PICK batches \in 0 .. pending : n = batches * BatchSize
      BY <1>2, <3>2
    <3>4. batches \in Nat /\ last = (batches + 1) * BatchSize
      BY <1>1, <3>2, <3>3
    <3>5. batches + 1 <= (batches + 1) * BatchSize
      BY <1>1, <3>4
    <3>6. batches + 1 \in 0 .. pending
      BY <1>1, <3>1, <3>4, <3>5
    <3> QED
      BY <3>4, <3>6
  <2>9. Op("embed")' /\ request'.pending = pending /\ pc' # "ask" /\ result' # "embedded"
    BY <1>1, <1>4 DEF Op, pending
  <2>10. Len(vectors') \in 0 .. pending
    BY <1>1, <2>1, <2>5
  <2> QED
    BY <2>5, <2>7, <2>8, <2>9, <2>10 DEF Batched
<1> QED
  BY <1>3, <1>4 DEF ReceiveVectors, Done

\* Batches stay whole.
LEMMA BatchedKept ==
  ASSUME GroundingInvariant, Batched, [Next]_vars
  PROVE  Batched'
<1>1. CASE ~Op("embed")
  BY <1>1, RequestFixed DEF Batched, Op
<1>2. CASE Op("embed") /\ UNCHANGED vars
  BY <1>2 DEF Batched, Op, vars, Chunk
<1>3. ASSUME Op("embed"), StartBatch PROVE Batched'
  <2>1. /\ UNCHANGED <<request, vectors>>
        /\ \/ Chunk = {} /\ pc' = "done" /\ result' = "embedded"
           \/ Chunk # {} /\ pc' = "ask" /\ result' = "none"
    BY <1>3 DEF StartBatch, Done, GroundingInvariant, Stages
  <2>2. request.pending \in Nat /\ Len(vectors) \in Nat /\ Len(vectors) <= request.pending
    BY <1>3, RequestArguments DEF Batched, GroundingInvariant, Shapes
  <2>3. Chunk = {} => Len(vectors) = request.pending
    BY <1>3, <2>2, BatchBounds
  <2>4. Chunk' = Chunk
    BY <2>1 DEF Chunk
  <2> QED
    BY <1>3, <2>1, <2>3, <2>4 DEF Batched, Op
<1>4. ASSUME NEW rows \in RowLists, ReceiveVectors(rows) PROVE Batched'
  BY <1>4, BatchStored
<1>5. ASSUME EmbeddingFails PROVE Batched'
  BY <1>5 DEF EmbeddingFails, Done, Batched, Op
<1>6. CASE Op("embed") /\ Next
  <2>1. request.op = "embed" /\ pc # "ground"
    BY <1>6 DEF Op, GroundingInvariant, Stages
  <2> QED
    BY <1>2, <1>3, <1>4, <1>5, <1>6, <2>1
    DEF Next, UnusableReply, ReceiveText, ReceiveSplit, PlaceToken, RefuseClaim, AcceptClaim,
        Grounding, ReturnDecomposition, DecideGrounded, ReceiveChecks, CropRegion,
        ReceiveFinding, Finished, Op
<1> QED
  BY <1>1, <1>2, <1>6

\* A multiple of b leaves no remainder.
LEMMA MultipleLeavesNothing ==
  ASSUME NEW b \in Nat \ {0}, NEW k \in Nat
  PROVE  (k * b) % b = 0
<1> DEFINE m == (k * b) % b
           d == (k * b) \div b
<1>1. k * b \in Nat /\ m \in 0 .. b - 1 /\ d \in Int /\ k * b = b * d + m
  OBVIOUS
<1> HIDE DEF m, d
<1>2. m = (k - d) * b
  BY <1>1
<1>3. ~(k - d >= 1)
  <2>1. SUFFICES ASSUME k - d >= 1 PROVE FALSE
    OBVIOUS
  <2>2. (k - d) * b >= b
    BY <1>1, <2>1
  <2> QED
    BY <1>1, <1>2, <2>2
<1>4. ~(k - d <= -1)
  <2>1. SUFFICES ASSUME k - d <= -1 PROVE FALSE
    OBVIOUS
  <2>2. (k - d) * b < 0
    BY <1>1, <2>1
  <2> QED
    BY <1>1, <1>2, <2>2
<1>5. k - d = 0
  BY <1>1, <1>3, <1>4
<1> QED
  BY <1>2, <1>5 DEF m

\* Each text is stored with its own vector, whatever order a server answers in, and
\* a batch whole or not at all (embed, _embed_pending).
THEOREM VectorsOwnTheirTexts == Spec => []VectorsFindTheirTexts
<1>1. Init => Batched
  <2>1. ASSUME Init, Op("embed") PROVE Batched
    <3>1. request.pending \in Nat /\ BatchSize \in Nat \ {0}
      BY <2>1, RequestArguments, ConstantsAssumption DEF Init
    <3>2. Len(vectors) = 0 /\ vectors = <<>> /\ pc = "start" /\ result = "none"
      BY <2>1 DEF Init
    <3>3. <<>> = [t \in 1 .. 0 |-> VectorOf(t)] /\ 0 = 0 * BatchSize
      BY <3>1
    <3> QED
      BY <3>1, <3>2, <3>3 DEF Batched
  <2> QED
    BY <2>1 DEF Batched
<1>2. ASSUME GroundingInvariant, Batched PROVE VectorsFindTheirTexts
  <2>1. SUFFICES ASSUME Op("embed") PROVE VectorsFindTheirTexts
    BY DEF VectorsFindTheirTexts
  <2>2. \A t \in DOMAIN vectors : vectors[t] = VectorOf(t)
    BY <1>2, <2>1 DEF Batched
  <2>3. ASSUME Len(vectors) < request.pending PROVE Len(vectors) % BatchSize = 0
    <3>1. PICK batches \in 0 .. request.pending : Len(vectors) = batches * BatchSize
      BY <1>2, <2>1, <2>3 DEF Batched
    <3>2. batches \in Nat /\ BatchSize \in Nat \ {0}
      BY ConstantsAssumption
    <3> QED
      BY <3>1, <3>2, MultipleLeavesNothing
  <2> QED
    BY <1>2, <2>1, <2>2, <2>3 DEF VectorsFindTheirTexts, Batched
<1> QED
  BY <1>1, <1>2, GroundingStarts, GroundingKept, BatchedKept, PTL DEF Spec

-----------------------------------------------------------------------------
(* The crop.                                                               *)

\* Products of naturals are monotone.
LEMMA Scaled ==
  ASSUME NEW a \in Nat, NEW b \in Nat, NEW w \in Nat
  PROVE  /\ a <= b => a * w <= b * w
         /\ (a + 1) * w = a * w + w
         /\ a * w \in Nat
  OBVIOUS

\* The arithmetic of crop_region along one axis, at the lower edge of an interval.
LEMMA LowerEdge ==
  ASSUME NEW low \in 0 .. 50, NEW w \in Nat \ {0}, NEW left \in Nat, NEW first,
         left = IF low = 0 THEN 0 ELSE low - 1, first = (left * w) \div 50
  PROVE  first \in Nat /\ first + 1 <= w /\ first * 50 <= low * w
<1>1. left * w \in Nat /\ low * w \in Nat
  BY Scaled
<1>2. left * w <= 49 * w /\ left * w <= low * w
  BY Scaled
<1>3. first \in Nat /\ first * 50 <= left * w
  BY <1>1
<1> QED
  BY <1>1, <1>2, <1>3

\* The same at the upper edge.
LEMMA UpperEdge ==
  ASSUME NEW high \in 0 .. 50, NEW w \in Nat \ {0}, NEW right \in Nat, NEW last,
         right = IF high = 50 THEN 50 ELSE high + 1, last = (right * w) \div 50
  PROVE  last \in Nat /\ last <= w /\ (w >= 50 => last * 50 >= high * w)
<1>1. right * w \in Nat /\ high * w \in Nat
  BY Scaled
<1>2. right * w <= 50 * w
  BY Scaled
<1>3. high # 50 => right * w = high * w + w
  BY Scaled
<1>4. last \in Nat /\ last * 50 <= right * w /\ right * w < last * 50 + 50
  BY <1>1
<1>5. last <= w
  BY <1>1, <1>2, <1>4
<1>6. ASSUME w >= 50 PROVE last * 50 >= high * w
  <2>1. CASE high = 50
    <3>1. right * w = 50 * w
      BY <2>1
    <3>2. last >= w
      BY <1>4, <3>1
    <3> QED
      BY <1>4, <2>1, <3>2
  <2>2. CASE high # 50
    BY <1>1, <1>3, <1>4, <1>6, <2>2
  <2> QED
    BY <2>1, <2>2
<1> QED
  BY <1>4, <1>5, <1>6

\* A crop is inside the image and shows the cited regions.
LEMMA CropBoxShows ==
  ASSUME NEW regions \in RegionLists, regions # {}, NEW w \in Nat \ {0}
  PROVE  LET box == CropBox(regions, w)
         IN  /\ 0 <= box[1] /\ box[1] < box[2] /\ box[2] <= w
             /\ w >= 50 => \A r \in regions : box[1] * 50 <= r[1] * w /\ box[2] * 50 >= r[2] * w
<1> DEFINE lows == {r[1] : r \in regions}
           highs == {r[2] : r \in regions}
           low == Min(lows)
           high == Max(highs)
           left == Max({0, low - 1})
           right == Min({50, high + 1})
           first == (left * w) \div 50
           last == (right * w) \div 50
<1>1. \A r \in regions : r \in (0 .. 50) \X (0 .. 50)
  BY ConstantsAssumption
<1>2. low \in 0 .. 50 /\ \A r \in regions : low <= r[1]
  <2>1. lows \in SUBSET Nat /\ lows # {} /\ lows \subseteq 0 .. 50
    BY <1>1
  <2>2. \A r \in regions : r[1] \in lows
    OBVIOUS
  <2> HIDE DEF lows
  <2> QED
    BY <2>1, <2>2, LeastIsMin
<1>3. high \in 0 .. 50 /\ \A r \in regions : high >= r[2]
  <2>1. highs \in SUBSET (0 .. 50) /\ highs # {}
    BY <1>1
  <2>2. \A r \in regions : r[2] \in highs
    OBVIOUS
  <2> HIDE DEF highs
  <2> QED
    BY <2>1, <2>2, GreatestIsMax
<1> HIDE DEF low, high
<1>4. left \in Nat /\ left = IF low = 0 THEN 0 ELSE low - 1
  BY <1>2, MaxOfTwo
<1>5. right \in Nat /\ right = IF high = 50 THEN 50 ELSE high + 1
  BY <1>3, MinOfTwo
<1> HIDE DEF left, right
<1>6. /\ first \in Nat /\ first + 1 <= w /\ last \in Nat /\ last <= w
      /\ first * 50 <= low * w
      /\ w >= 50 => last * 50 >= high * w
  <2>1. first = (left * w) \div 50 /\ last = (right * w) \div 50
    OBVIOUS
  <2> HIDE DEF first, last
  <2>2. low \in 0 .. 50 /\ high \in 0 .. 50
    BY <1>2, <1>3
  <2>3. first \in Nat /\ first + 1 <= w /\ first * 50 <= low * w
    BY <1>4, <2>1, <2>2, LowerEdge, Zenon
  <2>4. last \in Nat /\ last <= w /\ (w >= 50 => last * 50 >= high * w)
    BY <1>5, <2>1, <2>2, UpperEdge, Zenon
  <2> QED
    BY <2>3, <2>4
<1>7. CropBox(regions, w) = <<first, Max({last, first + 1})>>
  BY DEF CropBox, left, right, low, high
<1> HIDE DEF first, last
<1>8. Max({last, first + 1}) = IF last <= first + 1 THEN first + 1 ELSE last
  BY <1>6, MaxOfTwo
<1>9. ASSUME NEW r \in regions, w >= 50
      PROVE  first * 50 <= r[1] * w /\ Max({last, first + 1}) * 50 >= r[2] * w
  <2>1. r[1] \in Nat /\ r[2] \in Nat /\ low <= r[1] /\ r[2] <= high /\ low \in Nat /\ high \in Nat
    BY <1>1, <1>2, <1>3
  <2>2. low * w <= r[1] * w /\ r[2] * w <= high * w /\ low * w \in Nat /\ high * w \in Nat
        /\ r[1] * w \in Nat /\ r[2] * w \in Nat
    BY <2>1, Scaled
  <2>3. first * 50 <= r[1] * w
    BY <1>6, <2>2
  <2>4. last * 50 >= r[2] * w
    BY <1>6, <1>9, <2>2
  <2> QED
    BY <1>6, <1>8, <2>2, <2>3, <2>4
<1>10. CropBox(regions, w)[1] = first /\ CropBox(regions, w)[2] = Max({last, first + 1})
  BY <1>7
<1>11. 0 <= first /\ first < Max({last, first + 1}) /\ Max({last, first + 1}) <= w
  BY <1>6, <1>8
<1> QED
  BY <1>9, <1>10, <1>11

\* A crop is cut once, from the regions of its request.
LEMMA CutKept ==
  ASSUME [Next]_vars, Cut
  PROVE  Cut'
<1>1. CASE crop' = crop
  BY <1>1, RequestFixed DEF Cut, Op
<1>2. CASE CropRegion
  BY <1>2 DEF CropRegion, Cut, Op
<1> QED
  BY <1>1, <1>2
  DEF Next, vars, UnusableReply, ReceiveText, ReceiveSplit, PlaceToken, RefuseClaim,
      AcceptClaim, ReturnDecomposition, DecideGrounded, ReceiveChecks,
      ReceiveFinding, StartBatch, ReceiveVectors, EmbeddingFails, Finished

\* What a model is shown is inside the image and holds every pixel of the cited
\* regions, for every width of image (crop_region).
THEOREM CropsHoldRegions == Spec => []CropShowsRegions
<1>1. Init => Cut
  BY DEF Init, Cut
<1>2. ASSUME GroundingInvariant, Cut PROVE CropShowsRegions
  <2>1. SUFFICES ASSUME crop # <<>> PROVE CropShowsRegions
    BY DEF CropShowsRegions
  <2>2. /\ request.regions \in RegionLists /\ request.regions # {} /\ request.width \in Nat \ {0}
        /\ crop = CropBox(request.regions, request.width)
    BY <1>2, <2>1, RequestArguments DEF Cut, GroundingInvariant, Shapes
  <2> QED
    BY <2>2, CropBoxShows DEF CropShowsRegions
<1> QED
  BY <1>1, <1>2, GroundingStarts, GroundingKept, CutKept, PTL DEF Spec
====
