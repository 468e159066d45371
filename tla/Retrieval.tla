------------------------------ MODULE Retrieval ------------------------------
(***************************************************************************)
(* One retrieval: three searches over the index, merged by reciprocal rank *)
(* and cut to the caller's limit (retrieve), then the page neighbours of   *)
(* the best candidates (expand).                                           *)
(*                                                                         *)
(* Each statement reads what is committed when it starts, and a version    *)
(* published between two of them serves the later ones only.               *)
(*                                                                         *)
(* Data: an evidence row is its position in the index, which is its id, in *)
(* the order the rows were inserted.  What it scores in a search is a      *)
(* number, 0 where the search does not match it.  Fusion scores are whole  *)
(* numbers: fractions of Scale.                                            *)
(***************************************************************************)
EXTENDS Lists

CONSTANTS
  Indexes,  \* the evidence an index may hold, as sequences of rows
  RRFK,     \* RRF_K
  Pool,     \* rows a search returns at most
  Limit,    \* candidates a caller asks for
  Top,      \* candidates whose neighbours are pulled in
  Near,     \* neighbours of one candidate at most
  Tokens,   \* exact tokens of the claim
  Scale     \* a multiple of every denominator of a score

Unordered == 99  \* where a row without a source_order sorts

Channels == {"graph", "lexical", "vector"}

\* An evidence row, and what it scores.
Rows ==
  [version : {1, 2}, kind : {"cited", "markdown"}, page : Nat, order : 0 .. Unordered,
   context : STRING, graph : Nat, lexical : Nat, vector : Nat, hits : Nat, scope : BOOLEAN]

ASSUME ConstantsAssumption ==
  /\ \A rows \in Indexes : rows \in Seq(ToSet(rows)) /\ ToSet(rows) \subseteq Rows
  /\ {RRFK, Pool, Limit, Top, Near, Tokens, Scale} \subseteq Nat \ {0}
  /\ \A d \in {2 * RRFK, RRFK * Tokens} \union {RRFK + p : p \in 1 .. Pool} : Scale % (4 * d) = 0

VARIABLES
  index,      \* the rows of every version
  serving,    \* the version whose rows answer
  pass,       \* "direct", or "mapped" for the retrieval of generated Markdown
  pc,
  matched,    \* what each search found, best first
  ranked,     \* what the pass ranks of it
  candidates, \* [id, score], best first, then the neighbours pulled in
  seed        \* the next candidate to expand

vars == <<index, serving, pass, pc, matched, ranked, candidates, seed>>

Nothing == [c \in Channels |-> <<>>]

Init ==
  /\ index \in Indexes
  /\ serving = 1
  /\ pass \in {"direct", "mapped"}
  /\ pc = "graph"
  /\ matched = Nothing /\ ranked = Nothing /\ candidates = <<>> /\ seed = 1

\* The ingestion worker activates the version that replaces the one serving.
Publish ==
  /\ serving = 1
  /\ serving' = 2
  /\ UNCHANGED <<index, pass, pc, matched, ranked, candidates, seed>>

Ready == {i \in DOMAIN index : index[i].version = serving}

-----------------------------------------------------------------------------
(* The searches.                                                           *)

First(n, list) == SubSeq(list, 1, Min({n, Len(list)}))

Matches(c) == {i \in Ready : index[i][c] > 0}

\* ORDER BY the score, then the id.
Better(c, j, i) ==
  \/ index[j][c] > index[i][c]
  \/ index[j][c] = index[i][c] /\ j < i
Sorted(c) == Ordered([i \in Matches(c) |-> {j \in Matches(c) : Better(c, j, i)}])

\* The nearest-neighbour index is approximate: it may miss rows.  It leaves the
\* order of equal distances open.
NearestFirst(c, found) ==
  {s \in SetToSeqs(found) : \A k \in 1 .. Len(s) - 1 : index[s[k]][c] >= index[s[k + 1]][c]}

\* _admitted
Admitted == {i \in DOMAIN index : (index[i].kind = "markdown") = (pass = "mapped")}

\* Mutant: a row the pass does not rank takes its place all the same.
RankEverything(answer) == First(Pool, answer)
\* The statement is cut to the pool before the pass is asked.
Ranked(answer) == Only(First(Pool, answer), Admitted)

Answered(c, answer) ==
  /\ matched' = [matched EXCEPT ![c] = answer]
  /\ ranked' = [ranked EXCEPT ![c] = Ranked(answer)]
  /\ UNCHANGED <<index, serving, pass, candidates, seed>>

GraphSearch == pc = "graph" /\ Answered("graph", Sorted("graph")) /\ pc' = "lexical"

LexicalSearch == pc = "lexical" /\ Answered("lexical", Sorted("lexical")) /\ pc' = "vector"

VectorSearch ==
  /\ pc = "vector"
  /\ \E found \in SUBSET Matches("vector") : \E answer \in NearestFirst("vector", found) :
       Answered("vector", answer)
  /\ pc' = "fuse"

\* The claim could not be embedded: the channel is absent.
NoEmbedding ==
  /\ pc = "vector" /\ pc' = "fuse"
  /\ UNCHANGED <<index, serving, pass, matched, ranked, candidates, seed>>

-----------------------------------------------------------------------------
(* Fusion.                                                                 *)

\* Mutant: the rank alone, as if RRF_K were 0.
RankShare(position) == Scale \div position
\* What a rank is worth.
Share(position) == Scale \div (RRFK + position)

\* EXACT_TOKEN_BONUS * hits / len(tokens), and SCOPE_TOKEN_BONUS
Bonus(i) == (Scale * index[i].hits) \div (RRFK * Tokens)
            + (IF index[i].scope THEN Scale \div (2 * RRFK) ELSE 0)

FoundBy(lists, i) == {c \in Channels : i \in ToSet(lists[c])}

Worth(list, i) ==
  IF i \in ToSet(list) THEN Share(Min({k \in DOMAIN list : list[k] = i})) ELSE 0

Score(lists, i) ==
  Bonus(i) + Worth(lists["graph"], i) + Worth(lists["lexical"], i) + Worth(lists["vector"], i)

\* _document_position, after the score
EarlierInDocument(i, j) ==
  \/ index[i].page < index[j].page
  \/ index[i].page = index[j].page /\ \/ index[i].order < index[j].order
                                      \/ index[i].order = index[j].order /\ i < j

\* fuse
Merged(lists) ==
  LET ids == UNION {ToSet(lists[c]) : c \in Channels}
      score == [i \in ids |-> Score(lists, i)]
      best == Ordered([i \in ids |-> {j \in ids :
                \/ score[j] > score[i]
                \/ score[j] = score[i] /\ EarlierInDocument(j, i)}])
  IN  [k \in DOMAIN best |-> [id |-> best[k], score |-> score[best[k]]]]

Kept(lists) == First(Limit, Merged(lists))

\* Only the direct pass of an audit expands; the rows of the other stand as they are.
Fuse ==
  /\ pc = "fuse"
  /\ candidates' = Kept(ranked)
  /\ pc' = IF pass = "direct" THEN "expand" ELSE "done"
  /\ UNCHANGED <<index, serving, pass, matched, ranked, seed>>

-----------------------------------------------------------------------------
(* Expansion.                                                              *)

SharesContext(i, j) == index[i].context # "none" /\ index[i].context = index[j].context

Distance(i, j) ==
  LET apart == index[i].order - index[j].order
  IN  IF Unordered \in {index[i].order, index[j].order} THEN Unordered ELSE Max({apart, -apart})

\* Citable rows on the page of row i.
OnPage(i) == {j \in Ready \ {i} : /\ index[j].version = index[i].version
                                  /\ index[j].page = index[i].page
                                  /\ index[j].kind # "markdown"}

\* Row j comes before row k: the rows of the table row of i, then the closest in the
\* document, then by id.
Closer(i, j, k) ==
  \/ Distance(i, j) < Distance(i, k)
  \/ Distance(i, j) = Distance(i, k) /\ j < k
Nearer(i, j, k) ==
  \/ SharesContext(i, j) /\ ~SharesContext(i, k)
  \/ SharesContext(i, j) = SharesContext(i, k) /\ Closer(i, j, k)

\* Mutant: the closest only.
NeighboursByDistance(i) ==
  First(Near, Ordered([k \in OnPage(i) |-> {j \in OnPage(i) : Closer(i, j, k)}]))
neighbours(i) ==
  First(Near, Ordered([k \in OnPage(i) |-> {j \in OnPage(i) : Nearer(i, j, k)}]))

Ids(list) == {list[k].id : k \in DOMAIN list}

\* What a candidate brings in that is not there yet, at a quarter of its score.
Pulled(i, score) ==
  LET new == Only(neighbours(i), DOMAIN index \ Ids(candidates))
  IN  [k \in DOMAIN new |-> [id |-> new[k], score |-> score \div 4]]

ExpandOne ==
  /\ pc = "expand" /\ seed <= Min({Top, Len(Kept(ranked))})
  /\ candidates' = candidates \o Pulled(candidates[seed].id, candidates[seed].score)
  /\ seed' = seed + 1
  /\ UNCHANGED <<index, serving, pass, pc, matched, ranked>>

EndExpansion ==
  /\ pc = "expand" /\ seed > Min({Top, Len(Kept(ranked))})
  /\ pc' = "done"
  /\ UNCHANGED <<index, serving, pass, matched, ranked, candidates, seed>>

Finished == pc = "done" /\ UNCHANGED vars

Next ==
  \/ GraphSearch \/ LexicalSearch \/ VectorSearch \/ NoEmbedding
  \/ Fuse \/ ExpandOne \/ EndExpansion
  \/ Publish \/ Finished

Spec == Init /\ [][Next]_vars

-----------------------------------------------------------------------------
(* Properties.                                                             *)

Merging == pc \in {"expand", "done"}

\* Generated Markdown repeats the units it was made from.  As long as a search
\* returns everything it matched, the direct pass gives the candidates, the order
\* and the scores of an index without any Markdown, and the mapped pass those of
\* an index of nothing else.  Only the pool, which is cut before the pass is
\* asked, lets the one take the place of the other (retrieve.py _admitted).
PassesDoNotCompete ==
  Merging /\ (\A c \in Channels : Len(matched[c]) <= Pool) =>
    LET alone == Kept([c \in Channels |-> Only(matched[c], Admitted)])
    IN  SubSeq(candidates, 1, Len(alone)) = alone /\ (pass = "mapped" => candidates = alone)

\* Of two rows with the same literal evidence, one that two searches agree on
\* comes before one that a single search found, however deep in the pool the two
\* found it and however high the one put it (retrieve.py fuse).
AgreementOutranks ==
  Merging =>
    LET all == Merged(ranked)
    IN  \A k, l \in DOMAIN all :
          /\ Bonus(all[k].id) >= Bonus(all[l].id)
          /\ Cardinality(FoundBy(ranked, all[k].id)) > 1
          /\ Cardinality(FoundBy(ranked, all[l].id)) = 1
          => k < l

\* A figure is not read without its row: whatever was published meanwhile, an
\* expanded candidate of the version that answers has its whole table row among
\* the candidates if that row fits, and no evidence is there twice, so none is
\* weighed twice (retrieve.py expand, db.py neighbours).
RowTravelsWithItsValue ==
  pc = "done" =>
    /\ Cardinality(Ids(candidates)) = Len(candidates)
    /\ pass = "direct" =>
         \A k \in 1 .. Min({Top, Len(Kept(ranked))}) :
           LET i == candidates[k].id
               row == {j \in Ready \ {i} : /\ index[j].page = index[i].page
                                           /\ index[j].kind # "markdown" /\ SharesContext(i, j)}
           IN  index[i].version = serving /\ Cardinality(row) <= Near => row \subseteq Ids(candidates)
=============================================================================
