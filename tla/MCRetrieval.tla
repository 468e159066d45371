----------------------------- MODULE MCRetrieval -----------------------------
(* Instances of Retrieval for TLC. *)
EXTENDS Retrieval, TLC

Row(version, page, order, context, scores) ==
  [version |-> version, kind |-> "cited", page |-> page, order |-> order, context |-> context,
   graph |-> scores[1], lexical |-> scores[2], vector |-> scores[3], hits |-> 0, scope |-> FALSE]
Markdown(row) == [row EXCEPT !.kind = "markdown", !.context = "none"]

\* Every way four rows may score: a value and its row header, prose, a row of
\* another table with the figure, and the Markdown of the page.
Scored(a, b, c, m) == <<
  [Row(1, 1, 5, "row", a) EXCEPT !.hits = 1],
  Row(1, 1, 4, "none", b),
  [Row(1, 1, 2, "row", c) EXCEPT !.scope = TRUE],
  Markdown(Row(1, 1, 8, "none", m))>>
Scores == {<<2, 1, 0>>, <<0, 2, 1>>, <<1, 0, 2>>, <<0, 1, 0>>, <<0, 2, 0>>}

\* A page of more rows than the limits admit, and the version that replaces it.
Crowded(version) == <<
  Row(version, 1, 4, "row", <<1, 1, 1>>),
  Row(version, 1, 3, "none", <<0, 0, 0>>),
  Row(version, 1, 5, "none", <<0, 0, 0>>),
  Row(version, 1, 7, "row", <<0, 0, 0>>),
  Row(version, 2, Unordered, "row", <<0, 1, 0>>)>>

\* One search alone finds the first, two find the last, deep in the pool.
Deep == <<
  Row(1, 1, 1, "none", <<3, 0, 0>>), Row(1, 1, 2, "none", <<2, 3, 3>>),
  Row(1, 1, 3, "none", <<0, 2, 2>>), Row(1, 1, 4, "none", <<1, 1, 0>>)>>

MCIndexes ==
  {Scored(a, b, c, m) : a, b, c, m \in Scores}
  \union {Crowded(v) \o <<Row(w, 1, 3, "row", <<1, 2, 1>>)>> : v, w \in {1, 2}}
  \union {Deep}
=============================================================================
