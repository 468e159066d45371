------------------------------ MODULE PageUnits ------------------------------
(***************************************************************************)
(* The evidence of one page: from what the extraction says of it to the    *)
(* numbered units the index stores (page_units).                           *)
(*                                                                         *)
(* Blocks, tables and charts give the units that can be cited.  The final  *)
(* Markdown of the page is generated, so a segment of it becomes a unit    *)
(* only where it maps onto those: first literal by literal over its whole  *)
(* text, one literal a step, else cell by cell.                            *)
(*                                                                         *)
(* Data: a text is a sequence of glyphs.  A box is its vertical extent in  *)
(* tenths of the page, with the side it is measured from.                  *)
(***************************************************************************)
EXTENDS Lists

CONSTANTS
  Pages,     \* what an extraction may say of a page
  Glyphs,    \* the characters of a page
  Syntax,    \* glyphs of Markdown structure and punctuation
  Rule,      \* the glyph of the line under a table's header
  UnitWord,  \* the header of a column of units
  MinAnchor  \* MIN_ANCHOR_CHARS

Bar == "|"
Space == " "

\* What the artifacts of a page hold, once parsed.
Texts == Seq(Glyphs)
Boxes ==
  [state : {"usable", "absent", "unusable"}, t : Int, b : Int, origin : {"TOPLEFT", "BOTTOMLEFT"}]
\* An extraction names its blocks, tables and charts, and a name may come twice; 0
\* stands for the "tc" of a table without one.
Blocks == [id : Nat, text : Texts, picture : BOOLEAN, box : Boxes]
Charts == [id : Nat, path : Texts, summary : Texts, box : Boxes, admissible : BOOLEAN]
Lines == [pipe : BOOLEAN, cells : Seq(Texts) \ {<<>>}]
IsTable(table) ==
  /\ table.id \in Nat /\ table.header \in Nat /\ table.box \in Boxes
  /\ table.rows \in Seq(Seq(Texts))
  /\ DOMAIN table.cells \subseteq (Nat \ {0}) \X (Nat \ {0})
  /\ \A k \in DOMAIN table.cells : table.cells[k] \in Boxes
IsPage(given) ==
  /\ given.blocks \in Seq(Blocks) /\ given.images \in Seq(Charts)
  /\ given.chunks \in Seq(Seq(Lines))
  /\ given.tables \in Seq(ToSet(given.tables)) /\ \A table \in ToSet(given.tables) : IsTable(table)

ASSUME ConstantsAssumption ==
  /\ \A given \in Pages : IsPage(given)
  /\ {Bar, Space} \union Syntax \subseteq Glyphs /\ Rule \in Syntax /\ MinAnchor \in Nat \ {0}

VARIABLES
  page,     \* blocks, tables, images and chunks of Markdown lines
  pc,
  units,    \* units built so far, in the order of the artifacts
  skipped,  \* tables left out with a warning
  segment,  \* the Markdown segment being mapped
  left,     \* literals still to be placed in it
  placed,   \* spans of it taken, [from, to, key]
  ordered   \* what is stored

vars == <<page, pc, units, skipped, segment, left, placed, ordered>>
mapping == <<segment, left, placed>>

Height == 10

Init ==
  /\ page \in Pages
  /\ pc = "blocks"
  /\ units = <<>> /\ skipped = 0
  /\ segment = 1 /\ left = {} /\ placed = {} /\ ordered = <<>>

\* Something for each place.
Each(indices, F(_)) == [k \in DOMAIN indices |-> F(indices[k])]
Joined(texts, glue) == FlattenSeq([k \in DOMAIN texts |->
                         IF k = 1 THEN texts[k] ELSE <<glue>> \o texts[k]])

-----------------------------------------------------------------------------
(* Units of the page itself.                                               *)

\* The top of a box after normalize_bbox: from the top, in order, on the page.
TopOf(box) ==
  LET top    == IF box.origin = "BOTTOMLEFT" THEN Height - box.t ELSE box.t
      bottom == IF box.origin = "BOTTOMLEFT" THEN Height - box.b ELSE box.b
  IN  Min({Height, Max({0, Min({top, bottom})})})

Given(box) == box.state # "absent"

NarrativeUnits ==
  LET block(i) == page.blocks[i]
  IN  Each(Ascending({i \in DOMAIN page.blocks : /\ block(i).text # <<>> /\ ~block(i).picture
                                                  /\ Given(block(i).box)}),
           LAMBDA i : [key |-> <<"narrative", block(i).id>>, kind |-> "narrative",
                       literals |-> {block(i).text}, prints |-> {block(i).text},
                       top |-> TopOf(block(i).box), sources |-> <<>>])

\* A block with an unusable box fails the page, and with it the build.
ReadBlocks ==
  /\ pc = "blocks"
  /\ IF \E i \in DOMAIN page.blocks :
          /\ page.blocks[i].box.state = "unusable"
          /\ page.blocks[i].text # <<>> /\ ~page.blocks[i].picture
       THEN pc' = "failed" /\ UNCHANGED units
       ELSE pc' = "tables" /\ units' = NarrativeUnits
  /\ UNCHANGED <<page, skipped, mapping, ordered>>

\* header_rows of a grid, where nothing and zero both mean one.
HeaderRows(table) == Max({1, table.header})
Cell(table, r, c) == IF c \in DOMAIN table.rows[r] THEN table.rows[r][c] ELSE <<>>
Columns(table) == Max({Len(table.rows[r]) : r \in DOMAIN table.rows})

\* flatten_header: the texts above a column, a spanning one once.
Header(table, c) ==
  LET path == [r \in 1 .. HeaderRows(table) |-> Cell(table, r, c)]
  IN  At(path, {r \in DOMAIN path : path[r] # <<>> /\ \A q \in 1 .. r - 1 : path[q] # path[r]})
HeaderText(table, c) == Joined(Header(table, c), Space)

UnitColumn(table) ==
  LET named == {c \in 1 .. Columns(table) : HeaderText(table, c) = UnitWord}
  IN  IF named = {} THEN 0 ELSE Min(named)

\* Tops of the cells that have a box of their own.
Boxed(table, coordinates) == {k \in coordinates \cap DOMAIN table.cells : Given(table.cells[k])}
Tops(table, coordinates) == {TopOf(table.cells[k]) : k \in Boxed(table, coordinates)}
Or(tops, others) == IF tops # {} THEN tops ELSE others

RowUnit(table, r) ==
  LET unit == Cell(table, r, UnitColumn(table))
  IN  [key |-> <<"table_row", table.id, r>>, kind |-> "table_row",
       literals |-> {Cell(table, r, 1), unit},
       prints |-> {Cell(table, r, 1), unit} \union
                  UNION {{HeaderText(table, c), Cell(table, r, c)} :
                         c \in {d \in 2 .. Columns(table) \ {UnitColumn(table)} :
                                  Cell(table, r, d) # <<>>}},
       top |-> Min(Or(Tops(table, {r} \X (1 .. Columns(table))), {TopOf(table.box)})),
       sources |-> <<>>]

\* A value is placed by its own cell, failing that its row, failing that its
\* table, together with the cells that name it.
ValueUnit(table, r, c) ==
  LET unit    == UnitColumn(table)
      row     == Tops(table, {r} \X (1 .. Columns(table)))
      naming  == Tops(table, {<<r, 1>>, <<HeaderRows(table), c>>, <<r, unit>>})
  IN  [key |-> <<"table_value", table.id, r, c>>, kind |-> "table_value",
       literals |-> {Cell(table, r, c)},
       prints |-> {Cell(table, r, 1), HeaderText(table, c), Cell(table, r, unit),
                   Cell(table, r, c)},
       top |-> Min(naming \union Or(Tops(table, {<<r, c>>}), Or(row, {TopOf(table.box)}))),
       sources |-> <<>>]

\* Rows that say something, and the values of one.
RowsRead(table) ==
  {r \in DOMAIN table.rows : /\ r > HeaderRows(table)
                              /\ \E c \in DOMAIN table.rows[r] : table.rows[r][c] # <<>>}
ValuesRead(table, r) ==
  {c \in 1 .. Columns(table) : c \notin {1, UnitColumn(table)} /\ Cell(table, r, c) # <<>>}

UnitsOfRow(table, r) ==
  <<RowUnit(table, r)>> \o Each(Ascending(ValuesRead(table, r)), LAMBDA c : ValueUnit(table, r, c))

\* A grid that is all header has no rows to read.
TableUnits(table) ==
  IF table.rows = <<>> \/ HeaderRows(table) >= Len(table.rows) THEN <<>>
  ELSE FlattenSeq(Each(Ascending(RowsRead(table)), LAMBDA r : UnitsOfRow(table, r)))

\* The cells whose boxes are converted: of each row that is read, and above each value.
CellsRead(table) ==
  UNION {({r} \X (1 .. Columns(table))) \union ({HeaderRows(table)} \X ValuesRead(table, r)) :
         r \in RowsRead(table)}

\* One box that cannot be converted, its own or of a cell that is read, and a table
\* is left out, alone, as a whole and with a warning.
IsUsable(table) ==
  /\ table.box.state = "usable"
  /\ \A k \in CellsRead(table) \cap DOMAIN table.cells : table.cells[k].state # "unusable"
UsableTables == {t \in DOMAIN page.tables : IsUsable(page.tables[t])}
UnitsOfTables == FlattenSeq(Each(Ascending(UsableTables), LAMBDA t : TableUnits(page.tables[t])))

ReadTables ==
  /\ pc = "tables"
  /\ units' = units \o UnitsOfTables
  /\ skipped' = Len(page.tables) - Cardinality(UsableTables)
  /\ pc' = "images"
  /\ UNCHANGED <<page, mapping, ordered>>

\* Only what both stages typed as a chart, and described without a doubt; a
\* rectangle that cannot be used is one chart less.
VisualUnits ==
  Each(Ascending({i \in DOMAIN page.images : /\ page.images[i].admissible
                                              /\ page.images[i].box.state = "usable"}),
       LAMBDA i : [key |-> <<"visual", page.images[i].id>>, kind |-> "visual",
                   literals |-> {page.images[i].path}, prints |-> {page.images[i].summary},
                   top |-> TopOf(page.images[i].box), sources |-> <<>>])

ReadImages ==
  /\ pc = "images"
  /\ units' = units \o VisualUnits
  /\ pc' = "segment"
  /\ UNCHANGED <<page, skipped, mapping, ordered>>

-----------------------------------------------------------------------------
(* Segments of the generated Markdown.                                     *)

\* The line under a table's header: |---|---|.
IsSeparator(line) ==
  /\ line.pipe
  /\ \E c \in DOMAIN line.cells : line.cells[c] # <<>>
  /\ \A c \in DOMAIN line.cells : line.cells[c] # <<>> =>
       Len(line.cells[c]) >= 2 /\ ToSet(line.cells[c]) = {Rule}

\* Lines of the same table: pipe lines with no other line between.
SameRun(chunk, i, j) == \A k \in Min({i, j}) .. Max({i, j}) : chunk[k].pipe
Separators(chunk, i) == {j \in DOMAIN chunk : SameRun(chunk, i, j) /\ IsSeparator(chunk[j])}

AssertsWithHeader(chunk, i) == chunk[i].pipe => i \notin Separators(chunk, i)

\* _table_rows: a row at or above the separator of its table names columns.
Asserts(chunk, i) ==
  chunk[i].pipe /\ Separators(chunk, i) # {} =>
    i > Min(Separators(chunk, i)) /\ i \notin Separators(chunk, i)

SegmentsOf(chunk) ==
  IF \E i \in DOMAIN chunk : chunk[i].pipe
    THEN At(chunk, {i \in DOMAIN chunk : Asserts(chunk, i)})
    ELSE <<[pipe |-> FALSE,
            cells |-> <<Joined([i \in DOMAIN chunk |-> chunk[i].cells[1]], Space)>>]>>

Segments == FlattenSeq([k \in DOMAIN page.chunks |-> SegmentsOf(page.chunks[k])])
Current == Segments[segment]
TextOf(line) == IF line.pipe THEN <<Bar>> \o Joined(line.cells, Bar) \o <<Bar>> ELSE line.cells[1]

Citable == {units[u] : u \in {v \in DOMAIN units : units[v].kind # "page_markdown"}}

\* literal_anchors: the literals worth trusting, and the units that print one.
Anchors == {text \in UNION {u.literals : u \in Citable} : Len(text) >= MinAnchor}
Owners(text) == {u.key : u \in {v \in Citable : text \in v.literals}}

StartSegment ==
  /\ pc = "segment" /\ segment <= Len(Segments)
  /\ left' = Anchors /\ placed' = {}
  /\ pc' = "anchors"
  /\ UNCHANGED <<page, units, skipped, segment, ordered>>

Occurrences(needle, text) ==
  {i \in 1 .. Len(text) - Len(needle) + 1 : SubSeq(text, i, i + Len(needle) - 1) = needle}

FreeAnywhere(needle, text) == Occurrences(needle, text)

\* Where a literal does not meet what longer ones have taken.
Free(needle, text) ==
  {i \in Occurrences(needle, text) :
     \A p \in placed : i + Len(needle) - 1 < p.from \/ i > p.to}

\* The longest literals first; the order among equals is that of the artifacts,
\* and any is tried here.  One of two keys identifies neither.
PlaceAnchor(text) ==
  /\ pc = "anchors" /\ text \in left /\ \A other \in left : Len(other) <= Len(text)
  /\ left' = left \ {text}
  /\ LET free == Free(text, TextOf(Current))
     IN  IF free = {} THEN UNCHANGED <<pc, placed>>
         ELSE IF Cardinality(Owners(text)) > 1 THEN pc' = "cells" /\ UNCHANGED placed
         ELSE /\ placed' = placed \union
                   {[from |-> Min(free), to |-> Min(free) + Len(text) - 1,
                     key |-> CHOOSE k \in Owners(text) : TRUE]}
              /\ UNCHANGED pc
  /\ UNCHANGED <<page, units, skipped, segment, ordered>>

\* What the literals leave of the text.
Residual(text) == {i \in DOMAIN text : \A p \in placed : i < p.from \/ i > p.to}

KeysInOrder ==
  LET spans == Ordered([p \in placed |-> {q \in placed : q.from < p.from}])
  IN  Distinct([k \in DOMAIN spans |-> spans[k].key])

\* markdown_units: the segment maps onto these units, or is not indexed at all.
EndSegment(keys) ==
  /\ units' = IF keys = <<>> THEN units
              ELSE Append(units, [key |-> <<"page_markdown", segment>>, kind |-> "page_markdown",
                                  literals |-> {}, prints |-> {}, top |-> 0, sources |-> keys])
  /\ segment' = segment + 1 /\ left' = {} /\ placed' = {}
  /\ pc' = "segment"
  /\ UNCHANGED <<page, skipped, ordered>>

\* The end of anchor_segment: all of the text is accounted for, or none is.
Covered(text) == placed # {} /\ \A i \in Residual(text) : text[i] \in Syntax

EndAnchors ==
  /\ pc = "anchors" /\ left = {}
  /\ IF Covered(TextOf(Current)) THEN EndSegment(KeysInOrder)
     ELSE pc' = "cells" /\ UNCHANGED <<page, units, skipped, mapping, ordered>>

Printing(cell) ==
  {u.key : u \in {v \in Citable : \E text \in v.prints : Occurrences(cell, text) # {}}}

\* row_cell_sources: every cell is found under exactly one key of a citable unit.
MatchCells ==
  /\ pc = "cells"
  /\ LET cells == Only(Current.cells, ToSet(Current.cells) \ {<<>>})
         found == [k \in DOMAIN cells |-> Printing(cells[k])]
     IN  EndSegment(IF Current.pipe /\ \A k \in DOMAIN cells : Cardinality(found[k]) = 1
                      THEN Distinct([k \in DOMAIN cells |-> CHOOSE key \in found[k] : TRUE])
                      ELSE <<>>)

-----------------------------------------------------------------------------
PositionByTop(u) == units[u].top

\* _in_reading_order: by the highest region, generated text last.
Position(u) == IF units[u].kind = "page_markdown" THEN Height + 1 ELSE units[u].top

Order ==
  /\ pc = "segment" /\ segment > Len(Segments)
  /\ ordered' = Each(Ordered([u \in DOMAIN units |-> {v \in DOMAIN units :
                                \/ Position(v) < Position(u)
                                \/ Position(v) = Position(u) /\ v < u}]),
                     LAMBDA u : units[u])
  /\ pc' = "stored"
  /\ UNCHANGED <<page, units, skipped, mapping>>

Finished == pc \in {"stored", "failed"} /\ UNCHANGED vars

Next ==
  \/ ReadBlocks \/ ReadTables \/ ReadImages
  \/ StartSegment \/ (\E text \in left : PlaceAnchor(text)) \/ EndAnchors \/ MatchCells
  \/ Order \/ Finished

Spec == Init /\ [][Next]_vars

-----------------------------------------------------------------------------
(* Properties.                                                             *)

Mapped == {u \in ToSet(units) : u.kind = "page_markdown"}
SegmentOf(u) == Segments[u.key[2]]

\* Where the text prints a literal that one of these keys owns and no other.
Spans(text, keys) ==
  UNION {{[from |-> i, to |-> i + Len(a) - 1, key |-> CHOOSE k \in Owners(a) : TRUE] :
          i \in Occurrences(a, text)} :
         a \in {b \in Anchors : Cardinality(Owners(b)) = 1 /\ Owners(b) \subseteq keys}}

\* The text is these units' own words and nothing else, in the order of the list.
WrittenBy(text, keys) ==
  \E spans \in SUBSET Spans(text, ToSet(keys)) :
    /\ \A p, q \in spans : p # q => p.to < q.from \/ q.to < p.from
    /\ \A i \in DOMAIN text : text[i] \in Syntax \/ \E p \in spans : i \in p.from .. p.to
    /\ ToSet(keys) = {p.key : p \in spans}
    /\ \A j, k \in DOMAIN keys : j < k =>
         Min({p.from : p \in {q \in spans : q.key = keys[j]}}) <
           Min({p.from : p \in {q \in spans : q.key = keys[k]}})

\* Each cell of the row is found under one key of the list and under no other.
RebuiltFrom(line, keys) ==
  /\ line.pipe
  /\ \A c \in DOMAIN line.cells : line.cells[c] # <<>> =>
       \E k \in DOMAIN keys : Printing(line.cells[c]) = {keys[k]}
  /\ \A k \in DOMAIN keys : \E c \in DOMAIN line.cells :
       line.cells[c] # <<>> /\ Printing(line.cells[c]) = {keys[k]}

\* Generated text is indexed only where all of it was on the page: as words of the
\* units it names, none of which units of two keys share, or as cells of theirs
\* (anchor_segment, row_cell_sources).
MappedTextIsPrinted ==
  \A u \in Mapped :
    /\ u.sources # <<>>
    /\ WrittenBy(TextOf(SegmentOf(u)), u.sources) \/ RebuiltFrom(SegmentOf(u), u.sources)

\* A row above the rule of its table names columns and is never offered as
\* something the page says, where another row does not read the same.
HeadersAreNotReadings ==
  \A u \in Mapped : SegmentOf(u).pipe =>
    \E k \in DOMAIN page.chunks : \E i \in DOMAIN page.chunks[k] :
      /\ page.chunks[k][i] = SegmentOf(u)
      /\ Separators(page.chunks[k], i) # {} =>
           \E j \in Separators(page.chunks[k], i) : j < i

Times(list, unit) == Cardinality({k \in DOMAIN list : list[k] = unit})
Level(a, b) == (a.kind = "page_markdown") = (b.kind = "page_markdown") /\ a.top = b.top

\* What is stored is each unit as often as it was built, down the page and in the
\* order of the artifacts where two are level, with generated text after all that it
\* was generated from, so that it is nobody's neighbour; and each key it names is
\* that of a unit before it which can be cited (_in_reading_order).
StoredInReadingOrder ==
  pc = "stored" =>
    /\ Len(ordered) = Len(units)
    /\ \A u \in ToSet(units) : Times(ordered, u) = Times(units, u)
    /\ \A i, j \in DOMAIN ordered : i < j =>
         /\ \/ ordered[j].kind = "page_markdown"
            \/ ordered[i].kind # "page_markdown" /\ ordered[i].top <= ordered[j].top
         /\ Level(ordered[i], ordered[j]) =>
              \E u, v \in DOMAIN units :
                u < v /\ units[u] = ordered[i] /\ units[v] = ordered[j]
    /\ \A j \in DOMAIN ordered : \A k \in DOMAIN ordered[j].sources :
         \E i \in 1 .. j - 1 : /\ ordered[i].key = ordered[j].sources[k]
                                /\ ordered[i].kind # "page_markdown"
=============================================================================
