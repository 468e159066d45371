----------------------------- MODULE MCPageUnits -----------------------------
(* Instances of PageUnits for TLC. *)
EXTENDS PageUnits, TLC

Box(t, b)  == [state |-> "usable", t |-> t, b |-> b, origin |-> "TOPLEFT"]
Below(t, b) == [state |-> "usable", t |-> t, b |-> b, origin |-> "BOTTOMLEFT"]
NoBox   == [state |-> "absent", t |-> 0, b |-> 0, origin |-> "TOPLEFT"]
BadBox  == [NoBox EXCEPT !.state = "unusable"]

Block(id, text, box) == [id |-> id, text |-> text, picture |-> FALSE, box |-> box]
Chart(id, path, summary, box) ==
  [id |-> id, path |-> path, summary |-> summary, box |-> box, admissible |-> TRUE]

Water == <<"w", "x">>
Forty == <<"4", "0">>
Four  == <<"4", "4">>
Unit  == <<"u">>
Tonne == <<"t", "t">>

\* Rows under one header; two rows that agree in a value; a unit column; a ragged
\* row and a blank one.
Grid(rows, cells) == [id |-> 1, header |-> 1, rows |-> rows, cells |-> cells, box |-> Box(5, 9)]
PlainTable  == Grid(<<<<Water, Four>>, <<Water, Forty>>>>, [k \in {<<1, 2>>, <<2, 2>>} |-> Box(4 + k[1], 9)])
TwinTable   == Grid(<<<<<<>>, Four>>, <<Water, Forty>>, <<Tonne, Forty>>>>, [k \in {<<2, 1>>} |-> Box(6, 7)])
UnitTable   == Grid(<<<<Water, Unit, Four>>, <<Water, Tonne, Forty>>, <<Tonne>>, <<<<>>>>>>,
                    [k \in {<<2, 3>>, <<3, 1>>} |-> Box(3, 2)])
DeepTable   == [UnitTable EXCEPT !.header = 2]
HeaderOnly  == [PlainTable EXCEPT !.header = 2]
ZeroHeader  == [PlainTable EXCEPT !.header = 0]

Second(table) == [table EXCEPT !.id = 2]
Unnamed(table) == [table EXCEPT !.id = 0]

\* Boxes of cells that are absent, and ones that cannot be converted: above the
\* column of names, where nothing reads it, in a blank row, and above a value.
HalfBoxed   == [PlainTable EXCEPT !.cells = (<<2, 1>> :> NoBox) @@ (<<2, 2>> :> Box(3, 4))]
IdleBadBox  == [PlainTable EXCEPT !.cells = (<<1, 1>> :> BadBox) @@ (<<2, 1>> :> Box(1, 2))]
BlankBadBox == [UnitTable EXCEPT !.cells = (<<4, 1>> :> BadBox) @@ (<<3, 1>> :> NoBox)]
ReadBadBox  == [PlainTable EXCEPT !.cells = (<<1, 2>> :> BadBox) @@ (<<2, 2>> :> Box(1, 2))]

Sources == {
  <<<<Block(1, Water, Box(2, 3)), Block(2, Forty, Below(4, 2))>>, <<>>, <<>>>>,
  <<<<Block(1, Water \o Forty, Box(8, 9)), Block(2, Forty, Box(8, 9))>>, <<>>, <<>>>>,
  <<<<Block(1, Water, NoBox), Block(2, <<"4", "-">> \o Four, Box(12, -1))>>, <<PlainTable>>, <<>>>>,
  <<<<>>, <<TwinTable, [PlainTable EXCEPT !.box = BadBox]>>, <<>>>>,
  <<<<Block(1, Tonne, Below(1, 0))>>, <<UnitTable, Second(ZeroHeader)>>, <<>>>>,
  <<<<>>, <<DeepTable, HeaderOnly>>, <<Chart(1, <<"p", "q">>, Forty \o <<" ">> \o Water, Box(0, 4))>>>>,
  <<<<>>, <<>>, <<Chart(1, <<"p", "q">>, Forty, Box(0, 4)), Chart(2, <<"p", "r">>, Water, Box(0, 4)),
                  [Chart(3, Forty, Four, Box(1, 2)) EXCEPT !.admissible = FALSE],
                  Chart(4, Four, Four, BadBox)>>>>,
  <<<<Block(1, Water, BadBox)>>, <<>>, <<>>>>,
  <<<<[Block(1, Water, BadBox) EXCEPT !.picture = TRUE]>>, <<PlainTable>>, <<>>>>,
  <<<<Block(1, Forty, Box(4, 6))>>, <<HalfBoxed, Second(ReadBadBox)>>, <<>>>>,
  <<<<>>, <<IdleBadBox, Second(BlankBadBox)>>, <<>>>>}

\* Two tables without an id: the same one twice, or one beside another.
Anonymous == {<<<<>>, <<Unnamed(PlainTable), Unnamed(table)>>, <<>>>> :
                table \in {PlainTable, UnitTable, HalfBoxed}}

Text(text) == [pipe |-> FALSE, cells |-> <<text>>]
Row(cells) == [pipe |-> TRUE, cells |-> cells]
RuleLine   == Row(<<<<"-", "-">>, <<"-", "-">>>>)

Cells == {Water, Forty, Four, <<"4">>, <<>>}
\* Every text of four glyphs, what units print side by side, and tables with and
\* without a rule.
Chunks ==
  {<<Text(t)>> : t \in UNION {[1 .. n -> {"4", "0", "-", "w"}] : n \in 1 .. 4}}
  \union {<<Text(a \o g \o b)>> : a, b \in {Water, Forty, Four, Tonne, <<"p", "q">>},
                                  g \in {<<>>, <<" ">>, <<"-">>}}
  \union {<<Text(Water), Text(b)>> : b \in {Forty, Tonne}}
  \union {<<Row(<<a, b>>)>> : a, b \in Cells}
  \union {<<Row(<<Water, a>>), RuleLine, Row(<<b, Forty>>)>> : a, b \in Cells}
  \union {<<Row(<<a, b>>), RuleLine>> : a, b \in Cells}
  \union {<<Row(<<Water, Forty>>), RuleLine, Row(<<a, Forty>>), RuleLine, Text(Tonne),
            Row(<<Tonne, Forty>>)>> : a \in Cells}

PagesOf(sources, chunks) ==
  {[blocks |-> s[1], tables |-> s[2], images |-> s[3], chunks |-> <<c>>] :
     s \in sources, c \in chunks}
MCPages ==
  PagesOf(Sources \union Anonymous, Chunks)
  \union
  {[blocks |-> s[1], tables |-> s[2], images |-> s[3], chunks |-> <<<<Text(Water)>>, c>>] :
     s \in Sources, c \in {<<Text(Forty)>>, <<Text(Water)>>, <<Row(<<Water, Forty>>)>>}}

MCGlyphs == {"w", "x", "4", "0", "u", "t", "p", "q", "r", "-", "|", " "}
MCSyntax == {"-", "|", " "}
MCUnitWord == Unit
=============================================================================
