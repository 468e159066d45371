--------------------------- MODULE MCModelAnswers ---------------------------
(* Instances of ModelAnswers for TLC. *)
EXTENDS ModelAnswers, TLC

CONSTANTS cut, water, ten, not   \* tokens; ten and not are protected

MCTokens == {cut, water, ten, not}
\* A post that says a word twice, one that repeats a figure, one of a single token
\* and one of punctuation only.
MCPosts == {<<cut, ten, water, ten>>, <<water, cut, water>>, <<not, water>>, <<cut>>, <<>>}
MCTexts == UNION {[1 .. n -> {cut, water, ten}] : n \in 0 .. 2} \union
           {<<not>>, <<not, water>>, <<water, cut, water>>, <<ten, water, ten>>}
MCPairs == MCTexts \X MCTexts
\* Up to two texts, and three that are one too many.
MCLists == {<<>>} \union {<<t>> : t \in MCTexts} \union MCPairs
             \union {<<<<cut>>, t, <<water>>>> : t \in MCTexts}
MCClaimLists == MCLists

MCChecks == [index : -1 .. 2, outcome : {"entailed", "not_entailed"}]
MCCheckLists == UNION {[1 .. n -> MCChecks] : n \in 0 .. 2} \union
                {<<a, b, a>> : a, b \in MCChecks}

\* "40" is inside "140"; "15" is not.
MCFigures == {40, 140, 15}
MCWithin == {<<40, 140>>}
MCRegionLists == {{}, {<<0, 0>>}, {<<0, 50>>}, {<<50, 50>>}, {<<3, 7>>, <<20, 21>>}, {<<49, 50>>}}
MCWidths == {1, 7, 50, 51, 99, 640}
=============================================================================
