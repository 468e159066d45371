------------------------------- MODULE MCAudit -------------------------------
(* Instances of Audit for TLC. *)
EXTENDS Audit, TLC

CONSTANTS d1, d2, text, value, chart, segment, row

MCTwoVersions == {<<d1, 1>>, <<d1, 2>>}
\* A sentence joined from a block and a chart, and a table row rebuilt from the
\* chart alone.
MCSources == (segment :> {text, chart}) @@ (row :> {chart})
MCChartOnly == row :> {chart}
MCFactSeeds == {[u \in Direct |-> {}], [u \in Direct |-> {"match", "conflict"}]}
MCNoFacts == {[u \in Direct |-> {}]}

=============================================================================
