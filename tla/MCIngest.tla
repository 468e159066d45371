------------------------------ MODULE MCIngest ------------------------------
(* Instances of Ingest for TLC. *)
EXTENDS Ingest, TLC

CONSTANTS d1, d2, fA, fB

\* An attempt that got through its first page and embedded it before it died, and
\* one that holds old text, old vectors, old facts, units the source has since
\* lost and a failure of one of them.
Partial(st) ==
  [status |-> st, text |-> [p \in Pages |-> IF p = 1 THEN "current" ELSE "none"],
   embedded |-> {1}, leftover |-> {}, facts |-> "none", failures |-> {}]
Outdated(st) ==
  [status |-> st, text |-> [p \in Pages |-> "stale"], embedded |-> {1},
   leftover |-> {Ghost, 1}, facts |-> "stale", failures |-> {Ghost}]

MCSeeds == {Partial("building"), Outdated("failed"), Outdated("interrupted")}
MCNoSeeds == {}
MCFourVersions == {<<d1, fA, 1>>, <<d1, fA, 2>>, <<d1, fB, 1>>, <<d2, fA, 1>>}
MCTwoAttempts == {d1} \X {fA} \X {1, 2}
MCTwoBuilds == {d1} \X {fA, fB} \X {1}
MCBoth == {"frontend", "cli"}
MCOnlyFrontend == {"frontend"}
MCClaim1 == {1}
MCClaim2 == {1, 2}

=============================================================================
