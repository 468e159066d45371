\* Every operation, phases of up to two items.
CONSTANTS
  Operations = {"ingest", "reuse", "retry", "audit"}
  MaxItems = 2
  SearchPool = 3
SPECIFICATION Spec
INVARIANT ListenerChangesNothing
INVARIANT EventsTellTheOutcome
INVARIANT PercentNeverDecreases
