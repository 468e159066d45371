\* One document; a frontend and a worker that each keep their client, and an operator
\* whose commands make one call each.
CONSTANTS
  Docs = {d1}
  Guards = {"confirmed", "execute"}
  LongLived = {"frontend", "worker"}
SPECIFICATION FairSpec
CHECK_DEADLOCK FALSE
INVARIANT ResetIsAllOrNothing
PROPERTY OnlyAReturnedCallHoldsARemoval
