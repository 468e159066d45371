\* RRF_K and the pool as small as they can be in the ratio of 60 to 60.
CONSTANTS
  Indexes <- MCIndexes
  RRFK = 3
  Pool = 3
  Limit = 3
  Top = 2
  Near = 2
  Tokens = 1
  Scale = 240
SPECIFICATION Spec
INVARIANT PassesDoNotCompete
INVARIANT AgreementOutranks
INVARIANT RowTravelsWithItsValue
