\* Two builds of one document, one narrative candidate.
CONSTANTS
  d1 = d1
  d2 = d2
  fA = fA
  fB = fB
  Docs = {d1}
  Fps = {fA, fB}
  NarrativeFps = {fA}
  Version <- MCTwoBuilds
  NPages = 1
  ClaimPages <- MCClaim1
  BatchSize = 1
  StartModes <- MCOnlyFrontend
  Seeds <- MCNoSeeds
  NoVersion = NoVersion
SPECIFICATION Spec
INVARIANT ReadyIsFullyCounted
