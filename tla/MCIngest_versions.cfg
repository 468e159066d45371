\* Four version rows: two attempts of one build, another build, another document.
CONSTANTS
  d1 = d1
  d2 = d2
  fA = fA
  fB = fB
  Docs = {d1, d2}
  Fps = {fA, fB}
  NarrativeFps = {fA}
  Version <- MCFourVersions
  NPages = 1
  ClaimPages = {}
  BatchSize = 1
  StartModes <- MCBoth
  Seeds <- MCNoSeeds
  NoVersion = NoVersion
SPECIFICATION Spec
INVARIANT OneQueryableVersion
PROPERTY ServiceUninterrupted
