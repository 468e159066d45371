\* One document, one build, two attempts, two pages, two narrative candidates.
CONSTANTS
  d1 = d1
  d2 = d2
  fA = fA
  fB = fB
  Docs = {d1}
  Fps = {fA}
  NarrativeFps = {fA}
  Version <- MCTwoAttempts
  NPages = 2
  ClaimPages <- MCClaim2
  BatchSize = 1
  StartModes <- MCBoth
  Seeds <- MCSeeds
  NoVersion = NoVersion
SPECIFICATION FairSpec
INVARIANT TypeOK
INVARIANT VectorsMatchText
INVARIANT QueryableIsCurrent
INVARIANT WorkProgress
INVARIANT ReadyOwesNothing
INVARIANT OwedCandidateHasNoFact
INVARIANT CoverageNotOverstated
PROPERTY ImplementsIndex
PROPERTY WorkEnds
