\* Claims and facts about figures, and about different things.
CONSTANTS
  Parses <- MCParses
  Wordings <- MCWordings
  Facts <- MCFacts
  Within <- MCWithin
  None = None
SPECIFICATION Spec
INVARIANT DecidedOnLikeQuantities
INVARIANT ExplanationAgrees
INVARIANT RescalingIsNeutral
INVARIANT HedgeIsHalfADigit
INVARIANT BoundSurvivesParse
