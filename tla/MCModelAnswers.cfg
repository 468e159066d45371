\* Two claims at most, batches of two.
CONSTANTS
  cut = cut
  water = water
  ten = ten
  not = not
  Protected = {ten, not}
  Posts <- MCPosts
  ClaimLists <- MCClaimLists
  SplitReplies <- MCLists
  CheckLists <- MCCheckLists
  MaxClaims = 2
  Figures <- MCFigures
  Within <- MCWithin
  RegionLists <- MCRegionLists
  Widths <- MCWidths
  MaxPending = 3
  BatchSize = 2
SPECIFICATION Spec
INVARIANT GroundingMatchesDefinition
INVARIANT OnlyAssertedClaimsPass
INVARIANT UnusableRepliesFailClosed
INVARIANT VectorsFindTheirTexts
INVARIANT CropShowsRegions
