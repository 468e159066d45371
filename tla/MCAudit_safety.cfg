\* One document, two versions, a page of a text, a chart and two segments.
CONSTANTS
  d1 = d1
  d2 = d2
  text = text
  value = value
  chart = chart
  segment = segment
  row = row
  Docs = {d1}
  Version <- MCTwoVersions
  Direct = {text}
  Visual = {chart}
  Markdown = {segment, row}
  Sources <- MCSources
  FactSeeds <- MCFactSeeds
  Limit = 2
  MaxPassages = 3
  NoVersion = NoVersion
SPECIFICATION FairSpec
CHECK_DEADLOCK FALSE
INVARIANT TraceMatchesAnswer
INVARIANT CitationsLocated
INVARIANT CitationsVerified
INVARIANT GroupsWhole
INVARIANT PromptBounded
PROPERTY CropsGradedOnce
PROPERTY OutcomeStands
PROPERTY AuditEnds
