\* One document, a text and a chart, a segment rebuilt from the chart.
CONSTANTS
  d1 = d1
  d2 = d2
  text = text
  value = value
  chart = chart
  segment = segment
  row = row
  Docs = {d1}
  Version <- MCTwoVersions
  Direct = {text}
  Visual = {chart}
  Markdown = {row}
  Sources <- MCChartOnly
  FactSeeds <- MCNoFacts
  Limit = 2
  MaxPassages = 3
  NoVersion = NoVersion
SPECIFICATION Spec
CHECK_DEADLOCK FALSE
INVARIANT CitationsReferenced
