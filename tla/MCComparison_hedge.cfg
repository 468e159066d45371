\* About 21.3 m3, and a report that prints 21.34 m3 or 21340 l.
CONSTANTS
  Parses <- MCAbout
  Wordings <- MCAbout
  Facts <- MCPrinted
  Within <- MCWithin
  None = None
SPECIFICATION Spec
INVARIANT HedgeHoldsInEveryUnit
