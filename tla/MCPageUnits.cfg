\* Pages of up to two blocks, two tables and four images.
CONSTANTS
  Pages <- MCPages
  Glyphs <- MCGlyphs
  Syntax <- MCSyntax
  Rule = "-"
  UnitWord <- MCUnitWord
  MinAnchor = 2
SPECIFICATION Spec
INVARIANT MappedTextIsPrinted
INVARIANT HeadersAreNotReadings
 
