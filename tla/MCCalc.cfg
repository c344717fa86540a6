CONSTANTS
  Width = 4
  StackLen = 6
  MaxTokens = 7
  Malformed = {"07"}
  Numeral <- MCNumeral
  Symbol <- MCSymbol
  Tokens <- MCTokens
SPECIFICATION Spec
INVARIANTS
  ConventionalValue
  ZeroReported
  PlaceOfBracketFree
  StackClimbs
CHECK_DEADLOCK FALSE
