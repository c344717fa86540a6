CONSTANTS
  Width = 4
  StackLen = 6
  MaxTokens = 7
  Malformed = {}
  Numeral <- MCNumeral
  Symbol <- MCSymbol
  Tokens <- MCArithmetic
SPECIFICATION Spec
INVARIANT ArithmeticValue
CHECK_DEADLOCK FALSE
