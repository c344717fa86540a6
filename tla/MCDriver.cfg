SPECIFICATION SpecDriver
CONSTANTS
  Macros <- MCMacros
  DepthMax = 3
  Lines <- MCLines
  Glued <- MCGlued
  Zeros <- MCZeros
  Ones <- MCOnes
  Files <- MCFiles
  Headers <- MCHeaders
  ParamMax = 3
  AsmTexts <- MCAsmTexts
  Words <- MCWords
  Marks <- MCMarks
  IncludeMax = 2
  JoinedMax = 1
  NestMax = 2
CHECK_DEADLOCK FALSE
INVARIANTS TypeOK FieldsAboveClear ContinuedTogether LinesAsMeant OnlyDirectivesParsed StatementsEnd SkipStackRoom
PROPERTIES OneBranch ImplementsConditionals
