SPECIFICATION SpecExpand
CONSTANTS
  Names <- MCNames
  Args <- MCArgs
  Text <- MCText
  Lines <- MCLines
  Null = Null
  Nl = "NL"
  Quote = "QUOTE"
  Stale = "STALE"
  Directive = "#"
  ListInitMax = 2
  ReserveMax = 4
  ParamMax = 3
  ParamIdMax = 4
  NestMax = 3
  LinesMax = 2
CHECK_DEADLOCK FALSE
INVARIANTS TypeOK TableInside NamesUnique ArgumentsHeld FaithfulExpansion
PROPERTIES IdsStay ImplementsDictionary LinesEnd
