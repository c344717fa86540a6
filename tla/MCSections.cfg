SPECIFICATION SpecPass1
CONSTANTS
  Labels = {la}
  None = None
  ObjLenMax = 16383
  InvalidId = 1024
  Unset = 65535
  CodeLens = {1}
  Source <- SectionSource
CHECK_DEADLOCK FALSE
INVARIANT ProcsInOneSegment
