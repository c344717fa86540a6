SPECIFICATION SpecMixed
CONSTANTS
  Labels = {"l1", "l2", "l3"}
  None = "none"
  ObjLenMax = 16383
  InvalidId = 1024
  Unset = 65535
  SegMod = 65536
CHECK_DEADLOCK FALSE
INVARIANT Rel8Reaches
