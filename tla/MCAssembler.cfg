SPECIFICATION Spec
CONSTANTS
  Labels = {la, lb}
  None = None
  ObjLenMax = 16383
  InvalidId = 1024
  Unset = 65535
  SegMod = 65536
  CodeLens = {1, 127}
  Source <- MCSource
CHECK_DEADLOCK FALSE
INVARIANTS AddressesResolve ReferencesLand PatchesApart UnwindMatches
PROPERTY CleanAssembles
