SPECIFICATION SpecPass1
CONSTANTS
  Labels = {la}
  None = None
  ObjLenMax = 9
  InvalidId = 3
  Unset = 65535
  CodeLens = {1}
  Source <- MCSource
CHECK_DEADLOCK FALSE
INVARIANTS TypeOK FragmentShape AddrsInside AddressesStay RefSitesInFragment ProcsOrdered
PROPERTY FragmentsSettle
