SPECIFICATION Spec
CONSTANTS
  Sector = 2
  Area = 6
  Uploads = 2
  Package <- MCPackage
  HdrLen <- MCHdrLen
INVARIANTS IInv NeverTwice
PROPERTIES RequestIsImage WebIsImage LoopEnds
CHECK_DEADLOCK FALSE
