SPECIFICATION Spec
CONSTANTS
  Sector = 2
  Area = 6
  Hdr = 2
  Block = 2
  Gap = 2
  Rest = 2
  Transfers = 2
  File <- MCFile
INVARIANTS IInv NeverTwice SuccessIsWhole TreeKept
PROPERTIES RecordOnlyWhole LoopEnds
