SPECIFICATION Spec
CONSTANTS
  Blocks = 3
  SeqMod = 3
  MaxTries = 4
  MaxErrors = 2
  MaxFaults = 2
  MaxStalls = 2
  MaxQueue = 8
INVARIANTS TypeOK SuccessIsFile
PROPERTIES BothEnd CleanSucceeds
CHECK_DEADLOCK FALSE
