SPECIFICATION Spec
CONSTANTS
  b1 = b1  b2 = b2  huge = huge
  Blob <- MCBlob
  Fits <- MCFits
  None = None
INVARIANTS TypeOK OneLossSurvived SuccessIsBooted
