SPECIFICATION Spec
CONSTANTS
  x = x  nl = nl
  Byte <- MCByte
  Eol <- MCEol
  Size = 2
  NodeLen = 3
INVARIANTS IInv
PROPERTIES HeldIsStable DeliversLines RoomAgain
