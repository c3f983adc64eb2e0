------------------------------ MODULE DtsSlots ------------------------------
(***************************************************************************)
(* The two sectors of the device tree and how the application chooses      *)
(* between them when it starts, or on the shell's "dts reload"             *)
(* (dts_load_default).  A tree is as many units as its header says; each   *)
(* unit says whose it is, so that the checksums hold of a whole tree only. *)
(***************************************************************************)
EXTENDS SpiPartition

VARIABLES primary, backup,    \* the cells of the sectors
          promise             \* the tree that was reported written, or bound, last

trees == <<primary, backup, promise>>

\* The k-th tree; one of a wrong checksum is never bound.
Tree(k, good, n) == [i \in 1 .. n |-> <<k, IF good THEN "dtb" ELSE "bad", i, n>>]

\* The table in the firmware fills a slot.
Fallback == Tree(0, TRUE, Sector)

None == <<>>

TreesInit == primary = Blank.cell /\ backup = Blank.cell /\ promise = None

-----------------------------------------------------------------------------
\* The length in the header of whatever stands in a slot.
BodyLen(cell) == cell[0][4]

Bound(cell) == Cells(cell, 0, BodyLen(cell))

\* The magic, the length and the two checksums.
DtsValidate(cell) ==
  /\ Len(cell[0]) = 4
  /\ BodyLen(cell) \in 1 .. Sector
  /\ Bound(cell) = Tree(cell[0][1], TRUE, BodyLen(cell))

\* What would be bound if the application started now.
Loaded == IF DtsValidate(primary) THEN Bound(primary)
          ELSE IF DtsValidate(backup) THEN Bound(backup) ELSE Fallback

\* Mutant: the good sector is erased instead of the damaged one.
HealErase_Backup == backup' = Erase(backup, {0}) /\ UNCHANGED primary

\* dts_write_slot; its comparison finds a difference in every slot that is
\* not valid.
HealErase == primary' = Erase(primary, {0}) /\ UNCHANGED backup

\* Of the tree in RAM the first n units reach the flash.
HealProgram(n) ==
  /\ primary' = Program(primary, 0, SubSeq(promise, 1, n))
  /\ UNCHANGED <<backup, promise>>

-----------------------------------------------------------------------------
\* "Primary slot -> backup slot -> built-in table", each with its checksum
\* (dts.h:16): a tree that was reported written, or that the application has
\* come up with, is the one it comes up with next, whatever moment power
\* fails at while one slot heals the other, until the next device tree
\* arrives.
TreeKept == promise # None => Loaded = promise
=============================================================================
