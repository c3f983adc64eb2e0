---------------------------- MODULE SpiPartition ----------------------------
(***************************************************************************)
(* The data area of a managed partition in SPI flash, and what the two     *)
(* versions of flash_partition_write do to it: the application's and the   *)
(* loader's.  The management header has a sector of its own in front of    *)
(* the data (PARTITION_HEADER_SIZE = SECTOR_SIZE); of it only used_size    *)
(* matters here.  Addresses count units of a few bytes.                    *)
(***************************************************************************)
EXTENDS Naturals, Sequences

CONSTANTS Sector,    \* SECTOR_SIZE in units
          Area       \* the units of the data area

ASSUME SectorAssumption == Sector \in Nat \ {0}
ASSUME AreaAssumption == Area \in Nat \ {0} /\ Area % Sector = 0

Erased == <<>>

\* A cell that was programmed twice: bits can only be cleared.
Garbage == <<"garbage">>

Address == 0 .. Area - 1

Blank == [cell |-> [a \in Address |-> Erased], used |-> 0]

SectorOf(a) == a \div Sector

Erase(cell, sectors) ==
  [a \in Address |-> IF SectorOf(a) \in sectors THEN Erased ELSE cell[a]]

Within(a, off, len) == off <= a /\ a < off + len

Program(cell, off, data) ==
  [a \in Address |->
     IF ~Within(a, off, Len(data)) THEN cell[a]
     ELSE IF cell[a] = Erased THEN data[a - off + 1] ELSE Garbage]

\* What a range of cells holds.
Cells(cell, off, len) == [i \in 1 .. len |-> cell[off + i - 1]]

-----------------------------------------------------------------------------
(* app/flashMng/flash_manage.c                                             *)

\* Mutant: only a write at offset 0 erases.
AppErases_AtZero(off, len) ==
  IF off = 0 THEN {SectorOf(a) : a \in {b \in Address : Within(b, off, len)}} ELSE {}

\* The sectors a write erases as it reaches them: all at offset 0, else
\* those whose first byte is written.
AppErases(off, len) ==
  {s \in {SectorOf(a) : a \in {b \in Address : Within(b, off, len)}} :
     off = 0 \/ s * Sector >= off}

AppFits(off, len) == off + len <= Area

AppCells(p, off, data) == Program(Erase(p.cell, AppErases(off, Len(data))), off, data)

\* Every page is read back; used_size never shrinks.
AppVerified(p, off, data) == Cells(AppCells(p, off, data), off, Len(data)) = data

AppWrite(p, off, data) ==
  [cell |-> AppCells(p, off, data),
   used |-> IF AppVerified(p, off, data) /\ off + Len(data) > p.used
            THEN off + Len(data) ELSE p.used]

-----------------------------------------------------------------------------
(* loader/flash_manage.c                                                   *)

\* Only a write at offset 0 erases: up to the sector of its exclusive end,
\* that sector included unless the partition ends there.
LoaderErases(off, len) ==
  IF off # 0 THEN {}
  ELSE 0 .. SectorOf(IF len = Area THEN len - 1 ELSE len)

\* Nothing is read back, and used_size is where this write ends.
LoaderWrite(p, off, data) ==
  [cell |-> Program(Erase(p.cell, LoaderErases(off, Len(data))), off, data),
   used |-> off + Len(data)]

-----------------------------------------------------------------------------
\* What flash_partition_read returns: no more than used_size.
Read(p, off, len) ==
  IF off >= p.used THEN <<>>
  ELSE Cells(p.cell, off, IF off + len > p.used THEN p.used - off ELSE len)
=============================================================================
