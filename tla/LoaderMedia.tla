---------------------------- MODULE LoaderMedia ----------------------------
(***************************************************************************)
(* The two copies of the second-stage loader: the SPI partition            *)
(* PART_LOADER and the backup sector of the internal flash.  The loader    *)
(* (serial update) and the application (web update) both rewrite them, the *)
(* backup first.  Stage 0, started by every reset, runs the SPI copy if    *)
(* its header and its CRC are right, else the backup, else a loader sent   *)
(* by XMODEM, else an application.                                         *)
(*                                                                         *)
(* A blob is a loader with its loader_header_t; its CRC32 identifies it.   *)
(***************************************************************************)
EXTENDS Integers

CONSTANTS Blob,     \* the loader blobs an update may carry
          Fits,     \* those PART_LOADER has room for beside its header
          None      \* no blob

ASSUME LoaderMediaAssumption == Fits \subseteq Blob /\ None \notin Blob

Blank    == [blob |-> None, whole |-> FALSE]
Whole(b) == [blob |-> b, whole |-> TRUE]
Torn(b)  == [blob |-> b, whole |-> FALSE]
Content  == {Blank} \cup {Whole(b) : b \in Blob} \cup {Torn(b) : b \in Blob}

VARIABLES
  bk,      \* the backup sector at LOADER_BACKUP_ADDR
  spi,     \* the data of PART_LOADER
  hdr,     \* its management header: "ok", "erased", or "empty" (used_size 0)
  pc,      \* what the processor is doing
  by,      \* who updates: the "loader" or the "app"
  new,     \* the blob being written
  done,    \* the last blob an update reported written, if none started since
  losses   \* power failures while a copy was being written, 2 for any more

vars == <<bk, spi, hdr, pc, by, new, done, losses>>

BkPcs  == {"bkErase", "bkProgram"}
SpiPcs == {"compare", "spiErase", "spiProgram", "hdrErase", "hdrProgram"}

SpiLoads == hdr = "ok" /\ spi.whole     \* loader_load_from_spi
BkLoads  == bk.whole                    \* loader_load_from_flash
Loadable == SpiLoads \/ BkLoads

-----------------------------------------------------------------------------
\* Stage 0.

Stage0Loader ==
  /\ pc = "stage0" /\ pc' = "loader"
  /\ Loadable
  /\ UNCHANGED <<bk, spi, hdr, by, new, done, losses>>

\* With no copy left: a loader is received by XMODEM and run from RAM, or an
\* application is started without a loader.
Stage0Xmodem ==
  /\ pc = "stage0" /\ pc' = "loader"
  /\ ~Loadable
  /\ UNCHANGED <<bk, spi, hdr, by, new, done, losses>>

Stage0FailSafe ==
  /\ pc = "stage0" /\ pc' = "appInit"
  /\ ~Loadable
  /\ UNCHANGED <<bk, spi, hdr, by, new, done, losses>>

JumpToApp ==
  /\ pc = "loader" /\ pc' = "appInit"
  /\ UNCHANGED <<bk, spi, hdr, by, new, done, losses>>

\* FlashPartition_Init of the application: a bad header becomes an empty one.
AppInit ==
  /\ pc = "appInit" /\ pc' = "app"
  /\ hdr' = IF hdr = "ok" THEN "ok" ELSE "empty"
  /\ UNCHANGED <<bk, spi, by, new, done, losses>>

-----------------------------------------------------------------------------
\* upgrade_write_loader (app) and upg_write_loader_media (loader), given a
\* blob whose header and CRC are right.

\* Mutant: the SPI copy is rewritten first, the backup is never looked at.
StartUpdateSpiFirst(b) ==
  /\ pc \in {"loader", "app"}
  /\ by' = pc /\ new' = b /\ done' = None
  /\ pc' = "spiErase"
  /\ UNCHANGED <<bk, spi, hdr, losses>>

\* Mutant: the header and the CRC of what was received are not checked.
StartUpdateUnchecked(b) ==
  /\ pc \in {"loader", "app"}
  /\ by' = pc /\ new' \in {b, None} /\ done' = None
  /\ pc' = "bkErase"
  /\ UNCHANGED <<bk, spi, hdr, losses>>

StartUpdate(b) ==
  /\ pc \in {"loader", "app"}
  /\ by' = pc /\ new' = b /\ done' = None
  /\ pc' = IF bk = Whole(b) THEN "compare" ELSE "bkErase"
  /\ UNCHANGED <<bk, spi, hdr, losses>>

BkErase ==
  /\ pc = "bkErase" /\ pc' = "bkProgram"
  /\ bk' = Torn(new)
  /\ UNCHANGED <<spi, hdr, by, new, done, losses>>

BkProgram ==
  /\ pc = "bkProgram" /\ pc' = "compare"
  /\ bk' = Whole(new)
  /\ UNCHANGED <<spi, hdr, by, new, done, losses>>

\* Mutant: the magic alone is compared.
SpiMatchesByMagic == by = "loader" /\ hdr # "empty" /\ spi.whole

\* upg_spi_loader_matches: only the loader looks; it reads through an erased
\* header, and not through an empty one.
SpiMatches == by = "loader" /\ hdr # "empty" /\ spi = Whole(new)

SkipSpi ==
  /\ pc = "compare" /\ SpiMatches
  /\ pc' = by /\ done' = new
  /\ UNCHANGED <<bk, spi, hdr, by, new, losses>>

\* The comparison found a difference, or malloc(len) failed.
WriteSpi ==
  /\ pc = "compare" /\ new \in Fits
  /\ pc' = "spiErase"
  /\ UNCHANGED <<bk, spi, hdr, by, new, done, losses>>

TooBigForSpi ==
  /\ pc = "compare" /\ new \notin Fits
  /\ pc' = by
  /\ UNCHANGED <<bk, spi, hdr, by, new, done, losses>>

SpiErase ==
  /\ pc = "spiErase" /\ pc' = "spiProgram"
  /\ spi' = Torn(new)
  /\ UNCHANGED <<bk, hdr, by, new, done, losses>>

SpiProgram ==
  /\ pc = "spiProgram" /\ pc' = "hdrErase"
  /\ spi' = Whole(new)
  /\ UNCHANGED <<bk, hdr, by, new, done, losses>>

HdrErase ==
  /\ pc = "hdrErase" /\ pc' = "hdrProgram"
  /\ hdr' = "erased"
  /\ UNCHANGED <<bk, spi, by, new, done, losses>>

HdrProgram ==
  /\ pc = "hdrProgram" /\ pc' = by
  /\ hdr' = "ok" /\ done' = new
  /\ UNCHANGED <<bk, spi, by, new, losses>>

-----------------------------------------------------------------------------
PowerLoss ==
  /\ pc # "stage0" /\ pc' = "stage0"
  /\ losses' = IF pc \in BkPcs \cup SpiPcs /\ losses < 2 THEN losses + 1 ELSE losses
  /\ UNCHANGED <<bk, spi, hdr, by, new, done>>

\* A board that left the factory with a loader in PART_LOADER.
Init ==
  /\ bk \in {Blank} \cup {Whole(b) : b \in Blob}
  /\ spi \in {Whole(b) : b \in Fits} /\ hdr = "ok"
  /\ pc = "stage0" /\ by = "loader"
  /\ new \in Blob /\ done = None /\ losses = 0

Next == \/ Stage0Loader \/ Stage0Xmodem \/ Stage0FailSafe \/ JumpToApp \/ AppInit
        \/ \E b \in Blob : StartUpdate(b)
        \/ BkErase \/ BkProgram
        \/ SkipSpi \/ WriteSpi \/ TooBigForSpi
        \/ SpiErase \/ SpiProgram \/ HdrErase \/ HdrProgram
        \/ PowerLoss

Spec == Init /\ [][Next]_vars

-----------------------------------------------------------------------------
\* Properties.

TypeOK ==
  /\ bk \in Content /\ spi \in Content /\ hdr \in {"ok", "erased", "empty"}
  /\ pc \in {"stage0", "loader", "appInit", "app"} \cup BkPcs \cup SpiPcs
  /\ by \in {"loader", "app"} /\ new \in Blob /\ done \in Blob \cup {None}
  /\ losses \in 0..2

\* One power failure during an update, wherever it strikes, leaves stage 0 a
\* loader to run: while one copy is rewritten the other is whole.
OneLossSurvived == (pc = "stage0" /\ losses < 2) => Loadable

\* The blob stage 0 would run.
Stage0Choice == IF SpiLoads THEN spi.blob ELSE IF BkLoads THEN bk.blob ELSE None

\* An update that reported success is what the next reset runs, whoever wrote
\* it, and stays so until another update starts.
SuccessIsBooted == done # None => Stage0Choice = done

\* Why OneLossSurvived holds: what is whole while something is not.
Survival ==
  /\ losses = 0 /\ pc \notin SpiPcs \ {"compare"} => SpiLoads
  /\ losses < 2 /\ pc \in SpiPcs => BkLoads
  /\ losses < 2 /\ pc \notin BkPcs => Loadable

\* Why SuccessIsBooted holds: from the moment it matches, the backup is the
\* new blob, and SPI holds nothing else that loads once it was touched.
Success ==
  /\ pc \in SpiPcs => bk = Whole(new)
  /\ pc \in {"hdrErase", "hdrProgram"} => spi = Whole(new)
  /\ done # None => bk = Whole(done) /\ (SpiLoads => spi = Whole(done))
  /\ pc \in BkPcs \cup SpiPcs => done = None

IInv == TypeOK /\ Survival /\ Success
=============================================================================
