------------------------------- MODULE AbOta -------------------------------
(***************************************************************************)
(* The software A/B update of the application (OTA_MODE = DUAL_APP).       *)
(*                                                                         *)
(* The running application downloads an image into the SPI partition       *)
(* PART_APP1 and records it, pending, in the SPI partition PART_OTA.  The  *)
(* loader, started by every reset, copies a pending image into the slot    *)
(* that is not active, verifies the copy, makes that slot the active one   *)
(* and jumps to an application.  Power may fail between any two flash      *)
(* operations.                                                             *)
(*                                                                         *)
(* A partition's content is the image it was last given and whether all of *)
(* it is there; an image's CRC32 identifies the image.  A flash page that  *)
(* power failed in reads as the erased page does.                          *)
(***************************************************************************)
EXTENDS Integers

CONSTANTS Image,    \* the application images an update may carry
          Linked,   \* the slot each image was linked for
          TooBig,   \* the images the loader's malloc(len) has no room for
          Faults,   \* may a copy to the internal flash verify wrong?
          None      \* an absent cookie, slot, image or flag

Slot == {0, 1}      \* 0 is APP1 and 1 is APP2

ASSUME AbOtaAssumption ==
  /\ Linked \in [Image -> Slot]
  /\ TooBig \subseteq Image
  /\ Faults \in BOOLEAN
  /\ None \notin Image /\ None \notin Slot

\* What a region of flash holds: nothing, or (part of) an image.
Blank    == [img |-> None, whole |-> FALSE]
Whole(i) == [img |-> i, whole |-> TRUE]
Torn(i)  == [img |-> i, whole |-> FALSE]
Content  == [img : Image \cup {None}, whole : BOOLEAN]

\* ota_flag_t: a record with the magic, or NoFlag (erased, or zeroed).
NoFlag == [active |-> 0, pending |-> FALSE, img |-> None, magic |-> FALSE]
Flag(a, p, i) == [active |-> a, pending |-> p, img |-> i, magic |-> TRUE]
FlagType == [active : Slot, pending : BOOLEAN, img : Image \cup {None},
             magic : BOOLEAN]

VARIABLES
  slot,     \* the internal-flash slots APP1 and APP2
  src,      \* the data of the SPI partition PART_APP1
  flag,     \* the data sector of the SPI partition PART_OTA
  hdr,      \* the management header of PART_OTA: "ok", "erased" or
            \* "empty" (a valid header whose used_size is 0)
  cookie,   \* ota_host_flash_t in PART_RES: the slot it names, or None
  pc,       \* what the processor is doing
  cur,      \* dwCurrentAppAddr: a slot, or None when no slot is valid
  ovr,      \* s_host_flash_override
  wr,       \* the PART_OTA write in progress: the record, and what follows
  run,      \* the slot the application was last started from
  switched, \* has the loader made a slot active since that start?
  host,     \* how far flash.sh has come: nothing, or its last load
  spoilt    \* history: was a cookie loaded beside an APP1 that is not whole?

flash == <<slot, src, flag, hdr, cookie>>
vars  == <<flash, pc, cur, ovr, wr, run, switched, host, spoilt>>

HostSteps == {"none", "app1", "app2", "cookie"}

WritePcs  == {"flagErase", "flagProgram", "hdrErase", "hdrProgram"}
LoaderPcs == {"boot", "cookie", "copyErase", "copyHead", "copyTail",
              "verify", "select", "cli"}
AppPcs    == {"appInit", "app", "download", "commit", "reboot"}

\* The application runs: also while it is the one that writes the flag.
AppRuns == pc \in AppPcs \/ (pc \in WritePcs /\ wr.next = "reboot")

-----------------------------------------------------------------------------
\* Reading.

\* app_image_valid: the vectors are those of an image linked for s.  They
\* are the first words written, so half an image passes.
AppImageValid(s) == slot[s].img # None /\ Linked[slot[s].img] = s

Good(s) == AppImageValid(s) /\ slot[s].whole

\* The OTA flag as flash_partition_read returns it.
Seen == IF hdr = "empty" THEN NoFlag ELSE flag

Pending == Seen.magic /\ Seen.pending

\* Mutant: the copy goes to the active slot.
IdleIsActive == Seen.active

Idle == 1 - Seen.active     \* nxt, the slot a pending image is copied to

SrcOk == src = Whole(Seen.img)

\* Mutant: active_app is not looked at.
ResolveApp1First ==
  IF AppImageValid(0) THEN 0 ELSE IF AppImageValid(1) THEN 1 ELSE None

\* boot_resolve_app_addr.
BootResolve ==
  LET preferred == IF Seen.magic THEN Seen.active ELSE 0 IN
  IF AppImageValid(preferred) THEN preferred
  ELSE IF AppImageValid(1 - preferred) THEN 1 - preferred
  ELSE None

\* Mutant: without a record the slot is taken to be APP1, whatever PC says.
ActiveWithoutPc == IF Seen.magic THEN Seen.active ELSE 0

\* ota_get_active_slot, in the application.
OtaGetActiveSlot == IF Seen.magic THEN Seen.active ELSE run

-----------------------------------------------------------------------------
\* Writing PART_OTA: the data sector first, then the header sector.

StartWrite(f, next) ==
  /\ wr' = [rec |-> f, next |-> next]
  /\ pc' = "flagErase"

FlagErase ==
  /\ pc = "flagErase" /\ pc' = "flagProgram"
  /\ flag' = NoFlag
  /\ UNCHANGED <<slot, src, hdr, cookie, cur, ovr, wr, run, switched, host, spoilt>>

FlagProgram ==
  /\ pc = "flagProgram" /\ pc' = "hdrErase"
  /\ flag' = wr.rec
  /\ UNCHANGED <<slot, src, hdr, cookie, cur, ovr, wr, run, switched, host, spoilt>>

HdrErase ==
  /\ pc = "hdrErase" /\ pc' = "hdrProgram"
  /\ hdr' = "erased"
  /\ UNCHANGED <<slot, src, flag, cookie, cur, ovr, wr, run, switched, host, spoilt>>

HdrProgram ==
  /\ pc = "hdrProgram" /\ pc' = wr.next
  /\ hdr' = "ok"
  /\ UNCHANGED <<slot, src, flag, cookie, cur, ovr, wr, run, switched, host, spoilt>>

\* ota_flag_commit_done(s) and ota_flag_clear(), each followed by `next'.
OtaFlagCommitDone(s, next) ==
  StartWrite(Flag(s, FALSE, None), next) /\ switched' = TRUE
OtaFlagClear(next) == StartWrite(NoFlag, next) /\ UNCHANGED switched

-----------------------------------------------------------------------------
\* The loader.

\* Mutant: the cookie is honoured, the pending update is left pending.
OverrideKeepsPending ==
  /\ pc = "boot" /\ cookie # None
  /\ cur' = cookie /\ ovr' = TRUE
  /\ pc' = "cookie"
  /\ UNCHANGED <<flash, wr, run, switched, host, spoilt>>

\* ota_apply_host_flash_override finds a cookie.
HostOverride ==
  /\ pc = "boot" /\ cookie # None
  /\ cur' = cookie /\ ovr' = TRUE
  /\ OtaFlagCommitDone(cookie, "cookie")
  /\ UNCHANGED <<flash, run, host, spoilt>>

ClearCookie ==
  /\ pc = "cookie" /\ pc' = "select"
  /\ cookie' = None
  /\ UNCHANGED <<slot, src, flag, hdr, cur, ovr, wr, run, switched, host, spoilt>>

\* fw_upgrade_from has nothing to do, or no memory to do it with.
NoUpgrade ==
  /\ pc = "boot" /\ cookie = None
  /\ ~Pending \/ Seen.img \in TooBig
  /\ pc' = "select"
  /\ UNCHANGED <<flash, cur, ovr, wr, run, switched, host, spoilt>>

\* What every branch of fw_upgrade_from below has in common.
FwUpgrade ==
  /\ pc = "boot" /\ cookie = None
  /\ Pending /\ Seen.img \notin TooBig

BadSource ==
  /\ FwUpgrade /\ ~SrcOk
  /\ OtaFlagClear("select")
  /\ UNCHANGED <<flash, cur, ovr, run, host, spoilt>>

\* Mutant: the vectors are compared, not the CRC.
AlreadyThereByVectors ==
  /\ FwUpgrade /\ SrcOk
  /\ AppImageValid(Idle)
  /\ cur' = Idle
  /\ OtaFlagCommitDone(Idle, "select")
  /\ UNCHANGED <<flash, ovr, run, host, spoilt>>

AlreadyThere ==
  /\ FwUpgrade /\ SrcOk
  /\ slot[Idle] = src /\ AppImageValid(Idle)
  /\ cur' = Idle
  /\ OtaFlagCommitDone(Idle, "select")
  /\ UNCHANGED <<flash, ovr, run, host, spoilt>>

\* Mutant: the flag is cleared before the copy (bEraseInfoBeforeWrite).
ClearThenCopy ==
  /\ FwUpgrade /\ SrcOk
  /\ ~(slot[Idle] = src /\ AppImageValid(Idle))
  /\ OtaFlagClear("copyErase")
  /\ UNCHANGED <<flash, cur, ovr, run, host, spoilt>>

StartCopy ==
  /\ FwUpgrade /\ SrcOk
  /\ ~(slot[Idle] = src /\ AppImageValid(Idle))
  /\ pc' = "copyErase"
  /\ UNCHANGED <<flash, cur, ovr, wr, run, switched, host, spoilt>>

CopyErase ==
  /\ pc = "copyErase" /\ pc' = "copyHead"
  /\ slot' = [slot EXCEPT ![Idle] = Blank]
  /\ UNCHANGED <<src, flag, hdr, cookie, cur, ovr, wr, run, switched, host, spoilt>>

CopyHead ==
  /\ pc = "copyHead" /\ pc' = "copyTail"
  /\ slot' = [slot EXCEPT ![Idle] = Torn(src.img)]
  /\ UNCHANGED <<src, flag, hdr, cookie, cur, ovr, wr, run, switched, host, spoilt>>

CopyTail ==
  /\ pc = "copyTail" /\ pc' = "verify"
  /\ \E ok \in {TRUE, ~Faults} :
       slot' = [slot EXCEPT ![Idle] = [src EXCEPT !.whole = ok /\ @]]
  /\ UNCHANGED <<src, flag, hdr, cookie, cur, ovr, wr, run, switched, host, spoilt>>

Verified == slot[Idle] = Whole(Seen.img) /\ AppImageValid(Idle)

\* Mutant: the verified slot is started, the flag is not written.
VerifyOkUncommitted ==
  /\ pc = "verify" /\ Verified
  /\ cur' = Idle
  /\ pc' = "select"
  /\ UNCHANGED <<flash, ovr, wr, run, switched, host, spoilt>>

VerifyOk ==
  /\ pc = "verify" /\ Verified
  /\ cur' = Idle
  /\ OtaFlagCommitDone(Idle, "select")
  /\ UNCHANGED <<flash, ovr, run, host, spoilt>>

VerifyFail ==       \* the flag is kept: every later boot tries again
  /\ pc = "verify" /\ ~Verified
  /\ cur' = Seen.active
  /\ pc' = "select"
  /\ UNCHANGED <<flash, ovr, wr, run, switched, host, spoilt>>

\* main: the final choice of the slot.
Choice ==
  IF (ovr \/ cur = 1) /\ AppImageValid(cur) THEN cur ELSE BootResolve

Jump ==
  /\ pc = "select" /\ Choice # None
  /\ cur' = Choice /\ run' = Choice
  /\ pc' = "appInit" /\ switched' = FALSE
  /\ host' = IF host = "cookie" THEN "none" ELSE host
  /\ UNCHANGED <<flash, ovr, wr, spoilt>>

StayInCli ==
  /\ pc = "select" /\ Choice = None
  /\ cur' = None
  /\ pc' = "cli"
  /\ UNCHANGED <<flash, ovr, wr, run, switched, host, spoilt>>

-----------------------------------------------------------------------------
\* The application.

\* FlashPartition_Init rebuilds a header that is not valid, as an empty one.
AppInit ==
  /\ pc = "appInit" /\ pc' = "app"
  /\ hdr' = IF hdr = "erased" THEN "empty" ELSE hdr
  /\ UNCHANGED <<slot, src, flag, cookie, cur, ovr, wr, run, switched, host, spoilt>>

StartDownload(i) ==
  /\ pc = "app" /\ pc' = "download"
  /\ src' = Torn(i)
  /\ UNCHANGED <<slot, flag, hdr, cookie, cur, ovr, wr, run, switched, host, spoilt>>

AbortDownload ==
  /\ pc = "download" /\ pc' = "app"
  /\ UNCHANGED <<flash, cur, ovr, wr, run, switched, host, spoilt>>

FinishDownload ==
  /\ pc = "download" /\ pc' = "commit"
  /\ src' = [src EXCEPT !.whole = TRUE]
  /\ UNCHANGED <<slot, flag, hdr, cookie, cur, ovr, wr, run, switched, host, spoilt>>

\* upgrade_commit_ota_flag.
UpgradeCommitOtaFlag ==
  /\ pc = "commit"
  /\ StartWrite(Flag(OtaGetActiveSlot, TRUE, src.img), "reboot")
  /\ UNCHANGED <<flash, cur, ovr, run, switched, host, spoilt>>

-----------------------------------------------------------------------------
\* A reset: RAM is lost, the processor starts over in the loader.
Restart ==
  /\ pc' = "boot" /\ cur' = 0 /\ ovr' = FALSE
  /\ wr' = [rec |-> NoFlag, next |-> "boot"]
  /\ UNCHANGED <<run, switched>>

Reboot == pc = "reboot" /\ Restart /\ UNCHANGED <<flash, host, spoilt>>

PowerLoss == pc # "boot" /\ Restart /\ UNCHANGED <<flash, host, spoilt>>

\* flash.sh app: one `pyocd load' each for APP1, for APP2 if it was built, and
\* for the cookie, which names APP1.  Each halts the target wherever it is,
\* writes, and resets it, so that the loader runs before the next one.
HostLoadApp1(i) ==
  /\ Linked[i] = 0
  /\ slot' = [slot EXCEPT ![0] = Whole(i)] /\ host' = "app1"
  /\ Restart
  /\ UNCHANGED <<src, flag, hdr, cookie, spoilt>>

HostLoadApp2(j) ==
  /\ host = "app1" /\ Linked[j] = 1
  /\ slot' = [slot EXCEPT ![1] = Whole(j)] /\ host' = "app2"
  /\ Restart
  /\ UNCHANGED <<src, flag, hdr, cookie, spoilt>>

HostLoadCookie ==
  /\ host \in {"app1", "app2"}
  /\ cookie' = 0 /\ host' = "cookie"
  /\ spoilt' = (spoilt \/ ~Good(0))
  /\ Restart
  /\ UNCHANGED <<slot, src, flag, hdr>>

\* A board as it is before the first update; an operator may be handed one
\* without any application.
Board ==
  /\ slot \in [Slot -> {Blank} \cup {Whole(i) : i \in Image}]
  /\ \A s \in Slot : slot[s] # Blank => AppImageValid(s)
  /\ src = Blank /\ flag = NoFlag /\ cookie = None
  /\ hdr \in {"erased", "empty"}
  /\ pc = "boot" /\ cur = 0 /\ ovr = FALSE
  /\ wr = [rec |-> NoFlag, next |-> "boot"]
  /\ run = 0 /\ switched = FALSE /\ host = "none" /\ spoilt = FALSE

Init == Board /\ Good(0)

FlagWrite == FlagErase \/ FlagProgram \/ HdrErase \/ HdrProgram

Loader == \/ HostOverride \/ ClearCookie
          \/ NoUpgrade \/ BadSource \/ AlreadyThere
          \/ StartCopy \/ CopyErase \/ CopyHead \/ CopyTail
          \/ VerifyOk \/ VerifyFail
          \/ Jump \/ StayInCli

App == \/ AppInit
       \/ \E i \in Image : StartDownload(i)
       \/ AbortDownload \/ FinishDownload \/ UpgradeCommitOtaFlag
       \/ Reboot

Next == FlagWrite \/ Loader \/ App \/ PowerLoss

\* The loader and a flag write are straight-line code; the reset that
\* follows a committed download is a 2 s timer.  Downloads owe nothing.
Fairness == WF_vars(FlagWrite) /\ WF_vars(Loader) /\ WF_vars(Reboot)

Spec == Init /\ [][Next]_vars /\ Fairness

\* The same with an operator who may run flash.sh at any moment, stop between
\* two of its loads, and start over.
Host == \/ \E i \in Image : HostLoadApp1(i) \/ HostLoadApp2(i)
        \/ HostLoadCookie

HostNext == Next \/ Host

HostSpec == Board /\ [][HostNext]_vars /\ Fairness

-----------------------------------------------------------------------------
\* Properties.

TypeOK ==
  /\ slot \in [Slot -> Content] /\ src \in Content
  /\ flag \in FlagType /\ hdr \in {"ok", "erased", "empty"}
  /\ cookie \in Slot \cup {None} /\ cur \in Slot \cup {None}
  /\ pc \in LoaderPcs \cup WritePcs \cup AppPcs
  /\ run \in Slot /\ ovr \in BOOLEAN
  /\ switched \in BOOLEAN /\ host \in HostSteps /\ spoilt \in BOOLEAN
  /\ wr \in [rec : FlagType, next : {"boot", "cookie", "select", "reboot"}]

\* The loader only ever starts an image that is completely written, wherever
\* power failed before (loader main.c:902, "never jump into a damaged image"),
\* and between the loads of flash.sh too, unless a cookie called for a damaged
\* APP1.
BootIntact == AppRuns => Good(run) \/ spoilt

\* While the application runs, a readable flag names the slot it runs in: the
\* next image is meant for the other slot (ota_get_active_slot trusts it).
ActiveSlotHonoured ==
  (AppRuns /\ Seen.magic) => Seen.active = run

\* Why BootIntact and ActiveSlotHonoured hold when copies verify: a readable
\* record names a whole image, and half an image the loader could take for an
\* application exists only where it would not look for one.
HalfWritten(s) == AppImageValid(s) /\ ~slot[s].whole

CopyPcs == {"copyErase", "copyHead", "copyTail", "verify"}

\* A copy to s is due, or has begun: the loader will not look at s before the
\* copy is complete.
UnderCopy(s) ==
  /\ pc \in {"boot"} \cup CopyPcs
  /\ Pending /\ Idle = s /\ SrcOk /\ Seen.img \notin TooBig

FlagsGood ==
  /\ flag.magic => Good(flag.active)
  /\ (pc \in WritePcs /\ wr.rec.magic) => Good(wr.rec.active)
  /\ cookie # None => cookie = 0 /\ Good(0)

\* APP1 is the default: half written, it must be hidden by a readable record
\* that makes APP2 active and that the loader is bound to retry.
HalfWrittenHidden ==
  /\ HalfWritten(1) => Good(0)
  /\ HalfWritten(0) => UnderCopy(0)

Copying ==
  pc \in CopyPcs =>
    /\ cookie = None /\ Pending /\ SrcOk /\ Seen.img \notin TooBig
    /\ pc = "copyHead" => slot[Idle] = Blank
    /\ pc = "copyTail" => slot[Idle] = Torn(src.img)
    /\ pc = "verify"   => slot[Idle] = Whole(src.img)

Chosen ==
  /\ pc \in CopyPcs \cup {"boot"} => cur = 0 /\ ~ovr
  /\ pc = "select" /\ (cur = 1 \/ ovr) => Seen.magic /\ Seen.active = cur
  /\ pc = "cookie" => flag = Flag(0, FALSE, None) /\ hdr = "ok"
                      /\ ovr /\ cur = 0
  /\ pc \in WritePcs /\ wr.next \in {"cookie", "select"} /\ (cur = 1 \/ ovr) =>
       wr.rec.magic /\ wr.rec.active = cur

Writing ==
  /\ pc \in WritePcs /\ wr.next = "reboot" =>
       wr.rec.magic /\ wr.rec.active = run
  /\ pc \in WritePcs /\ wr.next = "cookie" =>
       wr.rec = Flag(0, FALSE, None) /\ ovr /\ cur = 0
  /\ pc \in WritePcs => wr.next # "boot"
  /\ pc \in {"hdrErase", "hdrProgram"} => flag = wr.rec
  /\ pc = "flagProgram" => flag = NoFlag

\* Between the loads of flash.sh APP1 holds a whole image, if perhaps one that
\* was linked for APP2, unless an update is being copied over it.
Loaded == host \in {"app1", "app2"} => slot[0].whole \/ UnderCopy(0)

Sound == /\ BootIntact /\ ActiveSlotHonoured /\ FlagsGood
         /\ HalfWrittenHidden /\ Copying /\ Chosen /\ Writing /\ Loaded

IInv == TypeOK /\ (spoilt \/ Sound)

\* The loader touches a slot only while the other one holds a whole image it
\* would start: the old slot survives whatever happens to the copy.
IdleSlotOnly ==
  [][\A s \in Slot : slot'[s] # slot[s] => Good(1 - s) /\ ~AppRuns]_vars

\* SPI operations on PART_OTA and copies between slots implement the abstract
\* update: an intact image is given up or started only as SafeUpdate allows.
Have(s) == IF Good(s) THEN slot[s].img ELSE None
Running == IF AppRuns THEN run ELSE None
Safe == INSTANCE SafeUpdate WITH have <- [s \in Slot |-> Have(s)],
                                 running <- Running
Safely == Safe!Init /\ [][Safe!Next]_(Safe!vars)

\* A pending update outlives every power failure during the copy: once power
\* stops failing, the slot holds the whole image (loader main.c:740, "the flag
\* is kept and the copy can be retried").
Recorded(i) ==
  /\ Pending /\ Seen.img = i /\ SrcOk
  /\ i \notin TooBig /\ Linked[i] = Idle
CopyCompletes ==
  <>[][~PowerLoss]_vars =>
     \A i \in Image : Recorded(i) ~> slot[Linked[i]] = Whole(i)

\* Once the cookie is loaded, a pending update does not overwrite the
\* operator's APP1, which is what runs next; and the cookie finds APP1 half
\* written only while an update for APP1 is pending (flash.sh:130).
HostImageKept ==
  [][/\ host = "cookie" /\ ~spoilt =>
          /\ slot'[0] = slot[0] \/ host' = "app1"
          /\ pc' = "appInit" => run' = 0
     /\ host' = "cookie" /\ host # "cookie" /\ ~spoilt =>
          slot[0].whole \/ (Pending /\ Idle = 0)]_vars

\* After a failed update the board comes back in the slot it ran from, or in
\* the slot the update made active (upgrade.h:85, "after a power loss it can
\* still start from the old slot").
OldSlotOrNew == [][pc' = "appInit" => run' = run \/ switched]_vars
=============================================================================
