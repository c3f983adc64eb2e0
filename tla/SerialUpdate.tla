---------------------------- MODULE SerialUpdate ----------------------------
(***************************************************************************)
(* The loader's serial update: a file that arrives block by block through  *)
(* YMODEM and is applied on the way (upg_apply.c, and the part of          *)
(* Ymodem_Receive that looks at what a block is for).  One action is one   *)
(* turn of the loop in upg_apply_feed.                                     *)
(*                                                                         *)
(* Units and checksums are those of OtaStream.  How the two copies of the  *)
(* loader are written is LoaderMedia's subject, how the record is written  *)
(* AbOta's, how blocks come to be lost or repeated Ymodem's: here a        *)
(* transfer delivers every block once and in order, or ends.  The internal *)
(* flash is taken to have sectors of the same size as the SPI flash; it    *)
(* has larger ones.                                                        *)
(***************************************************************************)
EXTENDS DtsSlots

CONSTANTS File,        \* the files that are sent
          Hdr,         \* units of the package header
          Block,       \* the longest data block in units
          Gap,         \* units between the slots in the internal flash
          Rest,        \* units from APP2's slot to the end of that flash
          Transfers    \* bound: how many transfers

ASSUME BoundsAssumption == Hdr \in Nat \ {0} /\ Block \in Nat \ {0} /\ Transfers \in Nat

ASSUME FlashAssumption == Gap \in Nat /\ Rest \in Nat

\* A file without length is refused (ymodem.c:346).
ASSUME FileAssumption ==
  File \subseteq [kind : {"upg", "dtb", "app"}, loader : Nat, fw1 : Nat, fw2 : Nat,
                  web : Nat, size : Nat \ {0}, good : BOOLEAN]

VARIABLES slot1, slot2,       \* cells of APP1 and APP2
          web,                \* PART_WEB
          loader,             \* the blob in PART_LOADER
          ota,                \* the transfer that wrote PART_OTA last
          file, num,          \* what is sent, and how many were sent before
          got,                \* bytes_written
          seg,                \* units of the block not yet looked at
          st,                 \* s_upg
          pc                  \* where Ymodem_Receive stands

flash == <<slot1, slot2, web, loader, trees, ota>>
vars == <<flash, file, num, got, seg, st, pc>>

BlankCells == Blank.cell

\* APP2's distance from APP1, and that of the end of the flash.
Second == Area + Gap

Internal == Second + Area + Rest

\* How many of the first n units from APP1 on lie in APP2 or behind it.
Over(n) == IF n > Second THEN n - Second ELSE 0

-----------------------------------------------------------------------------
(* What arrives.  A file may hold less than its header says, or more, and  *)
(* the checksum in the header may be of something else.                    *)

Section(name, n) == [i \in 1 .. n |-> <<num, name, i>>]

Body == Section("loader", file.loader) \o Section("fw1", file.fw1)
          \o Section("fw2", file.fw2) \o Section("web", file.web)

Content == IF file.kind = "upg"
           THEN SubSeq(Section("hdr", Hdr) \o Body \o Section("more", file.size), 1, file.size)
           ELSE IF file.kind = "dtb" THEN Tree(num, file.good, file.size)
           ELSE Section("app", file.size)

AtMost(n) == IF n <= seg THEN n ELSE seg

Chunk(n) == SubSeq(Content, got + 1, got + AtMost(n))

-----------------------------------------------------------------------------
\* crc is what crc_run was computed over.
Reset == [phase |-> "off", hdr |-> 0, loader |-> <<>>, fw1 |-> 0, fw2 |-> 0,
          web |-> <<>>, crc |-> <<>>]

Init == /\ slot1 = BlankCells /\ slot2 = BlankCells
        /\ web = Blank
        /\ loader = <<>>
        /\ TreesInit
        /\ ota = 0
        /\ file \in File /\ num = 0
        /\ got = 0 /\ seg = 0
        /\ st = Reset
        /\ pc = "cli"

\* The sectors of an image of n units from the start of a slot.
Covering(n) == {SectorOf(a) : a \in 0 .. n - 1}

\* The name block: the size is known.
Begin(f) ==
  /\ pc = "cli" /\ num < Transfers
  /\ file' = f /\ num' = num + 1
  /\ got' = 0 /\ seg' = 0
  /\ st' = Reset
  /\ pc' = "first"
  /\ UNCHANGED flash

\* DTS_SLOT_MAX.
DtbFits == file.size <= Sector

\* Mutant: the range of the application ends with its slot.
EraseAppRange_OneSlot ==
  slot1' = Erase(slot1, Covering(file.size)) /\ UNCHANGED slot2

\* ymodem_erase_app_range: an application may be longer than its slot, and
\* then takes APP2 with it.
EraseAppRange == /\ slot1' = Erase(slot1, Covering(file.size))
                 /\ slot2' = Erase(slot2, Covering(Over(file.size)))

\* The first data block says what the file is.  Behind the end of the flash
\* the erasing of an application's range finds no next sector, and never ends.
Decide ==
  /\ pc = "first"
  /\ \/ /\ file.kind = "upg" /\ file.size >= Hdr
        /\ st' = [Reset EXCEPT !.phase = "hdr"]
        /\ pc' = "recv"
        /\ UNCHANGED <<slot1, slot2, trees>>
     \/ /\ file.kind = "upg" /\ file.size < Hdr     \* upg_apply_begin
        /\ st' = Reset /\ pc' = "cli"
        /\ UNCHANGED <<slot1, slot2, trees>>
     \/ /\ file.kind = "dtb" /\ DtbFits
        /\ primary' = Erase(primary, {0}) /\ promise' = None
        /\ st' = [Reset EXCEPT !.phase = "dtb"]
        /\ pc' = "erase"
        /\ UNCHANGED <<slot1, slot2, backup>>
     \/ /\ file.kind = "dtb" /\ ~DtbFits
        /\ st' = Reset /\ pc' = "cli"
        /\ UNCHANGED <<slot1, slot2, trees>>
     \/ /\ file.kind = "app"
        /\ EraseAppRange
        /\ IF file.size <= Internal
           THEN pc' = "recv" /\ st' = [Reset EXCEPT !.phase = "app"]
           ELSE pc' = "hang" /\ st' = Reset
        /\ UNCHANGED trees
  /\ UNCHANGED <<web, loader, ota, file, num, got, seg>>

\* The second of the two erases before a device tree.
EraseBackup ==
  /\ pc = "erase"
  /\ backup' = Erase(backup, {0})
  /\ pc' = "recv"
  /\ UNCHANGED <<slot1, slot2, web, loader, primary, promise, ota, file, num, got, seg, st>>

\* A data block; what is behind the size of the file is padding.
DataBlock(n) ==
  /\ pc = "recv"
  /\ n <= file.size - got
  /\ seg' = n
  /\ pc' = "feed"
  /\ UNCHANGED <<flash, file, num, got, st>>

-----------------------------------------------------------------------------
(* upg_apply_feed                                                          *)

Turn(phase) == pc = "feed" /\ seg > 0 /\ st.phase = phase

\* Mutant: the phase's unit is not counted.
Consume_None(n) == /\ got' = got
                   /\ seg' = seg - AtMost(n)
                   /\ UNCHANGED <<ota, file, num, pc>>

Consume(n) == /\ got' = got + AtMost(n)
              /\ seg' = seg - AtMost(n)
              /\ UNCHANGED <<ota, file, num, pc>>

\* An error cancels the transfer; s_upg is cleared.
Fail == /\ st' = Reset /\ seg' = 0 /\ pc' = "cli"
        /\ UNCHANGED <<ota, file, num, got>>

\* The first of the remaining sections that is not empty.
Advance(s, rest) ==
  LET phase == IF "fw1" \in rest /\ file.fw1 > 0 THEN "fw1"
               ELSE IF "fw2" \in rest /\ file.fw2 > 0 THEN "fw2"
               ELSE IF "web" \in rest /\ file.web > 0 THEN "web" ELSE "done"
  IN  [s EXCEPT !.phase = phase]

Placeholder == <<"crc", <<>>>>

\* upg_start_web: the whole range is erased, then the placeholder written.
StartWeb(p) ==
  LoaderWrite([p EXCEPT !.cell = Erase(@, LoaderErases(0, 1 + file.web))],
              0, <<Placeholder>>)

\* No image is longer than its slot, and the file holds all sections.
SizesOk == /\ file.fw1 <= Area /\ file.fw2 <= Area
           /\ Hdr + Len(Body) <= file.size

WebFits == file.web = 0 \/ 1 + file.web <= Area

EraseSlots == /\ slot1' = Erase(slot1, Covering(file.fw1))
              /\ slot2' = Erase(slot2, Covering(file.fw2))

\* upg_parse_header: both slots and the web partition are erased at once.
Header ==
  /\ Turn("hdr")
  /\ LET hdr == st.hdr + AtMost(Hdr - st.hdr)
         s == [st EXCEPT !.hdr = hdr]
     IN  \/ /\ hdr < Hdr
            /\ st' = s
            /\ Consume(Hdr - st.hdr)
            /\ UNCHANGED <<slot1, slot2, web>>
         \/ /\ hdr = Hdr /\ SizesOk /\ WebFits
            /\ EraseSlots
            /\ web' = IF file.web > 0 THEN StartWeb(web) ELSE web
            /\ st' = IF file.loader > 0 THEN [s EXCEPT !.phase = "loader"]
                     ELSE Advance(s, {"fw1", "fw2", "web"})
            /\ Consume(Hdr - st.hdr)
         \/ /\ hdr = Hdr /\ SizesOk /\ ~WebFits
            /\ EraseSlots
            /\ Fail
            /\ UNCHANGED web
         \/ /\ hdr = Hdr
            /\ ~SizesOk \/ file.loader > 0      \* no memory for the loader
            /\ Fail
            /\ UNCHANGED <<slot1, slot2, web>>
  /\ UNCHANGED <<loader, trees>>

\* The blob is checked by its own header and written before the package's
\* checksum is known.
Loader ==
  /\ Turn("loader")
  /\ LET n == file.loader - Len(st.loader)
         s == [st EXCEPT !.loader = @ \o Chunk(n), !.crc = @ \o Chunk(n)]
     IN  \/ /\ Len(s.loader) < file.loader
            /\ st' = s
            /\ Consume(n)
            /\ UNCHANGED loader
         \/ /\ Len(s.loader) = file.loader
            /\ loader' = s.loader
            /\ st' = Advance(s, {"fw1", "fw2", "web"})
            /\ Consume(n)
         \/ /\ Len(s.loader) = file.loader
            /\ UNCHANGED loader
            /\ Fail
  /\ UNCHANGED <<slot1, slot2, web, trees>>

Fw1 ==
  /\ Turn("fw1")
  /\ LET n == file.fw1 - st.fw1
         s == [st EXCEPT !.fw1 = @ + AtMost(n), !.crc = @ \o Chunk(n)]
     IN  /\ slot1' = Program(slot1, st.fw1, Chunk(n))
         /\ st' = IF s.fw1 = file.fw1 THEN Advance(s, {"fw2", "web"}) ELSE s
         /\ Consume(n)
  /\ UNCHANGED <<slot2, web, loader, trees>>

Fw2 ==
  /\ Turn("fw2")
  /\ LET n == file.fw2 - st.fw2
         s == [st EXCEPT !.fw2 = @ + AtMost(n), !.crc = @ \o Chunk(n)]
     IN  /\ slot2' = Program(slot2, st.fw2, Chunk(n))
         /\ st' = IF s.fw2 = file.fw2 THEN Advance(s, {"web"}) ELSE s
         /\ Consume(n)
  /\ UNCHANGED <<slot1, web, loader, trees>>

Web ==
  /\ Turn("web")
  /\ LET n == file.web - Len(st.web)
         s == [st EXCEPT !.web = @ \o Chunk(n), !.crc = @ \o Chunk(n)]
     IN  /\ web' = LoaderWrite(web, 1 + Len(st.web), Chunk(n))
         /\ st' = IF Len(s.web) = file.web THEN Advance(s, {}) ELSE s
         /\ Consume(n)
  /\ UNCHANGED <<slot1, slot2, loader, trees>>

\* Mutant: the loop is not left when the sections are complete.
Ignore_Spin ==
  /\ Turn("done")
  /\ UNCHANGED vars

\* What follows the sections is ignored.
Ignore ==
  /\ Turn("done")
  /\ UNCHANGED <<st, slot1, slot2, web, loader, trees>>
  /\ Consume(seg)

\* A device tree goes to both sectors, block by block.
DtbPrimary ==
  /\ Turn("dtb")
  /\ primary' = Program(primary, got, Chunk(seg))
  /\ pc' = "second"
  /\ UNCHANGED <<slot1, slot2, web, loader, backup, promise, ota, file, num, got, seg, st>>

DtbBackup ==
  /\ pc = "second"
  /\ backup' = Program(backup, got, Chunk(seg))
  /\ got' = got + seg /\ seg' = 0
  /\ pc' = "feed"
  /\ UNCHANGED <<slot1, slot2, web, loader, primary, promise, ota, file, num, st>>

\* A bare application goes to APP1, and on to where it ends.
App ==
  /\ Turn("app")
  /\ slot1' = Program(slot1, got, Chunk(seg))
  /\ slot2' = Program(slot2, Over(got), SubSeq(Content, Second + Over(got) + 1, got + seg))
  /\ Consume(seg)
  /\ UNCHANGED <<st, web, loader, trees>>

\* The block is acknowledged; after the last one the session ends.
Return ==
  /\ pc = "feed" /\ seg = 0
  /\ pc' = IF got < file.size THEN "recv"
           ELSE IF file.kind = "upg" THEN "finish" ELSE "success"
  /\ promise' = IF pc' = "success" /\ file.kind = "dtb" /\ file.good
                THEN Content ELSE promise
  /\ UNCHANGED <<slot1, slot2, web, loader, primary, backup, ota, file, num, got, seg, st>>

Feed == \/ Header \/ Loader \/ Fw1 \/ Fw2 \/ Web \/ Ignore
        \/ EraseBackup \/ DtbPrimary \/ DtbBackup \/ App \/ Return

-----------------------------------------------------------------------------
(* upg_apply_finish                                                        *)

\* What malloc left in the buffer.
Stale == <<"stale">>

\* upg_finalize_web_prefix: the first sector is read and written back at
\* offset 0.
CrcSector ==
  LET old == Read(web, 0, Sector)
  IN  <<<<"crc", st.web>>>> \o
        [i \in 1 .. Sector - 1 |-> IF i + 1 <= Len(old) THEN old[i + 1] ELSE Stale]

\* Mutant: only the checksum is written, at offset 0, which erases.
FinalizeWeb_PrefixOnly ==
  IF file.web = 0 THEN web ELSE LoaderWrite(web, 0, <<<<"crc", st.web>>>>)

FinalizeWeb == IF file.web = 0 THEN web ELSE LoaderWrite(web, 0, CrcSector)

\* The checksum in the package's header.
PackageCrc == IF file.good THEN Body ELSE <<Garbage>>

\* Mutant: only the sections' lengths are compared.
CrcOk_ByLength == Len(st.crc) = Len(Body)

CrcOk == st.crc = PackageCrc

Complete == st.phase = "done"

\* A success stands only when everything is written; s_upg is cleared by
\* every failure: a section that is missing, a wrong checksum, no memory for
\* the sector.
Finish ==
  /\ pc = "finish"
  /\ \/ /\ Complete /\ CrcOk
        /\ web' = FinalizeWeb
        /\ ota' = num
        /\ pc' = "success"
        /\ UNCHANGED st
     \/ /\ ~(Complete /\ CrcOk) \/ file.web > 0
        /\ st' = Reset
        /\ pc' = "cli"
        /\ UNCHANGED <<web, ota>>
  /\ UNCHANGED <<slot1, slot2, loader, trees, file, num, got, seg>>

\* The sender gives up, somebody presses 'a', too many errors, a reset; only
\* the last ends an erase that does not end.
Abort ==
  /\ pc \in {"first", "hang", "erase", "recv", "feed", "second", "finish"}
  /\ st' = Reset /\ seg' = 0 /\ pc' = "cli"
  /\ UNCHANGED <<flash, file, num, got>>

\* SerialDownload has reported the success; the board restarts, or the
\* command line waits again.
Reported ==
  /\ pc = "success"
  /\ pc' = "cli" /\ st' = Reset
  /\ UNCHANGED <<flash, file, num, got, seg>>

-----------------------------------------------------------------------------
(* The application starts and binds a device tree: "cli" is also where it  *)
(* runs, until a reset.                                                    *)

DtsLoadDefault ==
  /\ pc = "cli"
  /\ promise' = Loaded
  /\ IF DtsValidate(primary) THEN UNCHANGED <<primary, backup, pc>>
     ELSE HealErase /\ pc' = "heal"
  /\ UNCHANGED <<slot1, slot2, web, loader, ota, file, num, got, seg, st>>

\* The damaged slot is rewritten; power may fail on the way.
DtsHeal(n) ==
  /\ pc = "heal"
  /\ n <= Len(promise)
  /\ HealProgram(n)
  /\ pc' = "cli"
  /\ UNCHANGED <<slot1, slot2, web, loader, ota, file, num, got, seg, st>>

Next == \/ \E f \in File : Begin(f)
        \/ Decide
        \/ \E n \in 1 .. Block : DataBlock(n)
        \/ Feed
        \/ Finish
        \/ Abort
        \/ Reported
        \/ DtsLoadDefault
        \/ \E n \in 0 .. Sector : DtsHeal(n)

Spec == Init /\ [][Next]_vars /\ WF_vars(Feed \/ Finish)

-----------------------------------------------------------------------------
Phases == {"off", "hdr", "loader", "fw1", "fw2", "web", "done", "dtb", "app"}

\* The values the variables may have.
TypeOK ==
  /\ \A cells \in {slot1, slot2, primary, backup, web.cell} : DOMAIN cells = Address
  /\ web.used \in 0 .. Area
  /\ ota \in 0 .. num /\ num \in 0 .. Transfers
  /\ file \in File
  /\ got \in 0 .. file.size /\ seg \in 0 .. Block
  /\ st.phase \in Phases
  /\ pc \in {"cli", "first", "hang", "erase", "recv", "feed", "second", "finish",
             "success", "heal"}

\* Where the section of the phase begins in the file.
StartOf(phase) ==
  Hdr + (IF phase = "loader" THEN 0 ELSE file.loader)
      + (IF phase \in {"loader", "fw1"} THEN 0 ELSE file.fw1)
      + (IF phase \in {"loader", "fw1", "fw2"} THEN 0 ELSE file.fw2)
      + (IF phase = "done" THEN file.web ELSE 0)

\* The unit the phase looks at next is the one that comes next, whatever
\* sections are empty and however the blocks cut them, and the checksum runs
\* over the sections without the header.
InStep ==
  st.phase \in {"loader", "fw1", "fw2", "web", "done"} =>
    /\ CASE st.phase = "loader" -> got = StartOf("loader") + Len(st.loader)
         [] st.phase = "fw1" -> got = StartOf("fw1") + st.fw1
         [] st.phase = "fw2" -> got = StartOf("fw2") + st.fw2
         [] st.phase = "web" -> got = StartOf("web") + Len(st.web)
         [] OTHER -> got >= StartOf("done")
    /\ st.crc = IF st.phase = "done" THEN Body ELSE SubSeq(Body, 1, got - Hdr)

\* The first n units of an application stand in the flash from APP1 on, those
\* that lie in APP2's slot included.
AppStands(n) == \A a \in Address : /\ a < n => slot1[a] = <<num, "app", a + 1>>
                                  /\ a < Over(n) => slot2[a] = <<num, "app", Second + a + 1>>

\* What the context counts as written stands in the flash.
Placed ==
  /\ st.phase \notin {"dtb", "app"} =>
       /\ Cells(slot1, 0, st.fw1) = Section("fw1", st.fw1)
       /\ Cells(slot2, 0, st.fw2) = Section("fw2", st.fw2)
  /\ pc # "success" /\ st.web # <<>> =>
       /\ st.web = Section("web", Len(st.web))
       /\ Cells(web.cell, 0, 1 + Len(st.web)) = <<Placeholder>> \o st.web
  /\ st.phase = "dtb" => \A cells \in {primary, backup} : Cells(cells, 0, got) = SubSeq(Content, 1, got)
  /\ st.phase = "app" => AppStands(got)

\* A device tree is on its way, or has come.
DtbComing == file.kind = "dtb" /\ pc \in {"erase", "recv", "feed", "second", "success"}

\* A sector holds the beginning of what is sent, and nothing else.
Begun(cell, n) ==
  /\ \A a \in 0 .. n - 1 : cell[a] = Content[a + 1]
  /\ \A a \in n .. Sector - 1 : cell[a] = Erased

\* How much of a device tree the sectors hold; until all of it is there
\* nothing is promised.
TreeOnItsWay ==
  /\ file.size <= Sector
  /\ got \in Nat /\ seg \in Nat /\ got + seg <= file.size
  /\ Begun(primary, IF pc = "second" THEN got + seg ELSE got)
  /\ IF pc = "erase" THEN got = 0 ELSE Begun(backup, got)
  /\ pc \in {"erase", "recv"} => seg = 0
  /\ pc # "success" => promise = None

\* What the rest of the steps need to know of the device tree.
TreeInv ==
  /\ st.phase = "dtb" <=> DtbComing
  /\ DtbComing => TreeOnItsWay
  /\ pc \in {"erase", "second"} => file.kind = "dtb"
  /\ pc = "finish" => file.kind = "upg"
  /\ pc = "first" => got = 0 /\ seg = 0
  /\ pc = "heal" => /\ promise # None
                    /\ \A a \in 0 .. Sector - 1 : primary[a] = Erased
  /\ promise # None => /\ promise[1][4] \in 1 .. Sector
                       /\ promise = Tree(promise[1][1], TRUE, promise[1][4])

\* The context agrees with the file in front of it and with the flash
\* behind it.
IInv == TypeOK /\ InStep /\ Placed /\ TreeInv

\* Nothing is programmed onto what is not erased: the ranges erased when the
\* header, or the first block of the other files, arrives cover everything
\* that is written later, whatever earlier transfers left there.
NeverTwice ==
  \A a \in Address : Garbage \notin {slot1[a], slot2[a], primary[a], backup[a], web.cell[a]}

\* The web image is where it belongs after the update.
WebWhole ==
  Read(web, 0, 1 + file.web) = <<<<"crc", Section("web", file.web)>>>> \o Section("web", file.web)

\* A success that is reported is one: every section of the package, the
\* device tree or the application stands where it is looked for, an
\* application that is longer than its slot too.  Of a web image only one that
\* fits into the first sector is promised; see WebSurvives.
SuccessIsWhole ==
  pc = "success" =>
    CASE file.kind = "upg" ->
           /\ Cells(slot1, 0, file.fw1) = Section("fw1", file.fw1)
           /\ Cells(slot2, 0, file.fw2) = Section("fw2", file.fw2)
           /\ file.loader > 0 => loader = Section("loader", file.loader)
           /\ file.web > 0 /\ 1 + file.web <= Sector => WebWhole
           /\ ota = num
      [] file.kind = "dtb" ->
           \A cells \in {primary, backup} :
             Cells(cells, 0, file.size) = Content
      [] file.kind = "app" -> file.size <= Internal /\ AppStands(file.size)

\* PART_OTA is only rewritten after a package whose checksum is right: a
\* request that waits there survives every other transfer.
RecordOnlyWhole ==
  [][ ota' # ota => file.kind = "upg" /\ file.good /\ st.crc = Body ]_vars

\* The loop in upg_apply_feed always comes to the end of the block, and the
\* session to an answer; but see Decide for the loop that erases.
LoopEnds == pc \in {"erase", "feed", "second", "finish"} ~> pc \in {"cli", "recv", "success"}

\* "web -> SPI PART_WEB (optional, the CRC prefix as on the APP side)", says
\* the head of upg_apply.c: a web image that was reported written is there.
WebSurvives == pc = "success" /\ file.kind = "upg" /\ file.web > 0 => WebWhole
=============================================================================
