----------------------------- MODULE OtaStream -----------------------------
(***************************************************************************)
(* The streaming fallback of the HTTP upload (post.c): when the package    *)
(* does not fit into the heap it is taken apart while its segments arrive, *)
(* section by section, and written straight to SPI flash.  One action is   *)
(* one turn of the loop in ota_stream_feed.                                *)
(*                                                                         *)
(* A unit of the stream is the smallest piece a flash write or a segment   *)
(* is made of here; a header unit and the prefix of PART_WEB are one unit  *)
(* too.  A checksum is the sequence it was computed over.  payload_got and *)
(* payload_need only tell DRAIN from DONE, which makes no difference to    *)
(* the caller.  An upload that is cut or taken over is OtaSession's        *)
(* subject; here an upload arrives whole, or power fails.                  *)
(***************************************************************************)
EXTENDS SpiPartition

CONSTANTS Package,     \* the packages that are uploaded
          HdrLen(_),   \* units of the header of a kind
          Uploads      \* bound: how many uploads

\* The kinds whose header is longest, and which the dual build understands.
Longest == "ldr"
Known == {"ldr", "dual"}

ASSUME UploadsAssumption == Uploads \in Nat

ASSUME PackageAssumption ==
  /\ Package \subseteq [kind : STRING, loader : Nat, fw1 : Nat, fw2 : Nat,
                        web : Nat, boundary : Nat]
  /\ \A p \in Package : p.loader > 0 => p.kind = "ldr"
  /\ \A kind \in {p.kind : p \in Package} \cup {Longest} : HdrLen(kind) \in Nat

VARIABLES app1,        \* PART_APP1: the staged firmware
          web,         \* PART_WEB
          ota,         \* PART_OTA: the committed request, or NoRequest
          active,      \* ota_get_active_slot: 0 or 1
          loader,      \* the blob given to upgrade_write_loader last
          pkg,         \* the package that is being uploaded
          up,          \* how many uploads have begun
          got,         \* units of the upload that were taken
          seg,         \* units of the current segment not yet looked at
          st,          \* s_ota_stream
          pc           \* where fw_upgrade stands

vars == <<app1, web, ota, active, loader, pkg, up, got, seg, st, pc>>

NoRequest == [crc |-> <<>>]

-----------------------------------------------------------------------------
(* What arrives: header, sections, and the boundary behind the file.       *)

Section(name, n) == [i \in 1 .. n |-> <<up, name, i>>]

Stream == Section("hdr", HdrLen(pkg.kind)) \o Section("loader", pkg.loader)
            \o Section("fw1", pkg.fw1) \o Section("fw2", pkg.fw2)
            \o Section("web", pkg.web) \o Section("boundary", pkg.boundary)

Length(p) == HdrLen(p.kind) + p.loader + p.fw1 + p.fw2 + p.web + p.boundary

\* At most as many units as the segment still has.
AtMost(n) == IF n <= seg THEN n ELSE seg

Chunk(n) == SubSeq(Stream, got + 1, got + AtMost(n))

-----------------------------------------------------------------------------
\* The fields of the context; fw and webBody are what fw_crc_run and
\* web_crc_run were computed over, fw_written and web_written their lengths.
Reset == [phase |-> "off", hdr |-> 0, need |-> 0, skip |-> 0, skipAfter |-> 0,
          fwLen |-> 0, webLen |-> 0, loaderLen |-> 0,
          loaderBuf |-> <<>>, fw |-> <<>>, webBody |-> <<>>]

FwLeft == st.fwLen - Len(st.fw)
WebLeft == st.webLen - Len(st.webBody)
LoaderLeft == st.loaderLen - Len(st.loaderBuf)

Init == /\ app1 = Blank /\ web = Blank
        /\ ota = NoRequest
        /\ active \in {0, 1}
        /\ loader = <<>>
        /\ pkg \in Package
        /\ up = 0 /\ got = 0 /\ seg = 0
        /\ st = Reset
        /\ pc = "idle"

\* fw_upgrade, first segment, malloc failed; n units of it are payload.
\* Without the magic the longest header is expected.
Begin(p, n) ==
  /\ pc = "idle" /\ up < Uploads
  /\ n <= Length(p)
  /\ pkg' = p /\ up' = up + 1
  /\ got' = 0 /\ seg' = n
  /\ st' = [Reset EXCEPT !.phase = "hdr",
                         !.need = IF n = 0 THEN HdrLen(Longest) ELSE HdrLen(p.kind)]
  /\ pc' = "feed"
  /\ UNCHANGED <<app1, web, ota, active, loader>>

\* The next segment.
Segment(n) ==
  /\ pc = "recv"
  /\ n \in 1 .. Len(Stream) - got
  /\ seg' = n
  /\ pc' = "feed"
  /\ UNCHANGED <<app1, web, ota, active, loader, pkg, up, got, st>>

-----------------------------------------------------------------------------
(* ota_stream_feed                                                         *)

Turn(phase) == pc = "feed" /\ seg > 0 /\ st.phase = phase

Consume(n) == /\ got' = got + AtMost(n)
              /\ seg' = seg - AtMost(n)
              /\ UNCHANGED <<ota, active, pkg, up, pc>>

\* An error answers 400 and resets the stream.
Fail == /\ st' = Reset
        /\ seg' = 0
        /\ pc' = "idle"
        /\ UNCHANGED <<ota, active, pkg, up, got>>

\* Mutant: the image of the slot that runs is written.
Plan_Active == [Reset EXCEPT
                  !.hdr = st.hdr, !.need = st.need,
                  !.loaderLen = IF pkg.kind = "ldr" THEN pkg.loader ELSE 0,
                  !.webLen = pkg.web,
                  !.skip = IF active = 0 THEN 0 ELSE pkg.fw1,
                  !.skipAfter = IF active = 0 THEN pkg.fw2 ELSE 0,
                  !.fwLen = IF active = 0 THEN pkg.fw1 ELSE pkg.fw2]

\* The slot that runs decides which of the two images is written.
Plan == [Reset EXCEPT
           !.hdr = st.hdr, !.need = st.need,
           !.loaderLen = IF pkg.kind = "ldr" THEN pkg.loader ELSE 0,
           !.webLen = pkg.web,
           !.skip = IF active = 1 THEN 0 ELSE pkg.fw1,
           !.skipAfter = IF active = 1 THEN pkg.fw2 ELSE 0,
           !.fwLen = IF active = 1 THEN pkg.fw1 ELSE pkg.fw2]

AfterLoader(s) == [s EXCEPT !.phase = IF s.skip > 0 THEN "skip" ELSE "fw"]

ParseHeader ==
  IF Plan.loaderLen > 0 THEN [Plan EXCEPT !.phase = "loader"] ELSE AfterLoader(Plan)

Header ==
  /\ Turn("hdr")
  /\ LET hdr == st.hdr + AtMost(st.need - st.hdr)
     IN  \/ /\ hdr < st.need
            /\ st' = [st EXCEPT !.hdr = hdr]
            /\ Consume(st.need - st.hdr)
         \/ /\ hdr = st.need /\ pkg.kind \in Known
            /\ pkg.fw1 > 0 /\ pkg.fw2 > 0
            /\ st' = [ParseHeader EXCEPT !.hdr = hdr]
            /\ Consume(st.need - st.hdr)
         \/ hdr = st.need /\ Fail     \* unknown, bad lengths, no memory
  /\ UNCHANGED <<app1, web, loader>>

\* The whole blob is handed on before anything else is written.
Loader ==
  /\ Turn("loader")
  /\ LET buf == st.loaderBuf \o Chunk(LoaderLeft)
     IN  \/ /\ Len(buf) < st.loaderLen
            /\ st' = [st EXCEPT !.loaderBuf = buf]
            /\ Consume(LoaderLeft)
            /\ UNCHANGED loader
         \/ /\ Len(buf) = st.loaderLen
            /\ loader' = buf
            /\ \/ st' = AfterLoader([st EXCEPT !.loaderBuf = buf]) /\ Consume(LoaderLeft)
               \/ Fail                \* upgrade_write_loader
  /\ UNCHANGED <<app1, web>>

\* ota_stream_start_web: a placeholder clears the first sector.
Prefix(body) == <<"crc", body>>
Placeholder == Prefix(<<>>)

\* Mutant: without a web section the phase stays what it is.
ToWeb_NoDrain(s) ==
  IF s.webLen > Len(s.webBody)
  THEN st' = [s EXCEPT !.phase = "web"] /\ web' = AppWrite(web, 0, <<Placeholder>>)
  ELSE st' = s /\ UNCHANGED web

ToWeb(s) ==
  IF s.webLen > Len(s.webBody)
  THEN st' = [s EXCEPT !.phase = "web"] /\ web' = AppWrite(web, 0, <<Placeholder>>)
  ELSE st' = [s EXCEPT !.phase = "drain"] /\ UNCHANGED web

Skip ==
  /\ Turn("skip")
  /\ LET s == [st EXCEPT !.skip = st.skip - AtMost(st.skip)]
     IN  IF s.skip > 0 THEN st' = s /\ UNCHANGED web
         ELSE IF s.fwLen > 0 /\ Len(s.fw) = s.fwLen THEN ToWeb(s)
         ELSE st' = [s EXCEPT !.phase = "fw"] /\ UNCHANGED web
  /\ Consume(st.skip)
  /\ UNCHANGED <<app1, loader>>

\* A write that does not fit or does not verify ends the upload.
Written(part, off, data) == AppFits(off, Len(data)) /\ AppVerified(part, off, data)

\* Mutant: the other slot's image is taken for the web section.
AfterFw_NoSkip(s) ==
  IF Len(s.fw) < s.fwLen THEN st' = s /\ UNCHANGED web ELSE ToWeb(s)

AfterFw(s) ==
  IF Len(s.fw) < s.fwLen THEN st' = s /\ UNCHANGED web
  ELSE IF s.skipAfter > 0
  THEN st' = [s EXCEPT !.skip = s.skipAfter, !.skipAfter = 0, !.phase = "skip"]
       /\ UNCHANGED web
  ELSE ToWeb(s)

Fw ==
  /\ Turn("fw")
  /\ LET data == Chunk(FwLeft)
         off == Len(st.fw)
     IN  \/ /\ Written(app1, off, data)
            /\ app1' = AppWrite(app1, off, data)
            /\ AfterFw([st EXCEPT !.fw = st.fw \o data])
            /\ Consume(FwLeft)
         \/ /\ ~Written(app1, off, data)
            /\ app1' = IF AppFits(off, Len(data)) THEN AppWrite(app1, off, data) ELSE app1
            /\ Fail
            /\ UNCHANGED web
  /\ UNCHANGED loader

\* The body stands behind the prefix.
Web ==
  /\ Turn("web")
  /\ LET data == Chunk(WebLeft)
         off == 1 + Len(st.webBody)
         s == [st EXCEPT !.webBody = st.webBody \o data]
     IN  \/ /\ Written(web, off, data)
            /\ web' = AppWrite(web, off, data)
            /\ st' = IF Len(s.webBody) = s.webLen THEN [s EXCEPT !.phase = "drain"] ELSE s
            /\ Consume(WebLeft)
         \/ /\ ~Written(web, off, data)
            /\ web' = IF AppFits(off, Len(data)) THEN AppWrite(web, off, data) ELSE web
            /\ Fail
  /\ UNCHANGED <<app1, loader>>

Drain ==
  /\ Turn("drain")
  /\ st' = st
  /\ Consume(seg)
  /\ UNCHANGED <<app1, web, loader>>

\* Back in fw_upgrade: is that all of the request?
Return ==
  /\ pc = "feed" /\ seg = 0
  /\ pc' = IF got = Len(Stream) THEN "finish" ELSE "recv"
  /\ UNCHANGED <<app1, web, ota, active, loader, pkg, up, got, seg, st>>

Feed == Header \/ Loader \/ Skip \/ Fw \/ Web \/ Drain \/ Return

-----------------------------------------------------------------------------
(* ota_stream_finish.  ota_stream_finalize_web also sets size_used in RAM  *)
(* to the length of the section, until the reset that follows.             *)

\* Mutant: only the prefix is written.
CrcSector_PrefixOnly == <<Prefix(st.webBody)>>

\* The first sector is read, given its prefix and written back.
CrcSector ==
  LET old == Read(web, 0, Sector)
  IN  <<Prefix(st.webBody)>> \o
        [i \in 1 .. Sector - 1 |-> IF i + 1 <= Len(old) THEN old[i + 1] ELSE Garbage]

Finish ==
  /\ pc = "finish"
  /\ seg' = 0
  /\ st' = Reset
  /\ LET complete == FwLeft = 0 /\ st.fwLen > 0
         webOk == st.webLen = 0 \/ WebLeft = 0
     IN  /\ web' = IF complete /\ webOk /\ st.webLen > 0
                   THEN AppWrite(web, 0, CrcSector) ELSE web
         /\ \/ complete /\ webOk /\ ota' = [crc |-> st.fw] /\ pc' = "reboot"
            \/ ~(complete /\ webOk) /\ ota' = ota /\ pc' = "idle"
  /\ UNCHANGED <<app1, active, loader, pkg, up, got>>

\* A reset, by the firmware or by a power failure; the loader takes a
\* committed request and switches the slot.
Restart ==
  /\ pc # "idle"
  /\ active' = IF ota = NoRequest THEN active ELSE 1 - active
  /\ ota' = NoRequest
  /\ st' = Reset /\ seg' = 0 /\ pc' = "idle"
  /\ UNCHANGED <<app1, web, loader, pkg, up, got>>

Next == \/ \E p \in Package : \E n \in 0 .. HdrLen(Longest) + 2 : Begin(p, n)
        \/ \E n \in 1 .. Len(Stream) - got : Segment(n)
        \/ Feed
        \/ Finish
        \/ Restart

\* The loop and what follows it run to their end; the segments need not come.
Spec == Init /\ [][Next]_vars /\ WF_vars(Feed \/ Finish)

-----------------------------------------------------------------------------
Phases == {"off", "hdr", "loader", "skip", "fw", "web", "drain"}

Sections == {"hdr", "loader", "fw1", "fw2", "web", "boundary"}

Unit == Nat \X Sections \X Nat

Context == [phase : Phases, hdr : Nat, need : Nat, skip : Nat, skipAfter : Nat,
            fwLen : Nat, webLen : Nat, loaderLen : Nat,
            loaderBuf : Seq(Unit), fw : Seq(Unit), webBody : Seq(Unit)]

\* The values the variables may have.
TypeOK ==
  /\ DOMAIN app1.cell = Address /\ app1.used \in 0 .. Area
  /\ DOMAIN web.cell = Address /\ web.used \in 0 .. Area
  /\ active \in {0, 1}
  /\ pkg \in Package /\ up \in 0 .. Uploads
  /\ got \in Nat /\ seg \in Nat
  /\ st \in Context
  /\ pc \in {"idle", "recv", "feed", "finish", "reboot"}

\* No section is taken for longer than it is, and one begins after another.
Counted ==
  /\ got + seg <= Length(pkg)
  /\ Len(st.fw) <= st.fwLen
  /\ Len(st.webBody) <= st.webLen
  /\ Len(st.loaderBuf) <= st.loaderLen
  /\ st.phase \in {"off", "hdr"} => st.loaderBuf = <<>>
  /\ st.phase \in {"off", "hdr", "loader"} => st.fw = <<>>
  /\ st.phase \notin {"web", "drain"} => st.webBody = <<>>
  /\ st.phase = "hdr" => got = st.hdr /\ st.hdr <= st.need

\* The sector that n units reach into is erased behind them.
ClearBehind(cell, n) ==
  \A a \in Address : a >= n /\ SectorOf(a) = SectorOf(n - 1) => cell[a] = Erased

\* A partition holds a sequence from its start, and the next unit has room.
Holds(p, data) ==
  /\ Cells(p.cell, 0, Len(data)) = data
  /\ p.used >= Len(data)
  /\ Len(data) > 0 => ClearBehind(p.cell, Len(data))

\* What the context counts as written stands in the flash.
Placed ==
  /\ Holds(app1, st.fw)
  /\ st.phase = "web" \/ st.webBody # <<>> => Holds(web, <<Placeholder>> \o st.webBody)

\* The image for the slot that does not run.
ImageName == IF active = 1 THEN "fw1" ELSE "fw2"
ImageLen == IF active = 1 THEN pkg.fw1 ELSE pkg.fw2
Image == Section(ImageName, ImageLen)

\* The header was taken for as long as it is.  A first segment that ends
\* before the magic spoils that for every kind but the longest.
HeaderKnown == st.need = HdrLen(pkg.kind)

BodyAt == HdrLen(pkg.kind) + pkg.loader

\* What the loop has to find in front of the image, and behind it.
Before == IF active = 1 THEN 0 ELSE pkg.fw1
Behind == IF active = 1 THEN pkg.fw2 ELSE 0

\* Where the stream stands in each phase.
Position ==
  CASE st.phase = "loader" ->
         /\ got = HdrLen(pkg.kind) + Len(st.loaderBuf)
         /\ st.skip = Before /\ st.skipAfter = Behind
    [] st.phase = "skip" ->
         IF st.fw = <<>>
         THEN got + st.skip = BodyAt + Before /\ st.skipAfter = Behind
         ELSE /\ got + st.skip = BodyAt + pkg.fw1 + pkg.fw2
              /\ st.skipAfter = 0 /\ Len(st.fw) = st.fwLen
    [] st.phase = "fw" ->
         got = BodyAt + Before + Len(st.fw) /\ st.skipAfter = Behind
    [] st.phase = "web" ->
         got = BodyAt + pkg.fw1 + pkg.fw2 + Len(st.webBody) /\ Len(st.fw) = st.fwLen
    [] OTHER ->
         /\ got >= BodyAt + pkg.fw1 + pkg.fw2 + Len(st.webBody)
         /\ Len(st.fw) = st.fwLen

\* What was planned, and that every section was taken from its beginning.
Sectioned ==
  /\ st.fwLen = ImageLen /\ st.fwLen > 0
  /\ st.webLen = pkg.web /\ st.loaderLen = pkg.loader
  /\ st.fw = Section(ImageName, Len(st.fw))
  /\ st.loaderBuf = Section("loader", Len(st.loaderBuf))
  /\ st.webBody = Section("web", Len(st.webBody))

\* The unit the phase looks at next is the one that comes next, however
\* the segments cut the package.
InStep == HeaderKnown /\ st.phase \notin {"off", "hdr"} => Sectioned /\ Position

\* The context agrees with the flash behind it, and with the stream in front
\* of it.
IInv == TypeOK /\ Counted /\ Placed /\ InStep

\* A segment may end anywhere in a sector, yet no write of the stream meets
\* a cell that is not erased: the sectors that flash_partition_write erases
\* on the way are exactly the new ones.
NeverTwice ==
  /\ pc = "feed" /\ st.phase = "fw" =>
       LET data == Chunk(FwLeft)
       IN  AppFits(Len(st.fw), Len(data)) => AppVerified(app1, Len(st.fw), data)
  /\ pc = "feed" /\ st.phase = "web" =>
       LET data == Chunk(WebLeft)
           off == 1 + Len(st.webBody)
       IN  AppFits(off, Len(data)) => AppVerified(web, off, data)

\* What is committed is the whole image of the slot that does not run, and
\* PART_APP1 holds it (upgrade_commit_ota_flag after any segmentation).
RequestIsImage ==
  [][ (ota' # ota /\ ota' # NoRequest /\ HeaderKnown) =>
        /\ ota'.crc = Image
        /\ Read(app1, 0, Len(Image)) = Image ]_vars

\* Before a request with a web section is committed, PART_WEB holds the
\* section behind the checksum of it (ota_stream_finalize_web rewrites the
\* first sector without touching the others).
WebIsImage ==
  [][ (ota' # ota /\ ota' # NoRequest /\ HeaderKnown /\ pkg.web > 0) =>
        LET body == Section("web", pkg.web)
        IN  Read(web', 0, 1 + pkg.web) = <<Prefix(body)>> \o body ]_vars

\* The loop in ota_stream_feed always comes to the end of the segment.
LoopEnds == pc \in {"feed", "finish"} ~> pc \in {"idle", "recv", "reboot"}
=============================================================================
