--------------------------- MODULE MCSerialUpdate ---------------------------
\* Sectors of two units, blocks of up to two.
EXTENDS SerialUpdate

Upg(ldr, app1, app2, www, more, good) ==
  [kind |-> "upg", loader |-> ldr, fw1 |-> app1, fw2 |-> app2, web |-> www,
   size |-> Hdr + ldr + app1 + app2 + www + more, good |-> good]

Plain(kind, size) ==
  [kind |-> kind, loader |-> 0, fw1 |-> 0, fw2 |-> 0, web |-> 0,
   size |-> size, good |-> TRUE]

\* With everything and padding behind it; without a loader or an APP1, with a
\* small web image; with a wrong checksum; shorter than its header says; with
\* a web image or an APP1 that does not fit; a device tree, one that is too
\* long and one with a wrong checksum; an application, one that reaches into
\* APP2's slot, and one that is longer than the flash.
MCFile == {Upg(2, 3, 2, 4, 1, TRUE), Upg(0, 0, 3, 1, 0, TRUE),
           Upg(1, 1, 1, 0, 0, FALSE),
           [Upg(0, 2, 2, 2, 0, TRUE) EXCEPT !.size = @ - 1],
           Upg(0, 1, 0, 6, 0, TRUE), Upg(0, 7, 0, 0, 0, TRUE),
           Plain("dtb", 2), Plain("dtb", 3),
           [Plain("dtb", 1) EXCEPT !.good = FALSE], Plain("app", 3),
           Plain("app", 11), Plain("app", 17)}
=============================================================================
