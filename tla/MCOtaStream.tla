---------------------------- MODULE MCOtaStream ----------------------------
\* Sectors of two units.  The packages: with a loader and a web image that
\* ends in the third sector, of the old kind without web image, with a web
\* image the partition has no room for, and of the kind of the other build.
EXTENDS OtaStream

MCPackage ==
  {[kind |-> "ldr", loader |-> 2, fw1 |-> 2, fw2 |-> 3, web |-> 4, boundary |-> 1],
   [kind |-> "ldr", loader |-> 0, fw1 |-> 3, fw2 |-> 1, web |-> 1, boundary |-> 0],
   [kind |-> "dual", loader |-> 0, fw1 |-> 3, fw2 |-> 4, web |-> 0, boundary |-> 1],
   [kind |-> "dual", loader |-> 0, fw1 |-> 1, fw2 |-> 2, web |-> 6, boundary |-> 1],
   [kind |-> "single", loader |-> 0, fw1 |-> 2, fw2 |-> 0, web |-> 1, boundary |-> 0]}

MCHdrLen(kind) == CASE kind = "ldr" -> 3 [] kind = "dual" -> 2 [] OTHER -> 1
=============================================================================
