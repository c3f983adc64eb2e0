------------------------------ MODULE MCAbOta ------------------------------
\* Instances of AbOta: two versions of the application built for each slot,
\* and one image the loader has no memory to copy.
EXTENDS AbOta, TLC

CONSTANTS a0, b0, a1, b1, big

MCImage == {a0, b0, a1, b1, big}
MCLinked == (a0 :> 0) @@ (b0 :> 0) @@ (a1 :> 1) @@ (b1 :> 1) @@ (big :> 1)
MCTooBig == {big}
=============================================================================
