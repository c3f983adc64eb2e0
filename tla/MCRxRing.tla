------------------------------ MODULE MCRxRing ------------------------------
\* The ring as it is compiled (two nodes), with lines of at most three bytes.
EXTENDS RxRing, Bitwise

CONSTANTS x, nl

MCByte == {x, nl}
MCEol == {nl}

\* For every power of two the code's masks and its toggled bit are the
\* arithmetic of RxRing.
ASSUME MasksAreArithmetic ==
  \A s \in {1, 2, 4, 8} : \A p \in 0 .. 2 * s - 1 :
    /\ (p + 1) & (2 * s - 1) = IF p + 1 < 2 * s THEN p + 1 ELSE p + 1 - 2 * s
    /\ p & (s - 1) = IF p < s THEN p ELSE p - s
    /\ p ^^ s = IF p + s < 2 * s THEN p + s ELSE p + s - 2 * s
=============================================================================
