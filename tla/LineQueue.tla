----------------------------- MODULE LineQueue -----------------------------
(***************************************************************************)
(* What the serial port promises to the shell: the bytes that were         *)
(* accepted come as lines, every line once, whole, in the order in which   *)
(* it was typed.  A line ends with an end-of-line byte, when it is as long *)
(* as a line may be, or when the typist pauses.  While Room lines wait or  *)
(* are being executed nothing more is accepted.                            *)
(***************************************************************************)
EXTENDS Naturals, Sequences

CONSTANTS Byte,      \* what may be received
          Eol,       \* the bytes that end a line
          MaxLine,   \* the longest line
          Room       \* how many finished lines there is room for

VARIABLES typing,    \* the line that is being received
          lines,     \* the finished lines that nobody has read
          shell,     \* the line the shell was given last
          busy       \* the shell still holds it

vars == <<typing, lines, shell, busy>>

Init == /\ typing = <<>>
        /\ lines = <<>>
        /\ shell = <<>>
        /\ busy = FALSE

Waiting == Len(lines) + (IF busy THEN 1 ELSE 0)

Accept(b) ==
  /\ Waiting < Room
  /\ LET line == Append(typing, b)
     IN  IF b \in Eol \/ Len(line) = MaxLine
         THEN typing' = <<>> /\ lines' = Append(lines, line)
         ELSE typing' = line /\ UNCHANGED lines
  /\ UNCHANGED <<shell, busy>>

Pause == /\ typing # <<>>
         /\ typing' = <<>>
         /\ lines' = Append(lines, typing)
         /\ UNCHANGED <<shell, busy>>

Give == /\ ~busy
        /\ lines # <<>>
        /\ shell' = Head(lines)
        /\ lines' = Tail(lines)
        /\ busy' = TRUE
        /\ UNCHANGED typing

Done == /\ busy
        /\ busy' = FALSE
        /\ UNCHANGED <<typing, lines, shell>>

Next == \/ \E b \in Byte : Accept(b)
        \/ Pause
        \/ Give
        \/ Done

Spec == Init /\ [][Next]_vars
=============================================================================
