------------------------------- MODULE RxRing -------------------------------
(***************************************************************************)
(* The receive ring of the debug UART (rx_data_queue.c): the interrupt     *)
(* handler fills nodes, the shell task executes and frees them, nobody     *)
(* takes a lock.                                                           *)
(*                                                                         *)
(* The indices run modulo twice the number of nodes, so that a full ring   *)
(* and an empty one differ.  The code masks with 2*size-1 and toggles the  *)
(* bit "size"; for a power of two, which the header demands, that is the   *)
(* arithmetic written here (MCRxRing compares the two).                    *)
(***************************************************************************)
EXTENDS Naturals, Sequences

CONSTANTS Byte,      \* what the line carries
          Eol,       \* '\n' and '\r'
          Size,      \* QUEUE_NODE_NUM
          NodeLen    \* QUEUE_NODE_DATA_LEN

ASSUME SizeAssumption == Size \in Nat \ {0}
ASSUME LenAssumption == NodeLen \in Nat \ {0}

VARIABLES node,         \* elems[i]->head[0 .. len-1], len included
          write,        \* index after the last finished node
          writeUsing,   \* the node being filled, or write
          read,         \* index of the last freed node
          readUsing,    \* the node being executed, or read
          pc,           \* where shell_task stands
          shell         \* what shell_input was given last

vars == <<node, write, writeUsing, read, readUsing, pc, shell>>

Index == 0 .. 2 * Size - 1

\* The node of an index: p & (size - 1).
Slot(p) == IF p < Size THEN p ELSE p - Size

\* The index i places after p.
After(p, i) == IF p + i < 2 * Size THEN p + i ELSE p + i - 2 * Size

cbIncr(p) == After(p, 1)

\* Mutant: the bit is added instead of toggled.
cbIsFull_Added == write = read + Size

\* Mutant: the indices are compared as nodes, so full looks empty.
cbIsEmpty_BySlot == Slot(write) = Slot(read)

\* write == (read ^ size).
cbIsFull == write = After(read, Size)

cbIsEmpty == write = read

Init == /\ node = [s \in 0 .. Size - 1 |-> <<>>]
        /\ write = 0 /\ writeUsing = 0
        /\ read = 0 /\ readUsing = 0
        /\ pc = "poll"
        /\ shell = <<>>

-----------------------------------------------------------------------------
(* DEBUG_USART_IRQHandler: the task does not run meanwhile.                *)

\* Mutant: always the node after the one being filled.
Filling_Next == cbIncr(writeUsing)

\* cbWrite: start a node unless one is being filled.
Filling == IF write = writeUsing THEN cbIncr(write) ELSE writeUsing

\* A byte that finds the ring full is dropped; so is what no longer fits.
Received(b) ==
  IF Len(node[Slot(Filling)]) < NodeLen
  THEN Append(node[Slot(Filling)], b) ELSE node[Slot(Filling)]

\* RXNE.
ReceiveByte(b) ==
  /\ ~cbIsFull
  /\ node' = [node EXCEPT ![Slot(Filling)] = Received(b)]
  /\ writeUsing' = Filling
  /\ write' = IF b \in Eol \/ Len(Received(b)) >= NodeLen
              THEN Filling ELSE write
  /\ UNCHANGED <<read, readUsing, pc, shell>>

\* IDLE: what has arrived is finished although no end of line came.
LineIdle ==
  /\ write # writeUsing
  /\ node[Slot(writeUsing)] # <<>>
  /\ write' = writeUsing
  /\ UNCHANGED <<node, writeUsing, read, readUsing, pc, shell>>

-----------------------------------------------------------------------------
(* shell_task: the interrupt may come between any two of these steps.      *)

\* cbRead; a node without data is left alone until the next poll.
ShellPoll ==
  /\ pc = "poll"
  /\ ~cbIsEmpty
  /\ readUsing' = IF read = readUsing THEN cbIncr(read) ELSE readUsing
  /\ pc' = IF node[Slot(readUsing')] = <<>> THEN "poll" ELSE "got"
  /\ UNCHANGED <<node, write, writeUsing, read, shell>>

\* Mutant: the node is freed before it is emptied.
ShellInput_Freeing ==
  /\ pc = "got"
  /\ shell' = node[Slot(readUsing)]
  /\ read' = readUsing
  /\ pc' = "given"
  /\ UNCHANGED <<node, write, writeUsing, readUsing>>

\* shell_input
ShellInput ==
  /\ pc = "got"
  /\ shell' = node[Slot(readUsing)]
  /\ pc' = "given"
  /\ UNCHANGED <<node, write, writeUsing, read, readUsing>>

\* len = 0, and again in cbReadFinish
ShellClear ==
  /\ pc = "given"
  /\ node' = [node EXCEPT ![Slot(readUsing)] = <<>>]
  /\ pc' = "cleared"
  /\ UNCHANGED <<write, writeUsing, read, readUsing, shell>>

\* The end of cbReadFinish frees the node.
ShellFinish ==
  /\ pc = "cleared"
  /\ read' = readUsing
  /\ pc' = "poll"
  /\ UNCHANGED <<node, write, writeUsing, readUsing, shell>>

ShellTask == ShellPoll \/ ShellInput \/ ShellClear \/ ShellFinish

Next == \/ \E b \in Byte : ReceiveByte(b)
        \/ LineIdle
        \/ ShellTask

\* The task is scheduled again and again; nothing is assumed of the line.
Spec == Init /\ [][Next]_vars /\ WF_vars(ShellTask)

-----------------------------------------------------------------------------
\* The values the variables may have.
TypeOK == /\ node \in [0 .. Size - 1 -> Seq(Byte)]
          /\ write \in Index /\ writeUsing \in Index
          /\ read \in Index /\ readUsing \in Index
          /\ pc \in {"poll", "got", "given", "cleared"}
          /\ shell \in Seq(Byte)

\* How many nodes are finished and not yet freed.
Count == IF write >= read THEN write - read ELSE write - read + 2 * Size

Busy == pc \in {"given", "cleared"}

\* Each side has at most the next node in hand, and the interrupt none
\* while the ring is full.
Hands == /\ Count <= Size
         /\ writeUsing # write => writeUsing = cbIncr(write) /\ Count < Size
         /\ readUsing = IF pc = "poll" THEN read ELSE cbIncr(read)
         /\ pc # "poll" => Count > 0

\* The finished nodes hold a line, the one being filled the beginning of
\* one, and every other node is empty: what is appended to a node that is
\* taken up anew is not appended to an old line.
Contents ==
  \A i \in 1 .. Size :
    LET s == Slot(After(read, i))
    IN  IF i <= Count /\ ~(i = 1 /\ pc = "cleared") THEN node[s] # <<>>
        ELSE IF i = Count + 1 /\ writeUsing # write
        THEN node[s] # <<>> /\ Len(node[s]) < NodeLen
        ELSE node[s] = <<>>

\* What the shell was given still stands in the node until it is cleared.
Given == pc = "given" => shell = node[Slot(readUsing)]

\* The two unsynchronised sides never meet in a node: the inductive
\* invariant of the ring.
IInv == TypeOK /\ Hands /\ Contents /\ Given

\* The node that the shell executes is the shell's until it frees it: no
\* interrupt writes to it, however many bytes arrive meanwhile.
HeldIsStable ==
  [][ (pc \in {"got", "given"} /\ pc' = pc)
        => node'[Slot(readUsing)] = node[Slot(readUsing)] ]_vars

\* The finished lines that the shell has not been given.
Unread ==
  LET held == IF Busy THEN 1 ELSE 0
  IN  [i \in 1 .. Count - held |-> node[Slot(After(read, i + held))]]

Queue == INSTANCE LineQueue
           WITH MaxLine <- NodeLen, Room <- Size,
                typing <- IF write = writeUsing THEN <<>>
                          ELSE node[Slot(writeUsing)],
                lines <- Unread, shell <- shell, busy <- Busy

\* The ring implements the queue of lines: no line is lost, repeated,
\* merged with another or taken out of turn (cbWrite, cbWriteFinish,
\* cbRead and cbReadFinish against the interrupt at any point).
DeliversLines == Queue!Spec

\* A full ring, which drops what is typed, never stays full: the shell
\* gives every node back (cbReadFinish after each shell_input).
RoomAgain == []<>(~cbIsFull)
=============================================================================
