------------------------------- MODULE Ymodem -------------------------------
(***************************************************************************)
(* One YMODEM session over a serial line that damages packets and loses    *)
(* answers: the sender in the host tool (ymodem_send, wait_ack and         *)
(* wait_byte of flash_upg.c) and the receiver in the loader                *)
(* (Ymodem_Receive and Receive_Packet of ymodem.c).  What becomes of an    *)
(* accepted block is SerialUpdate's subject.                               *)
(*                                                                         *)
(* The two lines are queues.  A packet is one element: it is either read   *)
(* whole or damaged; a damaged packet leaves bytes on the line that are    *)
(* read one by one, and one of them may look like a control byte.          *)
(***************************************************************************)
EXTENDS Naturals, Sequences

CONSTANTS Blocks,      \* data blocks of the file
          SeqMod,      \* the sequence number is a byte: 256
          MaxTries,    \* how often the host sends a packet: 10
          MaxErrors,   \* MAX_ERRORS: 5
          MaxFaults,   \* bound: damaged packets, lost answers, refusals
          MaxStalls,   \* bound: seconds the host leaves an answer unread
          MaxQueue     \* bound: bytes and packets on a line

ASSUME BlocksAssumption == Blocks \in Nat \ {0}
ASSUME SeqModAssumption == SeqMod \in Nat \ {0, 1}
ASSUME TriesAssumption == MaxTries \in Nat \ {0} /\ MaxErrors \in Nat
ASSUME BoundsAssumption == MaxFaults \in Nat /\ MaxStalls \in Nat /\ MaxQueue \in Nat

VARIABLES host,      \* the sender
          board,     \* the receiver
          toBoard,   \* packets and junk on their way to the board
          toHost,    \* answers on their way back
          faults,    \* how many faults there were
          stalls     \* how many stalls

vars == <<host, board, toBoard, toHost, faults, stalls>>

-----------------------------------------------------------------------------
(* Packets                                                                 *)

Name == [kind |-> "name", blk |-> 0]
Data(n) == [kind |-> "data", blk |-> n]
Last == [kind |-> "last", blk |-> 0]        \* the empty file name
Eot == [kind |-> "eot", blk |-> 0]
Cancel == [kind |-> "cancel", blk |-> 0]    \* CA CA, or 'a' or 'A'
Junk == [kind |-> "junk", blk |-> 0]        \* Receive_Packet returns -1

Framed == {"name", "data", "last"}

SeqNo(packet) == packet.blk % SeqMod

\* What the rest of a damaged packet may be read as.
Remains == {<<>>, <<Junk>>, <<Junk, Junk>>, <<Eot>>, <<Cancel>>}

Fits(line) == Len(line) <= MaxQueue

-----------------------------------------------------------------------------
Init == /\ host = [at |-> "start", blk |-> 1, tries |-> 0]
        /\ board = [begun |-> FALSE, count |-> 0, size |-> 0, got |-> 0,
                    errors |-> 0, log |-> <<>>, result |-> "open"]
        /\ toBoard = <<>>
        /\ toHost = <<"C">>
        /\ faults = 0 /\ stalls = 0

-----------------------------------------------------------------------------
(* The sender                                                              *)

\* What is sent at each stage; wait_ack follows.
Sends(h) == CASE h.at = "name" -> <<Name>>
              [] h.at = "data" -> <<Data(h.blk)>>
              [] h.at = "eot" -> <<Eot>>
              [] h.at = "last" -> <<Last>>
              [] OTHER -> <<>>

Stages == {"name", "data", "eot", "last"}

\* After these answers the host waits for a 'C'.
WaitsForC == {"start", "named", "ended"}

\* The stage that follows an ACK.
Acked(h) ==
  CASE h.at = "name" -> [h EXCEPT !.at = "named"]
    [] h.at = "data" /\ h.blk < Blocks -> [h EXCEPT !.blk = @ + 1, !.tries = 0]
    [] h.at = "data" /\ h.blk = Blocks -> [h EXCEPT !.at = "eot", !.tries = 0]
    [] h.at = "eot" -> [h EXCEPT !.at = "ended"]
    [] h.at = "last" -> [h EXCEPT !.at = "done"]

\* Mutant: every answer that is no ACK ends the session.
Tried_Once(h) == [h EXCEPT !.at = "failed"]

\* Every other answer, CA among them, and silence cost a try.
Tried(h) == IF h.tries + 1 < MaxTries THEN [h EXCEPT !.tries = @ + 1]
            ELSE [h EXCEPT !.at = "failed"]

HostIs(h) == /\ host' = h
             /\ toBoard' = toBoard \o Sends(h)
             /\ Fits(toBoard')

\* wait_ack skips bytes that are no answer; the board sends none.
HostAck ==
  /\ host.at \in Stages
  /\ toHost # <<>>
  /\ HostIs(IF Head(toHost) = "ACK" THEN Acked(host) ELSE Tried(host))
  /\ toHost' = Tail(toHost)
  /\ UNCHANGED <<board, faults, stalls>>

\* The host waits longer than the board: it is first only when nothing is
\* under way.
HostAckTimeout ==
  /\ host.at \in Stages
  /\ toHost = <<>> /\ toBoard = <<>>
  /\ HostIs(Tried(host))
  /\ UNCHANGED <<board, toHost, faults, stalls>>

\* What follows the wait for the 'C': at the start it must have come, later
\* its absence does not matter.
Resumed(came) ==
  CASE host.at = "start" -> [host EXCEPT !.at = IF came THEN "name" ELSE "failed"]
    [] host.at = "named" -> [host EXCEPT !.at = "data", !.tries = 0]
    [] host.at = "ended" -> [host EXCEPT !.at = "last", !.tries = 0]

\* wait_byte: the host reads until a 'C' or a CA comes.
HostWaitByte ==
  /\ host.at \in WaitsForC
  /\ toHost # <<>>
  /\ IF Head(toHost) \in {"C", "CA"} THEN HostIs(Resumed(Head(toHost) = "C"))
     ELSE UNCHANGED <<host, toBoard>>
  /\ toHost' = Tail(toHost)
  /\ UNCHANGED <<board, faults, stalls>>

HostWaitTimeout ==
  /\ host.at \in WaitsForC
  /\ toHost = <<>> /\ toBoard = <<>>
  /\ HostIs(Resumed(FALSE))
  /\ UNCHANGED <<board, toHost, faults, stalls>>

\* Nobody reads what the board still sends.
HostIgnores ==
  /\ host.at \in {"done", "failed"}
  /\ toHost # <<>>
  /\ toHost' = Tail(toHost)
  /\ UNCHANGED <<host, board, toBoard, faults, stalls>>

HostStep ==
  HostAck \/ HostAckTimeout \/ HostWaitByte \/ HostWaitTimeout \/ HostIgnores

-----------------------------------------------------------------------------
(* The receiver                                                            *)

Answer(bytes) == toHost' = toHost \o bytes /\ Fits(toHost')

BoardIs(b, bytes) == board' = b /\ Answer(bytes)

Clean == [board EXCEPT !.errors = 0]

End(b, result) == [b EXCEPT !.result = result]

\* Mutant: a session that is ended by its sender is complete.
Complete_Any(b) == b.size > 0

\* size > 0 and bytes_written >= size
Complete(b) == b.size > 0 /\ b.got >= b.size

Listening == board.result = "open"

Packet == Head(toBoard)

Accepted(b) == [b EXCEPT !.count = @ + 1, !.begun = TRUE]

\* Mutant: bytes_written goes on from the file before.
TakeName_GoesOn(size) ==
  IF size = 0 THEN BoardIs(End(Clean, "failed"), <<"CA", "CA">>)
  ELSE BoardIs([Accepted(Clean) EXCEPT !.size = size], <<"ACK", "C">>)

\* The block with which a file begins: its name and size.  A data block may
\* be taken for one after an EOT; then the size is what its text amounts to.
\* Junk after the name leaves size as it was.
TakeName(size) ==
  IF size = 0 THEN BoardIs(End(Clean, "failed"), <<"CA", "CA">>)
  ELSE BoardIs([Accepted(Clean) EXCEPT !.size = size, !.got = 0], <<"ACK", "C">>)

TakeLast == BoardIs(End(Clean, IF Complete(board) THEN "ok" ELSE "failed"), <<"ACK">>)

\* A data block is written unless the file is complete.
TakeData ==
  BoardIs(IF board.got < board.size
          THEN [Accepted(Clean) EXCEPT !.got = @ + 1, !.log = Append(@, Packet)]
          ELSE Accepted(Clean),
          <<"ACK">>)

\* The block that is wanted, by its number.
InTurn == SeqNo(Packet) = board.count % SeqMod

\* A block out of turn, one that was already acknowledged among them.
Refuse ==
  /\ Packet.kind \in Framed /\ ~InTurn
  /\ BoardIs(Clean, <<"NAK">>)

Accept ==
  /\ Packet.kind \in Framed /\ InTurn
  /\ \/ board.count = 0 /\ Packet.kind = "name" /\ TakeName(Blocks)
     \/ board.count = 0 /\ Packet.kind = "last" /\ TakeLast
     \/ board.count = 0 /\ Packet.kind = "data"
          /\ \/ TakeLast
             \/ \E size \in 0 .. Blocks : TakeName(size)
     \/ board.count > 0 /\ TakeData

\* The count begins again; a name is expected.
EndOfFile ==
  /\ Packet.kind = "eot"
  /\ BoardIs([Clean EXCEPT !.count = 0], <<"ACK", "C">>)

Cancelled ==
  /\ Packet.kind = "cancel"
  /\ \/ BoardIs(End(Clean, "failed"), <<"ACK">>)
     \/ BoardIs(End(board, "failed"), <<"CA", "CA">>)

\* An error counts once a packet has been accepted.
Erred == IF board.begun THEN [board EXCEPT !.errors = @ + 1] ELSE board

\* Mutant: an error that is answered is forgotten.
Complain_Forgetful == BoardIs(board, <<"C">>)

Complain ==
  IF Erred.errors > MaxErrors THEN BoardIs(End(Erred, "failed"), <<"CA", "CA">>)
  ELSE BoardIs(Erred, <<"C">>)

BoardReceive ==
  /\ Listening /\ toBoard # <<>>
  /\ \/ Refuse
     \/ Accept
     \/ EndOfFile
     \/ Cancelled
     \/ Packet.kind = "junk" /\ Complain
  /\ toBoard' = Tail(toBoard)
  /\ UNCHANGED <<host, faults, stalls>>

\* A second without a byte: something was lost, the host is gone, or it has
\* not read an answer for as long.
BoardTimeout ==
  /\ Listening /\ toBoard = <<>>
  /\ \/ toHost = <<>> /\ UNCHANGED stalls
     \/ toHost # <<>> /\ stalls < MaxStalls /\ stalls' = stalls + 1
  /\ Complain
  /\ UNCHANGED <<host, toBoard, faults>>

\* After the session the command line reads what still comes.
BoardIgnores ==
  /\ ~Listening /\ toBoard # <<>>
  /\ toBoard' = Tail(toBoard)
  /\ UNCHANGED <<host, board, toHost, faults, stalls>>

BoardStep == BoardReceive \/ BoardTimeout \/ BoardIgnores

-----------------------------------------------------------------------------
(* The line, and what the board does with a block                          *)

Fault == faults < MaxFaults /\ faults' = faults + 1

\* Bytes of a packet are lost or wrong.
Damage ==
  /\ Fault
  /\ \E i \in 1 .. Len(toBoard), rest \in Remains :
       toBoard' = SubSeq(toBoard, 1, i - 1) \o rest \o SubSeq(toBoard, i + 1, Len(toBoard))
  /\ UNCHANGED <<host, board, toHost, stalls>>

LoseAnswer ==
  /\ Fault
  /\ \E i \in 1 .. Len(toHost) :
       toHost' = SubSeq(toHost, 1, i - 1) \o SubSeq(toHost, i + 1, Len(toHost))
  /\ UNCHANGED <<host, board, toBoard, stalls>>

\* A block that is in turn cannot be applied.
ApplyFails ==
  /\ Fault
  /\ Listening /\ toBoard # <<>> /\ board.count > 0
  /\ Packet.kind \in Framed /\ InTurn
  /\ BoardIs(End(Clean, "failed"), <<"CA", "CA">>)
  /\ toBoard' = Tail(toBoard)
  /\ UNCHANGED <<host, stalls>>

Next == HostStep \/ BoardStep \/ Damage \/ LoseAnswer \/ ApplyFails

\* Both programs run on, and their waits are limited.
Spec == Init /\ [][Next]_vars /\ WF_vars(HostStep) /\ WF_vars(BoardStep)

-----------------------------------------------------------------------------
TypeOK ==
  /\ host.at \in Stages \cup WaitsForC \cup {"done", "failed"}
  /\ host.blk \in 1 .. Blocks /\ host.tries \in 0 .. MaxTries
  /\ board.size \in 0 .. Blocks /\ board.got \in 0 .. board.size
  /\ board.errors \in 0 .. MaxErrors + 1
  /\ board.result \in {"open", "ok", "failed"}
  /\ faults \in 0 .. MaxFaults /\ stalls \in 0 .. MaxStalls

\* The packet with the empty name carries the number of a block of the file's
\* last place when the number of blocks is a multiple of SeqMod.
EmptyNameFits(n) == n = Blocks /\ Blocks % SeqMod = 0

\* A session that ends well has taken the whole file, every block once and
\* in order, whatever was damaged, lost or sent again.  It is the size that
\* was announced last that decides; see TakeName for a size nobody sent.  Only
\* for the last block the empty name may have been taken, and only in a file
\* where their numbers agree: the number is all the receiver compares.
SuccessIsFile ==
  board.result = "ok" /\ board.size = Blocks =>
    /\ Len(board.log) = Blocks
    /\ \A n \in 1 .. Blocks :
         board.log[n] = Data(n) \/ (EmptyNameFits(n) /\ board.log[n] = Last)

\* The host gives up or is done after a limited number of tries, and a board
\* that has taken a name does not wait for ever.
BothEnd == /\ <>(host.at \in {"done", "failed"})
           /\ board.begun ~> ~Listening

\* Without a fault both report success: neither the board's impatience nor
\* the packets that are sent twice because of it use up the tries.
CleanSucceeds == [](faults = 0) => <>(host.at = "done" /\ board.result = "ok")
=============================================================================
