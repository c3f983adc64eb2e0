---------------------------- MODULE YmodemProofs ----------------------------
(***************************************************************************)
(* A session that ends well has taken the file, for every length of the    *)
(* file, every sequence modulus from 2 and any number of faults.           *)
(*                                                                         *)
(* The argument orders the packets by their place in the transfer: what is *)
(* on the line never comes before what was there earlier (Ordered), so the *)
(* receiver sees places that only grow (Past), and a place it has written  *)
(* cannot be taken again (Written).  The numbers of the blocks written     *)
(* since the last name count from 1 (Numbered), and there are only so many *)
(* places: that leaves one way to have written the whole file.             *)
(***************************************************************************)
EXTENDS Ymodem, SequenceTheorems, TLAPS

-----------------------------------------------------------------------------
(* The invariant                                                           *)

Packets == {Name, Last, Eot, Cancel, Junk} \cup {Data(n) : n \in 1 .. Blocks}

\* The place of a framed packet in the transfer: the name, the blocks, the
\* empty name.
Place(p) == IF p.kind = "last" THEN Blocks + 1 ELSE p.blk

\* No framed packet that the sender still sends has an earlier place.
HostPlace ==
  IF host.at \in {"start", "name", "named"} THEN 0
  ELSE IF host.at \in {"data", "eot", "ended"} THEN host.blk
  ELSE Blocks + 1

HostShape ==
  /\ host \in [at : Stages \cup WaitsForC \cup {"done", "failed"},
               blk : 1 .. Blocks, tries : 0 .. MaxTries]
  /\ host.at \in {"eot", "ended", "last"} => host.blk = Blocks

BoardShape ==
  /\ board \in [begun : BOOLEAN, count : Nat, size : 0 .. Blocks, got : Nat,
                errors : 0 .. MaxErrors + 1, log : Seq(Packets),
                result : {"open", "ok", "failed"}]
  /\ board.got <= board.size
  /\ board.errors > MaxErrors => board.result # "open"
  /\ board.result = "ok" => Complete(board)

Shapes ==
  /\ HostShape
  /\ BoardShape
  /\ toBoard \in Seq(Packets)
  /\ faults \in 0 .. MaxFaults /\ stalls \in 0 .. MaxStalls

Framing(i) == toBoard[i].kind \in Framed

\* What is still to come has place p or a later one.
Past(p) ==
  /\ HostPlace >= p
  /\ \A i \in 1 .. Len(toBoard) : Framing(i) => Place(toBoard[i]) >= p

\* On the line the places do not decrease, and the sender's is the latest.
Ordered ==
  \A i \in 1 .. Len(toBoard) : Framing(i) =>
    /\ Place(toBoard[i]) <= HostPlace
    /\ \A j \in i .. Len(toBoard) : Framing(j) => Place(toBoard[i]) <= Place(toBoard[j])

\* The places in the log grow.
Growing ==
  \A i \in 1 .. Len(board.log) :
    /\ board.log[i].kind \in {"data", "last"}
    /\ Place(board.log[i]) >= i
    /\ \A j \in i .. Len(board.log) : Place(board.log[i]) + (j - i) <= Place(board.log[j])

LastWritten(p) == board.log # <<>> /\ p = board.log[Len(board.log)]

\* A block that was written is not taken again: it is past, or its number is
\* not the one wanted.
Written ==
  \A p \in Packets : LastWritten(p) =>
    /\ Past(Place(p))
    /\ \/ board.count = 0
       \/ SeqNo(p) # board.count % SeqMod
       \/ Past(Place(p) + 1)

\* The second packet of a file was a block: the name is past.
NamePast == board.count > 1 => Past(1)

\* While blocks are written, the number wanted is that of the next one.
Counted ==
  board.count > 0 /\ board.got < board.size => board.count = board.got + 1

\* The blocks written since the name have the numbers from 1.
Numbered ==
  /\ board.got <= Len(board.log)
  /\ \A i \in 1 .. board.got :
       SeqNo(board.log[Len(board.log) - board.got + i]) = i % SeqMod

LogInv == Growing /\ Written /\ NamePast /\ Counted /\ Numbered

IInv == Shapes /\ Ordered /\ LogInv

-----------------------------------------------------------------------------
(* Numbers                                                                 *)

\* A multiple and a remainder below the modulus determine each other: the
\* wrap of the sequence number.
LEMMA RemainderUnique ==
  ASSUME NEW a \in Int, NEW b \in Int,
         NEW r \in 0 .. SeqMod - 1, NEW q \in 0 .. SeqMod - 1,
         SeqMod * a + r = SeqMod * b + q
  PROVE  r = q
  <1> SeqMod \in Nat \ {0}
    BY SeqModAssumption
  <1>1. CASE a = b
    BY <1>1
  <1>2. CASE a < b
    <2>1. SeqMod * a + SeqMod <= SeqMod * b
      BY <1>2
    <2> QED BY <2>1
  <1>3. CASE a > b
    <2>1. SeqMod * b + SeqMod <= SeqMod * a
      BY <1>3
    <2> QED BY <2>1
  <1> QED BY <1>1, <1>2, <1>3

\* Two packets that follow each other have different numbers.
LEMMA NextNumber ==
  ASSUME NEW c \in Nat
  PROVE  /\ c % SeqMod \in 0 .. SeqMod - 1
         /\ c % SeqMod # (c + 1) % SeqMod
         /\ c < SeqMod => c % SeqMod = c
  <1> SeqMod \in Nat \ {0, 1}
    BY SeqModAssumption
  <1> DEFINE a == c \div SeqMod
             b == (c + 1) \div SeqMod
             r == c % SeqMod
             q == (c + 1) % SeqMod
  <1>1. /\ c = SeqMod * a + r /\ a \in Int /\ r \in 0 .. SeqMod - 1
        /\ c + 1 = SeqMod * b + q /\ b \in Int /\ q \in 0 .. SeqMod - 1
    OBVIOUS
  <1>2. SUFFICES ASSUME r = q PROVE FALSE
    OBVIOUS
  <1> HIDE DEF a, b, r, q
  <1>3. CASE r + 1 < SeqMod
    <2>1. SeqMod * a + (r + 1) = SeqMod * b + q
      BY <1>1
    <2>2. r + 1 = q
      BY <1>1, <1>3, <2>1, RemainderUnique
    <2> QED BY <1>1, <1>2, <2>2
  <1>4. CASE r + 1 = SeqMod
    <2>1. SeqMod * (a + 1) = SeqMod * a + SeqMod
      BY <1>1
    <2>2. SeqMod * (a + 1) + 0 = SeqMod * b + q
      BY <1>1, <1>4, <2>1
    <2>3. 0 = q
      BY <1>1, <2>2, RemainderUnique
    <2> QED BY <1>2, <1>4, <2>3
  <1> QED BY <1>1, <1>3, <1>4

-----------------------------------------------------------------------------
(* Packets and places                                                      *)

\* What the packets are, by their kind.
LEMMA PacketFacts ==
  ASSUME NEW p \in Packets
  PROVE  /\ p.kind \in {"name", "data", "last", "eot", "cancel", "junk"}
         /\ p.blk \in 0 .. Blocks
         /\ p.kind = "data" => p.blk >= 1 /\ p = Data(p.blk)
         /\ p.kind = "name" => p = Name
         /\ p.kind = "last" => p = Last
         /\ Place(p) \in 0 .. Blocks + 1
  BY BlocksAssumption DEF Packets, Name, Last, Eot, Cancel, Junk, Data, Place

\* A block or the empty name of the same place is the same packet.
LEMMA PlaceDecides ==
  ASSUME NEW p \in Packets, NEW q \in Packets,
         p.kind \in {"data", "last"}, q.kind \in Framed, Place(p) = Place(q)
  PROVE  p = q
  <1>1. p.kind = "data" => Place(p) = p.blk
    BY DEF Place
  <1>2. p.kind = "last" => Place(p) = Blocks + 1
    BY DEF Place
  <1>3. q.kind # "last" => Place(q) = q.blk
    BY DEF Place
  <1>4. q.kind = "name" => q.blk = 0
    BY PacketFacts DEF Name
  <1>5. q.kind = "last" => Place(q) = Blocks + 1
    BY DEF Place
  <1> QED BY <1>1, <1>2, <1>3, <1>4, <1>5, PacketFacts, BlocksAssumption DEF Framed

LEMMA HostPlaceRange ==
  ASSUME HostShape
  PROVE  HostPlace \in 0 .. Blocks + 1
  BY BlocksAssumption DEF HostShape, HostPlace

-----------------------------------------------------------------------------
(* The line to the board                                                   *)

\* What a step of the sender does to the line: the place of the sender does
\* not decrease, and what it appends has that place.
Sending ==
  /\ HostPlace' >= HostPlace
  /\ \/ toBoard' = toBoard
     \/ \E p \in Packets : /\ toBoard' = Append(toBoard, p)
                           /\ p.kind \in Framed => Place(p) = HostPlace'

\* What the invariant says of the line after a step.
LineKept ==
  /\ toBoard' \in Seq(Packets)
  /\ Ordered'
  /\ \A p \in Nat : Past(p) => Past(p)'

\* Sending keeps the order of the line.
LEMMA SendingKeeps ==
  ASSUME Shapes, HostShape', Ordered, Sending
  PROVE  LineKept
  <1> HostPlace \in 0 .. Blocks + 1 /\ HostPlace' \in 0 .. Blocks + 1 /\ HostPlace' >= HostPlace
    BY HostPlaceRange, BlocksAssumption DEF Shapes, Sending, HostShape, HostPlace
  <1> toBoard \in Seq(Packets)
    BY DEF Shapes
  <1>0. \A i \in 1 .. Len(toBoard) : Place(toBoard[i]) \in 0 .. Blocks + 1
    BY PacketFacts
  <1>1. CASE toBoard' = toBoard
    BY <1>0, <1>1, BlocksAssumption DEF LineKept, Ordered, Past, Framing
  <1>2. ASSUME NEW p \in Packets, toBoard' = Append(toBoard, p),
               p.kind \in Framed => Place(p) = HostPlace'
        PROVE  LineKept
    <2> toBoard' \in Seq(Packets) /\ Len(toBoard') = Len(toBoard) + 1
      BY <1>2
    <2>1. \A i \in 1 .. Len(toBoard) : toBoard'[i] = toBoard[i]
      BY <1>2
    <2>2. toBoard'[Len(toBoard) + 1] = p
      BY <1>2
    <2>3. Ordered'
      BY <1>0, <1>2, <2>1, <2>2, BlocksAssumption DEF Ordered, Framing
    <2>4. ASSUME NEW q \in Nat, Past(q)
          PROVE  Past(q)'
      BY <1>2, <2>1, <2>2, <2>4, BlocksAssumption DEF Past, Framing
    <2> QED BY <2>3, <2>4 DEF LineKept
  <1> QED BY <1>1, <1>2 DEF Sending

\* Taking the first packet keeps the order, and what remains is not earlier
\* than it.
LEMMA TakingKeeps ==
  ASSUME Shapes, Ordered, toBoard # <<>>, toBoard' = Tail(toBoard), host' = host
  PROVE  /\ LineKept
         /\ Packet \in Packets
         /\ Packet.kind \in Framed =>
              \A p \in Nat : /\ Past(p) => Place(Packet) >= p
                             /\ Place(Packet) >= p => Past(p)'
  <1> toBoard \in Seq(Packets) /\ HostPlace' = HostPlace
    BY DEF Shapes, HostPlace
  <1>1. /\ toBoard' \in Seq(Packets) /\ Len(toBoard') = Len(toBoard) - 1
        /\ \A i \in 1 .. Len(toBoard') : toBoard'[i] = toBoard[i + 1]
    BY HeadTailProperties
  <1>2. Len(toBoard) \in Nat \ {0} /\ Packet = toBoard[1] /\ Packet \in Packets
    BY EmptySeq DEF Packet
  <1>3. \A i \in 1 .. Len(toBoard') : i + 1 \in 1 .. Len(toBoard) /\ (Framing(i)' <=> Framing(i + 1))
    BY <1>1, <1>2 DEF Framing
  <1>4. Ordered'
    <2> SUFFICES ASSUME NEW i \in 1 .. Len(toBoard'), Framing(i)',
                        NEW j \in i .. Len(toBoard'), Framing(j)'
                 PROVE  /\ Place(toBoard'[i]) <= HostPlace'
                        /\ Place(toBoard'[i]) <= Place(toBoard'[j])
      BY <1>1, <1>2 DEF Ordered
    <2> QED BY <1>1, <1>2, <1>3 DEF Ordered
  <1>5. ASSUME NEW p \in Nat, Past(p)
        PROVE  Past(p)' /\ (Packet.kind \in Framed => Place(Packet) >= p)
    BY <1>1, <1>2, <1>3, <1>5 DEF Past, Framing
  <1>6. ASSUME Packet.kind \in Framed, NEW p \in Nat, Place(Packet) >= p
        PROVE  Past(p)'
    <2>1. Framing(1)
      BY <1>2, <1>6 DEF Framing
    <2>2. /\ Place(toBoard[1]) <= HostPlace
          /\ \A j \in 1 .. Len(toBoard) : Framing(j) => Place(toBoard[1]) <= Place(toBoard[j])
      BY <1>2, <2>1 DEF Ordered
    <2>3. HostPlace \in Int /\ \A j \in 1 .. Len(toBoard) : Place(toBoard[j]) \in Int
      BY PacketFacts, HostPlaceRange, BlocksAssumption DEF Shapes
    <2> QED BY <1>1, <1>2, <1>3, <1>6, <2>2, <2>3 DEF Past, Framing
  <1> QED BY <1>1, <1>2, <1>4, <1>5, <1>6 DEF LineKept

\* What is left of a damaged packet is not framed, and the packets around it
\* keep their order.
LEMMA DamageKeeps ==
  ASSUME Shapes, Ordered, Damage
  PROVE  LineKept
  <1> toBoard \in Seq(Packets) /\ HostPlace' = HostPlace
    BY DEF Damage, Shapes, HostPlace
  <1>1. PICK i \in 1 .. Len(toBoard), rest \in Remains :
          toBoard' = SubSeq(toBoard, 1, i - 1) \o rest \o SubSeq(toBoard, i + 1, Len(toBoard))
    BY DEF Damage
  <1> DEFINE left == SubSeq(toBoard, 1, i - 1)
             right == SubSeq(toBoard, i + 1, Len(toBoard))
             r == Len(rest)
             \* where an element that is framed was before
             From(j) == IF j < i THEN j ELSE j + 1 - r
  <1>2. rest \in Seq(Packets) /\ \A j \in 1 .. r : rest[j].kind \notin Framed
    <2>1. \A p \in {Junk, Eot, Cancel} : p \in Packets /\ p.kind \notin Framed
      BY DEF Packets, Junk, Eot, Cancel, Framed
    <2>2. CASE rest = <<>>
      BY <2>2
    <2>3. ASSUME NEW p \in {Junk, Eot, Cancel}, rest = <<p>>
          PROVE  rest \in Seq(Packets) /\ \A j \in 1 .. r : rest[j].kind \notin Framed
      BY <2>1, <2>3
    <2>4. CASE rest = <<Junk, Junk>>
      BY <2>1, <2>4
    <2> QED BY <2>2, <2>3, <2>4 DEF Remains
  <1>3. /\ left \in Seq(Packets) /\ Len(left) = i - 1
        /\ \A j \in 1 .. i - 1 : left[j] = toBoard[j]
    BY SubSeqProperties
  <1>4. /\ right \in Seq(Packets) /\ Len(right) = Len(toBoard) - i
        /\ \A j \in 1 .. Len(toBoard) - i : right[j] = toBoard[i + j]
    BY SubSeqProperties
  <1>5. r \in Nat /\ toBoard' = left \o rest \o right
    BY <1>1, <1>2
  <1> HIDE DEF left, right, r
  <1>6. /\ toBoard' \in Seq(Packets) /\ Len(toBoard') = Len(toBoard) - 1 + r
        /\ \A j \in 1 .. Len(toBoard') :
             toBoard'[j] = IF j < i THEN left[j]
                           ELSE IF j < i + r THEN rest[j - i + 1]
                           ELSE right[j - (i - 1) - r]
    <2>1. r = Len(rest)
      BY DEF r
    <2>2. /\ left \o rest \in Seq(Packets) /\ Len(left \o rest) = i - 1 + r
          /\ \A j \in 1 .. i - 1 + r :
               (left \o rest)[j] = IF j < i THEN left[j] ELSE rest[j - i + 1]
      <3>1. /\ left \o rest \in Seq(Packets)
            /\ Len(left \o rest) = Len(left) + Len(rest)
            /\ \A j \in 1 .. Len(left) + Len(rest) :
                 (left \o rest)[j] = IF j <= Len(left) THEN left[j] ELSE rest[j - Len(left)]
        BY <1>2, <1>3, ConcatProperties
      <3> QED BY ONLY <1>3, <1>5, <2>1, <3>1, i \in 1 .. Len(toBoard), Len(toBoard) \in Nat
    <2> DEFINE front == left \o rest
    <2>3. toBoard' = front \o right /\ front \in Seq(Packets) /\ Len(front) = i - 1 + r
      BY <1>5, <2>2
    <2> HIDE DEF front
    <2>4. /\ front \o right \in Seq(Packets)
          /\ Len(front \o right) = Len(front) + Len(right)
          /\ \A j \in 1 .. Len(front) + Len(right) :
               (front \o right)[j] =
                  IF j <= Len(front) THEN front[j] ELSE right[j - Len(front)]
      BY <1>4, <2>3, ConcatProperties
    <2>5. /\ toBoard' \in Seq(Packets)
          /\ Len(toBoard') = i - 1 + r + (Len(toBoard) - i)
          /\ \A j \in 1 .. Len(toBoard') :
               toBoard'[j] = IF j <= i - 1 + r THEN front[j] ELSE right[j - (i - 1 + r)]
      BY ONLY <1>4, <2>3, <2>4
    <2>6. \A j \in 1 .. i - 1 + r : front[j] = IF j < i THEN left[j] ELSE rest[j - i + 1]
      BY <2>2 DEF front
    <2>7. i \in Nat /\ Len(toBoard) \in Nat /\ r \in Nat
      BY <1>5
    <2>8. Len(toBoard') = Len(toBoard) - 1 + r
      BY ONLY <2>5, <2>7
    <2>9. ASSUME NEW j \in 1 .. Len(toBoard')
          PROVE  toBoard'[j] = IF j < i THEN left[j]
                               ELSE IF j < i + r THEN rest[j - i + 1]
                               ELSE right[j - (i - 1) - r]
      <3>1. j \in Nat /\ j >= 1
        BY ONLY <2>7, <2>8, <2>9
      <3>2. CASE j < i + r
        <4>1. j \in 1 .. i - 1 + r
          BY ONLY <2>7, <3>1, <3>2
        <4>2. toBoard'[j] = front[j]
          BY <2>5, <2>9, <4>1
        <4> QED BY <2>6, <3>2, <4>1, <4>2
      <3>3. CASE j >= i + r
        <4>1. ~(j <= i - 1 + r) /\ ~(j < i) /\ ~(j < i + r)
          BY ONLY <2>7, <3>1, <3>3
        <4>2. j - (i - 1 + r) = j - (i - 1) - r
          BY ONLY <2>7, <3>1
        <4>3. toBoard'[j] = right[j - (i - 1 + r)]
          BY <2>5, <2>9, <4>1
        <4> QED BY <4>1, <4>2, <4>3
      <3> QED BY ONLY <2>7, <3>1, <3>2, <3>3
    <2> QED BY <2>5, <2>8, <2>9
  <1>7. ASSUME NEW j \in 1 .. Len(toBoard'), Framing(j)'
        PROVE  /\ From(j) \in 1 .. Len(toBoard)
               /\ toBoard'[j] = toBoard[From(j)]
               /\ Framing(From(j))
               /\ j < i \/ j >= i + r
    <2>1. CASE j < i
      BY <1>3, <1>6, <1>7, <2>1 DEF Framing
    <2>2. CASE j >= i /\ j < i + r
      <3>1. j - i + 1 \in 1 .. r /\ toBoard'[j] = rest[j - i + 1]
        BY <1>5, <1>6, <2>2
      <3>2. rest[j - i + 1].kind \notin Framed
        BY <1>2, <3>1 DEF r
      <3> QED BY <1>7, <3>1, <3>2 DEF Framing
    <2>3. CASE j >= i + r
      <3>1. j - (i - 1) - r \in 1 .. Len(toBoard) - i /\ toBoard'[j] = right[j - (i - 1) - r]
        BY <1>5, <1>6, <2>3
      <3>2. right[j - (i - 1) - r] = toBoard[i + (j - (i - 1) - r)]
        BY <1>4, <3>1
      <3>3. i + (j - (i - 1) - r) = From(j)
        BY <1>5, <2>3
      <3> HIDE DEF From
      <3>4. From(j) \in 1 .. Len(toBoard)
        <4>1. i \in 1 .. Len(toBoard) /\ Len(toBoard) \in Nat
          OBVIOUS
        <4>2. \A k \in 1 .. Len(toBoard) - i : i + k \in 1 .. Len(toBoard)
          BY ONLY <4>1
        <4> QED BY <3>1, <3>3, <4>2
      <3>5. toBoard'[j] = toBoard[From(j)]
        BY <3>1, <3>2, <3>3
      <3> QED BY <1>7, <2>3, <3>4, <3>5 DEF Framing
    <2> QED BY <1>5, <2>1, <2>2, <2>3
  <1>8. Ordered'
    <2> SUFFICES ASSUME NEW j \in 1 .. Len(toBoard'), Framing(j)',
                        NEW k \in j .. Len(toBoard'), Framing(k)'
                 PROVE  /\ Place(toBoard'[j]) <= HostPlace'
                        /\ Place(toBoard'[j]) <= Place(toBoard'[k])
      BY <1>6 DEF Ordered
    <2>1. k \in 1 .. Len(toBoard')
      BY <1>6
    <2>2. From(j) <= From(k)
      <3>1. j < i \/ j >= i + r
        BY <1>7
      <3>2. j <= k /\ j \in Nat /\ k \in Nat /\ r \in Nat /\ i \in Nat
        BY <1>5, <1>6
      <3>3. k < i \/ k >= i + r
        BY <1>7, <2>1
      <3> QED BY ONLY <3>1, <3>2, <3>3
    <2> HIDE DEF From
    <2>3. From(k) \in From(j) .. Len(toBoard)
      BY <1>7, <2>1, <2>2
    <2> QED BY <1>7, <2>1, <2>3 DEF Ordered
  <1>9. ASSUME NEW p \in Nat, Past(p)
        PROVE  Past(p)'
    <2> HIDE DEF From
    <2> QED BY <1>7, <1>9 DEF Past
  <1> QED BY <1>6, <1>8, <1>9 DEF LineKept

-----------------------------------------------------------------------------
(* The sender                                                              *)

\* What follows an answer or a silence has a shape and no earlier place.
LEMMA Answered ==
  ASSUME HostShape, host.at \in Stages,
         host' \in {Acked(host), Tried(host)}
  PROVE  HostShape' /\ HostPlace' >= HostPlace
  <1> host.blk \in 1 .. Blocks /\ host.tries \in 0 .. MaxTries
    BY DEF HostShape
  <1> Blocks \in Nat \ {0} /\ MaxTries \in Nat \ {0}
    BY BlocksAssumption, TriesAssumption
  <1>1. CASE host' = Tried(host)
    <2>1. CASE host.tries + 1 < MaxTries
      BY <1>1, <2>1 DEF HostShape, HostPlace, Tried
    <2>2. CASE ~(host.tries + 1 < MaxTries)
      BY <1>1, <2>2 DEF HostShape, HostPlace, Tried
    <2> QED BY <2>1, <2>2
  <1>2. CASE host' = Acked(host)
    <2>1. CASE host.at = "name"
      BY <1>2, <2>1 DEF HostShape, HostPlace, Acked, WaitsForC
    <2>2. CASE host.at = "data" /\ host.blk < Blocks
      <3>1. host' = [host EXCEPT !.blk = @ + 1, !.tries = 0]
        BY <1>2, <2>2 DEF Acked
      <3>2. host' = [at |-> "data", blk |-> host.blk + 1, tries |-> 0]
        BY <2>2, <3>1 DEF HostShape
      <3> QED BY <2>2, <3>2 DEF HostShape, HostPlace
    <2>3. CASE host.at = "data" /\ host.blk = Blocks
      <3>1. host' = [host EXCEPT !.at = "eot", !.tries = 0]
        BY <1>2, <2>3 DEF Acked
      <3>2. host' = [at |-> "eot", blk |-> host.blk, tries |-> 0]
        BY <2>3, <3>1 DEF HostShape
      <3> QED BY <2>3, <3>2 DEF HostShape, HostPlace, Stages
    <2>4. CASE host.at = "eot"
      BY <1>2, <2>4 DEF HostShape, HostPlace, Acked, WaitsForC
    <2>5. CASE host.at = "last"
      BY <1>2, <2>5 DEF HostShape, HostPlace, Acked
    <2> QED BY <2>1, <2>2, <2>3, <2>4, <2>5 DEF Stages
  <1> QED BY <1>1, <1>2

\* So has what follows the wait for a 'C'.
LEMMA WaitedFor ==
  ASSUME HostShape, host.at \in WaitsForC, NEW came \in BOOLEAN, host' = Resumed(came)
  PROVE  HostShape' /\ HostPlace' >= HostPlace
  <1> host.blk \in 1 .. Blocks /\ Blocks \in Nat \ {0} /\ MaxTries \in Nat \ {0}
    BY BlocksAssumption, TriesAssumption DEF HostShape
  <1>1. CASE host.at = "start"
    <2>1. host' = [host EXCEPT !.at = IF came THEN "name" ELSE "failed"]
      BY <1>1 DEF Resumed
    <2>2. CASE came
      BY <1>1, <2>1, <2>2 DEF HostShape, HostPlace, Stages
    <2>3. CASE ~came
      BY <1>1, <2>1, <2>3 DEF HostShape, HostPlace
    <2> QED BY <2>2, <2>3
  <1>2. CASE host.at = "named"
    <2>1. host' = [host EXCEPT !.at = "data", !.tries = 0]
      BY <1>2 DEF Resumed
    <2>2. host' = [at |-> "data", blk |-> host.blk, tries |-> 0]
      BY <1>2, <2>1 DEF HostShape
    <2> QED BY <1>2, <2>2 DEF HostShape, HostPlace, Stages
  <1>3. CASE host.at = "ended"
    <2>1. host' = [host EXCEPT !.at = "last", !.tries = 0]
      BY <1>3 DEF Resumed
    <2>2. host' = [at |-> "last", blk |-> host.blk, tries |-> 0]
      BY <1>3, <2>1 DEF HostShape
    <2> QED BY <1>3, <2>2 DEF HostShape, HostPlace, Stages
  <1> QED BY <1>1, <1>2, <1>3 DEF WaitsForC

\* What is sent at a stage has the sender's place.
LEMMA SentAtPlace ==
  ASSUME HostShape, toBoard \in Seq(Packets), HostShape', HostPlace' >= HostPlace,
         toBoard' = toBoard \o Sends(host')
  PROVE  Sending
  <1> host'.blk \in 1 .. Blocks /\ Blocks \in Nat \ {0}
    BY BlocksAssumption DEF HostShape
  <1>1. CASE host'.at = "name"
    <2>1. toBoard' = Append(toBoard, Name) /\ Name \in Packets
      BY <1>1 DEF Sends, Packets, Name
    <2>2. Place(Name) = 0 /\ HostPlace' = 0
      BY <1>1 DEF Place, Name, HostPlace
    <2> QED BY <2>1, <2>2 DEF Sending
  <1>2. CASE host'.at = "data"
    <2>1. toBoard' = Append(toBoard, Data(host'.blk)) /\ Data(host'.blk) \in Packets
      BY <1>2 DEF Sends, Packets, Data
    <2>2. Place(Data(host'.blk)) = host'.blk /\ HostPlace' = host'.blk
      BY <1>2 DEF Place, Data, HostPlace
    <2> QED BY <2>1, <2>2 DEF Sending
  <1>3. CASE host'.at = "eot"
    <2>1. toBoard' = Append(toBoard, Eot) /\ Eot \in Packets /\ Eot.kind \notin Framed
      BY <1>3 DEF Sends, Packets, Eot, Framed
    <2> QED BY <2>1 DEF Sending
  <1>4. CASE host'.at = "last"
    <2>1. toBoard' = Append(toBoard, Last) /\ Last \in Packets
      BY <1>4 DEF Sends, Packets, Last
    <2>2. Place(Last) = Blocks + 1 /\ HostPlace' = Blocks + 1
      BY <1>4 DEF Place, Last, HostPlace
    <2> QED BY <2>1, <2>2 DEF Sending
  <1>5. CASE host'.at \notin Stages
    <2>1. Sends(host') = <<>>
      BY <1>5 DEF Sends, Stages
    <2>2. toBoard' = toBoard
      BY <2>1
    <2> QED BY <2>2 DEF Sending
  <1> QED BY <1>1, <1>2, <1>3, <1>4, <1>5 DEF Stages

\* A step of the sender changes nothing of the receiver and keeps the line.
LEMMA HostStepKeeps ==
  ASSUME Shapes, Ordered, HostStep
  PROVE  HostShape' /\ LineKept /\ UNCHANGED <<board, faults, stalls>>
  <1> HostShape /\ toBoard \in Seq(Packets)
    BY DEF Shapes
  <1>1. ASSUME NEW h, HostIs(h), HostShape', HostPlace' >= HostPlace
        PROVE  LineKept
    BY <1>1, SentAtPlace, SendingKeeps DEF HostIs
  <1>2. CASE HostAck
    <2>1. HostIs(IF Head(toHost) = "ACK" THEN Acked(host) ELSE Tried(host))
      BY <1>2 DEF HostAck
    <2>2. host' \in {Acked(host), Tried(host)}
      BY <2>1 DEF HostIs
    <2> QED BY <1>1, <1>2, <2>1, <2>2, Answered DEF HostAck
  <1>3. CASE HostAckTimeout
    BY <1>1, <1>3, Answered DEF HostAckTimeout, HostIs
  <1>4. CASE HostWaitByte /\ Head(toHost) \in {"C", "CA"}
    <2>1. HostIs(Resumed(Head(toHost) = "C"))
      BY <1>4 DEF HostWaitByte
    <2>2. host' = Resumed(Head(toHost) = "C") /\ (Head(toHost) = "C") \in BOOLEAN
      BY <2>1 DEF HostIs
    <2> QED BY <1>1, <1>4, <2>1, <2>2, WaitedFor DEF HostWaitByte
  <1>5. CASE HostWaitTimeout
    BY <1>1, <1>5, WaitedFor DEF HostWaitTimeout, HostIs
  <1>6. CASE UNCHANGED <<host, toBoard>>
    <2>1. HostShape' /\ HostPlace' = HostPlace
      BY <1>6 DEF HostShape, HostPlace
    <2>2. HostPlace \in Int
      BY HostPlaceRange, BlocksAssumption
    <2>3. LineKept
      BY <1>6, <2>1, <2>2, SendingKeeps DEF Sending
    <2> QED BY <2>1, <2>3
              DEF HostStep, HostAck, HostAckTimeout, HostWaitByte, HostWaitTimeout, HostIgnores
  <1> QED BY <1>2, <1>3, <1>4, <1>5, <1>6 DEF HostStep, HostWaitByte, HostIgnores

-----------------------------------------------------------------------------
(* The receiver                                                            *)

SameLog == /\ board'.log = board.log /\ board'.size = board.size
           /\ board'.got = board.got

\* What a step leaves of the line's invariant; the line need not have changed.
LineSame == \A p \in Nat : Past(p) => Past(p)'

\* An answer that writes nothing and counts nothing, and the end of a file,
\* keep what is known of the log.
LEMMA LogKept ==
  ASSUME BoardShape, LogInv, LineSame, SameLog, board'.count \in {board.count, 0}
  PROVE  LogInv'
  <1> board.log \in Seq(Packets) /\ board.count \in Nat /\ board.got \in Nat
    BY DEF BoardShape
  <1>1. Growing'
    BY DEF LogInv, Growing, SameLog
  <1>2. Written'
    <2> SUFFICES ASSUME NEW p \in Packets, LastWritten(p)'
                 PROVE  /\ Past(Place(p))'
                        /\ board'.count = 0 \/ SeqNo(p) # board'.count % SeqMod \/ Past(Place(p) + 1)'
      BY DEF Written
    <2>1. LastWritten(p)
      BY DEF LastWritten, SameLog
    <2>2. Place(p) \in Nat /\ Place(p) + 1 \in Nat
      BY PacketFacts, BlocksAssumption
    <2> QED BY <2>1, <2>2 DEF LogInv, Written, LineSame
  <1>3. NamePast'
    BY DEF LogInv, NamePast, LineSame
  <1>4. Counted'
    BY DEF LogInv, Counted, SameLog
  <1>5. Numbered'
    BY DEF LogInv, Numbered, SameLog
  <1> QED BY <1>1, <1>2, <1>3, <1>4, <1>5 DEF LogInv

\* A packet in turn comes after the block that was written last.
LEMMA InTurnIsLater ==
  ASSUME BoardShape, LogInv, Packet \in Packets, Packet.kind \in Framed, InTurn,
         \A p \in Nat : Past(p) => Place(Packet) >= p,
         NEW p \in Packets, LastWritten(p)
  PROVE  /\ Place(Packet) >= Place(p)
         /\ board.count > 0 => Place(Packet) > Place(p)
  <1>1. board.count \in Nat /\ Place(p) \in Nat /\ Place(p) + 1 \in Nat /\ Place(Packet) \in Nat
    BY PacketFacts, BlocksAssumption DEF BoardShape
  <1>2. Past(Place(p)) /\ (board.count = 0 \/ SeqNo(p) # board.count % SeqMod \/ Past(Place(p) + 1))
    BY DEF LogInv, Written
  <1>3. p.kind \in {"data", "last"}
    BY EmptySeq DEF LogInv, Growing, LastWritten, BoardShape
  <1>4. Place(Packet) >= Place(p)
    BY <1>1, <1>2
  <1>5. CASE Place(Packet) = Place(p) /\ board.count > 0
    <2>1. Packet = p
      BY <1>3, <1>5, PlaceDecides
    <2> QED BY <1>1, <1>2, <2>1 DEF InTurn
  <1> QED BY <1>1, <1>4, <1>5

\* With the name of a file the count begins; nothing is written.
LEMMA NameTaken ==
  ASSUME BoardShape, LogInv, LineSame,
         Packet \in Packets, Packet.kind \in Framed, InTurn, board.count = 0,
         \A p \in Nat : /\ Past(p) => Place(Packet) >= p
                        /\ Place(Packet) >= p => Past(p)',
         board'.count = 1, board'.got = 0, board'.log = board.log
  PROVE  LogInv'
  <1> board.log \in Seq(Packets)
    BY DEF BoardShape
  <1> 0 % SeqMod = 0 /\ 1 % SeqMod = 1
    BY NextNumber, SeqModAssumption
  <1>1. Growing'
    BY DEF LogInv, Growing
  <1>2. Written'
    <2> SUFFICES ASSUME NEW p \in Packets, LastWritten(p)'
                 PROVE  Past(Place(p))' /\ (SeqNo(p) # 1 % SeqMod \/ Past(Place(p) + 1)')
      BY DEF Written
    <2>1. LastWritten(p)
      BY DEF LastWritten
    <2>2. Place(p) \in Nat /\ Place(p) + 1 \in Nat /\ Place(Packet) \in Nat
      BY PacketFacts, BlocksAssumption
    <2>3. Place(Packet) >= Place(p)
      BY <2>1, InTurnIsLater
    <2>4. Past(Place(p))'
      BY <2>2, <2>3
    <2>5. CASE Place(Packet) > Place(p)
      BY <2>2, <2>4, <2>5
    <2>6. CASE Place(Packet) = Place(p)
      <3>1. p.kind \in {"data", "last"}
        BY <2>1, EmptySeq DEF LogInv, Growing, LastWritten
      <3>2. Packet = p
        BY <2>6, <3>1, PlaceDecides
      <3> QED BY <2>4, <3>2 DEF InTurn
    <2> QED BY <2>2, <2>3, <2>5, <2>6
  <1>3. NamePast' /\ Counted'
    BY DEF NamePast, Counted
  <1>4. Numbered'
    BY DEF Numbered
  <1> QED BY <1>1, <1>2, <1>3, <1>4 DEF LogInv

\* The second and later packets of a file are past its name.
LEMMA BlockIsNoName ==
  ASSUME BoardShape, LogInv, Packet \in Packets, Packet.kind \in Framed, InTurn,
         board.count > 0, \A p \in Nat : Past(p) => Place(Packet) >= p
  PROVE  Packet.kind \in {"data", "last"} /\ Place(Packet) >= 1
  <1> board.count \in Nat /\ 0 % SeqMod = 0 /\ 1 % SeqMod = 1
    BY NextNumber, SeqModAssumption DEF BoardShape
  <1>1. CASE Packet.kind = "name"
    <2>1. Place(Packet) = 0 /\ SeqNo(Packet) = 0
      BY <1>1, PacketFacts DEF Place, SeqNo, Name
    <2>2. board.count # 1
      BY <2>1 DEF InTurn
    <2>3. Past(1)
      BY <2>2 DEF LogInv, NamePast
    <2> QED BY <2>1, <2>3
  <1>2. Packet.kind # "name" => Place(Packet) >= 1
    BY PacketFacts, BlocksAssumption DEF Place, Framed
  <1> QED BY <1>1, <1>2 DEF Framed

\* A block after the last one of the file is counted and not written.
LEMMA BlockSkipped ==
  ASSUME BoardShape, LogInv, LineSame,
         Packet \in Packets, Packet.kind \in Framed, InTurn, board.count > 0,
         board.got >= board.size,
         \A p \in Nat : /\ Past(p) => Place(Packet) >= p
                        /\ Place(Packet) >= p => Past(p)',
         SameLog, board'.count = board.count + 1
  PROVE  LogInv'
  <1> board.log \in Seq(Packets) /\ board.count \in Nat /\ board.size \in Nat /\ board.got \in Nat
    BY BlocksAssumption DEF BoardShape
  <1>1. Growing'
    BY DEF LogInv, Growing, SameLog
  <1>2. Written'
    <2> SUFFICES ASSUME NEW p \in Packets, LastWritten(p)'
                 PROVE  Past(Place(p))' /\ Past(Place(p) + 1)'
      BY DEF Written
    <2>1. LastWritten(p)
      BY DEF LastWritten, SameLog
    <2>2. Place(p) \in Nat /\ Place(p) + 1 \in Nat /\ Place(Packet) \in Nat
      BY PacketFacts, BlocksAssumption
    <2>3. Place(Packet) > Place(p)
      BY <2>1, InTurnIsLater
    <2> QED BY <2>2, <2>3
  <1>3. NamePast'
    BY BlockIsNoName DEF NamePast
  <1>4. Counted'
    BY DEF Counted, SameLog
  <1>5. Numbered'
    BY DEF LogInv, Numbered, SameLog
  <1> QED BY <1>1, <1>2, <1>3, <1>4, <1>5 DEF LogInv

\* A block that is written comes after all that were, and has the number
\* that continues theirs.
LEMMA BlockWritten ==
  ASSUME BoardShape, LogInv,
         Packet \in Packets, Packet.kind \in Framed, InTurn, board.count > 0,
         board.got < board.size,
         \A p \in Nat : /\ Past(p) => Place(Packet) >= p
                        /\ Place(Packet) >= p => Past(p)',
         board'.size = board.size, board'.got = board.got + 1,
         board'.log = Append(board.log, Packet), board'.count = board.count + 1
  PROVE  LogInv'
  <1> board.log \in Seq(Packets) /\ board.count \in Nat /\ board.size \in Nat /\ board.got \in Nat
    BY BlocksAssumption DEF BoardShape
  <1> DEFINE n == Len(board.log)
  <1>1. board.count = board.got + 1
    BY DEF LogInv, Counted
  <1>2. Packet.kind \in {"data", "last"} /\ Place(Packet) >= 1 /\ Place(Packet) \in Nat
    BY BlockIsNoName, PacketFacts, BlocksAssumption
  <1>3. /\ n \in Nat /\ Len(board'.log) = n + 1 /\ board'.log[n + 1] = Packet
        /\ \A i \in 1 .. n : board'.log[i] = board.log[i] /\ board.log[i] \in Packets
        /\ board'.log # <<>>
    <2> DEFINE log == board.log
    <2>1. log \in Seq(Packets) /\ Packet \in Packets /\ board'.log = Append(log, Packet)
      OBVIOUS
    <2> HIDE DEF log
    <2>2. /\ Len(log) \in Nat /\ Len(board'.log) = Len(log) + 1
          /\ board'.log[Len(log) + 1] = Packet /\ board'.log # <<>>
          /\ \A i \in 1 .. Len(log) : board'.log[i] = log[i] /\ log[i] \in Packets
      BY ONLY <2>1, AppendProperties
    <2> QED BY <2>2 DEF log
  <1>4. \A i \in 1 .. n : Place(board.log[i]) \in Nat
    BY <1>3, PacketFacts, BlocksAssumption
  <1> HIDE DEF n
  <1>5. ASSUME NEW i \in 1 .. n
        PROVE  Place(board.log[i]) + (n + 1 - i) <= Place(Packet)
    <2>1. LastWritten(board.log[n]) /\ n \in 1 .. n
      BY <1>3 DEF n, LastWritten
    <2>2. Place(Packet) > Place(board.log[n])
      BY <1>3, <2>1, InTurnIsLater
    <2>3. Place(board.log[i]) + (n - i) <= Place(board.log[n])
      <3>1. n \in i .. n /\ i \in 1 .. Len(board.log) /\ n = Len(board.log)
        BY <1>3 DEF n
      <3> QED BY <3>1 DEF LogInv, Growing
    <2> QED BY <1>2, <1>3, <1>4, <2>1, <2>2, <2>3
  <1>6. n + 1 <= Place(Packet)
    <2>1. CASE n = 0
      BY <1>2, <2>1
    <2>2. CASE n > 0
      <3>1. 1 \in 1 .. n /\ Place(board.log[1]) >= 1
        BY <1>3, <2>2 DEF LogInv, Growing, n
      <3> QED BY <1>2, <1>3, <1>4, <1>5, <3>1
    <2> QED BY <1>3, <2>1, <2>2
  <1>7. Growing'
    <2> SUFFICES ASSUME NEW i \in 1 .. n + 1, NEW j \in i .. n + 1
                 PROVE  /\ board'.log[i].kind \in {"data", "last"}
                        /\ Place(board'.log[i]) >= i
                        /\ Place(board'.log[i]) + (j - i) <= Place(board'.log[j])
      <3>1. Len(board'.log) = n + 1 /\ n \in Nat
        BY <1>3
      <3>2. \A i \in 1 .. n + 1 : i \in i .. n + 1
        BY ONLY <3>1
      <3> QED BY <3>1, <3>2 DEF Growing
    <2>1. CASE i = n + 1
      BY <1>2, <1>3, <1>6, <2>1
    <2>2. CASE i <= n /\ j = n + 1
      <3>1. i \in 1 .. n /\ j - i = n + 1 - i
        BY <1>3, <2>2
      <3> QED BY <1>3, <1>5, <2>2, <3>1 DEF LogInv, Growing, n
    <2>3. CASE i <= n /\ j <= n
      <3>1. i \in 1 .. n /\ j \in i .. n /\ j \in 1 .. n
        BY <1>3, <2>3
      <3> QED BY <1>3, <3>1 DEF LogInv, Growing, n
    <2> QED BY <1>3, <2>1, <2>2, <2>3
  <1>8. Written'
    <2> SUFFICES ASSUME NEW p \in Packets, LastWritten(p)'
                 PROVE  Past(Place(p))' /\ SeqNo(p) # board'.count % SeqMod
      BY DEF Written
    <2>1. p = Packet
      BY <1>3 DEF LastWritten
    <2>2. Past(Place(p))'
      BY <1>2, <2>1
    <2> QED BY <2>1, <2>2, NextNumber DEF InTurn
  <1>9. NamePast'
    BY <1>2 DEF NamePast
  <1>10. Counted'
    BY <1>1 DEF Counted
  <1>11. Numbered'
    <2>1. board.got <= n /\ \A i \in 1 .. board.got : SeqNo(board.log[n - board.got + i]) = i % SeqMod
      BY DEF LogInv, Numbered, n
    <2>2. ASSUME NEW i \in 1 .. board.got + 1
          PROVE  SeqNo(board'.log[n - board.got + i]) = i % SeqMod
      <3>1. CASE i = board.got + 1
        <4>1. n - board.got + i = n + 1
          BY <1>3, <3>1
        <4>2. SeqNo(Packet) = i % SeqMod
          BY <1>1, <3>1 DEF InTurn
        <4> QED BY <1>3, <4>1, <4>2
      <3>2. CASE i <= board.got
        <4>1. i \in 1 .. board.got /\ n - board.got + i \in 1 .. n
          BY <1>3, <2>1, <3>2
        <4> QED BY <1>3, <2>1, <4>1
      <3>3. i = board.got + 1 \/ i <= board.got
        OBVIOUS
      <3> QED BY ONLY <3>1, <3>2, <3>3
    <2>3. Len(board'.log) - board'.got = n - board.got /\ board'.got <= Len(board'.log)
      <3>1. Len(board'.log) = n + 1 /\ n \in Nat
        BY <1>3
      <3> QED BY ONLY <2>1, <3>1, board'.got = board.got + 1, board.got \in Nat
    <2> QED BY <2>2, <2>3 DEF Numbered
  <1> QED BY <1>7, <1>8, <1>9, <1>10, <1>11 DEF LogInv

\* The receiver's fields after an answer that neither writes nor counts, or
\* that starts the count again.
LEMMA AnswersOnly ==
  ASSUME BoardShape,
         \/ board' = Clean
         \/ board' = End(Clean, "failed")
         \/ board' = End(Clean, IF Complete(board) THEN "ok" ELSE "failed")
         \/ board' = End(board, "failed")
         \/ board' = [Clean EXCEPT !.count = 0]
         \/ board' = Erred /\ Erred.errors <= MaxErrors
         \/ board' = End(Erred, "failed") /\ Listening
  PROVE  BoardShape' /\ SameLog /\ board'.count \in {board.count, 0}
  <1> 0 \in 0 .. MaxErrors + 1 /\ MaxErrors \in Nat /\ Blocks \in Nat
    BY TriesAssumption, BlocksAssumption
  <1>1. CASE board' = Clean
    BY <1>1 DEF Clean, BoardShape, SameLog, Complete
  <1>2. CASE board' = End(Clean, "failed")
    BY <1>2 DEF Clean, End, BoardShape, SameLog, Complete
  <1>3. CASE board' = End(Clean, "ok") /\ Complete(board)
    BY <1>3 DEF Clean, End, BoardShape, SameLog, Complete
  <1>4. CASE board' = End(board, "failed")
    BY <1>4 DEF End, BoardShape, SameLog, Complete
  <1>5. CASE board' = [Clean EXCEPT !.count = 0]
    <2>1. board' = [begun |-> board.begun, count |-> 0, size |-> board.size,
                    got |-> board.got, errors |-> 0,
                    log |-> board.log, result |-> board.result]
      BY <1>5 DEF Clean, BoardShape
    <2> QED BY <2>1 DEF BoardShape, SameLog, Complete
  <1>0. /\ Erred = board \/ Erred = [board EXCEPT !.errors = @ + 1]
        /\ Erred.begun = board.begun /\ Erred.count = board.count
        /\ Erred.size = board.size /\ Erred.got = board.got /\ Erred.log = board.log
        /\ Erred.result = board.result
    BY DEF Erred, BoardShape
  <1>6. CASE board' = Erred /\ Erred.errors <= MaxErrors
    <2>1. CASE Erred = board
      BY <1>6, <2>1 DEF BoardShape, SameLog, Complete
    <2>2. CASE Erred = [board EXCEPT !.errors = @ + 1]
      BY <1>6, <2>2 DEF BoardShape, SameLog, Complete
    <2> QED BY <1>0, <2>1, <2>2
  <1>7. CASE board' = End(Erred, "failed") /\ Listening
    <2>1. CASE Erred = board
      BY <1>7, <2>1 DEF End, BoardShape, SameLog, Complete
    <2>2. CASE Erred = [board EXCEPT !.errors = @ + 1]
      <3>1. board' = [board EXCEPT !.errors = @ + 1, !.result = "failed"]
        BY <1>7, <2>2 DEF End, BoardShape
      <3>2. board.errors \in 0 .. MaxErrors
        BY <1>7 DEF BoardShape, Listening
      <3>3. board.errors + 1 \in 0 .. MaxErrors + 1
        BY <3>2
      <3> QED BY <3>1, <3>3 DEF BoardShape, SameLog, Complete
    <2> QED BY <1>0, <2>1, <2>2
  <1> QED BY <1>1, <1>2, <1>3, <1>4, <1>5, <1>6, <1>7

\* The line's part of the invariant when the line and the sender stay.
LEMMA LineUnchanged ==
  ASSUME Shapes, Ordered, UNCHANGED <<host, toBoard>>
  PROVE  LineKept
  BY DEF LineKept, Shapes, Ordered, Past, Framing, HostPlace

\* A complaint about junk or silence keeps the log.
LEMMA Complained ==
  ASSUME BoardShape, LogInv, LineSame, Listening, Complain
  PROVE  BoardShape' /\ LogInv'
  <1>1. \/ board' = Erred /\ Erred.errors <= MaxErrors
        \/ board' = End(Erred, "failed")
    BY TriesAssumption DEF Complain, BoardIs, Erred, BoardShape
  <1> QED BY <1>1, AnswersOnly, LogKept

\* A name or a block taken for one.
LEMMA NameStep ==
  ASSUME BoardShape, LogInv, LineSame, Listening,
         Packet \in Packets, Packet.kind \in Framed, InTurn, board.count = 0,
         \A p \in Nat : /\ Past(p) => Place(Packet) >= p
                        /\ Place(Packet) >= p => Past(p)',
         NEW size \in 0 .. Blocks, TakeName(size)
  PROVE  BoardShape' /\ LogInv'
  <1> Blocks \in Nat /\ MaxErrors \in Nat
    BY TriesAssumption, BlocksAssumption
  <1>1. CASE size = 0
    BY <1>1, AnswersOnly, LogKept DEF TakeName, BoardIs
  <1>2. CASE size # 0
    <2>1. board' = [Accepted(Clean) EXCEPT !.size = size, !.got = 0]
      BY <1>2 DEF TakeName, BoardIs
    <2>2. board' = [begun |-> TRUE, count |-> board.count + 1, size |-> size, got |-> 0,
                    errors |-> 0, log |-> board.log, result |-> board.result]
      BY ONLY <2>1, BoardShape DEF Accepted, Clean, BoardShape
    <2>3. BoardShape'
      BY <2>2 DEF BoardShape, Listening
    <2> QED BY <2>2, <2>3, NameTaken
  <1> QED BY <1>1, <1>2

\* A block, written or not.
LEMMA DataStep ==
  ASSUME BoardShape, LogInv, LineSame, Listening,
         Packet \in Packets, Packet.kind \in Framed, InTurn, board.count > 0,
         \A p \in Nat : /\ Past(p) => Place(Packet) >= p
                        /\ Place(Packet) >= p => Past(p)',
         TakeData
  PROVE  BoardShape' /\ LogInv'
  <1> Blocks \in Nat /\ MaxErrors \in Nat /\ board.got \in Nat /\ board.size \in 0 .. Blocks
    BY TriesAssumption, BlocksAssumption DEF BoardShape
  <1>1. CASE board.got < board.size
    <2>1. board' = [Accepted(Clean) EXCEPT !.got = @ + 1, !.log = Append(@, Packet)]
      BY <1>1 DEF TakeData, BoardIs
    <2>2. board' = [begun |-> TRUE, count |-> board.count + 1, size |-> board.size,
                    got |-> board.got + 1, errors |-> 0,
                    log |-> Append(board.log, Packet), result |-> board.result]
      BY <2>1 DEF Accepted, Clean, BoardShape
    <2>3. BoardShape'
      BY <1>1, <2>2 DEF BoardShape, Listening
    <2> QED BY <1>1, <2>2, <2>3, BlockWritten
  <1>2. CASE board.got >= board.size
    <2>1. board' = Accepted(Clean)
      BY <1>2 DEF TakeData, BoardIs
    <2>2. board' = [begun |-> TRUE, count |-> board.count + 1, size |-> board.size,
                    got |-> board.got, errors |-> 0,
                    log |-> board.log, result |-> board.result]
      BY <2>1 DEF Accepted, Clean, BoardShape
    <2>3. BoardShape'
      BY <2>2 DEF BoardShape, Listening
    <2> QED BY <1>2, <2>2, <2>3, BlockSkipped DEF SameLog
  <1> QED BY <1>1, <1>2

\* Whatever the receiver does with the packet it reads.
LEMMA ReceiveKeeps ==
  ASSUME IInv, BoardReceive
  PROVE  BoardShape' /\ LogInv' /\ LineKept
  <1>1. /\ Shapes /\ Ordered /\ BoardShape /\ LogInv /\ Listening
        /\ toBoard # <<>> /\ toBoard' = Tail(toBoard) /\ host' = host
    BY DEF IInv, Shapes, BoardReceive
  <1>2. LineKept /\ Packet \in Packets
    BY <1>1, TakingKeeps
  <1>3. ASSUME Packet.kind \in Framed
        PROVE  \A p \in Nat : /\ Past(p) => Place(Packet) >= p
                              /\ Place(Packet) >= p => Past(p)'
    BY <1>1, <1>3, TakingKeeps
  <1>4. LineSame
    BY <1>2 DEF LineKept, LineSame
  <1>5. CASE Refuse
    BY <1>1, <1>2, <1>4, <1>5, AnswersOnly, LogKept DEF Refuse, BoardIs
  <1>6. CASE Accept
    <2>1. Packet.kind \in Framed /\ InTurn
      BY <1>6 DEF Accept
    <2>2. CASE TakeLast
      BY <1>1, <1>2, <1>4, <2>2, AnswersOnly, LogKept DEF TakeLast, BoardIs
    <2>3. ASSUME NEW size \in 0 .. Blocks, board.count = 0, TakeName(size)
          PROVE  BoardShape' /\ LogInv'
      BY <1>1, <1>2, <1>3, <1>4, <2>1, <2>3, NameStep
    <2>4. CASE board.count > 0 /\ TakeData
      BY <1>1, <1>2, <1>3, <1>4, <2>1, <2>4, DataStep
    <2>5. Blocks \in 0 .. Blocks
      BY BlocksAssumption
    <2> QED BY <1>2, <1>6, <2>2, <2>3, <2>4, <2>5 DEF Accept
  <1>7. CASE EndOfFile
    BY <1>1, <1>2, <1>4, <1>7, AnswersOnly, LogKept DEF EndOfFile, BoardIs
  <1>8. CASE Cancelled
    BY <1>1, <1>2, <1>4, <1>8, AnswersOnly, LogKept DEF Cancelled, BoardIs
  <1>9. CASE Complain
    BY <1>1, <1>2, <1>4, <1>9, Complained
  <1> QED BY <1>2, <1>5, <1>6, <1>7, <1>8, <1>9 DEF BoardReceive

-----------------------------------------------------------------------------
(* The theorems                                                            *)

LEMMA Initially == Init => IInv
  <1> SUFFICES ASSUME Init PROVE IInv
    OBVIOUS
  <1> Blocks \in Nat \ {0} /\ MaxTries \in Nat \ {0} /\ MaxErrors \in Nat
    /\ MaxFaults \in Nat /\ MaxStalls \in Nat
    BY BlocksAssumption, TriesAssumption, BoundsAssumption
  <1>1. HostShape /\ HostPlace = 0
    BY DEF Init, HostShape, HostPlace, WaitsForC
  <1>2. BoardShape
    BY DEF Init, BoardShape
  <1>3. Shapes
    BY <1>1, <1>2 DEF Init, Shapes
  <1>4. Ordered
    BY DEF Init, Ordered
  <1>5. LogInv
    BY DEF Init, LogInv, Growing, Written, LastWritten, NamePast, Counted, Numbered
  <1> QED BY <1>3, <1>4, <1>5 DEF IInv

LEMMA Inductive == IInv /\ [Next]_vars => IInv'
  <1> SUFFICES ASSUME IInv, [Next]_vars PROVE IInv'
    OBVIOUS
  <1> Shapes /\ Ordered /\ LogInv /\ HostShape /\ BoardShape
    BY DEF IInv, Shapes
  <1> MaxFaults \in Nat /\ MaxStalls \in Nat
    BY BoundsAssumption
  <1>1. ASSUME LineKept, HostShape', BoardShape', LogInv',
               faults' \in 0 .. MaxFaults, stalls' \in 0 .. MaxStalls
        PROVE  IInv'
    BY <1>1 DEF IInv, Shapes, LineKept
  <1>2. ASSUME LineKept, UNCHANGED board
        PROVE  BoardShape' /\ LogInv'
    <2>1. LineSame /\ SameLog /\ board'.count = board.count /\ BoardShape'
      BY <1>2 DEF LineKept, LineSame, SameLog, BoardShape, Complete
    <2> QED BY <2>1, LogKept
  <1>3. host' = host => HostShape'
    BY DEF HostShape
  <1>4. /\ faults' = faults => faults' \in 0 .. MaxFaults
        /\ Fault => faults' \in 0 .. MaxFaults
        /\ stalls' = stalls => stalls' \in 0 .. MaxStalls
    BY DEF Shapes, Fault
  <1>5. CASE HostStep
    BY <1>1, <1>2, <1>4, <1>5, HostStepKeeps
  <1>6. CASE BoardReceive
    BY <1>1, <1>3, <1>4, <1>6, ReceiveKeeps DEF BoardReceive
  <1>7. CASE BoardTimeout
    <2>1. LineKept /\ LineSame
      BY <1>7, LineUnchanged DEF BoardTimeout, LineKept, LineSame
    <2>2. BoardShape' /\ LogInv'
      BY <1>7, <2>1, Complained DEF BoardTimeout
    <2>3. stalls' \in 0 .. MaxStalls
      BY <1>4, <1>7 DEF BoardTimeout, Shapes
    <2> QED BY <1>1, <1>3, <1>4, <1>7, <2>1, <2>2, <2>3 DEF BoardTimeout
  <1>8. CASE BoardIgnores
    <2>1. LineKept
      BY <1>8, TakingKeeps DEF BoardIgnores
    <2> QED BY <1>1, <1>2, <1>3, <1>4, <1>8, <2>1 DEF BoardIgnores
  <1>9. CASE Damage
    BY <1>1, <1>2, <1>3, <1>4, <1>9, DamageKeeps DEF Damage
  <1>10. CASE LoseAnswer
    BY <1>1, <1>2, <1>3, <1>4, <1>10, LineUnchanged DEF LoseAnswer
  <1>11. CASE ApplyFails
    <2>1. LineKept /\ LineSame
      BY <1>11, TakingKeeps DEF ApplyFails, LineKept, LineSame
    <2>2. BoardShape' /\ LogInv'
      BY <1>11, <2>1, AnswersOnly, LogKept DEF ApplyFails, BoardIs
    <2> QED BY <1>1, <1>3, <1>4, <1>11, <2>1, <2>2 DEF ApplyFails
  <1>12. CASE UNCHANGED vars
    BY <1>1, <1>2, <1>3, <1>4, <1>12, LineUnchanged DEF vars
  <1> QED BY <1>5, <1>6, <1>7, <1>8, <1>9, <1>10, <1>11, <1>12 DEF Next, BoardStep

\* The places of a whole file's log: one for every block, and only one way to
\* fill them.
LEMMA WholeFile == IInv => SuccessIsFile
  <1> SUFFICES ASSUME IInv, board.result = "ok", board.size = Blocks
               PROVE  /\ Len(board.log) = Blocks
                      /\ \A n \in 1 .. Blocks :
                           board.log[n] = Data(n) \/ (EmptyNameFits(n) /\ board.log[n] = Last)
    BY DEF SuccessIsFile
  <1> DEFINE m == Len(board.log)
  <1>1. /\ BoardShape /\ Growing /\ Numbered /\ Blocks \in Nat \ {0} /\ SeqMod \in Nat \ {0, 1}
        /\ m \in Nat
    BY BlocksAssumption, SeqModAssumption DEF IInv, LogInv, Shapes, BoardShape
  <1>2. board.got = Blocks /\ Blocks <= m
    BY <1>1 DEF BoardShape, Complete, Numbered
  <1>3. \A i \in 1 .. Blocks : SeqNo(board.log[m - Blocks + i]) = i % SeqMod
    BY <1>1, <1>2 DEF Numbered
  <1>4. ASSUME NEW i \in 1 .. m
        PROVE  /\ board.log[i] \in Packets /\ board.log[i].kind \in {"data", "last"}
               /\ i <= Place(board.log[i])
               /\ Place(board.log[i]) + (m - i) <= Blocks + 1
    <2>1. i \in 1 .. Len(board.log) /\ m \in i .. Len(board.log) /\ m \in 1 .. Len(board.log)
      BY <1>1
    <2>2. board.log[i] \in Packets /\ board.log[m] \in Packets
      BY <1>1, <2>1 DEF BoardShape
    <2>3. Place(board.log[i]) \in Nat /\ Place(board.log[m]) \in 0 .. Blocks + 1
      BY <2>2, PacketFacts, <1>1
    <2>4. /\ board.log[i].kind \in {"data", "last"} /\ Place(board.log[i]) >= i
          /\ Place(board.log[i]) + (m - i) <= Place(board.log[m])
      BY <1>1, <2>1 DEF Growing
    <2> QED BY <1>1, <2>1, <2>2, <2>3, <2>4
  <1> HIDE DEF m
  <1>5. ASSUME NEW i \in 1 .. m
        PROVE  \/ board.log[i] = Data(Place(board.log[i]))
               \/ board.log[i] = Last /\ Place(board.log[i]) = Blocks + 1
    BY <1>4, PacketFacts DEF Place
  <1>6. \A i \in 1 .. m : Place(board.log[i]) \in Nat
    BY <1>1, <1>4, PacketFacts
  <1>7. 0 % SeqMod = 0 /\ 1 % SeqMod = 1 /\ 2 % SeqMod # 1
    <2>1. 1 + 1 = 2 /\ 0 < SeqMod /\ 1 < SeqMod
      BY <1>1
    <2>2. 0 % SeqMod = 0 /\ 1 % SeqMod = 1 /\ 1 % SeqMod # (1 + 1) % SeqMod
      BY <2>1, NextNumber
    <2> QED BY <2>1, <2>2
  <1>8. m = Blocks
    <2>1. 1 \in 1 .. m /\ m <= Blocks + 1
      BY <1>1, <1>2, <1>4, <1>6
    <2>2. CASE m = Blocks + 1
      <3>1. 2 \in 1 .. m /\ Place(board.log[2]) = 2
        BY <1>1, <1>4, <1>6, <2>2
      <3>2. SeqNo(board.log[2]) = 1
        BY <1>1, <1>3, <1>7, <2>2
      <3>3. SeqNo(Data(2)) = 2 % SeqMod /\ SeqNo(Last) = 0 % SeqMod
        BY DEF SeqNo, Data, Last
      <3> QED BY <1>5, <1>7, <3>1, <3>2, <3>3
    <2> QED BY <1>1, <1>2, <2>1, <2>2
  <1>9. ASSUME NEW n \in 1 .. Blocks
        PROVE  board.log[n] = Data(n) \/ (EmptyNameFits(n) /\ board.log[n] = Last)
    <2>1. n \in 1 .. m /\ n \in Nat /\ SeqNo(board.log[n]) = n % SeqMod
      BY <1>1, <1>3, <1>8
    <2>2. Place(board.log[n]) \in {n, n + 1}
      BY <1>1, <1>4, <1>6, <1>8, <2>1
    <2>3. CASE board.log[n] = Data(Place(board.log[n]))
      <3>1. board.log[n].blk = Place(board.log[n])
        BY <2>3 DEF Data
      <3>2. SeqNo(board.log[n]) = Place(board.log[n]) % SeqMod
        BY <3>1 DEF SeqNo
      <3>3. Place(board.log[n]) # n + 1
        BY <2>1, <3>2, NextNumber
      <3> QED BY <2>2, <2>3, <3>3
    <2>4. CASE board.log[n] = Last /\ Place(board.log[n]) = Blocks + 1
      <3>1. n = Blocks
        BY <1>1, <2>1, <2>2, <2>4
      <3>2. n % SeqMod = 0
        BY <1>7, <2>1, <2>4 DEF SeqNo, Last
      <3> QED BY <2>4, <3>1, <3>2 DEF EmptyNameFits
    <2> QED BY <1>5, <2>1, <2>3, <2>4
  <1> QED BY <1>8, <1>9 DEF m

\* The invariant of a session, for every length of the file and any number
\* of damaged packets, lost answers and stalls.
THEOREM SessionInvariant == Spec => []IInv
  BY Initially, Inductive, PTL DEF Spec

\* The types and the ranges of the counters of both programs.
THEOREM TypeCorrect == Spec => []TypeOK
  <1>1. IInv => TypeOK
    BY BlocksAssumption DEF IInv, Shapes, HostShape, BoardShape, TypeOK
  <1> QED BY <1>1, SessionInvariant, PTL

\* A session that ends well has taken the file.
THEOREM SuccessIsFileCorrect == Spec => []SuccessIsFile
  BY WholeFile, SessionInvariant, PTL

\* A file whose last block has another number than the empty name is taken
\* block for block.
THEOREM SuccessIsWhole ==
  ASSUME Blocks % SeqMod # 0
  PROVE  Spec => [](board.result = "ok" /\ board.size = Blocks =>
                      board.log = [n \in 1 .. Blocks |-> Data(n)])
  <1>1. IInv => (board.result = "ok" /\ board.size = Blocks =>
                   board.log = [n \in 1 .. Blocks |-> Data(n)])
    <2> SUFFICES ASSUME IInv, board.result = "ok", board.size = Blocks
                 PROVE  board.log = [n \in 1 .. Blocks |-> Data(n)]
      OBVIOUS
    <2>1. board.log \in Seq(Packets)
      BY DEF IInv, Shapes, BoardShape
    <2>2. Len(board.log) = Blocks /\ \A n \in 1 .. Blocks : board.log[n] = Data(n)
      BY WholeFile DEF SuccessIsFile, EmptyNameFits
    <2> QED BY <2>1, <2>2
  <1> QED BY <1>1, SessionInvariant, PTL
=============================================================================
