---------------------------- MODULE RxRingProofs ----------------------------
(***************************************************************************)
(* For every number of nodes and every line length the two sides of the    *)
(* receive ring stay out of each other's way: IInv is inductive, and what  *)
(* the shell executes is not written meanwhile.                            *)
(***************************************************************************)
EXTENDS RxRing, TLAPS

-----------------------------------------------------------------------------
(* The arithmetic of the indices.                                          *)

\* The places after an index are indices.
LEMMA AfterIndex ==
  ASSUME NEW p \in Index, NEW i \in 0 .. Size
  PROVE  After(p, i) \in Index
BY SizeAssumption DEF After, Index

\* An index has a node.
LEMMA SlotRange ==
  ASSUME NEW p \in Index
  PROVE  Slot(p) \in 0 .. Size - 1
BY SizeAssumption DEF Slot, Index

\* Size consecutive indices have different nodes.
LEMMA SlotInjective ==
  ASSUME NEW p \in Index, NEW i \in 1 .. Size, NEW j \in 1 .. Size,
         Slot(After(p, i)) = Slot(After(p, j))
  PROVE  i = j
BY SizeAssumption DEF After, Slot, Index

\* The finished nodes are counted up to twice the ring, the write index is
\* as many places after the read index.
LEMMA CountRange ==
  ASSUME TypeOK
  PROVE  Count \in 0 .. 2 * Size - 1
BY SizeAssumption DEF TypeOK, Count, Index

LEMMA WriteIsCount ==
  ASSUME TypeOK, Count <= Size
  PROVE  write = After(read, Count)
BY SizeAssumption DEF TypeOK, Count, Index, After

LEMMA FullIsCount ==
  ASSUME TypeOK
  PROVE  cbIsFull <=> Count = Size
BY SizeAssumption DEF TypeOK, Count, Index, After, cbIsFull

LEMMA EmptyIsCount ==
  ASSUME TypeOK
  PROVE  cbIsEmpty <=> Count = 0
BY SizeAssumption DEF TypeOK, Count, Index, cbIsEmpty

\* The node after the finished ones is Count + 1 places after the read index.
LEMMA NextPlace ==
  ASSUME TypeOK, Count < Size
  PROVE  cbIncr(write) = After(read, Count + 1)
BY SizeAssumption DEF TypeOK, Count, Index, After, cbIncr

\* cbIncr never stands still.
LEMMA IncrMoves ==
  ASSUME NEW p \in Index
  PROVE  cbIncr(p) # p /\ cbIncr(p) \in Index
BY SizeAssumption DEF cbIncr, After, Index

\* A place after the next index is one place further on.
LEMMA AfterNext ==
  ASSUME NEW p \in Index, NEW i \in 0 .. Size - 1
  PROVE  After(cbIncr(p), i) = After(p, i + 1)
BY SizeAssumption DEF cbIncr, After, Index

\* The place Size further on is the same node.
LEMMA AfterSize ==
  ASSUME NEW p \in Index
  PROVE  Slot(After(cbIncr(p), Size)) = Slot(cbIncr(p))
BY SizeAssumption DEF cbIncr, After, Index, Slot

-----------------------------------------------------------------------------
(* The nodes, addressed by their place after the read index.               *)

At(i) == node[Slot(After(read, i))]

\* What the invariant says of the place i.
PlaceOK(i) ==
  IF i <= Count /\ ~(i = 1 /\ pc = "cleared") THEN At(i) # <<>>
  ELSE IF i = Count + 1 /\ writeUsing # write
  THEN At(i) # <<>> /\ Len(At(i)) < NodeLen
  ELSE At(i) = <<>>

LEMMA ContentsByPlace == Contents <=> \A i \in 1 .. Size : PlaceOK(i)
BY DEF Contents, PlaceOK, At

LEMMA ContentsByPlaceNext == Contents' <=> \A i \in 1 .. Size : PlaceOK(i)'
BY DEF Contents, PlaceOK, At

\* A place is in the node it stands for, and no other place is.
LEMMA AtNode ==
  ASSUME TypeOK, NEW i \in 1 .. Size
  PROVE  /\ Slot(After(read, i)) \in 0 .. Size - 1
         /\ At(i) \in Seq(Byte)
<1>1. read \in Index /\ i \in 0 .. Size
  BY SizeAssumption DEF TypeOK
<1>2. Slot(After(read, i)) \in 0 .. Size - 1
  BY <1>1, AfterIndex, SlotRange
<1> QED
  BY <1>2 DEF TypeOK, At

\* The interrupt works on the place after the finished nodes; what stands
\* there leaves room for the byte.
LEMMA FillingPlace ==
  ASSUME IInv, ~cbIsFull
  PROVE  /\ Count \in 0 .. Size - 1
         /\ Filling = After(read, Count + 1)
         /\ Filling \in Index
         /\ Len(At(Count + 1)) < NodeLen
<1> USE DEF IInv, Hands
<1>1. Count \in 0 .. Size - 1
  BY CountRange, FullIsCount, SizeAssumption
<1>2. Filling = cbIncr(write)
  BY DEF Filling
<1>3. cbIncr(write) = After(read, Count + 1)
  BY <1>1, NextPlace, SizeAssumption
<1>4. cbIncr(write) \in Index
  BY IncrMoves DEF TypeOK
<1>5. Count + 1 \in 1 .. Size
  BY <1>1, SizeAssumption
<1>6. PlaceOK(Count + 1)
  BY <1>5, ContentsByPlace
<1>7. Len(At(Count + 1)) < NodeLen
  BY <1>1, <1>5, <1>6, LenAssumption DEF PlaceOK
<1> QED
  BY <1>1, <1>2, <1>3, <1>4, <1>7

\* What a byte changes, place by place.
LEMMA BytePlaces ==
  ASSUME IInv, NEW b \in Byte, ReceiveByte(b)
  PROVE  /\ node' \in [0 .. Size - 1 -> Seq(Byte)]
         /\ \A i \in 1 .. Size :
              At(i)' = IF i = Count + 1 THEN Append(At(i), b) ELSE At(i)
<1>1. /\ Count \in 0 .. Size - 1
      /\ Filling = After(read, Count + 1)
      /\ Filling \in Index
      /\ Len(At(Count + 1)) < NodeLen
  BY FillingPlace DEF ReceiveByte
<1>2. Received(b) = Append(At(Count + 1), b)
  BY <1>1 DEF Received, At
<1>3. TypeOK /\ read' = read
  BY DEF IInv, ReceiveByte
<1>4. Count + 1 \in 1 .. Size
  BY <1>1, SizeAssumption
<1>5. Received(b) \in Seq(Byte)
  BY <1>2, <1>3, <1>4, AtNode
<1>6. node' = [node EXCEPT ![Slot(Filling)] = Received(b)]
  BY DEF ReceiveByte
<1>7. node' \in [0 .. Size - 1 -> Seq(Byte)]
  BY <1>3, <1>5, <1>6 DEF TypeOK
<1>8. ASSUME NEW i \in 1 .. Size
      PROVE  At(i)' = IF i = Count + 1 THEN Append(At(i), b) ELSE At(i)
  <2>1. Slot(After(read, i)) \in 0 .. Size - 1
    BY <1>3, AtNode
  <2>2. CASE i = Count + 1
    BY <1>1, <1>2, <1>3, <1>6, <2>1, <2>2 DEF At, TypeOK
  <2>3. CASE i # Count + 1
    <3>1. read \in Index
      BY <1>3 DEF TypeOK
    <3>2. Slot(After(read, i)) # Slot(After(read, Count + 1))
      BY <1>4, <2>3, <3>1, SlotInjective
    <3> QED
      BY <1>1, <1>3, <1>6, <2>1, <2>3, <3>2 DEF At, TypeOK
  <2> QED
    BY <2>2, <2>3
<1> QED
  BY <1>7, <1>8

\* The node the shell holds is the first place, and it is finished.
LEMMA HeldPlace ==
  ASSUME IInv, pc # "poll"
  PROVE  /\ readUsing = After(read, 1)
         /\ node[Slot(readUsing)] = At(1)
         /\ Count \in 1 .. Size
BY CountRange, SizeAssumption DEF IInv, Hands, cbIncr, At

\* The counter after a step of the write index.
LEMMA CountMoves ==
  ASSUME TypeOK, Count < Size, read' = read, write' = cbIncr(write)
  PROVE  Count' = Count + 1
<1> USE SizeAssumption DEF TypeOK, Index, cbIncr, After
<1>1. Count' = IF write' >= read THEN write' - read ELSE write' - read + 2 * Size
  BY DEF Count
<1>2. CASE write >= read
  BY <1>1, <1>2 DEF Count
<1>3. CASE ~(write >= read)
  BY <1>1, <1>3 DEF Count
<1> QED
  BY <1>2, <1>3

\* The counter after a step of the read index.
LEMMA CountFalls ==
  ASSUME TypeOK, Count \in 1 .. Size, read' = cbIncr(read), write' = write
  PROVE  Count' = Count - 1
BY SizeAssumption DEF TypeOK, Count, Index, cbIncr, After

-----------------------------------------------------------------------------
(* The invariant is inductive.                                             *)

LEMMA InitIInv == ASSUME Init PROVE IInv
<1>1. TypeOK
  BY SizeAssumption DEF Init, TypeOK, Index
<1>2. Count = 0
  BY DEF Init, Count
<1>3. Hands
  BY <1>2, SizeAssumption DEF Init, Hands
<1>4. ASSUME NEW i \in 1 .. Size PROVE PlaceOK(i)
  <2>1. At(i) = <<>>
    BY <1>1, AtNode DEF Init, At
  <2> QED
    BY <1>2, <2>1 DEF PlaceOK, Init
<1>5. Contents
  BY <1>4, ContentsByPlace
<1> QED
  BY <1>1, <1>3, <1>5 DEF IInv, Given, Init

LEMMA ByteIInv == ASSUME IInv, NEW b \in Byte, ReceiveByte(b) PROVE IInv'
<1>1. /\ Count \in 0 .. Size - 1
      /\ Filling = After(read, Count + 1)
      /\ Filling \in Index
      /\ Len(At(Count + 1)) < NodeLen
  BY FillingPlace DEF ReceiveByte
<1>2. /\ node' \in [0 .. Size - 1 -> Seq(Byte)]
      /\ \A i \in 1 .. Size :
           At(i)' = IF i = Count + 1 THEN Append(At(i), b) ELSE At(i)
  BY BytePlaces
<1>3. TypeOK /\ read' = read /\ readUsing' = readUsing /\ pc' = pc /\ shell' = shell
      /\ writeUsing' = Filling /\ (write' = write \/ write' = Filling)
  BY DEF IInv, ReceiveByte
<1>4. TypeOK'
  BY <1>1, <1>2, <1>3 DEF TypeOK
<1>5. Filling = cbIncr(write)
  BY DEF Filling, IInv, Hands
<1>6. Received(b) = Append(At(Count + 1), b)
  BY <1>1 DEF Received, At
<1>7. Count + 1 \in 1 .. Size /\ At(Count + 1) \in Seq(Byte)
  BY <1>1, <1>3, AtNode, SizeAssumption
<1> PICK k \in 1 .. Size : k = Count + 1
  BY <1>7
<1>8. cbIncr(write) # write
  BY <1>3, IncrMoves DEF TypeOK
<1>9. \A i \in 1 .. Size : PlaceOK(i)
  BY ContentsByPlace DEF IInv
<1>10. Given'
  <2> SUFFICES ASSUME pc = "given" PROVE shell = node'[Slot(readUsing)]
    BY <1>3 DEF Given
  <2>1. readUsing = After(read, 1) /\ node[Slot(readUsing)] = At(1) /\ Count \in 1 .. Size
    BY HeldPlace
  <2>2. At(1)' = At(1)
    BY <1>2, <2>1, SizeAssumption
  <2>3. At(1)' = node'[Slot(readUsing)]
    BY <1>3, <2>1 DEF At
  <2> QED
    BY <2>1, <2>2, <2>3 DEF IInv, Given
<1>11. CASE write' = write
  <2>1. Count' = Count
    BY <1>3, <1>11 DEF Count
  <2>2. Hands'
    BY <1>1, <1>3, <1>5, <1>11, <2>1, SizeAssumption DEF Hands, IInv, cbIncr, After
  <2>3. ~(Len(Received(b)) >= NodeLen)
    BY <1>5, <1>8, <1>11 DEF ReceiveByte
  <2>4. At(k)' # <<>> /\ Len(At(k)') < NodeLen
    BY <1>2, <1>6, <1>7, <2>3, LenAssumption
  <2>5. ASSUME NEW i \in 1 .. Size PROVE PlaceOK(i)'
    <3>1. CASE i = k
      BY <1>1, <1>3, <1>5, <1>8, <1>11, <2>1, <2>4, <3>1 DEF PlaceOK
    <3>2. CASE i # k
      BY <1>1, <1>2, <1>3, <1>9, <2>1, <3>2 DEF PlaceOK
    <3> QED
      BY <3>1, <3>2
  <2> QED
    BY <1>4, <2>2, <2>5, ContentsByPlaceNext, <1>10 DEF IInv
<1>12. CASE write' = Filling
  <2>1. Count' = Count + 1
    BY <1>1, <1>3, <1>5, <1>12, CountMoves, SizeAssumption
  <2>2. Hands'
    BY <1>1, <1>3, <1>12, <2>1, SizeAssumption DEF Hands, IInv, cbIncr, After
  <2>3. At(k)' # <<>>
    BY <1>2, <1>7
  <2>4. ASSUME NEW i \in 1 .. Size PROVE PlaceOK(i)'
    <3>1. CASE i = k
      <4>1. ~(i = 1 /\ pc = "cleared")
        BY <1>1, <3>1, HeldPlace
      <4> QED
        BY <1>1, <1>3, <2>1, <2>3, <3>1, <4>1 DEF PlaceOK
    <3>2. CASE i # k
      <4>1. At(i)' = At(i) /\ PlaceOK(i)
        BY <1>2, <1>9, <3>2
      <4> QED
        BY <1>1, <1>3, <1>12, <2>1, <3>2, <4>1 DEF PlaceOK
    <3> QED
      BY <3>1, <3>2
  <2> QED
    BY <1>4, <2>2, <2>4, ContentsByPlaceNext, <1>10 DEF IInv
<1> QED
  BY <1>3, <1>11, <1>12

LEMMA IdleIInv == ASSUME IInv, LineIdle PROVE IInv'
<1>1. TypeOK /\ read' = read /\ readUsing' = readUsing /\ pc' = pc /\ shell' = shell
      /\ node' = node /\ writeUsing' = writeUsing /\ write' = writeUsing
  BY DEF IInv, LineIdle
<1>2. writeUsing = cbIncr(write) /\ Count < Size /\ writeUsing # write
  BY DEF IInv, Hands, LineIdle
<1>3. Count' = Count + 1 /\ Count \in 0 .. Size - 1
  BY <1>1, <1>2, CountMoves, CountRange, SizeAssumption
<1>4. TypeOK'
  BY <1>1 DEF TypeOK
<1>5. Hands'
  BY <1>1, <1>3, SizeAssumption DEF Hands, IInv, cbIncr, After
<1>6. ASSUME NEW i \in 1 .. Size PROVE PlaceOK(i)'
  <2>1. PlaceOK(i)
    BY ContentsByPlace DEF IInv
  <2>2. At(i)' = At(i)
    BY <1>1 DEF At
  <2>3. pc = "cleared" => Count # 0
    BY <1>3, HeldPlace
  <2> QED
    BY <1>1, <1>2, <1>3, <2>1, <2>2, <2>3 DEF PlaceOK
<1> QED
  BY <1>1, <1>4, <1>5, <1>6, ContentsByPlaceNext DEF IInv, Given

LEMMA PollIInv == ASSUME IInv, ShellPoll PROVE IInv'
<1>1. TypeOK /\ read' = read /\ write' = write /\ writeUsing' = writeUsing
      /\ shell' = shell /\ node' = node /\ pc = "poll" /\ pc' \in {"poll", "got"}
  BY DEF IInv, ShellPoll
<1>2. readUsing = read /\ readUsing' = cbIncr(read)
  BY <1>1 DEF IInv, Hands, ShellPoll
<1>3. Count' = Count /\ Count \in 1 .. Size
  <2>1. Count # 0
    BY <1>1, EmptyIsCount DEF ShellPoll
  <2> QED
    BY <1>1, <2>1, CountRange, SizeAssumption DEF Count, IInv, Hands
<1>4. readUsing' \in Index
  BY <1>1, <1>2, IncrMoves DEF TypeOK
<1>5. node[Slot(readUsing')] # <<>>
  <2>1. PlaceOK(1)
    BY ContentsByPlace, SizeAssumption DEF IInv
  <2> QED
    BY <1>1, <1>2, <1>3, <2>1 DEF PlaceOK, At, cbIncr
<1>6. pc' = "got"
  BY <1>5 DEF ShellPoll
<1>7. Hands'
  BY <1>1, <1>2, <1>3, <1>6, SizeAssumption DEF Hands, IInv, cbIncr
<1>8. ASSUME NEW i \in 1 .. Size PROVE PlaceOK(i)'
  <2>1. PlaceOK(i)
    BY ContentsByPlace DEF IInv
  <2>2. At(i)' = At(i)
    BY <1>1 DEF At
  <2> QED
    BY <1>1, <1>3, <1>6, <2>1, <2>2 DEF PlaceOK
<1>9. TypeOK'
  BY <1>1, <1>4 DEF TypeOK
<1> QED
  BY <1>6, <1>7, <1>8, <1>9, ContentsByPlaceNext DEF IInv, Given

LEMMA InputIInv == ASSUME IInv, ShellInput PROVE IInv'
<1>1. TypeOK /\ read' = read /\ readUsing' = readUsing /\ write' = write
      /\ writeUsing' = writeUsing /\ node' = node /\ pc = "got" /\ pc' = "given"
      /\ shell' = node[Slot(readUsing)]
  BY DEF IInv, ShellInput
<1>2. Count' = Count /\ Count > 0
  BY <1>1 DEF Count, IInv, Hands
<1>3. TypeOK'
  BY <1>1, SlotRange DEF TypeOK
<1>4. ASSUME NEW i \in 1 .. Size PROVE PlaceOK(i)'
  <2>1. PlaceOK(i)
    BY ContentsByPlace DEF IInv
  <2>2. At(i)' = At(i)
    BY <1>1 DEF At
  <2> QED
    BY <1>1, <1>2, <2>1, <2>2 DEF PlaceOK
<1>5. Hands'
  BY <1>1, <1>2 DEF Hands, IInv, cbIncr
<1> QED
  BY <1>1, <1>3, <1>4, <1>5, ContentsByPlaceNext DEF IInv, Given

LEMMA ClearPlaces ==
  ASSUME IInv, ShellClear
  PROVE  /\ node' \in [0 .. Size - 1 -> Seq(Byte)]
         /\ \A i \in 1 .. Size : At(i)' = IF i = 1 THEN <<>> ELSE At(i)
<1>1. TypeOK /\ read' = read /\ pc = "given"
      /\ node' = [node EXCEPT ![Slot(readUsing)] = <<>>]
  BY DEF IInv, ShellClear
<1>2. readUsing = After(read, 1)
  BY <1>1, HeldPlace
<1>3. node' \in [0 .. Size - 1 -> Seq(Byte)]
  <2>1. <<>> \in Seq(Byte)
    OBVIOUS
  <2>2. node \in [0 .. Size - 1 -> Seq(Byte)]
    BY <1>1 DEF TypeOK
  <2> QED
    BY <1>1, <2>1, <2>2
<1>4. ASSUME NEW i \in 1 .. Size PROVE At(i)' = IF i = 1 THEN <<>> ELSE At(i)
  <2>1. Slot(After(read, i)) \in 0 .. Size - 1
    BY <1>1, AtNode
  <2>2. CASE i = 1
    BY <1>1, <1>2, <2>1, <2>2 DEF At, TypeOK
  <2>3. CASE i # 1
    <3>1. read \in Index /\ 1 \in 1 .. Size
      BY <1>1, SizeAssumption DEF TypeOK
    <3>2. Slot(After(read, i)) # Slot(After(read, 1))
      BY <2>3, <3>1, SlotInjective
    <3> QED
      BY <1>1, <1>2, <2>1, <2>3, <3>2 DEF At, TypeOK
  <2> QED
    BY <2>2, <2>3
<1> QED
  BY <1>3, <1>4

LEMMA ClearIInv == ASSUME IInv, ShellClear PROVE IInv'
<1>1. TypeOK /\ read' = read /\ readUsing' = readUsing /\ write' = write
      /\ writeUsing' = writeUsing /\ pc = "given" /\ pc' = "cleared" /\ shell' = shell
  BY DEF IInv, ShellClear
<1>2. /\ node' \in [0 .. Size - 1 -> Seq(Byte)]
      /\ \A i \in 1 .. Size : At(i)' = IF i = 1 THEN <<>> ELSE At(i)
  BY ClearPlaces
<1>3. Count' = Count /\ Count \in 1 .. Size
  BY <1>1, HeldPlace DEF Count
<1>4. TypeOK'
  BY <1>1, <1>2 DEF TypeOK
<1>5. Hands'
  BY <1>1, <1>3 DEF Hands, IInv, cbIncr
<1>6. ASSUME NEW i \in 1 .. Size PROVE PlaceOK(i)'
  <2>1. PlaceOK(i)
    BY ContentsByPlace DEF IInv
  <2> QED
    BY <1>1, <1>2, <1>3, <2>1 DEF PlaceOK
<1> QED
  BY <1>1, <1>4, <1>5, <1>6, ContentsByPlaceNext DEF IInv, Given

\* Freeing a node moves every place by one; the node that was freed is the
\* last place now.
LEMMA FinishPlaces ==
  ASSUME IInv, ShellFinish
  PROVE  \A i \in 1 .. Size : At(i)' = IF i = Size THEN At(1) ELSE At(i + 1)
<1>1. TypeOK /\ read \in Index /\ node' = node /\ read' = cbIncr(read)
  BY HeldPlace DEF IInv, TypeOK, ShellFinish, cbIncr
<1> SUFFICES ASSUME NEW i \in 1 .. Size
             PROVE  At(i)' = IF i = Size THEN At(1) ELSE At(i + 1)
  OBVIOUS
<1>2. At(i)' = node[Slot(After(cbIncr(read), i))]
  BY <1>1 DEF At
<1>3. CASE i = Size
  BY <1>1, <1>2, <1>3, AfterSize DEF At, cbIncr
<1>4. CASE i # Size
  <2>1. i \in 0 .. Size - 1
    BY <1>4, SizeAssumption
  <2> QED
    BY <1>1, <1>2, <1>4, <2>1, AfterNext DEF At
<1> QED
  BY <1>3, <1>4

LEMMA FinishIInv == ASSUME IInv, ShellFinish PROVE IInv'
<1>1. TypeOK /\ node' = node /\ read' = cbIncr(read) /\ readUsing' = readUsing
      /\ write' = write /\ writeUsing' = writeUsing /\ pc = "cleared" /\ pc' = "poll"
      /\ shell' = shell /\ readUsing = cbIncr(read)
  BY HeldPlace DEF IInv, ShellFinish, cbIncr
<1>2. Count' = Count - 1 /\ Count \in 1 .. Size
  BY <1>1, HeldPlace, CountFalls
<1>3. TypeOK'
  BY <1>1, IncrMoves DEF TypeOK
<1>4. Hands'
  <2>1. Count' <= Size /\ (Count < Size => Count' < Size)
    BY <1>2, SizeAssumption
  <2>2. cbIncr(write)' = cbIncr(write)
    BY <1>1 DEF cbIncr, After
  <2> QED
    BY <1>1, <2>1, <2>2 DEF Hands, IInv
<1>5. ASSUME NEW i \in 1 .. Size PROVE PlaceOK(i)'
  <2>1. At(i)' = IF i = Size THEN At(1) ELSE At(i + 1)
    BY FinishPlaces
  <2>2. CASE i = Size
    <3>1. At(i)' = <<>>
      <4>1. PlaceOK(1)
        BY ContentsByPlace, SizeAssumption DEF IInv
      <4>2. ~(writeUsing # write /\ 1 = Count + 1)
        BY <1>2
      <4> QED
        BY <1>1, <1>2, <2>1, <2>2, <4>1, <4>2 DEF PlaceOK
    <3>2. ~(i <= Count') /\ ~(i = Count' + 1 /\ writeUsing # write)
      BY <1>2, <2>2, SizeAssumption DEF IInv, Hands
    <3> QED
      BY <1>1, <3>1, <3>2 DEF PlaceOK
  <2>3. CASE i # Size
    <3>1. i + 1 \in 1 .. Size
      BY <2>3, SizeAssumption
    <3>2. PlaceOK(i + 1)
      BY <3>1, ContentsByPlace DEF IInv
    <3>3. (i <= Count' <=> i + 1 <= Count) /\ (i = Count' + 1 <=> i + 1 = Count + 1)
      BY <1>2
    <3>4. At(i)' = At(i + 1)
      BY <2>1, <2>3
    <3>5. i + 1 # 1
      OBVIOUS
    <3> QED
      BY <1>1, <3>2, <3>3, <3>4, <3>5 DEF PlaceOK
  <2> QED
    BY <2>2, <2>3
<1> QED
  BY <1>1, <1>3, <1>4, <1>5, ContentsByPlaceNext DEF IInv, Given

LEMMA StepIInv == ASSUME IInv, [Next]_vars PROVE IInv'
<1>1. CASE \E b \in Byte : ReceiveByte(b)
  BY <1>1, ByteIInv
<1>2. CASE LineIdle
  BY <1>2, IdleIInv
<1>3. CASE ShellTask
  BY <1>3, PollIInv, InputIInv, ClearIInv, FinishIInv DEF ShellTask
<1>4. CASE UNCHANGED vars
  <2>1. Count' = Count
    BY <1>4 DEF Count, vars
  <2> QED
    BY <1>4, <2>1 DEF IInv, TypeOK, Hands, Contents, Given, vars, cbIncr, After, Slot
<1> QED
  BY <1>1, <1>2, <1>3, <1>4 DEF Next

\* The shell and the interrupt never meet in a node, whatever the number of
\* nodes and the length of a line.
THEOREM RingInvariant == Spec => []IInv
BY InitIInv, StepIInv, PTL DEF Spec

\* What the shell executes is not written while it does.
THEOREM ShellReadsStableLine == Spec => HeldIsStable
<1>1. ASSUME IInv, [Next]_vars, pc \in {"got", "given"}, pc' = pc
      PROVE  node'[Slot(readUsing)] = node[Slot(readUsing)]
  <2>1. readUsing = After(read, 1) /\ node[Slot(readUsing)] = At(1) /\ Count \in 1 .. Size
    BY <1>1, HeldPlace
  <2>2. CASE \E b \in Byte : ReceiveByte(b)
    <3>1. At(1)' = At(1)
      BY <1>1, <2>1, <2>2, BytePlaces, SizeAssumption
    <3> QED
      BY <2>1, <2>2, <3>1 DEF At, ReceiveByte
  <2>3. CASE LineIdle \/ UNCHANGED vars
    BY <2>3 DEF LineIdle, vars
  <2>4. CASE ShellTask
    BY <1>1, <2>4 DEF ShellTask, ShellPoll, ShellInput, ShellClear, ShellFinish
  <2> QED
    BY <1>1, <2>2, <2>3, <2>4 DEF Next
<1> QED
  BY <1>1, RingInvariant, PTL DEF Spec, HeldIsStable

-----------------------------------------------------------------------------
(* The ring implements the queue of lines.                                 *)

Held == IF Busy THEN 1 ELSE 0

Typing == IF write = writeUsing THEN <<>> ELSE node[Slot(writeUsing)]

\* The unread lines are the finished places after the held one.
UnreadPlaces ==
  /\ Count - Held \in Nat
  /\ Unread = [i \in 1 .. Count - Held |-> node[Slot(After(read, i + Held))]]
  /\ Unread \in Seq(Seq(Byte))
  /\ Len(Unread) = Count - Held

LEMMA UnreadSeq == IInv => UnreadPlaces
<1> SUFFICES ASSUME IInv PROVE UnreadPlaces
  OBVIOUS
<1>1. Count \in 0 .. Size /\ Held \in {0, 1} /\ (Held = 1 => Count > 0)
  BY CountRange, SizeAssumption DEF IInv, Hands, Held, Busy
<1>2. Count - Held \in Nat
  BY <1>1
<1>3. Unread = [i \in 1 .. Count - Held |-> node[Slot(After(read, i + Held))]]
  BY DEF Unread, Held
<1>4. ASSUME NEW i \in 1 .. Count - Held
      PROVE  node[Slot(After(read, i + Held))] \in Seq(Byte)
  <2>1. i + Held \in 1 .. Size
    BY <1>1, SizeAssumption
  <2> QED
    BY <2>1, AtNode DEF IInv, At
<1> QED
  BY <1>2, <1>3, <1>4 DEF UnreadPlaces

LEMMA UnreadSeqNext == IInv' => UnreadPlaces'
BY UnreadSeq, PTL

\* The line being received is the place after the finished ones.
LEMMA TypingPlace ==
  ASSUME IInv, Count < Size
  PROVE  /\ Typing = At(Count + 1)
         /\ writeUsing # write => writeUsing = After(read, Count + 1)
<1>1. Count \in 0 .. Size - 1 /\ Count + 1 \in 1 .. Size
  BY CountRange, SizeAssumption DEF IInv
<1>2. PlaceOK(Count + 1)
  BY <1>1, ContentsByPlace DEF IInv
<1>3. CASE write = writeUsing
  BY <1>1, <1>2, <1>3 DEF Typing, PlaceOK
<1>4. CASE write # writeUsing
  <2>1. writeUsing = After(read, Count + 1)
    BY <1>1, <1>4, NextPlace DEF IInv, Hands
  <2> QED
    BY <1>4, <2>1 DEF Typing, At
<1> QED
  BY <1>3, <1>4

\* A sequence that is another one and an element more.
LEMMA AppendIs ==
  ASSUME NEW S, NEW s \in Seq(S), NEW t \in Seq(S), NEW e \in S,
         Len(t) = Len(s) + 1, t[Len(t)] = e,
         \A i \in 1 .. Len(s) : t[i] = s[i]
  PROVE  t = Append(s, e)
OBVIOUS

\* A sequence that is another one without its first element.
LEMMA TailIs ==
  ASSUME NEW S, NEW s \in Seq(S), NEW t \in Seq(S), s # <<>>,
         Len(t) = Len(s) - 1,
         \A i \in 1 .. Len(t) : t[i] = s[i + 1]
  PROVE  t = Tail(s)
OBVIOUS

LEMMA RefineInit == ASSUME Init PROVE Queue!Init
<1>1. IInv /\ Count = 0 /\ Held = 0
  BY InitIInv DEF Init, Count, Held, Busy
<1>2. Len(Unread) = 0 /\ Unread \in Seq(Seq(Byte))
  BY <1>1, UnreadSeq DEF UnreadPlaces
<1>3. Unread = <<>>
  BY <1>2
<1> QED
  BY <1>3 DEF Init, Queue!Init, Busy

\* A finished line joins the unread ones.
LEMMA LineJoins ==
  ASSUME IInv, IInv', Count \in 0 .. Size - 1, Count' = Count + 1, Held' = Held,
         NEW e \in Seq(Byte), NEW k \in 1 .. Size, k = Count + 1, At(k)' = e,
         \A i \in 1 .. Size : i # k => At(i)' = At(i)
  PROVE  Unread' = Append(Unread, e)
<1>1. UnreadPlaces
  BY UnreadSeq
<1>2. UnreadPlaces'
  BY UnreadSeqNext
<1>3. Held \in {0, 1}
  BY DEF Held
<1>4. ASSUME NEW i \in 1 .. Count - Held PROVE Unread'[i] = Unread[i]
  <2>1. i + Held \in 1 .. Size /\ i + Held # k
    BY <1>3, SizeAssumption
  <2>2. PICK j \in 1 .. Size : j = i + Held
    BY <2>1
  <2>3. Unread[i] = At(j)
    BY <1>1, <2>2 DEF UnreadPlaces, At
  <2>4. Unread'[i] = At(j)'
    BY <1>1, <1>2, <1>3, <2>2 DEF UnreadPlaces, At
  <2> QED
    BY <2>1, <2>2, <2>3, <2>4
<1>5. Unread'[Count' - Held'] = e
  BY <1>1, <1>2, <1>3 DEF UnreadPlaces, At
<1>6. Unread \in Seq(Seq(Byte)) /\ Len(Unread) = Count - Held /\ Count - Held \in Nat
  BY <1>1 DEF UnreadPlaces
<1>7. Unread' \in Seq(Seq(Byte)) /\ Len(Unread') = Count' - Held'
  BY <1>2 DEF UnreadPlaces
<1>8. Len(Unread') = Len(Unread) + 1
  BY <1>3, <1>6, <1>7
<1>9. \A i \in 1 .. Len(Unread) : Unread'[i] = Unread[i]
  BY <1>4, <1>6
<1> QED
  BY <1>5, <1>6, <1>7, <1>8, <1>9, AppendIs

\* What happens to the places when the unread lines stay as they are.
LEMMA LinesStay ==
  ASSUME IInv, IInv', Count' - Held' = Count - Held,
         \A i \in 1 .. Count - Held :
           node'[Slot(After(read', i + Held'))] = node[Slot(After(read, i + Held))]
  PROVE  Unread' = Unread
BY UnreadSeq, UnreadSeqNext DEF UnreadPlaces

\* The shell takes the first unread line.
LEMMA LineTaken ==
  ASSUME IInv, IInv', Count \in 1 .. Size, Count' = Count, node' = node, read' = read,
         Held = 0, Held' = 1
  PROVE  Unread # <<>> /\ At(1) = Head(Unread) /\ Unread' = Tail(Unread)
<1>1. UnreadPlaces
  BY UnreadSeq
<1>2. UnreadPlaces'
  BY UnreadSeqNext
<1>3. Unread \in Seq(Seq(Byte)) /\ Len(Unread) = Count
  BY <1>1 DEF UnreadPlaces
<1>4. Unread' \in Seq(Seq(Byte)) /\ Len(Unread') = Count - 1
  BY <1>2 DEF UnreadPlaces
<1>5. ASSUME NEW i \in 1 .. Count - 1 PROVE Unread'[i] = Unread[i + 1]
  BY <1>1, <1>2 DEF UnreadPlaces
<1>6. Unread # <<>> /\ Head(Unread) = Unread[1]
  BY <1>3
<1>7. Unread[1] = At(1)
  BY <1>1 DEF UnreadPlaces, At
<1>8. Unread' = Tail(Unread)
  BY <1>3, <1>4, <1>5, <1>6, TailIs
<1> QED
  BY <1>6, <1>7, <1>8

LEMMA WaitingIsCount == ASSUME IInv PROVE Queue!Waiting = Count
<1>1. Count \in Nat
  BY CountRange DEF IInv
<1> QED
  BY <1>1, UnreadSeq DEF UnreadPlaces, Queue!Waiting, Held

LEMMA RefineByte ==
  ASSUME IInv, IInv', NEW b \in Byte, ReceiveByte(b)
  PROVE  Queue!Accept(b)
<1>1. /\ Count \in 0 .. Size - 1
      /\ Filling = After(read, Count + 1)
      /\ Filling \in Index
      /\ Len(At(Count + 1)) < NodeLen
  BY FillingPlace DEF ReceiveByte
<1>2. PICK k \in 1 .. Size : k = Count + 1
  BY <1>1, SizeAssumption
<1>3. \A i \in 1 .. Size : At(i)' = IF i = k THEN Append(At(i), b) ELSE At(i)
  BY <1>2, BytePlaces
<1>4. read' = read /\ pc' = pc /\ shell' = shell /\ writeUsing' = Filling
      /\ Received(b) = Append(At(k), b)
      /\ write' = IF b \in Eol \/ Len(Received(b)) >= NodeLen THEN Filling ELSE write
  BY <1>1, <1>2 DEF ReceiveByte, Received, At
<1>5. Typing = At(k) /\ At(k) \in Seq(Byte) /\ Filling # write
  <2>1. Filling = cbIncr(write)
    BY DEF Filling, IInv, Hands
  <2> QED
    BY <1>1, <1>2, <2>1, AtNode, TypingPlace, IncrMoves, SizeAssumption DEF IInv, TypeOK
<1>6. Held' = Held /\ Busy' = Busy
  BY <1>4 DEF Held, Busy
<1>7. Append(At(k), b) \in Seq(Byte) /\ Len(Append(At(k), b)) \in 1 .. NodeLen
  BY <1>1, <1>2, <1>5, LenAssumption
<1>8. Queue!Waiting < Size
  BY <1>1, WaitingIsCount, SizeAssumption
<1>9. CASE b \in Eol \/ Len(Append(At(k), b)) = NodeLen
  <2>1. write' = Filling /\ Typing' = <<>>
    BY <1>4, <1>9, LenAssumption DEF Typing
  <2>2. Count' = Count + 1
    <3>1. Filling = cbIncr(write)
      BY DEF Filling, IInv, Hands
    <3> QED
      BY <1>1, <1>4, <2>1, <3>1, CountMoves, SizeAssumption DEF IInv
  <2>3. Unread' = Append(Unread, Append(At(k), b))
    BY <1>1, <1>2, <1>3, <1>6, <1>7, <2>2, LineJoins
  <2> QED
    BY <1>4, <1>5, <1>6, <1>8, <1>9, <2>1, <2>3 DEF Queue!Accept, Typing
<1>10. CASE ~(b \in Eol \/ Len(Append(At(k), b)) = NodeLen)
  <2>1. write' = write
    BY <1>4, <1>7, <1>10, LenAssumption
  <2>2. Typing' = Append(At(k), b)
    <3>1. node'[Slot(Filling)] = At(k)'
      BY <1>1, <1>2, <1>4 DEF At
    <3> QED
      BY <1>3, <1>4, <1>5, <2>1, <3>1 DEF Typing
  <2>3. Count' = Count
    BY <1>4, <2>1 DEF Count
  <2>4. ASSUME NEW i \in 1 .. Count - Held
        PROVE  node'[Slot(After(read', i + Held'))] = node[Slot(After(read, i + Held))]
    <3>1. Held \in {0, 1}
      BY DEF Held
    <3>2. PICK j \in 1 .. Size : j = i + Held
      BY <1>1, <3>1, SizeAssumption
    <3> QED
      BY <1>1, <1>2, <1>3, <1>6, <3>1, <3>2 DEF At
  <2>5. Unread' = Unread
    BY <1>6, <2>3, <2>4, LinesStay
  <2> QED
    BY <1>4, <1>5, <1>6, <1>8, <1>10, <2>2, <2>5 DEF Queue!Accept, Typing
<1> QED
  BY <1>9, <1>10

LEMMA RefineIdle == ASSUME IInv, IInv', LineIdle PROVE Queue!Pause
<1>1. writeUsing = cbIncr(write) /\ Count < Size /\ writeUsing # write
  BY DEF IInv, Hands, LineIdle
<1>2. read' = read /\ node' = node /\ pc' = pc /\ shell' = shell /\ write' = writeUsing
      /\ writeUsing' = writeUsing
  BY DEF LineIdle
<1>3. Count \in 0 .. Size - 1 /\ Count' = Count + 1
  BY <1>1, <1>2, CountRange, CountMoves, SizeAssumption DEF IInv
<1>4. PICK k \in 1 .. Size : k = Count + 1
  BY <1>3, SizeAssumption
<1>5. Typing = At(k) /\ At(k) \in Seq(Byte) /\ Typing = node[Slot(writeUsing)]
  BY <1>1, <1>4, TypingPlace, AtNode DEF IInv, Typing
<1>6. At(k)' = At(k) /\ (\A i \in 1 .. Size : i # k => At(i)' = At(i))
  BY <1>2 DEF At
<1>7. Held' = Held /\ Busy' = Busy
  BY <1>2 DEF Held, Busy
<1>8. Unread' = Append(Unread, At(k))
  BY <1>3, <1>4, <1>5, <1>6, <1>7, LineJoins
<1>9. Typing' = <<>>
  BY <1>2 DEF Typing
<1> QED
  BY <1>1, <1>2, <1>5, <1>7, <1>8, <1>9 DEF Queue!Pause, Typing, LineIdle

LEMMA RefinePoll == ASSUME IInv, IInv', ShellPoll PROVE UNCHANGED Queue!vars
<1>1. read' = read /\ write' = write /\ writeUsing' = writeUsing /\ shell' = shell
      /\ node' = node /\ Busy' = Busy /\ Held' = Held
  BY DEF ShellPoll, Busy, Held
<1>2. Count' = Count
  BY <1>1 DEF Count
<1>3. Unread' = Unread
  BY <1>1, <1>2, LinesStay
<1> QED
  BY <1>1, <1>3 DEF Queue!vars

LEMMA RefineInput == ASSUME IInv, IInv', ShellInput PROVE Queue!Give
<1>1. read' = read /\ write' = write /\ writeUsing' = writeUsing /\ node' = node
      /\ shell' = node[Slot(readUsing)] /\ ~Busy /\ Busy' /\ Held = 0 /\ Held' = 1
  BY DEF ShellInput, Busy, Held
<1>2. Count' = Count
  BY <1>1 DEF Count
<1>3. node[Slot(readUsing)] = At(1) /\ Count \in 1 .. Size
  BY HeldPlace DEF ShellInput
<1>4. Unread # <<>> /\ At(1) = Head(Unread) /\ Unread' = Tail(Unread)
  BY <1>1, <1>2, <1>3, LineTaken
<1> QED
  BY <1>1, <1>3, <1>4 DEF Queue!Give, Busy

LEMMA RefineClear == ASSUME IInv, IInv', ShellClear PROVE UNCHANGED Queue!vars
<1>1. read' = read /\ write' = write /\ writeUsing' = writeUsing /\ shell' = shell
      /\ Busy' = Busy /\ Held' = 1 /\ Held = 1 /\ pc # "poll"
  BY DEF ShellClear, Busy, Held
<1>2. \A i \in 1 .. Size : At(i)' = IF i = 1 THEN <<>> ELSE At(i)
  BY ClearPlaces
<1>3. Count' = Count /\ Count \in 1 .. Size
  BY <1>1, HeldPlace DEF Count
<1>4. ASSUME NEW i \in 1 .. Count - Held
      PROVE  node'[Slot(After(read', i + Held'))] = node[Slot(After(read, i + Held))]
  <2>1. PICK j \in 2 .. Size : j = i + 1
    BY <1>1, <1>3, SizeAssumption
  <2>2. At(j)' = At(j)
    BY <1>2, <2>1
  <2> QED
    BY <1>1, <2>1, <2>2 DEF At
<1>5. Unread' = Unread
  BY <1>1, <1>3, <1>4, LinesStay
<1>6. writeUsing # write => node'[Slot(writeUsing)] = node[Slot(writeUsing)]
  <2> SUFFICES ASSUME writeUsing # write
               PROVE  node'[Slot(writeUsing)] = node[Slot(writeUsing)]
    OBVIOUS
  <2>1. Count < Size
    BY DEF IInv, Hands
  <2>2. writeUsing = After(read, Count + 1)
    BY <2>1, TypingPlace
  <2>3. PICK k \in 2 .. Size : k = Count + 1
    BY <1>3, <2>1, SizeAssumption
  <2>4. At(k)' = At(k)
    BY <1>2, <2>3
  <2> QED
    BY <1>1, <2>2, <2>3, <2>4 DEF At
<1> QED
  BY <1>1, <1>5, <1>6 DEF Queue!vars

LEMMA RefineFinish == ASSUME IInv, IInv', ShellFinish PROVE Queue!Done
<1>1. read' = cbIncr(read) /\ write' = write /\ writeUsing' = writeUsing /\ shell' = shell
      /\ node' = node /\ Busy /\ ~Busy' /\ Held = 1 /\ Held' = 0 /\ pc # "poll"
  BY HeldPlace DEF ShellFinish, Busy, Held, cbIncr
<1>2. Count' = Count - 1 /\ Count \in 1 .. Size
  BY <1>1, HeldPlace, CountFalls DEF IInv
<1>3. ASSUME NEW i \in 1 .. Count - Held
      PROVE  node'[Slot(After(read', i + Held'))] = node[Slot(After(read, i + Held))]
  <2>1. i \in 0 .. Size - 1 /\ i + Held' = i
    BY <1>1, <1>2, SizeAssumption
  <2>2. After(read', i) = After(read, i + 1)
    BY <1>1, <2>1, AfterNext DEF IInv, TypeOK
  <2> QED
    BY <1>1, <2>1, <2>2
<1>4. Unread' = Unread
  BY <1>1, <1>2, <1>3, LinesStay
<1> QED
  BY <1>1, <1>4 DEF Queue!Done

\* The ring implements the queue of lines for every number of nodes and every
\* line length.
THEOREM RingDeliversLines == Spec => DeliversLines
<1>1. Init => Queue!Init
  BY RefineInit
<1>2. ASSUME IInv, IInv', [Next]_vars PROVE [Queue!Next]_(Queue!vars)
  <2>1. CASE \E b \in Byte : ReceiveByte(b)
    BY <1>2, <2>1, RefineByte DEF Queue!Next
  <2>2. CASE LineIdle
    BY <1>2, <2>2, RefineIdle DEF Queue!Next
  <2>3. CASE ShellTask
    BY <1>2, <2>3, RefinePoll, RefineInput, RefineClear, RefineFinish
       DEF ShellTask, Queue!Next
  <2>4. CASE UNCHANGED vars
    <3>1. Count' = Count /\ Held' = Held /\ Busy' = Busy
      BY <2>4 DEF Count, Held, Busy, vars
    <3>2. Unread' = Unread
      BY <1>2, <2>4, <3>1, LinesStay DEF vars
    <3> QED
      BY <2>4, <3>1, <3>2 DEF Queue!vars, vars
  <2> QED
    BY <1>2, <2>1, <2>2, <2>3, <2>4 DEF Next
<1> QED
  BY <1>1, <1>2, RingInvariant, PTL DEF Spec, DeliversLines, Queue!Spec
=============================================================================
