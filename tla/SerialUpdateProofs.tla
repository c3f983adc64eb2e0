------------------------- MODULE SerialUpdateProofs -------------------------
(***************************************************************************)
(* Theorems about SerialUpdate, for any sector size, any files, any number *)
(* of transfers and any way of cutting them into blocks.                   *)
(***************************************************************************)
EXTENDS SerialUpdate, SequenceTheorems, TLAPS

-----------------------------------------------------------------------------
(* One slot                                                                *)

\* A slot lies in the area, and is one sector.
LEMMA SlotIs ==
  ASSUME NEW a \in 0 .. Sector - 1
  PROVE  a \in Address /\ SectorOf(a) = 0
<1>1. a \in Nat /\ a < Sector
  BY SectorAssumption
<1>2. Sector <= Area
  BY SectorAssumption, AreaAssumption
<1>3. a \div Sector = 0
  BY <1>1, SectorAssumption
<1>4. a \in 0 .. Area - 1
  BY <1>1, <1>2, AreaAssumption, SectorAssumption
<1>5. QED
  BY <1>3, <1>4 DEF Address, SectorOf

\* What a tree is made of.
LEMMA TreeIs ==
  ASSUME NEW k, NEW good, NEW n \in Nat
  PROVE  /\ Len(Tree(k, good, n)) = n
         /\ \A i \in 1 .. n : Tree(k, good, n)[i] = <<k, IF good THEN "dtb" ELSE "bad", i, n>>
         /\ Tree(k, good, n) \in Seq({Tree(k, good, n)[i] : i \in 1 .. n})
         /\ n > 0 => Tree(k, good, n) # None
<1> DEFINE t == Tree(k, good, n)
           T == {t[i] : i \in 1 .. n}
<1>1. t = [i \in 1 .. n |-> t[i]]
  BY DEF Tree
<1>2. t \in [1 .. n -> T]
  BY <1>1
<1>3. t \in Seq(T)
  BY <1>2
<1>4. Len(t) = n
  BY <1>2, <1>3
<1>5. \A i \in 1 .. n : t[i] = <<k, IF good THEN "dtb" ELSE "bad", i, n>>
  BY DEF Tree
<1>6. n > 0 => t # None
  BY <1>4 DEF None
<1>7. QED
  BY <1>3, <1>4, <1>5, <1>6

LEMMA TreeSeq ==
  ASSUME NEW k, NEW good, NEW n \in Nat
  PROVE  Tree(k, good, n) \in Seq({Tree(k, good, n)[i] : i \in 1 .. n})
  BY TreeIs

LEMMA TreeLength ==
  ASSUME NEW k, NEW good, NEW n \in Nat
  PROVE  Len(Tree(k, good, n)) = n
  BY TreeIs

\* A slot that holds a whole tree is valid.
LEMMA ValidTree ==
  ASSUME NEW k, NEW n \in 1 .. Sector, NEW cell,
         \A a \in 0 .. n - 1 : cell[a] = Tree(k, TRUE, n)[a + 1]
  PROVE  DtsValidate(cell) /\ Bound(cell) = Tree(k, TRUE, n)
<1>1. n \in Nat /\ 0 \in 0 .. n - 1
  BY SectorAssumption
<1>2. cell[0] = <<k, "dtb", 1, n>>
  <2>1. cell[0] = Tree(k, TRUE, n)[0 + 1]
    BY <1>1
  <2>2. 1 \in 1 .. n /\ 0 + 1 = 1
    BY <1>1
  <2>3. Tree(k, TRUE, n)[1] = <<k, "dtb", 1, n>>
    BY <1>1, <2>2, TreeIs
  <2>4. QED
    BY <2>1, <2>2, <2>3
<1>3. BodyLen(cell) = n /\ cell[0][1] = k /\ Len(cell[0]) = 4
  BY <1>2 DEF BodyLen
<1>4. ASSUME NEW i \in 1 .. n
      PROVE  cell[0 + i - 1] = Tree(k, TRUE, n)[i]
  <2>1. i - 1 \in 0 .. n - 1 /\ (i - 1) + 1 = i /\ 0 + i - 1 = i - 1
    BY <1>1
  <2>2. cell[i - 1] = Tree(k, TRUE, n)[(i - 1) + 1]
    BY <2>1
  <2>3. QED
    BY <2>1, <2>2
<1>5. Cells(cell, 0, n) = [i \in 1 .. n |-> Tree(k, TRUE, n)[i]]
  BY <1>4 DEF Cells
<1>6. Cells(cell, 0, n) = Tree(k, TRUE, n)
  BY <1>5 DEF Tree
<1>7. QED
  BY <1>3, <1>6 DEF DtsValidate, Bound

\* One without a tree is not.
LEMMA BlankInvalid ==
  ASSUME NEW cell, cell[0] = Erased
  PROVE  ~DtsValidate(cell)
  BY DEF DtsValidate, Erased

\* Neither is one whose tree was not written to its end.
LEMMA TornInvalid ==
  ASSUME NEW k, NEW n \in 1 .. Sector, NEW cell, NEW j \in 1 .. n - 1,
         cell[0] = <<k, "dtb", 1, n>>, cell[j] = Erased
  PROVE  ~DtsValidate(cell)
<1>1. n \in Nat /\ j \in Nat /\ j + 1 \in 1 .. n
  BY SectorAssumption
<1>2. BodyLen(cell) = n /\ cell[0][1] = k
  BY DEF BodyLen
<1>3. Bound(cell)[j + 1] = Erased
  BY <1>1, <1>2 DEF Bound, Cells
<1>4. Tree(k, TRUE, n)[j + 1] = <<k, "dtb", j + 1, n>>
  BY <1>1, TreeIs
<1>5. <<k, "dtb", j + 1, n>> # Erased
  BY DEF Erased
<1>6. Bound(cell) # Tree(k, TRUE, n)
  BY <1>3, <1>4, <1>5
<1>7. QED
  BY <1>2, <1>6 DEF DtsValidate

\* Whatever is bound is a whole tree.
IsTree(t) == t[1][4] \in 1 .. Sector /\ t = Tree(t[1][1], TRUE, t[1][4])

LEMMA IsTreeIs ==
  ASSUME NEW t, IsTree(t)
  PROVE  /\ t # None
         /\ \E k : \E n \in 1 .. Sector : t = Tree(k, TRUE, n)
<1> DEFINE k == t[1][1]
           n == t[1][4]
<1>1. n \in 1 .. Sector /\ t = Tree(k, TRUE, n)
  BY DEF IsTree
<1> HIDE DEF k, n
<1>2. n \in Nat /\ n > 0
  BY <1>1, SectorAssumption
<1>3. Len(t) = n
  BY <1>1, <1>2, TreeLength
<1>4. t # None
  BY <1>2, <1>3 DEF None
<1>5. QED
  BY <1>1, <1>4

LEMMA LoadedIsTree == IsTree(Loaded)
<1>1. ASSUME NEW cell, DtsValidate(cell)
      PROVE  IsTree(Bound(cell))
  <2> DEFINE n == BodyLen(cell)
  <2>1. n \in 1 .. Sector /\ Bound(cell) = Tree(cell[0][1], TRUE, n)
    BY <1>1 DEF DtsValidate
  <2>2. n \in Nat /\ 1 \in 1 .. n
    BY <2>1, SectorAssumption
  <2>3. Bound(cell)[1] = cell[0 + 1 - 1]
    BY <2>2 DEF Bound, Cells
  <2>4. Bound(cell)[1] = cell[0]
    BY <2>3
  <2>5. QED
    BY <2>1, <2>4 DEF IsTree, BodyLen
<1>2. IsTree(Fallback)
  <2>1. Sector \in Nat /\ 1 \in 1 .. Sector /\ Sector \in 1 .. Sector
    BY SectorAssumption
  <2>2. Tree(0, TRUE, Sector)[1] = <<0, "dtb", 1, Sector>>
    BY <2>1, TreeIs
  <2> DEFINE t == <<0, "dtb", 1, Sector>>
  <2>3. t[4] = Sector /\ t[1] = 0 /\ Fallback[1] = t
    BY <2>2 DEF Fallback
  <2>4. QED
    BY <2>1, <2>3 DEF IsTree, Fallback
<1>3. QED
  BY <1>1, <1>2 DEF Loaded

-----------------------------------------------------------------------------
(* A device tree is kept                                                   *)

Shapes == file \in File /\ num \in Nat /\ "phase" \in DOMAIN st

TreesKept == Shapes /\ TreeInv /\ TreeKept

\* What a device tree looks like.
LEMMA ContentIs ==
  ASSUME file \in File, file.kind = "dtb"
  PROVE  /\ Content = Tree(num, file.good, file.size)
         /\ file.size \in Nat \ {0} /\ file.good \in BOOLEAN
         /\ Content \in Seq({Content[i] : i \in 1 .. file.size})
         /\ Len(Content) = file.size
<1>1. file.size \in Nat \ {0} /\ file.good \in BOOLEAN
  BY FileAssumption
<1>2. Content = Tree(num, file.good, file.size)
  BY DEF Content
<1>3. Tree(num, file.good, file.size)
        \in Seq({Tree(num, file.good, file.size)[i] : i \in 1 .. file.size})
  BY <1>1, TreeIs
<1>4. Len(Tree(num, file.good, file.size)) = file.size
  <2>1. file.size \in Nat
    BY <1>1
  <2>2. QED
    BY ONLY <2>1, TreeLength
<1>5. QED
  BY <1>1, <1>2, <1>3, <1>4

\* An erased sector holds the beginning of nothing.
LEMMA ErasedSlot ==
  ASSUME NEW cell, NEW a \in 0 .. Sector - 1
  PROVE  Erase(cell, {0})[a] = Erased
  BY SlotIs DEF Erase

\* A sector holds the first g units of s, and nothing else.
Part(cell, s, g) ==
  /\ \A a \in 0 .. g - 1 : cell[a] = s[a + 1]
  /\ \A a \in g .. Sector - 1 : cell[a] = Erased

\* What is programmed behind the beginning of something continues it, and
\* leaves the rest of the sector erased.
LEMMA ProgramContinues ==
  ASSUME NEW T, NEW s \in Seq(T), NEW g \in Nat, NEW n \in Nat, g + n <= Len(s),
         NEW cell, Part(cell, s, g), g + n <= Sector
  PROVE  Part(Program(cell, g, SubSeq(s, g + 1, g + n)), s, g + n)
<1> DEFINE data == SubSeq(s, g + 1, g + n)
           new == Program(cell, g, data)
<1>1. /\ Len(data) = n
      /\ \A i \in 1 .. n : data[i] = s[g + i]
  OBVIOUS
<1>0. /\ \A a \in 0 .. g - 1 : cell[a] = s[a + 1]
      /\ \A a \in g .. Sector - 1 : cell[a] = Erased
  BY DEF Part
<1>2. ASSUME NEW a \in 0 .. Sector - 1
      PROVE  new[a] = IF ~(g <= a /\ a < g + n) THEN cell[a]
                      ELSE IF cell[a] = Erased THEN data[a - g + 1] ELSE Garbage
  BY <1>1, SlotIs DEF Program, Within
<1> HIDE DEF data, new
<1>3. ASSUME NEW a \in 0 .. g + n - 1
      PROVE  new[a] = s[a + 1]
  <2>1. a \in 0 .. Sector - 1 /\ a \in Nat
    BY SectorAssumption
  <2>2. CASE a < g
    <3>1. a \in 0 .. g - 1 /\ ~(g <= a)
      BY <2>1, <2>2
    <3>2. QED
      BY <1>0, <1>2, <2>1, <3>1
  <2>3. CASE g <= a
    <3>1. a \in g .. Sector - 1 /\ a < g + n /\ a - g + 1 \in 1 .. n /\ g + (a - g + 1) = a + 1
      BY <2>1, <2>3, SectorAssumption
    <3>2. new[a] = data[a - g + 1]
      BY <1>0, <1>2, <2>1, <2>3, <3>1
    <3>3. QED
      BY <1>1, <3>1, <3>2
  <2>4. QED
    BY <2>1, <2>2, <2>3
<1>4. ASSUME NEW a \in g + n .. Sector - 1
      PROVE  new[a] = Erased
  <2>1. a \in 0 .. Sector - 1 /\ a \in g .. Sector - 1 /\ ~(a < g + n)
    BY SectorAssumption
  <2>2. QED
    BY <1>0, <1>2, <2>1
<1>5. QED
  BY <1>3, <1>4 DEF new, data, Part

\* A step that has nothing to do with device trees.
LEMMA Untouched ==
  ASSUME TreesKept, trees' = trees,
         file' \in File, num' \in Nat, "phase" \in DOMAIN st',
         st'.phase # "dtb", ~DtbComing', pc' # "heal",
         pc' \notin {"erase", "second"}, pc' = "finish" => file'.kind = "upg",
         pc' = "first" => got' = 0 /\ seg' = 0
  PROVE  TreesKept'
<1>1. primary' = primary /\ backup' = backup /\ promise' = promise
  BY DEF trees
<1>2. Loaded' = Loaded
  BY <1>1 DEF Loaded
<1>3. TreeKept'
  BY <1>1, <1>2 DEF TreesKept, TreeKept
<1>4. TreeInv'
  BY <1>1 DEF TreesKept, TreeInv
<1>5. QED
  BY <1>3, <1>4 DEF TreesKept, Shapes

LEMMA ResetIs == "phase" \in DOMAIN Reset /\ Reset.phase = "off"
  BY DEF Reset

LEMMA TreesInitially == Init => TreesKept
<1>1. SUFFICES ASSUME Init PROVE TreesKept
  OBVIOUS
<1>2. Shapes
  BY <1>1, ResetIs DEF Init, Shapes
<1>3. promise = None /\ pc = "cli" /\ st.phase # "dtb"
  BY <1>1, ResetIs DEF Init, TreesInit
<1>4. TreeInv
  BY <1>3 DEF TreeInv, DtbComing
<1>5. QED
  BY <1>2, <1>3, <1>4 DEF TreesKept, TreeKept

\* In the feeding loop a device tree is known by its phase.
LEMMA FeedingOther ==
  ASSUME TreesKept, pc = "feed", st.phase # "dtb"
  PROVE  file.kind # "dtb"
  BY DEF TreesKept, TreeInv, DtbComing

\* The turns of packages and applications.
LEMMA OtherTurns ==
  ASSUME TreesKept, Header \/ Loader \/ Fw1 \/ Fw2 \/ Web \/ Ignore \/ App
  PROVE  TreesKept'
<1>1. pc = "feed" /\ st.phase # "dtb"
  BY DEF Header, Loader, Fw1, Fw2, Web, Ignore, App, Turn
<1>2. file.kind # "dtb"
  BY <1>1, FeedingOther
<1>3. trees' = trees /\ file' = file /\ num' = num /\ pc' \in {"feed", "cli"}
  BY <1>1 DEF Header, Loader, Fw1, Fw2, Web, Ignore, App, Consume, Fail
<1>4. ASSUME NEW s, "phase" \in DOMAIN s, NEW rest
      PROVE  "phase" \in DOMAIN Advance(s, rest) /\ Advance(s, rest).phase # "dtb"
  BY <1>4 DEF Advance
<1>5. "phase" \in DOMAIN st
  BY DEF TreesKept, Shapes
<1>6. "phase" \in DOMAIN st' /\ st'.phase # "dtb"
  <2>1. CASE Header
    <3> DEFINE s == [st EXCEPT !.hdr = st.hdr + AtMost(Hdr - st.hdr)]
    <3>1. "phase" \in DOMAIN s /\ s.phase # "dtb"
      BY <1>1, <1>5
    <3>2. \/ st' = s \/ st' = [s EXCEPT !.phase = "loader"]
          \/ st' = Advance(s, {"fw1", "fw2", "web"}) \/ st' = Reset
      BY <2>1 DEF Header, Fail
    <3>3. QED
      BY <3>1, <3>2, <1>4, ResetIs
  <2>2. CASE Loader
    <3> DEFINE n == file.loader - Len(st.loader)
               s == [st EXCEPT !.loader = @ \o Chunk(n), !.crc = @ \o Chunk(n)]
    <3>1. "phase" \in DOMAIN s /\ s.phase # "dtb"
      BY <1>1, <1>5
    <3>2. st' = s \/ st' = Advance(s, {"fw1", "fw2", "web"}) \/ st' = Reset
      BY <2>2 DEF Loader, Fail
    <3>3. QED
      BY <3>1, <3>2, <1>4, ResetIs
  <2>3. CASE Fw1
    <3> DEFINE n == file.fw1 - st.fw1
               s == [st EXCEPT !.fw1 = @ + AtMost(n), !.crc = @ \o Chunk(n)]
    <3>1. "phase" \in DOMAIN s /\ s.phase # "dtb"
      BY <1>1, <1>5
    <3>2. st' = s \/ st' = Advance(s, {"fw2", "web"})
      BY <2>3 DEF Fw1
    <3>3. QED
      BY <3>1, <3>2, <1>4
  <2>4. CASE Fw2
    <3> DEFINE n == file.fw2 - st.fw2
               s == [st EXCEPT !.fw2 = @ + AtMost(n), !.crc = @ \o Chunk(n)]
    <3>1. "phase" \in DOMAIN s /\ s.phase # "dtb"
      BY <1>1, <1>5
    <3>2. st' = s \/ st' = Advance(s, {"web"})
      BY <2>4 DEF Fw2
    <3>3. QED
      BY <3>1, <3>2, <1>4
  <2>5. CASE Web
    <3> DEFINE n == file.web - Len(st.web)
               s == [st EXCEPT !.web = @ \o Chunk(n), !.crc = @ \o Chunk(n)]
    <3>1. "phase" \in DOMAIN s /\ s.phase # "dtb"
      BY <1>1, <1>5
    <3>2. st' = s \/ st' = Advance(s, {})
      BY <2>5 DEF Web
    <3>3. QED
      BY <3>1, <3>2, <1>4
  <2>6. CASE Ignore \/ App
    BY <2>6, <1>1, <1>5 DEF Ignore, App
  <2>7. QED
    BY <2>1, <2>2, <2>3, <2>4, <2>5, <2>6
<1>7. ~DtbComing'
  BY <1>2, <1>3 DEF DtbComing
<1>8. file' \in File /\ num' \in Nat
  BY <1>3 DEF TreesKept, Shapes
<1>9. QED
  BY <1>3, <1>6, <1>7, <1>8, Untouched

\* The first block decides; a device tree begins with an erase.
LEMMA DecideKeeps ==
  ASSUME TreesKept, Decide
  PROVE  TreesKept'
<1>1. file' = file /\ num' = num /\ got' = got /\ seg' = seg /\ pc = "first"
  BY DEF Decide
<1>2. file' \in File /\ num' \in Nat
  BY <1>1 DEF TreesKept, Shapes
<1>3. CASE file.kind # "dtb" \/ ~DtbFits
  <2>1. trees' = trees /\ pc' \in {"recv", "cli", "hang"} /\ (pc' = "recv" => file.kind # "dtb")
    BY <1>3 DEF Decide, trees
  <2>2. \/ st' = Reset \/ st' = [Reset EXCEPT !.phase = "hdr"]
        \/ st' = [Reset EXCEPT !.phase = "app"]
    BY <1>3 DEF Decide
  <2>3. "phase" \in DOMAIN st' /\ st'.phase # "dtb"
    BY <2>2, ResetIs
  <2>4. ~DtbComing'
    BY <1>1, <2>1 DEF DtbComing
  <2>5. QED
    BY <1>2, <2>1, <2>3, <2>4, Untouched
<1>4. CASE file.kind = "dtb" /\ DtbFits
  <2>1. /\ primary' = Erase(primary, {0}) /\ promise' = None /\ backup' = backup
        /\ st' = [Reset EXCEPT !.phase = "dtb"] /\ pc' = "erase"
    BY <1>4 DEF Decide
  <2>2. "phase" \in DOMAIN st' /\ st'.phase = "dtb"
    BY <2>1, ResetIs
  <2>3. got' = 0 /\ seg' = 0
    BY <1>1 DEF TreesKept, TreeInv
  <2>4. file'.size \in Nat /\ file'.size <= Sector
    BY <1>1, <1>4, <1>2, FileAssumption DEF DtbFits
  <2>5. \A a \in 0 .. Sector - 1 : primary'[a] = Erased
    BY <2>1, ErasedSlot
  <2>6. Begun(primary, got)'
    BY <2>3, <2>5 DEF Begun
  <2>7. TreeOnItsWay'
    BY <2>1, <2>3, <2>4, <2>6 DEF TreeOnItsWay
  <2>8. TreeInv'
    BY <2>1, <2>2, <2>7, <1>1, <1>4 DEF TreeInv, DtbComing
  <2>9. QED
    BY <1>2, <2>1, <2>2, <2>8 DEF TreesKept, Shapes, TreeKept
<1>5. QED
  BY <1>3, <1>4

\* While a device tree arrives, the file stays the same.
LEMMA SameContent ==
  ASSUME file \in File, file.kind = "dtb", file' = file, num' = num
  PROVE  Content' = Content
<1>1. Content = Tree(num, file.good, file.size)
  BY ContentIs
<1>2. Content' = Tree(num', file'.good, file'.size)
  BY DEF Content
<1>3. QED
  BY <1>1, <1>2

LEMMA EraseBackupKeeps ==
  ASSUME TreesKept, EraseBackup
  PROVE  TreesKept'
<1>1. /\ pc = "erase" /\ pc' = "recv" /\ backup' = Erase(backup, {0})
      /\ primary' = primary /\ promise' = promise /\ file' = file /\ num' = num
      /\ got' = got /\ seg' = seg /\ st' = st
  BY DEF EraseBackup
<1>2. file.kind = "dtb" /\ DtbComing /\ TreeOnItsWay
  BY <1>1 DEF TreesKept, TreeInv, DtbComing
<1>3. Content' = Content
  BY <1>1, <1>2, SameContent DEF TreesKept, Shapes
<1>4. got = 0 /\ seg = 0 /\ promise = None
  BY <1>1, <1>2 DEF TreeOnItsWay
<1>5. \A a \in 0 .. Sector - 1 : backup'[a] = Erased
  BY <1>1, ErasedSlot
<1>6. Begun(backup, got)' /\ Begun(primary, got)'
  BY <1>1, <1>2, <1>3, <1>4, <1>5 DEF Begun, TreeOnItsWay
<1>7. TreeOnItsWay'
  BY <1>1, <1>2, <1>4, <1>6 DEF TreeOnItsWay
<1>8. TreeInv'
  BY <1>1, <1>2, <1>4, <1>7 DEF TreesKept, TreeInv, DtbComing
<1>9. QED
  BY <1>1, <1>4, <1>8 DEF TreesKept, Shapes, TreeKept

LEMMA DataBlockKeeps ==
  ASSUME TreesKept, NEW n \in 1 .. Block, DataBlock(n)
  PROVE  TreesKept'
<1>1. /\ pc = "recv" /\ pc' = "feed" /\ n <= file.size - got /\ seg' = n
      /\ trees' = trees /\ file' = file /\ num' = num /\ got' = got /\ st' = st
  BY DEF DataBlock, flash
<1>2. CASE file.kind # "dtb"
  <2>1. ~DtbComing' /\ st'.phase # "dtb"
    BY <1>1, <1>2 DEF DtbComing, TreesKept, TreeInv
  <2>2. QED
    BY <1>1, <2>1, Untouched DEF TreesKept, Shapes
<1>3. CASE file.kind = "dtb"
  <2>1. DtbComing /\ TreeOnItsWay
    BY <1>1, <1>3 DEF TreesKept, TreeInv, DtbComing
  <2>2. Content' = Content
    BY <1>1, <1>3, SameContent DEF TreesKept, Shapes
  <2>3. primary' = primary /\ backup' = backup /\ promise' = promise
    BY <1>1 DEF trees
  <2>4. n \in Nat /\ file.size \in Nat
    BY FileAssumption, BoundsAssumption DEF TreesKept, Shapes
  <2>5. TreeOnItsWay'
    BY <1>1, <2>1, <2>2, <2>3, <2>4 DEF TreeOnItsWay, Begun
  <2>6. TreeInv'
    BY <1>1, <1>3, <2>1, <2>3, <2>5 DEF TreesKept, TreeInv, DtbComing
  <2>7. QED
    BY <1>1, <2>1, <2>3, <2>6 DEF TreesKept, Shapes, TreeKept, TreeOnItsWay
<1>4. QED
  BY <1>2, <1>3

\* What a turn writes of a device tree goes on where the slot ends.
LEMMA SlotContinues ==
  ASSUME TreesKept, DtbComing, NEW cell, Begun(cell, got)
  PROVE  Begun(Program(cell, got, Chunk(seg)), got + seg)
<1>1. got \in Nat /\ seg \in Nat /\ got + seg <= file.size /\ file.size <= Sector
  BY DEF TreesKept, TreeInv, TreeOnItsWay
<1>2. Chunk(seg) = SubSeq(Content, got + 1, got + seg)
  BY <1>1 DEF Chunk, AtMost
<1>3. file.size \in Nat /\ file \in File /\ file.kind = "dtb"
  BY FileAssumption DEF TreesKept, Shapes, DtbComing
<1> DEFINE T == {Content[i] : i \in 1 .. file.size}
<1>4. Content \in Seq(T) /\ Len(Content) = file.size
  BY <1>3, ContentIs
<1>5. got + seg <= Len(Content) /\ got + seg <= Sector
  BY <1>1, <1>3, <1>4, SectorAssumption
<1>6. Part(cell, Content, got)
  BY DEF Begun, Part
<1> HIDE DEF T
<1>7. Part(Program(cell, got, SubSeq(Content, got + 1, got + seg)), Content, got + seg)
  BY ONLY <1>1, <1>4, <1>5, <1>6, ProgramContinues
<1>8. QED
  BY <1>2, <1>7 DEF Begun, Part

LEMMA DtbPrimaryKeeps ==
  ASSUME TreesKept, DtbPrimary
  PROVE  TreesKept'
<1>1. /\ pc = "feed" /\ st.phase = "dtb" /\ pc' = "second"
      /\ primary' = Program(primary, got, Chunk(seg))
      /\ backup' = backup /\ promise' = promise /\ file' = file /\ num' = num
      /\ got' = got /\ seg' = seg /\ st' = st
  BY DEF DtbPrimary, Turn
<1>2. DtbComing /\ TreeOnItsWay /\ file.kind = "dtb"
  BY <1>1 DEF TreesKept, TreeInv, DtbComing
<1>3. Content' = Content
  BY <1>1, <1>2, SameContent DEF TreesKept, Shapes
<1>4. Begun(primary, got) /\ Begun(backup, got) /\ promise = None
  BY <1>1, <1>2 DEF TreeOnItsWay
<1>5. Begun(Program(primary, got, Chunk(seg)), got + seg)
  BY <1>2, <1>4, SlotContinues
<1>6. Begun(primary, got + seg)' /\ Begun(backup, got)'
  BY <1>1, <1>3, <1>4, <1>5 DEF Begun
<1>7. TreeOnItsWay'
  BY <1>1, <1>2, <1>6 DEF TreeOnItsWay
<1>8. TreeInv'
  BY <1>1, <1>2, <1>4, <1>7 DEF TreesKept, TreeInv, DtbComing
<1>9. QED
  BY <1>1, <1>4, <1>8 DEF TreesKept, Shapes, TreeKept

LEMMA DtbBackupKeeps ==
  ASSUME TreesKept, DtbBackup
  PROVE  TreesKept'
<1>1. /\ pc = "second" /\ pc' = "feed"
      /\ backup' = Program(backup, got, Chunk(seg))
      /\ primary' = primary /\ promise' = promise /\ file' = file /\ num' = num
      /\ got' = got + seg /\ seg' = 0 /\ st' = st
  BY DEF DtbBackup
<1>2. DtbComing /\ TreeOnItsWay /\ file.kind = "dtb"
  BY <1>1 DEF TreesKept, TreeInv, DtbComing
<1>3. Content' = Content
  BY <1>1, <1>2, SameContent DEF TreesKept, Shapes
<1>4. Begun(primary, got + seg) /\ Begun(backup, got) /\ promise = None
  BY <1>1, <1>2 DEF TreeOnItsWay
<1>5. Begun(Program(backup, got, Chunk(seg)), got + seg)
  BY <1>2, <1>4, SlotContinues
<1>6. Begun(primary, got)' /\ Begun(backup, got)'
  BY <1>1, <1>3, <1>4, <1>5 DEF Begun
<1>7. TreeOnItsWay'
  BY <1>1, <1>2, <1>6 DEF TreeOnItsWay
<1>8. TreeInv'
  BY <1>1, <1>2, <1>4, <1>7 DEF TreesKept, TreeInv, DtbComing
<1>9. QED
  BY <1>1, <1>4, <1>8 DEF TreesKept, Shapes, TreeKept

\* A tree that has come whole is the one that is bound next.
LEMMA ReturnKeeps ==
  ASSUME TreesKept, Return
  PROVE  TreesKept'
<1>1. /\ pc = "feed" /\ seg = 0 /\ pc' \in {"recv", "finish", "success"}
      /\ primary' = primary /\ backup' = backup /\ file' = file /\ num' = num
      /\ got' = got /\ seg' = seg /\ st' = st
  BY DEF Return
<1>2. file' \in File /\ num' \in Nat /\ "phase" \in DOMAIN st' /\ file \in File
  BY <1>1 DEF TreesKept, Shapes
<1>3. CASE file.kind # "dtb"
  <2>1. promise' = promise /\ (pc' = "finish" => file.kind = "upg")
    BY <1>3 DEF Return
  <2>2. ~DtbComing' /\ st'.phase # "dtb"
    BY <1>1, <1>3 DEF DtbComing, TreesKept, TreeInv
  <2>3. trees' = trees
    BY <1>1, <2>1 DEF trees
  <2>4. QED
    BY <1>1, <1>2, <2>1, <2>2, <2>3, Untouched
<1>4. CASE file.kind = "dtb"
  <2>1. DtbComing /\ TreeOnItsWay
    BY <1>1, <1>4 DEF TreesKept, TreeInv, DtbComing
  <2>2. Content' = Content
    BY <1>1, <1>2, <1>4, SameContent DEF TreesKept, Shapes
  <2>3. /\ got \in Nat /\ got <= file.size /\ file.size <= Sector /\ promise = None
        /\ Begun(primary, got) /\ Begun(backup, got)
    BY <1>1, <2>1 DEF TreeOnItsWay
  <2>4. Begun(primary, got)' /\ Begun(backup, got)'
    BY <1>1, <2>2, <2>3 DEF Begun
  <2>5. pc' \in {"recv", "success"}
    BY <1>4 DEF Return
  <2>6. pc' # "success" => promise' = None
    BY <2>3 DEF Return
  <2>7. TreeOnItsWay'
    BY <1>1, <2>1, <2>4, <2>5, <2>6 DEF TreeOnItsWay
  <2>8. promise' # None => IsTree(promise') /\ Loaded' = promise'
    <3>1. SUFFICES ASSUME promise' # None
                   PROVE  IsTree(promise') /\ Loaded' = promise'
      OBVIOUS
    <3>2. pc' = "success" /\ file.good /\ promise' = Content /\ ~(got < file.size)
      BY <3>1, <2>3 DEF Return
    <3>3. file.size \in Nat \ {0} /\ Content = Tree(num, TRUE, file.size)
      BY <1>2, <1>4, <3>2, ContentIs
    <3>4. file.size \in 1 .. Sector /\ got = file.size
      BY <2>3, <3>2, <3>3, SectorAssumption
    <3>5. \A a \in 0 .. file.size - 1 : primary[a] = Tree(num, TRUE, file.size)[a + 1]
      BY <2>3, <3>3, <3>4 DEF Begun
    <3>6. DtsValidate(primary) /\ Bound(primary) = Tree(num, TRUE, file.size)
      BY <3>4, <3>5, ValidTree
    <3>7. Loaded = promise'
      BY <3>2, <3>3, <3>6 DEF Loaded
    <3>8. Loaded' = Loaded
      BY <1>1 DEF Loaded
    <3>9. QED
      BY <3>7, <3>8, LoadedIsTree
  <2>9. TreeInv'
    BY <1>1, <1>4, <2>1, <2>5, <2>7, <2>8 DEF TreesKept, TreeInv, DtbComing, IsTree
  <2>10. QED
    BY <1>2, <2>8, <2>9 DEF TreesKept, Shapes, TreeKept
<1>5. QED
  BY <1>3, <1>4

\* Binding a tree promises it; the erase that begins the healing takes
\* nothing away.
LEMMA DtsLoadDefaultKeeps ==
  ASSUME TreesKept, DtsLoadDefault
  PROVE  TreesKept'
<1>1. /\ pc = "cli" /\ promise' = Loaded /\ backup' = backup
      /\ file' = file /\ num' = num /\ st' = st
  BY DEF DtsLoadDefault, HealErase
<1>2. IsTree(promise')
  BY <1>1, LoadedIsTree
<1>3. promise' # None
  BY <1>2, IsTreeIs
<1>4. st'.phase # "dtb"
  BY <1>1 DEF TreesKept, TreeInv, DtbComing
<1>5. CASE DtsValidate(primary)
  <2>1. primary' = primary /\ pc' = pc
    BY <1>5 DEF DtsLoadDefault
  <2>2. Loaded' = promise'
    BY <1>1, <2>1 DEF Loaded
  <2>3. TreeInv'
    BY <1>1, <1>2, <1>4, <2>1 DEF TreeInv, DtbComing, IsTree
  <2>4. QED
    BY <1>1, <2>2, <2>3 DEF TreesKept, Shapes, TreeKept
<1>6. CASE ~DtsValidate(primary)
  <2>1. primary' = Erase(primary, {0}) /\ pc' = "heal"
    BY <1>6 DEF DtsLoadDefault, HealErase
  <2>2. \A a \in 0 .. Sector - 1 : primary'[a] = Erased
    BY <2>1, ErasedSlot
  <2>3. ~DtsValidate(primary')
    BY <2>2, BlankInvalid, SectorAssumption
  <2>4. Loaded' = promise'
    BY <1>1, <1>6, <2>3 DEF Loaded
  <2>5. TreeInv'
    BY <1>1, <1>2, <1>3, <1>4, <2>1, <2>2 DEF TreeInv, DtbComing, IsTree
  <2>6. QED
    BY <1>1, <2>4, <2>5 DEF TreesKept, Shapes, TreeKept
<1>7. QED
  BY <1>5, <1>6

\* However much of the tree is rewritten, it is what is bound next: either
\* all of it is there, or the slot is as good as empty.
LEMMA DtsHealKeeps ==
  ASSUME TreesKept, NEW n \in 0 .. Sector, DtsHeal(n)
  PROVE  TreesKept'
<1>1. /\ pc = "heal" /\ pc' = "cli" /\ n <= Len(promise)
      /\ primary' = Program(primary, 0, SubSeq(promise, 1, n))
      /\ promise' = promise /\ backup' = backup
      /\ file' = file /\ num' = num /\ st' = st
  BY DEF DtsHeal, HealProgram
<1>2. /\ promise # None /\ \A a \in 0 .. Sector - 1 : primary[a] = Erased
      /\ IsTree(promise) /\ Loaded = promise
  BY <1>1 DEF TreesKept, TreeInv, TreeKept, IsTree
<1>0. PICK k : \E m \in 1 .. Sector : promise = Tree(k, TRUE, m)
  BY <1>2, IsTreeIs
<1>3. PICK m \in 1 .. Sector : promise = Tree(k, TRUE, m)
  BY <1>0
<1>4. m \in Nat /\ n \in Nat /\ m <= Sector /\ 1 <= m
  BY SectorAssumption
<1>5. Len(promise) = m
  BY <1>3, <1>4, TreeLength
<1>6. PICK T : promise \in Seq(T)
  <2>1. Tree(k, TRUE, m) \in Seq({Tree(k, TRUE, m)[i] : i \in 1 .. m})
    <3>1. m \in Nat
      BY <1>4
    <3>2. \A n0 \in Nat : Tree(k, TRUE, n0) \in Seq({Tree(k, TRUE, n0)[i] : i \in 1 .. n0})
      BY ONLY TreeSeq, Zenon
    <3>3. QED
      BY ONLY <3>1, <3>2, Zenon
  <2>2. QED
    BY <1>3, <2>1
<1>7. /\ \A a \in 0 .. n - 1 : primary'[a] = promise[a + 1]
      /\ \A a \in n .. Sector - 1 : primary'[a] = Erased
  <2>1. 0 \in Nat /\ 0 + n <= Len(promise) /\ 0 + n <= Sector
    BY <1>1, <1>4, <1>5
  <2>2. Part(primary, promise, 0)
    BY <1>2 DEF Part
  <2>3. Part(Program(primary, 0, SubSeq(promise, 0 + 1, 0 + n)), promise, 0 + n)
    BY ONLY <2>1, <2>2, <1>4, <1>6, ProgramContinues
  <2>4. 0 + n = n /\ 0 + 1 = 1
    BY <1>4
  <2>5. Part(primary', promise, n)
    BY <1>1, <2>3, <2>4
  <2>6. QED
    BY <2>5 DEF Part
<1>8. Loaded' = promise
  <2>1. CASE n = m
    <3>1. \A a \in 0 .. m - 1 : primary'[a] = Tree(k, TRUE, m)[a + 1]
      BY <1>3, <1>7, <2>1
    <3>2. DtsValidate(primary') /\ Bound(primary') = Tree(k, TRUE, m)
      BY <3>1, ValidTree
    <3>3. QED
      BY <1>3, <3>2 DEF Loaded
  <2>2. CASE n < m
    <3>1. ~DtsValidate(primary)
      BY <1>2, BlankInvalid, SectorAssumption
    <3>2. CASE n = 0
      <4>1. primary'[0] = Erased
        BY <1>7, <3>2, SectorAssumption
      <4>2. ~DtsValidate(primary')
        BY <4>1, BlankInvalid
      <4>3. QED
        BY <1>1, <1>2, <3>1, <4>2 DEF Loaded
    <3>3. CASE n > 0
      <4>1. primary'[0] = promise[0 + 1] /\ primary'[n] = Erased
        BY <1>4, <1>7, <2>2, <3>3, SectorAssumption
      <4>2. promise[1] = <<k, "dtb", 1, m>>
        <5>1. 1 \in 1 .. m
          BY <1>4
        <5>2. QED
          BY <1>3, <1>4, <5>1, TreeIs
      <4>3. n \in 1 .. m - 1 /\ primary'[0] = <<k, "dtb", 1, m>>
        BY <1>4, <2>2, <3>3, <4>1, <4>2
      <4>4. ~DtsValidate(primary')
        BY <4>1, <4>3, TornInvalid
      <4>5. QED
        BY <1>1, <1>2, <3>1, <4>4 DEF Loaded
    <3>4. QED
      BY <1>4, <3>2, <3>3
  <2>3. QED
    BY <1>1, <1>4, <1>5, <2>1, <2>2
<1>9. TreeInv'
  BY <1>1, <1>2 DEF TreesKept, TreeInv, DtbComing
<1>10. QED
  BY <1>1, <1>8, <1>9 DEF TreesKept, Shapes, TreeKept

\* Steps without a device tree in them.
LEMMA StillKeeps ==
  ASSUME TreesKept,
         \/ \E f \in File : Begin(f)
         \/ Finish \/ Abort \/ Reported
  PROVE  TreesKept'
<1>1. trees' = trees
  BY DEF Begin, Finish, Abort, Reported, flash
<1>2. file' \in File /\ num' \in Nat
  BY DEF Begin, Finish, Abort, Reported, TreesKept, Shapes
<1>3. st' = st \/ st' = Reset
  BY DEF Begin, Finish, Abort, Reported
<1>4. pc' \in {"first", "cli", "success"} /\ (pc' = "first" => got' = 0 /\ seg' = 0)
  BY DEF Begin, Finish, Abort, Reported
<1>5. CASE Finish
  <2>1. file.kind = "upg" /\ file' = file /\ st.phase # "dtb"
    BY <1>5 DEF Finish, TreesKept, TreeInv, DtbComing
  <2>2. ~DtbComing' /\ st'.phase # "dtb" /\ "phase" \in DOMAIN st'
    BY <1>3, <2>1, ResetIs DEF DtbComing, TreesKept, Shapes
  <2>3. QED
    BY <1>1, <1>2, <1>4, <2>2, Untouched
<1>6. CASE ~Finish
  <2>1. st' = Reset /\ pc' \in {"first", "cli"}
    BY <1>6 DEF Begin, Abort, Reported
  <2>2. ~DtbComing' /\ st'.phase # "dtb" /\ "phase" \in DOMAIN st'
    BY <2>1, ResetIs DEF DtbComing
  <2>3. QED
    BY <1>1, <1>2, <1>4, <2>2, Untouched
<1>7. QED
  BY <1>5, <1>6

LEMMA TreesStep == TreesKept /\ [Next]_vars => TreesKept'
<1>1. SUFFICES ASSUME TreesKept, [Next]_vars PROVE TreesKept'
  OBVIOUS
<1>2. CASE Next
  BY <1>1, <1>2, StillKeeps, DecideKeeps, DataBlockKeeps, OtherTurns, EraseBackupKeeps,
     DtbPrimaryKeeps, DtbBackupKeeps, ReturnKeeps, DtsLoadDefaultKeeps, DtsHealKeeps
     DEF Next, Feed
<1>3. CASE UNCHANGED vars
  <2>1. /\ primary' = primary /\ backup' = backup /\ promise' = promise
        /\ file' = file /\ num' = num /\ got' = got /\ seg' = seg
        /\ st' = st /\ pc' = pc
    BY <1>3 DEF vars, flash, trees
  <2>2. file.kind = "dtb" => Content' = Content
    BY <1>1, <2>1, SameContent DEF TreesKept, Shapes
  <2>3. DtbComing => (TreeOnItsWay => TreeOnItsWay')
    BY <2>1, <2>2 DEF TreeOnItsWay, Begun, DtbComing
  <2>4. TreeInv'
    BY <1>1, <2>1, <2>3 DEF TreesKept, TreeInv, DtbComing
  <2>5. Loaded' = Loaded
    BY <2>1 DEF Loaded
  <2>6. QED
    BY <1>1, <2>1, <2>4, <2>5 DEF TreesKept, Shapes, TreeKept
<1>4. QED
  BY <1>1, <1>2, <1>3

\* The device tree that was reported written, or bound, is the one that is
\* bound next, whatever transfers are cancelled and wherever power fails
\* while one slot heals the other.
THEOREM TreeKeptCorrect == Spec => []TreeKept
<1>1. TreesKept => TreeKept
  BY DEF TreesKept
<1>2. QED
  BY <1>1, TreesInitially, TreesStep, PTL DEF Spec

-----------------------------------------------------------------------------
(* The types, and the counters behind them                                 *)

Sections == {"hdr", "loader", "fw1", "fw2", "web", "more", "app"}

Unit == {<<k, name, i>> : k \in Nat, name \in Sections, i \in Nat}

Counting == {"loader", "fw1", "fw2", "web", "done"}

Contexts ==
  [phase : Phases, hdr : 0 .. Hdr, loader : Seq(Unit), fw1 : 0 .. file.fw1,
   fw2 : 0 .. file.fw2, web : Seq(Unit), crc : Seq(Unit)]

\* No section is counted beyond its length, no block beyond the file.
Fields ==
  /\ st \in Contexts
  /\ Len(st.loader) <= file.loader /\ Len(st.web) <= file.web
  /\ got + seg <= file.size
  /\ st.phase \in Counting => WebFits

Typed == TypeOK /\ Fields

LEMMA FileIs ==
  ASSUME file \in File
  PROVE  /\ file.loader \in Nat /\ file.fw1 \in Nat /\ file.fw2 \in Nat /\ file.web \in Nat
         /\ file.size \in Nat /\ file.size > 0 /\ file.good \in BOOLEAN
  BY FileAssumption

LEMMA UnitIs ==
  ASSUME NEW k \in Nat, NEW name \in Sections, NEW i \in Nat
  PROVE  <<k, name, i>> \in Unit
  BY DEF Unit

LEMMA FunctionIsSequence ==
  ASSUME NEW T, NEW n \in Nat, NEW f \in [1 .. n -> T]
  PROVE  f \in Seq(T) /\ Len(f) = n
<1>1. f \in Seq(T)
  OBVIOUS
<1>2. Len(f) = n
  BY <1>1
<1>3. QED
  BY <1>1, <1>2

LEMMA SectionIs ==
  ASSUME num \in Nat, NEW name \in Sections, NEW n \in Nat
  PROVE  Section(name, n) \in Seq(Unit) /\ Len(Section(name, n)) = n
<1>1. ASSUME NEW i \in 1 .. n PROVE <<num, name, i>> \in Unit
  BY UnitIs
<1>2. Section(name, n) \in [1 .. n -> Unit]
  BY <1>1 DEF Section
<1>3. QED
  BY <1>2, FunctionIsSequence

LEMMA Joined ==
  ASSUME NEW T, NEW s \in Seq(T), NEW t \in Seq(T)
  PROVE  s \o t \in Seq(T) /\ Len(s \o t) = Len(s) + Len(t)
<1>1. s \o t \in Seq(T)
  OBVIOUS
<1>2. Len(s \o t) = Len(s) + Len(t)
  OBVIOUS
<1>3. QED
  BY <1>1, <1>2

LEMMA Piece ==
  ASSUME NEW T, NEW s \in Seq(T), NEW g \in Nat, NEW n \in Nat, g + n <= Len(s)
  PROVE  SubSeq(s, g + 1, g + n) \in Seq(T) /\ Len(SubSeq(s, g + 1, g + n)) = n
<1>1. SubSeq(s, g + 1, g + n) \in Seq(T)
  OBVIOUS
<1>2. Len(SubSeq(s, g + 1, g + n)) = n
  OBVIOUS
<1>3. QED
  BY <1>1, <1>2

\* What is sent, unless it is a device tree.
LEMMA OtherContentIs ==
  ASSUME file \in File, num \in Nat, file.kind # "dtb"
  PROVE  Content \in Seq(Unit) /\ Len(Content) = file.size
<1>1. CASE file.kind = "upg"
  <2> DEFINE hdr == Section("hdr", Hdr)
             more == Section("more", file.size)
  <2>0. /\ "hdr" \in Sections /\ "more" \in Sections /\ "loader" \in Sections
        /\ "fw1" \in Sections /\ "fw2" \in Sections /\ "web" \in Sections
        /\ Hdr \in Nat
    BY BoundsAssumption DEF Sections
  <2>1. hdr \in Seq(Unit) /\ more \in Seq(Unit) /\ Len(more) = file.size
    BY <2>0, FileIs, SectionIs
  <2>2. /\ Section("loader", file.loader) \in Seq(Unit)
        /\ Section("fw1", file.fw1) \in Seq(Unit)
        /\ Section("fw2", file.fw2) \in Seq(Unit)
        /\ Section("web", file.web) \in Seq(Unit)
    BY <2>0, FileIs, SectionIs
  <2>3. Body \in Seq(Unit)
    BY <2>2, Joined DEF Body
  <2> HIDE DEF hdr, more
  <2>4. hdr \o Body \in Seq(Unit)
    BY <2>1, <2>3, Joined
  <2>5. /\ (hdr \o Body) \o more \in Seq(Unit)
        /\ Len((hdr \o Body) \o more) = Len(hdr \o Body) + file.size
    BY <2>1, <2>4, Joined
  <2>6. Content = SubSeq((hdr \o Body) \o more, 0 + 1, 0 + file.size)
    <3>1. Content = SubSeq(Section("hdr", Hdr) \o Body \o Section("more", file.size), 1, file.size)
      BY <1>1 DEF Content
    <3>2. 0 + 1 = 1 /\ 0 + file.size = file.size
      BY FileIs
    <3>3. QED
      BY ONLY <3>1, <3>2 DEF hdr, more
  <2>7. 0 + file.size <= Len((hdr \o Body) \o more) /\ file.size \in Nat
    BY <2>4, <2>5, FileIs
  <2>8. QED
    BY ONLY <2>5, <2>6, <2>7, Piece
<1>2. CASE file.kind # "upg"
  <2>1. Content = Section("app", file.size)
    BY <1>2 DEF Content
  <2>2. "app" \in Sections
    BY DEF Sections
  <2>3. QED
    BY <2>1, <2>2, FileIs, SectionIs
<1>3. QED
  BY <1>1, <1>2

LEMMA AtMostIs ==
  ASSUME Typed, NEW n \in Nat
  PROVE  /\ AtMost(n) \in Nat /\ AtMost(n) <= n /\ AtMost(n) <= seg
         /\ AtMost(seg) = seg
  BY BoundsAssumption DEF Typed, TypeOK, AtMost

\* What a turn looks at.
LEMMA ChunkIs ==
  ASSUME Typed, Shapes, file.kind # "dtb", NEW n \in Nat
  PROVE  Chunk(n) \in Seq(Unit) /\ Len(Chunk(n)) = AtMost(n)
<1>1. Content \in Seq(Unit) /\ Len(Content) = file.size /\ file.size \in Nat
  BY OtherContentIs, FileIs DEF Shapes
<1>2. AtMost(n) \in Nat /\ AtMost(n) <= seg /\ got \in Nat /\ seg \in Nat
  BY AtMostIs, BoundsAssumption, FileIs DEF Typed, TypeOK, Shapes
<1>3. got + AtMost(n) <= Len(Content)
  BY <1>1, <1>2 DEF Typed, Fields
<1>4. QED
  BY ONLY <1>1, <1>2, <1>3, Piece DEF Chunk

LEMMA CellsTyped ==
  ASSUME NEW cell
  PROVE  /\ \A sectors : DOMAIN Erase(cell, sectors) = Address
         /\ \A off, data : DOMAIN Program(cell, off, data) = Address
  BY DEF Erase, Program

LEMMA ResetTyped ==
  ASSUME file \in File
  PROVE  /\ Reset \in Contexts /\ [Reset EXCEPT !.phase = "hdr"] \in Contexts
         /\ [Reset EXCEPT !.phase = "dtb"] \in Contexts
         /\ [Reset EXCEPT !.phase = "app"] \in Contexts
         /\ Reset.loader = <<>> /\ Reset.web = <<>> /\ Reset.phase = "off"
<1>1. <<>> \in Seq(Unit) /\ 0 \in 0 .. Hdr /\ 0 \in 0 .. file.fw1 /\ 0 \in 0 .. file.fw2
  BY FileIs, BoundsAssumption
<1>2. QED
  BY <1>1 DEF Reset, Contexts, Phases

LEMMA TypedInitially == Init => Typed
<1>1. SUFFICES ASSUME Init PROVE Typed
  OBVIOUS
<1>2. file \in File /\ num = 0 /\ got = 0 /\ seg = 0 /\ st = Reset /\ pc = "cli" /\ ota = 0
  BY <1>1 DEF Init
<1>3. \A cells \in {slot1, slot2, primary, backup, web.cell} : DOMAIN cells = Address
  BY <1>1 DEF Init, TreesInit, BlankCells, Blank
<1>4. web.used \in 0 .. Area
  BY <1>1, AreaAssumption DEF Init, Blank
<1>5. TypeOK
  BY <1>2, <1>3, <1>4, FileIs, BoundsAssumption, ResetTyped DEF TypeOK, Phases
<1>6. Fields
  BY <1>2, FileIs, ResetTyped DEF Fields, Counting
<1>7. QED
  BY <1>5, <1>6 DEF Typed

LEMMA ConsumeTyped ==
  ASSUME Typed, Shapes, NEW n \in Nat, Consume(n)
  PROVE  /\ got' \in 0 .. file.size /\ seg' \in 0 .. Block
         /\ got' + seg' <= file.size
         /\ ota' = ota /\ file' = file /\ num' = num /\ pc' = pc
<1>1. AtMost(n) \in Nat /\ AtMost(n) <= seg
  BY AtMostIs
<1>2. got' = got + AtMost(n) /\ seg' = seg - AtMost(n)
  BY DEF Consume
<1>3. /\ got \in 0 .. file.size /\ seg \in 0 .. Block /\ got + seg <= file.size
      /\ file.size \in Nat /\ Block \in Nat
  BY FileIs, BoundsAssumption DEF Typed, TypeOK, Fields, Shapes
<1>4. QED
  BY ONLY <1>1, <1>2, <1>3, Consume(n) DEF Consume

LEMMA AdvanceTyped ==
  ASSUME NEW s \in Contexts, NEW rest
  PROVE  /\ Advance(s, rest) \in Contexts
         /\ Advance(s, rest).loader = s.loader /\ Advance(s, rest).web = s.web
         /\ Advance(s, rest).crc = s.crc
<1> DEFINE phase == IF "fw1" \in rest /\ file.fw1 > 0 THEN "fw1"
                    ELSE IF "fw2" \in rest /\ file.fw2 > 0 THEN "fw2"
                    ELSE IF "web" \in rest /\ file.web > 0 THEN "web" ELSE "done"
<1>1. phase \in Phases
  BY DEF Phases
<1>2. Advance(s, rest) = [s EXCEPT !.phase = phase]
  BY DEF Advance
<1> HIDE DEF phase
<1>3. QED
  BY <1>1, <1>2 DEF Contexts

\* What is left to show of a turn: its context and the flash.
LEMMA TurnTyped ==
  ASSUME Typed, Shapes,
         \/ \E n \in Nat : Consume(n)
         \/ Fail,
         st' \in Contexts, Len(st'.loader) <= file.loader, Len(st'.web) <= file.web,
         st'.phase \in Counting => WebFits,
         \A cells \in {slot1', slot2', primary', backup', web'.cell} : DOMAIN cells = Address,
         web'.used \in 0 .. Area
  PROVE  Typed'
<1>1. /\ got' \in 0 .. file.size /\ seg' \in 0 .. Block /\ got' + seg' <= file.size
      /\ ota' = ota /\ file' = file /\ num' = num
  <2>1. CASE \E n \in Nat : Consume(n)
    BY <2>1, ConsumeTyped
  <2>2. CASE Fail
    BY <2>2, FileIs, BoundsAssumption DEF Fail, Typed, TypeOK, Fields, Shapes
  <2>3. QED
    BY <2>1, <2>2
<1>2. pc' = pc \/ pc' = "cli"
  BY DEF Consume, Fail
<1>3. st'.phase \in Phases
  BY DEF Contexts
<1>4. TypeOK'
  BY <1>1, <1>2, <1>3 DEF Typed, TypeOK
<1>5. Contexts' = Contexts
  BY <1>1 DEF Contexts
<1>6. Fields'
  BY <1>1, <1>5 DEF Fields, WebFits
<1>7. QED
  BY <1>4, <1>6 DEF Typed

\* The cells and the types of the fields, as the turns find them.
LEMMA Found ==
  ASSUME Typed, Shapes
  PROVE  /\ \A cells \in {slot1, slot2, primary, backup, web.cell} : DOMAIN cells = Address
         /\ web.used \in 0 .. Area
         /\ st \in Contexts /\ st.hdr \in 0 .. Hdr
         /\ st.loader \in Seq(Unit) /\ st.web \in Seq(Unit) /\ st.crc \in Seq(Unit)
         /\ st.fw1 \in 0 .. file.fw1 /\ st.fw2 \in 0 .. file.fw2
         /\ Len(st.loader) <= file.loader /\ Len(st.web) <= file.web
         /\ st.phase \in Counting => WebFits
  BY DEF Typed, TypeOK, Fields, Contexts

LEMMA HeaderTyped ==
  ASSUME Typed, Shapes, Header
  PROVE  Typed'
<1> DEFINE n == Hdr - st.hdr
           s == [st EXCEPT !.hdr = st.hdr + AtMost(n)]
<1>1. n \in Nat /\ st.hdr \in Nat /\ Hdr \in Nat
  BY Found, BoundsAssumption
<1>2. AtMost(n) \in Nat /\ AtMost(n) <= n
  BY <1>1, AtMostIs
<1>3. st.hdr + AtMost(n) \in 0 .. Hdr
  BY <1>1, <1>2
<1>4. s \in Contexts /\ s.loader = st.loader /\ s.web = st.web /\ s.phase = st.phase
  BY <1>3, Found DEF Contexts
<1>5. Consume(n) \/ Fail
  BY DEF Header
<1>6. \/ st' = s /\ web' = web
      \/ /\ WebFits
         /\ web' = (IF file.web > 0 THEN StartWeb(web) ELSE web)
         /\ st' = [s EXCEPT !.phase = "loader"] \/ st' = Advance(s, {"fw1", "fw2", "web"})
      \/ st' = Reset /\ web' = web
  BY DEF Header, Fail
<1> HIDE DEF s
<1>7. [s EXCEPT !.phase = "loader"] \in Contexts
      /\ [s EXCEPT !.phase = "loader"].loader = s.loader
      /\ [s EXCEPT !.phase = "loader"].web = s.web
  BY <1>4 DEF Contexts, Phases
<1>8. /\ st' \in Contexts /\ Len(st'.loader) <= file.loader /\ Len(st'.web) <= file.web
      /\ st'.phase \in Counting => WebFits
  <2>1. CASE st' = s
    BY <2>1, <1>4, Found
  <2>2. CASE WebFits /\ st' = [s EXCEPT !.phase = "loader"]
    BY <2>2, <1>4, <1>7, Found
  <2>3. CASE WebFits /\ st' = Advance(s, {"fw1", "fw2", "web"})
    BY <2>3, <1>4, AdvanceTyped, Found
  <2>4. CASE st' = Reset
    <3>1. file \in File
      BY DEF Shapes
    <3>2. Len(<<>>) = 0 /\ file.loader \in Nat /\ file.web \in Nat
      BY <3>1, FileIs
    <3>3. QED
      BY <2>4, <3>1, <3>2, ResetTyped DEF Counting
  <2>5. QED
    BY <1>6, <2>1, <2>2, <2>3, <2>4
<1>9. /\ slot1' = slot1 \/ \E n1 : slot1' = Erase(slot1, Covering(n1))
      /\ slot2' = slot2 \/ \E n2 : slot2' = Erase(slot2, Covering(n2))
      /\ primary' = primary /\ backup' = backup
  BY DEF Header, EraseSlots, trees
<1>10. DOMAIN web'.cell = Address /\ web'.used \in 0 .. Area
  <2>1. CASE web' = web
    BY <2>1, Found
  <2>2. CASE web' = StartWeb(web)
    <3>1. /\ DOMAIN StartWeb(web).cell = Address
          /\ StartWeb(web).used = 0 + Len(<<Placeholder>>)
      BY CellsTyped DEF StartWeb, LoaderWrite
    <3>2. 0 + Len(<<Placeholder>>) = 1 /\ 1 \in 0 .. Area
      BY AreaAssumption
    <3>3. QED
      BY <2>2, <3>1, <3>2
  <2>3. QED
    BY <1>6, <2>1, <2>2
<1>11. \A cells \in {slot1', slot2', primary', backup', web'.cell} : DOMAIN cells = Address
  BY <1>9, <1>10, CellsTyped, Found
<1>12. QED
  BY <1>1, <1>5, <1>8, <1>10, <1>11, TurnTyped

\* A section that grows by a piece of what is sent.
LEMMA Grown ==
  ASSUME Typed, Shapes, file.kind # "dtb", NEW x \in Seq(Unit), NEW len \in Nat, Len(x) <= len
  PROVE  /\ len - Len(x) \in Nat
         /\ x \o Chunk(len - Len(x)) \in Seq(Unit)
         /\ Len(x \o Chunk(len - Len(x))) <= len
         /\ st.crc \o Chunk(len - Len(x)) \in Seq(Unit)
<1> DEFINE n == len - Len(x)
<1>1. n \in Nat /\ Len(x) \in Nat
  OBVIOUS
<1>2. Chunk(n) \in Seq(Unit) /\ Len(Chunk(n)) = AtMost(n)
  BY <1>1, ChunkIs
<1>3. AtMost(n) \in Nat /\ AtMost(n) <= n
  BY <1>1, AtMostIs
<1>4. st.crc \in Seq(Unit)
  BY Found
<1> HIDE DEF n
<1>5. x \o Chunk(n) \in Seq(Unit) /\ Len(x \o Chunk(n)) = Len(x) + Len(Chunk(n))
  BY <1>2, Joined
<1>6. st.crc \o Chunk(n) \in Seq(Unit)
  BY <1>2, <1>4, Joined
<1>7. Len(x \o Chunk(n)) <= len
  BY <1>1, <1>2, <1>3, <1>5 DEF n
<1>8. QED
  BY <1>1, <1>5, <1>6, <1>7 DEF n

LEMMA LoaderTyped ==
  ASSUME Typed, Shapes, file.kind # "dtb", Loader
  PROVE  Typed'
<1> DEFINE n == file.loader - Len(st.loader)
           s == [st EXCEPT !.loader = st.loader \o Chunk(n), !.crc = st.crc \o Chunk(n)]
<1>1. file.loader \in Nat /\ file.web \in Nat
  BY FileIs DEF Shapes
<1>2. /\ n \in Nat /\ st.loader \o Chunk(n) \in Seq(Unit)
      /\ Len(st.loader \o Chunk(n)) <= file.loader /\ st.crc \o Chunk(n) \in Seq(Unit)
  BY <1>1, Grown, Found
<1>3. /\ s \in Contexts /\ s.loader = st.loader \o Chunk(n) /\ s.web = st.web
      /\ s.phase = st.phase
  BY <1>2, Found DEF Contexts
<1>4. st.phase = "loader" /\ WebFits
  BY Found DEF Loader, Turn, Counting
<1>5. st' = s \/ st' = Advance(s, {"fw1", "fw2", "web"}) \/ st' = Reset
  BY DEF Loader, Fail
<1>6. Consume(n) \/ Fail
  BY DEF Loader
<1>7. web' = web /\ slot1' = slot1 /\ slot2' = slot2 /\ primary' = primary /\ backup' = backup
  BY DEF Loader, trees
<1> HIDE DEF s
<1>8. /\ st' \in Contexts /\ Len(st'.loader) <= file.loader /\ Len(st'.web) <= file.web
  <2>1. CASE st' = Reset
    <3>1. Len(<<>>) = 0 /\ file \in File
      BY DEF Shapes
    <3>2. QED
      BY <2>1, <3>1, <1>1, ResetTyped
  <2>2. CASE st' = s
    BY <2>2, <1>2, <1>3, Found
  <2>3. CASE st' = Advance(s, {"fw1", "fw2", "web"})
    BY <2>3, <1>2, <1>3, AdvanceTyped, Found
  <2>4. QED
    BY <1>5, <2>1, <2>2, <2>3
<1>9. QED
  BY <1>2, <1>4, <1>6, <1>7, <1>8, Found, TurnTyped

LEMMA Fw1Typed ==
  ASSUME Typed, Shapes, file.kind # "dtb", Fw1
  PROVE  Typed'
<1> DEFINE n == file.fw1 - st.fw1
           s == [st EXCEPT !.fw1 = st.fw1 + AtMost(n), !.crc = st.crc \o Chunk(n)]
<1>1. file.fw1 \in Nat /\ st.fw1 \in 0 .. file.fw1 /\ n \in Nat
  BY FileIs, Found DEF Shapes
<1>2. AtMost(n) \in Nat /\ AtMost(n) <= n /\ Chunk(n) \in Seq(Unit) /\ st.crc \in Seq(Unit)
  BY <1>1, AtMostIs, ChunkIs, Found
<1>3. st.fw1 + AtMost(n) \in 0 .. file.fw1 /\ st.crc \o Chunk(n) \in Seq(Unit)
  BY <1>1, <1>2, Joined
<1>4. s \in Contexts /\ s.loader = st.loader /\ s.web = st.web /\ s.phase = st.phase
  BY <1>3, Found DEF Contexts
<1>5. st.phase = "fw1" /\ WebFits
  BY Found DEF Fw1, Turn, Counting
<1>6. (st' = s \/ st' = Advance(s, {"fw2", "web"})) /\ Consume(n)
  BY DEF Fw1
<1>7. /\ web' = web /\ slot1' = Program(slot1, st.fw1, Chunk(n)) /\ slot2' = slot2
      /\ primary' = primary /\ backup' = backup
  BY DEF Fw1, trees
<1> HIDE DEF s
<1>8. st' \in Contexts /\ Len(st'.loader) <= file.loader /\ Len(st'.web) <= file.web
  BY <1>4, <1>6, AdvanceTyped, Found
<1>9. \A cells \in {slot1', slot2', primary', backup', web'.cell} : DOMAIN cells = Address
  BY <1>7, CellsTyped, Found
<1>10. QED
  BY <1>1, <1>5, <1>6, <1>7, <1>8, <1>9, Found, TurnTyped

LEMMA Fw2Typed ==
  ASSUME Typed, Shapes, file.kind # "dtb", Fw2
  PROVE  Typed'
<1> DEFINE n == file.fw2 - st.fw2
           s == [st EXCEPT !.fw2 = st.fw2 + AtMost(n), !.crc = st.crc \o Chunk(n)]
<1>1. file.fw2 \in Nat /\ st.fw2 \in 0 .. file.fw2 /\ n \in Nat
  BY FileIs, Found DEF Shapes
<1>2. AtMost(n) \in Nat /\ AtMost(n) <= n /\ Chunk(n) \in Seq(Unit) /\ st.crc \in Seq(Unit)
  BY <1>1, AtMostIs, ChunkIs, Found
<1>3. st.fw2 + AtMost(n) \in 0 .. file.fw2 /\ st.crc \o Chunk(n) \in Seq(Unit)
  BY <1>1, <1>2, Joined
<1>4. s \in Contexts /\ s.loader = st.loader /\ s.web = st.web /\ s.phase = st.phase
  BY <1>3, Found DEF Contexts
<1>5. st.phase = "fw2" /\ WebFits
  BY Found DEF Fw2, Turn, Counting
<1>6. (st' = s \/ st' = Advance(s, {"web"})) /\ Consume(n)
  BY DEF Fw2
<1>7. /\ web' = web /\ slot1' = slot1 /\ slot2' = Program(slot2, st.fw2, Chunk(n))
      /\ primary' = primary /\ backup' = backup
  BY DEF Fw2, trees
<1> HIDE DEF s
<1>8. st' \in Contexts /\ Len(st'.loader) <= file.loader /\ Len(st'.web) <= file.web
  BY <1>4, <1>6, AdvanceTyped, Found
<1>9. \A cells \in {slot1', slot2', primary', backup', web'.cell} : DOMAIN cells = Address
  BY <1>7, CellsTyped, Found
<1>10. QED
  BY <1>1, <1>5, <1>6, <1>7, <1>8, <1>9, Found, TurnTyped

LEMMA OneBehind ==
  ASSUME NEW a \in Nat, NEW b \in Nat, NEW w \in Nat, a + b <= w, w = 0 \/ 1 + w <= Area
  PROVE  1 + a + b \in 0 .. Area
  BY AreaAssumption

\* The web image is one unit behind the placeholder, and all of it fits.
LEMMA WebTyped ==
  ASSUME Typed, Shapes, file.kind # "dtb", Web
  PROVE  Typed'
<1> DEFINE n == file.web - Len(st.web)
           s == [st EXCEPT !.web = st.web \o Chunk(n), !.crc = st.crc \o Chunk(n)]
<1>1. file.web \in Nat /\ file.loader \in Nat /\ Area \in Nat \ {0}
  BY FileIs, AreaAssumption DEF Shapes
<1>2. /\ n \in Nat /\ st.web \o Chunk(n) \in Seq(Unit)
      /\ Len(st.web \o Chunk(n)) <= file.web /\ st.crc \o Chunk(n) \in Seq(Unit)
  BY <1>1, Grown, Found
<1>3. /\ s \in Contexts /\ s.loader = st.loader /\ s.web = st.web \o Chunk(n)
      /\ s.phase = st.phase
  BY <1>2, Found DEF Contexts
<1>4. st.phase = "web" /\ WebFits
  BY Found DEF Web, Turn, Counting
<1>5. (st' = s \/ st' = Advance(s, {})) /\ Consume(n)
  BY DEF Web
<1>6. /\ web' = LoaderWrite(web, 1 + Len(st.web), Chunk(n))
      /\ slot1' = slot1 /\ slot2' = slot2 /\ primary' = primary /\ backup' = backup
  BY DEF Web, trees
<1>7. Chunk(n) \in Seq(Unit) /\ Len(Chunk(n)) \in Nat /\ st.web \in Seq(Unit) /\ Len(st.web) \in Nat
  <2>1. Chunk(n) \in Seq(Unit) /\ st.web \in Seq(Unit)
    BY <1>2, ChunkIs, Found
  <2> HIDE DEF n
  <2>2. QED
    BY <2>1
<1>8. Len(st.web) + Len(Chunk(n)) <= file.web
  <2>1. Len(st.web \o Chunk(n)) = Len(st.web) + Len(Chunk(n))
    BY <1>7, Joined
  <2>2. QED
    BY <1>2, <2>1
<1>9. DOMAIN web'.cell = Address /\ web'.used \in 0 .. Area
  <2>1. /\ DOMAIN web'.cell = Address
        /\ web'.used = 1 + Len(st.web) + Len(Chunk(n))
    BY <1>6, CellsTyped DEF LoaderWrite
  <2>2. CASE file.web = 0
    BY <2>1, <2>2, <1>1, <1>7, <1>8, OneBehind
  <2>3. CASE 1 + file.web <= Area
    BY <2>1, <2>3, <1>1, <1>7, <1>8, OneBehind
  <2>4. QED
    BY <1>4, <2>2, <2>3 DEF WebFits
<1> HIDE DEF s
<1>10. st' \in Contexts /\ Len(st'.loader) <= file.loader /\ Len(st'.web) <= file.web
  <2>1. CASE st' = s
    BY <2>1, <1>2, <1>3, Found
  <2>2. CASE st' = Advance(s, {})
    BY <2>2, <1>2, <1>3, AdvanceTyped, Found
  <2>3. QED
    BY <1>5, <2>1, <2>2
<1>11. \A cells \in {slot1', slot2', primary', backup', web'.cell} : DOMAIN cells = Address
  BY <1>6, <1>9, Found
<1>12. QED
  BY <1>2, <1>4, <1>5, <1>9, <1>10, <1>11, TurnTyped

LEMMA RestTyped ==
  ASSUME Typed, Shapes, Ignore \/ App
  PROVE  Typed'
<1>1. seg \in Nat
  BY BoundsAssumption DEF Typed, TypeOK
<1>2. st' = st /\ web' = web /\ Consume(seg)
  BY DEF Ignore, App
<1>3. /\ slot1' = slot1 \/ slot1' = Program(slot1, got, Chunk(seg))
      /\ \/ slot2' = slot2
         \/ slot2' = Program(slot2, Over(got), SubSeq(Content, Second + Over(got) + 1, got + seg))
      /\ primary' = primary /\ backup' = backup
  BY DEF Ignore, App, trees
<1>4. \A cells \in {slot1', slot2', primary', backup', web'.cell} : DOMAIN cells = Address
  BY ZenonT(30), <1>2, <1>3, CellsTyped, Found
<1>5. QED
  BY <1>1, <1>2, <1>4, Found, TurnTyped

\* What is left to show of a step outside the loop: it keeps the file, and
\* the context or clears it.
LEMMA StepTyped ==
  ASSUME Typed, Shapes, file' = file, num' = num, ota' \in {ota, num},
         got' \in 0 .. file.size, seg' \in 0 .. Block, got' + seg' <= file.size,
         \/ st' = st
         \/ st' \in {Reset, [Reset EXCEPT !.phase = "hdr"], [Reset EXCEPT !.phase = "dtb"],
                     [Reset EXCEPT !.phase = "app"]},
         \A cells \in {slot1', slot2', primary', backup', web'.cell} : DOMAIN cells = Address,
         web'.used \in 0 .. Area,
         pc' \in {"cli", "first", "hang", "erase", "recv", "feed", "second", "finish",
                 "success", "heal"}
  PROVE  Typed'
<1>1. file \in File /\ Len(<<>>) = 0 /\ file.loader \in Nat /\ file.web \in Nat
  BY FileIs DEF Shapes
<1>2. /\ st' \in Contexts /\ Len(st'.loader) <= file.loader /\ Len(st'.web) <= file.web
      /\ st'.phase \in Counting => WebFits
  <2>1. CASE st' = st
    BY <2>1, Found
  <2>2. CASE st' = Reset
    BY <2>2, <1>1, ResetTyped DEF Counting
  <2>3. CASE st' \in {[Reset EXCEPT !.phase = "hdr"], [Reset EXCEPT !.phase = "dtb"],
                     [Reset EXCEPT !.phase = "app"]}
    <3>1. st' \in Contexts
      BY <2>3, <1>1, ResetTyped
    <3>2. st'.loader = Reset.loader /\ st'.web = Reset.web /\ st'.phase \in {"hdr", "dtb", "app"}
      BY <2>3 DEF Reset
    <3>3. QED
      BY <3>1, <3>2, <1>1, ResetTyped DEF Counting
  <2>4. QED
    BY <2>1, <2>2, <2>3
<1>3. st'.phase \in Phases
  BY <1>2 DEF Contexts
<1>4. num' \in 0 .. Transfers /\ ota' \in 0 .. num'
  BY BoundsAssumption DEF Typed, TypeOK
<1>5. TypeOK'
  BY <1>1, <1>3, <1>4 DEF TypeOK
<1>6. Contexts' = Contexts
  BY DEF Contexts
<1>7. Fields'
  BY <1>2, <1>6 DEF Fields, WebFits
<1>8. QED
  BY <1>5, <1>7 DEF Typed

\* The counters, as the steps outside the loop find them.
LEMMA FoundCounters ==
  ASSUME Typed, Shapes
  PROVE  /\ got \in 0 .. file.size /\ seg \in 0 .. Block /\ got + seg <= file.size
         /\ got \in Nat /\ seg \in Nat /\ file.size \in Nat /\ Block \in Nat
         /\ 0 \in 0 .. file.size /\ 0 \in 0 .. Block
         /\ pc \in {"cli", "first", "hang", "erase", "recv", "feed", "second", "finish",
                   "success", "heal"}
  BY FileIs, BoundsAssumption DEF Typed, TypeOK, Fields, Shapes

LEMMA BeginTyped ==
  ASSUME Typed, Shapes, NEW f \in File, Begin(f)
  PROVE  Typed'
<1>1. /\ file' = f /\ num' = num + 1 /\ got' = 0 /\ seg' = 0 /\ st' = Reset /\ pc' = "first"
      /\ num < Transfers
  BY DEF Begin
<1>2. /\ ota' = ota /\ web' = web /\ slot1' = slot1 /\ slot2' = slot2
      /\ primary' = primary /\ backup' = backup
  BY DEF Begin, flash, trees
<1>3. /\ f.loader \in Nat /\ f.web \in Nat /\ f.size \in Nat /\ f.fw1 \in Nat /\ f.fw2 \in Nat
      /\ f.size > 0
  BY FileAssumption
<1>4. num' \in 0 .. Transfers /\ ota' \in 0 .. num'
  BY <1>1, <1>2, BoundsAssumption DEF Typed, TypeOK
<1>5. 0 \in 0 .. Block /\ 0 \in 0 .. f.size /\ 0 \in 0 .. f.fw1 /\ 0 \in 0 .. f.fw2 /\ 0 \in 0 .. Hdr
  BY <1>3, BoundsAssumption
<1>6. Reset.phase = "off" /\ Reset.loader = <<>> /\ Reset.web = <<>>
  BY DEF Reset
<1>7. \A cells \in {slot1', slot2', primary', backup', web'.cell} : DOMAIN cells = Address
  BY <1>2, Found
<1>8. TypeOK'
  BY <1>1, <1>2, <1>4, <1>5, <1>6, <1>7, Found DEF TypeOK, Phases
<1>9. st' \in Contexts'
  <2>1. <<>> \in Seq(Unit) /\ "off" \in Phases
    BY DEF Phases
  <2>2. QED
    BY <1>1, <1>5, <2>1 DEF Contexts, Reset
<1>10. Fields'
  <2>1. Len(<<>>) = 0 /\ 0 + 0 <= f.size
    BY <1>3
  <2>2. QED
    BY <1>1, <1>3, <1>6, <1>9, <2>1 DEF Fields, Counting
<1>11. QED
  BY <1>8, <1>10 DEF Typed

LEMMA DecideTyped ==
  ASSUME Typed, Shapes, Decide
  PROVE  Typed'
<1>1. /\ file' = file /\ num' = num /\ ota' = ota /\ got' = got /\ seg' = seg
      /\ web' = web
  BY DEF Decide
<1>2. /\ pc' \in {"recv", "cli", "hang", "erase"}
      /\ st' \in {Reset, [Reset EXCEPT !.phase = "hdr"], [Reset EXCEPT !.phase = "dtb"],
                  [Reset EXCEPT !.phase = "app"]}
  BY DEF Decide
<1>3. /\ slot1' = slot1 \/ slot1' = Erase(slot1, Covering(file.size))
      /\ slot2' = slot2 \/ slot2' = Erase(slot2, Covering(Over(file.size)))
      /\ primary' = primary \/ primary' = Erase(primary, {0})
      /\ backup' = backup
  BY DEF Decide, EraseAppRange, trees
<1>4. \A cells \in {slot1', slot2', primary', backup', web'.cell} : DOMAIN cells = Address
  BY ZenonT(30), <1>1, <1>3, CellsTyped, Found
<1>5. QED
  BY <1>1, <1>2, <1>4, Found, FoundCounters, StepTyped

\* The steps that touch a device tree's sectors, or nothing.
LEMMA OutsideTyped ==
  ASSUME Typed, Shapes,
         \/ EraseBackup \/ DtbPrimary \/ DtbBackup \/ Return \/ Abort \/ Reported
         \/ DtsLoadDefault
         \/ \E n \in 1 .. Block : DataBlock(n)
         \/ \E n \in 0 .. Sector : DtsHeal(n)
  PROVE  Typed'
<1>1. /\ file' = file /\ num' = num /\ ota' = ota
      /\ web' = web /\ slot1' = slot1 /\ slot2' = slot2
  BY DEF EraseBackup, DtbPrimary, DtbBackup, Return, Abort, Reported, DtsLoadDefault,
         DataBlock, DtsHeal, flash
<1>2. st' = st \/ st' = Reset
  BY DEF EraseBackup, DtbPrimary, DtbBackup, Return, Abort, Reported, DtsLoadDefault,
         DataBlock, DtsHeal
<1>3. pc' \in {"cli", "first", "hang", "erase", "recv", "feed", "second", "finish",
              "success", "heal"}
  BY FoundCounters
     DEF EraseBackup, DtbPrimary, DtbBackup, Return, Abort, Reported, DtsLoadDefault,
         DataBlock, DtsHeal
<1>4. got' \in 0 .. file.size /\ seg' \in 0 .. Block /\ got' + seg' <= file.size
  <2>1. CASE DtbBackup
    BY <2>1, FoundCounters DEF DtbBackup
  <2>2. ASSUME NEW n \in 1 .. Block, DataBlock(n)
        PROVE  got' \in 0 .. file.size /\ seg' \in 0 .. Block /\ got' + seg' <= file.size
    BY <2>2, FoundCounters DEF DataBlock
  <2>3. CASE Abort
    BY <2>3, FoundCounters DEF Abort
  <2>4. CASE \/ EraseBackup \/ DtbPrimary \/ Return \/ Reported \/ DtsLoadDefault
             \/ \E n \in 0 .. Sector : DtsHeal(n)
    BY <2>4, FoundCounters DEF EraseBackup, DtbPrimary, Return, Reported, DtsLoadDefault, DtsHeal
  <2>5. QED
    BY <2>1, <2>2, <2>3, <2>4
<1>5. /\ \/ primary' = primary
         \/ \E sectors : primary' = Erase(primary, sectors)
         \/ \E off, data : primary' = Program(primary, off, data)
      /\ \/ backup' = backup
         \/ \E sectors : backup' = Erase(backup, sectors)
         \/ \E off, data : backup' = Program(backup, off, data)
  <2>1. CASE \/ Abort \/ Return \/ Reported \/ \E n \in 1 .. Block : DataBlock(n)
    BY <2>1 DEF Abort, Return, Reported, DataBlock, flash, trees
  <2>2. CASE EraseBackup \/ DtbPrimary \/ DtbBackup
    BY <2>2 DEF EraseBackup, DtbPrimary, DtbBackup
  <2>3. CASE DtsLoadDefault
    BY <2>3 DEF DtsLoadDefault, HealErase
  <2>4. CASE \E n \in 0 .. Sector : DtsHeal(n)
    BY <2>4 DEF DtsHeal, HealProgram
  <2>5. QED
    BY <2>1, <2>2, <2>3, <2>4
<1>6. DOMAIN primary' = Address /\ DOMAIN backup' = Address
  <2>1. DOMAIN primary = Address /\ DOMAIN backup = Address
    BY Found
  <2>2. QED
    BY ONLY <2>1, <1>5, CellsTyped
<1>7. \A cells \in {slot1', slot2', primary', backup', web'.cell} : DOMAIN cells = Address
  BY <1>1, <1>6, Found
<1>8. QED
  BY <1>1, <1>2, <1>3, <1>4, <1>7, Found, StepTyped

\* The rewritten sector of the web partition is a whole one.
LEMMA FinishTyped ==
  ASSUME Typed, Shapes, Finish
  PROVE  Typed'
<1>1. /\ file' = file /\ num' = num /\ ota' \in {ota, num} /\ got' = got /\ seg' = seg
      /\ slot1' = slot1 /\ slot2' = slot2 /\ primary' = primary /\ backup' = backup
      /\ st' = st \/ st' = Reset
      /\ pc' \in {"success", "cli"}
      /\ web' = web \/ web' = FinalizeWeb
  BY DEF Finish, trees
<1>2. Sector \in Nat \ {0} /\ Sector <= Area /\ Area \in Nat
  <2>1. Sector \in Nat \ {0} /\ Area \in Nat \ {0} /\ Area % Sector = 0
    BY SectorAssumption, AreaAssumption
  <2>2. Area < Sector => Area % Sector = Area
    BY <2>1
  <2>3. QED
    BY <2>1, <2>2
<1>3. Len(CrcSector) = Sector
  <2> DEFINE old == Read(web, 0, Sector)
             rest == [i \in 1 .. Sector - 1 |-> IF i + 1 <= Len(old) THEN old[i + 1] ELSE Stale]
             Any == {rest[i] : i \in 1 .. Sector - 1} \cup {<<"crc", st.web>>}
  <2>1. rest \in [1 .. Sector - 1 -> Any] /\ Sector - 1 \in Nat
    BY <1>2
  <2>2. rest \in Seq(Any) /\ Len(rest) = Sector - 1
    <3> HIDE DEF rest, Any
    <3> QED
      BY <2>1, FunctionIsSequence
  <2>3. <<<<"crc", st.web>>>> \in Seq(Any) /\ Len(<<<<"crc", st.web>>>>) = 1
    <3>1. <<"crc", st.web>> \in Any
      OBVIOUS
    <3> HIDE DEF Any
    <3> QED
      BY <3>1
  <2>4. CrcSector = <<<<"crc", st.web>>>> \o rest
    BY DEF CrcSector
  <2> HIDE DEF old, rest, Any
  <2>5. Len(<<<<"crc", st.web>>>> \o rest) = 1 + (Sector - 1)
    BY <2>2, <2>3, Joined
  <2>6. QED
    BY <2>4, <2>5, <1>2
<1>4. DOMAIN web'.cell = Address /\ web'.used \in 0 .. Area
  <2>1. CASE web' = web
    BY <2>1, Found
  <2>2. CASE web' = LoaderWrite(web, 0, CrcSector)
    <3>1. DOMAIN web'.cell = Address /\ web'.used = 0 + Len(CrcSector)
      BY <2>2, CellsTyped DEF LoaderWrite
    <3>2. QED
      BY <3>1, <1>2, <1>3
  <2>3. QED
    BY <1>1, <2>1, <2>2 DEF FinalizeWeb
<1>5. \A cells \in {slot1', slot2', primary', backup', web'.cell} : DOMAIN cells = Address
  BY <1>1, <1>4, Found
<1>6. QED
  BY <1>1, <1>4, <1>5, Found, FoundCounters, StepTyped

LEMMA TypedStep == TreesKept /\ Typed /\ [Next]_vars => Typed'
<1>1. SUFFICES ASSUME TreesKept, Typed, [Next]_vars PROVE Typed'
  OBVIOUS
<1>2. Shapes
  BY <1>1 DEF TreesKept
<1>3. CASE Header \/ Loader \/ Fw1 \/ Fw2 \/ Web \/ Ignore \/ App
  <2>1. pc = "feed" /\ st.phase # "dtb"
    BY <1>3 DEF Header, Loader, Fw1, Fw2, Web, Ignore, App, Turn
  <2>2. file.kind # "dtb"
    BY <1>1, <2>1, FeedingOther
  <2>3. QED
    BY <1>1, <1>2, <1>3, <2>2, HeaderTyped, LoaderTyped, Fw1Typed, Fw2Typed, WebTyped, RestTyped
<1>4. CASE UNCHANGED vars
  <2>1. /\ slot1' = slot1 /\ slot2' = slot2 /\ web' = web /\ primary' = primary
        /\ backup' = backup /\ ota' = ota /\ file' = file /\ num' = num /\ got' = got
        /\ seg' = seg /\ st' = st /\ pc' = pc
    BY <1>4 DEF vars, flash, trees
  <2>2. QED
    BY <1>1, <1>2, <2>1, Found, FoundCounters, StepTyped
<1>5. CASE \E f \in File : Begin(f)
  BY <1>1, <1>2, <1>5, BeginTyped
<1>6. QED
  BY <1>1, <1>2, <1>3, <1>4, <1>5, DecideTyped, OutsideTyped, FinishTyped DEF Next, Feed

\* The values of the variables; the counters never run past the sections or
\* the file, and used_size never past the partition.
THEOREM TypeCorrect == Spec => []TypeOK
<1>1. Typed => TypeOK
  BY DEF Typed
<1>2. QED
  BY <1>1, TreesInitially, TreesStep, TypedInitially, TypedStep, PTL DEF Spec

\* Whoever rewrites PART_OTA has compared the checksum of the package with
\* what it computed, and the two only agree over the sections themselves.
THEOREM RecordOnlyWholeCorrect == Spec => RecordOnlyWhole
<1> DEFINE Step == ota' # ota => file.kind = "upg" /\ file.good /\ st.crc = Body
<1>1. TreesKept /\ Typed /\ [Next]_vars => [Step]_vars
  <2>1. SUFFICES ASSUME TreesKept, Typed, Next, ota' # ota
                 PROVE  file.kind = "upg" /\ file.good /\ st.crc = Body
    BY DEF vars, flash
  <2>2. Finish
    BY <2>1 DEF Next, Feed, Begin, Decide, DataBlock, Header, Loader, Fw1, Fw2, Web, Ignore,
                EraseBackup, DtbPrimary, DtbBackup, App, Return, Abort, Reported,
                DtsLoadDefault, DtsHeal, Consume, Fail, flash
  <2>3. pc = "finish" /\ CrcOk
    BY <2>1, <2>2 DEF Finish
  <2>4. file.kind = "upg"
    BY <2>1, <2>3 DEF TreesKept, TreeInv
  <2>5. ~file.good => st.crc = <<Garbage>>
    BY <2>3 DEF CrcOk, PackageCrc
  <2>6. st.crc # <<Garbage>>
    <3>1. SUFFICES ASSUME st.crc = <<Garbage>> PROVE FALSE
      OBVIOUS
    <3>2. st.crc \in Seq(Unit)
      BY <2>1, Found DEF TreesKept
    <3>3. Len(<<Garbage>>) = 1 /\ <<Garbage>>[1] = Garbage
      OBVIOUS
    <3>4. Garbage \in Unit
      BY <3>1, <3>2, <3>3
    <3>5. PICK k \in Nat, name \in Sections, i \in Nat : Garbage = <<k, name, i>>
      BY <3>4 DEF Unit
    <3>6. Len(Garbage) = 1 /\ Len(<<k, name, i>>) = 3
      BY DEF Garbage
    <3>7. QED
      BY <3>5, <3>6
  <2>7. st.crc = Body
    BY <2>3, <2>5, <2>6 DEF CrcOk, PackageCrc
  <2>8. file.good
    BY <2>1, <2>5, <2>6, FileIs DEF TreesKept, Shapes
  <2>9. QED
    BY <2>4, <2>7, <2>8
<1>2. QED
  BY <1>1, TreesInitially, TreesStep, TypedInitially, TypedStep, PTL
     DEF Spec, RecordOnlyWhole

-----------------------------------------------------------------------------
(* What the file is, and what the context is at                            *)

\* The context is cleared wherever no file is received, belongs to the kind
\* of file elsewhere, and has counted nothing before a package's header.
Kinds ==
  /\ pc \in {"cli", "first", "hang", "heal"} => st = Reset
  /\ pc \in {"recv", "feed", "finish"} /\ file.kind = "upg" =>
       st.phase \in {"hdr"} \cup Counting
  /\ pc = "success" /\ file.kind = "upg" => st.phase = "done"
  /\ pc \in {"recv", "feed", "success"} /\ file.kind = "app" => st.phase = "app"
  /\ st.phase \in {"hdr"} \cup Counting => file.kind = "upg"
  /\ st.phase = "app" => file.kind = "app" /\ file.size <= Internal
  /\ st.phase = "hdr" => got = st.hdr
  /\ st.phase \notin Counting =>
       st.loader = <<>> /\ st.fw1 = 0 /\ st.fw2 = 0 /\ st.web = <<>> /\ st.crc = <<>>
  /\ pc = "success" /\ file.kind # "upg" => got = file.size

LEMMA ResetFields ==
  /\ Reset.phase = "off" /\ Reset.loader = <<>> /\ Reset.fw1 = 0 /\ Reset.fw2 = 0
  /\ Reset.web = <<>> /\ Reset.crc = <<>> /\ Reset.hdr = 0
  BY DEF Reset

LEMMA KindsReset ==
  ASSUME st' = Reset, pc' \in {"cli", "first", "hang", "heal"}
  PROVE  Kinds'
  BY ResetFields DEF Kinds, Counting

LEMMA KindsInitially == Init => Kinds
  BY ResetFields DEF Init, Kinds, Counting

\* The steps that begin or end a transfer.
LEMMA KindsDecided ==
  ASSUME Typed, Shapes, TreesKept, Kinds, Decide
  PROVE  Kinds'
<1>1. file' = file /\ got' = got /\ got = 0 /\ pc = "first"
  BY DEF Decide, TreesKept, TreeInv
<1>2. \/ st' = Reset /\ pc' \in {"cli", "hang"}
      \/ st' = [Reset EXCEPT !.phase = "hdr"] /\ pc' = "recv" /\ file.kind = "upg"
      \/ st' = [Reset EXCEPT !.phase = "dtb"] /\ pc' = "erase" /\ file.kind = "dtb"
      \/ /\ st' = [Reset EXCEPT !.phase = "app"] /\ pc' = "recv"
         /\ file.kind = "app" /\ file.size <= Internal
  BY DEF Decide
<1>3. ASSUME NEW phase
      PROVE  LET x == [Reset EXCEPT !.phase = phase]
             IN  /\ x.phase = phase /\ x.loader = <<>> /\ x.fw1 = 0 /\ x.fw2 = 0
                 /\ x.web = <<>> /\ x.crc = <<>> /\ x.hdr = 0
  BY DEF Reset
<1>4. CASE st' = Reset /\ pc' \in {"cli", "hang"}
  BY <1>4, KindsReset
<1>5. CASE st' = [Reset EXCEPT !.phase = "hdr"] /\ pc' = "recv" /\ file.kind = "upg"
  <2>1. /\ st'.phase = "hdr" /\ st'.loader = <<>> /\ st'.fw1 = 0 /\ st'.fw2 = 0
        /\ st'.web = <<>> /\ st'.crc = <<>> /\ st'.hdr = 0
    BY <1>3, <1>5
  <2>2. QED
    BY <1>1, <1>5, <2>1 DEF Kinds, Counting
<1>6. CASE st' = [Reset EXCEPT !.phase = "dtb"] /\ pc' = "erase" /\ file.kind = "dtb"
  <2>1. /\ st'.phase = "dtb" /\ st'.loader = <<>> /\ st'.fw1 = 0 /\ st'.fw2 = 0
        /\ st'.web = <<>> /\ st'.crc = <<>> /\ st'.hdr = 0
    BY <1>3, <1>6
  <2>2. QED
    BY <1>1, <1>6, <2>1 DEF Kinds, Counting
<1>7. CASE /\ st' = [Reset EXCEPT !.phase = "app"] /\ pc' = "recv"
           /\ file.kind = "app" /\ file.size <= Internal
  <2>1. /\ st'.phase = "app" /\ st'.loader = <<>> /\ st'.fw1 = 0 /\ st'.fw2 = 0
        /\ st'.web = <<>> /\ st'.crc = <<>> /\ st'.hdr = 0
    BY <1>3, <1>7
  <2>2. QED
    BY <1>1, <1>7, <2>1 DEF Kinds, Counting
<1>8. QED
  BY <1>2, <1>4, <1>5, <1>6, <1>7

\* The phase is the first of the remaining sections that is not empty.
Follows(phase, rest) ==
  /\ phase \in Counting \ {"loader"}
  /\ phase \in {"fw1", "fw2", "web"} => phase \in rest
  /\ phase # "fw1" /\ "fw1" \in rest => file.fw1 = 0
  /\ phase \notin {"fw1", "fw2"} /\ "fw2" \in rest => file.fw2 = 0
  /\ phase = "done" /\ "web" \in rest => file.web = 0

LEMMA AdvanceIs ==
  ASSUME file \in File, NEW s \in Contexts, NEW rest, NEW x, x = Advance(s, rest)
  PROVE  /\ Follows(x.phase, rest)
         /\ x.hdr = s.hdr /\ x.loader = s.loader /\ x.fw1 = s.fw1 /\ x.fw2 = s.fw2
         /\ x.web = s.web /\ x.crc = s.crc
<1> DEFINE phase == IF "fw1" \in rest /\ file.fw1 > 0 THEN "fw1"
                    ELSE IF "fw2" \in rest /\ file.fw2 > 0 THEN "fw2"
                    ELSE IF "web" \in rest /\ file.web > 0 THEN "web" ELSE "done"
<1>1. file.fw1 \in Nat /\ file.fw2 \in Nat /\ file.web \in Nat
  BY FileIs
<1>2. phase \in Counting \ {"loader"}
  BY DEF Counting
<1>3. x = [s EXCEPT !.phase = phase]
  BY DEF Advance
<1>4. /\ phase \in {"fw1", "fw2", "web"} => phase \in rest
      /\ phase # "fw1" /\ "fw1" \in rest => file.fw1 = 0
      /\ phase \notin {"fw1", "fw2"} /\ "fw2" \in rest => file.fw2 = 0
      /\ phase = "done" /\ "web" \in rest => file.web = 0
  BY <1>1
<1> HIDE DEF phase
<1>5. /\ x.phase = phase /\ x.hdr = s.hdr /\ x.loader = s.loader /\ x.fw1 = s.fw1
      /\ x.fw2 = s.fw2 /\ x.web = s.web /\ x.crc = s.crc
  BY <1>3 DEF Contexts
<1>6. QED
  BY <1>2, <1>4, <1>5 DEF Follows

\* What the turns leave in the context.
LEMMA HeaderFields ==
  ASSUME Typed, Shapes, Header
  PROVE  \/ Fail
         \/ /\ Consume(Hdr - st.hdr)
            /\ st'.loader = st.loader /\ st'.fw1 = st.fw1 /\ st'.fw2 = st.fw2
            /\ st'.web = st.web /\ st'.crc = st.crc
            /\ st'.hdr = st.hdr + AtMost(Hdr - st.hdr)
            /\ \/ st'.phase = "hdr" /\ UNCHANGED <<slot1, slot2, web>>
               \/ /\ st'.hdr = Hdr /\ SizesOk /\ WebFits /\ EraseSlots
                  /\ web' = IF file.web > 0 THEN StartWeb(web) ELSE web
                  /\ \/ st'.phase = "loader" /\ file.loader > 0
                     \/ Follows(st'.phase, {"fw1", "fw2", "web"}) /\ file.loader = 0
<1> DEFINE n == Hdr - st.hdr
           s == [st EXCEPT !.hdr = st.hdr + AtMost(n)]
<1>1. n \in Nat /\ st.hdr \in Nat /\ Hdr \in Nat /\ file \in File /\ file.loader \in Nat
  BY Found, FileIs, BoundsAssumption DEF Shapes
<1>2. AtMost(n) \in Nat /\ AtMost(n) <= n
  BY <1>1, AtMostIs
<1>3. st.hdr + AtMost(n) \in 0 .. Hdr
  BY <1>1, <1>2
<1>4. /\ s \in Contexts /\ s.loader = st.loader /\ s.fw1 = st.fw1 /\ s.fw2 = st.fw2
      /\ s.web = st.web /\ s.crc = st.crc /\ s.phase = st.phase
      /\ s.hdr = st.hdr + AtMost(n)
  BY <1>3, Found DEF Contexts
<1>5. st.phase = "hdr"
  BY DEF Header, Turn
<1>6. \/ Fail
      \/ /\ Consume(n) /\ st' = s /\ UNCHANGED <<slot1, slot2, web>>
      \/ /\ Consume(n) /\ s.hdr = Hdr /\ SizesOk /\ WebFits /\ EraseSlots
         /\ web' = IF file.web > 0 THEN StartWeb(web) ELSE web
         /\ st' = IF file.loader > 0 THEN [s EXCEPT !.phase = "loader"]
                  ELSE Advance(s, {"fw1", "fw2", "web"})
  BY <1>4 DEF Header
<1> HIDE DEF s
<1>7. LET x == [s EXCEPT !.phase = "loader"]
      IN  /\ x.phase = "loader" /\ x.hdr = s.hdr /\ x.loader = s.loader /\ x.fw1 = s.fw1
          /\ x.fw2 = s.fw2 /\ x.web = s.web /\ x.crc = s.crc
  BY <1>4 DEF Contexts
<1>8. CASE Consume(n) /\ st' = s /\ UNCHANGED <<slot1, slot2, web>>
  BY <1>4, <1>5, <1>8
<1>9. CASE /\ Consume(n) /\ s.hdr = Hdr /\ SizesOk /\ WebFits /\ EraseSlots
           /\ web' = IF file.web > 0 THEN StartWeb(web) ELSE web
           /\ st' = IF file.loader > 0 THEN [s EXCEPT !.phase = "loader"]
                    ELSE Advance(s, {"fw1", "fw2", "web"})
  <2>1. CASE file.loader > 0
    BY <1>4, <1>7, <1>9, <2>1
  <2>2. CASE ~(file.loader > 0)
    <3>1. file.loader = 0 /\ st' = Advance(s, {"fw1", "fw2", "web"})
      BY <1>1, <1>9, <2>2
    <3>2. /\ Follows(st'.phase, {"fw1", "fw2", "web"})
          /\ st'.hdr = s.hdr /\ st'.loader = s.loader /\ st'.fw1 = s.fw1 /\ st'.fw2 = s.fw2
          /\ st'.web = s.web /\ st'.crc = s.crc
      BY <1>1, <1>4, <3>1, AdvanceIs
    <3>3. QED
      BY <1>4, <1>9, <3>1, <3>2
  <2>3. QED
    BY <2>1, <2>2
<1>10. QED
  BY <1>6, <1>8, <1>9

LEMMA LoaderFields ==
  ASSUME Typed, Shapes, file.kind # "dtb", Loader,
         NEW n, n = file.loader - Len(st.loader)
  PROVE  \/ Fail /\ loader' = loader
         \/ /\ Consume(n)
            /\ st'.loader = st.loader \o Chunk(n) /\ st'.crc = st.crc \o Chunk(n)
            /\ st'.fw1 = st.fw1 /\ st'.fw2 = st.fw2 /\ st'.web = st.web
            /\ \/ st'.phase = "loader" /\ loader' = loader
               \/ /\ Len(st'.loader) = file.loader /\ loader' = st'.loader
                  /\ Follows(st'.phase, {"fw1", "fw2", "web"})
<1> DEFINE s == [st EXCEPT !.loader = st.loader \o Chunk(n), !.crc = st.crc \o Chunk(n)]
<1>1. file.loader \in Nat /\ file \in File
  BY FileIs DEF Shapes
<1>2. st.loader \o Chunk(n) \in Seq(Unit) /\ st.crc \o Chunk(n) \in Seq(Unit)
  BY <1>1, Grown, Found
<1>3. /\ s \in Contexts /\ s.loader = st.loader \o Chunk(n) /\ s.crc = st.crc \o Chunk(n)
      /\ s.fw1 = st.fw1 /\ s.fw2 = st.fw2 /\ s.web = st.web /\ s.phase = st.phase
  BY <1>2, Found DEF Contexts
<1>4. st.phase = "loader"
  BY DEF Loader, Turn
<1>5. \/ Fail /\ loader' = loader
      \/ Consume(n) /\ st' = s /\ loader' = loader
      \/ /\ Consume(n) /\ Len(s.loader) = file.loader /\ loader' = s.loader
         /\ st' = Advance(s, {"fw1", "fw2", "web"})
  BY DEF Loader
<1> HIDE DEF s
<1>6. CASE /\ Consume(n) /\ Len(s.loader) = file.loader /\ loader' = s.loader
           /\ st' = Advance(s, {"fw1", "fw2", "web"})
  <2>0. st' = Advance(s, {"fw1", "fw2", "web"}) /\ file \in File /\ s \in Contexts
    BY <1>1, <1>3, <1>6
  <2>1. /\ Follows(st'.phase, {"fw1", "fw2", "web"})
        /\ st'.loader = s.loader /\ st'.fw1 = s.fw1 /\ st'.fw2 = s.fw2
        /\ st'.web = s.web /\ st'.crc = s.crc
    BY ONLY <2>0, AdvanceIs
  <2>2. QED
    BY <1>3, <1>6, <2>1
<1>7. QED
  BY <1>3, <1>4, <1>5, <1>6

LEMMA Fw1Fields ==
  ASSUME Typed, Shapes, file.kind # "dtb", Fw1, NEW n, n = file.fw1 - st.fw1
  PROVE  /\ Consume(n) /\ slot1' = Program(slot1, st.fw1, Chunk(n))
         /\ st'.loader = st.loader /\ st'.crc = st.crc \o Chunk(n)
         /\ st'.fw1 = st.fw1 + AtMost(n) /\ st'.fw2 = st.fw2 /\ st'.web = st.web
         /\ \/ st'.phase = "fw1"
            \/ st'.fw1 = file.fw1 /\ Follows(st'.phase, {"fw2", "web"})
<1> DEFINE s == [st EXCEPT !.fw1 = st.fw1 + AtMost(n), !.crc = st.crc \o Chunk(n)]
<1>1. file.fw1 \in Nat /\ st.fw1 \in 0 .. file.fw1 /\ n \in Nat /\ file \in File
  <2>1. file \in File
    BY DEF Shapes
  <2>2. file.fw1 \in Nat
    BY <2>1, FileIs
  <2>3. st.fw1 \in 0 .. file.fw1
    BY Found
  <2>4. QED
    BY ONLY <2>1, <2>2, <2>3, n = file.fw1 - st.fw1
<1>2. AtMost(n) \in Nat /\ AtMost(n) <= n /\ Chunk(n) \in Seq(Unit) /\ st.crc \in Seq(Unit)
  BY <1>1, AtMostIs, ChunkIs, Found
<1>3. st.fw1 + AtMost(n) \in 0 .. file.fw1 /\ st.crc \o Chunk(n) \in Seq(Unit)
  BY <1>1, <1>2, Joined
<1>4. /\ s \in Contexts /\ s.loader = st.loader /\ s.crc = st.crc \o Chunk(n)
      /\ s.fw1 = st.fw1 + AtMost(n) /\ s.fw2 = st.fw2 /\ s.web = st.web /\ s.phase = st.phase
  BY <1>3, Found DEF Contexts
<1>5. st.phase = "fw1"
  BY DEF Fw1, Turn
<1>6. /\ Consume(n) /\ slot1' = Program(slot1, st.fw1, Chunk(n))
      /\ st' = s \/ (s.fw1 = file.fw1 /\ st' = Advance(s, {"fw2", "web"}))
  <2>1. /\ Consume(n) /\ slot1' = Program(slot1, st.fw1, Chunk(n))
        /\ st' = IF s.fw1 = file.fw1 THEN Advance(s, {"fw2", "web"}) ELSE s
    BY DEF Fw1
  <2> HIDE DEF s
  <2>2. QED
    BY <2>1
<1> HIDE DEF s
<1>7. CASE s.fw1 = file.fw1 /\ st' = Advance(s, {"fw2", "web"})
  <2>0. st' = Advance(s, {"fw2", "web"}) /\ file \in File /\ s \in Contexts
    BY <1>1, <1>4, <1>7
  <2>1. /\ Follows(st'.phase, {"fw2", "web"})
        /\ st'.loader = s.loader /\ st'.fw1 = s.fw1 /\ st'.fw2 = s.fw2
        /\ st'.web = s.web /\ st'.crc = s.crc
    BY ONLY <2>0, AdvanceIs
  <2> HIDE DEF s
  <2>2. QED
    BY <1>4, <1>6, <1>7, <2>1
<1>8. QED
  BY <1>4, <1>5, <1>6, <1>7

LEMMA Fw2Fields ==
  ASSUME Typed, Shapes, file.kind # "dtb", Fw2, NEW n, n = file.fw2 - st.fw2
  PROVE  /\ Consume(n) /\ slot2' = Program(slot2, st.fw2, Chunk(n))
         /\ st'.loader = st.loader /\ st'.crc = st.crc \o Chunk(n)
         /\ st'.fw1 = st.fw1 /\ st'.fw2 = st.fw2 + AtMost(n) /\ st'.web = st.web
         /\ \/ st'.phase = "fw2"
            \/ st'.fw2 = file.fw2 /\ Follows(st'.phase, {"web"})
<1> DEFINE s == [st EXCEPT !.fw2 = st.fw2 + AtMost(n), !.crc = st.crc \o Chunk(n)]
<1>1. file.fw2 \in Nat /\ st.fw2 \in 0 .. file.fw2 /\ n \in Nat /\ file \in File
  <2>1. file \in File
    BY DEF Shapes
  <2>2. file.fw2 \in Nat
    BY <2>1, FileIs
  <2>3. st.fw2 \in 0 .. file.fw2
    BY Found
  <2>4. QED
    BY ONLY <2>1, <2>2, <2>3, n = file.fw2 - st.fw2
<1>2. AtMost(n) \in Nat /\ AtMost(n) <= n /\ Chunk(n) \in Seq(Unit) /\ st.crc \in Seq(Unit)
  BY <1>1, AtMostIs, ChunkIs, Found
<1>3. st.fw2 + AtMost(n) \in 0 .. file.fw2 /\ st.crc \o Chunk(n) \in Seq(Unit)
  BY <1>1, <1>2, Joined
<1>4. /\ s \in Contexts /\ s.loader = st.loader /\ s.crc = st.crc \o Chunk(n)
      /\ s.fw2 = st.fw2 + AtMost(n) /\ s.fw1 = st.fw1 /\ s.web = st.web /\ s.phase = st.phase
  BY <1>3, Found DEF Contexts
<1>5. st.phase = "fw2"
  BY DEF Fw2, Turn
<1>6. /\ Consume(n) /\ slot2' = Program(slot2, st.fw2, Chunk(n))
      /\ st' = s \/ (s.fw2 = file.fw2 /\ st' = Advance(s, {"web"}))
  <2>1. /\ Consume(n) /\ slot2' = Program(slot2, st.fw2, Chunk(n))
        /\ st' = IF s.fw2 = file.fw2 THEN Advance(s, {"web"}) ELSE s
    BY DEF Fw2
  <2> HIDE DEF s
  <2>2. QED
    BY <2>1
<1> HIDE DEF s
<1>7. CASE s.fw2 = file.fw2 /\ st' = Advance(s, {"web"})
  <2>0. st' = Advance(s, {"web"}) /\ file \in File /\ s \in Contexts
    BY <1>1, <1>4, <1>7
  <2>1. /\ Follows(st'.phase, {"web"})
        /\ st'.loader = s.loader /\ st'.fw1 = s.fw1 /\ st'.fw2 = s.fw2
        /\ st'.web = s.web /\ st'.crc = s.crc
    BY ONLY <2>0, AdvanceIs
  <2> HIDE DEF s
  <2>2. QED
    BY <1>4, <1>6, <1>7, <2>1
<1>8. QED
  BY <1>4, <1>5, <1>6, <1>7

LEMMA WebFields ==
  ASSUME Typed, Shapes, file.kind # "dtb", Web, NEW n, n = file.web - Len(st.web)
  PROVE  /\ Consume(n) /\ web' = LoaderWrite(web, 1 + Len(st.web), Chunk(n))
         /\ st'.loader = st.loader /\ st'.crc = st.crc \o Chunk(n)
         /\ st'.fw1 = st.fw1 /\ st'.fw2 = st.fw2 /\ st'.web = st.web \o Chunk(n)
         /\ \/ st'.phase = "web"
            \/ Len(st'.web) = file.web /\ st'.phase = "done"
<1> DEFINE s == [st EXCEPT !.web = st.web \o Chunk(n), !.crc = st.crc \o Chunk(n)]
<1>1. file.web \in Nat /\ file \in File
  BY FileIs DEF Shapes
<1>2. st.web \o Chunk(n) \in Seq(Unit) /\ st.crc \o Chunk(n) \in Seq(Unit)
  BY <1>1, Grown, Found
<1>3. /\ s \in Contexts /\ s.loader = st.loader /\ s.crc = st.crc \o Chunk(n)
      /\ s.fw1 = st.fw1 /\ s.fw2 = st.fw2 /\ s.web = st.web \o Chunk(n) /\ s.phase = st.phase
  BY <1>2, Found DEF Contexts
<1>4. st.phase = "web"
  BY DEF Web, Turn
<1>5. /\ Consume(n) /\ web' = LoaderWrite(web, 1 + Len(st.web), Chunk(n))
      /\ st' = s \/ (Len(s.web) = file.web /\ st' = Advance(s, {}))
  <2>1. /\ Consume(n) /\ web' = LoaderWrite(web, 1 + Len(st.web), Chunk(n))
        /\ st' = IF Len(s.web) = file.web THEN Advance(s, {}) ELSE s
    BY DEF Web
  <2> HIDE DEF s
  <2>2. QED
    BY <2>1
<1> HIDE DEF s
<1>6. CASE Len(s.web) = file.web /\ st' = Advance(s, {})
  <2>0. st' = Advance(s, {}) /\ file \in File /\ s \in Contexts
    BY <1>1, <1>3, <1>6
  <2>1. /\ Follows(st'.phase, {})
        /\ st'.loader = s.loader /\ st'.fw1 = s.fw1 /\ st'.fw2 = s.fw2
        /\ st'.web = s.web /\ st'.crc = s.crc
    BY ONLY <2>0, AdvanceIs
  <2>2. st'.phase = "done"
    BY <2>1 DEF Follows, Counting
  <2>3. QED
    BY <1>3, <1>5, <1>6, <2>1, <2>2
<1>7. QED
  BY <1>3, <1>4, <1>5, <1>6

\* The turns of a package move within its phases.
LEMMA KindsTurn ==
  ASSUME Typed, Shapes, TreesKept, Kinds, Header \/ Loader \/ Fw1 \/ Fw2 \/ Web
  PROVE  Kinds'
<1>1. /\ pc = "feed" /\ st.phase \in {"hdr"} \cup Counting /\ file.kind = "upg"
      /\ pc' \in {"feed", "cli"} /\ file' = file
  BY DEF Header, Loader, Fw1, Fw2, Web, Turn, Kinds, Counting, Consume, Fail
<1>2. CASE Fail
  BY <1>2, KindsReset DEF Fail
<1>3. ASSUME pc' = "feed", st'.phase \in Counting
      PROVE  Kinds'
  BY <1>1, <1>3 DEF Kinds, Counting
<1>4. CASE Header /\ ~Fail
  <2>1. /\ Consume(Hdr - st.hdr)
        /\ st'.loader = st.loader /\ st'.fw1 = st.fw1 /\ st'.fw2 = st.fw2
        /\ st'.web = st.web /\ st'.crc = st.crc
        /\ st'.hdr = st.hdr + AtMost(Hdr - st.hdr)
        /\ st'.phase = "hdr" \/ st'.phase \in Counting
    BY <1>4, HeaderFields DEF Follows, Counting
  <2>2. pc' = "feed" /\ got' = got + AtMost(Hdr - st.hdr)
    BY <1>1, <2>1 DEF Consume
  <2>3. st.phase = "hdr" /\ got = st.hdr
    BY <1>4 DEF Header, Turn, Kinds
  <2>4. CASE st'.phase = "hdr"
    BY <1>1, <2>1, <2>2, <2>3, <2>4 DEF Kinds, Counting
  <2>5. QED
    BY <1>3, <2>1, <2>2, <2>4
<1>5. CASE (Loader \/ Fw1 \/ Fw2 \/ Web) /\ ~Fail
  <2>1. file.kind # "dtb"
    BY <1>1
  <2>2. pc' = "feed" /\ st'.phase \in Counting
    <3>1. CASE Loader
      BY <1>1, <1>5, <2>1, <3>1, LoaderFields DEF Follows, Counting, Consume
    <3>2. CASE Fw1
      BY <1>1, <2>1, <3>2, Fw1Fields DEF Follows, Counting, Consume
    <3>3. CASE Fw2
      BY <1>1, <2>1, <3>3, Fw2Fields DEF Follows, Counting, Consume
    <3>4. CASE Web
      BY <1>1, <2>1, <3>4, WebFields DEF Follows, Counting, Consume
    <3>5. QED
      BY <1>5, <3>1, <3>2, <3>3, <3>4
  <2>3. QED
    BY <1>3, <2>2
<1>6. QED
  BY <1>2, <1>4, <1>5

LEMMA KindsStep == TreesKept /\ Typed /\ Kinds /\ [Next]_vars => Kinds'
<1>1. SUFFICES ASSUME TreesKept, Typed, Kinds, [Next]_vars PROVE Kinds'
  OBVIOUS
<1>2. Shapes
  BY <1>1 DEF TreesKept
<1>3. CASE Header \/ Loader \/ Fw1 \/ Fw2 \/ Web
  BY <1>1, <1>2, <1>3, KindsTurn
<1>4. CASE (\E f \in File : Begin(f)) \/ Abort \/ Reported
  BY <1>4, KindsReset DEF Begin, Abort, Reported
<1>5. CASE Decide
  BY <1>1, <1>2, <1>5, KindsDecided
<1>6. CASE Ignore \/ App
  <2>1. st' = st /\ file' = file /\ pc' = pc /\ pc = "feed" /\ st.phase \in {"done", "app"}
    BY <1>6 DEF Ignore, App, Turn, Consume
  <2>2. QED
    BY <1>1, <2>1 DEF Kinds, Counting
<1>7. CASE \E n \in 1 .. Block : DataBlock(n)
  <2>1. st' = st /\ file' = file /\ got' = got /\ pc' = "feed" /\ pc = "recv"
    BY <1>7 DEF DataBlock
  <2>2. QED
    BY <1>1, <2>1 DEF Kinds
<1>8. CASE EraseBackup \/ DtbPrimary \/ DtbBackup
  <2>1. /\ file.kind = "dtb" /\ st.phase = "dtb" /\ pc' \in {"recv", "second", "feed"}
        /\ st' = st /\ file' = file
    BY <1>1, <1>8 DEF EraseBackup, DtbPrimary, DtbBackup, Turn, TreesKept, TreeInv, DtbComing
  <2>2. QED
    BY <1>1, <2>1 DEF Kinds, Counting
<1>9. CASE Return
  <2>1. st' = st /\ file' = file /\ got' = got /\ pc = "feed"
    BY <1>9 DEF Return
  <2>2. pc' = IF got < file.size THEN "recv"
              ELSE IF file.kind = "upg" THEN "finish" ELSE "success"
    BY <1>9 DEF Return
  <2>3. ~(got < file.size) => got = file.size
    BY <1>1, <1>2, FoundCounters
  <2>4. QED
    BY <1>1, <2>1, <2>2, <2>3 DEF Kinds
<1>10. CASE Finish
  <2>1. CASE Complete /\ st' = st /\ pc' = "success"
    <3>1. file' = file /\ got' = got /\ file.kind = "upg" /\ st.phase = "done"
      BY <1>1, <1>10, <2>1 DEF Finish, Complete, Kinds, Counting
    <3>2. QED
      BY <1>1, <2>1, <3>1 DEF Kinds, Counting
  <2>2. CASE st' = Reset /\ pc' = "cli"
    BY <2>2, KindsReset
  <2>3. QED
    BY <1>10, <2>1, <2>2 DEF Finish
<1>11. CASE DtsLoadDefault \/ \E n \in 0 .. Sector : DtsHeal(n)
  <2>1. st' = st /\ pc \in {"cli", "heal"} /\ pc' \in {"cli", "heal"}
    BY <1>11 DEF DtsLoadDefault, DtsHeal
  <2>2. st' = Reset
    BY <1>1, <2>1 DEF Kinds
  <2>3. QED
    BY <2>1, <2>2, KindsReset
<1>12. CASE UNCHANGED vars
  BY <1>1, <1>12 DEF vars, Kinds
<1>13. QED
  BY <1>1, <1>3, <1>4, <1>5, <1>6, <1>7, <1>8, <1>9, <1>10, <1>11, <1>12 DEF Next, Feed

-----------------------------------------------------------------------------
(* What a package is made of                                               *)

LEMMA JoinedAt ==
  ASSUME NEW T, NEW s \in Seq(T), NEW t \in Seq(T)
  PROVE  /\ s \o t \in Seq(T) /\ Len(s \o t) = Len(s) + Len(t)
         /\ \A i \in 1 .. Len(s) : (s \o t)[i] = s[i]
         /\ \A i \in 1 .. Len(t) : (s \o t)[Len(s) + i] = t[i]
<1>1. s \o t \in Seq(T) /\ Len(s \o t) = Len(s) + Len(t)
  BY Joined
<1>2. \A i \in 1 .. Len(s) : (s \o t)[i] = s[i]
  OBVIOUS
<1>3. \A i \in 1 .. Len(t) : (s \o t)[Len(s) + i] = t[i]
  OBVIOUS
<1>4. QED
  BY <1>1, <1>2, <1>3

LEMMA JoinedIs ==
  ASSUME NEW T, NEW s \in Seq(T), NEW t \in Seq(T), NEW x, x = s \o t
  PROVE  /\ x \in Seq(T) /\ Len(x) = Len(s) + Len(t)
         /\ \A i \in 1 .. Len(s) : x[i] = s[i]
         /\ \A i \in 1 .. Len(t) : x[Len(s) + i] = t[i]
  BY JoinedAt

LEMMA SectionAt ==
  ASSUME num \in Nat, NEW name \in Sections, NEW n \in Nat
  PROVE  /\ Section(name, n) \in Seq(Unit) /\ Len(Section(name, n)) = n
         /\ \A i \in 1 .. n : Section(name, n)[i] = <<num, name, i>>
<1>1. \A i \in 1 .. n : Section(name, n)[i] = <<num, name, i>>
  BY DEF Section
<1>2. QED
  BY <1>1, SectionIs

\* Where the sections begin in the body.
LEMMA BodyIs ==
  ASSUME file \in File, num \in Nat
  PROVE  /\ Body \in Seq(Unit)
         /\ Len(Body) = file.loader + file.fw1 + file.fw2 + file.web
         /\ \A i \in 1 .. file.loader : Body[i] = <<num, "loader", i>>
         /\ \A i \in 1 .. file.fw1 : Body[file.loader + i] = <<num, "fw1", i>>
         /\ \A i \in 1 .. file.fw2 : Body[file.loader + file.fw1 + i] = <<num, "fw2", i>>
         /\ \A i \in 1 .. file.web :
              Body[file.loader + file.fw1 + file.fw2 + i] = <<num, "web", i>>
<1>0. /\ "loader" \in Sections /\ "fw1" \in Sections /\ "fw2" \in Sections /\ "web" \in Sections
      /\ file.loader \in Nat /\ file.fw1 \in Nat /\ file.fw2 \in Nat /\ file.web \in Nat
  BY FileIs DEF Sections
<1>1. PICK l \in Seq(Unit) : /\ l = Section("loader", file.loader) /\ Len(l) = file.loader
                             /\ \A i \in 1 .. file.loader : l[i] = <<num, "loader", i>>
  BY <1>0, SectionAt
<1>2. PICK a \in Seq(Unit) : /\ a = Section("fw1", file.fw1) /\ Len(a) = file.fw1
                             /\ \A i \in 1 .. file.fw1 : a[i] = <<num, "fw1", i>>
  BY <1>0, SectionAt
<1>3. PICK b \in Seq(Unit) : /\ b = Section("fw2", file.fw2) /\ Len(b) = file.fw2
                             /\ \A i \in 1 .. file.fw2 : b[i] = <<num, "fw2", i>>
  BY <1>0, SectionAt
<1>4. PICK w \in Seq(Unit) : /\ w = Section("web", file.web) /\ Len(w) = file.web
                             /\ \A i \in 1 .. file.web : w[i] = <<num, "web", i>>
  BY <1>0, SectionAt
<1> DEFINE n1 == file.loader + file.fw1
           n2 == n1 + file.fw2
           n3 == n2 + file.web
<1>5. PICK x : x = l \o a
  OBVIOUS
<1>6. PICK y : y = x \o b
  OBVIOUS
<1>7. PICK z : z = y \o w
  OBVIOUS
<1>8. Body = z
  BY <1>1, <1>2, <1>3, <1>4, <1>5, <1>6, <1>7 DEF Body
<1>9. /\ x \in Seq(Unit) /\ Len(x) = n1
      /\ \A i \in 1 .. file.loader : x[i] = l[i]
      /\ \A i \in 1 .. file.fw1 : x[file.loader + i] = a[i]
  <2>1. /\ x \in Seq(Unit) /\ Len(x) = Len(l) + Len(a)
        /\ \A i \in 1 .. Len(l) : x[i] = l[i]
        /\ \A i \in 1 .. Len(a) : x[Len(l) + i] = a[i]
    BY ONLY <1>5, JoinedIs
  <2>2. QED
    BY <2>1, <1>1, <1>2
<1>10. /\ y \in Seq(Unit) /\ Len(y) = n2
       /\ \A i \in 1 .. n1 : y[i] = x[i]
       /\ \A i \in 1 .. file.fw2 : y[n1 + i] = b[i]
  <2>0. x \in Seq(Unit)
    BY <1>9
  <2>1. /\ y \in Seq(Unit) /\ Len(y) = Len(x) + Len(b)
        /\ \A i \in 1 .. Len(x) : y[i] = x[i]
        /\ \A i \in 1 .. Len(b) : y[Len(x) + i] = b[i]
    BY ONLY <1>6, <2>0, JoinedIs
  <2> HIDE DEF n1
  <2>2. QED
    BY <2>1, <1>3, <1>9
<1>11. /\ z \in Seq(Unit) /\ Len(z) = n3
       /\ \A i \in 1 .. n2 : z[i] = y[i]
       /\ \A i \in 1 .. file.web : z[n2 + i] = w[i]
  <2>0. y \in Seq(Unit)
    BY <1>10
  <2>1. /\ z \in Seq(Unit) /\ Len(z) = Len(y) + Len(w)
        /\ \A i \in 1 .. Len(y) : z[i] = y[i]
        /\ \A i \in 1 .. Len(w) : z[Len(y) + i] = w[i]
    BY ONLY <1>7, <2>0, JoinedIs
  <2> HIDE DEF n2
  <2>2. QED
    BY <2>1, <1>4, <1>10
<1>12. /\ \A i \in 1 .. file.loader : i \in 1 .. n1 /\ i \in 1 .. n2
       /\ \A i \in 1 .. file.fw1 : file.loader + i \in 1 .. n1 /\ file.loader + i \in 1 .. n2
       /\ \A i \in 1 .. file.fw2 : n1 + i \in 1 .. n2
  <2>1. PICK p \in Nat, q \in Nat, r \in Nat :
          p = file.loader /\ q = file.fw1 /\ r = file.fw2
    BY <1>0
  <2>2. n1 = p + q /\ n2 = p + q + r
    BY <2>1
  <2>3. /\ \A i \in 1 .. p : i \in 1 .. p + q /\ i \in 1 .. p + q + r
        /\ \A i \in 1 .. q : p + i \in 1 .. p + q /\ p + i \in 1 .. p + q + r
        /\ \A i \in 1 .. r : p + q + i \in 1 .. p + q + r
    OBVIOUS
  <2>4. QED
    BY <2>1, <2>2, <2>3
<1> HIDE DEF n1, n2, n3
<1>13. /\ \A i \in 1 .. file.loader : z[i] = <<num, "loader", i>>
       /\ \A i \in 1 .. file.fw1 : z[file.loader + i] = <<num, "fw1", i>>
       /\ \A i \in 1 .. file.fw2 : z[n1 + i] = <<num, "fw2", i>>
       /\ \A i \in 1 .. file.web : z[n2 + i] = <<num, "web", i>>
  <2>1. ASSUME NEW i \in 1 .. file.loader PROVE z[i] = <<num, "loader", i>>
    <3>1. i \in 1 .. n1 /\ i \in 1 .. n2
      BY <1>12, <2>1
    <3>2. z[i] = y[i] /\ y[i] = x[i] /\ x[i] = l[i]
      BY ONLY <1>9, <1>10, <1>11, <2>1, <3>1
    <3>3. QED
      BY <1>1, <2>1, <3>2
  <2>2. ASSUME NEW i \in 1 .. file.fw1 PROVE z[file.loader + i] = <<num, "fw1", i>>
    <3>1. file.loader + i \in 1 .. n1 /\ file.loader + i \in 1 .. n2
      BY <1>12, <2>2
    <3>2. z[file.loader + i] = y[file.loader + i] /\ y[file.loader + i] = x[file.loader + i]
      BY ONLY <1>10, <1>11, <3>1
    <3>3. x[file.loader + i] = a[i]
      BY <1>9, <2>2
    <3>4. QED
      BY <1>2, <2>2, <3>2, <3>3
  <2>3. ASSUME NEW i \in 1 .. file.fw2 PROVE z[n1 + i] = <<num, "fw2", i>>
    BY <1>3, <1>10, <1>11, <1>12
  <2>4. ASSUME NEW i \in 1 .. file.web PROVE z[n2 + i] = <<num, "web", i>>
    BY <1>4, <1>11
  <2>5. QED
    BY <2>1, <2>2, <2>3, <2>4
<1>14. QED
  BY <1>8, <1>11, <1>13 DEF n1, n2, n3

\* The body stands behind the header.
LEMMA ContentBody ==
  ASSUME file \in File, num \in Nat, file.kind = "upg", SizesOk
  PROVE  \A i \in 1 .. Len(Body) : Content[Hdr + i] = Body[i]
<1>1. /\ Hdr \in Nat /\ "hdr" \in Sections /\ "more" \in Sections /\ file.size \in Nat
  BY BoundsAssumption, FileIs DEF Sections
<1>2. PICK h \in Seq(Unit) : h = Section("hdr", Hdr) /\ Len(h) = Hdr
  BY <1>1, SectionAt
<1>3. PICK m \in Seq(Unit) : m = Section("more", file.size) /\ Len(m) = file.size
  BY <1>1, SectionAt
<1>4. PICK b \in Seq(Unit) : b = Body
  BY BodyIs
<1>5. PICK x : x = h \o b
  OBVIOUS
<1>6. PICK y : y = x \o m
  OBVIOUS
<1>7. Content = SubSeq(y, 1, file.size)
  BY <1>2, <1>3, <1>4, <1>5, <1>6 DEF Content
<1>8. /\ x \in Seq(Unit) /\ Len(x) = Len(h) + Len(b)
      /\ \A i \in 1 .. Len(b) : x[Len(h) + i] = b[i]
  BY ONLY <1>5, JoinedIs
<1>9. /\ y \in Seq(Unit) /\ Len(y) = Len(x) + Len(m)
      /\ \A i \in 1 .. Len(x) : y[i] = x[i]
  <2>0. x \in Seq(Unit)
    BY <1>8
  <2>1. QED
    BY ONLY <1>6, <2>0, JoinedIs
<1>10. ASSUME NEW i \in 1 .. Len(b) PROVE Content[Hdr + i] = b[i]
  <2>1. Hdr + Len(b) <= file.size /\ Len(b) \in Nat /\ Len(x) = Hdr + Len(b)
        /\ Len(y) = Len(x) + file.size
    BY <1>2, <1>3, <1>4, <1>8, <1>9 DEF SizesOk
  <2>2. Hdr + i \in 1 .. file.size /\ Hdr + i \in 1 .. Len(x) /\ file.size <= Len(y)
    BY ONLY <1>1, <2>1
  <2>4. SubSeq(y, 1, file.size)[Hdr + i] = y[1 + (Hdr + i) - 1]
    BY ONLY <1>1, <1>9, <2>2
  <2>5. 1 + (Hdr + i) - 1 = Hdr + i
    BY <2>2
  <2>6. y[Hdr + i] = x[Hdr + i] /\ x[Hdr + i] = b[i]
    BY <1>2, <1>8, <1>9, <2>2
  <2>7. QED
    BY <1>7, <2>4, <2>5, <2>6
<1>11. QED
  BY <1>4, <1>10

\* A piece of a sequence, put behind what was in front of it.
LEMMA Longer ==
  ASSUME NEW T, NEW s \in Seq(T), NEW g \in Nat, NEW x \in Seq(T), g + Len(x) <= Len(s),
         \A i \in 1 .. Len(x) : x[i] = s[g + i]
  PROVE  SubSeq(s, 1, g) \o x = SubSeq(s, 1, g + Len(x))
<1> DEFINE old == SubSeq(s, 1, g)
           new == SubSeq(s, 1, g + Len(x))
<1>1. old \in Seq(T) /\ Len(old) = g /\ \A i \in 1 .. g : old[i] = s[i]
  OBVIOUS
<1>2. new \in Seq(T) /\ Len(new) = g + Len(x) /\ \A i \in 1 .. g + Len(x) : new[i] = s[i]
  OBVIOUS
<1> HIDE DEF old, new
<1>3. /\ old \o x \in Seq(T) /\ Len(old \o x) = g + Len(x)
      /\ \A i \in 1 .. g : (old \o x)[i] = old[i]
      /\ \A i \in 1 .. Len(x) : (old \o x)[g + i] = x[i]
  <2>1. old \in Seq(T) /\ x \in Seq(T)
    BY <1>1
  <2>2. /\ old \o x \in Seq(T) /\ Len(old \o x) = Len(old) + Len(x)
        /\ \A i \in 1 .. Len(old) : (old \o x)[i] = old[i]
        /\ \A i \in 1 .. Len(x) : (old \o x)[Len(old) + i] = x[i]
    BY ONLY <2>1, JoinedAt
  <2>3. QED
    BY <1>1, <2>2
<1>4. ASSUME NEW i \in 1 .. g + Len(x) PROVE (old \o x)[i] = new[i]
  <2>1. CASE i <= g
    <3>1. i \in 1 .. g
      BY <2>1
    <3>2. QED
      BY <1>1, <1>2, <1>3, <3>1
  <2>2. CASE ~(i <= g)
    <3>1. i - g \in 1 .. Len(x) /\ g + (i - g) = i
      BY <2>2
    <3>2. (old \o x)[g + (i - g)] = x[i - g] /\ x[i - g] = s[g + (i - g)]
      BY <1>3, <3>1
    <3>3. QED
      BY <1>2, <3>1, <3>2
  <2>3. QED
    BY <2>1, <2>2
<1>5. old \o x = new
  BY <1>2, <1>3, <1>4, SeqEqual
<1>6. QED
  BY <1>5 DEF old, new

\* A section stands at a place in the body, k units of it have been taken,
\* and the checksum ran over what is in front of the next one.
InFront(name, at, len, k) ==
  /\ at \in Nat /\ len \in Nat /\ at + len <= Len(Body)
  /\ \A i \in 1 .. len : Body[at + i] = <<num, name, i>>
  /\ k \in Nat /\ k <= len
  /\ got = Hdr + at + k
  /\ st.crc = SubSeq(Body, 1, at + k)

\* A turn takes the next n units of it, or as many as the block holds of
\* them, which continue the body.
TakesNext(name, at, k, n) ==
  /\ AtMost(n) \in Nat /\ AtMost(n) <= n
  /\ Chunk(n) \in Seq(Unit) /\ Len(Chunk(n)) = AtMost(n)
  /\ \A i \in 1 .. AtMost(n) : Chunk(n)[i] = <<num, name, k + i>>
  /\ st.crc \o Chunk(n) = SubSeq(Body, 1, at + k + AtMost(n))

LEMMA TurnFinds ==
  ASSUME Typed, Shapes, file.kind = "upg", SizesOk,
         NEW name, NEW at, NEW len, NEW k, InFront(name, at, len, k)
  PROVE  TakesNext(name, at, k, len - k)
<1> DEFINE n == len - k
<1>0. /\ at \in Nat /\ len \in Nat /\ at + len <= Len(Body)
      /\ \A i \in 1 .. len : Body[at + i] = <<num, name, i>>
      /\ k \in Nat /\ k <= len
      /\ got = Hdr + at + k
      /\ st.crc = SubSeq(Body, 1, at + k)
  BY DEF InFront
<1>1. n \in Nat /\ file.kind # "dtb" /\ Hdr \in Nat /\ file \in File /\ num \in Nat
  BY <1>0, BoundsAssumption DEF Shapes
<1> HIDE DEF n
<1>2. AtMost(n) \in Nat /\ AtMost(n) <= n /\ AtMost(n) <= seg
  BY <1>1, AtMostIs
<1>3. Chunk(n) \in Seq(Unit) /\ Len(Chunk(n)) = AtMost(n)
  BY <1>1, ChunkIs
<1>4. PICK c \in Seq(Unit) : c = Content /\ Len(c) = file.size
  BY <1>1, OtherContentIs
<1>5. Body \in Seq(Unit) /\ \A i \in 1 .. Len(Body) : c[Hdr + i] = Body[i]
  BY <1>1, <1>4, BodyIs, ContentBody
<1>6. ASSUME NEW i \in 1 .. AtMost(n)
      PROVE  Chunk(n)[i] = Body[at + k + i] /\ Chunk(n)[i] = <<num, name, k + i>>
  <2>0. got + seg <= file.size /\ got \in Nat /\ seg \in Nat /\ file.size \in Nat
    BY FoundCounters
  <2>1. got + AtMost(n) <= Len(c) /\ got \in Nat
    <3>1. Len(c) = file.size /\ AtMost(n) \in Nat /\ AtMost(n) <= seg
      BY <1>2, <1>4
    <3>2. QED
      BY ONLY <2>0, <3>1
  <2>2. SubSeq(c, got + 1, got + AtMost(n))[i] = c[(got + 1) + i - 1]
    <3>1. AtMost(n) \in Nat
      BY <1>2
    <3>2. QED
      BY ONLY <3>1, <1>4, <2>1, i \in 1 .. AtMost(n)
  <2>3. (got + 1) + i - 1 = Hdr + (at + k + i)
    BY <1>0, <1>1, <1>2
  <2>4. at + k + i \in 1 .. Len(Body) /\ k + i \in 1 .. len /\ at + (k + i) = at + k + i
    BY <1>0, <1>1, <1>2 DEF n
  <2>5. Chunk(n)[i] = c[Hdr + (at + k + i)]
    BY <1>4, <2>2, <2>3 DEF Chunk
  <2>6. c[Hdr + (at + k + i)] = Body[at + k + i]
    BY <1>5, <2>4
  <2>7. Body[at + (k + i)] = <<num, name, k + i>>
    BY <1>0, <2>4
  <2>8. QED
    BY <2>4, <2>5, <2>6, <2>7
<1>7. st.crc \o Chunk(n) = SubSeq(Body, 1, at + k + AtMost(n))
  <2>1. at + k + Len(Chunk(n)) <= Len(Body) /\ at + k \in Nat
    BY <1>0, <1>1, <1>2, <1>3 DEF n
  <2>2. \A i \in 1 .. Len(Chunk(n)) : Chunk(n)[i] = Body[at + k + i]
    BY <1>3, <1>6
  <2>3. PICK x \in Seq(Unit) : x = Chunk(n)
    BY <1>3
  <2>4. SubSeq(Body, 1, at + k) \o x = SubSeq(Body, 1, at + k + Len(x))
    BY ONLY <1>5, <2>1, <2>2, <2>3, Longer
  <2>5. QED
    BY <1>0, <1>3, <2>3, <2>4
<1>8. TakesNext(name, at, k, n)
  BY <1>2, <1>3, <1>6, <1>7 DEF TakesNext
<1>9. QED
  BY <1>8 DEF n

\* A section that was taken from its beginning goes on.
LEMMA SectionGrows ==
  ASSUME num \in Nat, NEW name \in Sections, NEW old \in Seq(Unit),
         old = Section(name, Len(old)), NEW x \in Seq(Unit),
         \A i \in 1 .. Len(x) : x[i] = <<num, name, Len(old) + i>>
  PROVE  /\ old \o x = Section(name, Len(old \o x))
         /\ Len(old \o x) = Len(old) + Len(x)
<1> DEFINE len == Len(old) + Len(x)
<1>1. /\ old \o x \in Seq(Unit) /\ Len(old \o x) = len
      /\ \A i \in 1 .. Len(old) : (old \o x)[i] = old[i]
      /\ \A i \in 1 .. Len(x) : (old \o x)[Len(old) + i] = x[i]
  BY JoinedAt
<1>2. len \in Nat /\ Len(old) \in Nat /\ Len(x) \in Nat
  OBVIOUS
<1>3. /\ Section(name, len) \in Seq(Unit) /\ Len(Section(name, len)) = len
      /\ \A i \in 1 .. len : Section(name, len)[i] = <<num, name, i>>
      /\ \A i \in 1 .. Len(old) : Section(name, Len(old))[i] = <<num, name, i>>
  BY <1>2, SectionAt
<1>4. ASSUME NEW i \in 1 .. len PROVE (old \o x)[i] = Section(name, len)[i]
  <2>1. CASE i <= Len(old)
    <3>1. i \in 1 .. Len(old)
      BY <1>2, <2>1
    <3>2. QED
      BY <1>1, <1>3, <3>1
  <2>2. CASE ~(i <= Len(old))
    <3>1. i - Len(old) \in 1 .. Len(x) /\ Len(old) + (i - Len(old)) = i
      BY <1>2, <2>2
    <3>2. /\ (old \o x)[Len(old) + (i - Len(old))] = x[i - Len(old)]
          /\ x[i - Len(old)] = <<num, name, Len(old) + (i - Len(old))>>
      BY <1>1, <3>1
    <3>3. QED
      BY <1>3, <3>1, <3>2
  <2>3. QED
    BY <2>1, <2>2
<1> HIDE DEF len
<1>5. PICK y \in Seq(Unit) : y = Section(name, len) /\ Len(y) = len
  BY <1>3
<1>6. PICK z \in Seq(Unit) : z = old \o x /\ Len(z) = len
  BY <1>1
<1>7. z = y
  BY <1>4, <1>5, <1>6, SeqEqual
<1>8. QED
  BY <1>1, <1>5, <1>6, <1>7 DEF len

-----------------------------------------------------------------------------
(* How far a package is                                                    *)

\* The units of the sections that have been taken.
Taken == Len(st.loader) + st.fw1 + st.fw2 + Len(st.web)

\* The sections come one after the other.
InOrder ==
  /\ st.phase \in Counting \ {"loader"} => Len(st.loader) = file.loader
  /\ st.phase \in {"fw2", "web", "done"} => st.fw1 = file.fw1
  /\ st.phase \in {"web", "done"} => st.fw2 = file.fw2
  /\ st.phase = "done" => Len(st.web) = file.web
  /\ st.phase = "loader" => st.fw1 = 0
  /\ st.phase \in {"loader", "fw1"} => st.fw2 = 0
  /\ st.phase \in {"loader", "fw1", "fw2"} => st.web = <<>>

Progress ==
  st.phase \in Counting =>
    /\ SizesOk
    /\ InOrder
    /\ IF st.phase = "done" THEN got >= Hdr + Taken ELSE got = Hdr + Taken
    /\ st.crc = SubSeq(Body, 1, Taken)
    /\ st.loader = Section("loader", Len(st.loader))
    /\ st.web = Section("web", Len(st.web))

LEMMA SameBody ==
  ASSUME file' = file, num' = num
  PROVE  Body' = Body /\ (SizesOk => SizesOk')
<1>1. Body' = Body
  BY DEF Body, Section
<1>2. QED
  BY <1>1 DEF SizesOk

\* What is left to show of a turn of a section.
LEMMA ProgressTo ==
  ASSUME file' = file, num' = num, SizesOk, InOrder', got' \in Nat,
         got' = Hdr + Taken', st'.crc = SubSeq(Body, 1, Taken'),
         st'.loader = Section("loader", Len(st'.loader)),
         st'.web = Section("web", Len(st'.web))
  PROVE  Progress'
<1>1. Body' = Body /\ SizesOk'
  BY SameBody
<1>2. /\ st'.loader = Section("loader", Len(st.loader))'
      /\ st'.web = Section("web", Len(st.web))'
  BY DEF Section
<1>3. st'.crc = SubSeq(Body', 1, Taken')
  BY <1>1
<1>4. got' >= Hdr + Taken'
  OBVIOUS
<1>5. QED
  BY <1>1, <1>2, <1>3, <1>4 DEF Progress

LEMMA Sums ==
  ASSUME NEW a \in Nat, NEW b \in Nat, NEW c \in Nat, NEW d \in Nat
  PROVE  /\ a + b \in Nat /\ a + b + c \in Nat /\ a + b + c + d \in Nat
         /\ 0 + a <= a + b + c + d /\ a + b <= a + b + c + d
         /\ a + b + c <= a + b + c + d
  OBVIOUS

\* What is counted goes on with what is taken.
LEMMA HeaderOn ==
  ASSUME NEW h \in Nat, NEW t \in Nat, NEW n \in Nat
  PROVE  (h + t) + n = h + (t + n) /\ h + (t + n) \in Nat
  OBVIOUS

LEMMA BehindFirst ==
  ASSUME NEW l \in Nat, NEW w \in Nat, NEW k \in Nat, l + k <= w
  PROVE  /\ 1 + l \in Nat /\ 1 + w \in Nat /\ 1 <= 1 + l /\ (1 + l) + k <= 1 + w
         /\ 1 + (l + k) = (1 + l) + k
         /\ \A i \in 1 .. k : (1 + l) - 1 + i = l + i
  OBVIOUS

LEMMA EmptySection ==
  ASSUME NEW name
  PROVE  Section(name, Len(<<>>)) = <<>>
<1>1. Len(<<>>) = 0
  OBVIOUS
<1>2. QED
  BY <1>1 DEF Section

\* The lengths of the sections.
LEMMA Lengths ==
  ASSUME Typed, Shapes
  PROVE  /\ file.loader \in Nat /\ file.fw1 \in Nat /\ file.fw2 \in Nat /\ file.web \in Nat
         /\ Hdr \in Nat /\ num \in Nat /\ file \in File
         /\ Len(Body) = file.loader + file.fw1 + file.fw2 + file.web
         /\ Len(st.loader) \in Nat /\ Len(st.loader) <= file.loader
         /\ st.fw1 \in Nat /\ st.fw1 <= file.fw1
         /\ st.fw2 \in Nat /\ st.fw2 <= file.fw2
         /\ Len(st.web) \in Nat /\ Len(st.web) <= file.web
         /\ Len(<<>>) = 0
         /\ got \in Nat /\ got + seg <= file.size /\ seg \in Nat /\ file.size \in Nat
<1>1. /\ file.loader \in Nat /\ file.fw1 \in Nat /\ file.fw2 \in Nat /\ file.web \in Nat
      /\ Hdr \in Nat /\ num \in Nat /\ file \in File
  BY FileIs, BoundsAssumption DEF Shapes
<1>2. Len(Body) = file.loader + file.fw1 + file.fw2 + file.web
  BY <1>1, BodyIs
<1>3. /\ st.loader \in Seq(Unit) /\ st.web \in Seq(Unit)
      /\ st.fw1 \in 0 .. file.fw1 /\ st.fw2 \in 0 .. file.fw2
      /\ Len(st.loader) <= file.loader /\ Len(st.web) <= file.web
  BY Found
<1>4. Len(st.loader) \in Nat /\ Len(st.web) \in Nat
  BY <1>3
<1>5. /\ st.fw1 \in Nat /\ st.fw1 <= file.fw1
      /\ st.fw2 \in Nat /\ st.fw2 <= file.fw2
  BY <1>1, <1>3
<1>6. Len(<<>>) = 0
  OBVIOUS
<1>7. QED
  BY <1>1, <1>2, <1>3, <1>4, <1>5, <1>6, FoundCounters

\* What a turn of the loader takes.
LEMMA LoaderTakes ==
  ASSUME Typed, Shapes, Kinds, Progress, st.phase = "loader",
         NEW n, n = file.loader - Len(st.loader)
  PROVE  /\ AtMost(n) \in Nat
         /\ st.loader \o Chunk(n) = Section("loader", Len(st.loader \o Chunk(n)))
         /\ Len(st.loader \o Chunk(n)) = Len(st.loader) + AtMost(n)
         /\ st.crc \o Chunk(n) = SubSeq(Body, 1, Taken + AtMost(n))
<1>1. file.kind = "upg" /\ SizesOk /\ st.phase \in Counting
  BY DEF Kinds, Counting, Progress
<1>2. st.fw1 = 0 /\ st.fw2 = 0 /\ st.web = <<>>
  BY <1>1 DEF Progress, InOrder
<1>3. Taken = 0 + Len(st.loader)
  BY <1>2, Lengths DEF Taken
<1>4. got = Hdr + 0 + Len(st.loader) /\ st.crc = SubSeq(Body, 1, 0 + Len(st.loader))
  <2>1. got = Hdr + Taken /\ st.crc = SubSeq(Body, 1, Taken)
    BY <1>1 DEF Progress
  <2>2. Len(st.loader) \in Nat /\ Hdr \in Nat
    BY Lengths
  <2>3. QED
    BY ONLY <1>3, <2>1, <2>2
<1>5. /\ 0 \in Nat /\ file.loader \in Nat /\ 0 + file.loader <= Len(Body)
      /\ Len(st.loader) \in Nat /\ Len(st.loader) <= file.loader
  <2>1. /\ file.loader \in Nat /\ file.fw1 \in Nat /\ file.fw2 \in Nat /\ file.web \in Nat
        /\ Len(Body) = file.loader + file.fw1 + file.fw2 + file.web
        /\ Len(st.loader) \in Nat /\ Len(st.loader) <= file.loader
    BY Lengths
  <2>2. QED
    BY <2>1, Sums
<1>6. \A i \in 1 .. file.loader : Body[0 + i] = <<num, "loader", i>>
  <2>1. \A i \in 1 .. file.loader : Body[i] = <<num, "loader", i>>
    BY Lengths, BodyIs
  <2>2. \A i \in 1 .. file.loader : 0 + i = i
    OBVIOUS
  <2>3. QED
    BY <2>1, <2>2
<1>7. /\ AtMost(n) \in Nat
      /\ Chunk(n) \in Seq(Unit) /\ Len(Chunk(n)) = AtMost(n)
      /\ \A i \in 1 .. AtMost(n) : Chunk(n)[i] = <<num, "loader", Len(st.loader) + i>>
      /\ st.crc \o Chunk(n) = SubSeq(Body, 1, 0 + Len(st.loader) + AtMost(n))
  <2>1. InFront("loader", 0, file.loader, Len(st.loader))
    BY <1>4, <1>5, <1>6 DEF InFront
  <2>2. TakesNext("loader", 0, Len(st.loader), file.loader - Len(st.loader))
    BY ONLY Typed, Shapes, <1>1, <2>1, TurnFinds
  <2>3. TakesNext("loader", 0, Len(st.loader), n)
    BY <2>2
  <2>4. AtMost(n) \in Nat /\ AtMost(n) <= n /\ n = file.loader - Len(st.loader)
    BY <2>3 DEF TakesNext
  <2>5. Len(st.loader) + AtMost(n) <= file.loader
    BY ONLY <1>5, <2>4
  <2>6. QED
    BY ONLY <2>3, <2>5 DEF TakesNext
<1>8. st.loader = Section("loader", Len(st.loader)) /\ st.loader \in Seq(Unit)
  BY <1>1, Found DEF Progress
<1>9. "loader" \in Sections
  BY DEF Sections
<1>10. /\ st.loader \o Chunk(n) = Section("loader", Len(st.loader \o Chunk(n)))
       /\ Len(st.loader \o Chunk(n)) = Len(st.loader) + Len(Chunk(n))
  BY Lengths, <1>7, <1>8, <1>9, SectionGrows
<1>11. QED
  BY <1>3, <1>7, <1>10

LEMMA Fw1Takes ==
  ASSUME Typed, Shapes, Kinds, Progress, st.phase = "fw1", NEW n, n = file.fw1 - st.fw1
  PROVE  /\ AtMost(n) \in Nat /\ st.fw1 + AtMost(n) <= file.fw1
         /\ Chunk(n) \in Seq(Unit) /\ Len(Chunk(n)) = AtMost(n)
         /\ \A i \in 1 .. AtMost(n) : Chunk(n)[i] = <<num, "fw1", st.fw1 + i>>
         /\ st.crc \o Chunk(n) = SubSeq(Body, 1, Taken + AtMost(n))
<1>1. file.kind = "upg" /\ SizesOk /\ st.phase \in Counting
  BY DEF Kinds, Counting, Progress
<1>2. Len(st.loader) = file.loader /\ st.fw2 = 0 /\ st.web = <<>>
  BY <1>1 DEF Progress, InOrder
<1> DEFINE at == file.loader
<1>3. Taken = at + st.fw1
  BY <1>2, Lengths DEF Taken
<1>4. got = Hdr + at + st.fw1 /\ st.crc = SubSeq(Body, 1, at + st.fw1)
  <2>1. got = Hdr + Taken /\ st.crc = SubSeq(Body, 1, Taken)
    BY <1>1 DEF Progress
  <2>2. at \in Nat /\ st.fw1 \in Nat /\ Hdr \in Nat
    BY Lengths
  <2> HIDE DEF at
  <2>3. QED
    BY ONLY <1>3, <2>1, <2>2
<1>5. /\ at \in Nat /\ file.fw1 \in Nat /\ at + file.fw1 <= Len(Body)
      /\ st.fw1 \in Nat /\ st.fw1 <= file.fw1
  <2>1. /\ file.loader \in Nat /\ file.fw1 \in Nat /\ file.fw2 \in Nat /\ file.web \in Nat
        /\ Len(Body) = file.loader + file.fw1 + file.fw2 + file.web
        /\ st.fw1 \in Nat /\ st.fw1 <= file.fw1
    BY Lengths
  <2>2. QED
    BY <2>1, Sums
<1>6. \A i \in 1 .. file.fw1 : Body[at + i] = <<num, "fw1", i>>
  BY Lengths, BodyIs
<1> HIDE DEF at
<1>7. /\ AtMost(n) \in Nat /\ st.fw1 + AtMost(n) <= file.fw1
      /\ Chunk(n) \in Seq(Unit) /\ Len(Chunk(n)) = AtMost(n)
      /\ \A i \in 1 .. AtMost(n) : Chunk(n)[i] = <<num, "fw1", st.fw1 + i>>
      /\ st.crc \o Chunk(n) = SubSeq(Body, 1, at + st.fw1 + AtMost(n))
  <2>1. InFront("fw1", at, file.fw1, st.fw1)
    BY <1>4, <1>5, <1>6 DEF InFront
  <2>2. TakesNext("fw1", at, st.fw1, file.fw1 - st.fw1)
    BY ONLY Typed, Shapes, <1>1, <2>1, TurnFinds
  <2>3. TakesNext("fw1", at, st.fw1, n)
    BY <2>2
  <2>4. AtMost(n) \in Nat /\ AtMost(n) <= n /\ n = file.fw1 - st.fw1
    BY <2>3 DEF TakesNext
  <2>5. st.fw1 + AtMost(n) <= file.fw1
    BY ONLY <1>5, <2>4
  <2>6. QED
    BY ONLY <2>3, <2>5 DEF TakesNext
<1>8. QED
  BY <1>3, <1>7

LEMMA Fw2Takes ==
  ASSUME Typed, Shapes, Kinds, Progress, st.phase = "fw2", NEW n, n = file.fw2 - st.fw2
  PROVE  /\ AtMost(n) \in Nat /\ st.fw2 + AtMost(n) <= file.fw2
         /\ Chunk(n) \in Seq(Unit) /\ Len(Chunk(n)) = AtMost(n)
         /\ \A i \in 1 .. AtMost(n) : Chunk(n)[i] = <<num, "fw2", st.fw2 + i>>
         /\ st.crc \o Chunk(n) = SubSeq(Body, 1, Taken + AtMost(n))
<1>1. file.kind = "upg" /\ SizesOk /\ st.phase \in Counting
  BY DEF Kinds, Counting, Progress
<1>2. Len(st.loader) = file.loader /\ st.fw1 = file.fw1 /\ st.web = <<>>
  BY <1>1 DEF Progress, InOrder
<1> DEFINE at == file.loader + file.fw1
<1>3. Taken = at + st.fw2
  <2>1. /\ Len(st.web) = 0 /\ Len(st.loader) = file.loader /\ st.fw1 = file.fw1
        /\ file.loader \in Nat /\ file.fw1 \in Nat /\ st.fw2 \in Nat
    BY <1>2, Lengths
  <2>2. QED
    BY ONLY <2>1 DEF Taken
<1>4. got = Hdr + at + st.fw2 /\ st.crc = SubSeq(Body, 1, at + st.fw2)
  <2>1. got = Hdr + Taken /\ st.crc = SubSeq(Body, 1, Taken)
    BY <1>1 DEF Progress
  <2>2. at \in Nat /\ st.fw2 \in Nat /\ Hdr \in Nat
    <3>1. /\ file.loader \in Nat /\ file.fw1 \in Nat /\ file.fw2 \in Nat /\ file.web \in Nat
          /\ st.fw2 \in Nat /\ Hdr \in Nat
      BY Lengths
    <3>2. QED
      BY <3>1, Sums
  <2> HIDE DEF at
  <2>3. QED
    BY ONLY <1>3, <2>1, <2>2
<1>5. /\ at \in Nat /\ file.fw2 \in Nat /\ at + file.fw2 <= Len(Body)
      /\ st.fw2 \in Nat /\ st.fw2 <= file.fw2
  <2>1. /\ file.loader \in Nat /\ file.fw1 \in Nat /\ file.fw2 \in Nat /\ file.web \in Nat
        /\ Len(Body) = file.loader + file.fw1 + file.fw2 + file.web
        /\ st.fw2 \in Nat /\ st.fw2 <= file.fw2
    BY Lengths
  <2>2. QED
    BY <2>1, Sums
<1>6. \A i \in 1 .. file.fw2 : Body[at + i] = <<num, "fw2", i>>
  BY Lengths, BodyIs
<1> HIDE DEF at
<1>7. /\ AtMost(n) \in Nat /\ st.fw2 + AtMost(n) <= file.fw2
      /\ Chunk(n) \in Seq(Unit) /\ Len(Chunk(n)) = AtMost(n)
      /\ \A i \in 1 .. AtMost(n) : Chunk(n)[i] = <<num, "fw2", st.fw2 + i>>
      /\ st.crc \o Chunk(n) = SubSeq(Body, 1, at + st.fw2 + AtMost(n))
  <2>1. InFront("fw2", at, file.fw2, st.fw2)
    BY <1>4, <1>5, <1>6 DEF InFront
  <2>2. TakesNext("fw2", at, st.fw2, file.fw2 - st.fw2)
    BY ONLY Typed, Shapes, <1>1, <2>1, TurnFinds
  <2>3. TakesNext("fw2", at, st.fw2, n)
    BY <2>2
  <2>4. AtMost(n) \in Nat /\ AtMost(n) <= n /\ n = file.fw2 - st.fw2
    BY <2>3 DEF TakesNext
  <2>5. st.fw2 + AtMost(n) <= file.fw2
    BY ONLY <1>5, <2>4
  <2>6. QED
    BY ONLY <2>3, <2>5 DEF TakesNext
<1>8. QED
  BY <1>3, <1>7

LEMMA WebTakes ==
  ASSUME Typed, Shapes, Kinds, Progress, st.phase = "web",
         NEW n, n = file.web - Len(st.web)
  PROVE  /\ AtMost(n) \in Nat /\ Len(st.web) + AtMost(n) <= file.web
         /\ Chunk(n) \in Seq(Unit) /\ Len(Chunk(n)) = AtMost(n)
         /\ \A i \in 1 .. AtMost(n) : Chunk(n)[i] = <<num, "web", Len(st.web) + i>>
         /\ st.web \o Chunk(n) = Section("web", Len(st.web \o Chunk(n)))
         /\ Len(st.web \o Chunk(n)) = Len(st.web) + AtMost(n)
         /\ st.crc \o Chunk(n) = SubSeq(Body, 1, Taken + AtMost(n))
<1>1. file.kind = "upg" /\ SizesOk /\ st.phase \in Counting
  BY DEF Kinds, Counting, Progress
<1>2. Len(st.loader) = file.loader /\ st.fw1 = file.fw1 /\ st.fw2 = file.fw2
  BY <1>1 DEF Progress, InOrder
<1> DEFINE at == file.loader + file.fw1 + file.fw2
           k == Len(st.web)
<1>3. Taken = at + k
  BY <1>2 DEF Taken
<1>4. got = Hdr + at + k /\ st.crc = SubSeq(Body, 1, at + k)
  <2>1. got = Hdr + Taken /\ st.crc = SubSeq(Body, 1, Taken)
    BY <1>1 DEF Progress
  <2>2. at \in Nat /\ k \in Nat /\ Hdr \in Nat
    <3>1. /\ file.loader \in Nat /\ file.fw1 \in Nat /\ file.fw2 \in Nat /\ file.web \in Nat
          /\ k \in Nat /\ Hdr \in Nat
      BY Lengths
    <3>2. QED
      BY <3>1, Sums
  <2> HIDE DEF at, k
  <2>3. QED
    BY ONLY <1>3, <2>1, <2>2
<1>5. /\ at \in Nat /\ file.web \in Nat /\ at + file.web <= Len(Body)
      /\ k \in Nat /\ k <= file.web
  <2>1. /\ file.loader \in Nat /\ file.fw1 \in Nat /\ file.fw2 \in Nat /\ file.web \in Nat
        /\ Len(Body) = file.loader + file.fw1 + file.fw2 + file.web
        /\ k \in Nat /\ k <= file.web
    BY Lengths
  <2>2. QED
    BY <2>1, Sums
<1>6. \A i \in 1 .. file.web : Body[at + i] = <<num, "web", i>>
  BY Lengths, BodyIs
<1> HIDE DEF at
<1>7. /\ AtMost(n) \in Nat /\ k + AtMost(n) <= file.web
      /\ Chunk(n) \in Seq(Unit) /\ Len(Chunk(n)) = AtMost(n)
      /\ \A i \in 1 .. AtMost(n) : Chunk(n)[i] = <<num, "web", k + i>>
      /\ st.crc \o Chunk(n) = SubSeq(Body, 1, at + k + AtMost(n))
  <2>1. InFront("web", at, file.web, k)
    BY <1>4, <1>5, <1>6 DEF InFront
  <2>2. TakesNext("web", at, k, file.web - k)
    BY ONLY Typed, Shapes, <1>1, <2>1, TurnFinds
  <2>3. TakesNext("web", at, k, n)
    BY <2>2
  <2>4. AtMost(n) \in Nat /\ AtMost(n) <= n /\ n = file.web - k
    BY <2>3 DEF TakesNext
  <2>5. k + AtMost(n) <= file.web
    BY ONLY <1>5, <2>4
  <2>6. QED
    BY ONLY <2>3, <2>5 DEF TakesNext
<1>8. st.web = Section("web", k) /\ st.web \in Seq(Unit) /\ num \in Nat
  BY <1>1, Found, Lengths DEF Progress
<1>9. "web" \in Sections
  BY DEF Sections
<1>10. /\ st.web \o Chunk(n) = Section("web", Len(st.web \o Chunk(n)))
       /\ Len(st.web \o Chunk(n)) = k + Len(Chunk(n))
  BY <1>7, <1>8, <1>9, SectionGrows
<1>11. QED
  BY <1>3, <1>7, <1>10

-----------------------------------------------------------------------------
(* What stands in the flash                                                *)

\* Cells that hold a section, cells that are erased, and a flash that was
\* programmed once.
Behind(cell, k, name, from, to) ==
  \A a \in Address : from <= a /\ a < to => cell[a] = <<k, name, a - from + 1>>

Ahead(cell, from, to) == \A a \in Address : from <= a /\ a < to => cell[a] = Erased

Clean(cell) == \A a \in Address : cell[a] # Garbage

LEMMA NotGarbage ==
  /\ \A k, name, i : <<k, name, i>> # Garbage
  /\ \A k, name, i, n : <<k, name, i, n>> # Garbage
  /\ \A body : <<"crc", body>> # Garbage
  /\ Stale # Garbage /\ Erased # Garbage /\ Placeholder # Garbage
<1>1. Len(Garbage) = 1 /\ Garbage[1] = "garbage"
  BY DEF Garbage
<1>2. ASSUME NEW k, NEW name, NEW i PROVE <<k, name, i>> # Garbage
  <2>1. Len(<<k, name, i>>) = 3
    OBVIOUS
  <2>2. QED
    BY <1>1, <2>1
<1>3. ASSUME NEW k, NEW name, NEW i, NEW n PROVE <<k, name, i, n>> # Garbage
  <2>1. Len(<<k, name, i, n>>) = 4
    OBVIOUS
  <2>2. QED
    BY <1>1, <2>1
<1>4. ASSUME NEW body PROVE <<"crc", body>> # Garbage
  <2>1. Len(<<"crc", body>>) = 2
    OBVIOUS
  <2>2. QED
    BY <1>1, <2>1
<1>5. Stale # Garbage
  <2>1. Stale[1] = "stale"
    BY DEF Stale
  <2>2. QED
    BY <1>1, <2>1
<1>6. Erased # Garbage
  <2>1. Len(Erased) = 0
    BY DEF Erased
  <2>2. QED
    BY <1>1, <2>1
<1>7. Placeholder # Garbage
  BY <1>4 DEF Placeholder
<1>8. QED
  BY <1>2, <1>3, <1>4, <1>5, <1>6, <1>7

\* A write onto erased cells is what they hold afterwards.
LEMMA ProgramTakes ==
  ASSUME NEW cell, NEW off \in Nat, NEW T, NEW data \in Seq(T),
         Ahead(cell, off, off + Len(data)), NEW a \in Address
  PROVE  Program(cell, off, data)[a]
           = IF off <= a /\ a < off + Len(data) THEN data[a - off + 1] ELSE cell[a]
<1>1. Program(cell, off, data)[a]
        = IF ~(off <= a /\ a < off + Len(data)) THEN cell[a]
          ELSE IF cell[a] = Erased THEN data[a - off + 1] ELSE Garbage
  BY DEF Program, Within
<1>2. off <= a /\ a < off + Len(data) => cell[a] = Erased
  BY DEF Ahead
<1>3. QED
  BY <1>1, <1>2

LEMMA CleanErased ==
  ASSUME NEW cell, Clean(cell), NEW sectors
  PROVE  Clean(Erase(cell, sectors))
  BY NotGarbage DEF Clean, Erase

\* What is written is not yet anywhere.
LEMMA CleanProgram ==
  ASSUME NEW cell, Clean(cell), NEW off \in Nat, NEW T, NEW data \in Seq(T),
         Ahead(cell, off, off + Len(data)),
         \A i \in 1 .. Len(data) : data[i] # Garbage
  PROVE  Clean(Program(cell, off, data))
<1>1. SUFFICES ASSUME NEW a \in Address PROVE Program(cell, off, data)[a] # Garbage
  BY DEF Clean
<1>2. CASE off <= a /\ a < off + Len(data)
  <2>1. a - off + 1 \in 1 .. Len(data)
    BY <1>2, AreaAssumption DEF Address
  <2>2. Program(cell, off, data)[a] = data[a - off + 1]
    BY <1>2, ProgramTakes
  <2>3. QED
    BY <2>1, <2>2
<1>3. CASE ~(off <= a /\ a < off + Len(data))
  <2>1. Program(cell, off, data)[a] = cell[a]
    BY <1>3, ProgramTakes
  <2>2. QED
    BY <2>1 DEF Clean
<1>4. QED
  BY <1>2, <1>3

\* A section goes on where it was left.
LEMMA Fills ==
  ASSUME NEW cell, Clean(cell), NEW from \in Nat, NEW off \in Nat, from <= off,
         NEW to \in Nat, NEW T, NEW data \in Seq(T), off + Len(data) <= to,
         NEW k, NEW name, Behind(cell, k, name, from, off), Ahead(cell, off, to),
         \A i \in 1 .. Len(data) : data[i] = <<k, name, off - from + i>>,
         NEW new, new = Program(cell, off, data)
  PROVE  /\ Clean(new)
         /\ Behind(new, k, name, from, off + Len(data))
         /\ Ahead(new, off + Len(data), to)
         /\ \A a \in Address : a < off => new[a] = cell[a]
<1>1. Len(data) \in Nat /\ \A a \in Address : a \in Nat
  BY AreaAssumption DEF Address
<1>2. Ahead(cell, off, off + Len(data))
  BY <1>1 DEF Ahead
<1>3. \A i \in 1 .. Len(data) : data[i] # Garbage
  BY NotGarbage
<1>4. Clean(new)
  BY <1>2, <1>3, CleanProgram
<1>5. \A a \in Address :
        new[a] = IF off <= a /\ a < off + Len(data) THEN data[a - off + 1] ELSE cell[a]
  BY <1>2, ProgramTakes
<1>6. Behind(new, k, name, from, off + Len(data))
  <2>1. SUFFICES ASSUME NEW a \in Address, from <= a, a < off + Len(data)
                 PROVE  new[a] = <<k, name, a - from + 1>>
    BY DEF Behind
  <2>2. CASE a < off
    <3>1. new[a] = cell[a]
      BY <1>1, <1>5, <2>2
    <3>2. QED
      BY <2>1, <2>2, <3>1 DEF Behind
  <2>3. CASE ~(a < off)
    <3>1. a - off + 1 \in 1 .. Len(data) /\ off - from + (a - off + 1) = a - from + 1 /\ off <= a
      BY <1>1, <2>1, <2>3
    <3>2. new[a] = data[a - off + 1]
      BY <1>5, <2>1, <3>1
    <3>3. data[a - off + 1] = <<k, name, off - from + (a - off + 1)>>
      BY <3>1
    <3>4. QED
      BY <3>1, <3>2, <3>3
  <2>4. QED
    BY <2>2, <2>3
<1>7. Ahead(new, off + Len(data), to)
  <2>1. SUFFICES ASSUME NEW a \in Address, off + Len(data) <= a, a < to
                 PROVE  new[a] = Erased
    BY DEF Ahead
  <2>2. off <= a /\ ~(a < off + Len(data))
    BY <1>1, <2>1
  <2>3. QED
    BY <1>5, <2>1, <2>2 DEF Ahead
<1>8. \A a \in Address : a < off => new[a] = cell[a]
  BY <1>1, <1>5
<1>9. QED
  BY <1>4, <1>6, <1>7, <1>8

\* What continues a section that reaches from one address to another, and what
\* the flash is when it stands behind the rest.
Continues(data, k, name, from, off, to) ==
  /\ from \in Nat /\ off \in Nat /\ to \in Nat /\ from <= off
  /\ data \in Seq(Unit) /\ off + Len(data) <= to
  /\ \A i \in 1 .. Len(data) : data[i] = <<k, name, off - from + i>>

Filled(new, cell, k, name, from, off, end, to) ==
  /\ Clean(new)
  /\ Behind(new, k, name, from, end)
  /\ Ahead(new, end, to)
  /\ \A a \in Address : a < off => new[a] = cell[a]

LEMMA FillsOn ==
  ASSUME NEW cell, Clean(cell), NEW k, NEW name, NEW from, NEW off, NEW to, NEW data,
         Continues(data, k, name, from, off, to),
         Behind(cell, k, name, from, off), Ahead(cell, off, to)
  PROVE  Filled(Program(cell, off, data), cell, k, name, from, off, off + Len(data), to)
<1>1. /\ from \in Nat /\ off \in Nat /\ to \in Nat /\ from <= off
      /\ data \in Seq(Unit) /\ off + Len(data) <= to
      /\ \A i \in 1 .. Len(data) : data[i] = <<k, name, off - from + i>>
  BY DEF Continues
<1>2. PICK new : new = Program(cell, off, data)
  OBVIOUS
<1>3. /\ Clean(new)
      /\ Behind(new, k, name, from, off + Len(data))
      /\ Ahead(new, off + Len(data), to)
      /\ \A a \in Address : a < off => new[a] = cell[a]
  BY ONLY <1>1, <1>2, Clean(cell), Behind(cell, k, name, from, off), Ahead(cell, off, to), Fills
<1>4. QED
  BY <1>2, <1>3 DEF Filled

\* What an image needs is erased when its slot is.
LEMMA CoveringErases ==
  ASSUME NEW cell, NEW n \in Nat
  PROVE  Ahead(Erase(cell, Covering(n)), 0, n)
<1>1. SUFFICES ASSUME NEW a \in Address, a < n
               PROVE  Erase(cell, Covering(n))[a] = Erased
  BY DEF Ahead
<1>2. a \in 0 .. n - 1
  BY <1>1, AreaAssumption DEF Address
<1>3. SectorOf(a) \in Covering(n)
  BY <1>2 DEF Covering
<1>4. QED
  BY <1>3 DEF Erase

LEMMA ProductGrows ==
  ASSUME NEW x \in Nat, NEW y \in Nat, x < y, NEW m \in Nat
  PROVE  x * m + m <= y * m
<1>1. PICK d \in Nat : y = x + 1 + d
  <2>1. y - x - 1 \in Nat /\ y = x + 1 + (y - x - 1)
    OBVIOUS
  <2>2. QED
    BY <2>1
<1>2. y * m = x * m + m + d * m
  BY <1>1
<1>3. d * m >= 0
  OBVIOUS
<1>4. QED
  BY <1>2, <1>3

\* Sectors rise with the addresses.
LEMMA SectorRises ==
  ASSUME NEW a \in Nat, NEW b \in Nat, a <= b
  PROVE  SectorOf(a) \in 0 .. SectorOf(b)
<1>1. /\ SectorOf(a) \in Nat /\ SectorOf(a) * Sector <= a
      /\ SectorOf(b) \in Nat /\ b < SectorOf(b) * Sector + Sector
      /\ Sector \in Nat
  BY SectorAssumption DEF SectorOf
<1>2. ~(SectorOf(b) < SectorOf(a))
  <2>1. SUFFICES ASSUME SectorOf(b) < SectorOf(a) PROVE FALSE
    OBVIOUS
  <2>2. SectorOf(b) * Sector + Sector <= SectorOf(a) * Sector
    BY <1>1, <2>1, ProductGrows
  <2>3. QED
    BY <1>1, <2>2
<1>3. QED
  BY <1>1, <1>2

\* So is the range of the web image.
LEMMA LoaderCovers ==
  ASSUME NEW cell, NEW len \in 1 .. Area
  PROVE  Ahead(Erase(cell, LoaderErases(0, len)), 0, len)
<1>1. SUFFICES ASSUME NEW a \in Address, a < len
               PROVE  Erase(cell, LoaderErases(0, len))[a] = Erased
  BY DEF Ahead
<1>2. a \in Nat /\ len \in Nat /\ len > 0 /\ Area \in Nat
  BY AreaAssumption DEF Address
<1>3. LoaderErases(0, len) = 0 .. SectorOf(IF len = Area THEN len - 1 ELSE len)
  BY DEF LoaderErases
<1>4. SectorOf(a) \in LoaderErases(0, len)
  <2>1. CASE len = Area
    <3>1. len - 1 \in Nat /\ a <= len - 1
      BY <1>1, <1>2
    <3>2. QED
      BY <1>2, <1>3, <2>1, <3>1, SectorRises
  <2>2. CASE len # Area
    <3>1. a <= len
      BY <1>1, <1>2
    <3>2. QED
      BY <1>2, <1>3, <2>2, <3>1, SectorRises
  <2>3. QED
    BY <2>1, <2>2
<1>5. QED
  BY <1>1, <1>4 DEF Erase

WebRecord == "cell" \in DOMAIN web

LEMMA SectorFits == Sector \in 1 .. Area /\ Sector \in Nat /\ Area \in Nat
<1>1. Sector \in Nat \ {0} /\ Area \in Nat \ {0} /\ Area % Sector = 0
  BY SectorAssumption, AreaAssumption
<1>2. Area < Sector => Area % Sector = Area
  BY <1>1
<1>3. QED
  BY <1>1, <1>2

\* The range is erased and the placeholder stands in front of it.
LEMMA WebStarted ==
  ASSUME WebRecord, Clean(web.cell), file.web \in Nat, file.web > 0, WebFits,
         NEW w, w = StartWeb(web)
  PROVE  /\ "cell" \in DOMAIN w /\ Clean(w.cell) /\ w.used = 1
         /\ w.cell[0] = Placeholder /\ Ahead(w.cell, 1, 1 + file.web)
<1> DEFINE wide == Erase(web.cell, LoaderErases(0, 1 + file.web))
           both == Erase(wide, LoaderErases(0, 1))
<1>1. [web EXCEPT !.cell = wide].cell = wide
  BY DEF WebRecord
<1>2. Len(<<Placeholder>>) = 1 /\ <<Placeholder>> \in Seq({Placeholder})
  OBVIOUS
<1>3. w = [cell |-> Program(both, 0, <<Placeholder>>), used |-> 0 + Len(<<Placeholder>>)]
  BY <1>1, <1>2 DEF StartWeb, LoaderWrite
<1>4. 1 + file.web \in 1 .. Area
  BY AreaAssumption DEF WebFits
<1>5. Ahead(wide, 0, 1 + file.web) /\ Clean(wide)
  BY <1>4, LoaderCovers, CleanErased
<1> HIDE DEF wide
<1>6. Ahead(both, 0, 1 + file.web) /\ Clean(both)
  BY <1>5, CleanErased DEF Ahead, Erase
<1> HIDE DEF both
<1>7. Ahead(both, 0, 0 + Len(<<Placeholder>>))
  <2>1. SUFFICES ASSUME NEW a \in Address, 0 <= a, a < 0 + 1 PROVE both[a] = Erased
    BY <1>2 DEF Ahead
  <2>2. a < 1 + file.web
    BY <2>1, AreaAssumption DEF Address
  <2>3. QED
    BY <1>6, <2>1, <2>2 DEF Ahead
<1>8. /\ \A i \in 1 .. Len(<<Placeholder>>) : <<Placeholder>>[i] # Garbage
      /\ <<Placeholder>>[1] = Placeholder
  BY <1>2, NotGarbage
<1>9. PICK data \in Seq({Placeholder}) : data = <<Placeholder>> /\ Len(data) = 1
  BY <1>2
<1>10. Clean(Program(both, 0, data))
  BY <1>6, <1>7, <1>8, <1>9, CleanProgram
<1>11. \A a \in Address : Program(both, 0, data)[a]
         = IF 0 <= a /\ a < 0 + 1 THEN data[a - 0 + 1] ELSE both[a]
  <2>1. Ahead(both, 0, 0 + Len(data)) /\ 0 \in Nat
    BY <1>7, <1>9
  <2>2. \A a \in Address : Program(both, 0, data)[a]
          = IF 0 <= a /\ a < 0 + Len(data) THEN data[a - 0 + 1] ELSE both[a]
    BY <2>1, ProgramTakes
  <2>3. QED
    BY <1>9, <2>2
<1>12. 0 \in Address /\ 0 - 0 + 1 = 1
  BY AreaAssumption DEF Address
<1>13. Program(both, 0, data)[0] = Placeholder
  BY <1>8, <1>9, <1>11, <1>12
<1>14. Ahead(Program(both, 0, data), 1, 1 + file.web)
  <2>1. SUFFICES ASSUME NEW a \in Address, 1 <= a, a < 1 + file.web
                 PROVE  Program(both, 0, data)[a] = Erased
    BY DEF Ahead
  <2>2. a \in Nat /\ ~(a < 0 + 1) /\ 0 <= a
    BY <2>1, AreaAssumption DEF Address
  <2>3. QED
    BY <1>6, <1>11, <2>1, <2>2 DEF Ahead
<1>15. QED
  BY <1>2, <1>3, <1>9, <1>10, <1>13, <1>14

\* The sector that is written back: the checksum, and what stood behind the
\* placeholder.
LEMMA CrcSectorIs ==
  ASSUME Clean(web.cell), web.used \in 0 .. Area
  PROVE  \E T : /\ CrcSector \in Seq(T) /\ Len(CrcSector) = Sector
                /\ \A i \in 1 .. Sector : CrcSector[i] # Garbage
                /\ CrcSector[1] = <<"crc", st.web>>
                /\ \A i \in 1 .. Sector : i > 1 /\ i <= web.used => CrcSector[i] = web.cell[i - 1]
<1> DEFINE old == Read(web, 0, Sector)
           rest == [k \in 1 .. Sector - 1 |-> IF k + 1 <= Len(old) THEN old[k + 1] ELSE Stale]
           T == {rest[k] : k \in 1 .. Sector - 1} \cup {<<"crc", st.web>>}
           crc == <<"crc", st.web>>
<1>1. Sector \in Nat /\ Sector > 0 /\ Area \in Nat /\ Sector <= Area
  BY SectorFits
<1>2. CrcSector = <<crc>> \o rest
  BY DEF CrcSector
<1>3. Len(old) \in Nat /\ Len(old) <= Sector /\ \A i \in 1 .. Len(old) : old[i] = web.cell[i - 1]
  <2>1. CASE web.used = 0
    <3>1. old = <<>>
      BY <2>1 DEF Read
    <3> HIDE DEF old
    <3>2. QED
      BY <1>1, <3>1
  <2>2. CASE web.used # 0
    <3> DEFINE n == IF 0 + Sector > web.used THEN web.used - 0 ELSE Sector
    <3>1. n \in Nat /\ n <= Sector
      BY <1>1
    <3>2. old = Cells(web.cell, 0, n)
      BY <1>1, <2>2 DEF Read
    <3> HIDE DEF n, old
    <3>3. /\ Len(Cells(web.cell, 0, n)) = n
          /\ \A i \in 1 .. n : Cells(web.cell, 0, n)[i] = web.cell[0 + i - 1]
      BY <3>1 DEF Cells
    <3>4. \A i \in 1 .. n : 0 + i - 1 = i - 1
      BY <3>1
    <3>5. QED
      BY <3>1, <3>2, <3>3, <3>4
  <2>3. QED
    BY <2>1, <2>2
<1>4. \A i \in 1 .. Sector : i <= web.used => i <= Len(old)
  <2>1. CASE web.used = 0
    BY <1>1, <2>1
  <2>2. CASE web.used # 0
    <3> DEFINE n == IF 0 + Sector > web.used THEN web.used - 0 ELSE Sector
    <3>1. n \in Nat /\ \A i \in 1 .. Sector : i <= web.used => i <= n
      BY <1>1
    <3>2. old = Cells(web.cell, 0, n)
      BY <1>1, <2>2 DEF Read
    <3> HIDE DEF n, old
    <3>3. Len(Cells(web.cell, 0, n)) = n
      BY <3>1 DEF Cells
    <3>4. QED
      BY <3>1, <3>2, <3>3
  <2>3. QED
    BY <2>1, <2>2
<1>5. \A k \in 1 .. Sector - 1 :
        rest[k] = IF k + 1 <= Len(old) THEN old[k + 1] ELSE Stale
  OBVIOUS
<1>6. rest \in [1 .. Sector - 1 -> T] /\ Sector - 1 \in Nat
  BY <1>1
<1> HIDE DEF rest, old
<1>7. rest \in Seq(T) /\ Len(rest) = Sector - 1
  <2> HIDE DEF T
  <2>1. QED
    BY <1>6, FunctionIsSequence
<1>8. <<crc>> \in Seq(T) /\ Len(<<crc>>) = 1 /\ <<crc>>[1] = crc
  <2>1. crc \in T
    OBVIOUS
  <2> HIDE DEF T, crc
  <2>2. QED
    BY <2>1
<1> HIDE DEF T, crc
<1>9. PICK x \in Seq(T) : x = <<crc>> /\ Len(x) = 1 /\ x[1] = crc
  BY <1>8
<1>10. PICK y \in Seq(T) : y = rest /\ Len(y) = Sector - 1
  BY <1>7
<1>11. PICK z : z = x \o y
  OBVIOUS
<1>12. /\ z \in Seq(T) /\ Len(z) = Len(x) + Len(y)
       /\ \A i \in 1 .. Len(x) : z[i] = x[i]
       /\ \A i \in 1 .. Len(y) : z[Len(x) + i] = y[i]
  BY ONLY <1>11, JoinedIs
<1>13. CrcSector = z
  BY <1>2, <1>9, <1>10, <1>11
<1>14. z[1] = crc /\ Len(z) = Sector
  BY <1>1, <1>9, <1>10, <1>12
<1>15. ASSUME NEW i \in 1 .. Sector, i > 1
       PROVE  z[i] = IF i <= Len(old) THEN web.cell[i - 1] ELSE Stale
  <2>1. i - 1 \in 1 .. Sector - 1 /\ 1 + (i - 1) = i /\ (i - 1) + 1 = i
    BY <1>1, <1>15
  <2>2. z[1 + (i - 1)] = y[i - 1]
    BY <1>9, <1>10, <1>12, <2>1
  <2>3. rest[i - 1] = IF (i - 1) + 1 <= Len(old) THEN old[(i - 1) + 1] ELSE Stale
    BY <1>5, <2>1
  <2>4. i <= Len(old) => old[i] = web.cell[i - 1]
    BY <1>3
  <2>5. QED
    BY <1>10, <2>1, <2>2, <2>3, <2>4
<1>16. \A i \in 1 .. Sector : z[i] # Garbage
  <2>1. SUFFICES ASSUME NEW i \in 1 .. Sector PROVE z[i] # Garbage
    OBVIOUS
  <2>2. CASE i = 1
    BY <1>14, <2>2, NotGarbage DEF crc
  <2>3. CASE i > 1
    <3>1. i - 1 \in Address
      BY <1>1, <2>3 DEF Address
    <3>2. QED
      BY <1>15, <2>3, <3>1, NotGarbage DEF Clean
  <2>4. QED
    BY <1>1, <2>2, <2>3
<1>17. \A i \in 1 .. Sector : i > 1 /\ i <= web.used => z[i] = web.cell[i - 1]
  BY <1>4, <1>15
<1>18. QED
  BY <1>12, <1>13, <1>14, <1>16, <1>17 DEF crc

\* The loader writes a whole sector back at offset 0.
LEMMA WebFinalized ==
  ASSUME Clean(web.cell), web.used \in 0 .. Area, NEW w, w = LoaderWrite(web, 0, CrcSector)
  PROVE  /\ "cell" \in DOMAIN w /\ Clean(w.cell) /\ w.used = Sector
         /\ w.cell[0] = <<"crc", st.web>>
         /\ \A a \in Address : 1 <= a /\ a < Sector /\ a < web.used => w.cell[a] = web.cell[a]
<1>1. PICK T : /\ CrcSector \in Seq(T) /\ Len(CrcSector) = Sector
               /\ \A i \in 1 .. Sector : CrcSector[i] # Garbage
               /\ CrcSector[1] = <<"crc", st.web>>
               /\ \A i \in 1 .. Sector : i > 1 /\ i <= web.used => CrcSector[i] = web.cell[i - 1]
  BY CrcSectorIs
<1> DEFINE wide == Erase(web.cell, LoaderErases(0, Sector))
<1>2. Ahead(wide, 0, Sector) /\ Clean(wide) /\ Sector \in Nat /\ Sector > 0 /\ Area \in Nat
  BY SectorFits, LoaderCovers, CleanErased
<1>3. w = [cell |-> Program(wide, 0, CrcSector), used |-> 0 + Sector]
  BY <1>1 DEF LoaderWrite
<1> HIDE DEF wide
<1>4. PICK data \in Seq(T) : data = CrcSector /\ Len(data) = Sector
  BY <1>1
<1>5. 0 + Sector = Sector /\ 0 \in Nat
  BY <1>2
<1>6. Ahead(wide, 0, 0 + Len(data))
  BY <1>2, <1>4, <1>5
<1>7. Clean(Program(wide, 0, data))
  BY <1>1, <1>2, <1>4, <1>5, <1>6, CleanProgram
<1>8. \A a \in Address : Program(wide, 0, data)[a]
        = IF 0 <= a /\ a < 0 + Len(data) THEN data[a - 0 + 1] ELSE wide[a]
  BY <1>5, <1>6, ProgramTakes
<1>9. \A a \in Address : a \in Nat /\ a - 0 + 1 = a + 1 /\ 0 <= a
  BY AreaAssumption DEF Address
<1>10. \A a \in Address : a < Sector => Program(wide, 0, data)[a] = data[a + 1]
  BY <1>4, <1>5, <1>8, <1>9
<1>11. Program(wide, 0, data)[0] = <<"crc", st.web>>
  <2>1. 0 \in Address /\ 0 < Sector /\ 0 + 1 = 1
    BY <1>2, AreaAssumption DEF Address
  <2>2. QED
    BY <1>1, <1>4, <1>10, <2>1
<1>12. ASSUME NEW a \in Address, 1 <= a, a < Sector, a < web.used
       PROVE  Program(wide, 0, data)[a] = web.cell[a]
  <2>1. a + 1 \in 1 .. Sector /\ a + 1 > 1 /\ a + 1 <= web.used /\ (a + 1) - 1 = a
    BY <1>2, <1>9, <1>12
  <2>2. CrcSector[a + 1] = web.cell[(a + 1) - 1]
    BY <1>1, <2>1
  <2>3. QED
    BY <1>4, <1>10, <1>12, <2>1, <2>2
<1>13. QED
  BY <1>3, <1>4, <1>5, <1>7, <1>11, <1>12

\* Cells that hold a section are read as one.
LEMMA ReadsSection ==
  ASSUME num \in Nat, NEW name \in Sections, NEW n \in 0 .. Area, NEW cell,
         Behind(cell, num, name, 0, n)
  PROVE  Cells(cell, 0, n) = Section(name, n)
<1>1. n \in Nat
  BY AreaAssumption
<1>2. ASSUME NEW i \in 1 .. n PROVE cell[0 + i - 1] = <<num, name, i>>
  <2>1. i - 1 \in Address /\ 0 <= i - 1 /\ i - 1 < n /\ 0 + i - 1 = i - 1 /\ (i - 1) - 0 + 1 = i
    BY <1>1, AreaAssumption DEF Address
  <2>2. cell[i - 1] = <<num, name, (i - 1) - 0 + 1>>
    BY <2>1 DEF Behind
  <2>3. QED
    BY <2>1, <2>2
<1>3. Cells(cell, 0, n) = [i \in 1 .. n |-> <<num, name, i>>]
  BY <1>2 DEF Cells
<1>4. QED
  BY <1>3 DEF Section

\* The web partition holds its image behind one unit.
LEMMA ReadsWeb ==
  ASSUME num \in Nat, NEW n \in Nat, 1 + n <= Area, NEW cell, NEW first, cell[0] = first,
         Behind(cell, num, "web", 1, 1 + n)
  PROVE  Cells(cell, 0, 1 + n) = <<first>> \o Section("web", n)
<1> DEFINE T == {first} \cup Unit
           image == Section("web", n)
<1>1. "web" \in Sections
  BY DEF Sections
<1>2. image \in Seq(Unit) /\ Len(image) = n /\ \A i \in 1 .. n : image[i] = <<num, "web", i>>
  BY <1>1, SectionAt
<1> HIDE DEF image
<1>3. image \in Seq(T)
  <2>1. Unit \subseteq T
    OBVIOUS
  <2> HIDE DEF T
  <2>2. QED
    BY <1>2, <2>1
<1>4. <<first>> \in Seq(T) /\ Len(<<first>>) = 1 /\ <<first>>[1] = first
  <2>1. first \in T
    OBVIOUS
  <2> HIDE DEF T
  <2>2. QED
    BY <2>1
<1>5. PICK x \in Seq(T) : x = <<first>> /\ Len(x) = 1 /\ x[1] = first
  BY <1>4
<1>6. PICK y \in Seq(T) : y = image /\ Len(y) = n /\ \A i \in 1 .. n : y[i] = <<num, "web", i>>
  BY <1>2, <1>3
<1>7. PICK z : z = x \o y
  OBVIOUS
<1>8. /\ z \in Seq(T) /\ Len(z) = Len(x) + Len(y)
      /\ \A i \in 1 .. Len(x) : z[i] = x[i]
      /\ \A i \in 1 .. Len(y) : z[Len(x) + i] = y[i]
  BY ONLY <1>7, JoinedIs
<1>9. ASSUME NEW i \in 1 .. 1 + n PROVE cell[0 + i - 1] = z[i]
  <2>1. 0 + i - 1 = i - 1 /\ i \in Nat
    OBVIOUS
  <2>2. CASE i = 1
    BY <1>5, <1>8, <2>2
  <2>3. CASE i > 1
    <3>1. /\ i - 1 \in Address /\ 1 <= i - 1 /\ i - 1 < 1 + n /\ (i - 1) - 1 + 1 = i - 1
          /\ i - 1 \in 1 .. n /\ 1 + (i - 1) = i
      BY <2>3, AreaAssumption DEF Address
    <3>2. cell[i - 1] = <<num, "web", (i - 1) - 1 + 1>>
      BY <3>1 DEF Behind
    <3>3. z[1 + (i - 1)] = y[i - 1]
      BY <1>5, <1>6, <1>8, <3>1
    <3>4. QED
      BY <1>6, <2>1, <3>1, <3>2, <3>3
  <2>4. QED
    BY <2>2, <2>3
<1>10. Cells(cell, 0, 1 + n) = [i \in 1 .. 1 + n |-> z[i]]
  BY <1>9 DEF Cells
<1>11. Len(z) = 1 + n
  BY <1>5, <1>6, <1>8
<1>12. z = [i \in 1 .. 1 + n |-> z[i]]
  <2> HIDE DEF T
  <2>1. QED
    BY <1>8, <1>11
<1>13. QED
  BY <1>5, <1>6, <1>7, <1>10, <1>12 DEF image

\* The image and its checksum are where they are looked for, if the sector
\* held all of it.
LEMMA WebIsWhole ==
  ASSUME Clean(web.cell), num \in Nat, file.web \in Nat, 1 + file.web <= Sector,
         web.used = 1 + file.web, st.web = Section("web", file.web),
         Behind(web.cell, num, "web", 1, 1 + file.web),
         NEW w, w = LoaderWrite(web, 0, CrcSector)
  PROVE  Read(w, 0, 1 + file.web)
           = <<<<"crc", Section("web", file.web)>>>> \o Section("web", file.web)
<1>1. Sector \in Nat /\ Sector <= Area /\ Area \in Nat /\ Sector > 0
  BY SectorFits
<1>2. web.used \in 0 .. Area
  BY <1>1
<1>3. /\ w.used = Sector /\ w.cell[0] = <<"crc", st.web>>
      /\ \A a \in Address : 1 <= a /\ a < Sector /\ a < web.used => w.cell[a] = web.cell[a]
  BY <1>2, WebFinalized
<1>4. Behind(w.cell, num, "web", 1, 1 + file.web)
  <2>1. SUFFICES ASSUME NEW a \in Address, 1 <= a, a < 1 + file.web
                 PROVE  w.cell[a] = <<num, "web", a - 1 + 1>>
    BY DEF Behind
  <2>2. a < Sector /\ a < web.used
    BY <1>1, <2>1, AreaAssumption DEF Address
  <2>3. QED
    BY <1>3, <2>1, <2>2 DEF Behind
<1>5. 1 + file.web <= Area
  BY <1>1
<1>6. Cells(w.cell, 0, 1 + file.web) = <<w.cell[0]>> \o Section("web", file.web)
  BY <1>4, <1>5, ReadsWeb
<1>7. Read(w, 0, 1 + file.web) = Cells(w.cell, 0, 1 + file.web)
  <2>1. ~(0 >= Sector) /\ ~(0 + (1 + file.web) > Sector)
    BY <1>1
  <2>2. QED
    BY <1>3, <2>1 DEF Read
<1>8. QED
  BY <1>3, <1>6, <1>7

-----------------------------------------------------------------------------
(* A package goes where it belongs                                         *)

WebPlaced ==
  /\ web.cell[0] = Placeholder
  /\ Behind(web.cell, num, "web", 1, 1 + Len(st.web))
  /\ Ahead(web.cell, 1 + Len(st.web), 1 + file.web)
  /\ web.used = 1 + Len(st.web)

\* The slots hold what was taken of their images, and are erased up to their
\* ends; so is the web partition, until the update is complete.
SlotsPlaced ==
  /\ Behind(slot1, num, "fw1", 0, st.fw1) /\ Ahead(slot1, st.fw1, file.fw1)
  /\ Behind(slot2, num, "fw2", 0, st.fw2) /\ Ahead(slot2, st.fw2, file.fw2)

LoaderPlaced ==
  st.phase # "loader" /\ file.loader > 0 => loader = Section("loader", file.loader)

\* n units of an application that reaches so far lie in APP2.
Reaches(cell, k, n) == \A a \in Address : a < n => cell[a] = <<k, "app", Second + a + 1>>

Standing ==
  /\ WebRecord
  /\ st.phase \in Counting =>
       /\ SlotsPlaced
       /\ pc # "success" /\ file.web > 0 => WebPlaced
       /\ LoaderPlaced
  /\ st.phase = "app" =>
       /\ Behind(slot1, num, "app", 0, got) /\ Ahead(slot1, got, file.size)
       /\ Reaches(slot2, num, Over(got)) /\ Ahead(slot2, Over(got), Over(file.size))
  /\ pc = "success" /\ file.kind = "upg" =>
       /\ ota = num
       /\ file.web > 0 /\ 1 + file.web <= Sector => WebWhole

LEMMA NeverTwiceIs ==
  NeverTwice <=> /\ Clean(slot1) /\ Clean(slot2) /\ Clean(primary) /\ Clean(backup)
                 /\ Clean(web.cell)
  BY DEF NeverTwice, Clean

Placement == Progress /\ Standing /\ NeverTwice

\* Wherever no package and no application is on its way.
LEMMA PlacedIdle ==
  ASSUME st'.phase \notin Counting \cup {"app"}, pc' # "success" \/ file'.kind # "upg",
         WebRecord', NeverTwice'
  PROVE  Placement'
  BY DEF Placement, Progress, Standing

LEMMA PlacementInitially == Init => Placement
<1>1. SUFFICES ASSUME Init PROVE Placement
  OBVIOUS
<1>2. /\ slot1 = Blank.cell /\ slot2 = Blank.cell /\ primary = Blank.cell
      /\ backup = Blank.cell /\ web = Blank
  BY <1>1 DEF Init, TreesInit, BlankCells
<1>3. Clean(Blank.cell) /\ "cell" \in DOMAIN Blank
  BY NotGarbage DEF Clean, Blank
<1>4. NeverTwice /\ WebRecord
  BY <1>2, <1>3, NeverTwiceIs DEF WebRecord
<1>5. st.phase = "off" /\ pc = "cli"
  BY <1>1, ResetFields DEF Init
<1>6. QED
  BY <1>4, <1>5 DEF Placement, Progress, Standing, Counting

\* The flash of a step that touches no more than its promise.
LEMMA SameFlash ==
  ASSUME slot1' = slot1, slot2' = slot2, web' = web, primary' = primary, backup' = backup,
         Placement
  PROVE  NeverTwice' /\ WebRecord'
  BY NeverTwiceIs DEF Placement, NeverTwice, WebRecord, Standing

\* The header: everything the sections need is erased at once.
LEMMA HeaderPlaces ==
  ASSUME Typed, Shapes, Kinds, Placement, Header
  PROVE  Placement'
<1> DEFINE n == Hdr - st.hdr
<1>1. /\ pc = "feed" /\ st.phase = "hdr" /\ file.kind = "upg" /\ got = st.hdr
      /\ st.loader = <<>> /\ st.fw1 = 0 /\ st.fw2 = 0 /\ st.web = <<>> /\ st.crc = <<>>
      /\ file' = file /\ num' = num
  BY DEF Header, Turn, Kinds, Counting, Consume, Fail
<1>2. /\ Clean(slot1) /\ Clean(slot2) /\ Clean(primary) /\ Clean(backup) /\ Clean(web.cell)
      /\ WebRecord
  BY NeverTwiceIs DEF Placement, Standing
<1>3. NeverTwice' /\ WebRecord'
  <2>1. /\ slot1' = slot1 \/ slot1' = Erase(slot1, Covering(file.fw1))
        /\ slot2' = slot2 \/ slot2' = Erase(slot2, Covering(file.fw2))
        /\ primary' = primary /\ backup' = backup
    BY DEF Header, EraseSlots, trees
  <2>2. Clean(slot1') /\ Clean(slot2') /\ Clean(primary') /\ Clean(backup')
    BY <1>2, <2>1, CleanErased
  <2>3. web' = web \/ (WebFits /\ file.web > 0 /\ web' = StartWeb(web))
    BY DEF Header
  <2>4. Clean(web'.cell) /\ "cell" \in DOMAIN web'
    <3>1. file.web \in Nat
      BY Lengths
    <3>2. CASE web' = web
      BY <1>2, <3>2 DEF WebRecord
    <3>3. CASE WebFits /\ file.web > 0 /\ web' = StartWeb(web)
      BY <1>2, <3>1, <3>3, WebStarted
    <3>4. QED
      BY <2>3, <3>2, <3>3
  <2>5. NeverTwice'
    <3>1. \A c \in {slot1', slot2', primary', backup', web'.cell} : \A a \in Address : c[a] # Garbage
      BY <2>2, <2>4 DEF Clean
    <3>2. QED
      BY <3>1 DEF NeverTwice
  <2>6. QED
    BY <2>4, <2>5 DEF WebRecord
<1>4. CASE Fail
  BY <1>3, <1>4, PlacedIdle, ResetFields DEF Fail, Counting
<1>5. CASE ~Fail
  <2>1. /\ Consume(n)
        /\ st'.loader = <<>> /\ st'.fw1 = 0 /\ st'.fw2 = 0
        /\ st'.web = <<>> /\ st'.crc = <<>>
        /\ st'.hdr = st.hdr + AtMost(n)
        /\ \/ st'.phase = "hdr" /\ UNCHANGED <<slot1, slot2, web>>
           \/ /\ st'.hdr = Hdr /\ SizesOk /\ WebFits /\ EraseSlots
              /\ web' = IF file.web > 0 THEN StartWeb(web) ELSE web
              /\ \/ st'.phase = "loader" /\ file.loader > 0
                 \/ Follows(st'.phase, {"fw1", "fw2", "web"}) /\ file.loader = 0
    BY <1>1, <1>5, HeaderFields
  <2>2. pc' = "feed" /\ got' = got + AtMost(n)
    BY <1>1, <2>1 DEF Consume
  <2>3. CASE st'.phase = "hdr"
    BY <1>3, <2>2, <2>3, PlacedIdle DEF Counting
  <2>4. CASE st'.phase # "hdr"
    <3>1. /\ st'.hdr = Hdr /\ SizesOk /\ WebFits /\ EraseSlots
          /\ web' = IF file.web > 0 THEN StartWeb(web) ELSE web
          /\ \/ st'.phase = "loader" /\ file.loader > 0
             \/ Follows(st'.phase, {"fw1", "fw2", "web"}) /\ file.loader = 0
      BY <2>1, <2>4
    <3>2. /\ file.loader \in Nat /\ file.fw1 \in Nat /\ file.fw2 \in Nat /\ file.web \in Nat
          /\ Hdr \in Nat /\ num \in Nat /\ file \in File
      BY Lengths
    <3>3. Len(st'.loader) = 0 /\ Len(st'.web) = 0 /\ Len(<<>>) = 0
      BY <2>1
    <3>4. Taken' = 0 /\ got' = Hdr + Taken' /\ got' \in Nat
      <4>1. Taken' = 0
        BY <2>1, <3>3 DEF Taken
      <4>2. got' = Hdr
        BY <1>1, <2>1, <2>2, <3>1
      <4>3. QED
        BY <3>2, <4>1, <4>2
    <3>5. InOrder'
      <4>1. CASE st'.phase = "loader"
        BY <1>1, <2>1, <4>1 DEF InOrder, Counting
      <4>2. CASE Follows(st'.phase, {"fw1", "fw2", "web"}) /\ file.loader = 0
        <5>1. /\ st'.phase \in {"fw1", "fw2", "web", "done"}
              /\ st'.phase # "fw1" => file.fw1 = 0
              /\ st'.phase \notin {"fw1", "fw2"} => file.fw2 = 0
              /\ st'.phase = "done" => file.web = 0
          BY <4>2 DEF Follows, Counting
        <5>2. QED
          BY <1>1, <2>1, <3>3, <4>2, <5>1 DEF InOrder
      <4>3. QED
        BY <3>1, <4>1, <4>2
    <3>6. st'.crc = SubSeq(Body, 1, Taken')
      <4>1. Body \in Seq(Unit)
        BY <3>2, BodyIs
      <4>2. SubSeq(Body, 1, 0) = <<>>
        BY <4>1
      <4>3. QED
        BY <2>1, <3>4, <4>2
    <3>7. Progress'
      <4>1. /\ st'.loader = Section("loader", Len(st'.loader))
            /\ st'.web = Section("web", Len(st'.web))
        BY <2>1, EmptySection
      <4>2. QED
        BY <1>1, <3>1, <3>4, <3>5, <3>6, <4>1, ProgressTo
    <3>8. SlotsPlaced'
      <4>1. slot1' = Erase(slot1, Covering(file.fw1)) /\ slot2' = Erase(slot2, Covering(file.fw2))
        BY <3>1 DEF EraseSlots
      <4>2. Ahead(slot1', 0, file.fw1) /\ Ahead(slot2', 0, file.fw2)
        BY <3>2, <4>1, CoveringErases
      <4>3. Behind(slot1', num, "fw1", 0, 0) /\ Behind(slot2', num, "fw2", 0, 0)
        BY AreaAssumption DEF Behind, Address
      <4>4. QED
        BY <1>1, <2>1, <4>2, <4>3 DEF SlotsPlaced
    <3>9. file.web > 0 => WebPlaced'
      <4>1. SUFFICES ASSUME file.web > 0 PROVE WebPlaced'
        OBVIOUS
      <4>2. /\ web'.used = 1 /\ web'.cell[0] = Placeholder
            /\ Ahead(web'.cell, 1, 1 + file.web)
        BY <1>2, <3>1, <3>2, <4>1, WebStarted
      <4>3. Behind(web'.cell, num, "web", 1, 1)
        BY AreaAssumption DEF Behind, Address
      <4>4. 1 + Len(st'.web) = 1
        BY <3>3
      <4>5. QED
        BY <1>1, <4>2, <4>3, <4>4 DEF WebPlaced
    <3>10. LoaderPlaced'
      BY <1>1, <3>1, <3>2 DEF LoaderPlaced
    <3>11. Standing'
      BY <1>1, <1>3, <2>2, <3>1, <3>8, <3>9, <3>10 DEF Standing, Follows, Counting
    <3>12. QED
      BY <1>3, <3>7, <3>11 DEF Placement
  <2>5. QED
    BY <2>3, <2>4
<1>6. QED
  BY <1>4, <1>5

\* What every turn of a section has in common.
LEMMA SectionTurn ==
  ASSUME Typed, Shapes, Kinds, Placement, NEW n \in Nat, Consume(n),
         pc = "feed", st.phase \in Counting
  PROVE  /\ file' = file /\ num' = num /\ pc' = "feed" /\ file.kind = "upg" /\ SizesOk
         /\ file.kind # "dtb" /\ got' = got + AtMost(n)
         /\ st.phase # "done" => got = Hdr + Taken
         /\ SlotsPlaced /\ LoaderPlaced /\ (file.web > 0 => WebPlaced)
         /\ Clean(slot1) /\ Clean(slot2) /\ Clean(primary) /\ Clean(backup) /\ Clean(web.cell)
         /\ WebRecord
         /\ st.loader = Section("loader", Len(st.loader))
         /\ st.web = Section("web", Len(st.web))
<1>1. file' = file /\ num' = num /\ pc' = "feed" /\ got' = got + AtMost(n)
  BY DEF Consume
<1>2. file.kind = "upg" /\ file.kind # "dtb"
  BY DEF Kinds
<1>3. /\ SizesOk /\ (st.phase # "done" => got = Hdr + Taken)
      /\ st.loader = Section("loader", Len(st.loader))
      /\ st.web = Section("web", Len(st.web))
  BY DEF Placement, Progress
<1>4. SlotsPlaced /\ LoaderPlaced /\ (file.web > 0 => WebPlaced) /\ WebRecord
  BY DEF Placement, Standing
<1>5. QED
  BY <1>1, <1>2, <1>3, <1>4, NeverTwiceIs DEF Placement

LEMMA LoaderPlaces ==
  ASSUME Typed, Shapes, Kinds, Placement, Loader
  PROVE  Placement'
<1> DEFINE n == file.loader - Len(st.loader)
<1>1. /\ pc = "feed" /\ st.phase = "loader" /\ st.phase \in Counting /\ st.phase # "done"
      /\ slot1' = slot1 /\ slot2' = slot2 /\ web' = web
      /\ primary' = primary /\ backup' = backup
  BY DEF Loader, Turn, Counting, trees
<1>2. NeverTwice' /\ WebRecord'
  BY <1>1, SameFlash
<1>3. n \in Nat /\ file.loader \in Nat /\ Hdr \in Nat /\ got \in Nat /\ file.kind # "dtb"
  <2>1. /\ file.loader \in Nat /\ Hdr \in Nat /\ got \in Nat
        /\ Len(st.loader) \in Nat /\ Len(st.loader) <= file.loader
    BY Lengths
  <2>2. file.kind # "dtb"
    BY <1>1 DEF Kinds
  <2>3. file.loader - Len(st.loader) \in Nat
    BY ONLY <2>1
  <2>4. QED
    BY <2>1, <2>2, <2>3
<1> HIDE DEF n
<1>4. CASE Fail
  BY <1>2, <1>4, PlacedIdle, ResetFields DEF Fail, Counting
<1>5. CASE ~Fail
  <2>1. /\ Consume(n)
        /\ st'.loader = st.loader \o Chunk(n) /\ st'.crc = st.crc \o Chunk(n)
        /\ st'.fw1 = st.fw1 /\ st'.fw2 = st.fw2 /\ st'.web = st.web
        /\ \/ st'.phase = "loader" /\ loader' = loader
           \/ /\ Len(st'.loader) = file.loader /\ loader' = st'.loader
              /\ Follows(st'.phase, {"fw1", "fw2", "web"})
    BY <1>3, <1>5, LoaderFields DEF n
  <2>2. /\ file' = file /\ num' = num /\ pc' = "feed" /\ file.kind = "upg" /\ SizesOk
        /\ got' = got + AtMost(n) /\ got = Hdr + Taken
        /\ SlotsPlaced /\ (file.web > 0 => WebPlaced)
        /\ st.web = Section("web", Len(st.web))
    BY <1>1, <1>3, <2>1, SectionTurn
  <2>3. /\ AtMost(n) \in Nat
        /\ st'.loader = Section("loader", Len(st'.loader))
        /\ Len(st'.loader) = Len(st.loader) + AtMost(n)
        /\ st'.crc = SubSeq(Body, 1, Taken + AtMost(n))
    BY <1>1, <2>1, LoaderTakes DEF n, Placement
  <2>4. st.fw1 = 0 /\ st.fw2 = 0 /\ st.web = <<>> /\ Len(<<>>) = 0 /\ Len(st.loader) \in Nat
    BY <1>1, Lengths DEF Placement, Progress, InOrder
  <2>5. Taken' = Taken + AtMost(n) /\ got' = Hdr + Taken' /\ got' \in Nat
    <3>1. Taken = Len(st.loader) /\ Taken' = Len(st.loader) + AtMost(n)
      BY <2>1, <2>3, <2>4 DEF Taken
    <3>2. /\ got' = got + AtMost(n) /\ got = Hdr + Taken /\ AtMost(n) \in Nat
          /\ Hdr \in Nat /\ Len(st.loader) \in Nat
      BY <1>3, <2>2, <2>3, <2>4
    <3>3. Taken' = Taken + AtMost(n) /\ Taken \in Nat
      BY <3>1, <3>2
    <3>4. got' = (Hdr + Taken) + AtMost(n)
      BY <3>2
    <3>5. QED
      BY <3>2, <3>3, <3>4, HeaderOn
  <2>6. InOrder'
    <3>1. CASE st'.phase = "loader"
      BY <2>1, <2>2, <2>4, <3>1 DEF InOrder, Counting
    <3>2. CASE Follows(st'.phase, {"fw1", "fw2", "web"}) /\ Len(st'.loader) = file.loader
      <4>1. /\ st'.phase \in {"fw1", "fw2", "web", "done"}
            /\ st'.phase # "fw1" => file.fw1 = 0
            /\ st'.phase \notin {"fw1", "fw2"} => file.fw2 = 0
            /\ st'.phase = "done" => file.web = 0
        BY <3>2 DEF Follows, Counting
      <4>2. QED
        BY <2>1, <2>2, <2>4, <3>2, <4>1 DEF InOrder
    <3>3. QED
      BY <2>1, <3>1, <3>2
  <2>7. Progress'
    BY <2>1, <2>2, <2>3, <2>5, <2>6, ProgressTo
  <2>8. SlotsPlaced' /\ (file.web > 0 => WebPlaced')
    BY <1>1, <2>1, <2>2 DEF SlotsPlaced, WebPlaced
  <2>9. LoaderPlaced'
    <3>1. CASE st'.phase = "loader"
      BY <3>1 DEF LoaderPlaced
    <3>2. CASE loader' = st'.loader /\ Len(st'.loader) = file.loader
      <4>1. loader' = Section("loader", file.loader)
        BY <2>3, <3>2
      <4>2. loader' = Section("loader", file.loader)'
        BY <2>2, <4>1 DEF Section
      <4>3. QED
        BY <4>2 DEF LoaderPlaced
    <3>3. QED
      BY <2>1, <3>1, <3>2
  <2>10. Standing'
    BY <1>2, <2>1, <2>2, <2>8, <2>9 DEF Standing, Follows, Counting
  <2>11. QED
    BY <1>2, <2>7, <2>10 DEF Placement
<1>6. QED
  BY <1>4, <1>5

\* The loader is not written again.
LEMMA LoaderStays ==
  ASSUME LoaderPlaced, loader' = loader, file' = file, num' = num, st.phase # "loader"
  PROVE  LoaderPlaced'
  BY DEF LoaderPlaced, Section

LEMMA Fw1Places ==
  ASSUME Typed, Shapes, Kinds, Placement, Fw1
  PROVE  Placement'
<1> DEFINE n == file.fw1 - st.fw1
<1>1. /\ pc = "feed" /\ st.phase = "fw1" /\ st.phase \in Counting /\ st.phase # "done"
      /\ slot2' = slot2 /\ web' = web /\ loader' = loader
      /\ primary' = primary /\ backup' = backup
  BY DEF Fw1, Turn, Counting, trees
<1>2. /\ n \in Nat /\ file.fw1 \in Nat /\ st.fw1 \in Nat /\ Hdr \in Nat /\ got \in Nat
      /\ file.kind # "dtb" /\ num \in Nat
  <2>1. /\ file.fw1 \in Nat /\ Hdr \in Nat /\ got \in Nat /\ num \in Nat
        /\ st.fw1 \in Nat /\ st.fw1 <= file.fw1
    BY Lengths
  <2>2. file.kind # "dtb"
    BY <1>1 DEF Kinds
  <2>3. file.fw1 - st.fw1 \in Nat
    BY ONLY <2>1
  <2>4. QED
    BY <2>1, <2>2, <2>3
<1> HIDE DEF n
<1>3. /\ Consume(n) /\ slot1' = Program(slot1, st.fw1, Chunk(n))
      /\ st'.loader = st.loader /\ st'.crc = st.crc \o Chunk(n)
      /\ st'.fw1 = st.fw1 + AtMost(n) /\ st'.fw2 = st.fw2 /\ st'.web = st.web
      /\ \/ st'.phase = "fw1"
         \/ st'.fw1 = file.fw1 /\ Follows(st'.phase, {"fw2", "web"})
  BY <1>2, Fw1Fields DEF n
<1>4. /\ file' = file /\ num' = num /\ pc' = "feed" /\ file.kind = "upg" /\ SizesOk
      /\ got' = got + AtMost(n) /\ got = Hdr + Taken
      /\ SlotsPlaced /\ LoaderPlaced /\ (file.web > 0 => WebPlaced)
      /\ Clean(slot1) /\ Clean(slot2) /\ Clean(primary) /\ Clean(backup) /\ Clean(web.cell)
      /\ WebRecord
      /\ st.loader = Section("loader", Len(st.loader))
      /\ st.web = Section("web", Len(st.web))
  BY <1>1, <1>2, <1>3, SectionTurn
<1>5. /\ AtMost(n) \in Nat /\ st.fw1 + AtMost(n) <= file.fw1
      /\ Chunk(n) \in Seq(Unit) /\ Len(Chunk(n)) = AtMost(n)
      /\ \A i \in 1 .. AtMost(n) : Chunk(n)[i] = <<num, "fw1", st.fw1 + i>>
      /\ st'.crc = SubSeq(Body, 1, Taken + AtMost(n))
  BY <1>1, <1>3, Fw1Takes DEF n, Placement
<1>6. /\ Len(st.loader) = file.loader /\ st.fw2 = 0 /\ st.web = <<>> /\ Len(<<>>) = 0
      /\ Len(st.loader) \in Nat
  BY <1>1, Lengths DEF Placement, Progress, InOrder
<1>7. Taken' = Taken + AtMost(n) /\ got' = Hdr + Taken' /\ got' \in Nat
  <2>1. PICK a \in Nat, b \in Nat, k \in Nat :
          a = Len(st.loader) /\ b = st.fw1 /\ k = AtMost(n)
    BY <1>2, <1>5, <1>6
  <2>2. Taken = a + b + 0 + 0 /\ Taken' = a + (b + k) + 0 + 0
    BY <1>3, <1>6, <2>1 DEF Taken
  <2>3. Taken' = Taken + k /\ Taken \in Nat
    <3>1. a + b + 0 + 0 \in Nat
      OBVIOUS
    <3>2. a + (b + k) + 0 + 0 = (a + b + 0 + 0) + k
      OBVIOUS
    <3>3. QED
      BY <2>2, <3>1, <3>2
  <2>4. got' = (Hdr + Taken) + k
    BY <1>4, <2>1
  <2>5. (Hdr + Taken) + k = Hdr + (Taken + k) /\ Hdr + (Taken + k) \in Nat
    <3>1. Hdr \in Nat
      BY BoundsAssumption
    <3>2. QED
      BY ONLY <2>3, <3>1, k \in Nat, HeaderOn
  <2>6. QED
    BY ONLY <2>1, <2>3, <2>4, <2>5
<1>8. InOrder'
  <2>1. CASE st'.phase = "fw1"
    BY <1>3, <1>4, <1>6, <2>1 DEF InOrder, Counting
  <2>2. CASE st'.fw1 = file.fw1 /\ Follows(st'.phase, {"fw2", "web"})
    <3>1. /\ st'.phase \in {"fw2", "web", "done"}
          /\ st'.phase # "fw2" => file.fw2 = 0
          /\ st'.phase = "done" => file.web = 0
      BY <2>2 DEF Follows, Counting
    <3>2. QED
      BY <1>3, <1>4, <1>6, <2>2, <3>1 DEF InOrder
  <2>3. QED
    BY <1>3, <2>1, <2>2
<1>9. Progress'
  BY <1>3, <1>4, <1>5, <1>7, <1>8, ProgressTo
<1>10. Clean(slot1') /\ SlotsPlaced'
  <2>1. \A i \in 1 .. Len(Chunk(n)) : Chunk(n)[i] = <<num, "fw1", st.fw1 - 0 + i>>
    BY <1>2, <1>5
  <2>2. Behind(slot1, num, "fw1", 0, st.fw1) /\ Ahead(slot1, st.fw1, file.fw1)
    BY <1>4 DEF SlotsPlaced
  <2>3. 0 \in Nat /\ 0 <= st.fw1 /\ st.fw1 + Len(Chunk(n)) <= file.fw1
    BY <1>2, <1>5
  <2>4. Continues(Chunk(n), num, "fw1", 0, st.fw1, file.fw1)
    BY <1>2, <1>5, <2>1, <2>3 DEF Continues
  <2>5. Filled(slot1', slot1, num, "fw1", 0, st.fw1, st.fw1 + Len(Chunk(n)), file.fw1)
    BY <1>3, <1>4, <2>2, <2>4, FillsOn
  <2>6. /\ Clean(slot1')
        /\ Behind(slot1', num, "fw1", 0, st'.fw1) /\ Ahead(slot1', st'.fw1, file.fw1)
    BY <1>3, <1>5, <2>5 DEF Filled
  <2>7. QED
    BY <1>1, <1>3, <1>4, <2>6 DEF SlotsPlaced
<1>11. file.web > 0 => WebPlaced'
  BY <1>1, <1>3, <1>4 DEF WebPlaced
<1>12. NeverTwice' /\ WebRecord'
  BY <1>1, <1>4, <1>10 DEF NeverTwice, Clean, WebRecord
<1>13. LoaderPlaced'
  BY <1>1, <1>4, LoaderStays
<1>14. Standing'
  BY <1>3, <1>4, <1>10, <1>11, <1>12, <1>13 DEF Standing, Follows, Counting
<1>15. QED
  BY <1>9, <1>12, <1>14 DEF Placement

LEMMA Fw2Places ==
  ASSUME Typed, Shapes, Kinds, Placement, Fw2
  PROVE  Placement'
<1> DEFINE n == file.fw2 - st.fw2
<1>1. /\ pc = "feed" /\ st.phase = "fw2" /\ st.phase \in Counting /\ st.phase # "done"
      /\ slot1' = slot1 /\ web' = web /\ loader' = loader
      /\ primary' = primary /\ backup' = backup
  BY DEF Fw2, Turn, Counting, trees
<1>2. /\ n \in Nat /\ file.fw2 \in Nat /\ st.fw2 \in Nat /\ Hdr \in Nat /\ got \in Nat
      /\ file.kind # "dtb" /\ num \in Nat
  <2>1. /\ file.fw2 \in Nat /\ Hdr \in Nat /\ got \in Nat /\ num \in Nat
        /\ st.fw2 \in Nat /\ st.fw2 <= file.fw2
    BY Lengths
  <2>2. file.kind # "dtb"
    BY <1>1 DEF Kinds
  <2>3. file.fw2 - st.fw2 \in Nat
    BY ONLY <2>1
  <2>4. QED
    BY <2>1, <2>2, <2>3
<1> HIDE DEF n
<1>3. /\ Consume(n) /\ slot2' = Program(slot2, st.fw2, Chunk(n))
      /\ st'.loader = st.loader /\ st'.crc = st.crc \o Chunk(n)
      /\ st'.fw2 = st.fw2 + AtMost(n) /\ st'.fw1 = st.fw1 /\ st'.web = st.web
      /\ \/ st'.phase = "fw2"
         \/ st'.fw2 = file.fw2 /\ Follows(st'.phase, {"web"})
  BY <1>2, Fw2Fields DEF n
<1>4. /\ file' = file /\ num' = num /\ pc' = "feed" /\ file.kind = "upg" /\ SizesOk
      /\ got' = got + AtMost(n) /\ got = Hdr + Taken
      /\ SlotsPlaced /\ LoaderPlaced /\ (file.web > 0 => WebPlaced)
      /\ Clean(slot1) /\ Clean(slot2) /\ Clean(primary) /\ Clean(backup) /\ Clean(web.cell)
      /\ WebRecord
      /\ st.loader = Section("loader", Len(st.loader))
      /\ st.web = Section("web", Len(st.web))
  BY <1>1, <1>2, <1>3, SectionTurn
<1>5. /\ AtMost(n) \in Nat /\ st.fw2 + AtMost(n) <= file.fw2
      /\ Chunk(n) \in Seq(Unit) /\ Len(Chunk(n)) = AtMost(n)
      /\ \A i \in 1 .. AtMost(n) : Chunk(n)[i] = <<num, "fw2", st.fw2 + i>>
      /\ st'.crc = SubSeq(Body, 1, Taken + AtMost(n))
  BY <1>1, <1>3, Fw2Takes DEF n, Placement
<1>6. /\ Len(st.loader) = file.loader /\ st.fw1 = file.fw1 /\ st.web = <<>> /\ Len(<<>>) = 0
      /\ Len(st.loader) \in Nat /\ st.fw1 \in Nat
  BY <1>1, Lengths DEF Placement, Progress, InOrder
<1>7. Taken' = Taken + AtMost(n) /\ got' = Hdr + Taken' /\ got' \in Nat
  <2>1. PICK a \in Nat, b \in Nat, c \in Nat, k \in Nat :
          a = Len(st.loader) /\ b = st.fw1 /\ c = st.fw2 /\ k = AtMost(n)
    BY <1>2, <1>5, <1>6
  <2>2. Taken = a + b + c + 0 /\ Taken' = a + b + (c + k) + 0
    BY <1>3, <1>6, <2>1 DEF Taken
  <2>3. Taken' = Taken + k /\ Taken \in Nat
    <3>1. a + b + c + 0 \in Nat
      OBVIOUS
    <3>2. a + b + (c + k) + 0 = (a + b + c + 0) + k
      OBVIOUS
    <3>3. QED
      BY <2>2, <3>1, <3>2
  <2>4. got' = (Hdr + Taken) + k
    BY <1>4, <2>1
  <2>5. (Hdr + Taken) + k = Hdr + (Taken + k) /\ Hdr + (Taken + k) \in Nat
    <3>1. Hdr \in Nat
      BY BoundsAssumption
    <3>2. QED
      BY ONLY <2>3, <3>1, k \in Nat, HeaderOn
  <2>6. QED
    BY ONLY <2>1, <2>3, <2>4, <2>5
<1>8. InOrder'
  <2>1. CASE st'.phase = "fw2"
    BY <1>3, <1>4, <1>6, <2>1 DEF InOrder, Counting
  <2>2. CASE st'.fw2 = file.fw2 /\ Follows(st'.phase, {"web"})
    <3>1. /\ st'.phase \in {"web", "done"}
          /\ st'.phase = "done" => file.web = 0
      BY <2>2 DEF Follows, Counting
    <3>2. QED
      BY <1>3, <1>4, <1>6, <2>2, <3>1 DEF InOrder
  <2>3. QED
    BY <1>3, <2>1, <2>2
<1>9. Progress'
  BY <1>3, <1>4, <1>5, <1>7, <1>8, ProgressTo
<1>10. Clean(slot2') /\ SlotsPlaced'
  <2>1. \A i \in 1 .. Len(Chunk(n)) : Chunk(n)[i] = <<num, "fw2", st.fw2 - 0 + i>>
    BY <1>2, <1>5
  <2>2. Behind(slot2, num, "fw2", 0, st.fw2) /\ Ahead(slot2, st.fw2, file.fw2)
    BY <1>4 DEF SlotsPlaced
  <2>3. 0 \in Nat /\ 0 <= st.fw2 /\ st.fw2 + Len(Chunk(n)) <= file.fw2
    BY <1>2, <1>5
  <2>4. Continues(Chunk(n), num, "fw2", 0, st.fw2, file.fw2)
    BY <1>2, <1>5, <2>1, <2>3 DEF Continues
  <2>5. Filled(slot2', slot2, num, "fw2", 0, st.fw2, st.fw2 + Len(Chunk(n)), file.fw2)
    BY <1>3, <1>4, <2>2, <2>4, FillsOn
  <2>6. /\ Clean(slot2')
        /\ Behind(slot2', num, "fw2", 0, st'.fw2) /\ Ahead(slot2', st'.fw2, file.fw2)
    BY <1>3, <1>5, <2>5 DEF Filled
  <2>7. QED
    BY <1>1, <1>3, <1>4, <2>6 DEF SlotsPlaced
<1>11. file.web > 0 => WebPlaced'
  BY <1>1, <1>3, <1>4 DEF WebPlaced
<1>12. NeverTwice' /\ WebRecord'
  BY <1>1, <1>4, <1>10 DEF NeverTwice, Clean, WebRecord
<1>13. LoaderPlaced'
  BY <1>1, <1>4, LoaderStays
<1>14. Standing'
  BY <1>3, <1>4, <1>10, <1>11, <1>12, <1>13 DEF Standing, Follows, Counting
<1>15. QED
  BY <1>9, <1>12, <1>14 DEF Placement

\* A write that is not at the beginning of the partition erases nothing.
LEMMA LoaderAppends ==
  ASSUME NEW off \in Nat \ {0}, NEW data,
         NEW new, new = LoaderWrite(web, off, data), Ahead(web.cell, off, off + Len(data))
  PROVE  /\ "cell" \in DOMAIN new /\ new.used = off + Len(data)
         /\ new.cell = Program(web.cell, off, data)
<1>1. LoaderErases(off, Len(data)) = {}
  BY DEF LoaderErases
<1>2. Program(Erase(web.cell, {}), off, data) = Program(web.cell, off, data)
  BY DEF Program, Erase
<1>3. new = [cell |-> Program(web.cell, off, data), used |-> off + Len(data)]
  BY <1>1, <1>2 DEF LoaderWrite
<1>4. QED
  BY <1>3

LEMMA WebPlaces ==
  ASSUME Typed, Shapes, Kinds, Placement, Web
  PROVE  Placement'
<1> DEFINE n == file.web - Len(st.web)
           off == 1 + Len(st.web)
<1>1. /\ pc = "feed" /\ st.phase = "web" /\ st.phase \in Counting /\ st.phase # "done"
      /\ slot1' = slot1 /\ slot2' = slot2 /\ loader' = loader
      /\ primary' = primary /\ backup' = backup
  BY DEF Web, Turn, Counting, trees
<1>2. /\ n \in Nat /\ file.web \in Nat /\ Len(st.web) \in Nat /\ Hdr \in Nat /\ got \in Nat
      /\ file.kind # "dtb" /\ num \in Nat /\ off \in Nat \ {0} /\ Len(st.web) <= file.web
  <2>1. /\ file.web \in Nat /\ Hdr \in Nat /\ got \in Nat /\ num \in Nat
        /\ Len(st.web) \in Nat /\ Len(st.web) <= file.web
    BY Lengths
  <2>2. file.kind # "dtb"
    BY <1>1 DEF Kinds
  <2>3. file.web - Len(st.web) \in Nat /\ 1 + Len(st.web) \in Nat \ {0}
    BY ONLY <2>1
  <2>4. QED
    BY <2>1, <2>2, <2>3
<1> HIDE DEF n
<1>3. /\ Consume(n) /\ web' = LoaderWrite(web, off, Chunk(n))
      /\ st'.loader = st.loader /\ st'.crc = st.crc \o Chunk(n)
      /\ st'.fw1 = st.fw1 /\ st'.fw2 = st.fw2 /\ st'.web = st.web \o Chunk(n)
      /\ \/ st'.phase = "web"
         \/ Len(st'.web) = file.web /\ st'.phase = "done"
  BY <1>2, WebFields DEF n
<1>4. /\ file' = file /\ num' = num /\ pc' = "feed" /\ file.kind = "upg" /\ SizesOk
      /\ got' = got + AtMost(n) /\ got = Hdr + Taken
      /\ SlotsPlaced /\ LoaderPlaced /\ (file.web > 0 => WebPlaced)
      /\ Clean(slot1) /\ Clean(slot2) /\ Clean(primary) /\ Clean(backup) /\ Clean(web.cell)
      /\ st.loader = Section("loader", Len(st.loader))
      /\ st.web = Section("web", Len(st.web))
  BY <1>1, <1>2, <1>3, SectionTurn
<1>5. /\ AtMost(n) \in Nat /\ Len(st.web) + AtMost(n) <= file.web
      /\ Chunk(n) \in Seq(Unit) /\ Len(Chunk(n)) = AtMost(n)
      /\ \A i \in 1 .. AtMost(n) : Chunk(n)[i] = <<num, "web", Len(st.web) + i>>
      /\ st'.web = Section("web", Len(st'.web))
      /\ Len(st'.web) = Len(st.web) + AtMost(n)
      /\ st'.crc = SubSeq(Body, 1, Taken + AtMost(n))
  BY <1>1, <1>3, WebTakes DEF n, Placement
<1>6. /\ Len(st.loader) = file.loader /\ st.fw1 = file.fw1 /\ st.fw2 = file.fw2
      /\ Len(st.loader) \in Nat /\ st.fw1 \in Nat /\ st.fw2 \in Nat
  BY <1>1, Lengths DEF Placement, Progress, InOrder
<1>7. Taken' = Taken + AtMost(n) /\ got' = Hdr + Taken' /\ got' \in Nat
  <2>1. PICK a \in Nat, b \in Nat, c \in Nat, d \in Nat, k \in Nat :
          a = Len(st.loader) /\ b = st.fw1 /\ c = st.fw2 /\ d = Len(st.web) /\ k = AtMost(n)
    BY <1>2, <1>5, <1>6
  <2>2. Taken = a + b + c + d /\ Taken' = a + b + c + (d + k)
    BY <1>3, <1>5, <2>1 DEF Taken
  <2>3. Taken' = Taken + k /\ Taken \in Nat
    <3>1. a + b + c + d \in Nat
      OBVIOUS
    <3>2. a + b + c + (d + k) = (a + b + c + d) + k
      OBVIOUS
    <3>3. QED
      BY <2>2, <3>1, <3>2
  <2>4. got' = (Hdr + Taken) + k
    BY <1>4, <2>1
  <2>5. (Hdr + Taken) + k = Hdr + (Taken + k) /\ Hdr + (Taken + k) \in Nat
    <3>1. Hdr \in Nat
      BY BoundsAssumption
    <3>2. QED
      BY ONLY <2>3, <3>1, k \in Nat, HeaderOn
  <2>6. QED
    BY ONLY <2>1, <2>3, <2>4, <2>5
<1>8. InOrder'
  BY <1>3, <1>4, <1>6 DEF InOrder, Counting
<1>9. Progress'
  BY <1>3, <1>4, <1>5, <1>7, <1>8, ProgressTo
<1>10. Clean(web'.cell) /\ WebRecord' /\ (file.web > 0 => WebPlaced')
  <2>1. CASE file.web = 0
    <3>1. AtMost(n) = 0 /\ Len(Chunk(n)) = 0
      BY <1>2, <1>5, <2>1
    <3>2. Ahead(web.cell, off, off + Len(Chunk(n)))
      BY <1>2, <3>1, AreaAssumption DEF Ahead, Address
    <3>3. "cell" \in DOMAIN web' /\ web'.cell = Program(web.cell, off, Chunk(n))
      BY <1>2, <1>3, <3>2, LoaderAppends
    <3>4. \A i \in 1 .. Len(Chunk(n)) : Chunk(n)[i] # Garbage
      BY <3>1
    <3>5. Clean(web'.cell)
      BY <1>2, <1>4, <1>5, <3>2, <3>3, <3>4, CleanProgram
    <3>6. QED
      BY <2>1, <3>3, <3>5 DEF WebRecord
  <2>2. CASE file.web > 0
    <3>1. /\ web.cell[0] = Placeholder /\ Behind(web.cell, num, "web", 1, off)
          /\ Ahead(web.cell, off, 1 + file.web)
      BY <1>4, <2>2 DEF WebPlaced
    <3>2. PICK l \in Nat, w \in Nat, k \in Nat :
            l = Len(st.web) /\ w = file.web /\ k = AtMost(n) /\ l + k <= w
      BY <1>2, <1>5
    <3>3. /\ 1 + l \in Nat /\ 1 + w \in Nat /\ 1 <= 1 + l /\ (1 + l) + k <= 1 + w
          /\ 1 + (l + k) = (1 + l) + k
          /\ \A i \in 1 .. k : (1 + l) - 1 + i = l + i
      <4>1. l + k <= w
        BY <3>2
      <4>2. QED
        BY ONLY <4>1, l \in Nat, w \in Nat, k \in Nat, BehindFirst
    <3>4. Continues(Chunk(n), num, "web", 1, off, 1 + file.web)
      <4>1. \A i \in 1 .. Len(Chunk(n)) : Chunk(n)[i] = <<num, "web", off - 1 + i>>
        BY <1>5, <3>2, <3>3
      <4>2. QED
        BY <1>5, <3>2, <3>3, <4>1 DEF Continues
    <3>5. Filled(Program(web.cell, off, Chunk(n)), web.cell, num, "web", 1, off,
                 off + Len(Chunk(n)), 1 + file.web)
      BY <1>4, <3>1, <3>4, FillsOn
    <3>6. Ahead(web.cell, off, off + Len(Chunk(n)))
      <4>1. \A a \in Address : a < off + Len(Chunk(n)) => a < 1 + file.web
        <5>1. off + Len(Chunk(n)) = (1 + l) + k /\ 1 + file.web = 1 + w
          BY <1>5, <3>2
        <5>2. Address \subseteq Int
          BY AreaAssumption DEF Address
        <5>3. QED
          BY ONLY <3>3, <5>1, <5>2, l \in Nat, k \in Nat, w \in Nat
      <4>2. QED
        BY <3>1, <4>1 DEF Ahead
    <3>7. /\ "cell" \in DOMAIN web' /\ web'.used = off + Len(Chunk(n))
          /\ web'.cell = Program(web.cell, off, Chunk(n))
      BY <1>2, <1>3, <3>6, LoaderAppends
    <3>8. off + Len(Chunk(n)) = 1 + Len(st'.web)
      BY <1>5, <3>2, <3>3
    <3>9. web'.cell[0] = Placeholder
      <4>1. 0 \in Address /\ 0 < off
        BY <1>2, AreaAssumption DEF Address
      <4>2. QED
        BY <3>1, <3>5, <3>7, <4>1 DEF Filled
    <3>10. QED
      BY <1>4, <3>5, <3>7, <3>8, <3>9 DEF Filled, WebPlaced, WebRecord
  <2>3. QED
    BY <1>2, <2>1, <2>2
<1>11. SlotsPlaced'
  BY <1>1, <1>3, <1>4 DEF SlotsPlaced
<1>12. NeverTwice'
  <2>1. /\ Clean(slot1') /\ Clean(slot2') /\ Clean(primary') /\ Clean(backup')
        /\ Clean(web'.cell)
    BY <1>1, <1>4, <1>10
  <2>2. QED
    BY <2>1 DEF NeverTwice, Clean
<1>13. LoaderPlaced'
  BY <1>1, <1>4, LoaderStays
<1>14. Standing'
  BY <1>3, <1>4, <1>10, <1>11, <1>13 DEF Standing, Counting
<1>15. QED
  BY <1>9, <1>12, <1>14 DEF Placement

-----------------------------------------------------------------------------
(* The other steps                                                         *)

\* What a step keeps that changes nothing of what is placed.
LEMMA CarriesOn ==
  ASSUME Placement, Typed, Shapes, file' = file, num' = num, st' = st, slot1' = slot1,
         slot2' = slot2, web' = web, loader' = loader, pc # "success",
         pc' = "success" => st.phase \notin Counting /\ file.kind # "upg",
         got' \in Nat, got' = got \/ (st.phase = "done" /\ got' >= got), NeverTwice'
  PROVE  Placement'
<1>1. Progress'
  <2>1. CASE st.phase \notin Counting
    BY <2>1 DEF Progress
  <2>2. CASE st.phase \in Counting
    <3>1. /\ SizesOk /\ InOrder
          /\ IF st.phase = "done" THEN got >= Hdr + Taken ELSE got = Hdr + Taken
          /\ st.crc = SubSeq(Body, 1, Taken)
          /\ st.loader = Section("loader", Len(st.loader))
          /\ st.web = Section("web", Len(st.web))
      BY <2>2 DEF Placement, Progress
    <3>2. Taken' = Taken /\ InOrder' /\ SizesOk' /\ Body' = Body
      BY <3>1, SameBody DEF Taken, InOrder
    <3>3. /\ st'.loader = Section("loader", Len(st.loader))'
          /\ st'.web = Section("web", Len(st.web))'
      BY <3>1 DEF Section
    <3>4. IF st.phase = "done" THEN got' >= Hdr + Taken ELSE got' = Hdr + Taken
      <4>1. CASE st.phase = "done"
        <5>1. PICK t \in Nat : t = Hdr + Taken
          <6>1. /\ Hdr \in Nat /\ Len(st.loader) \in Nat /\ st.fw1 \in Nat /\ st.fw2 \in Nat
                /\ Len(st.web) \in Nat
            BY Lengths
          <6>2. Len(st.loader) + st.fw1 + st.fw2 + Len(st.web) \in Nat
            BY <6>1, Sums
          <6>3. Hdr + Taken \in Nat
            BY <6>1, <6>2 DEF Taken
          <6>4. QED
            BY <6>3
        <5>2. got \in Nat /\ got >= t /\ got' >= got /\ got' \in Nat
          BY <3>1, <4>1, <5>1, Lengths
        <5>3. QED
          BY <4>1, <5>1, <5>2
      <4>2. CASE st.phase # "done"
        BY <3>1, <4>2
      <4>3. QED
        BY <4>1, <4>2
    <3>5. QED
      BY <3>1, <3>2, <3>3, <3>4 DEF Progress
  <2>3. QED
    BY <2>1, <2>2
<1>2. Standing'
  <2>1. WebRecord'
    BY DEF Placement, Standing, WebRecord
  <2>2. st.phase \in Counting => SlotsPlaced' /\ (file.web > 0 => WebPlaced')
    BY DEF Placement, Standing, SlotsPlaced, WebPlaced
  <2>3. st.phase \in Counting => LoaderPlaced'
    BY DEF Placement, Standing, LoaderPlaced, Section
  <2>4. st.phase = "app" =>
          /\ Behind(slot1', num', "app", 0, got') /\ Ahead(slot1', got', file'.size)
          /\ Reaches(slot2', num', Over(got')) /\ Ahead(slot2', Over(got'), Over(file'.size))
    BY DEF Placement, Standing
  <2>5. QED
    BY <2>1, <2>2, <2>3, <2>4 DEF Standing
<1>3. QED
  BY <1>1, <1>2 DEF Placement

\* The flash of a step that only touches the device trees.
LEMMA TreesTouched ==
  ASSUME slot1' = slot1, slot2' = slot2, web' = web, Clean(primary'), Clean(backup'), Placement
  PROVE  NeverTwice' /\ WebRecord'
<1>1. Clean(slot1') /\ Clean(slot2') /\ Clean(web'.cell)
  BY NeverTwiceIs DEF Placement
<1>2. NeverTwice'
  BY <1>1 DEF NeverTwice, Clean
<1>3. QED
  BY <1>2 DEF Placement, Standing, WebRecord

LEMMA FoundClean ==
  ASSUME Placement
  PROVE  Clean(slot1) /\ Clean(slot2) /\ Clean(primary) /\ Clean(backup) /\ Clean(web.cell)
  BY NeverTwiceIs DEF Placement

\* n units, none of which is what a second write leaves.
Sound(x, n) == \E T : /\ x \in Seq(T) /\ Len(x) = n
                      /\ \A i \in 1 .. Len(x) : x[i] # Garbage

\* So is every piece of a device tree.
LEMMA TreePiece ==
  ASSUME NEW k, NEW good, NEW size \in Nat, NEW g \in Nat, NEW n \in Nat, g + n <= size
  PROVE  Sound(SubSeq(Tree(k, good, size), g + 1, g + n), n)
<1> DEFINE T == {Tree(k, good, size)[i] : i \in 1 .. size}
<1>0. Tree(k, good, size) \in Seq(T)
  BY TreeSeq
<1>1. PICK t \in Seq(T) : t = Tree(k, good, size)
  BY <1>0
<1>2. /\ Len(t) = size
      /\ \A i \in 1 .. size : t[i] = <<k, IF good THEN "dtb" ELSE "bad", i, size>>
  BY <1>1, TreeIs
<1>3. \A i \in 1 .. size : t[i] # Garbage
  BY <1>2, NotGarbage
<1> HIDE DEF T
<1>4. PICK x \in Seq(T) : x = SubSeq(t, g + 1, g + n) /\ Len(x) = n
  <2>1. g + n <= Len(t)
    BY <1>2
  <2>2. SubSeq(t, g + 1, g + n) \in Seq(T) /\ Len(SubSeq(t, g + 1, g + n)) = n
    BY <2>1, Piece
  <2>3. QED
    BY <2>2
<1>5. \A i \in 1 .. n : x[i] = t[g + i] /\ g + i \in 1 .. size
  BY <1>2, <1>4
<1>6. Sound(x, n)
  BY <1>3, <1>4, <1>5 DEF Sound
<1>7. QED
  BY <1>1, <1>4, <1>6

\* Nothing stands where a device tree goes on.
LEMMA TreeGoesOn ==
  ASSUME TreesKept, DtbComing, NEW cell, Begun(cell, got), Clean(cell)
  PROVE  Clean(Program(cell, got, Chunk(seg)))
<1>1. got \in Nat /\ seg \in Nat /\ got + seg <= file.size /\ file.size <= Sector
  BY DEF TreesKept, TreeInv, TreeOnItsWay
<1>2. Chunk(seg) = SubSeq(Content, got + 1, got + seg)
  BY <1>1 DEF Chunk, AtMost
<1>3. file.size \in Nat /\ Content = Tree(num, file.good, file.size)
  BY ContentIs DEF TreesKept, Shapes, DtbComing
<1>4. PICK T : /\ Chunk(seg) \in Seq(T) /\ Len(Chunk(seg)) = seg
               /\ \A i \in 1 .. Len(Chunk(seg)) : Chunk(seg)[i] # Garbage
  <2>1. Chunk(seg) = SubSeq(Tree(num, file.good, file.size), got + 1, got + seg)
    BY <1>2, <1>3
  <2>2. Sound(Chunk(seg), seg)
    BY <1>1, <1>3, <2>1, TreePiece
  <2>3. QED
    BY <2>2 DEF Sound
<1>5. Ahead(cell, got, got + seg)
  <2>1. SUFFICES ASSUME NEW a \in Address, got <= a, a < got + seg PROVE cell[a] = Erased
    BY DEF Ahead
  <2>2. a \in got .. Sector - 1
    BY <1>1, <1>3, <2>1, SectorFits DEF Address
  <2>3. QED
    BY <2>2 DEF Begun
<1>6. QED
  BY <1>1, <1>4, <1>5, CleanProgram

\* Where an application comes to lie in APP2.
LEMMA OverIs ==
  /\ Second \in Nat /\ Second >= Area /\ Over(0) = 0
  /\ \A n \in Nat : /\ Over(n) \in Nat
                    /\ n <= Second => Over(n) = 0
                    /\ n > Second => n = Second + Over(n)
                    /\ \A k \in Nat : n <= k => Over(n) <= Over(k)
<1>1. Second \in Nat /\ Second >= Area
  BY AreaAssumption, FlashAssumption DEF Second
<1>2. QED
  BY <1>1 DEF Over

\* An application goes on in APP2 where it was left.
LEMMA ReachesOn ==
  ASSUME NEW cell, Clean(cell), NEW g \in Nat, NEW n \in Nat, NEW size \in Nat, g + n <= size,
         NEW k, NEW T, NEW c \in Seq(T), Len(c) = size,
         \A i \in 1 .. size : c[i] = <<k, "app", i>>,
         Reaches(cell, k, Over(g)), Ahead(cell, Over(g), Over(size)),
         NEW new, new = Program(cell, Over(g), SubSeq(c, Second + Over(g) + 1, g + n))
  PROVE  Clean(new) /\ Reaches(new, k, Over(g + n)) /\ Ahead(new, Over(g + n), Over(size))
<1>1. PICK s \in Nat, o \in Nat, e \in Nat, z \in Nat :
        /\ s = Second /\ o = Over(g) /\ e = Over(g + n) /\ z = Over(size)
        /\ o <= e /\ e <= z
        /\ g + n <= s => o = 0 /\ e = 0
        /\ g + n > s => g + n = s + e
        /\ g <= s => o = 0
        /\ g > s => g = s + o
  <2>1. PICK h \in Nat : h = g + n /\ g <= h /\ h <= size
    OBVIOUS
  <2>2. Second \in Nat /\ Over(g) \in Nat /\ Over(h) \in Nat /\ Over(size) \in Nat
    BY <2>1, OverIs
  <2>3. Over(g) <= Over(h) /\ Over(h) <= Over(size)
    BY <2>1, OverIs
  <2>4. /\ h <= Second => Over(h) = 0 /\ Over(g) = 0
        /\ h > Second => h = Second + Over(h)
    <3>1. h <= Second => g <= Second
      BY <2>1, <2>2
    <3>2. QED
      BY <2>1, <3>1, OverIs
  <2>5. /\ g <= Second => Over(g) = 0
        /\ g > Second => g = Second + Over(g)
    BY OverIs
  <2>6. QED
    BY <2>1, <2>2, <2>3, <2>4, <2>5
<1>2. PICK data : data = SubSeq(c, s + o + 1, g + n)
  OBVIOUS
<1>2a. s \in Nat /\ o \in Nat /\ e \in Nat /\ o <= e
  BY <1>1
<1>3. /\ data \in Seq(T) /\ o + Len(data) = e /\ Len(data) \in Nat
      /\ \A i \in 1 .. Len(data) : data[i] = <<k, "app", s + o + i>>
  <2>1. CASE g + n <= s
    <3>1. g + n < s + o + 1 /\ e = 0 /\ o = 0
      BY <1>1, <2>1
    <3>2. data \in Seq(T) /\ Len(data) = 0
      BY <1>2, <3>1
    <3>3. QED
      BY <3>1, <3>2
  <2>2. CASE g + n > s
    <3>1. g + n = s + e
      BY <1>1, <2>2
    <3>2. PICK f \in Nat, m \in Nat : /\ f = s + o /\ m = e - o /\ f + m = s + e
                                     /\ f + 1 = s + o + 1 /\ o + m = e
      <4>1. s + o \in Nat /\ e - o \in Nat /\ (s + o) + (e - o) = s + e /\ o + (e - o) = e
        BY ONLY <1>2a
      <4>2. QED
        BY <4>1
    <3>3. data = SubSeq(c, f + 1, f + m) /\ f + m <= Len(c)
      BY <1>2, <3>1, <3>2
    <3>4. data \in Seq(T) /\ Len(data) = m
      BY ONLY <3>2, <3>3, c \in Seq(T), Piece
    <3>5. \A i \in 1 .. m : data[i] = c[f + i] /\ f + i \in 1 .. size
      BY <3>2, <3>3
    <3>6. \A i \in 1 .. Len(data) : data[i] = <<k, "app", s + o + i>>
      BY <3>2, <3>4, <3>5
    <3>7. QED
      BY <3>2, <3>4, <3>6
  <2>3. QED
    BY <2>1, <2>2
<1>4. new = Program(cell, o, data) /\ Ahead(cell, o, e) /\ Reaches(cell, k, o)
  BY <1>1, <1>2, AreaAssumption DEF Ahead, Address
<1>5. Clean(new)
  <2>1. \A i \in 1 .. Len(data) : data[i] # Garbage
    BY <1>3, NotGarbage
  <2>2. QED
    BY SMTT(30), <1>1, <1>3, <1>4, <2>1, CleanProgram
<1>6. \A a \in Address : new[a] = IF o <= a /\ a < e THEN data[a - o + 1] ELSE cell[a]
  <2>1. SUFFICES ASSUME NEW a \in Address
                 PROVE  new[a] = IF o <= a /\ a < e THEN data[a - o + 1] ELSE cell[a]
    OBVIOUS
  <2>2. Program(cell, o, data)[a]
          = IF o <= a /\ a < o + Len(data) THEN data[a - o + 1] ELSE cell[a]
    <3>1. Ahead(cell, o, o + Len(data)) /\ data \in Seq(T)
      BY <1>3, <1>4
    <3>2. QED
      BY ONLY <1>2a, <3>1, a \in Address, ProgramTakes
  <2>3. QED
    BY <1>3, <1>4, <2>2
<1>7. Reaches(new, k, e)
  <2>1. SUFFICES ASSUME NEW a \in Address, a < e PROVE new[a] = <<k, "app", s + a + 1>>
    BY <1>1 DEF Reaches
  <2>2. CASE a < o
    <3>1. new[a] = cell[a]
      BY SMTT(30), <1>1, <1>6, <2>2, AreaAssumption DEF Address
    <3>2. QED
      BY <1>1, <1>4, <2>2, <3>1 DEF Reaches
  <2>3. CASE ~(a < o)
    <3>1. a - o + 1 \in 1 .. Len(data) /\ s + o + (a - o + 1) = s + a + 1 /\ o <= a
      <4>1. a \in Nat
        BY AreaAssumption DEF Address
      <4>2. PICK l \in Nat : l = Len(data) /\ o + l = e
        BY <1>3
      <4>3. QED
        BY ONLY <1>2a, <2>1, <2>3, <4>1, <4>2
    <3>2. new[a] = data[a - o + 1]
      BY <1>6, <2>1, <3>1
    <3>3. data[a - o + 1] = <<k, "app", s + o + (a - o + 1)>>
      BY <1>3, <3>1
    <3>4. QED
      BY <3>1, <3>2, <3>3
  <2>4. QED
    BY <2>2, <2>3
<1>8. Ahead(new, e, z)
  <2>1. SUFFICES ASSUME NEW a \in Address, e <= a, a < z PROVE new[a] = Erased
    BY DEF Ahead
  <2>2. o <= a /\ ~(a < e)
    BY SMTT(30), <1>1, <2>1, AreaAssumption DEF Address
  <2>3. cell[a] = Erased
    BY <1>1, <2>1, <2>2 DEF Ahead
  <2>4. QED
    BY <1>6, <2>2, <2>3
<1>9. QED
  BY <1>1, <1>5, <1>7, <1>8

LEMMA DecidePlaces ==
  ASSUME Typed, Shapes, TreesKept, Placement, Decide
  PROVE  Placement'
<1>1. /\ file' = file /\ num' = num /\ got' = got /\ got = 0 /\ pc = "first"
      /\ web' = web
  BY DEF Decide, TreesKept, TreeInv
<1>2. /\ primary' = primary \/ primary' = Erase(primary, {0})
      /\ backup' = backup
      /\ slot1' = slot1 \/ slot1' = Erase(slot1, Covering(file.size))
      /\ slot2' = slot2 \/ slot2' = Erase(slot2, Covering(Over(file.size)))
  BY DEF Decide, EraseAppRange, trees
<1>3. NeverTwice' /\ WebRecord'
  <2>1. /\ Clean(slot1') /\ Clean(slot2') /\ Clean(primary') /\ Clean(backup')
        /\ Clean(web'.cell)
    BY <1>1, <1>2, FoundClean, CleanErased
  <2>2. QED
    BY <1>1, <2>1 DEF NeverTwice, Clean, Placement, Standing, WebRecord
<1>4. pc' \in {"cli", "hang", "recv", "erase"}
  BY DEF Decide
<1>5. \A phase : [Reset EXCEPT !.phase = phase].phase = phase
  BY DEF Reset
<1>6. CASE st' = [Reset EXCEPT !.phase = "app"] /\ EraseAppRange
  <2>1. st'.phase = "app" /\ file.size \in Nat
    BY <1>5, <1>6, FileIs DEF Shapes
  <2>2. Over(0) = 0 /\ Over(file.size) \in Nat
    BY <2>1, OverIs
  <2>3. Ahead(slot1', 0, file.size) /\ Ahead(slot2', 0, Over(file.size))
    BY <1>6, <2>1, <2>2, CoveringErases DEF EraseAppRange
  <2>4. Behind(slot1', num, "app", 0, 0) /\ Reaches(slot2', num, 0)
    BY AreaAssumption DEF Behind, Reaches, Address
  <2>5. QED
    BY <1>1, <1>3, <1>4, <2>1, <2>2, <2>3, <2>4 DEF Placement, Progress, Standing, Counting
<1>7. CASE st' \in {Reset, [Reset EXCEPT !.phase = "hdr"], [Reset EXCEPT !.phase = "dtb"]}
  <2>1. st'.phase \in {"off", "hdr", "dtb"}
    BY <1>5, <1>7, ResetFields
  <2>2. QED
    BY <1>3, <1>4, <2>1, PlacedIdle DEF Counting
<1>8. QED
  BY <1>6, <1>7 DEF Decide

LEMMA AppPlaces ==
  ASSUME Typed, Shapes, Kinds, Placement, App
  PROVE  Placement'
<1>1. /\ pc = "feed" /\ st.phase = "app" /\ file.kind = "app" /\ Consume(seg)
      /\ slot1' = Program(slot1, got, Chunk(seg)) /\ st' = st
      /\ slot2' = Program(slot2, Over(got), SubSeq(Content, Second + Over(got) + 1, got + seg))
      /\ web' = web /\ primary' = primary /\ backup' = backup
  BY DEF App, Turn, Kinds, trees
<1>2. /\ got \in Nat /\ seg \in Nat /\ file.size \in Nat /\ got + seg <= file.size
      /\ num \in Nat /\ AtMost(seg) = seg
  BY Lengths, AtMostIs
<1>3. file' = file /\ num' = num /\ got' = got + seg /\ pc' = "feed"
  BY <1>1, <1>2 DEF Consume
<1>4. /\ Clean(slot1) /\ Behind(slot1, num, "app", 0, got) /\ Ahead(slot1, got, file.size)
      /\ Clean(slot2) /\ Reaches(slot2, num, Over(got))
      /\ Ahead(slot2, Over(got), Over(file.size))
  BY <1>1, FoundClean DEF Placement, Standing
<1>4a. PICK c \in Seq(Unit) : /\ c = Content /\ Len(c) = file.size
                              /\ \A i \in 1 .. file.size : c[i] = <<num, "app", i>>
  <2>1. Content = Section("app", file.size)
    BY <1>1 DEF Content
  <2>2. "app" \in Sections
    BY DEF Sections
  <2>3. QED
    BY <1>2, <2>1, <2>2, SectionAt
<1>5. Continues(Chunk(seg), num, "app", 0, got, file.size)
  <2>1. Chunk(seg) \in Seq(Unit) /\ Len(Chunk(seg)) = seg
    BY <1>1, <1>2, ChunkIs
  <2>3. /\ c \in Seq(Unit) /\ c = Content /\ Len(c) = file.size
        /\ \A i \in 1 .. file.size : c[i] = <<num, "app", i>>
    BY <1>4a
  <2>4. Chunk(seg) = SubSeq(c, got + 1, got + seg)
    BY <1>2, <2>3 DEF Chunk
  <2>5. \A i \in 1 .. seg : SubSeq(c, got + 1, got + seg)[i] = c[got + i]
    BY <1>2, <2>3
  <2>6. \A i \in 1 .. seg : got + i \in 1 .. file.size /\ got - 0 + i = got + i
    BY <1>2
  <2>7. \A i \in 1 .. seg : Chunk(seg)[i] = <<num, "app", got - 0 + i>>
    BY <2>3, <2>4, <2>5, <2>6
  <2>8. QED
    BY <1>2, <2>1, <2>7 DEF Continues
<1>6. Filled(slot1', slot1, num, "app", 0, got, got + Len(Chunk(seg)), file.size)
  BY <1>1, <1>4, <1>5, FillsOn
<1>7. Len(Chunk(seg)) = seg
  BY <1>1, <1>2, ChunkIs
<1>8. /\ Clean(slot1') /\ Behind(slot1', num, "app", 0, got')
      /\ Ahead(slot1', got', file.size)
  BY <1>3, <1>6, <1>7 DEF Filled
<1>9. /\ Clean(slot2') /\ Reaches(slot2', num, Over(got'))
      /\ Ahead(slot2', Over(got'), Over(file.size))
  <2>1. slot2' = Program(slot2, Over(got), SubSeq(c, Second + Over(got) + 1, got + seg))
    BY <1>1, <1>4a
  <2>2. /\ Clean(slot2') /\ Reaches(slot2', num, Over(got + seg))
        /\ Ahead(slot2', Over(got + seg), Over(file.size))
    BY ONLY <1>2, <1>4, <1>4a, <2>1, ReachesOn
  <2>3. QED
    BY <1>3, <2>2
<1>10. NeverTwice' /\ WebRecord'
  <2>1. /\ Clean(slot1') /\ Clean(slot2') /\ Clean(primary') /\ Clean(backup')
        /\ Clean(web'.cell)
    BY <1>1, <1>8, <1>9, FoundClean
  <2>2. QED
    BY <1>1, <2>1 DEF NeverTwice, Clean, Placement, Standing, WebRecord
<1>11. QED
  BY <1>1, <1>3, <1>8, <1>9, <1>10 DEF Placement, Progress, Standing, Counting

\* The package is complete: what is left is the web image's checksum, and the
\* record.
LEMMA FinishPlaces ==
  ASSUME Typed, Shapes, TreesKept, Kinds, Placement, Finish
  PROVE  Placement'
<1>1. /\ pc = "finish" /\ file.kind = "upg" /\ file' = file /\ num' = num /\ got' = got
      /\ slot1' = slot1 /\ slot2' = slot2 /\ loader' = loader
      /\ primary' = primary /\ backup' = backup
  BY DEF Finish, TreesKept, TreeInv, trees
<1>2. CASE st' = Reset /\ pc' = "cli" /\ web' = web
  BY <1>1, <1>2, SameFlash, PlacedIdle, ResetFields DEF Counting
<1>3. CASE Complete /\ web' = FinalizeWeb /\ ota' = num /\ pc' = "success" /\ st' = st
  <2>1. st.phase = "done" /\ st.phase \in Counting
    BY <1>3 DEF Complete, Counting
  <2>2. file.web \in Nat /\ num \in Nat /\ web.used \in 0 .. Area /\ got \in Nat
    BY Lengths DEF Typed, TypeOK
  <2>3. /\ SizesOk /\ InOrder /\ got >= Hdr + Taken
        /\ st.crc = SubSeq(Body, 1, Taken)
        /\ st.loader = Section("loader", Len(st.loader))
        /\ st.web = Section("web", Len(st.web)) /\ Len(st.web) = file.web
    BY <2>1 DEF Placement, Progress, InOrder
  <2>4. Progress'
    <3>1. Taken' = Taken /\ InOrder' /\ SizesOk' /\ Body' = Body
      BY <1>1, <1>3, <2>3, SameBody DEF Taken, InOrder
    <3>2. /\ st'.loader = Section("loader", Len(st.loader))'
          /\ st'.web = Section("web", Len(st.web))'
      BY <1>1, <1>3, <2>3 DEF Section
    <3>3. QED
      BY <1>1, <1>3, <2>1, <2>3, <3>1, <3>2 DEF Progress
  <2>5. /\ SlotsPlaced /\ LoaderPlaced /\ (file.web > 0 => WebPlaced) /\ WebRecord
        /\ Clean(web.cell)
    BY <1>1, <2>1, FoundClean DEF Placement, Standing
  <2>6. Clean(web'.cell) /\ WebRecord'
    <3>1. CASE file.web = 0
      BY <1>3, <2>5, <3>1 DEF FinalizeWeb, WebRecord
    <3>2. CASE file.web # 0
      <4>1. web' = LoaderWrite(web, 0, CrcSector)
        BY <1>3, <3>2 DEF FinalizeWeb
      <4>2. QED
        BY <2>2, <2>5, <4>1, WebFinalized DEF WebRecord
    <3>3. QED
      BY <3>1, <3>2
  <2>7. file.web > 0 /\ 1 + file.web <= Sector => WebWhole'
    <3>1. SUFFICES ASSUME file.web > 0, 1 + file.web <= Sector PROVE WebWhole'
      OBVIOUS
    <3>2. web' = LoaderWrite(web, 0, CrcSector)
      BY <1>3, <2>2, <3>1 DEF FinalizeWeb
    <3>3. /\ web.used = 1 + file.web /\ Behind(web.cell, num, "web", 1, 1 + file.web)
          /\ st.web = Section("web", file.web)
      BY <2>3, <2>5, <3>1 DEF WebPlaced
    <3>4. Read(web', 0, 1 + file.web)
            = <<<<"crc", Section("web", file.web)>>>> \o Section("web", file.web)
      BY <2>2, <2>5, <3>1, <3>2, <3>3, WebIsWhole
    <3>5. Section("web", file.web)' = Section("web", file.web)
      BY <1>1 DEF Section
    <3>6. QED
      BY <1>1, <3>4, <3>5 DEF WebWhole
  <2>8. SlotsPlaced' /\ LoaderPlaced'
    BY <1>1, <1>3, <2>5 DEF SlotsPlaced, LoaderPlaced, Section
  <2>9. Standing'
    BY <1>1, <1>3, <2>1, <2>6, <2>7, <2>8 DEF Standing, Counting
  <2>10. NeverTwice'
    <3>1. /\ Clean(slot1') /\ Clean(slot2') /\ Clean(primary') /\ Clean(backup')
          /\ Clean(web'.cell)
      BY <1>1, <2>6, FoundClean
    <3>2. QED
      BY <3>1 DEF NeverTwice, Clean
  <2>11. QED
    BY <2>4, <2>9, <2>10 DEF Placement
<1>4. QED
  BY <1>2, <1>3 DEF Finish

\* The steps that write device trees.
LEMMA TreesPlace ==
  ASSUME TreesKept, Kinds, Placement,
         EraseBackup \/ DtbPrimary \/ DtbBackup \/ DtsLoadDefault
           \/ \E n \in 0 .. Sector : DtsHeal(n)
  PROVE  Placement'
<1>1. slot1' = slot1 /\ slot2' = slot2 /\ web' = web /\ st' = st /\ pc' # "success"
  BY DEF EraseBackup, DtbPrimary, DtbBackup, DtsLoadDefault, DtsHeal
<1>2. st.phase \in {"off", "dtb"}
  <2>1. CASE EraseBackup \/ DtbPrimary \/ DtbBackup
    BY <2>1 DEF EraseBackup, DtbPrimary, DtbBackup, Turn, TreesKept, TreeInv, DtbComing
  <2>2. CASE pc \in {"cli", "heal"}
    BY <2>2, ResetFields DEF Kinds
  <2>3. QED
    BY <2>1, <2>2 DEF DtsLoadDefault, DtsHeal
<1>3. Clean(primary') /\ Clean(backup')
  <2>1. CASE EraseBackup
    BY <2>1, FoundClean, CleanErased DEF EraseBackup
  <2>2. CASE DtbPrimary
    <3>1. /\ pc = "feed" /\ st.phase = "dtb" /\ backup' = backup
          /\ primary' = Program(primary, got, Chunk(seg))
      BY <2>2 DEF DtbPrimary, Turn
    <3>2. DtbComing /\ Begun(primary, got)
      BY <3>1 DEF TreesKept, TreeInv, TreeOnItsWay
    <3>3. QED
      BY <3>1, <3>2, FoundClean, TreeGoesOn
  <2>3. CASE DtbBackup
    <3>1. /\ pc = "second" /\ primary' = primary
          /\ backup' = Program(backup, got, Chunk(seg))
      BY <2>3 DEF DtbBackup
    <3>2. DtbComing /\ Begun(backup, got)
      BY <3>1 DEF TreesKept, TreeInv, TreeOnItsWay, DtbComing
    <3>3. QED
      BY <3>1, <3>2, FoundClean, TreeGoesOn
  <2>4. CASE DtsLoadDefault
    <3>1. backup' = backup /\ (primary' = primary \/ primary' = Erase(primary, {0}))
      BY <2>4 DEF DtsLoadDefault, HealErase
    <3>2. QED
      BY <3>1, FoundClean, CleanErased
  <2>5. ASSUME NEW n \in 0 .. Sector, DtsHeal(n) PROVE Clean(primary') /\ Clean(backup')
    <3>1. /\ pc = "heal" /\ n <= Len(promise) /\ backup' = backup
          /\ primary' = Program(primary, 0, SubSeq(promise, 1, n))
      BY <2>5 DEF DtsHeal, HealProgram
    <3>2. PICK k, m : m \in 1 .. Sector /\ promise = Tree(k, TRUE, m)
      BY <3>1 DEF TreesKept, TreeInv
    <3>3. /\ \A a \in 0 .. Sector - 1 : primary[a] = Erased
          /\ m \in Nat /\ n \in Nat /\ 0 + 1 = 1 /\ 0 + n = n /\ Len(promise) = m
      <4>1. m \in Nat /\ n \in Nat
        BY <3>2, SectorFits
      <4>2. Len(promise) = m
        BY <3>2, <4>1, TreeLength
      <4>3. \A a \in 0 .. Sector - 1 : primary[a] = Erased
        BY <3>1 DEF TreesKept, TreeInv
      <4>4. QED
        BY <4>1, <4>2, <4>3
    <3>4. Sound(SubSeq(Tree(k, TRUE, m), 0 + 1, 0 + n), n)
      BY <3>1, <3>3, TreePiece
    <3>5. PICK T : /\ SubSeq(promise, 1, n) \in Seq(T) /\ Len(SubSeq(promise, 1, n)) = n
                   /\ \A i \in 1 .. Len(SubSeq(promise, 1, n)) : SubSeq(promise, 1, n)[i] # Garbage
      BY <3>2, <3>3, <3>4 DEF Sound
    <3>6. Ahead(primary, 0, 0 + n)
      <4>1. SUFFICES ASSUME NEW a \in Address, 0 <= a, a < 0 + n PROVE primary[a] = Erased
        BY DEF Ahead
      <4>2. a \in 0 .. Sector - 1
        BY <4>1, SectorFits DEF Address
      <4>3. QED
        BY <3>3, <4>2
    <3>7. QED
      BY <3>1, <3>5, <3>6, FoundClean, CleanProgram
  <2>6. QED
    BY <2>1, <2>2, <2>3, <2>4, <2>5
<1>4. QED
  BY <1>1, <1>2, <1>3, TreesTouched, PlacedIdle DEF Counting

LEMMA PlacementStep ==
  TreesKept /\ Typed /\ Kinds /\ Placement /\ [Next]_vars => Placement'
<1>1. SUFFICES ASSUME TreesKept, Typed, Kinds, Placement, [Next]_vars PROVE Placement'
  OBVIOUS
<1>2. Shapes
  BY <1>1 DEF TreesKept
<1>3. CASE Header \/ Loader \/ Fw1 \/ Fw2 \/ Web
  BY <1>1, <1>2, <1>3, HeaderPlaces, LoaderPlaces, Fw1Places, Fw2Places, WebPlaces
<1>4. CASE (\E f \in File : Begin(f)) \/ Abort \/ Reported
  <2>1. /\ slot1' = slot1 /\ slot2' = slot2 /\ web' = web /\ primary' = primary
        /\ backup' = backup /\ st' = Reset /\ pc' # "success"
    BY <1>4 DEF Begin, Abort, Reported, flash, trees
  <2>2. QED
    BY <1>1, <2>1, SameFlash, PlacedIdle, ResetFields DEF Counting
<1>5. CASE (\E n \in 1 .. Block : DataBlock(n)) \/ Return \/ Ignore
  <2>1. /\ slot1' = slot1 /\ slot2' = slot2 /\ web' = web /\ primary' = primary
        /\ backup' = backup /\ loader' = loader /\ st' = st /\ file' = file /\ num' = num
        /\ pc \in {"recv", "feed"}
    BY <1>5 DEF DataBlock, Return, Ignore, Turn, Consume, flash, trees
  <2>2. pc' = "success" => st.phase \notin Counting /\ file.kind # "upg"
    BY <1>1, <1>5 DEF DataBlock, Return, Ignore, Turn, Consume, Kinds
  <2>3. got' \in Nat /\ (got' = got \/ (st.phase = "done" /\ got' >= got))
    <3>1. CASE Ignore
      <4>1. st.phase = "done" /\ got' = got + AtMost(seg)
        BY <3>1 DEF Ignore, Turn, Consume
      <4>2. got \in Nat /\ seg \in Nat /\ AtMost(seg) = seg
        BY <1>1, <1>2, FoundCounters, AtMostIs
      <4>3. QED
        BY <4>1, <4>2
    <3>2. CASE got' = got
      BY <1>1, <1>2, <3>2, FoundCounters
    <3>3. QED
      BY <1>5, <3>1, <3>2 DEF DataBlock, Return
  <2>4. NeverTwice'
    BY <1>1, <2>1, SameFlash
  <2>5. pc # "success"
    BY <2>1
  <2>6. QED
    BY <1>1, <1>2, <2>1, <2>2, <2>3, <2>4, <2>5, CarriesOn
<1>6. CASE EraseBackup \/ DtbPrimary \/ DtbBackup \/ DtsLoadDefault
             \/ \E n \in 0 .. Sector : DtsHeal(n)
  BY <1>1, <1>6, TreesPlace
<1>7. CASE UNCHANGED vars
  <2>1. Progress'
    BY <1>1, <1>7 DEF vars, flash, trees, Placement, Progress, InOrder, Taken, SizesOk, Body,
                      Section
  <2>2. WebPlaced' = WebPlaced /\ SlotsPlaced' = SlotsPlaced /\ LoaderPlaced' = LoaderPlaced
    BY <1>7 DEF vars, flash, trees, Section, SlotsPlaced, WebPlaced, LoaderPlaced
  <2>3. WebRecord' = WebRecord /\ WebWhole' = WebWhole
    BY <1>7 DEF vars, flash, trees, Section, WebRecord, WebWhole
  <2>4. Standing'
    BY <1>1, <1>7, <2>2, <2>3 DEF vars, flash, trees, Placement, Standing
  <2>5. NeverTwice'
    BY <1>1, <1>7 DEF vars, flash, trees, Placement, NeverTwice
  <2>6. QED
    BY <2>1, <2>4, <2>5 DEF Placement
<1>8. QED
  BY <1>1, <1>2, <1>3, <1>4, <1>5, <1>6, <1>7, DecidePlaces, AppPlaces, FinishPlaces
     DEF Next, Feed

-----------------------------------------------------------------------------
(* What holds of every transfer                                            *)

Whole == TreesKept /\ Typed /\ Kinds /\ Placement

LEMMA WholeHolds == Spec => []Whole
<1>1. Init => Whole
  BY TreesInitially, TypedInitially, KindsInitially, PlacementInitially DEF Whole
<1>2. Whole /\ [Next]_vars => Whole'
  BY TreesStep, TypedStep, KindsStep, PlacementStep DEF Whole
<1>3. QED
  BY <1>1, <1>2, PTL DEF Spec

\* Nothing is programmed onto what is not erased, whatever files come in
\* whatever order, and wherever they break off.
THEOREM NeverTwiceCorrect == Spec => []NeverTwice
<1>1. Whole => NeverTwice
  BY DEF Whole, Placement
<1>2. QED
  BY <1>1, WholeHolds, PTL

\* The checksum of a complete package ran over all of it.
LEMMA WholeBody ==
  ASSUME Typed, Shapes
  PROVE  SubSeq(Body, 1, Len(Body)) = Body
<1>1. Body \in Seq(Unit)
  BY Lengths, BodyIs
<1>2. PICK b \in Seq(Unit) : b = Body
  BY <1>1
<1>3. SubSeq(b, 1, Len(b)) = b
  OBVIOUS
<1>4. QED
  BY <1>2, <1>3

LEMMA InStepHolds ==
  ASSUME Typed, Shapes, Progress
  PROVE  InStep
<1>1. SUFFICES ASSUME st.phase \in Counting PROVE InStep
  BY DEF InStep, Counting
<1>2. /\ InOrder
      /\ IF st.phase = "done" THEN got >= Hdr + Taken ELSE got = Hdr + Taken
      /\ st.crc = SubSeq(Body, 1, Taken)
  BY <1>1 DEF Progress
<1>3. PICK h \in Nat, l \in Nat, a \in Nat, b \in Nat, w \in Nat,
           tl \in Nat, ta \in Nat, tb \in Nat, tw \in Nat :
        /\ h = Hdr /\ l = file.loader /\ a = file.fw1 /\ b = file.fw2 /\ w = file.web
        /\ tl = Len(st.loader) /\ ta = st.fw1 /\ tb = st.fw2 /\ tw = Len(st.web)
  BY Lengths
<1>4. Taken = tl + ta + tb + tw /\ Len(Body) = l + a + b + w /\ got \in Nat
  BY <1>3, Lengths DEF Taken
<1>5. h + (tl + ta + tb + tw) - h = tl + ta + tb + tw
  OBVIOUS
<1>6. st.phase # "done" => got - Hdr = Taken
  BY <1>2, <1>3, <1>4, <1>5
<1>7. CASE st.phase = "loader"
  <2>1. ta = 0 /\ tb = 0 /\ tw = 0
    BY <1>2, <1>3, <1>7, Lengths DEF InOrder
  <2>2. StartOf("loader") = h + 0 + 0 + 0 + 0
    BY <1>3 DEF StartOf
  <2>3. h + (tl + 0 + 0 + 0) = h + 0 + 0 + 0 + 0 + tl
    OBVIOUS
  <2>4. got = StartOf("loader") + Len(st.loader)
    BY <1>2, <1>3, <1>4, <1>7, <2>1, <2>2, <2>3
  <2>5. QED
    BY <1>2, <1>6, <1>7, <2>4 DEF InStep
<1>8. CASE st.phase = "fw1"
  <2>1. tl = l /\ tb = 0 /\ tw = 0
    BY <1>2, <1>3, <1>8, Lengths DEF InOrder, Counting
  <2>2. StartOf("fw1") = h + l + 0 + 0 + 0
    BY <1>3 DEF StartOf
  <2>3. h + (l + ta + 0 + 0) = h + l + 0 + 0 + 0 + ta
    OBVIOUS
  <2>4. got = StartOf("fw1") + st.fw1
    BY <1>2, <1>3, <1>4, <1>8, <2>1, <2>2, <2>3
  <2>5. QED
    BY <1>2, <1>6, <1>8, <2>4 DEF InStep
<1>9. CASE st.phase = "fw2"
  <2>1. tl = l /\ ta = a /\ tw = 0
    BY <1>2, <1>3, <1>9, Lengths DEF InOrder, Counting
  <2>2. StartOf("fw2") = h + l + a + 0 + 0
    BY <1>3 DEF StartOf
  <2>3. h + (l + a + tb + 0) = h + l + a + 0 + 0 + tb
    OBVIOUS
  <2>4. got = StartOf("fw2") + st.fw2
    BY <1>2, <1>3, <1>4, <1>9, <2>1, <2>2, <2>3
  <2>5. QED
    BY <1>2, <1>6, <1>9, <2>4 DEF InStep
<1>10. CASE st.phase = "web"
  <2>1. tl = l /\ ta = a /\ tb = b
    BY <1>2, <1>3, <1>10 DEF InOrder, Counting
  <2>2. StartOf("web") = h + l + a + b + 0
    BY <1>3 DEF StartOf
  <2>3. h + (l + a + b + tw) = h + l + a + b + 0 + tw
    OBVIOUS
  <2>4. got = StartOf("web") + Len(st.web)
    BY <1>2, <1>3, <1>4, <1>10, <2>1, <2>2, <2>3
  <2>5. QED
    BY <1>2, <1>6, <1>10, <2>4 DEF InStep
<1>11. CASE st.phase = "done"
  <2>1. tl = l /\ ta = a /\ tb = b /\ tw = w
    BY <1>2, <1>3, <1>11 DEF InOrder, Counting
  <2>2. StartOf("done") = h + l + a + b + w
    BY <1>3 DEF StartOf
  <2>3. h + (l + a + b + w) = h + l + a + b + w
    OBVIOUS
  <2>4. got >= StartOf("done")
    BY <1>2, <1>3, <1>4, <1>11, <2>1, <2>2, <2>3
  <2>5. st.crc = Body
    BY <1>2, <1>4, <2>1, WholeBody
  <2>6. QED
    BY <1>11, <2>4, <2>5 DEF InStep
<1>12. QED
  BY <1>1, <1>7, <1>8, <1>9, <1>10, <1>11 DEF Counting

\* A sector that holds the beginning of a tree is read as one.
LEMMA HeadReads ==
  ASSUME NEW T, Content \in Seq(T), NEW n \in Nat, n <= Len(Content), NEW cell,
         \A i \in 1 .. n : cell[0 + i - 1] = Content[(i - 1) + 1]
  PROVE  Cells(cell, 0, n) = SubSeq(Content, 1, n)
<1>1. PICK c \in Seq(T) : c = Content
  OBVIOUS
<1>2. PICK x : x = SubSeq(c, 1, n)
  OBVIOUS
<1>3. x \in Seq(T) /\ Len(x) = n /\ \A i \in 1 .. n : x[i] = c[i]
  BY <1>1, <1>2
<1>4. x = [i \in 1 .. n |-> x[i]]
  BY <1>3
<1>5. \A i \in 1 .. n : (i - 1) + 1 = i
  OBVIOUS
<1>6. \A i \in 1 .. n : cell[0 + i - 1] = x[i]
  BY <1>1, <1>3, <1>5
<1>7. Cells(cell, 0, n) = [i \in 1 .. n |-> x[i]]
  BY <1>6 DEF Cells
<1>8. QED
  BY <1>1, <1>2, <1>4, <1>7

LEMMA ReadsTree ==
  ASSUME NEW T, Content \in Seq(T), NEW n \in Nat, n <= Len(Content), NEW cell, Begun(cell, n)
  PROVE  Cells(cell, 0, n) = SubSeq(Content, 1, n)
<1>1. \A i \in 1 .. n : i - 1 \in 0 .. n - 1 /\ 0 + i - 1 = i - 1
  OBVIOUS
<1>2. \A i \in 1 .. n : cell[0 + i - 1] = Content[(i - 1) + 1]
  BY <1>1 DEF Begun
<1>3. QED
  BY <1>2, HeadReads

LEMMA SlotsRead ==
  ASSUME Typed, Shapes, Progress, Standing, st.phase \in Counting
  PROVE  /\ Cells(slot1, 0, st.fw1) = Section("fw1", st.fw1)
         /\ Cells(slot2, 0, st.fw2) = Section("fw2", st.fw2)
<1>1. /\ Behind(slot1, num, "fw1", 0, st.fw1) /\ Behind(slot2, num, "fw2", 0, st.fw2)
      /\ SizesOk
  BY DEF Progress, Standing, SlotsPlaced
<1>2. /\ file.fw1 <= Area /\ file.fw2 <= Area /\ file.fw1 \in Nat /\ file.fw2 \in Nat
      /\ st.fw1 \in Nat /\ st.fw1 <= file.fw1 /\ st.fw2 \in Nat /\ st.fw2 <= file.fw2
      /\ num \in Nat /\ Area \in Nat
  BY <1>1, Lengths, SectorFits DEF SizesOk
<1>3. st.fw1 \in 0 .. Area /\ st.fw2 \in 0 .. Area
  BY ONLY <1>2
<1>4. {"fw1", "fw2"} \subseteq Sections
  BY DEF Sections
<1>5. QED
  BY <1>1, <1>2, <1>3, <1>4, ReadsSection

LEMMA PlacedHolds ==
  ASSUME Whole
  PROVE  Placed
<1>1. Typed /\ Shapes /\ TreeInv /\ Kinds /\ Progress /\ Standing
  BY DEF Whole, TreesKept, Placement
<1>2. num \in Nat /\ Area \in Nat /\ file \in File /\ got \in Nat /\ got <= file.size
      /\ file.size \in Nat
  <2>1. got \in Nat /\ seg \in Nat /\ file.size \in Nat /\ got + seg <= file.size
    BY <1>1, Lengths
  <2>2. got <= file.size
    BY ONLY <2>1
  <2>3. QED
    BY <1>1, <2>1, <2>2, Lengths, SectorFits
<1>3. ASSUME st.phase \notin {"dtb", "app"}
      PROVE  /\ Cells(slot1, 0, st.fw1) = Section("fw1", st.fw1)
             /\ Cells(slot2, 0, st.fw2) = Section("fw2", st.fw2)
  <2>1. CASE st.phase \in Counting
    BY <1>1, <2>1, SlotsRead
  <2>2. CASE st.phase \notin Counting
    <3>1. st.fw1 = 0 /\ st.fw2 = 0
      BY <1>1, <2>2 DEF Kinds
    <3>2. \A cell, name : Cells(cell, 0, 0) = Section(name, 0)
      BY DEF Cells, Section
    <3>3. QED
      BY <3>1, <3>2
  <2>3. QED
    BY <2>1, <2>2
<1>4. ASSUME pc # "success", st.web # <<>>
      PROVE  /\ st.web = Section("web", Len(st.web))
             /\ Cells(web.cell, 0, 1 + Len(st.web)) = <<Placeholder>> \o st.web
  <2>1. st.phase \in Counting
    BY <1>1, <1>4 DEF Kinds
  <2>2. Len(st.web) \in Nat /\ Len(st.web) > 0 /\ Len(st.web) <= file.web /\ file.web \in Nat
    <3>1. st.web \in Seq(Unit) /\ Len(st.web) <= file.web /\ file.web \in Nat
      BY <1>1, Found, Lengths
    <3>2. Len(st.web) \in Nat /\ Len(st.web) # 0
      BY <1>4, <3>1
    <3>3. QED
      BY <3>1, <3>2
  <2>3. file.web > 0 /\ 1 + file.web <= Area
    <3>1. WebFits /\ file.web > 0
      BY <1>1, <2>1, <2>2, Found
    <3>2. QED
      BY <2>2, <3>1 DEF WebFits
  <2>4. WebPlaced /\ st.web = Section("web", Len(st.web))
    BY <1>1, <1>4, <2>1, <2>3 DEF Progress, Standing
  <2>5. 1 + Len(st.web) <= Area
    BY <1>2, <2>2, <2>3
  <2>6. Cells(web.cell, 0, 1 + Len(st.web)) = <<Placeholder>> \o Section("web", Len(st.web))
    BY <1>2, <2>2, <2>4, <2>5, ReadsWeb DEF WebPlaced
  <2>7. QED
    BY <2>4, <2>6
<1>5. ASSUME st.phase = "dtb"
      PROVE  \A cells \in {primary, backup} : Cells(cells, 0, got) = SubSeq(Content, 1, got)
  <2>1. DtbComing /\ TreeOnItsWay /\ file.kind = "dtb"
    BY <1>1, <1>5 DEF TreeInv, DtbComing
  <2>2. Content \in Seq({Content[i] : i \in 1 .. file.size}) /\ Len(Content) = file.size
    BY <1>2, <2>1, ContentIs
  <2>3. Begun(primary, got) \/ Begun(primary, got + seg)
    BY <2>1 DEF TreeOnItsWay
  <2>4. \A cell : Begun(cell, got) => Cells(cell, 0, got) = SubSeq(Content, 1, got)
    BY <1>2, <2>2, ReadsTree
  <2>5. Cells(primary, 0, got) = SubSeq(Content, 1, got)
    <3>1. CASE Begun(primary, got)
      BY <2>4, <3>1
    <3>2. CASE Begun(primary, got + seg)
      <4>1. seg \in Nat
        BY <2>1 DEF TreeOnItsWay
      <4>2. PICK end \in Nat : end = got + seg /\ got <= end
        BY <1>2, <4>1
      <4>3. \A i \in 1 .. got : primary[0 + i - 1] = Content[(i - 1) + 1]
        <5>1. \A i \in 1 .. got : i - 1 \in 0 .. end - 1 /\ 0 + i - 1 = i - 1
          BY <1>2, <4>2
        <5>2. \A a \in 0 .. end - 1 : primary[a] = Content[a + 1]
          BY <3>2, <4>2 DEF Begun
        <5>3. QED
          BY <5>1, <5>2
      <4>4. QED
        BY <1>2, <2>2, <4>3, HeadReads
    <3>3. QED
      BY <2>3, <3>1, <3>2
  <2>6. Cells(backup, 0, got) = SubSeq(Content, 1, got)
    <3>1. CASE pc = "erase"
      <4>1. got = 0
        BY <2>1, <3>1 DEF TreeOnItsWay
      <4>2. \A i \in 1 .. got : backup[0 + i - 1] = Content[(i - 1) + 1]
        BY <4>1
      <4>3. QED
        BY <1>2, <2>2, <4>2, HeadReads
    <3>2. CASE pc # "erase"
      BY <2>1, <2>4, <3>2 DEF TreeOnItsWay
    <3>3. QED
      BY <3>1, <3>2
  <2>7. QED
    BY <2>5, <2>6
<1>6. ASSUME st.phase = "app" PROVE AppStands(got)
  <2>1. Behind(slot1, num, "app", 0, got) /\ Reaches(slot2, num, Over(got))
    BY <1>1, <1>6 DEF Standing
  <2>2. \A a \in Address : 0 <= a /\ a - 0 + 1 = a + 1
    BY AreaAssumption DEF Address
  <2>3. QED
    BY <2>1, <2>2 DEF AppStands, Behind, Reaches
<1>7. QED
  BY <1>3, <1>4, <1>5, <1>6 DEF Placed

\* The context agrees with the file in front of it and with the flash behind
\* it: what upg_apply_feed looks at next is what comes next, the checksum ran
\* over what was taken, and what is counted as written stands where it
\* belongs.
THEOREM IInvCorrect == Spec => []IInv
<1>1. Whole => IInv
  BY InStepHolds, PlacedHolds DEF Whole, TreesKept, Placement, Typed, IInv
<1>2. QED
  BY <1>1, WholeHolds, PTL

\* A success that SerialDownload reports is one: every section of a package,
\* and its record; both copies of a device tree; the whole application.
THEOREM SuccessIsWholeCorrect == Spec => []SuccessIsWhole
<1>1. ASSUME Whole PROVE SuccessIsWhole
  <2>1. SUFFICES ASSUME pc = "success" PROVE SuccessIsWhole
    BY DEF SuccessIsWhole
  <2>2. Typed /\ Shapes /\ TreeInv /\ Kinds /\ Progress /\ Standing /\ Placed
    BY <1>1, PlacedHolds DEF Whole, TreesKept, Placement
  <2>3. file.kind \in {"upg", "dtb", "app"}
    BY <2>2, FileAssumption DEF Shapes
  <2>4. CASE file.kind = "upg"
    <3>1. st.phase = "done" /\ st.phase \in Counting
      BY <2>1, <2>2, <2>4 DEF Kinds, Counting
    <3>2. st.fw1 = file.fw1 /\ st.fw2 = file.fw2
      BY <2>2, <3>1 DEF Progress, InOrder
    <3>3. /\ Cells(slot1, 0, file.fw1) = Section("fw1", file.fw1)
          /\ Cells(slot2, 0, file.fw2) = Section("fw2", file.fw2)
      BY <2>2, <3>1, <3>2, SlotsRead
    <3>4. file.loader > 0 => loader = Section("loader", file.loader)
      BY <2>2, <3>1 DEF Standing, LoaderPlaced
    <3>5. ota = num /\ (file.web > 0 /\ 1 + file.web <= Sector => WebWhole)
      BY <2>1, <2>2, <2>4 DEF Standing
    <3>6. QED
      BY <2>4, <3>3, <3>4, <3>5 DEF SuccessIsWhole
  <2>5. CASE file.kind = "dtb"
    <3>1. st.phase = "dtb" /\ got = file.size
      BY <2>1, <2>2, <2>5 DEF TreeInv, DtbComing, Kinds
    <3>2. \A cells \in {primary, backup} : Cells(cells, 0, got) = SubSeq(Content, 1, got)
      BY <2>2, <3>1 DEF Placed
    <3>3. SubSeq(Content, 1, got) = Content
      <4>1. Content \in Seq({Content[i] : i \in 1 .. file.size}) /\ Len(Content) = file.size
        BY <2>2, <2>5, ContentIs DEF Shapes
      <4>2. PICK c \in Seq({Content[i] : i \in 1 .. file.size}) :
              c = Content /\ Len(c) = file.size
        BY <4>1
      <4>3. SubSeq(c, 1, Len(c)) = c
        OBVIOUS
      <4>4. QED
        BY <3>1, <4>2, <4>3
    <3>4. QED
      BY <2>5, <3>1, <3>2, <3>3 DEF SuccessIsWhole
  <2>6. CASE file.kind = "app"
    <3>1. st.phase = "app" /\ got = file.size /\ file.size <= Internal
      BY <2>1, <2>2, <2>6 DEF Kinds
    <3>2. AppStands(got)
      BY <2>2, <3>1 DEF Placed
    <3>3. QED
      BY <2>6, <3>1, <3>2 DEF SuccessIsWhole
  <2>7. QED
    BY <2>3, <2>4, <2>5, <2>6
<1>2. Whole => SuccessIsWhole
  BY <1>1
<1>3. QED
  BY <1>2, WholeHolds, PTL

=============================================================================
