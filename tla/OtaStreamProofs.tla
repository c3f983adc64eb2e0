-------------------------- MODULE OtaStreamProofs --------------------------
(***************************************************************************)
(* Theorems about OtaStream, for any sector size, any packages and any     *)
(* way of cutting them into segments.                                      *)
(***************************************************************************)
EXTENDS OtaStream, SequenceTheorems, TLAPS

-----------------------------------------------------------------------------
(* Sectors                                                                 *)

\* A product grows with its factor.
LEMMA ProductGrows ==
  ASSUME NEW x \in Nat, NEW y \in Nat, x < y, NEW m \in Nat
  PROVE  x * m + m <= y * m
<1>1. PICK d \in Nat : y = x + 1 + d
  <2>1. y - x - 1 \in Nat /\ y = x + 1 + (y - x - 1)
    OBVIOUS
  <2>2. QED BY <2>1
<1>2. y * m = x * m + m + d * m
  BY <1>1
<1>3. d * m >= 0
  OBVIOUS
<1>4. QED
  BY <1>2, <1>3

\* A sector holds the addresses from its first to the next sector's first.
LEMMA SectorBounds ==
  ASSUME NEW a \in Nat
  PROVE  /\ SectorOf(a) \in Nat
         /\ SectorOf(a) * Sector <= a
         /\ a < SectorOf(a) * Sector + Sector
  BY SectorAssumption DEF SectorOf

\* An address between the first one of a sector and another of its
\* addresses is in the sector.
LEMMA SectorBetween ==
  ASSUME NEW a \in Nat, NEW b \in Nat,
         SectorOf(b) * Sector <= a, a <= b
  PROVE  SectorOf(a) = SectorOf(b)
<1>1. SectorOf(a) * Sector <= a /\ a < SectorOf(a) * Sector + Sector
  BY SectorBounds
<1>2. b < SectorOf(b) * Sector + Sector
  BY SectorBounds
<1>3. SectorOf(a) \in Nat /\ SectorOf(b) \in Nat /\ Sector \in Nat
  BY SectorBounds, SectorAssumption
<1>4. ~(SectorOf(a) < SectorOf(b))
  <2>1. SUFFICES ASSUME SectorOf(a) < SectorOf(b) PROVE FALSE
    OBVIOUS
  <2>2. SectorOf(a) * Sector + Sector <= SectorOf(b) * Sector
    BY <2>1, <1>3, ProductGrows
  <2>3. QED
    BY <2>2, <1>1, <1>3
<1>5. ~(SectorOf(b) < SectorOf(a))
  <2>1. SUFFICES ASSUME SectorOf(b) < SectorOf(a) PROVE FALSE
    OBVIOUS
  <2>2. SectorOf(b) * Sector + Sector <= SectorOf(a) * Sector
    BY <2>1, <1>3, ProductGrows
  <2>3. QED
    BY <2>2, <1>1, <1>2, <1>3
<1>6. QED
  BY <1>3, <1>4, <1>5

\* Sectors rise with the addresses.
LEMMA SectorRises ==
  ASSUME NEW a \in Nat, NEW b \in Nat, SectorOf(a) = SectorOf(b),
         NEW c \in Nat, a <= c, c <= b
  PROVE  SectorOf(c) = SectorOf(b)
<1>1. SectorOf(b) * Sector <= a
  BY SectorBounds
<1>2. SectorOf(b) * Sector <= c
  BY <1>1, SectorBounds, SectorAssumption
<1>3. QED
  BY <1>2, SectorBetween

-----------------------------------------------------------------------------
(* Writes                                                                  *)

\* The sectors of the cells a write reaches are erased by it, or have been
\* behind the write before.
LEMMA WriteFindsErased ==
  ASSUME NEW cell, NEW off \in Nat, NEW len \in Nat, AppFits(off, len),
         off > 0 => ClearBehind(cell, off),
         NEW a \in Address, a >= off, len > 0,
         SectorOf(a) = SectorOf(off + len - 1) \/ a < off + len
  PROVE  Erase(cell, AppErases(off, len))[a] = Erased
<1> DEFINE s == SectorOf(a)
<1>1. a \in Nat /\ s \in Nat /\ s * Sector <= a
  BY SectorBounds DEF Address
<1>2. CASE off = 0 \/ s * Sector >= off
  <2>1. PICK b \in Nat : off <= b /\ b < off + len /\ SectorOf(b) = s
    BY <1>1
  <2>2. b \in Address /\ Within(b, off, len)
    BY <2>1, AreaAssumption DEF AppFits, Address, Within
  <2>3. s \in AppErases(off, len)
    BY <2>1, <2>2, <1>2 DEF AppErases
  <2>4. QED
    BY <2>3 DEF Erase
<1>3. CASE off > 0 /\ s * Sector < off
  <2>1. off - 1 \in Nat /\ s * Sector <= off - 1 /\ off - 1 <= a
    BY <1>1, <1>3, SectorAssumption
  <2>2. SectorOf(a) = SectorOf(off - 1)
    BY <2>1, <1>1, SectorBetween
  <2>3. cell[a] = Erased
    BY <2>2, <1>3 DEF ClearBehind
  <2>4. QED
    BY <2>3 DEF Erase
<1>4. QED
  BY <1>1, <1>2, <1>3, SectorAssumption

\* So every cell takes what is written.
LEMMA WriteTakes ==
  ASSUME NEW p, NEW off \in Nat, NEW T, NEW data \in Seq(T), AppFits(off, Len(data)),
         off > 0 => ClearBehind(p.cell, off)
  PROVE  /\ \A i \in 1 .. Len(data) : AppCells(p, off, data)[off + i - 1] = data[i]
         /\ AppVerified(p, off, data)
<1>1. ASSUME NEW i \in 1 .. Len(data)
      PROVE  AppCells(p, off, data)[off + i - 1] = data[i]
  <2>1. off + i - 1 \in Address /\ Within(off + i - 1, off, Len(data))
    BY AreaAssumption DEF AppFits, Address, Within
  <2>2. Erase(p.cell, AppErases(off, Len(data)))[off + i - 1] = Erased
    <3>1. Len(data) \in Nat /\ Len(data) > 0 /\ off + i - 1 >= off
      OBVIOUS
    <3>2. off + i - 1 < off + Len(data)
      OBVIOUS
    <3> HIDE DEF Address
    <3>3. QED
      BY <2>1, <3>1, <3>2, WriteFindsErased
  <2>3. QED
    BY <2>1, <2>2 DEF AppCells, Program
<1>2. Cells(AppCells(p, off, data), off, Len(data)) = data
  BY <1>1 DEF Cells
<1>3. QED
  BY <1>1, <1>2 DEF AppVerified

\* What stands in front of a write stays.
LEMMA WriteKeepsBefore ==
  ASSUME NEW p, NEW off \in Nat, NEW T, NEW data \in Seq(T), AppFits(off, Len(data)),
         NEW a \in Address, a < off
  PROVE  AppCells(p, off, data)[a] = p.cell[a]
<1>1. a \in Nat /\ ~Within(a, off, Len(data))
  BY DEF Address, Within
<1>2. SectorOf(a) * Sector <= a /\ SectorOf(a) \in Nat
  BY <1>1, SectorBounds
<1>3. SectorOf(a) \notin AppErases(off, Len(data))
  BY <1>1, <1>2, SectorAssumption DEF AppErases
<1>4. QED
  BY <1>1, <1>3 DEF AppCells, Program, Erase

\* And the rest of the last sector is erased behind it.
LEMMA WriteLeavesClear ==
  ASSUME NEW p, NEW off \in Nat, NEW T, NEW data \in Seq(T), AppFits(off, Len(data)),
         off > 0 => ClearBehind(p.cell, off), off + Len(data) > 0
  PROVE  ClearBehind(AppCells(p, off, data), off + Len(data))
<1> SUFFICES ASSUME NEW a \in Address, a >= off + Len(data),
                    SectorOf(a) = SectorOf(off + Len(data) - 1)
             PROVE  AppCells(p, off, data)[a] = Erased
  BY DEF ClearBehind
<1>1. ~Within(a, off, Len(data)) /\ a \in Nat
  BY DEF Within, Address
<1>2. AppCells(p, off, data)[a] = Erase(p.cell, AppErases(off, Len(data)))[a]
  BY <1>1 DEF AppCells, Program
<1>3. CASE Len(data) > 0
  <2>1. Erase(p.cell, AppErases(off, Len(data)))[a] = Erased
    BY <1>1, <1>3, WriteFindsErased
  <2>2. QED
    BY <2>1, <1>2
<1>4. CASE Len(data) = 0
  BY <1>2, <1>4 DEF ClearBehind, Erase
<1>5. QED
  BY <1>3, <1>4

\* Both together, and where the partition is said to end.
LEMMA WriteAdds ==
  ASSUME NEW p, p.used \in 0 .. Area, NEW T, NEW old \in Seq(T), NEW data \in Seq(T),
         Holds(p, old), AppFits(Len(old), Len(data))
  PROVE  Holds(AppWrite(p, Len(old), data), old \o data)
<1> DEFINE off == Len(old)
           q == AppWrite(p, off, data)
           new == old \o data
<1>1. off \in Nat /\ Len(data) \in Nat /\ new \in Seq(T) /\ Len(new) = off + Len(data)
  OBVIOUS
<1>0. /\ off > 0 => ClearBehind(p.cell, off)
      /\ Cells(p.cell, 0, off) = old /\ p.used >= off
  BY DEF Holds
<1>2. q.cell = AppCells(p, off, data) /\ AppVerified(p, off, data)
  BY <1>0, <1>1, WriteTakes DEF AppWrite
<1>3. ASSUME NEW i \in 1 .. Len(new)
      PROVE  q.cell[i - 1] = new[i]
  <2>1. CASE i <= off
    <3>1. i - 1 \in Address /\ i - 1 < off
      BY <1>1, <2>1, AreaAssumption DEF Address, AppFits
    <3>2. q.cell[i - 1] = p.cell[i - 1]
      <4>1. AppCells(p, off, data)[i - 1] = p.cell[i - 1]
        BY <1>1, <3>1, WriteKeepsBefore
      <4>2. QED
        BY <4>1, <1>2
    <3>3. p.cell[i - 1] = Cells(p.cell, 0, off)[i]
      BY <2>1, <1>1 DEF Cells
    <3>4. QED
      BY <1>0, <3>2, <3>3, <2>1, <1>1
  <2>2. CASE i > off
    <3>1. i - off \in 1 .. Len(data) /\ off + (i - off) - 1 = i - 1
      BY <2>2, <1>1
    <3>2. AppCells(p, off, data)[off + (i - off) - 1] = data[i - off]
      BY <1>0, <3>1, <1>1, WriteTakes
    <3>3. new[i] = data[i - off]
      BY <2>2, <3>1, <1>1
    <3>4. QED
      BY <3>1, <3>2, <3>3, <1>2
  <2>3. QED
    BY <2>1, <2>2, <1>1
<1>4. Cells(q.cell, 0, Len(new)) = new
  <2> HIDE DEF q, new
  <2>1. Cells(q.cell, 0, Len(new)) = [i \in 1 .. Len(new) |-> new[i]]
    BY <1>3 DEF Cells
  <2>2. QED
    BY <2>1, <1>1
<1>5. q.used >= Len(new)
  BY <1>0, <1>1, <1>2, AreaAssumption DEF AppWrite
<1>6. Len(new) > 0 => ClearBehind(q.cell, Len(new))
  BY <1>0, <1>1, <1>2, WriteLeavesClear
<1>7. QED
  BY <1>4, <1>5, <1>6 DEF Holds

\* A write that fits leaves a partition.
LEMMA WriteTyped ==
  ASSUME NEW p, p.used \in 0 .. Area, NEW off \in Nat, NEW T, NEW data \in Seq(T),
         AppFits(off, Len(data))
  PROVE  /\ DOMAIN AppWrite(p, off, data).cell = Address
         /\ AppWrite(p, off, data).used \in 0 .. Area
  BY AreaAssumption DEF AppWrite, AppCells, Program, AppFits

-----------------------------------------------------------------------------
(* What arrives                                                            *)

LEMMA UnitIs ==
  ASSUME NEW a \in Nat, NEW name \in Sections, NEW i \in Nat
  PROVE  <<a, name, i>> \in Unit
  BY DEF Unit

LEMMA FunctionIsSequence ==
  ASSUME NEW T, NEW n \in Nat, NEW f \in [1 .. n -> T]
  PROVE  f \in Seq(T) /\ Len(f) = n
<1>1. f \in Seq(T)
  OBVIOUS
<1>2. Len(f) = n
  BY <1>1
<1>3. QED
  BY <1>1, <1>2

LEMMA SectionIs ==
  ASSUME up \in Nat, NEW name \in Sections, NEW n \in Nat
  PROVE  /\ Section(name, n) \in Seq(Unit)
         /\ Len(Section(name, n)) = n
         /\ \A i \in 1 .. n : Section(name, n)[i] = <<up, name, i>>
<1>1. ASSUME NEW i \in 1 .. n PROVE <<up, name, i>> \in Unit
  BY UnitIs
<1>2. Section(name, n) \in [1 .. n -> Unit]
  BY <1>1 DEF Section
<1>3. Section(name, n) \in Seq(Unit) /\ Len(Section(name, n)) = n
  BY <1>2, FunctionIsSequence
<1>4. QED
  BY <1>3 DEF Section

LEMMA PackageIs ==
  ASSUME TypeOK
  PROVE  /\ up \in Nat
         /\ pkg.kind \in STRING /\ pkg.loader \in Nat /\ pkg.fw1 \in Nat
         /\ pkg.fw2 \in Nat /\ pkg.web \in Nat /\ pkg.boundary \in Nat
         /\ HdrLen(pkg.kind) \in Nat /\ HdrLen(Longest) \in Nat
         /\ pkg.loader > 0 => pkg.kind = "ldr"
  BY PackageAssumption, UploadsAssumption DEF TypeOK

LEMMA LengthNat ==
  ASSUME TypeOK
  PROVE  Length(pkg) \in Nat
  BY PackageIs DEF Length

\* Two sequences in a row.
LEMMA Joined ==
  ASSUME NEW T, NEW s \in Seq(T), NEW t \in Seq(T)
  PROVE  /\ s \o t \in Seq(T)
         /\ Len(s \o t) = Len(s) + Len(t)
         /\ \A i \in 1 .. Len(s) : (s \o t)[i] = s[i]
         /\ \A i \in 1 .. Len(t) : (s \o t)[Len(s) + i] = t[i]
  OBVIOUS

\* A sequence in front leaves what is behind it.
LEMMA Shifted ==
  ASSUME NEW T, NEW r \in Seq(T), NEW s \in Seq(T), NEW t \in Seq(T), NEW k \in Nat,
         \A i \in 1 .. Len(t) : k + i \in 1 .. Len(s) /\ s[k + i] = t[i]
  PROVE  \A i \in 1 .. Len(t) : k + i \in 1 .. Len(s \o r) /\ (s \o r)[k + i] = t[i]
  BY Joined

\* Where each section stands in the stream.
LEMMA StreamIs ==
  ASSUME TypeOK
  PROVE  /\ Stream \in Seq(Unit)
         /\ Len(Stream) = Length(pkg)
         /\ \A i \in 1 .. pkg.loader :
              Stream[HdrLen(pkg.kind) + i] = Section("loader", pkg.loader)[i]
         /\ \A i \in 1 .. pkg.fw1 :
              Stream[HdrLen(pkg.kind) + pkg.loader + i] = Section("fw1", pkg.fw1)[i]
         /\ \A i \in 1 .. pkg.fw2 :
              Stream[HdrLen(pkg.kind) + pkg.loader + pkg.fw1 + i]
                = Section("fw2", pkg.fw2)[i]
         /\ \A i \in 1 .. pkg.web :
              Stream[HdrLen(pkg.kind) + pkg.loader + pkg.fw1 + pkg.fw2 + i]
                = Section("web", pkg.web)[i]
<1>1. /\ up \in Nat /\ HdrLen(pkg.kind) \in Nat /\ pkg.loader \in Nat
      /\ pkg.fw1 \in Nat /\ pkg.fw2 \in Nat /\ pkg.web \in Nat /\ pkg.boundary \in Nat
  BY PackageIs
<1>2. PICK S1 \in Seq(Unit) : S1 = Section("hdr", HdrLen(pkg.kind)) /\ Len(S1) = HdrLen(pkg.kind)
  BY <1>1, SectionIs DEF Sections
<1>3. PICK S2 \in Seq(Unit) : S2 = Section("loader", pkg.loader) /\ Len(S2) = pkg.loader
  BY <1>1, SectionIs DEF Sections
<1>4. PICK S3 \in Seq(Unit) : S3 = Section("fw1", pkg.fw1) /\ Len(S3) = pkg.fw1
  BY <1>1, SectionIs DEF Sections
<1>5. PICK S4 \in Seq(Unit) : S4 = Section("fw2", pkg.fw2) /\ Len(S4) = pkg.fw2
  BY <1>1, SectionIs DEF Sections
<1>6. PICK S5 \in Seq(Unit) : S5 = Section("web", pkg.web) /\ Len(S5) = pkg.web
  BY <1>1, SectionIs DEF Sections
<1>7. PICK S6 \in Seq(Unit) : S6 = Section("boundary", pkg.boundary) /\ Len(S6) = pkg.boundary
  BY <1>1, SectionIs DEF Sections
<1> DEFINE T2 == S1 \o S2
           T3 == T2 \o S3
           T4 == T3 \o S4
           T5 == T4 \o S5
           T6 == T5 \o S6
<1>8. T2 \in Seq(Unit)
  OBVIOUS
<1>9. Len(T2) = Len(S1) + Len(S2)
  OBVIOUS
<1>10. \A i \in 1 .. Len(S2) : Len(S1) + i \in 1 .. Len(T2) /\ T2[Len(S1) + i] = S2[i]
  OBVIOUS
<1> HIDE DEF T2
<1>11. Len(T2) \in Nat
  BY <1>8
<1>12. T3 \in Seq(Unit)
  BY <1>8
<1>13. Len(T3) = Len(T2) + Len(S3)
  BY <1>8
<1>14. \A i \in 1 .. Len(S2) : Len(S1) + i \in 1 .. Len(T3) /\ T3[Len(S1) + i] = S2[i]
  BY <1>8, <1>10, Shifted
<1>15. \A i \in 1 .. Len(S3) : Len(T2) + i \in 1 .. Len(T3) /\ T3[Len(T2) + i] = S3[i]
  BY <1>8
<1> HIDE DEF T3
<1>16. Len(T3) \in Nat
  BY <1>12
<1>17. T4 \in Seq(Unit)
  BY <1>12
<1>18. Len(T4) = Len(T3) + Len(S4)
  BY <1>12
<1>19. \A i \in 1 .. Len(S2) : Len(S1) + i \in 1 .. Len(T4) /\ T4[Len(S1) + i] = S2[i]
  BY <1>12, <1>14, Shifted
<1>20. \A i \in 1 .. Len(S3) : Len(T2) + i \in 1 .. Len(T4) /\ T4[Len(T2) + i] = S3[i]
  BY <1>12, <1>15, <1>11, Shifted
<1>21. \A i \in 1 .. Len(S4) : Len(T3) + i \in 1 .. Len(T4) /\ T4[Len(T3) + i] = S4[i]
  BY <1>12
<1> HIDE DEF T4
<1>22. Len(T4) \in Nat
  BY <1>17
<1>23. T5 \in Seq(Unit)
  BY <1>17
<1>24. Len(T5) = Len(T4) + Len(S5)
  BY <1>17
<1>25. \A i \in 1 .. Len(S2) : Len(S1) + i \in 1 .. Len(T5) /\ T5[Len(S1) + i] = S2[i]
  BY <1>17, <1>19, Shifted
<1>26. \A i \in 1 .. Len(S3) : Len(T2) + i \in 1 .. Len(T5) /\ T5[Len(T2) + i] = S3[i]
  BY <1>17, <1>20, <1>11, Shifted
<1>27. \A i \in 1 .. Len(S4) : Len(T3) + i \in 1 .. Len(T5) /\ T5[Len(T3) + i] = S4[i]
  BY <1>17, <1>21, <1>16, Shifted
<1>28. \A i \in 1 .. Len(S5) : Len(T4) + i \in 1 .. Len(T5) /\ T5[Len(T4) + i] = S5[i]
  BY <1>17
<1> HIDE DEF T5
<1>29. Len(T5) \in Nat
  BY <1>23
<1>30. T6 \in Seq(Unit)
  BY <1>23
<1>31. Len(T6) = Len(T5) + Len(S6)
  BY <1>23
<1>32. \A i \in 1 .. Len(S2) : Len(S1) + i \in 1 .. Len(T6) /\ T6[Len(S1) + i] = S2[i]
  BY <1>23, <1>25, Shifted
<1>33. \A i \in 1 .. Len(S3) : Len(T2) + i \in 1 .. Len(T6) /\ T6[Len(T2) + i] = S3[i]
  BY <1>23, <1>26, <1>11, Shifted
<1>34. \A i \in 1 .. Len(S4) : Len(T3) + i \in 1 .. Len(T6) /\ T6[Len(T3) + i] = S4[i]
  BY <1>23, <1>27, <1>16, Shifted
<1>35. \A i \in 1 .. Len(S5) : Len(T4) + i \in 1 .. Len(T6) /\ T6[Len(T4) + i] = S5[i]
  BY <1>23, <1>28, <1>22, Shifted
<1>36. Stream = T6
  BY <1>2, <1>3, <1>4, <1>5, <1>6, <1>7 DEF Stream, T6, T5, T4, T3, T2
<1> HIDE DEF T6
<1>37. /\ Len(T2) = HdrLen(pkg.kind) + pkg.loader
       /\ Len(T3) = HdrLen(pkg.kind) + pkg.loader + pkg.fw1
       /\ Len(T4) = HdrLen(pkg.kind) + pkg.loader + pkg.fw1 + pkg.fw2
       /\ Len(T6) = Length(pkg)
  BY <1>1, <1>2, <1>3, <1>4, <1>5, <1>6, <1>7, <1>8, <1>9, <1>13, <1>18, <1>24, <1>31
     DEF Length
<1>38. /\ Stream \in Seq(Unit)
       /\ Len(Stream) = Length(pkg)
  BY <1>30, <1>36, <1>37
<1>39. \A i \in 1 .. pkg.loader :
         Stream[HdrLen(pkg.kind) + i] = Section("loader", pkg.loader)[i]
  BY ONLY <1>2, <1>3, <1>32, <1>36, Zenon
<1>40. \A i \in 1 .. pkg.fw1 :
         Stream[HdrLen(pkg.kind) + pkg.loader + i] = Section("fw1", pkg.fw1)[i]
  BY ONLY <1>4, <1>33, <1>36, <1>37, Zenon
<1>41. \A i \in 1 .. pkg.fw2 :
         Stream[HdrLen(pkg.kind) + pkg.loader + pkg.fw1 + i] = Section("fw2", pkg.fw2)[i]
  BY ONLY <1>5, <1>34, <1>36, <1>37, Zenon
<1>42. \A i \in 1 .. pkg.web :
         Stream[HdrLen(pkg.kind) + pkg.loader + pkg.fw1 + pkg.fw2 + i]
           = Section("web", pkg.web)[i]
  BY ONLY <1>6, <1>35, <1>36, <1>37, Zenon
<1>43. QED
  BY <1>38, <1>39, <1>40, <1>41, <1>42

\* A piece of a sequence.
LEMMA Piece ==
  ASSUME NEW T, NEW s \in Seq(T), NEW g \in Nat, NEW n \in Nat, g + n <= Len(s)
  PROVE  /\ SubSeq(s, g + 1, g + n) \in Seq(T)
         /\ Len(SubSeq(s, g + 1, g + n)) = n
         /\ \A i \in 1 .. n : SubSeq(s, g + 1, g + n)[i] = s[g + i]
<1>1. SubSeq(s, g + 1, g + n) \in Seq(T)
  OBVIOUS
<1>2. Len(SubSeq(s, g + 1, g + n)) = n
  OBVIOUS
<1>3. \A i \in 1 .. n : SubSeq(s, g + 1, g + n)[i] = s[g + i]
  OBVIOUS
<1>4. QED
  BY <1>1, <1>2, <1>3

\* What a turn of the loop looks at: the next units of the stream.
LEMMA ChunkIs ==
  ASSUME TypeOK, got + seg <= Length(pkg), NEW n \in Nat
  PROVE  /\ AtMost(n) \in Nat /\ AtMost(n) <= n /\ AtMost(n) <= seg
         /\ Chunk(n) \in Seq(Unit)
         /\ Len(Chunk(n)) = AtMost(n)
         /\ \A i \in 1 .. AtMost(n) : Chunk(n)[i] = Stream[got + i]
<1>1. got \in Nat /\ seg \in Nat
  BY DEF TypeOK
<1>2. AtMost(n) \in Nat /\ AtMost(n) <= n /\ AtMost(n) <= seg
  BY <1>1 DEF AtMost
<1>3. Stream \in Seq(Unit) /\ Len(Stream) = Length(pkg)
  BY StreamIs
<1>4. got + AtMost(n) <= Len(Stream)
  BY <1>1, <1>2, <1>3, LengthNat
<1>5. QED
  BY ONLY <1>1, <1>2, <1>3, <1>4, Piece, ZenonT(30) DEF Chunk

-----------------------------------------------------------------------------
(* The context and the flash                                               *)

Writes == TypeOK /\ Counted /\ Placed

\* Partitions stay partitions, whatever else happens.
PartitionsTyped ==
  /\ DOMAIN app1.cell = Address /\ app1.used \in 0 .. Area
  /\ DOMAIN web.cell = Address /\ web.used \in 0 .. Area

LEMMA HoldsNothing ==
  ASSUME NEW p, p.used \in 0 .. Area
  PROVE  Holds(p, <<>>)
<1>1. Cells(p.cell, 0, 0) = <<>>
  BY DEF Cells
<1>2. QED
  BY <1>1, AreaAssumption DEF Holds

\* A context that has taken nothing counts nothing as written.
LEMMA StartOver ==
  ASSUME PartitionsTyped', active' \in {0, 1}, pkg' \in Package, up' \in 0 .. Uploads,
         got' \in Nat, seg' \in Nat, got' + seg' <= Length(pkg'),
         pc' \in {"idle", "recv", "feed", "finish", "reboot"},
         st' \in Context, st'.phase \in {"off", "hdr"},
         st'.fw = <<>>, st'.webBody = <<>>, st'.loaderBuf = <<>>,
         st'.phase = "hdr" => got' = st'.hdr /\ st'.hdr <= st'.need
  PROVE  Writes'
<1>1. TypeOK'
  BY DEF TypeOK, PartitionsTyped
<1>2. Counted'
  BY DEF Counted, Context
<1>3. Holds(app1', st'.fw)
  BY HoldsNothing DEF PartitionsTyped
<1>4. Placed'
  BY <1>3 DEF Placed
<1>5. QED
  BY <1>1, <1>2, <1>4 DEF Writes

LEMMA ResetIs ==
  /\ Reset \in Context
  /\ Reset.phase = "off" /\ Reset.fw = <<>> /\ Reset.webBody = <<>>
  /\ Reset.loaderBuf = <<>> /\ Reset.hdr = 0 /\ Reset.need = 0
<1>1. <<>> \in Seq(Unit)
  OBVIOUS
<1>2. QED
  BY <1>1 DEF Reset, Context, Phases

LEMMA WritesInit == Init => Writes
<1> SUFFICES ASSUME Init PROVE Writes
  OBVIOUS
<1>1. TypeOK
  BY ResetIs, UploadsAssumption, AreaAssumption DEF Init, TypeOK, Blank
<1>2. Length(pkg) \in Nat
  BY <1>1, LengthNat
<1>3. Counted
  BY <1>2, ResetIs DEF Init, Counted, Context
<1>4. Holds(app1, <<>>)
  BY <1>1, HoldsNothing DEF TypeOK
<1>5. Placed
  BY <1>4, ResetIs DEF Init, Placed
<1>6. QED
  BY <1>1, <1>3, <1>5 DEF Writes

\* After an error.
LEMMA FailWrites ==
  ASSUME Writes, Fail, PartitionsTyped'
  PROVE  Writes'
<1>1. got \in Nat /\ seg \in Nat /\ got + seg <= Length(pkg) /\ Length(pkg) \in Nat
  BY LengthNat DEF Writes, TypeOK, Counted
<1>2. /\ st' = Reset /\ seg' = 0 /\ got' = got /\ pkg' = pkg /\ up' = up
      /\ active' = active /\ pc' = "idle"
  BY DEF Fail
<1>3. Length(pkg') = Length(pkg)
  BY <1>2
<1>4. active \in {0, 1} /\ pkg \in Package /\ up \in 0 .. Uploads
  BY DEF Writes, TypeOK
<1>5. QED
  BY <1>1, <1>2, <1>3, <1>4, ResetIs, StartOver

\* What a turn takes leaves the stream behind it.
LEMMA ConsumeIs ==
  ASSUME Writes, NEW n \in Nat, Consume(n), pc = "feed"
  PROVE  /\ got' = got + AtMost(n) /\ seg' = seg - AtMost(n)
         /\ got' \in Nat /\ seg' \in Nat /\ got' + seg' <= Length(pkg')
         /\ active' = active /\ pkg' = pkg /\ up' = up /\ ota' = ota /\ pc' = pc
         /\ active' \in {0, 1} /\ pkg' \in Package /\ up' \in 0 .. Uploads
         /\ pc' \in {"idle", "recv", "feed", "finish", "reboot"}
<1>1. got \in Nat /\ seg \in Nat /\ got + seg <= Length(pkg) /\ Length(pkg) \in Nat
  BY LengthNat DEF Writes, TypeOK, Counted
<1>2. AtMost(n) \in Nat /\ AtMost(n) <= seg
  BY <1>1 DEF AtMost
<1>3. /\ got' = got + AtMost(n) /\ seg' = seg - AtMost(n)
      /\ active' = active /\ pkg' = pkg /\ up' = up /\ ota' = ota /\ pc' = pc
  BY DEF Consume
<1>4. Length(pkg') = Length(pkg)
  BY <1>3
<1>5. active \in {0, 1} /\ pkg \in Package /\ up \in 0 .. Uploads
  BY DEF Writes, TypeOK
<1>6. QED
  BY <1>1, <1>2, <1>3, <1>4, <1>5

\* What the context says of itself.
Tally ==
  /\ Len(st.fw) <= st.fwLen
  /\ Len(st.webBody) <= st.webLen
  /\ Len(st.loaderBuf) <= st.loaderLen
  /\ st.phase \in {"off", "hdr"} => st.loaderBuf = <<>>
  /\ st.phase \in {"off", "hdr", "loader"} => st.fw = <<>>
  /\ st.phase \notin {"web", "drain"} => st.webBody = <<>>

LEMMA Took ==
  ASSUME Writes, NEW n \in Nat, Consume(n), pc = "feed",
         PartitionsTyped', st' \in Context, Tally', Placed',
         st'.phase = "hdr" => got' = st'.hdr /\ st'.hdr <= st'.need
  PROVE  Writes'
<1>1. TypeOK'
  BY ConsumeIs DEF TypeOK, PartitionsTyped
<1>2. Counted'
  BY ConsumeIs DEF Counted, Tally
<1>3. QED
  BY <1>1, <1>2 DEF Writes

LEMMA LeftIs ==
  ASSUME NEW len \in Nat, NEW done \in Nat, done <= len
  PROVE  len - done \in Nat
  OBVIOUS

LEMMA FieldsIs ==
  ASSUME Writes
  PROVE  /\ st.phase \in Phases
         /\ st.hdr \in Nat /\ st.need \in Nat /\ st.skip \in Nat /\ st.skipAfter \in Nat
         /\ st.fwLen \in Nat /\ st.webLen \in Nat /\ st.loaderLen \in Nat
         /\ st.loaderBuf \in Seq(Unit) /\ st.fw \in Seq(Unit) /\ st.webBody \in Seq(Unit)
         /\ FwLeft \in Nat /\ WebLeft \in Nat /\ LoaderLeft \in Nat
         /\ Tally /\ PartitionsTyped
<1>1. st \in Context /\ Counted
  BY DEF Writes, TypeOK
<1>2. /\ st.phase \in Phases
      /\ st.hdr \in Nat /\ st.need \in Nat /\ st.skip \in Nat /\ st.skipAfter \in Nat
      /\ st.fwLen \in Nat /\ st.webLen \in Nat /\ st.loaderLen \in Nat
      /\ st.loaderBuf \in Seq(Unit) /\ st.fw \in Seq(Unit) /\ st.webBody \in Seq(Unit)
  BY <1>1 DEF Context
<1>3. Tally
  BY <1>1 DEF Counted, Tally
<1>4. FwLeft \in Nat /\ WebLeft \in Nat /\ LoaderLeft \in Nat
  <2>1. Len(st.fw) \in Nat /\ Len(st.webBody) \in Nat /\ Len(st.loaderBuf) \in Nat
    BY <1>2
  <2>2. /\ Len(st.fw) <= st.fwLen /\ Len(st.webBody) <= st.webLen
        /\ Len(st.loaderBuf) <= st.loaderLen
    BY <1>3 DEF Tally
  <2>3. st.fwLen \in Nat /\ st.webLen \in Nat /\ st.loaderLen \in Nat
    BY <1>2
  <2>4. QED
    BY ONLY <2>1, <2>2, <2>3, LeftIs DEF FwLeft, WebLeft, LoaderLeft
<1>5. PartitionsTyped
  BY DEF Writes, TypeOK, PartitionsTyped
<1>6. QED
  BY <1>2, <1>3, <1>4, <1>5

LEMMA PlanIs ==
  ASSUME Writes
  PROVE  /\ ParseHeader \in Context /\ ParseHeader.phase \in {"loader", "skip", "fw"}
         /\ ParseHeader.fw = <<>> /\ ParseHeader.webBody = <<>>
         /\ ParseHeader.loaderBuf = <<>>
<1>1. /\ pkg.loader \in Nat /\ pkg.fw1 \in Nat /\ pkg.fw2 \in Nat /\ pkg.web \in Nat
  BY PackageIs DEF Writes
<1>2. st.hdr \in Nat /\ st.need \in Nat
  BY FieldsIs
<1>3. /\ Plan \in Context /\ Plan.fw = <<>> /\ Plan.webBody = <<>>
      /\ Plan.loaderBuf = <<>>
  BY <1>1, <1>2, ResetIs DEF Plan, Context
<1> HIDE DEF Plan
<1>4. QED
  BY <1>3 DEF ParseHeader, AfterLoader, Context, Phases

LEMMA HeaderWrites ==
  ASSUME Writes, Header
  PROVE  Writes'
<1> DEFINE n == st.need - st.hdr
           hdr == st.hdr + AtMost(n)
<1>1. st.phase = "hdr" /\ pc = "feed" /\ app1' = app1 /\ web' = web
  BY DEF Header, Turn
<1>2. /\ st.hdr \in Nat /\ st.need \in Nat /\ st.hdr <= st.need /\ got = st.hdr
      /\ st.fw = <<>> /\ st.webBody = <<>> /\ st.loaderBuf = <<>>
  BY <1>1, FieldsIs DEF Writes, Counted
<1>3. n \in Nat /\ seg \in Nat /\ AtMost(n) \in Nat /\ AtMost(n) <= n
  BY <1>2 DEF AtMost, Writes, TypeOK
<1>4. PartitionsTyped'
  BY <1>1, FieldsIs DEF PartitionsTyped
<1>5. st \in Context
  BY DEF Writes, TypeOK
<1>6. CASE st' = [st EXCEPT !.hdr = hdr] /\ Consume(n)
  <2>1. /\ st' \in Context /\ st'.phase = "hdr" /\ st'.hdr = hdr /\ st'.need = st.need
        /\ st'.fw = <<>> /\ st'.webBody = <<>> /\ st'.loaderBuf = <<>>
    <3>1. hdr \in Nat
      BY <1>2, <1>3
    <3> HIDE DEF hdr
    <3>2. QED
      BY <3>1, <1>1, <1>2, <1>5, <1>6 DEF Context
  <2>2. got' = hdr
    BY <1>1, <1>2, <1>3, <1>6, ConsumeIs
  <2>3. QED
    BY <1>1, <1>2, <1>3, <1>4, <1>6, <2>1, <2>2, ConsumeIs, StartOver
<1>7. CASE st' = [ParseHeader EXCEPT !.hdr = hdr] /\ Consume(n)
  <2>1. /\ st' \in Context /\ st'.phase \in {"loader", "skip", "fw"}
        /\ st'.fw = <<>> /\ st'.webBody = <<>> /\ st'.loaderBuf = <<>>
    <3> HIDE DEF hdr
    <3>1. hdr \in Nat
      BY <1>2, <1>3 DEF hdr
    <3>2. QED
      BY <3>1, <1>7, PlanIs DEF Context
  <2>2. Tally'
    BY <2>1 DEF Tally, Context
  <2>3. Placed'
    BY <2>1, <1>4, HoldsNothing DEF Placed, PartitionsTyped
  <2>4. QED
    BY <2>1, <2>2, <2>3, <1>1, <1>3, <1>4, <1>7, Took
<1>8. CASE Fail
  BY <1>4, <1>8, FailWrites
<1>9. QED
  BY <1>6, <1>7, <1>8 DEF Header

\* A section grows by what a turn took of it.
LEMMA Grows ==
  ASSUME Writes, pc = "feed", NEW old \in Seq(Unit), NEW n \in Nat
  PROVE  /\ old \o Chunk(n) \in Seq(Unit)
         /\ Len(old \o Chunk(n)) = Len(old) + AtMost(n)
         /\ Len(old \o Chunk(n)) <= Len(old) + n
         /\ Len(Chunk(n)) = AtMost(n) /\ Chunk(n) \in Seq(Unit) /\ AtMost(n) \in Nat
<1>1. /\ Chunk(n) \in Seq(Unit) /\ Len(Chunk(n)) = AtMost(n)
      /\ AtMost(n) \in Nat /\ AtMost(n) <= n
  BY ChunkIs DEF Writes, Counted
<1>2. old \o Chunk(n) \in Seq(Unit) /\ Len(old \o Chunk(n)) = Len(old) + Len(Chunk(n))
  BY <1>1, Joined
<1>3. Len(old) \in Nat
  OBVIOUS
<1> HIDE DEF Chunk, AtMost
<1>4. QED
  BY <1>1, <1>2, <1>3

LEMMA LoaderWrites ==
  ASSUME Writes, Loader
  PROVE  Writes'
<1> DEFINE buf == st.loaderBuf \o Chunk(LoaderLeft)
           s == [st EXCEPT !.loaderBuf = buf]
<1>1. st.phase = "loader" /\ pc = "feed" /\ app1' = app1 /\ web' = web
  BY DEF Loader, Turn
<1>2. st \in Context /\ st.fw = <<>> /\ st.webBody = <<>>
  BY <1>1, FieldsIs DEF Writes, TypeOK, Tally
<1>3. LoaderLeft \in Nat /\ st.loaderLen \in Nat /\ Len(st.loaderBuf) \in Nat
  BY FieldsIs
<1>4. buf \in Seq(Unit) /\ Len(buf) <= st.loaderLen
  <2>1. st.loaderBuf \in Seq(Unit)
    BY FieldsIs
  <2>2. Len(buf) <= Len(st.loaderBuf) + LoaderLeft /\ buf \in Seq(Unit)
    BY <1>1, <1>3, <2>1, Grows
  <2>3. Len(st.loaderBuf) + LoaderLeft = st.loaderLen
    BY <1>3 DEF LoaderLeft
  <2>4. QED
    BY ONLY <2>2, <2>3, Zenon
<1>5. PartitionsTyped'
  BY <1>1, FieldsIs DEF PartitionsTyped
<1> HIDE DEF buf
<1>6. ASSUME st' = s \/ st' = AfterLoader(s), Consume(LoaderLeft)
      PROVE  Writes'
  <2>1. /\ s \in Context /\ s.fw = <<>> /\ s.webBody = <<>> /\ s.phase = "loader"
        /\ s.loaderBuf = buf /\ s.loaderLen = st.loaderLen
    BY <1>1, <1>2, <1>4 DEF Context
  <2> HIDE DEF s
  <2>2. /\ st' \in Context /\ st'.fw = <<>> /\ st'.webBody = <<>>
        /\ st'.phase \in {"loader", "skip", "fw"}
        /\ st'.loaderBuf = buf /\ st'.loaderLen = st.loaderLen
    BY <2>1, <1>6 DEF AfterLoader, Context, Phases
  <2>3. Tally'
    BY <2>2, <1>4 DEF Tally, Context
  <2>4. Placed'
    BY <2>2, <1>5, HoldsNothing DEF Placed, PartitionsTyped
  <2>5. QED
    BY <1>1, <1>3, <1>5, <1>6, <2>2, <2>3, <2>4, Took
<1>7. CASE Fail
  BY <1>5, <1>7, FailWrites
<1>8. QED
  BY <1>6, <1>7 DEF Loader, buf

\* The placeholder opens the web section.
LEMMA ToWebIs ==
  ASSUME PartitionsTyped, NEW s \in Context, s.webBody = <<>>, ToWeb(s)
  PROVE  /\ st' \in Context /\ st'.phase \in {"web", "drain"}
         /\ st'.fw = s.fw /\ st'.webBody = <<>> /\ st'.loaderBuf = s.loaderBuf
         /\ st'.fwLen = s.fwLen /\ st'.webLen = s.webLen /\ st'.loaderLen = s.loaderLen
         /\ st'.need = s.need
         /\ st'.phase = "web" => s.webLen > 0
         /\ st'.phase = "drain" => s.webLen = 0
         /\ DOMAIN web'.cell = Address /\ web'.used \in 0 .. Area
         /\ st'.phase = "web" => Holds(web', <<Placeholder>> \o st'.webBody)
<1> DEFINE T == {Placeholder}
           data == <<Placeholder>>
<1>1. s.webLen \in Nat /\ Len(s.webBody) = 0
  BY DEF Context
<1>2. CASE s.webLen > 0
  <2>1. st' = [s EXCEPT !.phase = "web"] /\ web' = AppWrite(web, 0, data)
    BY <1>1, <1>2 DEF ToWeb
  <2>2. data \in Seq(T) /\ Len(data) = 1
    OBVIOUS
  <2>3. <<>> \in Seq(T) /\ Len(<<>>) = 0
    OBVIOUS
  <2>4. AppFits(0, Len(data))
    BY <2>2, AreaAssumption DEF AppFits
  <2>5. web.used \in 0 .. Area
    BY DEF PartitionsTyped
  <2>6. Holds(web, <<>>)
    BY <2>5, HoldsNothing
  <2> HIDE DEF T, data
  <2>7. Holds(web', <<>> \o data)
    BY <2>1, <2>2, <2>3, <2>4, <2>5, <2>6, WriteAdds
  <2>8. <<>> \o data = data /\ data \o <<>> = data
    BY <2>2
  <2>9. DOMAIN web'.cell = Address /\ web'.used \in 0 .. Area
    BY <2>1, <2>2, <2>4, <2>5, WriteTyped
  <2>10. /\ st' \in Context /\ st'.phase = "web"
         /\ st'.fw = s.fw /\ st'.webBody = <<>> /\ st'.loaderBuf = s.loaderBuf
         /\ st'.fwLen = s.fwLen /\ st'.webLen = s.webLen /\ st'.loaderLen = s.loaderLen
         /\ st'.need = s.need
    BY <2>1 DEF Context, Phases
  <2>11. Holds(web', <<Placeholder>> \o st'.webBody)
    BY <2>7, <2>8, <2>10 DEF data
  <2>12. QED
    BY <1>2, <2>9, <2>10, <2>11
<1>3. CASE ~(s.webLen > 0)
  <2>1. st' = [s EXCEPT !.phase = "drain"] /\ web' = web
    BY <1>1, <1>3 DEF ToWeb
  <2>2. /\ st' \in Context /\ st'.phase = "drain"
        /\ st'.fw = s.fw /\ st'.webBody = s.webBody /\ st'.loaderBuf = s.loaderBuf
        /\ st'.fwLen = s.fwLen /\ st'.webLen = s.webLen /\ st'.loaderLen = s.loaderLen
        /\ st'.need = s.need
    BY <2>1 DEF Context, Phases
  <2>3. QED
    BY <1>1, <1>3, <2>1, <2>2 DEF PartitionsTyped
<1>4. QED
  BY <1>2, <1>3

LEMMA SkipWrites ==
  ASSUME Writes, Skip
  PROVE  Writes'
<1> DEFINE s == [st EXCEPT !.skip = st.skip - AtMost(st.skip)]
<1>1. st.phase = "skip" /\ pc = "feed" /\ app1' = app1 /\ Consume(st.skip)
  BY DEF Skip, Turn
<1>2. st \in Context /\ st.webBody = <<>> /\ st.skip \in Nat /\ PartitionsTyped /\ Tally
  BY <1>1, FieldsIs DEF Writes, TypeOK, Tally
<1>3. Holds(app1, st.fw)
  BY DEF Writes, Placed
<1>4. /\ s \in Context /\ s.fw = st.fw /\ s.webBody = <<>> /\ s.loaderBuf = st.loaderBuf
      /\ s.fwLen = st.fwLen /\ s.webLen = st.webLen /\ s.loaderLen = st.loaderLen
      /\ s.phase = "skip"
  <2>1. st.skip - AtMost(st.skip) \in Nat
    BY <1>2 DEF AtMost, Writes, TypeOK
  <2>2. QED
    BY <1>1, <1>2, <2>1 DEF Context
<1> HIDE DEF s
<1>5. ASSUME st' = s \/ st' = [s EXCEPT !.phase = "fw"], web' = web
      PROVE  Writes'
  <2>1. /\ st' \in Context /\ st'.fw = st.fw /\ st'.webBody = <<>>
        /\ st'.loaderBuf = st.loaderBuf /\ st'.fwLen = st.fwLen /\ st'.webLen = st.webLen
        /\ st'.loaderLen = st.loaderLen /\ st'.phase \in {"skip", "fw"}
    BY <1>4, <1>5 DEF Context, Phases
  <2>2. Tally'
    BY <1>2, <2>1 DEF Tally
  <2>3. Placed'
    BY <1>1, <1>3, <2>1 DEF Placed
  <2>4. PartitionsTyped'
    BY <1>1, <1>2, <1>5 DEF PartitionsTyped
  <2>5. QED
    BY <1>1, <1>2, <2>1, <2>2, <2>3, <2>4, Took
<1>6. CASE ToWeb(s)
  <2>1. /\ st' \in Context /\ st'.phase \in {"web", "drain"}
        /\ st'.fw = st.fw /\ st'.webBody = <<>> /\ st'.loaderBuf = st.loaderBuf
        /\ st'.fwLen = st.fwLen /\ st'.webLen = st.webLen
        /\ st'.loaderLen = st.loaderLen
        /\ DOMAIN web'.cell = Address /\ web'.used \in 0 .. Area
        /\ st'.phase = "web" => Holds(web', <<Placeholder>> \o st'.webBody)
    BY <1>2, <1>4, <1>6, ToWebIs
  <2>2. Tally'
    BY <1>2, <2>1 DEF Tally, Context
  <2>3. Placed'
    BY <1>1, <1>3, <2>1 DEF Placed
  <2>4. PartitionsTyped'
    BY <1>1, <1>2, <2>1 DEF PartitionsTyped
  <2>5. QED
    BY <1>1, <1>2, <2>1, <2>2, <2>3, <2>4, Took
<1>7. QED
  BY <1>5, <1>6 DEF Skip, s

\* What a turn writes of a section stands behind what stood there, whether
\* or not it is the end of it.
LEMMA FwGrows ==
  ASSUME Writes, pc = "feed", AppFits(Len(st.fw), Len(Chunk(FwLeft)))
  PROVE  /\ Holds(AppWrite(app1, Len(st.fw), Chunk(FwLeft)), st.fw \o Chunk(FwLeft))
         /\ AppVerified(app1, Len(st.fw), Chunk(FwLeft))
<1>1. st.fw \in Seq(Unit) /\ FwLeft \in Nat
  BY FieldsIs
<1>2. Chunk(FwLeft) \in Seq(Unit)
  BY <1>1, Grows
<1>3. Holds(app1, st.fw) /\ app1.used \in 0 .. Area
  BY DEF Writes, Placed, TypeOK
<1>4. Len(st.fw) \in Nat
  BY <1>1
<1> HIDE DEF Chunk, FwLeft
<1>5. Len(st.fw) > 0 => ClearBehind(app1.cell, Len(st.fw))
  BY <1>3 DEF Holds
<1>6. QED
  BY <1>1, <1>2, <1>3, <1>4, <1>5, WriteAdds, WriteTakes

LEMMA FwTyped ==
  ASSUME Writes, pc = "feed", AppFits(Len(st.fw), Len(Chunk(FwLeft)))
  PROVE  /\ DOMAIN AppWrite(app1, Len(st.fw), Chunk(FwLeft)).cell = Address
         /\ AppWrite(app1, Len(st.fw), Chunk(FwLeft)).used \in 0 .. Area
<1>1. st.fw \in Seq(Unit) /\ FwLeft \in Nat
  BY FieldsIs
<1>2. Chunk(FwLeft) \in Seq(Unit) /\ Len(st.fw) \in Nat /\ app1.used \in 0 .. Area
  BY <1>1, Grows DEF Writes, TypeOK
<1> HIDE DEF Chunk, FwLeft
<1>3. QED
  BY <1>2, WriteTyped

LEMMA FwWrites ==
  ASSUME Writes, Fw
  PROVE  Writes'
<1> DEFINE data == Chunk(FwLeft)
           s == [st EXCEPT !.fw = st.fw \o data]
<1>1. st.phase = "fw" /\ pc = "feed"
  BY DEF Fw, Turn
<1>2. /\ st \in Context /\ st.webBody = <<>> /\ FwLeft \in Nat /\ PartitionsTyped
      /\ Tally /\ st.fw \in Seq(Unit)
  BY <1>1, FieldsIs DEF Writes, TypeOK, Tally
<1>3. st.fw \o data \in Seq(Unit) /\ Len(st.fw \o data) <= st.fwLen
  <2>1. st.fw \o data \in Seq(Unit) /\ Len(st.fw \o data) <= Len(st.fw) + FwLeft
    BY <1>1, <1>2, Grows
  <2>2. Len(st.fw) + FwLeft = st.fwLen
    BY <1>2, FieldsIs DEF FwLeft
  <2>3. QED
    BY ONLY <2>1, <2>2, Zenon
<1> HIDE DEF data
<1>4. /\ s \in Context /\ s.fw = st.fw \o data /\ s.webBody = <<>>
      /\ s.loaderBuf = st.loaderBuf /\ s.fwLen = st.fwLen /\ s.webLen = st.webLen
      /\ s.loaderLen = st.loaderLen /\ s.phase = "fw" /\ s.skipAfter \in Nat
  BY <1>1, <1>2, <1>3 DEF Context
<1> HIDE DEF s
<1>5. ASSUME Written(app1, Len(st.fw), data), app1' = AppWrite(app1, Len(st.fw), data),
             AfterFw(s), Consume(FwLeft)
      PROVE  Writes'
  <2>1. AppFits(Len(st.fw), Len(data))
    BY <1>5 DEF Written
  <2>2. Holds(app1', st.fw \o data)
    BY <1>1, <1>5, <2>1, FwGrows DEF data
  <2>3. DOMAIN app1'.cell = Address /\ app1'.used \in 0 .. Area
    BY <1>1, <1>5, <2>1, FwTyped DEF data
  <2>4. ASSUME web' = web,
               st' = s \/ st' = [s EXCEPT !.skip = s.skipAfter, !.skipAfter = 0,
                                         !.phase = "skip"]
        PROVE  Writes'
    <3>1. /\ st' \in Context /\ st'.fw = st.fw \o data /\ st'.webBody = <<>>
          /\ st'.loaderBuf = st.loaderBuf /\ st'.fwLen = st.fwLen
          /\ st'.webLen = st.webLen /\ st'.loaderLen = st.loaderLen
          /\ st'.phase \in {"skip", "fw"}
      <4>1. CASE st' = s
        BY <1>4, <4>1
      <4>2. CASE st' = [s EXCEPT !.skip = s.skipAfter, !.skipAfter = 0, !.phase = "skip"]
        BY <1>4, <4>2 DEF Context, Phases
      <4>3. QED
        BY <2>4, <4>1, <4>2
    <3>2. Tally'
      BY <1>2, <1>3, <3>1 DEF Tally
    <3>3. Placed'
      BY <2>2, <3>1 DEF Placed
    <3>4. PartitionsTyped'
      BY <1>2, <2>3, <2>4 DEF PartitionsTyped
    <3>5. QED
      BY <1>1, <1>2, <1>5, <3>1, <3>2, <3>3, <3>4, Took
  <2>5. CASE ToWeb(s)
    <3>1. /\ st' \in Context /\ st'.phase \in {"web", "drain"}
          /\ st'.fw = st.fw \o data /\ st'.webBody = <<>> /\ st'.loaderBuf = st.loaderBuf
          /\ st'.fwLen = st.fwLen /\ st'.webLen = st.webLen
          /\ st'.loaderLen = st.loaderLen
          /\ DOMAIN web'.cell = Address /\ web'.used \in 0 .. Area
          /\ st'.phase = "web" => Holds(web', <<Placeholder>> \o st'.webBody)
      BY <1>2, <1>4, <2>5, ToWebIs
    <3>2. Tally'
      BY <1>2, <1>3, <3>1 DEF Tally, Context
    <3>3. Placed'
      BY <2>2, <3>1 DEF Placed
    <3>4. PartitionsTyped'
      BY <2>3, <3>1 DEF PartitionsTyped
    <3>5. QED
      BY <1>1, <1>2, <1>5, <3>1, <3>2, <3>3, <3>4, Took
  <2>6. QED
    BY <1>5, <2>4, <2>5 DEF AfterFw
<1>6. ASSUME app1' = IF AppFits(Len(st.fw), Len(data))
                     THEN AppWrite(app1, Len(st.fw), data) ELSE app1,
             web' = web, Fail
      PROVE  Writes'
  <2>1. PartitionsTyped'
    BY <1>1, <1>2, <1>6, FwTyped DEF PartitionsTyped, data
  <2>2. QED
    BY <1>6, <2>1, FailWrites
<1>7. QED
  BY <1>5, <1>6 DEF Fw, data, s

LEMMA WebGrows ==
  ASSUME Writes, pc = "feed", st.phase = "web",
         AppFits(1 + Len(st.webBody), Len(Chunk(WebLeft)))
  PROVE  LET p == AppWrite(web, 1 + Len(st.webBody), Chunk(WebLeft))
         IN  /\ Holds(p, <<Placeholder>> \o (st.webBody \o Chunk(WebLeft)))
             /\ AppVerified(web, 1 + Len(st.webBody), Chunk(WebLeft))
             /\ DOMAIN p.cell = Address /\ p.used \in 0 .. Area
<1> DEFINE T == Unit \cup {Placeholder}
           data == Chunk(WebLeft)
           ph == <<Placeholder>>
           old == ph \o st.webBody
<1>1. st.webBody \in Seq(Unit) /\ WebLeft \in Nat
  BY FieldsIs
<1>2. data \in Seq(Unit)
  BY <1>1, Grows
<1>3. Holds(web, old) /\ web.used \in 0 .. Area
  BY DEF Writes, Placed, TypeOK
<1> HIDE DEF data
<1>4. st.webBody \in Seq(T) /\ data \in Seq(T)
  BY <1>1, <1>2, SeqMonotonic
<1>5. ph \in Seq(T) /\ Len(ph) = 1
  OBVIOUS
<1> HIDE DEF T, ph
<1>6. old \in Seq(T) /\ Len(old) = 1 + Len(st.webBody)
  <2>1. old \in Seq(T) /\ Len(old) = Len(ph) + Len(st.webBody)
    <3>1. ph \in Seq(T)
      BY <1>5
    <3>2. QED
      BY ONLY <1>4, <3>1, Joined
  <2>2. QED
    BY <1>5, <2>1
<1>7. old \o data = ph \o (st.webBody \o data)
  <2>1. ph \in Seq(T)
    BY <1>5
  <2>2. PICK a \in Seq(T) : a = ph
    BY <2>1
  <2>3. PICK b \in Seq(T) : b = st.webBody
    BY <1>4
  <2>4. PICK c \in Seq(T) : c = data
    BY <1>4
  <2>5. (a \o b) \o c = a \o (b \o c)
    BY ONLY a \in Seq(T), b \in Seq(T), c \in Seq(T), ConcatAssociative
  <2>6. QED
    BY <2>2, <2>3, <2>4, <2>5
<1>8. Len(old) \in Nat
  BY <1>6
<1> HIDE DEF old
<1>9. AppFits(Len(old), Len(data))
  BY <1>6 DEF data
<1>10. Holds(AppWrite(web, Len(old), data), old \o data)
  BY <1>3, <1>4, <1>6, <1>9, WriteAdds
<1>11. Len(old) > 0 => ClearBehind(web.cell, Len(old))
  BY <1>3 DEF Holds
<1>12. AppVerified(web, Len(old), data)
  BY <1>4, <1>8, <1>9, <1>11, WriteTakes
<1>13. /\ DOMAIN AppWrite(web, Len(old), data).cell = Address
       /\ AppWrite(web, Len(old), data).used \in 0 .. Area
  BY <1>3, <1>4, <1>8, <1>9, WriteTyped
<1>14. QED
  BY <1>6, <1>7, <1>10, <1>12, <1>13 DEF data, ph

LEMMA WebWrites ==
  ASSUME Writes, Web
  PROVE  Writes'
<1> DEFINE data == Chunk(WebLeft)
           off == 1 + Len(st.webBody)
           s == [st EXCEPT !.webBody = st.webBody \o data]
<1>1. st.phase = "web" /\ pc = "feed" /\ app1' = app1
  BY DEF Web, Turn
<1>2. /\ st \in Context /\ WebLeft \in Nat /\ PartitionsTyped /\ Tally
      /\ st.webBody \in Seq(Unit) /\ Holds(app1, st.fw)
  BY FieldsIs DEF Writes, TypeOK, Placed
<1>3. st.webBody \o data \in Seq(Unit) /\ Len(st.webBody \o data) <= st.webLen
  <2>1. /\ st.webBody \o data \in Seq(Unit)
        /\ Len(st.webBody \o data) <= Len(st.webBody) + WebLeft
    BY <1>1, <1>2, Grows
  <2>2. Len(st.webBody) + WebLeft = st.webLen
    BY <1>2, FieldsIs DEF WebLeft
  <2>3. QED
    BY ONLY <2>1, <2>2, Zenon
<1> HIDE DEF data
<1>4. /\ s \in Context /\ s.fw = st.fw /\ s.webBody = st.webBody \o data
      /\ s.loaderBuf = st.loaderBuf /\ s.fwLen = st.fwLen /\ s.webLen = st.webLen
      /\ s.loaderLen = st.loaderLen /\ s.phase = "web"
  BY <1>1, <1>2, <1>3 DEF Context
<1> HIDE DEF s
<1>5. ASSUME Written(web, off, data), web' = AppWrite(web, off, data),
             st' = s \/ st' = [s EXCEPT !.phase = "drain"], Consume(WebLeft)
      PROVE  Writes'
  <2>1. AppFits(off, Len(data))
    BY <1>5 DEF Written
  <2>2. /\ Holds(web', <<Placeholder>> \o (st.webBody \o data))
        /\ DOMAIN web'.cell = Address /\ web'.used \in 0 .. Area
    BY <1>1, <1>5, <2>1, WebGrows DEF data
  <2>3. /\ st' \in Context /\ st'.fw = st.fw /\ st'.webBody = st.webBody \o data
        /\ st'.loaderBuf = st.loaderBuf /\ st'.fwLen = st.fwLen
        /\ st'.webLen = st.webLen /\ st'.loaderLen = st.loaderLen
        /\ st'.phase \in {"web", "drain"}
    BY <1>4, <1>5 DEF Context, Phases
  <2>4. Tally'
    BY <1>2, <1>3, <1>1, <2>3 DEF Tally
  <2>5. Placed'
    BY <1>1, <1>2, <2>2, <2>3 DEF Placed
  <2>6. PartitionsTyped'
    BY <1>1, <1>2, <2>2 DEF PartitionsTyped
  <2>7. QED
    BY <1>1, <1>2, <1>5, <2>3, <2>4, <2>5, <2>6, Took
<1>6. ASSUME web' = IF AppFits(off, Len(data)) THEN AppWrite(web, off, data) ELSE web, Fail
      PROVE  Writes'
  <2>1. PartitionsTyped'
    <3>1. CASE AppFits(off, Len(data))
      BY <1>1, <1>2, <1>6, <3>1, WebGrows DEF PartitionsTyped, data
    <3>2. CASE ~AppFits(off, Len(data))
      BY <1>1, <1>2, <1>6, <3>2 DEF PartitionsTyped
    <3>3. QED
      BY <3>1, <3>2
  <2>2. QED
    BY <1>6, <2>1, FailWrites
<1>7. QED
  BY <1>5, <1>6 DEF Web, data, s

LEMMA DrainWrites ==
  ASSUME Writes, Drain
  PROVE  Writes'
<1>1. /\ pc = "feed" /\ st' = st /\ app1' = app1 /\ web' = web /\ Consume(seg)
      /\ st.phase = "drain"
  BY DEF Drain, Turn
<1>2. seg \in Nat /\ Tally /\ PartitionsTyped /\ st \in Context /\ Placed
  BY FieldsIs DEF Writes, TypeOK
<1>3. Tally' /\ PartitionsTyped' /\ Placed'
  BY <1>1, <1>2 DEF Tally, PartitionsTyped, Placed
<1>4. QED
  BY <1>1, <1>2, <1>3, Took

\* Nothing is written and nothing is taken.
LEMMA StillWrites ==
  ASSUME Writes, UNCHANGED <<app1, web, active, pkg, up, got, st>>,
         seg' \in Nat, got + seg' <= Length(pkg),
         pc' \in {"idle", "recv", "feed", "finish", "reboot"}
  PROVE  Writes'
<1>1. TypeOK'
  BY DEF Writes, TypeOK
<1>2. Length(pkg') = Length(pkg)
  OBVIOUS
<1>3. Counted'
  BY <1>2 DEF Writes, Counted
<1>4. Placed'
  BY DEF Writes, Placed
<1>5. QED
  BY <1>1, <1>3, <1>4 DEF Writes

LEMMA CrcSectorIs ==
  /\ CrcSector \in Seq({CrcSector[i] : i \in 1 .. Sector})
  /\ Len(CrcSector) = Sector
  /\ AppFits(0, Sector)
<1> DEFINE old == Read(web, 0, Sector)
           rest == [i \in 1 .. Sector - 1 |->
                      IF i + 1 <= Len(old) THEN old[i + 1] ELSE Garbage]
           T == {rest[i] : i \in 1 .. Sector - 1} \cup {Prefix(st.webBody)}
           ph == <<Prefix(st.webBody)>>
<1>1. Sector - 1 \in Nat /\ rest \in [1 .. Sector - 1 -> T]
  BY SectorAssumption
<1>2. CrcSector = ph \o rest
  BY DEF CrcSector
<1> HIDE DEF rest, old
<1>3. rest \in Seq(T) /\ Len(rest) = Sector - 1
  BY <1>1, FunctionIsSequence
<1>4. ph \in Seq(T) /\ Len(ph) = 1
  OBVIOUS
<1> HIDE DEF T, ph
<1>5. CrcSector \in Seq(T) /\ Len(CrcSector) = Len(ph) + Len(rest)
  BY <1>2, <1>3, <1>4, Joined
<1>6. Len(CrcSector) = Sector
  BY <1>3, <1>4, <1>5, SectorAssumption
<1>7. CrcSector \in [1 .. Sector -> {CrcSector[i] : i \in 1 .. Sector}]
  BY <1>5, <1>6
<1>8. Sector <= Area
  BY SectorAssumption, AreaAssumption
<1>9. QED
  BY <1>6, <1>7, <1>8, SectorAssumption, FunctionIsSequence DEF AppFits

LEMMA FinishWrites ==
  ASSUME Writes, Finish
  PROVE  Writes'
<1>1. /\ app1' = app1 /\ st' = Reset /\ seg' = 0 /\ got' = got /\ pkg' = pkg /\ up' = up
      /\ active' = active /\ pc' \in {"idle", "reboot"}
      /\ web' = web \/ web' = AppWrite(web, 0, CrcSector)
  BY DEF Finish
<1>2. PartitionsTyped
  BY FieldsIs
<1>3. PartitionsTyped'
  <2> HIDE DEF CrcSector
  <2>1. web.used \in 0 .. Area
    BY <1>2 DEF PartitionsTyped
  <2>2. AppFits(0, Len(CrcSector))
    BY CrcSectorIs
  <2>3. /\ DOMAIN AppWrite(web, 0, CrcSector).cell = Address
        /\ AppWrite(web, 0, CrcSector).used \in 0 .. Area
    BY <2>1, <2>2, CrcSectorIs, WriteTyped
  <2>4. QED
    BY <1>1, <1>2, <2>3 DEF PartitionsTyped
<1>4. /\ got \in Nat /\ got + seg <= Length(pkg) /\ seg \in Nat /\ Length(pkg) \in Nat
      /\ active \in {0, 1} /\ pkg \in Package /\ up \in 0 .. Uploads
  BY LengthNat DEF Writes, TypeOK, Counted
<1>5. Length(pkg') = Length(pkg)
  BY <1>1
<1>6. QED
  BY <1>1, <1>3, <1>4, <1>5, ResetIs, StartOver

LEMMA RestartWrites ==
  ASSUME Writes, Restart
  PROVE  Writes'
<1>1. /\ app1' = app1 /\ web' = web /\ st' = Reset /\ seg' = 0 /\ got' = got
      /\ pkg' = pkg /\ up' = up /\ active' \in {active, 1 - active} /\ pc' = "idle"
  BY DEF Restart
<1>2. PartitionsTyped'
  BY <1>1, FieldsIs DEF PartitionsTyped
<1>3. /\ got \in Nat /\ got + seg <= Length(pkg) /\ seg \in Nat /\ Length(pkg) \in Nat
      /\ active \in {0, 1} /\ pkg \in Package /\ up \in 0 .. Uploads
  BY LengthNat DEF Writes, TypeOK, Counted
<1>4. Length(pkg') = Length(pkg)
  BY <1>1
<1>5. QED
  BY <1>1, <1>2, <1>3, <1>4, ResetIs, StartOver

LEMMA BeginWrites ==
  ASSUME Writes, NEW p \in Package, NEW n \in Nat, Begin(p, n)
  PROVE  Writes'
<1> DEFINE need == IF n = 0 THEN HdrLen(Longest) ELSE HdrLen(p.kind)
<1>1. /\ pkg' = p /\ up' = up + 1 /\ up < Uploads /\ got' = 0 /\ seg' = n
      /\ n <= Length(p) /\ pc' = "feed" /\ active' = active /\ app1' = app1 /\ web' = web
      /\ st' = [Reset EXCEPT !.phase = "hdr", !.need = need]
  BY DEF Begin
<1>2. need \in Nat
  BY PackageAssumption
<1> HIDE DEF need
<1>3. /\ st' \in Context /\ st'.phase = "hdr" /\ st'.fw = <<>> /\ st'.webBody = <<>>
      /\ st'.loaderBuf = <<>> /\ st'.hdr = 0 /\ st'.need = need
  BY <1>1, <1>2, ResetIs DEF Context, Phases
<1>4. PartitionsTyped'
  BY <1>1, FieldsIs DEF PartitionsTyped
<1>5. up' \in 0 .. Uploads /\ active' \in {0, 1}
  BY <1>1, UploadsAssumption DEF Writes, TypeOK
<1>6. Length(pkg') = Length(p)
  BY <1>1
<1>7. got' + seg' <= Length(pkg')
  BY <1>1, <1>6
<1>8. QED
  BY <1>1, <1>2, <1>3, <1>4, <1>5, <1>7, StartOver

LEMMA WritesStep == Writes /\ [Next]_vars => Writes'
<1> SUFFICES ASSUME Writes, [Next]_vars PROVE Writes'
  OBVIOUS
<1>1. ASSUME NEW p \in Package, NEW n \in 0 .. HdrLen(Longest) + 2, Begin(p, n)
      PROVE  Writes'
  <2>1. n \in Nat
    BY PackageAssumption
  <2>2. QED
    BY <1>1, <2>1, BeginWrites
<1>2. got \in Nat /\ seg \in Nat /\ got + seg <= Length(pkg) /\ Length(pkg) \in Nat
      /\ Len(Stream) = Length(pkg)
  BY LengthNat, StreamIs DEF Writes, TypeOK, Counted
<1>3. ASSUME NEW n \in 1 .. Len(Stream) - got, Segment(n)
      PROVE  Writes'
  <2>1. UNCHANGED <<app1, web, active, pkg, up, got, st>> /\ seg' = n /\ pc' = "feed"
    BY <1>3 DEF Segment
  <2>2. n \in Nat /\ got + n <= Length(pkg)
    BY <1>2
  <2>3. QED
    BY <2>1, <2>2, StillWrites
<1>4. CASE Return
  BY <1>2, <1>4, StillWrites DEF Return
<1>5. CASE UNCHANGED vars
  BY <1>2, <1>5, StillWrites DEF vars, Writes, TypeOK
<1>6. QED
  BY <1>1, <1>3, <1>4, <1>5, HeaderWrites, LoaderWrites, SkipWrites, FwWrites, WebWrites,
     DrainWrites, FinishWrites, RestartWrites DEF Next, Feed

\* The values keep their types.
THEOREM TypeCorrect == Spec => []TypeOK
<1>1. Writes => TypeOK
  BY DEF Writes
<1>2. QED
  BY <1>1, WritesInit, WritesStep, PTL DEF Spec

\* No write of the stream meets a cell that is not erased, for any size of
\* the sectors and wherever the segments end.
THEOREM NeverTwiceCorrect == Spec => []NeverTwice
<1>1. Writes => NeverTwice
  <2> SUFFICES ASSUME Writes PROVE NeverTwice
    OBVIOUS
  <2>1. ASSUME pc = "feed", AppFits(Len(st.fw), Len(Chunk(FwLeft)))
        PROVE  AppVerified(app1, Len(st.fw), Chunk(FwLeft))
    BY <2>1, FwGrows
  <2>2. ASSUME pc = "feed", st.phase = "web",
               AppFits(1 + Len(st.webBody), Len(Chunk(WebLeft)))
        PROVE  AppVerified(web, 1 + Len(st.webBody), Chunk(WebLeft))
    BY <2>2, WebGrows
  <2>3. QED
    BY <2>1, <2>2 DEF NeverTwice
<1>2. QED
  BY <1>1, WritesInit, WritesStep, PTL DEF Spec

-----------------------------------------------------------------------------
(* The context and the stream                                              *)

\* A section that is taken where it stands goes on as it began.
LEMMA Continues ==
  ASSUME Writes, pc = "feed", NEW name \in Sections, NEW size \in Nat, NEW at \in Nat,
         \A i \in 1 .. size : Stream[at + i] = Section(name, size)[i],
         NEW old \in Seq(Unit), old = Section(name, Len(old)), got = at + Len(old),
         NEW n \in Nat, Len(old) + n = size
  PROVE  old \o Chunk(n) = Section(name, Len(old) + AtMost(n))
<1> DEFINE new == old \o Chunk(n)
           len == Len(old) + AtMost(n)
<1>1. /\ Chunk(n) \in Seq(Unit) /\ Len(Chunk(n)) = AtMost(n)
      /\ AtMost(n) \in Nat /\ AtMost(n) <= n
      /\ \A i \in 1 .. AtMost(n) : Chunk(n)[i] = Stream[got + i]
  BY ChunkIs DEF Writes, Counted
<1>2. Len(old) \in Nat /\ len \in Nat /\ len <= size
  BY <1>1
<1>3. up \in Nat
  BY PackageIs DEF Writes
<1>4. /\ Section(name, len) \in Seq(Unit) /\ Len(Section(name, len)) = len
  BY <1>2, <1>3, SectionIs
<1>5. new \in Seq(Unit) /\ Len(new) = len
  <2>1. Chunk(n) \in Seq(Unit) /\ Len(Chunk(n)) = AtMost(n)
    BY <1>1
  <2>2. QED
    BY ONLY <2>1, old \in Seq(Unit), Joined
<1>6. ASSUME NEW i \in 1 .. len PROVE new[i] = Section(name, len)[i]
  <2>1. CASE i <= Len(old)
    <3>1. i \in 1 .. Len(old)
      BY <1>2, <2>1
    <3>2. new[i] = old[i]
      BY <1>1, <3>1, Joined
    <3>3. Section(name, Len(old))[i] = Section(name, len)[i]
      BY <1>2, <3>1 DEF Section
    <3>4. QED
      BY <3>2, <3>3
  <2>2. CASE i > Len(old)
    <3> DEFINE k == i - Len(old)
    <3>1. k \in 1 .. AtMost(n) /\ Len(old) + k = i /\ i \in 1 .. size /\ at + i = got + k
      <4>1. /\ AtMost(n) \in Nat /\ Len(old) \in Nat /\ len <= size
            /\ i \in 1 .. Len(old) + AtMost(n) /\ got = at + Len(old)
        BY <1>1, <1>2
      <4>2. QED
        BY ONLY <2>2, <4>1, size \in Nat, at \in Nat
    <3>2. new[Len(old) + k] = Chunk(n)[k]
      BY <1>1, <3>1, Joined
    <3>3. Chunk(n)[k] = Stream[at + i]
      BY <1>1, <3>1
    <3>4. Section(name, size)[i] = Section(name, len)[i]
      BY <1>2, <3>1 DEF Section
    <3> HIDE DEF k, new
    <3>5. QED
      BY <3>1, <3>2, <3>3, <3>4
  <2> HIDE DEF new, len, Section
  <2>3. QED
    BY <1>2, <2>1, <2>2
<1> HIDE DEF new, len, Section
<1>7. new = Section(name, len)
  BY <1>4, <1>5, <1>6, SeqEqual
<1>8. QED
  BY <1>7 DEF new, len

\* The image stands behind the loader and what is skipped in front of it.
LEMMA ImageAt ==
  ASSUME Writes
  PROVE  /\ BodyAt \in Nat /\ Before \in Nat /\ Behind \in Nat /\ ImageLen \in Nat
         /\ ImageName \in Sections
         /\ BodyAt + Before \in Nat
         /\ \A i \in 1 .. ImageLen :
              Stream[BodyAt + Before + i] = Section(ImageName, ImageLen)[i]
         /\ Before + ImageLen + Behind = pkg.fw1 + pkg.fw2
<1>1. /\ HdrLen(pkg.kind) \in Nat /\ pkg.loader \in Nat /\ pkg.fw1 \in Nat
      /\ pkg.fw2 \in Nat
  BY PackageIs DEF Writes
<1>2. /\ \A i \in 1 .. pkg.fw1 :
           Stream[HdrLen(pkg.kind) + pkg.loader + i] = Section("fw1", pkg.fw1)[i]
      /\ \A i \in 1 .. pkg.fw2 :
           Stream[HdrLen(pkg.kind) + pkg.loader + pkg.fw1 + i]
             = Section("fw2", pkg.fw2)[i]
  BY StreamIs DEF Writes
<1>3. CASE active = 1
  <2>1. /\ ImageName = "fw1" /\ ImageLen = pkg.fw1 /\ Before = 0 /\ Behind = pkg.fw2
        /\ BodyAt + Before = HdrLen(pkg.kind) + pkg.loader
        /\ BodyAt = HdrLen(pkg.kind) + pkg.loader
    BY <1>1, <1>3 DEF ImageName, ImageLen, Before, Behind, BodyAt
  <2>2. QED
    BY <1>1, <1>2, <2>1 DEF Sections
<1>4. CASE active # 1
  <2>1. /\ ImageName = "fw2" /\ ImageLen = pkg.fw2 /\ Before = pkg.fw1 /\ Behind = 0
        /\ BodyAt + Before = HdrLen(pkg.kind) + pkg.loader + pkg.fw1
        /\ BodyAt = HdrLen(pkg.kind) + pkg.loader
    BY <1>1, <1>4 DEF ImageName, ImageLen, Before, Behind, BodyAt
  <2>2. QED
    BY <1>1, <1>2, <2>1 DEF Sections
<1>5. QED
  BY <1>3, <1>4

\* The plan and the package stay what they are during an upload.
LEMMA SectionedStep ==
  ASSUME up' = up, pkg' = pkg, active' = active,
         st'.fwLen = ImageLen, ImageLen > 0, st'.webLen = pkg.web, st'.loaderLen = pkg.loader,
         st'.fw = Section(ImageName, Len(st'.fw)),
         st'.loaderBuf = Section("loader", Len(st'.loaderBuf)),
         st'.webBody = Section("web", Len(st'.webBody))
  PROVE  Sectioned'
<1>1. ImageLen' = ImageLen /\ ImageName' = ImageName
  BY DEF ImageLen, ImageName
<1>2. st'.fw = Section(ImageName, Len(st.fw))'
  BY <1>1 DEF Section
<1>3. /\ st'.loaderBuf = Section("loader", Len(st.loaderBuf))'
      /\ st'.webBody = Section("web", Len(st.webBody))'
  BY DEF Section
<1>4. QED
  BY <1>1, <1>2, <1>3 DEF Sectioned

LEMMA EmptySection ==
  ASSUME NEW name
  PROVE  Section(name, Len(<<>>)) = <<>>
<1>1. Len(<<>>) = 0
  OBVIOUS
<1>2. QED
  BY <1>1 DEF Section

LEMMA SamePackage ==
  ASSUME up' = up, pkg' = pkg, active' = active
  PROVE  /\ BodyAt' = BodyAt /\ Before' = Before /\ Behind' = Behind
         /\ HdrLen(pkg'.kind) = HdrLen(pkg.kind)
  BY DEF BodyAt, Before, Behind

\* Where the stream stands after a step, phase by phase.
LEMMA PositionStep ==
  ASSUME up' = up, pkg' = pkg, active' = active,
         \/ /\ st'.phase = "loader" /\ got' = HdrLen(pkg.kind) + Len(st'.loaderBuf)
            /\ st'.skip = Before /\ st'.skipAfter = Behind
         \/ /\ st'.phase = "skip" /\ st'.fw = <<>>
            /\ got' + st'.skip = BodyAt + Before /\ st'.skipAfter = Behind
         \/ /\ st'.phase = "skip" /\ st'.fw # <<>>
            /\ got' + st'.skip = BodyAt + pkg.fw1 + pkg.fw2
            /\ st'.skipAfter = 0 /\ Len(st'.fw) = st'.fwLen
         \/ /\ st'.phase = "fw" /\ got' = BodyAt + Before + Len(st'.fw)
            /\ st'.skipAfter = Behind
         \/ /\ st'.phase = "web"
            /\ got' = BodyAt + pkg.fw1 + pkg.fw2 + Len(st'.webBody)
            /\ Len(st'.fw) = st'.fwLen
         \/ /\ st'.phase = "drain"
            /\ got' >= BodyAt + pkg.fw1 + pkg.fw2 + Len(st'.webBody)
            /\ Len(st'.fw) = st'.fwLen
  PROVE  Position'
<1>1. /\ BodyAt' = BodyAt /\ Before' = Before /\ Behind' = Behind
      /\ HdrLen(pkg'.kind) = HdrLen(pkg.kind)
  BY SamePackage
<1>2. QED
  BY <1>1 DEF Position

LEMMA HeaderInStep ==
  ASSUME Writes, InStep, Header
  PROVE  InStep'
<1> DEFINE n == st.need - st.hdr
           hdr == st.hdr + AtMost(n)
<1>1. st.phase = "hdr" /\ pc = "feed"
  BY DEF Header, Turn
<1>2. st \in Context /\ st.hdr <= st.need /\ got = st.hdr
  BY <1>1 DEF Writes, TypeOK, Counted
<1>3. n \in Nat /\ hdr \in Nat
  <2>1. st.hdr \in Nat /\ st.need \in Nat /\ seg \in Nat
    BY <1>2 DEF Context, Writes, TypeOK
  <2>2. QED
    BY <1>2, <2>1 DEF AtMost
<1>4. CASE st' = [st EXCEPT !.hdr = hdr]
  <2> HIDE DEF hdr
  <2>1. st'.phase = "hdr"
    BY <1>1, <1>2, <1>4 DEF Context
  <2>2. QED
    BY <2>1 DEF InStep
<1>5. CASE Fail
  <2>1. st'.phase = "off"
    BY <1>5, ResetIs DEF Fail
  <2>2. QED
    BY <2>1 DEF InStep
<1>6. ASSUME hdr = st.need, pkg.fw1 > 0, pkg.fw2 > 0,
             st' = [ParseHeader EXCEPT !.hdr = hdr], Consume(n),
             HeaderKnown'
      PROVE  Sectioned' /\ Position'
  <2>1. /\ up' = up /\ pkg' = pkg /\ active' = active /\ got' = HdrLen(pkg.kind)
    <3>1. got' = hdr /\ up' = up /\ pkg' = pkg /\ active' = active
      BY <1>1, <1>2, <1>3, <1>6, ConsumeIs
    <3>2. st'.need = st.need
      <4>1. Plan.need = st.need /\ Plan \in [DOMAIN Reset -> {Plan[f] : f \in DOMAIN Reset}]
        BY DEF Plan, Reset
      <4>2. ParseHeader.need = st.need /\ "hdr" # "need" /\ "phase" # "need"
        BY <4>1 DEF ParseHeader, AfterLoader
      <4>3. ParseHeader \in Context
        BY PlanIs
      <4>4. QED
        BY <1>6, <4>2, <4>3 DEF Context
    <3>3. QED
      BY <1>6, <3>1, <3>2 DEF HeaderKnown
  <2>2. /\ pkg.loader \in Nat /\ pkg.fw1 \in Nat /\ pkg.fw2 \in Nat /\ pkg.web \in Nat
        /\ HdrLen(pkg.kind) \in Nat
        /\ pkg.loader > 0 => pkg.kind = "ldr"
    BY PackageIs DEF Writes
  <2>3. /\ Plan.loaderLen = pkg.loader /\ Plan.webLen = pkg.web
        /\ Plan.fwLen = ImageLen /\ Plan.skip = Before /\ Plan.skipAfter = Behind
        /\ Plan.fw = <<>> /\ Plan.webBody = <<>> /\ Plan.loaderBuf = <<>>
        /\ Plan \in Context
    <3>1. /\ Plan.fwLen = ImageLen /\ Plan.skip = Before /\ Plan.skipAfter = Behind
          /\ Plan.webLen = pkg.web
      BY <2>2, ResetIs DEF Plan, Reset, ImageLen, Before, Behind
    <3>2. Plan.loaderLen = pkg.loader
      <4>1. Plan.loaderLen = IF pkg.kind = "ldr" THEN pkg.loader ELSE 0
        BY DEF Plan, Reset
      <4>2. pkg.kind # "ldr" => pkg.loader = 0
        BY <2>2
      <4> HIDE DEF Plan
      <4>3. QED
        BY <4>1, <4>2
    <3>3. /\ Plan.fw = <<>> /\ Plan.webBody = <<>> /\ Plan.loaderBuf = <<>>
          /\ Plan \in Context
      BY <1>2, <2>2, ResetIs DEF Plan, Context
    <3>4. QED
      BY <3>1, <3>2, <3>3
  <2> HIDE DEF Plan, hdr
  <2>4. /\ st'.loaderLen = pkg.loader /\ st'.webLen = pkg.web
        /\ st'.fwLen = ImageLen /\ st'.skip = Before /\ st'.skipAfter = Behind
        /\ st'.fw = <<>> /\ st'.webBody = <<>> /\ st'.loaderBuf = <<>>
        /\ st'.phase = IF pkg.loader > 0 THEN "loader" ELSE IF Before > 0 THEN "skip" ELSE "fw"
    BY <1>6, <2>3 DEF ParseHeader, AfterLoader, Context
  <2>5. ImageLen > 0 /\ Before \in Nat
    BY <1>6, <2>2 DEF ImageLen, Before
  <2>6. Sectioned'
    BY <2>1, <2>4, <2>5, EmptySection, SectionedStep
  <2>7. /\ BodyAt' = HdrLen(pkg.kind) + pkg.loader /\ Before' = Before /\ Behind' = Behind
        /\ HdrLen(pkg'.kind) = HdrLen(pkg.kind)
    BY <2>1, SamePackage DEF BodyAt
  <2>8. Position'
    <3>1. Len(<<>>) = 0
      OBVIOUS
    <3>2. HdrLen(pkg.kind) + Len(<<>>) = HdrLen(pkg.kind) /\ BodyAt \in Nat
      BY <2>2, <3>1 DEF BodyAt
    <3>3. CASE pkg.loader > 0
      <4>1. st'.phase = "loader" /\ got' = HdrLen(pkg.kind) + Len(st'.loaderBuf)
        BY <2>1, <2>4, <3>2, <3>3
      <4>2. QED
        BY <2>1, <2>4, <4>1, PositionStep
    <3>4. CASE pkg.loader = 0
      <4>1. BodyAt = HdrLen(pkg.kind)
        BY <2>2, <3>4 DEF BodyAt
      <4>2. CASE Before > 0
        <5>1. st'.phase = "skip" /\ got' + st'.skip = BodyAt + Before
          BY <2>1, <2>4, <3>4, <4>1, <4>2
        <5>2. QED
          BY <2>1, <2>4, <5>1, PositionStep
      <4>3. CASE Before = 0
        <5>1. st'.phase = "fw" /\ got' = BodyAt + Before + Len(st'.fw)
          BY <2>1, <2>4, <3>1, <3>2, <3>4, <4>1, <4>3
        <5>2. QED
          BY <2>1, <2>4, <5>1, PositionStep
      <4>4. QED
        BY <2>5, <4>2, <4>3
    <3>5. QED
      BY <2>2, <3>3, <3>4
  <2>9. QED
    BY <2>6, <2>8
<1>7. QED
  BY <1>4, <1>5, <1>6 DEF Header, InStep

LEMMA LoaderInStep ==
  ASSUME Writes, InStep, Loader
  PROVE  InStep'
<1> DEFINE data == Chunk(LoaderLeft)
           buf == st.loaderBuf \o data
           s == [st EXCEPT !.loaderBuf = buf]
<1>1. st.phase = "loader" /\ pc = "feed"
  BY DEF Loader, Turn
<1>2. /\ st \in Context /\ LoaderLeft \in Nat /\ st.loaderBuf \in Seq(Unit)
      /\ st.fw = <<>> /\ st.webBody = <<>>
  BY <1>1, FieldsIs DEF Writes, TypeOK, Tally
<1>3. buf \in Seq(Unit) /\ Len(buf) = Len(st.loaderBuf) + AtMost(LoaderLeft)
      /\ AtMost(LoaderLeft) \in Nat
  BY <1>1, <1>2, Grows
<1>4. CASE Fail
  <2>1. st'.phase = "off"
    BY <1>4, ResetIs DEF Fail
  <2>2. QED
    BY <2>1 DEF InStep
<1>5. ASSUME \/ st' = s /\ Len(buf) < st.loaderLen
             \/ st' = AfterLoader(s) /\ Len(buf) = st.loaderLen,
             Consume(LoaderLeft), HeaderKnown'
      PROVE  Sectioned' /\ Position'
  <2>1. /\ up' = up /\ pkg' = pkg /\ active' = active /\ got' = got + AtMost(LoaderLeft)
    BY <1>1, <1>2, <1>5, ConsumeIs
  <2> HIDE DEF buf
  <2>2. /\ s.fw = <<>> /\ s.webBody = <<>> /\ s.loaderBuf = buf /\ s.need = st.need
        /\ s.fwLen = st.fwLen /\ s.webLen = st.webLen /\ s.loaderLen = st.loaderLen
        /\ s.skip = st.skip /\ s.skipAfter = st.skipAfter /\ s.phase = "loader"
        /\ s \in Context
    BY <1>1, <1>2, <1>3 DEF Context
  <2> HIDE DEF s
  <2>3. /\ st'.fw = <<>> /\ st'.webBody = <<>> /\ st'.loaderBuf = buf /\ st'.need = st.need
        /\ st'.fwLen = st.fwLen /\ st'.webLen = st.webLen /\ st'.loaderLen = st.loaderLen
        /\ st'.skip = st.skip /\ st'.skipAfter = st.skipAfter
        /\ \/ st'.phase = "loader" /\ Len(buf) < st.loaderLen
           \/ /\ Len(buf) = st.loaderLen
              /\ st'.phase = IF st.skip > 0 THEN "skip" ELSE "fw"
    BY <1>5, <2>2 DEF AfterLoader, Context
  <2>4. Sectioned /\ Position
    BY <1>1, <1>5, <2>1, <2>3 DEF InStep, HeaderKnown
  <2>5. /\ got = HdrLen(pkg.kind) + Len(st.loaderBuf)
        /\ st.skip = Before /\ st.skipAfter = Behind
        /\ st.loaderLen = pkg.loader /\ st.fwLen = ImageLen /\ st.fwLen > 0
        /\ st.webLen = pkg.web
        /\ st.loaderBuf = Section("loader", Len(st.loaderBuf))
    BY <1>1, <2>4 DEF Position, Sectioned
  <2>6. /\ pkg.loader \in Nat /\ HdrLen(pkg.kind) \in Nat
        /\ \A i \in 1 .. pkg.loader :
             Stream[HdrLen(pkg.kind) + i] = Section("loader", pkg.loader)[i]
    BY PackageIs, StreamIs DEF Writes
  <2>7. Len(st.loaderBuf) + LoaderLeft = pkg.loader
    BY <1>2, <2>5, <2>6 DEF LoaderLeft
  <2>8. buf = Section("loader", Len(buf))
    <3>1. "loader" \in Sections
      BY DEF Sections
    <3>2. buf = Section("loader", Len(st.loaderBuf) + AtMost(LoaderLeft))
      BY <1>1, <1>2, <2>5, <2>6, <2>7, <3>1, Continues DEF buf
    <3>3. QED
      BY <3>2, <1>3
  <2>9. Sectioned'
    BY <2>1, <2>3, <2>5, <2>8, EmptySection, SectionedStep
  <2>10. /\ BodyAt' = HdrLen(pkg.kind) + pkg.loader /\ Before' = Before /\ Behind' = Behind
         /\ HdrLen(pkg'.kind) = HdrLen(pkg.kind)
    BY <2>1, SamePackage DEF BodyAt
  <2>11. got' = HdrLen(pkg.kind) + Len(buf) /\ Before \in Nat
    <3>1. Before \in Nat
      BY ImageAt
    <3>2. Len(st.loaderBuf) \in Nat
      BY <1>2
    <3>3. QED
      BY <1>3, <2>1, <2>5, <2>6, <3>1, <3>2
  <2>12. Position'
    <3>1. CASE st'.phase = "loader"
      BY <2>1, <2>3, <2>5, <2>11, <3>1, PositionStep
    <3>2. CASE Len(buf) = st.loaderLen /\ st'.phase = IF st.skip > 0 THEN "skip" ELSE "fw"
      <4>1. BodyAt \in Nat /\ got' = BodyAt
        BY <2>5, <2>6, <2>11, <3>2 DEF BodyAt
      <4>2. CASE st.skip > 0
        <5>1. st'.phase = "skip" /\ got' + st'.skip = BodyAt + Before
          BY <2>3, <2>5, <3>2, <4>1, <4>2
        <5>2. QED
          BY <2>1, <2>3, <2>5, <5>1, PositionStep
      <4>3. CASE ~ st.skip > 0
        <5>1. Len(<<>>) = 0
          OBVIOUS
        <5>2. st'.phase = "fw" /\ got' = BodyAt + Before + Len(st'.fw)
          BY <2>3, <2>5, <2>11, <3>2, <4>1, <4>3, <5>1
        <5>3. QED
          BY <2>1, <2>3, <2>5, <5>2, PositionStep
      <4>4. QED
        BY <4>2, <4>3
    <3>3. QED
      BY <2>3, <3>1, <3>2
  <2>13. QED
    BY <2>9, <2>12
<1>6. QED
  BY <1>4, <1>5 DEF Loader, InStep, buf, data, s
LEMMA SkipInStep ==
  ASSUME Writes, InStep, Skip
  PROVE  InStep'
<1> DEFINE s == [st EXCEPT !.skip = st.skip - AtMost(st.skip)]
<1>1. st.phase = "skip" /\ pc = "feed" /\ Consume(st.skip)
  BY DEF Skip, Turn
<1>2. /\ st \in Context /\ st.webBody = <<>> /\ st.skip \in Nat /\ PartitionsTyped
      /\ AtMost(st.skip) \in Nat /\ AtMost(st.skip) <= st.skip /\ got \in Nat
  BY <1>1, FieldsIs, ChunkIs DEF Writes, TypeOK, Tally, Counted
<1>3. /\ up' = up /\ pkg' = pkg /\ active' = active /\ got' = got + AtMost(st.skip)
  BY <1>1, <1>2, ConsumeIs
<1>4. /\ s \in Context /\ s.fw = st.fw /\ s.webBody = <<>> /\ s.loaderBuf = st.loaderBuf
      /\ s.fwLen = st.fwLen /\ s.webLen = st.webLen /\ s.loaderLen = st.loaderLen
      /\ s.phase = "skip" /\ s.skip = st.skip - AtMost(st.skip)
      /\ s.skipAfter = st.skipAfter /\ s.need = st.need
  <2>1. st.skip - AtMost(st.skip) \in Nat
    BY <1>2
  <2>2. QED
    BY <1>1, <1>2, <2>1 DEF Context
<1> HIDE DEF s
<1>5. CASE HeaderKnown /\ Sectioned /\ Position
  <2>1. /\ st.webLen = pkg.web /\ st.loaderLen = pkg.loader
        /\ st.fwLen = ImageLen /\ ImageLen > 0
        /\ st.fw = Section(ImageName, Len(st.fw))
        /\ st.loaderBuf = Section("loader", Len(st.loaderBuf))
    BY <1>5 DEF Sectioned
  <2>2. /\ st.fw = <<>> => got + st.skip = BodyAt + Before /\ st.skipAfter = Behind
        /\ st.fw # <<>> => /\ got + st.skip = BodyAt + pkg.fw1 + pkg.fw2
                           /\ st.skipAfter = 0 /\ Len(st.fw) = st.fwLen
    BY <1>1, <1>5 DEF Position
  <2>3. /\ BodyAt \in Nat /\ Before \in Nat /\ pkg.fw1 \in Nat /\ pkg.fw2 \in Nat
        /\ ImageLen \in Nat
    BY ImageAt, PackageIs DEF Writes
  <2>4. Len(<<>>) = 0
    OBVIOUS
  <2>5. got' + s.skip = got + st.skip
    BY <1>2, <1>3, <1>4
  <2>6. CASE st' = s
    <3>1. Sectioned'
      BY <1>3, <1>4, <2>1, <2>6, EmptySection, SectionedStep
    <3>2. Position'
      BY <1>3, <1>4, <2>2, <2>5, <2>6, PositionStep
    <3>3. QED
      BY <3>1, <3>2 DEF InStep
  <2>7. CASE s.skip <= 0 /\ ~(s.fwLen > 0 /\ Len(s.fw) = s.fwLen)
             /\ st' = [s EXCEPT !.phase = "fw"]
    <3>1. /\ st'.fw = st.fw /\ st'.webBody = <<>> /\ st'.loaderBuf = st.loaderBuf
          /\ st'.fwLen = st.fwLen /\ st'.webLen = st.webLen /\ st'.loaderLen = st.loaderLen
          /\ st'.phase = "fw" /\ st'.skipAfter = st.skipAfter
      BY <1>4, <2>7 DEF Context
    <3>2. st.fw = <<>>
      BY <1>4, <2>1, <2>2, <2>7
    <3>3. s.skip = 0
      BY <1>2, <1>4, <2>7
    <3>4. got' = BodyAt + Before + Len(st'.fw)
      BY <1>2, <1>3, <2>2, <2>3, <2>4, <2>5, <3>1, <3>2, <3>3
    <3>5. Position'
      BY <1>3, <2>2, <3>1, <3>2, <3>4, PositionStep
    <3>6. Sectioned'
      BY <1>3, <2>1, <3>1, EmptySection, SectionedStep
    <3>7. QED
      BY <3>5, <3>6 DEF InStep
  <2>8. CASE s.skip <= 0 /\ s.fwLen > 0 /\ Len(s.fw) = s.fwLen /\ ToWeb(s)
    <3>1. /\ st'.fw = st.fw /\ st'.webBody = <<>> /\ st'.loaderBuf = st.loaderBuf
          /\ st'.fwLen = st.fwLen /\ st'.webLen = st.webLen /\ st'.loaderLen = st.loaderLen
          /\ st'.phase \in {"web", "drain"}
      BY <1>2, <1>4, <2>8, ToWebIs
    <3>2. st.fw # <<>> /\ Len(st'.fw) = st'.fwLen
      BY <1>4, <2>4, <2>8, <3>1
    <3>3. s.skip = 0
      BY <1>2, <1>4, <2>8
    <3>4. /\ got' = BodyAt + pkg.fw1 + pkg.fw2 + Len(st'.webBody)
          /\ got' >= BodyAt + pkg.fw1 + pkg.fw2 + Len(st'.webBody)
      BY <1>2, <1>3, <2>2, <2>3, <2>4, <2>5, <3>1, <3>2, <3>3
    <3>5. Position'
      BY <1>3, <3>1, <3>2, <3>4, PositionStep
    <3>6. Sectioned'
      BY <1>3, <2>1, <3>1, EmptySection, SectionedStep
    <3>7. QED
      BY <3>5, <3>6 DEF InStep
  <2>9. s.skip \in Nat
    BY <1>4 DEF Context
  <2>10. QED
    BY <2>6, <2>7, <2>8, <2>9 DEF Skip, s
<1>6. CASE ~HeaderKnown
  <2>1. st'.need = st.need
    <3>1. CASE st' = s \/ st' = [s EXCEPT !.phase = "fw"]
      BY <1>4, <3>1 DEF Context
    <3>2. CASE ToWeb(s)
      BY <1>2, <1>4, <3>2, ToWebIs
    <3>3. QED
      BY <3>1, <3>2 DEF Skip, s
  <2>2. QED
    BY <1>3, <1>6, <2>1 DEF InStep, HeaderKnown
<1>7. QED
  BY <1>1, <1>5, <1>6 DEF InStep

LEMMA FwInStep ==
  ASSUME Writes, InStep, Fw
  PROVE  InStep'
<1> DEFINE data == Chunk(FwLeft)
           s == [st EXCEPT !.fw = st.fw \o data]
<1>1. st.phase = "fw" /\ pc = "feed"
  BY DEF Fw, Turn
<1>2. /\ st \in Context /\ st.webBody = <<>> /\ FwLeft \in Nat /\ PartitionsTyped
      /\ st.fw \in Seq(Unit) /\ got \in Nat
  BY <1>1, FieldsIs DEF Writes, TypeOK, Tally
<1>3. /\ st.fw \o data \in Seq(Unit) /\ Len(st.fw \o data) = Len(st.fw) + AtMost(FwLeft)
      /\ AtMost(FwLeft) \in Nat
  BY <1>1, <1>2, Grows
<1> HIDE DEF data
<1>4. /\ s \in Context /\ s.fw = st.fw \o data /\ s.webBody = <<>>
      /\ s.loaderBuf = st.loaderBuf /\ s.fwLen = st.fwLen /\ s.webLen = st.webLen
      /\ s.loaderLen = st.loaderLen /\ s.phase = "fw" /\ s.skipAfter = st.skipAfter
      /\ s.need = st.need /\ s.skipAfter \in Nat
  BY <1>1, <1>2, <1>3 DEF Context
<1> HIDE DEF s
<1>5. CASE Fail
  <2>1. st'.phase = "off"
    BY <1>5, ResetIs DEF Fail
  <2>2. QED
    BY <2>1 DEF InStep
<1>6. ASSUME AfterFw(s), Consume(FwLeft), HeaderKnown, Sectioned, Position
      PROVE  InStep'
  <2>1. /\ up' = up /\ pkg' = pkg /\ active' = active /\ got' = got + AtMost(FwLeft)
    BY <1>1, <1>2, <1>6, ConsumeIs
  <2>2. /\ st.webLen = pkg.web /\ st.loaderLen = pkg.loader
        /\ st.fwLen = ImageLen /\ ImageLen > 0
        /\ st.fw = Section(ImageName, Len(st.fw))
        /\ st.loaderBuf = Section("loader", Len(st.loaderBuf))
    BY <1>6 DEF Sectioned
  <2>3. got = BodyAt + Before + Len(st.fw) /\ st.skipAfter = Behind
    BY <1>1, <1>6 DEF Position
  <2>4. /\ BodyAt \in Nat /\ Before \in Nat /\ pkg.fw1 \in Nat /\ pkg.fw2 \in Nat
        /\ ImageLen \in Nat /\ Behind \in Nat /\ BodyAt + Before \in Nat
        /\ ImageName \in Sections
        /\ Before + ImageLen + Behind = pkg.fw1 + pkg.fw2
    BY ImageAt, PackageIs DEF Writes
  <2>5. Len(st.fw) \in Nat /\ Len(st.fw) + FwLeft = ImageLen
    BY <1>2, <2>2, <2>4 DEF FwLeft
  <2>6. st.fw \o data = Section(ImageName, Len(st.fw \o data))
    <3>1. \A i \in 1 .. ImageLen :
            Stream[BodyAt + Before + i] = Section(ImageName, ImageLen)[i]
      BY ImageAt
    <3> DEFINE at == BodyAt + Before
    <3>2. at \in Nat /\ got = at + Len(st.fw)
      BY <2>3, <2>4
    <3>3. \A i \in 1 .. ImageLen : Stream[at + i] = Section(ImageName, ImageLen)[i]
      BY <3>1
    <3>4. st.fw = Section(ImageName, Len(st.fw)) /\ Len(st.fw) + FwLeft = ImageLen
      BY <2>2, <2>5
    <3>6. st.fw \in Seq(Unit) /\ FwLeft \in Nat /\ ImageLen \in Nat /\ ImageName \in Sections
      BY <1>2, <2>4
    <3> HIDE DEF at
    <3>7. st.fw \o Chunk(FwLeft) = Section(ImageName, Len(st.fw) + AtMost(FwLeft))
      <4>1. PICK old \in Seq(Unit) : old = st.fw
        BY <3>6
      <4>2. PICK n \in Nat : n = FwLeft
        BY <3>6
      <4>3. PICK size \in Nat : size = ImageLen
        BY <3>6
      <4>4. PICK name \in Sections : name = ImageName
        BY <3>6
      <4>5. /\ \A i \in 1 .. size : Stream[at + i] = Section(name, size)[i]
            /\ old = Section(name, Len(old)) /\ got = at + Len(old) /\ Len(old) + n = size
        BY <3>2, <3>3, <3>4, <4>1, <4>2, <4>3, <4>4
      <4>6. old \o Chunk(n) = Section(name, Len(old) + AtMost(n))
        BY <1>1, <3>2, <4>5, Continues, ZenonT(60)
      <4>7. QED
        BY <4>1, <4>2, <4>4, <4>6
    <3>5. QED
      BY <3>7, <1>3 DEF data
  <2>7. got' = BodyAt + Before + Len(s.fw)
    <3>1. Len(s.fw) = Len(st.fw) + AtMost(FwLeft)
      BY <1>3, <1>4
    <3>2. /\ AtMost(FwLeft) \in Nat /\ BodyAt \in Nat /\ Before \in Nat
          /\ Len(st.fw) \in Nat
      BY <1>3, <2>4, <2>5
    <3>3. got' = got + AtMost(FwLeft) /\ got = BodyAt + Before + Len(st.fw)
      BY <2>1, <2>3
    <3>4. PICK a \in Nat : a = AtMost(FwLeft)
      BY <3>2
    <3>5. PICK b \in Nat : b = Len(st.fw)
      BY <3>2
    <3>6. Len(s.fw) = b + a /\ got' = (BodyAt + Before + b) + a
      BY <3>1, <3>3, <3>4, <3>5
    <3>7. QED
      BY <3>2, <3>6
  <2>8. Len(<<>>) = 0
    OBVIOUS
  <2>13. Len(s.fw) \in Nat /\ Len(s.fw) <= ImageLen
    <3>1. AtMost(FwLeft) <= FwLeft
      BY <1>2, ChunkIs DEF Writes, Counted
    <3>2. Len(s.fw) = Len(st.fw) + AtMost(FwLeft)
      BY <1>3, <1>4
    <3>3. AtMost(FwLeft) \in Nat /\ FwLeft \in Nat /\ ImageLen \in Nat
      BY <1>2, <1>3, <2>4
    <3>4. PICK a \in Nat : a = AtMost(FwLeft)
      BY <3>3
    <3>5. PICK b \in Nat : b = Len(st.fw)
      BY <2>5
    <3>6. PICK n \in Nat : n = FwLeft
      BY <3>3
    <3>7. b + n = ImageLen /\ a <= n /\ Len(s.fw) = b + a
      BY <2>5, <3>1, <3>2, <3>4, <3>5, <3>6
    <3>8. QED
      BY <3>7
  <2>9. CASE st' = s
    <3>1. Sectioned'
      BY <1>4, <2>1, <2>2, <2>6, <2>9, EmptySection, SectionedStep
    <3>2. Position'
      BY <1>4, <2>1, <2>3, <2>7, <2>9, PositionStep
    <3>3. QED
      BY <3>1, <3>2 DEF InStep
  <2>10. CASE /\ ~(Len(s.fw) < s.fwLen) /\ s.skipAfter > 0
              /\ st' = [s EXCEPT !.skip = s.skipAfter, !.skipAfter = 0, !.phase = "skip"]
    <3>1. /\ st'.fw = s.fw /\ st'.webBody = <<>> /\ st'.loaderBuf = st.loaderBuf
          /\ st'.fwLen = st.fwLen /\ st'.webLen = st.webLen /\ st'.loaderLen = st.loaderLen
          /\ st'.phase = "skip" /\ st'.skipAfter = 0 /\ st'.skip = Behind
      BY <1>4, <2>3, <2>10 DEF Context
    <3>2. Len(st'.fw) = st'.fwLen /\ Len(st'.fw) = ImageLen
      <4>1. st'.fwLen = ImageLen /\ s.fwLen = ImageLen /\ ~(Len(s.fw) < s.fwLen)
        BY <1>4, <2>2, <2>10, <3>1
      <4>2. Len(st'.fw) = Len(s.fw)
        BY <3>1
      <4>3. QED
        BY ONLY <2>4, <2>13, <4>1, <4>2
    <3>3. st'.fw # <<>>
      BY <2>2, <2>8, <3>2
    <3>4. got' + st'.skip = BodyAt + pkg.fw1 + pkg.fw2
      BY <2>4, <2>7, <3>1, <3>2
    <3>5. Position'
      BY <2>1, <3>1, <3>2, <3>3, <3>4, PositionStep
    <3>6. Sectioned'
      BY <1>4, <2>1, <2>2, <2>6, <3>1, EmptySection, SectionedStep
    <3>7. QED
      BY <3>5, <3>6 DEF InStep
  <2>11. CASE ~(Len(s.fw) < s.fwLen) /\ ~(s.skipAfter > 0) /\ ToWeb(s)
    <3>1. /\ st'.fw = s.fw /\ st'.webBody = <<>> /\ st'.loaderBuf = st.loaderBuf
          /\ st'.fwLen = st.fwLen /\ st'.webLen = st.webLen /\ st'.loaderLen = st.loaderLen
          /\ st'.phase \in {"web", "drain"}
      BY <1>2, <1>4, <2>11, ToWebIs
    <3>2. Len(st'.fw) = st'.fwLen /\ Len(st'.fw) = ImageLen
      <4>1. st'.fwLen = ImageLen /\ s.fwLen = ImageLen /\ ~(Len(s.fw) < s.fwLen)
        BY <1>4, <2>2, <2>11, <3>1
      <4>2. Len(st'.fw) = Len(s.fw)
        BY <3>1
      <4>3. QED
        BY ONLY <2>4, <2>13, <4>1, <4>2
    <3>3. Behind = 0
      BY <1>4, <2>3, <2>4, <2>11
    <3>4. /\ got' = BodyAt + pkg.fw1 + pkg.fw2 + Len(st'.webBody)
          /\ got' >= BodyAt + pkg.fw1 + pkg.fw2 + Len(st'.webBody)
      BY <2>4, <2>7, <2>8, <3>1, <3>2, <3>3
    <3>5. Position'
      BY <2>1, <3>1, <3>2, <3>4, PositionStep
    <3>6. Sectioned'
      BY <1>4, <2>1, <2>2, <2>6, <3>1, EmptySection, SectionedStep
    <3>7. QED
      BY <3>5, <3>6 DEF InStep
  <2>12. QED
    BY <1>6, <2>9, <2>10, <2>11 DEF AfterFw
<1>7. ASSUME AfterFw(s), Consume(FwLeft), ~HeaderKnown
      PROVE  InStep'
  <2>1. pkg' = pkg
    BY <1>1, <1>2, <1>7, ConsumeIs
  <2>2. st'.need = st.need
    <3>1. CASE st' = s
      BY <1>4, <3>1
    <3>2. CASE st' = [s EXCEPT !.skip = s.skipAfter, !.skipAfter = 0, !.phase = "skip"]
      BY <1>4, <3>2 DEF Context
    <3>3. CASE ToWeb(s)
      BY <1>2, <1>4, <3>3, ToWebIs
    <3>4. QED
      BY <1>7, <3>1, <3>2, <3>3 DEF AfterFw
  <2>3. QED
    BY <1>7, <2>1, <2>2 DEF InStep, HeaderKnown
<1>8. QED
  BY <1>1, <1>5, <1>6, <1>7 DEF Fw, InStep, data, s

LEMMA FourSum ==
  ASSUME NEW a \in Nat, NEW b \in Nat, NEW c \in Nat, NEW d \in Nat
  PROVE  a + b + c + d \in Nat
  OBVIOUS

LEMMA MoreOfLast ==
  ASSUME NEW a \in Nat, NEW b \in Nat, NEW c \in Nat, NEW d \in Nat, NEW e \in Nat
  PROVE  /\ (a + b + c + d) + e = a + b + c + (d + e)
         /\ (a + b + c + d) + e \in Nat
  OBVIOUS

LEMMA WebInStep ==
  ASSUME Writes, InStep, Web
  PROVE  InStep'
<1> DEFINE data == Chunk(WebLeft)
           s == [st EXCEPT !.webBody = st.webBody \o data]
<1>1. st.phase = "web" /\ pc = "feed"
  BY DEF Web, Turn
<1>2. /\ st \in Context /\ WebLeft \in Nat /\ st.webBody \in Seq(Unit) /\ got \in Nat
  BY FieldsIs DEF Writes, TypeOK
<1>3. /\ st.webBody \o data \in Seq(Unit)
      /\ Len(st.webBody \o data) = Len(st.webBody) + AtMost(WebLeft)
      /\ AtMost(WebLeft) \in Nat
  BY <1>1, <1>2, Grows
<1> HIDE DEF data
<1>4. /\ s \in Context /\ s.fw = st.fw /\ s.webBody = st.webBody \o data
      /\ s.loaderBuf = st.loaderBuf /\ s.fwLen = st.fwLen /\ s.webLen = st.webLen
      /\ s.loaderLen = st.loaderLen /\ s.phase = "web" /\ s.need = st.need
  BY <1>1, <1>2, <1>3 DEF Context
<1> HIDE DEF s
<1>5. CASE Fail
  <2>1. st'.phase = "off"
    BY <1>5, ResetIs DEF Fail
  <2>2. QED
    BY <2>1 DEF InStep
<1>6. ASSUME st' = s \/ st' = [s EXCEPT !.phase = "drain"], Consume(WebLeft)
      PROVE  InStep'
  <2>1. /\ up' = up /\ pkg' = pkg /\ active' = active /\ got' = got + AtMost(WebLeft)
    BY <1>1, <1>2, <1>6, ConsumeIs
  <2>2. /\ st'.fw = st.fw /\ st'.webBody = st.webBody \o data
        /\ st'.loaderBuf = st.loaderBuf /\ st'.fwLen = st.fwLen /\ st'.webLen = st.webLen
        /\ st'.loaderLen = st.loaderLen /\ st'.phase \in {"web", "drain"}
        /\ st'.need = st.need
    BY <1>4, <1>6 DEF Context
  <2>3. CASE ~HeaderKnown
    BY <2>1, <2>2, <2>3 DEF InStep, HeaderKnown
  <2>4. CASE HeaderKnown
    <3>1. Sectioned /\ Position
      BY <1>1, <2>4 DEF InStep
    <3>2. /\ st.webLen = pkg.web /\ st.loaderLen = pkg.loader
          /\ st.fwLen = ImageLen /\ ImageLen > 0
          /\ st.fw = Section(ImageName, Len(st.fw))
          /\ st.loaderBuf = Section("loader", Len(st.loaderBuf))
          /\ st.webBody = Section("web", Len(st.webBody))
      BY <3>1 DEF Sectioned
    <3>3. /\ got = BodyAt + pkg.fw1 + pkg.fw2 + Len(st.webBody)
          /\ Len(st.fw) = st.fwLen
      BY <1>1, <3>1 DEF Position
    <3>4. /\ HdrLen(pkg.kind) \in Nat /\ pkg.loader \in Nat /\ pkg.fw1 \in Nat
          /\ pkg.fw2 \in Nat /\ pkg.web \in Nat
      BY PackageIs DEF Writes
    <3>5. BodyAt = HdrLen(pkg.kind) + pkg.loader
      BY DEF BodyAt
    <3> DEFINE at == HdrLen(pkg.kind) + pkg.loader + pkg.fw1 + pkg.fw2
    <3>6. at \in Nat /\ got = at + Len(st.webBody)
      <4>1. at \in Nat
        BY ONLY <3>4, FourSum
      <4>2. got = at + Len(st.webBody)
        BY ONLY <3>3, <3>5, Zenon
      <4>3. QED
        BY <4>1, <4>2
    <3>7. \A i \in 1 .. pkg.web : Stream[at + i] = Section("web", pkg.web)[i]
      BY StreamIs DEF Writes
    <3>15. st.webBody = Section("web", Len(st.webBody)) /\ pkg.web \in Nat
      BY <3>2, <3>4
    <3>8. Len(st.webBody) \in Nat /\ Len(st.webBody) + WebLeft = pkg.web
      BY <1>2, <3>2, <3>4 DEF WebLeft
    <3>9. "web" \in Sections
      BY DEF Sections
    <3> HIDE DEF at
    <3>10. st.webBody \o data = Section("web", Len(st.webBody \o data))
      <4>1. st.webBody \o Chunk(WebLeft) = Section("web", Len(st.webBody) + AtMost(WebLeft))
        <5>1. PICK old \in Seq(Unit) : old = st.webBody
          BY <1>2
        <5>2. PICK n \in Nat : n = WebLeft
          BY <1>2
        <5>3. PICK size \in Nat : size = pkg.web
          BY <3>15
        <5>4. PICK name \in Sections : name = "web"
          BY <3>9
        <5>5. /\ \A i \in 1 .. size : Stream[at + i] = Section(name, size)[i]
              /\ old = Section(name, Len(old)) /\ got = at + Len(old)
              /\ Len(old) + n = size
          BY <3>6, <3>7, <3>8, <3>15, <5>1, <5>2, <5>3, <5>4
        <5>6. old \o Chunk(n) = Section(name, Len(old) + AtMost(n))
          BY <1>1, <3>6, <5>5, Continues, ZenonT(60)
        <5>7. QED
          BY <5>1, <5>2, <5>4, <5>6
      <4>2. QED
        BY <4>1, <1>3 DEF data
    <3>11. Sectioned'
      BY <2>1, <2>2, <3>2, <3>10, SectionedStep
    <3>12. /\ got' = BodyAt + pkg.fw1 + pkg.fw2 + Len(st'.webBody)
           /\ got' >= BodyAt + pkg.fw1 + pkg.fw2 + Len(st'.webBody)
      <4>1. Len(st'.webBody) = Len(st.webBody) + AtMost(WebLeft)
        BY <1>3, <2>2
      <4>2. got' = got + AtMost(WebLeft) /\ AtMost(WebLeft) \in Nat
        BY <1>3, <2>1
      <4>3. got = BodyAt + pkg.fw1 + pkg.fw2 + Len(st.webBody)
        BY <3>3
      <4>4. /\ BodyAt \in Nat /\ pkg.fw1 \in Nat /\ pkg.fw2 \in Nat
            /\ Len(st.webBody) \in Nat
        BY <3>4, <3>5, <3>8
      <4>5. got' = BodyAt + pkg.fw1 + pkg.fw2 + (Len(st.webBody) + AtMost(WebLeft))
        <5>1. PICK a \in Nat, b \in Nat, c \in Nat, k \in Nat, e \in Nat :
                /\ a = BodyAt /\ b = pkg.fw1 /\ c = pkg.fw2 /\ k = Len(st.webBody)
                /\ e = AtMost(WebLeft)
          BY <4>2, <4>4
        <5>2. got' = (a + b + c + k) + e
          BY ONLY <4>2, <4>3, <5>1, Zenon
        <5>3. (a + b + c + k) + e = a + b + c + (k + e)
          OBVIOUS
        <5>4. QED
          BY ONLY <5>1, <5>2, <5>3, Zenon
      <4>6. got' = BodyAt + pkg.fw1 + pkg.fw2 + Len(st'.webBody)
        BY <4>1, <4>5
      <4>7. got' \in Nat
        BY ONLY <4>2, <4>3, <4>4, MoreOfLast, Zenon
      <4>8. QED
        BY ONLY <4>6, <4>7
    <3>13. Position'
      BY <2>1, <2>2, <3>3, <3>12, PositionStep
    <3>14. QED
      BY <3>11, <3>13 DEF InStep
  <2>5. QED
    BY <2>3, <2>4
<1>7. QED
  BY <1>5, <1>6 DEF Web, data, s

LEMMA StaysPast ==
  ASSUME NEW b \in Nat, NEW f \in Nat, NEW g \in Nat, NEW w \in Nat, NEW x \in Nat,
         NEW a \in Nat, x >= b + f + g + w
  PROVE  x + a >= b + f + g + w
  OBVIOUS

LEMMA DrainInStep ==
  ASSUME Writes, InStep, Drain
  PROVE  InStep'
<1>1. st.phase = "drain" /\ pc = "feed" /\ st' = st /\ Consume(seg)
  BY DEF Drain, Turn
<1>2. seg \in Nat /\ got \in Nat /\ st.webBody \in Seq(Unit)
  BY FieldsIs DEF Writes, TypeOK
<1>3. /\ up' = up /\ pkg' = pkg /\ active' = active /\ got' = got + AtMost(seg)
      /\ AtMost(seg) \in Nat
  BY <1>1, <1>2, ConsumeIs DEF AtMost
<1>4. CASE ~HeaderKnown
  BY <1>1, <1>3, <1>4 DEF InStep, HeaderKnown
<1>5. CASE HeaderKnown
  <2>1. Sectioned /\ Position
    BY <1>1, <1>5 DEF InStep
  <2>2. Sectioned'
    BY <1>1, <1>3, <2>1, SectionedStep DEF Sectioned
  <2>3. /\ got >= BodyAt + pkg.fw1 + pkg.fw2 + Len(st.webBody)
        /\ Len(st.fw) = st.fwLen
    BY <1>1, <2>1 DEF Position
  <2>4. /\ BodyAt \in Nat /\ pkg.fw1 \in Nat /\ pkg.fw2 \in Nat /\ Len(st.webBody) \in Nat
    <3>1. BodyAt \in Nat
      BY ImageAt
    <3>2. pkg.fw1 \in Nat /\ pkg.fw2 \in Nat
      BY PackageIs DEF Writes
    <3>3. QED
      BY <1>2, <3>1, <3>2
  <2>5. got' >= BodyAt + pkg.fw1 + pkg.fw2 + Len(st'.webBody)
    <3>1. st'.webBody = st.webBody /\ got \in Nat
      BY <1>1, <1>2
    <3>2. QED
      BY ONLY <1>3, <2>3, <2>4, <3>1, StaysPast
  <2>6. Position'
    BY <1>1, <1>3, <2>3, <2>5, PositionStep
  <2>7. QED
    BY <2>2, <2>6 DEF InStep
<1>6. QED
  BY <1>4, <1>5

\* A reset stream and one that only waits for its header claim nothing.
LEMMA OffInStep ==
  ASSUME st'.phase \in {"off", "hdr"}
  PROVE  InStep'
  BY DEF InStep

LEMMA StillInStep ==
  ASSUME InStep, UNCHANGED <<active, pkg, up, got, st>>
  PROVE  InStep'
<1>1. /\ BodyAt' = BodyAt /\ Before' = Before /\ Behind' = Behind
      /\ ImageLen' = ImageLen /\ ImageName' = ImageName
  BY DEF BodyAt, Before, Behind, ImageLen, ImageName
<1>2. Position => Position'
  BY <1>1 DEF Position
<1>3. Sectioned => Sectioned'
  <2>1. ASSUME NEW name, NEW n PROVE Section(name, n)' = Section(name, n)
    BY DEF Section
  <2>2. QED
    BY <1>1, <2>1 DEF Sectioned, Section
<1>4. HeaderKnown' => HeaderKnown
  BY DEF HeaderKnown
<1>5. QED
  BY <1>2, <1>3, <1>4 DEF InStep

LEMMA IInvInit == Init => IInv
<1>1. Init => Writes
  BY WritesInit
<1>2. Init => st.phase = "off"
  BY DEF Init, Reset
<1>3. QED
  BY <1>1, <1>2 DEF IInv, Writes, InStep

LEMMA IInvStep == IInv /\ [Next]_vars => IInv'
<1> SUFFICES ASSUME IInv, [Next]_vars PROVE IInv'
  OBVIOUS
<1>1. Writes /\ InStep
  BY DEF IInv, Writes
<1>2. Writes'
  BY <1>1, WritesStep
<1>3. ASSUME NEW p \in Package, NEW n \in 0 .. HdrLen(Longest) + 2, Begin(p, n)
      PROVE  InStep'
  <2>1. st'.phase = "hdr"
    BY <1>3, ResetIs DEF Begin
  <2>2. QED
    BY <2>1, OffInStep
<1>4. ASSUME NEW n \in 1 .. Len(Stream) - got, Segment(n)
      PROVE  InStep'
  <2>1. UNCHANGED <<active, pkg, up, got, st>>
    BY <1>4 DEF Segment
  <2>2. QED
    BY <1>1, <2>1, StillInStep
<1>5. ASSUME Return \/ UNCHANGED vars
      PROVE  InStep'
  <2>1. UNCHANGED <<active, pkg, up, got, st>>
    BY <1>5 DEF Return, vars
  <2>2. QED
    BY <1>1, <2>1, StillInStep
<1>7. ASSUME Finish \/ Restart
      PROVE  InStep'
  <2>1. st' = Reset
    BY <1>7 DEF Finish, Restart
  <2>2. st'.phase = "off"
    BY <2>1 DEF Reset
  <2>3. QED
    BY <2>2, OffInStep
<1>8. InStep'
  BY <1>1, <1>3, <1>4, <1>5, <1>7, HeaderInStep, LoaderInStep, SkipInStep, FwInStep,
     WebInStep, DrainInStep DEF Next, Feed
<1>9. QED
  BY <1>2, <1>8 DEF IInv, Writes

\* The context agrees with the flash behind it and the stream in front of
\* it, for every package, cut anywhere.
THEOREM IInvCorrect == Spec => []IInv
  BY IInvInit, IInvStep, PTL DEF Spec

\* An image of the promised length was planned.
LEMMA FinishSectioned ==
  ASSUME Writes, InStep, HeaderKnown, FwLeft = 0, st.fwLen > 0
  PROVE  Sectioned /\ Len(st.fw) = st.fwLen /\ st.fw \in Seq(Unit)
<1>1. st.fw \in Seq(Unit) /\ st.fwLen \in Nat
  BY FieldsIs
<1>2. Len(st.fw) = st.fwLen
  BY <1>1 DEF FwLeft
<1>3. Len(<<>>) = 0
  OBVIOUS
<1>4. st.fw # <<>>
  BY <1>2, <1>3
<1>5. st.phase \in {"off", "hdr", "loader"} => st.fw = <<>>
  BY DEF Writes, Counted
<1>6. QED
  BY <1>1, <1>2, <1>4, <1>5 DEF InStep

\* What is committed is the whole image of the slot that does not run.
THEOREM RequestIsImageCorrect == Spec => RequestIsImage
<1>1. IInv /\ [Next]_vars =>
        [(ota' # ota /\ ota' # NoRequest /\ HeaderKnown) =>
           /\ ota'.crc = Image
           /\ Read(app1, 0, Len(Image)) = Image]_vars
  <2> SUFFICES ASSUME IInv, Next, ota' # ota, ota' # NoRequest, HeaderKnown
               PROVE  ota'.crc = Image /\ Read(app1, 0, Len(Image)) = Image
    OBVIOUS
  <2>1. Finish /\ ota' = [crc |-> st.fw] /\ FwLeft = 0 /\ st.fwLen > 0
    <3>1. Finish
      BY DEF Next, Begin, Segment, Feed, Header, Loader, Skip, Fw, Web, Drain, Return,
             Restart, Consume, Fail
    <3>2. QED
      BY <3>1 DEF Finish
  <2>2. Writes /\ InStep
    BY DEF IInv, Writes
  <2>3. Sectioned /\ Len(st.fw) = st.fwLen /\ st.fw \in Seq(Unit)
    BY <2>1, <2>2, FinishSectioned
  <2>5. st.fw = Image /\ Len(st.fw) = Len(Image)
    BY <2>3 DEF Sectioned, Image
  <2>6. ota'.crc = Image
    BY <2>1, <2>5
  <2>7. Holds(app1, st.fw)
    BY <2>2 DEF Writes, Placed
  <2>8. Read(app1, 0, Len(st.fw)) = st.fw
    <3>1. Cells(app1.cell, 0, Len(st.fw)) = st.fw /\ app1.used >= Len(st.fw)
      BY <2>7 DEF Holds
    <3>2. app1.used \in Nat /\ Len(st.fw) \in Nat /\ Len(st.fw) > 0
      BY <2>1, <2>2, <2>3, AreaAssumption DEF Writes, TypeOK
    <3> HIDE DEF Cells
    <3>3. QED
      BY <3>1, <3>2 DEF Read
  <2>9. QED
    BY <2>5, <2>6, <2>8
<1>2. QED
  BY <1>1, IInvCorrect, PTL DEF Spec, RequestIsImage

-----------------------------------------------------------------------------
(* The first sector of PART_WEB                                            *)

\* A sector that is written back replaces itself and nothing else.
LEMMA SectorReplaced ==
  ASSUME NEW p, p.used \in 0 .. Area, NEW T, NEW data \in Seq(T), Len(data) = Sector
  PROVE  /\ \A a \in Address :
              AppWrite(p, 0, data).cell[a] = IF a < Sector THEN data[a + 1] ELSE p.cell[a]
         /\ AppWrite(p, 0, data).used >= p.used
         /\ AppWrite(p, 0, data).used \in Nat
<1>1. AppFits(0, Len(data)) /\ Sector \in Nat /\ Sector > 0 /\ Area \in Nat
  <2>1. Sector <= Area
    BY SectorAssumption, AreaAssumption
  <2>2. QED
    BY <2>1, SectorAssumption, AreaAssumption DEF AppFits
<1>2. AppWrite(p, 0, data).cell = AppCells(p, 0, data)
  BY DEF AppWrite
<1>3. ASSUME NEW a \in Address
      PROVE  AppCells(p, 0, data)[a] = IF a < Sector THEN data[a + 1] ELSE p.cell[a]
  <2>1. a \in Nat
    BY DEF Address
  <2>2. CASE a < Sector
    <3>1. a + 1 \in 1 .. Len(data) /\ 0 + (a + 1) - 1 = a
      BY <1>1, <2>1, <2>2
    <3>2. \A i \in 1 .. Len(data) : AppCells(p, 0, data)[0 + i - 1] = data[i]
      BY <1>1, WriteTakes
    <3>3. AppCells(p, 0, data)[0 + (a + 1) - 1] = data[a + 1]
      BY <3>1, <3>2
    <3>4. QED
      BY <2>2, <3>1, <3>3
  <2>3. CASE ~(a < Sector)
    <3>1. ~Within(a, 0, Len(data))
      BY <1>1, <2>1, <2>3 DEF Within
    <3>2. SectorOf(a) \notin AppErases(0, Len(data))
      <4>1. SUFFICES ASSUME NEW b \in Address, Within(b, 0, Len(data)),
                            SectorOf(a) = SectorOf(b)
                     PROVE  FALSE
        BY DEF AppErases
      <4>2. b \in Nat /\ b < Sector
        BY <4>1 DEF Within, Address
      <4>3. SectorOf(b) = 0
        BY <1>1, <4>2, SectorAssumption DEF SectorOf
      <4>4. a < SectorOf(a) * Sector + Sector
        BY <2>1, SectorBounds
      <4>5. QED
        BY <1>1, <2>1, <2>3, <4>1, <4>3, <4>4
    <3>3. QED
      BY <2>3, <3>1, <3>2 DEF AppCells, Program, Erase
  <2>4. QED
    BY <2>2, <2>3
<1>4. AppWrite(p, 0, data).used >= p.used /\ AppWrite(p, 0, data).used \in Nat
  BY <1>1 DEF AppWrite
<1>5. QED
  BY <1>2, <1>3, <1>4

\* What CrcSector holds: the prefix, and what stood behind the placeholder.
LEMMA CrcSectorAt ==
  ASSUME web.used \in 0 .. Area, NEW i \in 1 .. Sector
  PROVE  /\ i = 1 => CrcSector[i] = Prefix(st.webBody)
         /\ i > 1 /\ i <= web.used => CrcSector[i] = web.cell[i - 1]
<1> DEFINE old == Read(web, 0, Sector)
           rest == [k \in 1 .. Sector - 1 |->
                      IF k + 1 <= Len(old) THEN old[k + 1] ELSE Garbage]
           T == {rest[k] : k \in 1 .. Sector - 1} \cup {Prefix(st.webBody)}
           ph == <<Prefix(st.webBody)>>
<1>1. Sector \in Nat /\ Sector > 0 /\ rest \in [1 .. Sector - 1 -> T] /\ Area \in Nat
  BY SectorAssumption, AreaAssumption
<1>2. CrcSector = ph \o rest
  BY DEF CrcSector
<1>3. \A k \in 1 .. Sector - 1 :
        rest[k] = IF k + 1 <= Len(old) THEN old[k + 1] ELSE Garbage
  OBVIOUS
<1>4. i <= web.used => Len(old) >= i /\ old[i] = web.cell[i - 1]
  <2> DEFINE n == IF 0 + Sector > web.used THEN web.used - 0 ELSE Sector
  <2>1. SUFFICES ASSUME i <= web.used PROVE Len(old) >= i /\ old[i] = web.cell[i - 1]
    OBVIOUS
  <2>2. n \in Nat /\ i \in 1 .. n
    BY <1>1, <2>1
  <2>3. old = Cells(web.cell, 0, n)
    BY <1>1, <2>1 DEF Read
  <2> HIDE DEF n, old
  <2>4. Len(Cells(web.cell, 0, n)) = n /\ Cells(web.cell, 0, n)[i] = web.cell[0 + i - 1]
    BY <2>2 DEF Cells
  <2>5. 0 + i - 1 = i - 1
    OBVIOUS
  <2>6. QED
    BY <2>2, <2>3, <2>4, <2>5
<1> HIDE DEF rest, old
<1>5. rest \in Seq(T) /\ Len(rest) = Sector - 1
  <2> HIDE DEF T
  <2>1. QED
    BY <1>1, FunctionIsSequence
<1>6. ph \in Seq(T) /\ Len(ph) = 1 /\ ph[1] = Prefix(st.webBody)
  OBVIOUS
<1> HIDE DEF T, ph
<1>7. CASE i = 1
  BY <1>1, <1>2, <1>5, <1>6, <1>7, Joined
<1>8. CASE i > 1
  <2> DEFINE k == i - 1
  <2>1. k \in 1 .. Sector - 1 /\ Len(ph) + k = i /\ k + 1 = i
    BY <1>1, <1>6, <1>8
  <2>2. CrcSector[Len(ph) + k] = rest[k]
    <3>1. PICK x \in Seq(T) : x = ph
      BY <1>6
    <3>2. PICK y \in Seq(T) : y = rest
      BY <1>5
    <3>3. \A j \in 1 .. Len(y) : (x \o y)[Len(x) + j] = y[j]
      BY Joined
    <3>4. k \in 1 .. Len(y)
      BY <1>5, <2>1, <3>2
    <3>5. (x \o y)[Len(x) + k] = y[k]
      BY <3>3, <3>4
    <3>6. QED
      BY <1>2, <3>1, <3>2, <3>5
  <2>3. rest[k] = IF k + 1 <= Len(old) THEN old[k + 1] ELSE Garbage
    BY <1>3, <2>1
  <2> HIDE DEF k
  <2>4. i <= web.used => rest[k] = web.cell[i - 1]
    BY <1>4, <2>1, <2>3
  <2>5. QED
    BY <1>8, <2>1, <2>2, <2>4
<1>9. QED
  BY <1>7, <1>8

\* Before a request with a web section is committed, PART_WEB holds the
\* section behind the checksum of it.
THEOREM WebIsImageCorrect == Spec => WebIsImage
<1>1. ASSUME IInv, Next, ota' # ota, ota' # NoRequest, HeaderKnown, pkg.web > 0
      PROVE  LET body == Section("web", pkg.web)
             IN  Read(web', 0, 1 + pkg.web) = <<Prefix(body)>> \o body
  <2> DEFINE n == pkg.web
             body == Section("web", n)
             ph == <<Placeholder>>
             new == <<Prefix(body)>>
  <2>1. /\ Finish /\ FwLeft = 0 /\ st.fwLen > 0
        /\ st.webLen = 0 \/ WebLeft = 0
        /\ st.webLen > 0 => web' = AppWrite(web, 0, CrcSector)
    <3>1. Finish
      BY <1>1 DEF Next, Begin, Segment, Feed, Header, Loader, Skip, Fw, Web, Drain, Return,
             Restart, Consume, Fail
    <3> HIDE DEF CrcSector
    <3>2. QED
      BY <1>1, <3>1 DEF Finish
  <2>2. Writes /\ InStep
    BY <1>1 DEF IInv, Writes
  <2>3. Sectioned
    BY <1>1, <2>1, <2>2, FinishSectioned
  <2>4. n \in Nat /\ st.webLen = n
    BY <2>2, <2>3, PackageIs DEF Writes, Sectioned
  <2>5. st.webBody \in Seq(Unit) /\ Len(st.webBody) = n
    BY <1>1, <2>1, <2>2, <2>4, FieldsIs DEF WebLeft
  <2>6. st.webBody = body
    BY <2>3, <2>5 DEF Sectioned
  <2>7. web' = AppWrite(web, 0, CrcSector)
    BY <1>1, <2>1, <2>4
  <2> HIDE DEF n, body
  <2>8. body \in Seq(Unit) /\ Len(body) = n /\ n > 0
    BY <1>1, <2>5, <2>6 DEF n
  <2>9. web.used \in 0 .. Area /\ Area \in Nat /\ Sector \in Nat /\ Sector > 0
    BY <2>2, SectorAssumption, AreaAssumption DEF Writes, TypeOK
  <2>10. Holds(web, ph \o body)
    <3>1. body # <<>>
      <4>1. Len(<<>>) = 0
        OBVIOUS
      <4>2. QED
        BY <2>8, <4>1
    <3>2. QED
      BY <2>2, <2>6, <3>1 DEF Writes, Placed
  <2> DEFINE T == Unit \cup {Placeholder, Prefix(body)}
  <2>11. /\ ph \in Seq(T) /\ Len(ph) = 1 /\ new \in Seq(T) /\ Len(new) = 1
         /\ new[1] = Prefix(body)
    OBVIOUS
  <2>12. body \in Seq(T)
    <3>1. Unit \subseteq T
      OBVIOUS
    <3> HIDE DEF T
    <3>2. QED
      BY <2>8, <3>1, SeqMonotonic
  <2> HIDE DEF T, ph, new
  <2>13. /\ Len(ph \o body) = 1 + n
         /\ \A k \in 1 .. n : (ph \o body)[1 + k] = body[k]
         /\ new \o body \in Seq(T) /\ Len(new \o body) = 1 + n
         /\ (new \o body)[1] = Prefix(body)
         /\ \A k \in 1 .. n : (new \o body)[1 + k] = body[k]
    <3> DEFINE Join(a, b) ==
                 /\ a \o b \in Seq(T) /\ Len(a \o b) = Len(a) + Len(b)
                 /\ \A k \in 1 .. Len(a) : (a \o b)[k] = a[k]
                 /\ \A k \in 1 .. Len(b) : (a \o b)[Len(a) + k] = b[k]
    <3>4. \A a, b \in Seq(T) : Join(a, b)
      BY Joined
    <3> HIDE DEF Join
    <3>5. Join(ph, body) /\ Join(new, body)
      BY <2>11, <2>12, <3>4
    <3>1. /\ Len(ph \o body) = Len(ph) + Len(body)
          /\ \A k \in 1 .. Len(body) : (ph \o body)[Len(ph) + k] = body[k]
      BY <3>5 DEF Join
    <3>2. /\ new \o body \in Seq(T) /\ Len(new \o body) = Len(new) + Len(body)
          /\ \A k \in 1 .. Len(new) : (new \o body)[k] = new[k]
          /\ \A k \in 1 .. Len(body) : (new \o body)[Len(new) + k] = body[k]
      BY <3>5 DEF Join
    <3>3. QED
      BY <2>8, <2>11, <3>1, <3>2
  <2>14. /\ web.used >= 1 + n
         /\ \A i \in 1 .. 1 + n : web.cell[i - 1] = (ph \o body)[i]
    <3>1. Cells(web.cell, 0, 1 + n) = ph \o body /\ web.used >= 1 + n
      BY <2>10, <2>13 DEF Holds
    <3>2. ASSUME NEW i \in 1 .. 1 + n PROVE web.cell[i - 1] = (ph \o body)[i]
      <4>1. Cells(web.cell, 0, 1 + n)[i] = web.cell[0 + i - 1] /\ 0 + i - 1 = i - 1
        BY <2>4 DEF Cells
      <4>2. QED
        BY <3>1, <4>1
    <3>3. QED
      BY <3>1, <3>2
  <2>15. /\ \A a \in Address :
              web'.cell[a] = IF a < Sector THEN CrcSector[a + 1] ELSE web.cell[a]
         /\ web'.used >= web.used /\ web'.used \in Nat
    <3> HIDE DEF CrcSector
    <3>1. QED
      BY <2>7, <2>9, CrcSectorIs, SectorReplaced
  <2>16. ASSUME NEW i \in 1 .. 1 + n
         PROVE  web'.cell[i - 1] = (new \o body)[i]
    <3> HIDE DEF CrcSector
    <3>1. i - 1 \in Address /\ i \in Nat /\ i <= web.used /\ (i - 1) + 1 = i
      BY <2>4, <2>9, <2>14 DEF Address
    <3>2. CASE i = 1
      <4>1. web'.cell[i - 1] = CrcSector[i]
        BY <2>9, <2>15, <3>1, <3>2
      <4>2. CrcSector[i] = Prefix(st.webBody)
        BY <2>9, <3>2, CrcSectorAt
      <4>3. QED
        BY <2>6, <2>13, <3>2, <4>1, <4>2
    <3>3. CASE i > 1
      <4>1. i - 1 \in 1 .. n /\ 1 + (i - 1) = i
        BY <2>4, <3>1, <3>3
      <4>2. (new \o body)[i] = (ph \o body)[i]
        BY <2>13, <4>1
      <4>3. web'.cell[i - 1] = web.cell[i - 1]
        <5>1. CASE i - 1 < Sector
          <6>1. i \in 1 .. Sector
            BY <2>9, <3>1, <3>3, <5>1
          <6>2. CrcSector[i] = web.cell[i - 1]
            BY <2>9, <3>1, <3>3, <6>1, CrcSectorAt
          <6>3. QED
            BY <2>15, <3>1, <5>1, <6>2
        <5>2. CASE ~(i - 1 < Sector)
          BY <2>15, <3>1, <5>2
        <5>3. QED
          BY <5>1, <5>2
      <4>4. QED
        BY <2>14, <4>2, <4>3
    <3>4. i = 1 \/ i > 1
      BY <2>4
    <3>5. QED
      BY <3>2, <3>3, <3>4
  <2>17. Cells(web'.cell, 0, 1 + n) = new \o body
    <3>1. Cells(web'.cell, 0, 1 + n) = [i \in 1 .. 1 + n |-> (new \o body)[i]]
      <4>1. \A i \in 1 .. 1 + n : 0 + i - 1 = i - 1
        BY <2>4
      <4>2. QED
        BY <2>16, <4>1 DEF Cells
    <3>2. QED
      BY <2>13, <3>1
  <2>18. Read(web', 0, 1 + n) = Cells(web'.cell, 0, 1 + n)
    <3>1. web'.used >= 1 + n /\ web'.used > 0
      BY <2>4, <2>9, <2>14, <2>15
    <3> HIDE DEF Cells
    <3>2. QED
      BY <2>4, <2>15, <3>1 DEF Read
  <2>19. QED
    BY <2>17, <2>18 DEF body, new, n
<1>2. IInv /\ [Next]_vars =>
        [(ota' # ota /\ ota' # NoRequest /\ HeaderKnown /\ pkg.web > 0) =>
           LET body == Section("web", pkg.web)
           IN  Read(web', 0, 1 + pkg.web) = <<Prefix(body)>> \o body]_vars
  BY <1>1
<1>3. QED
  BY <1>2, IInvCorrect, PTL DEF Spec, WebIsImage
=============================================================================
