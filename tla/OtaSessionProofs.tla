-------------------------- MODULE OtaSessionProofs --------------------------
(***************************************************************************)
(* Theorems of OtaSession, for any connections, packages and segment count.*)
(***************************************************************************)
EXTENDS OtaSession, SequenceTheorems, TLAPS

LEMMA Records ==
  /\ Free \in ConnType /\ Open \in ConnType
  /\ \A k \in Ota : PartOf(k) \in ConnType
  /\ \A k \in Ota, p \in Pkg : Post(k, p) \in ConnType
  /\ Post("json", None) \in ConnType
  /\ NoOwner \in [Ota -> Conn \cup {None}]
<1>1. 0 \in 0..Segs /\ 1 \in 0..Segs /\ \A p \in Pkg : Length[p] \in 0..Segs
  BY OtaSessionAssumption
<1>2. Free \in ConnType
  BY <1>1 DEF Free, ConnType
<1>3. Open \in ConnType
  BY <1>1 DEF Open, Free, ConnType
<1>4. \A k \in Ota : PartOf(k) \in ConnType
  BY <1>1 DEF PartOf, Free, ConnType
<1>5. \A k \in Ota, p \in Pkg : Post(k, p) \in ConnType
  BY <1>1 DEF Post, ConnType, Ota
<1>6. Post("json", None) \in ConnType
  BY <1>1 DEF Post, ConnType
<1>7. NoOwner \in [Ota -> Conn \cup {None}]
  BY DEF NoOwner
<1> QED BY <1>2, <1>3, <1>4, <1>5, <1>6, <1>7

\* MInv does not depend on busy, susp and cap.
LEMMA SameInv ==
  ASSUME NEW h, NEW g, MInv(h), g \in MemType,
         g.conn = h.conn, g.gs = h.gs, g.buf = h.buf, g.stream = h.stream
  PROVE  MInv(g)
BY DEF MInv, Counted, Registered, Filled

LEMMA FinishHeapInv == ASSUME NEW h, MInv(h) PROVE MInv(FinishHeap(h))
<1>1. FinishHeap(h) \in MemType
  BY DEF FinishHeap, MInv, MemType
<1>2. /\ FinishHeap(h).conn = h.conn /\ FinishHeap(h).gs = h.gs
      /\ FinishHeap(h).buf = h.buf /\ FinishHeap(h).stream = h.stream
  BY DEF FinishHeap, MInv, MemType
<1> QED BY <1>1, <1>2, SameInv

\* Others may be closed, c is as it was.
Kept(g, h, c) ==
  /\ g.conn[c] = h.conn[c]
  /\ \A d \in Conn : g.conn[d] \in {h.conn[d], Free}

\* With no owner nothing needs to be in the buffer.
LEMMA PostFinishedInv ==
  ASSUME NEW h, MInv(h)
  PROVE  /\ MInv(PostFinished(h))
         /\ PostFinished(h).conn = h.conn /\ PostFinished(h).gs = NoOwner
         /\ PostFinished(h).stream = h.stream /\ PostFinished(h).buf = None
<1> DEFINE g == [h EXCEPT !.buf = None, !.gs = NoOwner]
<1>1. g \in MemType
  BY Records DEF MInv, MemType
<1>2. g.conn = h.conn /\ g.gs = NoOwner /\ g.stream = h.stream /\ g.buf = None
  BY DEF MInv, MemType
<1>3. \A c \in Conn, k \in Ota : NoOwner[k] = None /\ None # c
  BY OtaSessionAssumption DEF NoOwner
<1>4. MInv(g)
  <2>1. Counted(g)
    BY <1>2 DEF MInv, Counted
  <2>2. \A c \in Conn, k \in Ota : g.gs[k] # c
    BY <1>2, <1>3
  <2> HIDE DEF g
  <2>3. g.gs["web"] = None \/ g.gs["fw"] = None
    BY <1>2 DEF NoOwner, Ota
  <2>4. Registered(g)
    BY <2>2, <2>3 DEF Registered
  <2>5. Filled(g)
    BY <2>2 DEF Filled, Ota
  <2> QED BY <1>1, <2>1, <2>4, <2>5 DEF MInv
<1>5. /\ FinishHeap(g).conn = g.conn /\ FinishHeap(g).gs = g.gs
      /\ FinishHeap(g).stream = g.stream /\ FinishHeap(g).buf = g.buf
  BY <1>1 DEF FinishHeap, MemType
<1> QED BY <1>2, <1>4, <1>5, FinishHeapInv DEF PostFinished

\* Connections D replaced by v.
Replace(h, D, v) == [h EXCEPT !.conn = [d \in Conn |-> IF d \in D THEN v ELSE h.conn[d]]]

\* A connection replaced by one that has received nothing.
LEMMA ReplaceInv ==
  ASSUME NEW h, MInv(h), NEW D \in SUBSET Conn, NEW v \in ConnType, v.recved = 0,
         IF v.st # "body" THEN v.left = 0
         ELSE /\ v.left <= v.len
              /\ \/ v.kind \in Ota /\ v.pkg \in Pkg /\ v.len = Length[v.pkg]
                 \/ v.kind = "json" /\ v.pkg = None /\ v.len = 1
              /\ \A c \in D, k \in Ota : h.gs[k] = c => v.kind \in {k, "json"}
  PROVE  LET g == Replace(h, D, v) IN
         /\ MInv(g) /\ g.gs = h.gs /\ g.buf = h.buf /\ g.stream = h.stream
         /\ \A d \in Conn : g.conn[d] = IF d \in D THEN v ELSE h.conn[d]
<1> DEFINE g == Replace(h, D, v)
<1>1. g \in MemType
  BY DEF MInv, MemType, Replace
<1>2. g.gs = h.gs /\ g.buf = h.buf /\ g.stream = h.stream
  BY DEF MInv, MemType, Replace
<1>3. \A d \in Conn : g.conn[d] = IF d \in D THEN v ELSE h.conn[d]
  BY DEF MInv, MemType, Replace
<1>4. Counted(h) /\ Registered(h) /\ Filled(h) /\ v.left \in Nat
  BY DEF MInv, ConnType
<1> HIDE DEF g
<1>5. Counted(g)
  <2> SUFFICES ASSUME NEW c \in Conn
               PROVE  LET x == g.conn[c] IN
                      IF x.st # "body" THEN x.left = 0 /\ x.recved = 0
                      ELSE /\ x.left + x.recved <= x.len
                           /\ \/ x.kind \in Ota /\ x.pkg \in Pkg /\ x.len = Length[x.pkg]
                              \/ x.kind = "json" /\ x.pkg = None /\ x.len = 1
    BY DEF Counted
  <2>1. CASE c \in D
    <3>1. g.conn[c] = v /\ (v.left \in Nat => v.left + 0 = v.left)
      BY <1>3, <2>1
    <3> QED BY <1>4, <3>1
  <2>2. CASE c \notin D
    <3>1. g.conn[c] = h.conn[c]
      BY <1>3, <2>2
    <3> QED BY <1>4, <3>1 DEF Counted
  <2> QED BY <2>1, <2>2
<1>6. Registered(g)
  BY <1>2, <1>3, <1>4 DEF Registered
<1>7. Filled(g)
  <2>1. \A d \in Conn : g.conn[d].recved > 0 => g.conn[d] = h.conn[d]
    BY <1>3
  <2>2. Filled(h)
    BY <1>4
  <2> QED BY ONLY <1>2, <2>1, <2>2 DEF Filled
<1> QED BY <1>1, <1>2, <1>3, <1>5, <1>6, <1>7 DEF MInv, g

LEMMA FreeInv ==
  ASSUME NEW h, MInv(h), NEW D \in SUBSET Conn
  PROVE  LET g == Replace(h, D, Free) IN
         /\ MInv(g) /\ g.gs = h.gs /\ g.buf = h.buf /\ g.stream = h.stream
         /\ \A d \in Conn : g.conn[d] = IF d \in D THEN Free ELSE h.conn[d]
<1>1. Free.st = "free" /\ Free.left = 0 /\ Free.recved = 0
  BY DEF Free
<1> QED BY <1>1, Records, ReplaceInv

LEMMA ReplaceOne ==
  ASSUME NEW h \in MemType, NEW c \in Conn, NEW v
  PROVE  [h EXCEPT !.conn[c] = v] = Replace(h, {c}, v)
BY DEF MemType, Replace

LEMMA CloseConnInv ==
  ASSUME NEW h, MInv(h), NEW c \in Conn
  PROVE  /\ MInv(CloseConn(h, c))
         /\ \A d \in Conn : CloseConn(h, c).conn[d] = IF d = c THEN Free ELSE h.conn[d]
<1> DEFINE g == IF h.conn[c].left # 0 THEN PostFinished(h) ELSE h
<1>1. MInv(g) /\ g.conn = h.conn
  BY PostFinishedInv
<1>2. CloseConn(h, c) = [g EXCEPT !.conn[c] = Free]
  BY DEF CloseConn
<1> HIDE DEF g
<1>3. CloseConn(h, c) = Replace(g, {c}, Free)
  BY <1>1, <1>2, ReplaceOne DEF MInv
<1>4. {c} \in SUBSET Conn
  OBVIOUS
<1> QED BY <1>1, <1>3, <1>4, FreeInv

LEMMA CloseAllInv ==
  ASSUME NEW h, MInv(h), NEW c \in Conn
  PROVE  LET g == CloseAllExcept(h, c) IN
         /\ MInv(g) /\ Kept(g, h, c)
         /\ g.gs \in {h.gs, NoOwner} /\ g.stream = h.stream /\ g.buf \in {h.buf, None}
<1> DEFINE g == IF \E d \in Conn \ {c} : h.conn[d].left # 0 THEN PostFinished(h) ELSE h
           x == CloseAllExcept(h, c)
<1>1. /\ MInv(g) /\ g.conn = h.conn
      /\ g.gs \in {h.gs, NoOwner} /\ g.stream = h.stream /\ g.buf \in {h.buf, None}
  BY PostFinishedInv
<1>2. x = Replace(g, Conn \ {c}, Free)
  BY <1>1 DEF CloseAllExcept, MInv, MemType, Replace
<1> HIDE DEF g, x
<1>3. Conn \ {c} \in SUBSET Conn
  OBVIOUS
<1>4. /\ MInv(x) /\ x.gs = g.gs /\ x.buf = g.buf /\ x.stream = g.stream
      /\ \A d \in Conn : x.conn[d] = IF d \in Conn \ {c} THEN Free ELSE g.conn[d]
  BY <1>1, <1>2, <1>3, FreeInv
<1>5. Kept(x, h, c)
  BY <1>1, <1>4 DEF Kept
<1> QED BY <1>1, <1>4, <1>5 DEF x

\* ota_prepare_heap, called for the owner, releases a buffer nobody filled.
LEMMA PrepareHeapInv ==
  ASSUME NEW h, MInv(h), NEW c \in Conn, h.conn[c].recved = 0,
         h.gs["fw"] \in {c, None}, h.gs["web"] \in {c, None}
  PROVE  LET g == PrepareHeap(h, c) IN
         /\ MInv(g) /\ Kept(g, h, c)
         /\ g.gs \in {h.gs, NoOwner} /\ g.stream = h.stream /\ g.buf \in {h.buf, None}
<1> DEFINE g == [h EXCEPT !.buf = None, !.busy = TRUE]
           k == CloseAllExcept(g, c)
           z == [k EXCEPT !.susp = TRUE]
<1>1. g \in MemType /\ g.conn = h.conn /\ g.gs = h.gs /\ g.stream = h.stream /\ g.buf = None
  BY DEF MInv, MemType
<1>2. Counted(g) /\ Registered(g)
  BY <1>1 DEF MInv, Counted, Registered
<1>3. Filled(g)
  BY <1>1, OtaSessionAssumption DEF MInv, Filled
<1>4. MInv(g)
  BY <1>1, <1>2, <1>3 DEF MInv
<1> HIDE DEF g
<1>5. /\ MInv(k) /\ Kept(k, g, c)
      /\ k.gs \in {g.gs, NoOwner} /\ k.stream = g.stream /\ k.buf \in {g.buf, None}
  BY <1>4, CloseAllInv
<1> HIDE DEF k
<1>6. z \in MemType /\ z.conn = k.conn /\ z.gs = k.gs /\ z.buf = k.buf /\ z.stream = k.stream
  BY <1>5 DEF MInv, MemType
<1>7. MInv(z)
  BY <1>5, <1>6, SameInv
<1>8. PrepareHeap(h, c) = IF h.busy THEN h ELSE z
  BY DEF PrepareHeap, g, k
<1> HIDE DEF z
<1>9. Kept(z, h, c) /\ Kept(h, h, c)
  BY <1>1, <1>5, <1>6 DEF Kept
<1> QED BY <1>1, <1>5, <1>6, <1>7, <1>8, <1>9

\* A new owner has received nothing yet.
LEMMA RegisterInv ==
  ASSUME NEW h, MInv(h), NEW c \in Conn, NEW k \in Ota,
         h.conn[c].recved = 0, h.conn[c].st # "body"
  PROVE  LET g == Register(h, c, k) IN
         /\ MInv(g) /\ Kept(g, h, c)
         /\ g.gs \in {NoOwner, [NoOwner EXCEPT ![k] = c]}
<1> DEFINE o == [NoOwner EXCEPT ![k] = c]
           g == [h EXCEPT !.gs = o]
<1>1. /\ o \in [Ota -> Conn \cup {None}] /\ o["fw"] \in {c, None} /\ o["web"] \in {c, None}
      /\ o["web"] = None \/ o["fw"] = None
      /\ \A j \in Ota, d \in Conn : o[j] = d => d = c
  BY OtaSessionAssumption DEF NoOwner, Ota
<1>2. g \in MemType /\ g.conn = h.conn /\ g.gs = o
  BY <1>1 DEF MInv, MemType
<1>3. Counted(h) /\ Registered(h) /\ Filled(h)
  BY DEF MInv
<1>4. Register(h, c, k) = PrepareHeap(g, c)
  BY DEF Register
<1> HIDE DEF g, o
<1>5. Counted(g)
  BY <1>2, <1>3 DEF Counted
<1>6. Registered(g)
  BY <1>1, <1>2, <1>3 DEF Registered
<1>7. Filled(g)
  <2>1. \A d \in Conn, j \in Ota : g.gs[j] = d => ~(g.conn[d].recved > 0)
    BY <1>1, <1>2
  <2> QED BY <2>1 DEF Filled, Ota
<1>8. MInv(g)
  BY <1>2, <1>5, <1>6, <1>7 DEF MInv
<1>9. Kept(PrepareHeap(g, c), g, c) => Kept(PrepareHeap(g, c), h, c)
  BY <1>2 DEF Kept
<1>10. /\ MInv(PrepareHeap(g, c)) /\ Kept(PrepareHeap(g, c), g, c)
       /\ PrepareHeap(g, c).gs \in {g.gs, NoOwner}
  BY <1>1, <1>2, <1>8, PrepareHeapInv
<1> QED BY <1>2, <1>4, <1>9, <1>10 DEF o

-----------------------------------------------------------------------------
\* A segment is received.

\* g is h after c has received a segment, others closed perhaps.
Grown(g, h, c) ==
  /\ g.conn[c] = [h.conn[c] EXCEPT !.recved = @ + 1]
  /\ \A d \in Conn \ {c} : g.conn[d] \in {h.conn[d], Free}

\* Connection c has a body, and a segment of it has come.
Receiving(h, c) ==
  /\ h.conn[c].st = "body"
  /\ h.conn[c].left + h.conn[c].recved < h.conn[c].len

LEMMA ReceivingFacts ==
  ASSUME NEW h, MInv(h), NEW c \in Conn, Receiving(h, c)
  PROVE  /\ h.conn[c].left \in Nat /\ h.conn[c].recved \in Nat
         /\ h.conn[c].len \in 0..Segs /\ h.conn[c].recved + 1 \in 1..Segs
         /\ h.conn[c].len \in Nat /\ h.conn[c].len >= 1
         /\ h.conn[c] \in ConnType
         /\ [h.conn[c] EXCEPT !.recved = @ + 1] \in ConnType
<1>1. h.conn[c] \in ConnType
  BY DEF MInv, MemType
<1>2. /\ h.conn[c].left \in Nat /\ h.conn[c].recved \in Nat
      /\ h.conn[c].len \in 0..Segs /\ h.conn[c].recved + 1 \in 1..Segs
  BY <1>1, OtaSessionAssumption DEF ConnType, Receiving
<1>3. h.conn[c].recved + 1 \in 0..Segs
  BY <1>2, OtaSessionAssumption
<1>5. h.conn[c].len \in Nat /\ h.conn[c].len >= 1
  <2>1. h.conn[c].len \in Nat
    BY <1>2, OtaSessionAssumption
  <2> QED BY <1>2, <2>1 DEF Receiving
<1>4. [h.conn[c] EXCEPT !.recved = @ + 1] \in ConnType
  BY <1>1, <1>3 DEF ConnType
<1> QED BY <1>1, <1>2, <1>4, <1>5

LEMMA GrownInv ==
  ASSUME NEW h, MInv(h), NEW c \in Conn, Receiving(h, c),
         NEW g \in MemType, Grown(g, h, c), g.gs = h.gs \/ g.gs = NoOwner, Filled(g)
  PROVE  MInv(g)
<1>1. /\ g.conn[c].st = h.conn[c].st /\ g.conn[c].kind = h.conn[c].kind
      /\ g.conn[c].pkg = h.conn[c].pkg /\ g.conn[c].len = h.conn[c].len
      /\ g.conn[c].left = h.conn[c].left /\ g.conn[c].recved = h.conn[c].recved + 1
  BY ReceivingFacts DEF Grown, ConnType
<1>2. Free.st = "free" /\ Free.left = 0 /\ Free.recved = 0
  BY DEF Free
<1>3. Counted(g)
  <2> SUFFICES ASSUME NEW d \in Conn
               PROVE  LET x == g.conn[d] IN
                      IF x.st # "body" THEN x.left = 0 /\ x.recved = 0
                      ELSE /\ x.left + x.recved <= x.len
                           /\ \/ x.kind \in Ota /\ x.pkg \in Pkg /\ x.len = Length[x.pkg]
                              \/ x.kind = "json" /\ x.pkg = None /\ x.len = 1
    BY DEF Counted
  <2>1. CASE d = c
    <3>1. g.conn[c].left + g.conn[c].recved <= g.conn[c].len
      <4>1. h.conn[c].left \in Nat /\ h.conn[c].recved \in Nat
        BY ReceivingFacts
      <4>2. h.conn[c].len \in 0..Segs
        BY ReceivingFacts
      <4>3. h.conn[c].left + (h.conn[c].recved + 1) <= h.conn[c].len
        BY <4>1, <4>2, OtaSessionAssumption DEF Receiving
      <4> QED BY <1>1, <4>3
    <3>2. LET x == h.conn[c] IN
             \/ x.kind \in Ota /\ x.pkg \in Pkg /\ x.len = Length[x.pkg]
             \/ x.kind = "json" /\ x.pkg = None /\ x.len = 1
      BY DEF MInv, Counted, Receiving
    <3> QED BY <1>1, <2>1, <3>1, <3>2 DEF Receiving
  <2>2. CASE d # c
    <3>1. g.conn[d] \in {h.conn[d], Free}
      BY <2>2 DEF Grown
    <3> QED BY <1>2, <3>1 DEF MInv, Counted
  <2> QED BY <2>1, <2>2
<1>4. Registered(g)
  <2>1. CASE g.gs = NoOwner
    <3>1. \A d \in Conn, k \in Ota : g.gs[k] # d
      BY <2>1, OtaSessionAssumption DEF NoOwner
    <3>2. g.gs["web"] = None
      BY <2>1 DEF NoOwner, Ota
    <3> QED BY <3>1, <3>2 DEF Registered
  <2>2. CASE g.gs = h.gs
    <3>1. \A d \in Conn : g.conn[d].st = "body" =>
             h.conn[d].st = "body" /\ g.conn[d].kind = h.conn[d].kind
      BY <1>1, <1>2 DEF Grown
    <3> QED BY <2>2, <3>1 DEF MInv, Registered
  <2> QED BY <2>1, <2>2
<1> QED BY <1>3, <1>4 DEF MInv

\* A buffer for the upload of c: it has received nothing.
LEMMA AllocFacts ==
  ASSUME NEW h, MInv(h), NEW c \in Conn, h.conn[c].recved = 0,
         h.gs["fw"] \in {c, None}, h.gs["web"] \in {c, None}
  PROVE  LET g == Alloc(h, c) IN
         /\ MInv(g) /\ Kept(g, h, c) /\ g.conn = h.conn /\ g.gs = h.gs
         /\ g.stream = h.stream /\ g.busy = h.busy /\ g.susp = h.susp
         /\ g.buf # None /\ g.cap = h.conn[c].len
<1> DEFINE b == [k \in 1..Segs |-> None]
           g == Alloc(h, c)
<1>1. b \in Buffer /\ b # None /\ h.conn[c].len \in 0..Segs
  <2>1. b \in Buffer
    BY DEF Buffer
  <2>2. b # None
    BY <2>1, OtaSessionAssumption
  <2>3. h.conn[c].len \in 0..Segs
    BY DEF MInv, MemType, ConnType
  <2> QED BY <2>1, <2>2, <2>3
<1> HIDE DEF b
<1>2. /\ g.conn = h.conn /\ g.gs = h.gs /\ g.stream = h.stream /\ g.busy = h.busy
      /\ g.susp = h.susp /\ g.buf = b /\ g.cap = h.conn[c].len
  BY DEF Alloc, MInv, MemType, b
<1>3. g \in MemType
  BY <1>1 DEF Alloc, MInv, MemType, b
<1> HIDE DEF g
<1>4. Counted(g) /\ Registered(g)
  BY <1>2 DEF MInv, Counted, Registered
<1>5. Filled(g)
  <2>1. ASSUME NEW d \in Conn, NEW k \in Ota, h.gs[k] = d
        PROVE  ~(h.conn[d].recved > 0)
    BY <2>1, OtaSessionAssumption DEF Ota
  <2> QED BY <1>2, <2>1 DEF Filled, Ota
<1> QED BY <1>1, <1>2, <1>3, <1>4, <1>5 DEF MInv, Kept, g

LEMMA PutFacts ==
  ASSUME NEW h, MInv(h), NEW c \in Conn, Receiving(h, c), NEW s \in Segment,
         h.buf # None
  PROVE  LET g == Put(h, c, s)
             i == h.conn[c].recved + 1 IN
         /\ g \in MemType /\ Grown(g, h, c)
         /\ g.gs = h.gs /\ g.stream = h.stream /\ g.buf # None
         /\ g.buf[i] = s /\ g.cap = h.cap
         /\ \A j \in 1..Segs : j # i => g.buf[j] = h.buf[j]
<1> DEFINE i == h.conn[c].recved + 1
           d == [h.buf EXCEPT ![i] = s]
           x == [h.conn[c] EXCEPT !.recved = @ + 1]
           g == Put(h, c, s)
<1>1. i \in 1..Segs /\ x \in ConnType
  BY ReceivingFacts
<1>2. h.buf \in Buffer
  BY DEF MInv, MemType
<1>3. /\ d \in Buffer /\ d[i] = s
      /\ \A j \in 1..Segs : j # i => d[j] = h.buf[j]
  BY <1>1, <1>2 DEF Buffer
<1>4. /\ g.buf = d /\ g.gs = h.gs /\ g.stream = h.stream
      /\ g.busy = h.busy /\ g.susp = h.susp /\ g.cap = h.cap
      /\ g.conn = [h.conn EXCEPT ![c] = x]
      /\ DOMAIN g = DOMAIN h
  BY DEF Put, MInv, MemType
<1>5. g \in MemType
  BY <1>1, <1>3, <1>4 DEF Put, MInv, MemType
<1>6. Grown(g, h, c)
  BY <1>4 DEF Grown, MInv, MemType
<1>7. d # None
  BY <1>3, OtaSessionAssumption
<1> QED BY <1>3, <1>4, <1>5, <1>6, <1>7

\* What the effect e of a segment for c may be.
Effect(h, c, e) ==
  /\ MInv(e.mem) /\ FwWhole(e.new) /\ e.new.kind \in Ota \cup {None}
  /\ \/ e.mem = Start
     \/ Grown(e.mem, h, c)
     \/ Kept(e.mem, h, c) /\ h.conn[c].kind # "fw"

LEMMA StartInv == MInv(Start) /\ \A c \in Conn : Start.conn[c] = Free
<1>1. Start \in MemType
  BY Records, OtaSessionAssumption DEF Start, MemType
<1>2. Free.st = "free" /\ Free.left = 0 /\ Free.recved = 0
  BY DEF Free
<1>3. \A c \in Conn : Start.conn[c] = Free
  BY DEF Start
<1>4. Start.gs["web"] = None
  BY DEF Start, NoOwner, Ota
<1>5. Counted(Start)
  BY <1>2, <1>3 DEF Counted
<1>6. Registered(Start)
  BY <1>2, <1>3, <1>4 DEF Registered
<1>7. Filled(Start)
  <2>0. ~(0 > 0)
    OBVIOUS
  <2>1. \A c \in Conn : ~(Start.conn[c].recved > 0)
    BY <1>2, <1>3, <2>0
  <2> QED BY <2>1 DEF Filled
<1> QED BY <1>1, <1>3, <1>5, <1>6, <1>7 DEF MInv

\* The owner of the firmware update gives it up.
LEMMA DisownInv ==
  ASSUME NEW h, MInv(h), NEW k \in Ota, NEW g \in MemType,
         g.conn = h.conn, g.gs = [h.gs EXCEPT ![k] = None],
         g.gs["fw"] = None, g.buf = h.buf \/ g.gs["web"] = None
  PROVE  MInv(g)
<1>1. h.gs \in [Ota -> Conn \cup {None}]
  BY DEF MInv, MemType
<1>2. Counted(g)
  BY DEF MInv, Counted
<1>3. Registered(g)
  BY <1>1, OtaSessionAssumption DEF MInv, Registered
<1>4. Filled(g)
  <2>1. \A d \in Conn : g.gs["fw"] # d /\ None # d
    BY OtaSessionAssumption
  <2>2. "web" \in Ota
    BY DEF Ota
  <2>3. g.gs["web"] = None \/ (g.gs["web"] = h.gs["web"] /\ g.buf = h.buf)
    BY <1>1, <2>2
  <2> QED BY <2>1, <2>3 DEF MInv, Filled
<1> QED BY <1>2, <1>3, <1>4 DEF MInv

LEMMA NothingWhole == FwWhole(Nothing) /\ Nothing.kind \in Ota \cup {None}
BY OtaSessionAssumption DEF FwWhole, Nothing

LEMMA AbortFacts ==
  ASSUME NEW h, MInv(h), h.gs["web"] = None
  PROVE  /\ MInv(AbortStream(h)) /\ AbortStream(h).conn = h.conn
         /\ MInv(AbortBuffer(h)) /\ AbortBuffer(h).conn = h.conn
<1> DEFINE g == [h EXCEPT !.stream = None, !.gs["fw"] = None]
           k == [h EXCEPT !.buf = None, !.gs["fw"] = None]
<1>0. "fw" \in Ota /\ "web" \in Ota
  BY DEF Ota
<1>1. /\ g \in MemType /\ g.conn = h.conn /\ g.gs = [h.gs EXCEPT !["fw"] = None]
      /\ g.gs["web"] = None
  BY <1>0 DEF MInv, MemType
<1>2. /\ k \in MemType /\ k.conn = h.conn /\ k.gs = [h.gs EXCEPT !["fw"] = None]
      /\ k.gs["web"] = None
  BY <1>0 DEF MInv, MemType
<1>3. [h.gs EXCEPT !["fw"] = None]["fw"] = None
  BY <1>0 DEF MInv, MemType
<1>4. AbortStream(h) = FinishHeap(g) /\ AbortBuffer(h) = FinishHeap(k)
  BY DEF AbortStream, AbortBuffer
<1> HIDE DEF g, k
<1>5. MInv(g) /\ MInv(k)
  BY <1>0, <1>1, <1>2, <1>3, DisownInv
<1>6. FinishHeap(g).conn = g.conn /\ FinishHeap(k).conn = k.conn
  BY <1>1, <1>2 DEF FinishHeap, MemType
<1> QED BY <1>1, <1>2, <1>4, <1>5, <1>6, FinishHeapInv

\* Two sequences that agree up to n have the same parts there.
LEMMA SameSubSeq ==
  ASSUME NEW S, NEW a \in Seq(S), NEW b \in Seq(S), NEW l \in 1..2, NEW n \in Nat,
         l <= n, n <= Len(a), n <= Len(b), \A i \in 1..n : a[i] = b[i]
  PROVE  SubSeq(a, l, n) = SubSeq(b, l, n)
<1> DEFINE u == SubSeq(a, l, n)
           v == SubSeq(b, l, n)
<1>1. /\ u \in Seq(S) /\ Len(u) = n - l + 1
      /\ \A i \in 1..(n - l + 1) : u[i] = a[l + i - 1]
  BY SubSeqProperties
<1>2. /\ v \in Seq(S) /\ Len(v) = n - l + 1
      /\ \A i \in 1..(n - l + 1) : v[i] = b[l + i - 1]
  BY SubSeqProperties
<1>3. \A i \in 1..(n - l + 1) : l + i - 1 \in 1..n
  OBVIOUS
<1>4. \A i \in 1..(n - l + 1) : u[i] = v[i]
  BY <1>1, <1>2, <1>3
<1> HIDE DEF u, v
<1>5. u = v
  BY <1>1, <1>2, <1>4, SeqEqual
<1> QED BY <1>5 DEF u, v

\* A buffer that holds p's body up to its end, and p's body.
LEMMA BodyInBuffer ==
  ASSUME NEW b \in Buffer, NEW p \in Pkg, \A i \in 1..Length[p] : b[i] = Seg(p, i),
         NEW l \in 1..2
  PROVE  SubSeq(b, l, Length[p]) = SubSeq(Body(p), l, Length[p])
<1> DEFINE S == Segment \cup {None}
           d == Body(p)
           n == Length[p]
<1>1. n \in 2..Segs /\ Segs \in Nat
  BY OtaSessionAssumption
<1>2. b \in Seq(S) /\ Len(b) = Segs
  BY <1>1 DEF Buffer
<1>3. \A i \in 1..n : d[i] = Seg(p, i) /\ d[i] \in S
  BY <1>1 DEF Body, Seg, Segment
<1>4. d \in Seq(S) /\ Len(d) = n
  <2>1. d = [i \in 1..n |-> d[i]]
    BY DEF Body
  <2> HIDE DEF d, n
  <2>2. d \in [1..n -> S]
    BY <1>3, <2>1
  <2> QED BY <1>1, <2>2
<1> HIDE DEF d, n, S
<1>5. /\ l <= n /\ n <= Len(b) /\ n <= Len(d) /\ n \in Nat
      /\ \A i \in 1..n : b[i] = d[i]
  BY <1>1, <1>2, <1>3, <1>4 DEF n
<1> QED BY <1>2, <1>4, <1>5, SameSubSeq DEF n, d

LEMMA WholeBody ==
  ASSUME NEW p \in Pkg
  PROVE  SubSeq(Body(p), 1, Length[p]) = Body(p)
<1> DEFINE d == Body(p)
           n == Length[p]
<1>1. n \in Nat /\ n >= 2 /\ n <= Segs
  BY OtaSessionAssumption
<1>2. \A i \in 1..n : d[i] = Seg(p, i) /\ d[i] \in Segment
  BY <1>1, OtaSessionAssumption DEF Body, Seg, Segment
<1>3. d \in Seq(Segment) /\ Len(d) = n
  <2>1. d = [i \in 1..n |-> d[i]]
    BY DEF Body
  <2> HIDE DEF d, n
  <2>2. d \in [1..n -> Segment]
    BY <1>2, <2>1
  <2> QED BY <1>1, <2>2
<1> HIDE DEF d, n
<1>4. /\ SubSeq(d, 1, n) \in Seq(Segment) /\ Len(SubSeq(d, 1, n)) = n
      /\ \A i \in 1..n : SubSeq(d, 1, n)[i] = d[i]
  BY <1>1, <1>2, SubSeqProperties
<1>5. SubSeq(d, 1, n) = d
  BY <1>3, <1>4, SeqEqual
<1> QED BY <1>5 DEF d, n

\* The owner's body is complete: what is accepted from the buffer is whole.
LEMMA AcceptWhole ==
  ASSUME NEW g, MInv(g), NEW c \in Conn, g.gs["fw"] = c, g.conn[c].st = "body",
         g.conn[c].recved > 0, Complete(g, c), g.stream = None,
         Accept(g.buf, g.conn[c].recved)
  PROVE  WholeFw(SubSeq(g.buf, 2, Length[g.buf[1][1]]))
<1> DEFINE x == g.conn[c]
<1>1. g.buf # None /\ \A i \in 1..x.recved : g.buf[i] = Seg(x.pkg, i)
  BY DEF MInv, Filled
<1>2. x.recved = x.len /\ x.len \in 0..Segs
  BY DEF Complete, MInv, MemType, ConnType
<1>3. 1 \in 1..x.recved
  BY <1>2, OtaSessionAssumption
<1>4. PICK p \in Pkg : g.buf[1] = Seg(p, 1)
  BY DEF Accept
<1>5. x.pkg = p
  BY <1>1, <1>3, <1>4 DEF Seg
<1>6. x.pkg \in Pkg /\ x.len = Length[x.pkg]
  <2>1. x.pkg # None
    BY <1>5, OtaSessionAssumption
  <2> QED BY <2>1 DEF MInv, Counted
<1>7. g.buf \in Buffer
  BY <1>1 DEF MInv, MemType
<1> DEFINE n == Length[p]
<1>8. n \in 2..Segs /\ n = x.recved /\ g.buf[1][1] = p
  BY <1>2, <1>4, <1>5, <1>6, OtaSessionAssumption DEF Seg
<1>9. SubSeq(g.buf, 2, n) = SubSeq(Body(p), 2, n)
  BY SMTT(30), <1>1, <1>5, <1>7, <1>8, BodyInBuffer
<1> QED BY <1>8, <1>9 DEF WholeFw

LEMMA FwDoneEffect ==
  ASSUME NEW h, MInv(h), NEW c \in Conn, Receiving(h, c),
         NEW g, MInv(g), Grown(g, h, c), g.gs["fw"] = c, Complete(g, c)
  PROVE  Effect(h, c, FwDone(g, c))
<1>0. g.gs["web"] = None
  BY OtaSessionAssumption DEF MInv, Registered
<1>1. g.conn[c].st = "body" /\ g.conn[c].recved > 0
  <2>1. h.conn[c].recved \in Nat /\ h.conn[c] \in ConnType
    BY ReceivingFacts
  <2>2. g.conn[c].st = h.conn[c].st /\ g.conn[c].recved = h.conn[c].recved + 1
    BY <2>1 DEF Grown, ConnType
  <2> QED BY <2>1, <2>2 DEF Receiving
<1>2. ASSUME NEW f, NEW w \in {"stream", "buffer"}, w = "buffer" => WholeFw(f)
      PROVE  Effect(h, c, [mem |-> Start, new |-> [kind |-> "fw", how |-> w, data |-> f]])
  BY <1>2, StartInv DEF Effect, FwWhole, Ota
<1>3. ASSUME NEW k, MInv(k), k.conn = g.conn
      PROVE  Effect(h, c, Only(k))
  <2>1. Grown(k, h, c)
    BY <1>3 DEF Grown
  <2> QED BY <1>3, <2>1, NothingWhole DEF Effect, Only
<1>4. CASE g.stream # None
  <2>1. CASE g.stream.left = 0
    BY <1>2, <1>4, <2>1 DEF FwDone
  <2>2. CASE g.stream.left # 0
    BY <1>0, <1>3, <1>4, <2>2, AbortFacts DEF FwDone
  <2> QED BY <2>1, <2>2
<1>5. CASE g.stream = None
  <2>1. CASE Accept(g.buf, g.conn[c].recved)
    <3>1. WholeFw(SubSeq(g.buf, 2, Length[g.buf[1][1]]))
      BY <1>1, <1>5, <2>1, AcceptWhole
    <3> QED BY <1>2, <1>5, <2>1, <3>1 DEF FwDone
  <2>2. CASE ~Accept(g.buf, g.conn[c].recved)
    BY <1>0, <1>3, <1>5, <2>2, AbortFacts DEF FwDone
  <2> QED BY <2>1, <2>2
<1> QED BY <1>4, <1>5

\* A stream takes the segment and becomes t.
Streamed(h, c, t) == [h EXCEPT !.stream = t, !.conn[c].recved = @ + 1]

LEMMA FeedFacts ==
  ASSUME NEW h, MInv(h), NEW c \in Conn, Receiving(h, c), NEW t \in Stream
  PROVE  LET g == Streamed(h, c, t) IN
         g \in MemType /\ Grown(g, h, c) /\ g.gs = h.gs /\ g.stream # None
<1> DEFINE x == [h.conn[c] EXCEPT !.recved = @ + 1]
           g == Streamed(h, c, t)
<1>1. x \in ConnType
  BY ReceivingFacts
<1>2. g.conn = [h.conn EXCEPT ![c] = x] /\ g.gs = h.gs /\ g.stream = t
  BY DEF MInv, MemType, Streamed
<1>3. g \in MemType
  BY <1>1, <1>2 DEF MInv, MemType, Streamed
<1>4. Grown(g, h, c)
  BY <1>2 DEF Grown, MInv, MemType
<1>5. t # None
  BY OtaSessionAssumption
<1> QED BY <1>2, <1>3, <1>4, <1>5

LEMMA FeedStream ==
  ASSUME NEW t \in Stream, NEW s \in Segment
  PROVE  Feed(t, s) \in Stream
<1>1. t.left \in 0..(Segs - 1) /\ t.fw \in Seq(Segment)
  BY DEF Stream
<1>2. t.left # 0 => t.left - 1 \in 0..(Segs - 1)
  BY <1>1, OtaSessionAssumption
<1>3. Append(t.fw, s) \in Seq(Segment)
  BY <1>1
<1> QED BY <1>1, <1>2, <1>3 DEF Feed, Stream

\* A segment goes to the buffer, its owner's next one if there is an owner.
LEMMA PutInv ==
  ASSUME NEW h, MInv(h), NEW c \in Conn, Receiving(h, c), NEW s \in Segment,
         h.buf # None, h.gs["fw"] \in {c, None},
         h.gs["fw"] = c =>
           /\ s = Seg(h.conn[c].pkg, h.conn[c].recved + 1)
           /\ h.conn[c].recved > 0 => h.stream = None
  PROVE  MInv(Put(h, c, s)) /\ Grown(Put(h, c, s), h, c) /\ Put(h, c, s).gs = h.gs
<1> DEFINE g == Put(h, c, s)
           n == h.conn[c].recved
<1>1. /\ g \in MemType /\ Grown(g, h, c)
      /\ g.gs = h.gs /\ g.stream = h.stream /\ g.buf # None
      /\ g.buf[n + 1] = s
      /\ \A j \in 1..Segs : j # n + 1 => g.buf[j] = h.buf[j]
  BY PutFacts
<1> HIDE DEF g
<1>2. n \in Nat /\ n + 1 \in 1..Segs /\ h.conn[c] \in ConnType
  BY ReceivingFacts
<1>3. g.conn[c].recved = n + 1 /\ g.conn[c].pkg = h.conn[c].pkg
  BY <1>1, <1>2 DEF Grown, ConnType
<1>4. ASSUME h.gs["fw"] = c, NEW i \in 1..(n + 1)
      PROVE  g.buf[i] = Seg(h.conn[c].pkg, i)
  <2>1. CASE i = n + 1
    BY <1>1, <1>4, <2>1
  <2>2. CASE i # n + 1
    <3>1. n > 0 /\ i \in 1..n /\ i \in 1..Segs
      BY <1>2, <2>2, OtaSessionAssumption
    <3>2. h.stream = None
      BY <1>4, <3>1
    <3>3. h.buf[i] = Seg(h.conn[c].pkg, i)
      BY <1>4, <3>1, <3>2 DEF MInv, Filled
    <3> QED BY <1>1, <2>2, <3>1, <3>2, <3>3
  <2> QED BY <2>1, <2>2
<1>5. Filled(g)
  <2> SUFFICES ASSUME NEW d \in Conn, g.gs["fw"] = d
               PROVE  \A i \in 1..g.conn[d].recved : g.buf[i] = Seg(g.conn[d].pkg, i)
    BY <1>1 DEF Filled
  <2>1. d = c
    BY <1>1, OtaSessionAssumption
  <2> QED BY <1>1, <1>3, <1>4, <2>1
<1> QED BY <1>1, <1>5, GrownInv DEF g

LEMMA StreamInv ==
  ASSUME NEW h, MInv(h), NEW c \in Conn, Receiving(h, c), NEW t \in Stream,
         h.gs["web"] = None
  PROVE  LET g == Streamed(h, c, t) IN
         MInv(g) /\ Grown(g, h, c) /\ g.gs = h.gs
<1> DEFINE g == Streamed(h, c, t)
<1>1. g \in MemType /\ Grown(g, h, c) /\ g.gs = h.gs /\ g.stream # None
  BY FeedFacts
<1> HIDE DEF g
<1>2. Filled(g)
  BY <1>1, OtaSessionAssumption DEF Filled
<1> QED BY <1>1, <1>2, GrownInv DEF g

LEMMA KeptThenGrown ==
  ASSUME NEW h, NEW p, NEW g, NEW c \in Conn, Kept(p, h, c), Grown(g, p, c)
  PROVE  Grown(g, h, c)
BY DEF Kept, Grown

LEMMA KeptReceiving ==
  ASSUME NEW h, NEW p, NEW c \in Conn, Kept(p, h, c), Receiving(h, c)
  PROVE  Receiving(p, c) /\ p.conn[c] = h.conn[c]
BY DEF Kept, Receiving

LEMMA FwUpgradeEffect ==
  ASSUME NEW h, MInv(h), NEW c \in Conn, Receiving(h, c), NEW s \in Segment,
         h.gs["fw"] = c, s = Seg(h.conn[c].pkg, h.conn[c].recved + 1),
         NEW room \in BOOLEAN
  PROVE  Effect(h, c, FwUpgrade(h, c, s, room))
<1> DEFINE x == h.conn[c]
           first == x.recved = 0 /\ h.buf = None /\ h.stream = None
           bad == s[2] # 1 \/ s[1] = None
           p == PrepareHeap(h, c)
           g == IF first
                THEN IF room THEN Put(Alloc(p, c), c, s)
                     ELSE [p EXCEPT !.stream = [left |-> x.len - 1, fw |-> <<>>],
                                    !.conn[c].recved = 1]
                ELSE IF h.stream # None
                THEN [h EXCEPT !.stream = Feed(@, s), !.conn[c].recved = @ + 1]
                ELSE IF h.buf # None /\ x.recved # x.len THEN Put(h, c, s)
                ELSE h
<1>1. FwUpgrade(h, c, s, room)
        = IF first /\ bad THEN Only([h EXCEPT !.gs["fw"] = None])
          ELSE IF Complete(g, c) THEN FwDone(g, c) ELSE Only(g)
  BY DEF FwUpgrade
<1>2. x.recved \in Nat /\ x.left \in Nat /\ x.len \in 0..Segs /\ x \in ConnType
  BY ReceivingFacts
<1>3. s[1] = x.pkg /\ s[2] = x.recved + 1
  BY DEF Seg
<1>4. CASE first /\ bad
  <2> DEFINE k == [h EXCEPT !.gs["fw"] = None]
  <2>1. x.kind # "fw"
    BY <1>2, <1>3, <1>4, OtaSessionAssumption DEF MInv, Counted, Receiving
  <2>2. "fw" \in Ota
    BY DEF Ota
  <2>3. k \in MemType /\ k.conn = h.conn /\ k.gs = [h.gs EXCEPT !["fw"] = None]
        /\ k.gs["fw"] = None /\ k.buf = h.buf
    BY <2>2 DEF MInv, MemType
  <2> HIDE DEF k
  <2>4. MInv(k)
    BY <2>2, <2>3, DisownInv
  <2>5. Kept(k, h, c)
    BY <2>3 DEF Kept
  <2>6. Effect(h, c, Only(k))
    BY <2>1, <2>4, <2>5, NothingWhole DEF Effect, Only
  <2> QED BY <1>1, <1>4, <2>6 DEF k
<1>5. ASSUME MInv(g), Grown(g, h, c), Complete(g, c) => g.gs["fw"] = c, ~(first /\ bad)
      PROVE  Effect(h, c, FwUpgrade(h, c, s, room))
  <2> HIDE DEF g, first, bad
  <2>1. CASE Complete(g, c)
    BY <1>1, <1>5, <2>1, FwDoneEffect
  <2>2. CASE ~Complete(g, c)
    <3>1. Effect(h, c, Only(g))
      BY <1>5, NothingWhole DEF Effect, Only
    <3> QED BY <1>1, <1>5, <2>2, <3>1
  <2> QED BY <2>1, <2>2
<1>6. CASE first /\ ~bad
  <2>0. h.gs["web"] = None
    BY OtaSessionAssumption DEF MInv, Registered
  <2>1. /\ MInv(p) /\ Kept(p, h, c)
        /\ p.gs \in {h.gs, NoOwner} /\ p.stream = h.stream /\ p.buf \in {h.buf, None}
    BY <1>6, <2>0, PrepareHeapInv
  <2>2. Receiving(p, c) /\ p.conn[c] = x
    BY <2>1, KeptReceiving
  <2>3. p.gs["fw"] \in {c, None}
    BY <2>1 DEF NoOwner, Ota
  <2>4. x.len > 1 /\ x.len \in Nat
    <3>1. x.len = Length[x.pkg] /\ x.pkg \in Pkg
      BY <1>2, <1>3, <1>6 DEF MInv, Counted, Receiving
    <3> QED BY <3>1, OtaSessionAssumption
  <2>5. ASSUME NEW y, Grown(y, p, c)
        PROVE  ~Complete(y, c)
    <3>1. y.conn[c].recved = 1 /\ y.conn[c].len = x.len
      BY <1>2, <1>6, <2>2, <2>5 DEF Grown, ConnType
    <3> QED BY <2>4, <3>1 DEF Complete
  <2> HIDE DEF p
  <2>6. CASE room
    <3> DEFINE q == Alloc(p, c)
    <3>1. /\ MInv(q) /\ q.conn = p.conn /\ q.gs = p.gs /\ q.buf # None
          /\ q.stream = p.stream
      <4>1. p.gs["web"] \in {c, None}
        BY <2>0, <2>1 DEF NoOwner, Ota
      <4> QED BY <1>6, <2>1, <2>2, <2>3, <4>1, AllocFacts
    <3>2. g = Put(q, c, s)
      BY <1>6, <2>6
    <3> HIDE DEF q
    <3>3. Receiving(q, c)
      BY <2>2, <3>1 DEF Receiving
    <3>4. MInv(Put(q, c, s)) /\ Grown(Put(q, c, s), q, c)
      BY <1>2, <1>6, <2>2, <2>3, <3>1, <3>3, PutInv
    <3>5. Grown(Put(q, c, s), p, c)
      BY <3>1, <3>4 DEF Grown
    <3> HIDE DEF g
    <3> QED BY <1>5, <1>6, <2>1, <2>5, <3>2, <3>4, <3>5, KeptThenGrown
  <2>7. CASE ~room
    <3> DEFINE t == [left |-> x.len - 1, fw |-> <<>>]
               y == Streamed(p, c, t)
    <3>1. t \in Stream
      BY <1>2, <2>4, OtaSessionAssumption DEF Stream
    <3>0. p.gs["web"] = None
      BY <2>0, <2>1 DEF NoOwner, Ota
    <3>2. MInv(y) /\ Grown(y, p, c)
      BY <2>0, <2>1, <2>2, <3>1, <3>0, StreamInv
    <3>3. y = [p EXCEPT !.stream = t, !.conn[c].recved = 1]
      <4>1. p.conn[c].recved = 0 /\ 0 + 1 = 1
        BY <1>6, <2>2
      <4>2. p \in MemType
        BY <2>1 DEF MInv
      <4> QED BY <4>1, <4>2 DEF MemType, Streamed
    <3>4. g = y
      BY <1>6, <2>7, <3>3
    <3> HIDE DEF g, y
    <3> QED BY <1>5, <1>6, <2>1, <2>5, <3>2, <3>4, KeptThenGrown
  <2> QED BY <2>6, <2>7
<1>7. CASE ~first /\ h.stream # None
  <2> DEFINE y == Streamed(h, c, Feed(h.stream, s))
  <2>0. h.gs["web"] = None
    BY OtaSessionAssumption DEF MInv, Registered
  <2>1. Feed(h.stream, s) \in Stream
    BY <1>7, FeedStream DEF MInv, MemType
  <2>2. MInv(y) /\ Grown(y, h, c) /\ y.gs = h.gs
    BY <2>0, <2>1, StreamInv
  <2>3. g = y
    BY <1>7 DEF Streamed, MInv, MemType
  <2> HIDE DEF g, y
  <2> QED BY <1>5, <1>7, <2>2, <2>3
<1>8. CASE ~first /\ h.stream = None
  <2>1. h.buf # None
    BY <1>2, <1>8 DEF MInv, Filled
  <2>2. x.recved # x.len
    BY <1>2, OtaSessionAssumption DEF Receiving
  <2>3. g = Put(h, c, s)
    BY <1>8, <2>1, <2>2
  <2>4. MInv(Put(h, c, s)) /\ Grown(Put(h, c, s), h, c) /\ Put(h, c, s).gs = h.gs
    BY <1>2, <1>8, <2>1, PutInv
  <2> HIDE DEF g
  <2> QED BY <1>5, <1>8, <2>3, <2>4
<1> QED BY <1>4, <1>6, <1>7, <1>8

LEMMA EndWebFacts ==
  ASSUME NEW h, MInv(h), h.gs["fw"] = None
  PROVE  MInv(EndWeb(h)) /\ EndWeb(h).conn = h.conn
<1> DEFINE g == [h EXCEPT !.buf = None, !.gs["web"] = None]
<1>0. "web" \in Ota /\ "fw" \in Ota
  BY DEF Ota
<1>1. /\ g \in MemType /\ g.conn = h.conn /\ g.gs = [h.gs EXCEPT !["web"] = None]
      /\ g.gs["fw"] = None /\ g.gs["web"] = None
  BY <1>0 DEF MInv, MemType
<1>2. EndWeb(h) = FinishHeap(g)
  BY DEF EndWeb
<1> HIDE DEF g
<1>3. MInv(g)
  BY <1>0, <1>1, DisownInv
<1>4. FinishHeap(g).conn = g.conn
  BY <1>1 DEF FinishHeap, MemType
<1> QED BY <1>1, <1>2, <1>3, <1>4, FinishHeapInv

LEMMA WebUpgradeEffect ==
  ASSUME NEW h, MInv(h), NEW c \in Conn, Receiving(h, c), NEW s \in Segment,
         h.gs["web"] = c, NEW room \in BOOLEAN
  PROVE  Effect(h, c, WebUpgrade(h, c, s, room))
<1> DEFINE first == h.conn[c].recved = 0 /\ h.buf = None
           bad == s[2] # 1 \/ s[1] = None
           p == PrepareHeap(h, c)
           q == Alloc(p, c)
           b == IF first THEN q ELSE h
           g == Put(b, c, s)
           w == [kind |-> "web", how |-> "buffer", data |-> SubSeq(g.buf, 1, g.conn[c].len)]
<1>1. WebUpgrade(h, c, s, room)
        = IF first /\ bad THEN Only(h)
          ELSE IF first /\ ~room THEN Only(FinishHeap(p))
          ELSE IF Complete(g, c) THEN [mem |-> EndWeb(g), new |-> w]
          ELSE Only(g)
  BY DEF WebUpgrade
<1>2. h.gs["fw"] = None /\ h.gs["fw"] # c /\ c # None
  BY OtaSessionAssumption DEF MInv, Registered
<1>3. h.conn[c].kind # "fw"
  BY DEF MInv, Registered, Ota, Receiving
<1>4. Effect(h, c, Only(h))
  BY <1>3, NothingWhole DEF Effect, Only, Kept
<1>5. ASSUME first
      PROVE  /\ MInv(p) /\ Kept(p, h, c) /\ p.gs \in {h.gs, NoOwner}
             /\ FinishHeap(p).conn = p.conn
  <2>1. MInv(p) /\ Kept(p, h, c) /\ p.gs \in {h.gs, NoOwner}
    BY <1>2, <1>5, PrepareHeapInv
  <2> HIDE DEF p
  <2> QED BY <2>1 DEF FinishHeap, MInv, MemType
<1>6. ASSUME first
      PROVE  Effect(h, c, Only(FinishHeap(p)))
  <2>1. MInv(FinishHeap(p))
    BY <1>5, <1>6, FinishHeapInv
  <2>2. Kept(FinishHeap(p), h, c)
    BY <1>5, <1>6 DEF Kept
  <2> QED BY <1>3, <2>1, <2>2, NothingWhole DEF Effect, Only
<1>7. MInv(b) /\ Kept(b, h, c) /\ b.gs["fw"] = None /\ b.buf # None
  <2>1. NoOwner["fw"] = None /\ NoOwner["web"] = None /\ Kept(h, h, c)
    BY DEF NoOwner, Ota, Kept
  <2>2. CASE first
    <3>1. /\ MInv(p) /\ Kept(p, h, c) /\ p.conn[c].recved = 0
          /\ p.gs["fw"] = None /\ p.gs["web"] \in {c, None}
      BY <1>2, <1>5, <2>1, <2>2 DEF Kept
    <3> HIDE DEF p
    <3>2. MInv(q) /\ q.conn = p.conn /\ q.gs = p.gs /\ q.buf # None
      BY <3>1, AllocFacts
    <3> HIDE DEF q
    <3>3. Kept(q, h, c)
      BY <3>1, <3>2 DEF Kept
    <3> QED BY <2>2, <3>1, <3>2, <3>3
  <2>3. CASE ~first
    <3>1. h.buf # None
      <4>1. h.conn[c].recved \in Nat
        BY ReceivingFacts
      <4>2. h.conn[c].recved > 0 => h.buf # None
        BY DEF MInv, Filled
      <4> QED BY <2>3, <4>1, <4>2
    <3>2. b = h
      BY <2>3
    <3> HIDE DEF b
    <3> QED BY <1>2, <2>1, <3>1, <3>2
  <2> QED BY <2>2, <2>3
<1> HIDE DEF b
<1>8. Receiving(b, c)
  BY <1>7, KeptReceiving
<1>9. MInv(g) /\ Grown(g, b, c) /\ g.gs = b.gs
  BY <1>2, <1>7, <1>8, PutInv
<1> HIDE DEF g
<1>10. Grown(g, h, c)
  BY <1>7, <1>9, KeptThenGrown
<1>11. Effect(h, c, Only(g))
  BY <1>9, <1>10, NothingWhole DEF Effect, Only
<1>12. Effect(h, c, [mem |-> EndWeb(g), new |-> w])
  <2>1. MInv(EndWeb(g)) /\ EndWeb(g).conn = g.conn
    BY <1>7, <1>9, EndWebFacts
  <2>2. Grown(EndWeb(g), h, c)
    BY <1>10, <2>1 DEF Grown
  <2> QED BY <2>1, <2>2 DEF Effect, FwWhole, Ota
<1> QED BY <1>1, <1>4, <1>6, <1>11, <1>12

LEMMA ReceiveDataEffect ==
  ASSUME NEW h, MInv(h), NEW c \in Conn, Receiving(h, c), NEW s \in Segment,
         h.gs["fw"] = c => s = Seg(h.conn[c].pkg, h.conn[c].recved + 1),
         NEW room \in BOOLEAN
  PROVE  Effect(h, c, ReceiveData(h, c, s, room))
<1>1. CASE h.gs["web"] = c
  BY <1>1, WebUpgradeEffect DEF ReceiveData
<1>2. CASE h.gs["web"] # c /\ h.gs["fw"] = c
  BY <1>2, FwUpgradeEffect DEF ReceiveData
<1>3. CASE h.gs["web"] # c /\ h.gs["fw"] # c
  <2> DEFINE x == [h.conn[c] EXCEPT !.recved = @ + 1]
             g == [h EXCEPT !.conn[c].recved = @ + 1]
  <2>1. x \in ConnType
    BY ReceivingFacts
  <2>2. /\ g.conn = [h.conn EXCEPT ![c] = x] /\ g.gs = h.gs
        /\ g.stream = h.stream /\ g.buf = h.buf
    BY DEF MInv, MemType
  <2>3. g \in MemType
    BY <2>1, <2>2 DEF MInv, MemType
  <2>4. Grown(g, h, c) /\ \A d \in Conn : d # c => g.conn[d] = h.conn[d]
    BY <2>2 DEF Grown, MInv, MemType
  <2> HIDE DEF g
  <2>5. Filled(g)
    BY <1>3, <2>2, <2>4 DEF MInv, Filled
  <2>6. MInv(g)
    BY <2>2, <2>3, <2>4, <2>5, GrownInv
  <2>7. Effect(h, c, Only(g))
    BY <2>4, <2>6, NothingWhole DEF Effect, Only
  <2> QED BY <1>3, <2>7 DEF ReceiveData, g
<1> QED BY <1>1, <1>2, <1>3

-----------------------------------------------------------------------------
\* The steps.

LEMMA KeptBalanced ==
  ASSUME NEW h, NEW g, Balanced(h), \A d \in Conn : g.conn[d] \in {h.conn[d], Free}
  PROVE  Balanced(g)
<1>1. Free.st # "body"
  BY DEF Free
<1> QED BY <1>1 DEF Balanced

\* Before the handler sees a segment it is taken off what is left.
LEMMA TakenFacts ==
  ASSUME NEW h, MInv(h), Balanced(h), NEW c \in Conn, h.conn[c].left > 0
  PROVE  LET g == [h EXCEPT !.conn[c].left = @ - 1]
             x == h.conn[c]
             s == Seg(x.pkg, x.len - x.left + 1) IN
         /\ MInv(g) /\ Receiving(g, c) /\ s \in Segment
         /\ g.gs["fw"] = c => s = Seg(g.conn[c].pkg, g.conn[c].recved + 1)
         /\ g.conn[c].kind = "fw" =>
              g.conn[c].left + 1 + g.conn[c].recved = g.conn[c].len
         /\ \A d \in Conn : d # c => g.conn[d] = h.conn[d]
<1> DEFINE x == h.conn[c]
           y == [x EXCEPT !.left = @ - 1]
           g == [h EXCEPT !.conn[c].left = @ - 1]
           s == Seg(x.pkg, x.len - x.left + 1)
<1>1. /\ x \in ConnType /\ x.left \in 0..Segs /\ x.recved \in 0..Segs
      /\ x.len \in 0..Segs /\ x.left \in Int /\ x.recved \in Nat /\ x.len \in Int
  BY OtaSessionAssumption DEF MInv, MemType, ConnType
<1>2. x.st = "body" /\ x.left + x.recved <= x.len
  BY <1>1 DEF MInv, Counted
<1>3. x.left - 1 \in 0..Segs /\ x.left - 1 \in Nat
  BY <1>1, OtaSessionAssumption
<1>4. /\ y \in ConnType /\ y.st = x.st /\ y.kind = x.kind /\ y.pkg = x.pkg
      /\ y.len = x.len /\ y.left = x.left - 1 /\ y.recved = x.recved
  BY <1>1, <1>3 DEF ConnType
<1>5. /\ g.conn = [h.conn EXCEPT ![c] = y] /\ g.gs = h.gs
      /\ g.stream = h.stream /\ g.buf = h.buf
  BY DEF MInv, MemType
<1>6. g \in MemType
  BY <1>4, <1>5 DEF MInv, MemType
<1>7. g.conn[c] = y /\ \A d \in Conn : d # c => g.conn[d] = h.conn[d]
  BY <1>5 DEF MInv, MemType
<1>8. y.left + y.recved < y.len
  BY <1>1, <1>2, <1>4
<1>9. \/ x.kind \in Ota /\ x.pkg \in Pkg /\ x.len = Length[x.pkg]
      \/ x.kind = "json" /\ x.pkg = None /\ x.len = 1
  BY <1>2 DEF MInv, Counted
<1> HIDE DEF g, y
<1>10. Counted(g)
  <2> SUFFICES ASSUME NEW d \in Conn
               PROVE  LET z == g.conn[d] IN
                      IF z.st # "body" THEN z.left = 0 /\ z.recved = 0
                      ELSE /\ z.left + z.recved <= z.len
                           /\ \/ z.kind \in Ota /\ z.pkg \in Pkg /\ z.len = Length[z.pkg]
                              \/ z.kind = "json" /\ z.pkg = None /\ z.len = 1
    BY DEF Counted
  <2>1. CASE d = c
    <3>1. y.left + y.recved <= y.len
      BY <1>1, <1>3, <1>4, <1>8
    <3> QED BY <1>2, <1>4, <1>7, <1>9, <2>1, <3>1
  <2>2. CASE d # c
    BY <1>7, <2>2 DEF MInv, Counted
  <2> QED BY <2>1, <2>2
<1>11. Registered(g)
  BY <1>4, <1>5, <1>7 DEF MInv, Registered
<1>12. Filled(g)
  <2>1. \A d \in Conn : g.conn[d].recved = h.conn[d].recved /\ g.conn[d].pkg = h.conn[d].pkg
    BY <1>4, <1>7
  <2> QED BY <1>5, <2>1 DEF MInv, Filled
<1>13. MInv(g)
  BY <1>6, <1>10, <1>11, <1>12 DEF MInv
<1>14. Receiving(g, c)
  BY <1>2, <1>4, <1>7, <1>8 DEF Receiving
<1>15. s \in Segment
  <2>1. CASE x.kind \in Ota /\ x.pkg \in Pkg /\ x.len = Length[x.pkg]
    <3>1. x.len - x.left + 1 \in 1..Segs
      <4>1. x.left >= 1 /\ x.left <= x.len /\ x.len <= Segs /\ Segs \in Nat
        BY <1>1, <1>2, OtaSessionAssumption
      <4> QED BY <1>1, <4>1
    <3> QED BY <2>1, <3>1 DEF Seg, Segment
  <2>2. CASE x.pkg = None /\ x.len = 1
    <3>1. x.len - x.left + 1 = 1
      BY <1>1, <1>2, <2>2
    <3> QED BY <2>2, <3>1 DEF Segment
  <2> QED BY <1>9, <2>1, <2>2
<1>16. x.kind = "fw" => x.left + x.recved = x.len
  BY <1>2 DEF Balanced
<1>17. g.gs["fw"] = c => s = Seg(g.conn[c].pkg, g.conn[c].recved + 1)
  <2> SUFFICES ASSUME g.gs["fw"] = c
               PROVE  x.len - x.left + 1 = x.recved + 1
    BY <1>4, <1>7
  <2>1. x.kind \in {"fw", "json"}
    BY <1>2, <1>5 DEF MInv, Registered, Ota
  <2>2. CASE x.kind = "fw"
    BY <1>1, <1>16, <2>2
  <2>3. CASE x.kind = "json"
    <3>1. x.len = 1
      BY <1>9, <2>3 DEF Ota
    <3> QED BY <1>1, <1>2, <3>1
  <2> QED BY <2>1, <2>2, <2>3
<1>18. y.kind = "fw" => y.left + 1 + y.recved = y.len
  BY <1>1, <1>4, <1>16, OtaSessionAssumption
<1> QED BY <1>7, <1>13, <1>14, <1>15, <1>17, <1>18 DEF g

LEMMA EffectBalanced ==
  ASSUME NEW h, NEW c \in Conn, h.conn[c] \in ConnType,
         h.conn[c].kind = "fw" => h.conn[c].left + 1 + h.conn[c].recved = h.conn[c].len,
         \A d \in Conn : d # c /\ h.conn[d].st = "body" /\ h.conn[d].kind = "fw" =>
            h.conn[d].left + h.conn[d].recved = h.conn[d].len,
         NEW e, Effect(h, c, e)
  PROVE  Balanced(e.mem)
<1>0. Free.st # "body"
  BY DEF Free
<1>1. CASE e.mem = Start
  BY <1>0, <1>1, StartInv DEF Balanced
<1>2. CASE Grown(e.mem, h, c)
  <2>1. /\ e.mem.conn[c].left = h.conn[c].left /\ e.mem.conn[c].len = h.conn[c].len
        /\ e.mem.conn[c].recved = h.conn[c].recved + 1
        /\ e.mem.conn[c].kind = h.conn[c].kind
    BY <1>2 DEF Grown, ConnType
  <2>2. h.conn[c].left \in Int /\ h.conn[c].recved \in Int
    BY OtaSessionAssumption DEF ConnType
  <2>3. e.mem.conn[c].kind = "fw" =>
          e.mem.conn[c].left + e.mem.conn[c].recved = e.mem.conn[c].len
    BY <2>1, <2>2, OtaSessionAssumption
  <2>4. \A d \in Conn : d # c => e.mem.conn[d] \in {h.conn[d], Free}
    BY <1>2 DEF Grown
  <2> QED BY <1>0, <2>3, <2>4 DEF Balanced
<1>3. CASE Kept(e.mem, h, c) /\ h.conn[c].kind # "fw"
  <2>1. \A d \in Conn : e.mem.conn[d] \in {h.conn[d], Free}
    BY <1>3 DEF Kept
  <2> QED BY <1>0, <1>3, <2>1 DEF Balanced
<1> QED BY <1>1, <1>2, <1>3 DEF Effect

LEMMA HttpRecvStep ==
  ASSUME MInv(m), Balanced(m), NEW c \in Conn, HttpRecv(c)
  PROVE  MInv(m') /\ Balanced(m') /\ FwWhole(flashed') /\ flashed'.kind \in Ota \cup {None}
<1> DEFINE g == [m EXCEPT !.conn[c].left = @ - 1]
           x == m.conn[c]
           s == Seg(x.pkg, x.len - x.left + 1)
<1>1. m.conn[c].left > 0
  BY DEF HttpRecv
<1>2. PICK room \in {TRUE, ~MallocMayFail} :
        LET e == ReceiveData(g, c, s, room) IN
        /\ m' = IF e.mem.conn[c].st # "free" /\ x.left = 1
                THEN CloseConn(PostFinished(e.mem), c)
                ELSE e.mem
        /\ flashed' = e.new
  BY DEF HttpRecv
<1> DEFINE e == ReceiveData(g, c, s, room)
           n == PostFinished(e.mem)
<1>3. /\ MInv(g) /\ Receiving(g, c) /\ s \in Segment
      /\ g.gs["fw"] = c => s = Seg(g.conn[c].pkg, g.conn[c].recved + 1)
      /\ g.conn[c].kind = "fw" => g.conn[c].left + 1 + g.conn[c].recved = g.conn[c].len
      /\ \A d \in Conn : d # c => g.conn[d] = m.conn[d]
  BY <1>1, TakenFacts
<1> HIDE DEF g, s
<1>4. room \in BOOLEAN
  BY OtaSessionAssumption
<1>5. Effect(g, c, e)
  BY <1>3, <1>4, ReceiveDataEffect
<1> HIDE DEF e
<1>6. g.conn[c] \in ConnType
  BY <1>3, ReceivingFacts
<1>7. Balanced(e.mem)
  BY <1>3, <1>5, <1>6, EffectBalanced DEF Balanced
<1>8. MInv(e.mem) /\ FwWhole(e.new) /\ e.new.kind \in Ota \cup {None}
  BY <1>5 DEF Effect
<1>9. MInv(n) /\ n.conn = e.mem.conn
  BY <1>8, PostFinishedInv
<1> HIDE DEF n
<1>10. MInv(CloseConn(n, c)) /\ Balanced(CloseConn(n, c))
  <2>1. /\ MInv(CloseConn(n, c))
        /\ \A d \in Conn : CloseConn(n, c).conn[d] = IF d = c THEN Free ELSE n.conn[d]
    BY <1>9, CloseConnInv
  <2>2. \A d \in Conn : CloseConn(n, c).conn[d] \in {e.mem.conn[d], Free}
    BY <1>9, <2>1
  <2> QED BY <1>7, <2>1, <2>2, KeptBalanced
<1> QED BY <1>2, <1>7, <1>8, <1>10 DEF e, n

\* The other callbacks install nothing, and leave behind a connection that has
\* received nothing.
LEMMA ReplacedStep ==
  ASSUME NEW h, MInv(h), Balanced(h), NEW c \in Conn, NEW v \in ConnType, v.recved = 0,
         IF v.st # "body" THEN v.left = 0
         ELSE /\ v.left = v.len
              /\ \/ v.kind \in Ota /\ v.pkg \in Pkg /\ v.len = Length[v.pkg]
                 \/ v.kind = "json" /\ v.pkg = None /\ v.len = 1
              /\ \A k \in Ota : h.gs[k] = c => v.kind \in {k, "json"},
         NEW g, g = [h EXCEPT !.conn[c] = v]
  PROVE  MInv(g) /\ Balanced(g)
<1>1. {c} \in SUBSET Conn /\ v.len \in 0..Segs
  BY DEF ConnType
<1>2. g = Replace(h, {c}, v)
  BY ReplaceOne DEF MInv
<1>3. v.len <= v.len /\ v.len + 0 = v.len
  BY <1>1, OtaSessionAssumption
<1>4. /\ MInv(Replace(h, {c}, v))
      /\ \A d \in Conn : Replace(h, {c}, v).conn[d] = IF d \in {c} THEN v ELSE h.conn[d]
  <2>1. v.st = "body" => v.left <= v.len /\ \A d \in {c}, k \in Ota : h.gs[k] = d => v.kind \in {k, "json"}
    BY <1>3
  <2> QED BY <1>1, <2>1, ReplaceInv
<1>5. Balanced(Replace(h, {c}, v))
  BY <1>3, <1>4 DEF Balanced, Ota
<1> QED BY <1>2, <1>4, <1>5

LEMMA OtherSteps ==
  ASSUME MInv(m), Balanced(m), NEW c \in Conn,
         \/ HttpAccept(c) \/ ParseJson(c) \/ HttpClose(c) \/ HttpErr(c) \/ Restart
         \/ \E k \in Ota : ParsePart(c, k)
         \/ \E k \in Ota, p \in Pkg : ParseOta(c, k, p)
  PROVE  MInv(m') /\ Balanced(m')
<1>1. CASE HttpAccept(c)
  <2>1. Open.st = "open" /\ Open.left = 0 /\ Open.recved = 0
    BY DEF Open, Free
  <2>2. m' = [m EXCEPT !.conn[c] = Open]
    BY <1>1 DEF HttpAccept
  <2> QED BY <2>1, <2>2, Records, ReplacedStep
<1>2. CASE ParseJson(c)
  <2> DEFINE v == Post("json", None)
  <2>1. /\ v.st = "body" /\ v.kind = "json" /\ v.pkg = None /\ v.len = 1
        /\ v.left = 1 /\ v.recved = 0
    BY DEF Post
  <2>2. m' = [m EXCEPT !.conn[c] = v] /\ v \in ConnType
    BY <1>2, Records DEF ParseJson
  <2> HIDE DEF v
  <2> QED BY <2>1, <2>2, ReplacedStep
<1>3. CASE HttpClose(c)
  <2>1. m' = CloseConn(m, c)
    BY <1>3 DEF HttpClose
  <2>2. /\ MInv(CloseConn(m, c))
        /\ \A d \in Conn : CloseConn(m, c).conn[d] = IF d = c THEN Free ELSE m.conn[d]
    BY CloseConnInv
  <2> QED BY <2>1, <2>2, KeptBalanced
<1>4. CASE HttpErr(c)
  <2>1. Free.st = "free" /\ Free.left = 0 /\ Free.recved = 0
    BY DEF Free
  <2>2. m' = [m EXCEPT !.conn[c] = Free]
    BY <1>4 DEF HttpErr
  <2> QED BY <2>1, <2>2, Records, ReplacedStep
<1>5. CASE Restart
  <2>1. Free.st # "body"
    BY DEF Free
  <2> QED BY <1>5, <2>1, StartInv DEF Restart, Balanced
<1>6. ASSUME NEW k \in Ota, m.conn[c] \in {Open, PartOf(k)}
      PROVE  m.conn[c].recved = 0 /\ m.conn[c].st # "body"
  BY <1>6 DEF Open, PartOf, Free
<1>7. ASSUME NEW k \in Ota, ParsePart(c, k)
      PROVE  MInv(m') /\ Balanced(m')
  <2> DEFINE v == PartOf(k)
             h == [m EXCEPT !.conn[c] = v]
  <2>1. v.st = "head" /\ v.left = 0 /\ v.recved = 0 /\ v \in ConnType
    BY Records DEF PartOf, Free
  <2>2. m' = Register(h, c, k)
    BY <1>7 DEF ParsePart
  <2>3. h.conn[c] = v
    BY DEF MInv, MemType
  <2> HIDE DEF v
  <2>4. MInv(h) /\ Balanced(h)
    BY <2>1, ReplacedStep
  <2> HIDE DEF h
  <2>5. MInv(Register(h, c, k)) /\ Kept(Register(h, c, k), h, c)
    BY <2>1, <2>3, <2>4, RegisterInv
  <2> QED BY <2>2, <2>4, <2>5, KeptBalanced DEF Kept
<1>8. ASSUME NEW k \in Ota, NEW p \in Pkg, ParseOta(c, k, p)
      PROVE  MInv(m') /\ Balanced(m')
  <2> DEFINE v == Post(k, p)
             h == Register(m, c, k)
             g == Register(h, c, k)
  <2>1. /\ v.st = "body" /\ v.kind = k /\ v.pkg = p /\ v.len = Length[p]
        /\ v.left = Length[p] /\ v.recved = 0 /\ v \in ConnType
    BY Records DEF Post, Ota
  <2>2. m' = [g EXCEPT !.conn[c] = v]
    BY <1>8 DEF ParseOta
  <2>3. m.conn[c].recved = 0 /\ m.conn[c].st # "body"
    BY <1>6, <1>8 DEF ParseOta
  <2>4. MInv(h) /\ Kept(h, m, c)
    BY <2>3, RegisterInv
  <2> HIDE DEF v, h
  <2>5. h.conn[c].recved = 0 /\ h.conn[c].st # "body"
    BY <2>3, <2>4 DEF Kept
  <2>6. MInv(g) /\ Kept(g, h, c) /\ g.gs \in {NoOwner, [NoOwner EXCEPT ![k] = c]}
    BY <2>4, <2>5, RegisterInv
  <2>7. \A j \in Ota : g.gs[j] = c => j = k
    BY <2>6, OtaSessionAssumption DEF NoOwner
  <2> HIDE DEF g
  <2>8. Balanced(g)
    BY <2>4, <2>6, KeptBalanced DEF Kept
  <2> QED BY <2>1, <2>2, <2>6, <2>7, <2>8, ReplacedStep
<1> QED BY <1>1, <1>2, <1>3, <1>4, <1>5, <1>7, <1>8

LEMMA FwInvInit == Init => FwInv
<1>1. Free.st # "body"
  BY DEF Free
<1> QED BY <1>1, StartInv, NothingWhole DEF Init, FwInv, TypeOK, MInv, Balanced

LEMMA FwInvStep == FwInv /\ [Next]_vars => FwInv'
<1> SUFFICES ASSUME FwInv, [Next]_vars, ~over'
             PROVE  FwInv'
  BY DEF FwInv
<1>0. ~over /\ over' \in BOOLEAN
  <2>1. ~over
    BY DEF Next, vars, HttpAccept, ParsePart, ParseOta, ParseJson, HttpRecv, HttpClose,
           HttpErr, Restart
  <2>2. over \in BOOLEAN
    BY <2>1 DEF FwInv, TypeOK
  <2>3. over' = over \/ \E c \in Conn : over' = (over \/ Behind(m, c))
    BY DEF Next, vars, HttpAccept, ParsePart, ParseOta, ParseJson, HttpRecv, HttpClose,
           HttpErr, Restart
  <2> QED BY <2>1, <2>2, <2>3
<1>1. MInv(m) /\ Balanced(m) /\ rough \in BOOLEAN /\ FwWhole(flashed) /\ TypeOK
  BY <1>0 DEF FwInv, TypeOK
<1>2. ASSUME MInv(m'), Balanced(m'), FwWhole(flashed'), rough' \in BOOLEAN,
             flashed'.kind \in Ota \cup {None}
      PROVE  FwInv'
  <2>1. (MInv(m))' /\ (Balanced(m))' /\ (FwWhole(flashed))' /\ TypeOK'
    BY <1>0, <1>2 DEF MInv, Counted, Registered, Filled, Balanced, TypeOK, FwWhole
  <2> QED BY <2>1 DEF FwInv
<1>3. CASE UNCHANGED vars
  BY <1>1, <1>2, <1>3 DEF vars, TypeOK
<1>4. CASE Restart
  <2>1. m' = Start /\ flashed' = Nothing /\ rough' = rough
    BY <1>4 DEF Restart
  <2>2. Free.st # "body"
    BY DEF Free
  <2> QED BY <1>1, <1>2, <2>1, <2>2, StartInv, NothingWhole DEF Balanced
<1>5. ASSUME NEW c \in Conn, HttpRecv(c)
      PROVE  FwInv'
  <2>1. rough' = rough
    BY <1>5 DEF HttpRecv
  <2> QED BY <1>1, <1>2, <1>5, <2>1, HttpRecvStep
<1>6. ASSUME NEW c \in Conn,
             \/ HttpAccept(c) \/ ParseJson(c) \/ HttpClose(c) \/ HttpErr(c)
             \/ \E k \in Ota : ParsePart(c, k)
             \/ \E k \in Ota, p \in Pkg : ParseOta(c, k, p)
      PROVE  FwInv'
  <2>1. flashed' = Nothing /\ rough' \in BOOLEAN
    BY <1>1, <1>6 DEF HttpAccept, ParseJson, HttpClose, HttpErr, ParsePart, ParseOta
  <2>2. MInv(m') /\ Balanced(m')
    BY <1>1, <1>6, OtherSteps
  <2> QED BY <1>2, <2>1, <2>2, NothingWhole
<1> QED BY <1>3, <1>4, <1>5, <1>6 DEF Next

-----------------------------------------------------------------------------
\* While all is orderly: what a segment for c changes.

\* All but what c has received; the buffer is the old one or c's.
Frame(g, h, c) ==
  /\ g.susp => g.busy
  /\ \A d \in Conn \ {c} : g.conn[d] = h.conn[d]
  /\ g.conn[c].st = h.conn[c].st /\ g.conn[c].kind = h.conn[c].kind
  /\ g.conn[c].left = h.conn[c].left /\ g.conn[c].pkg = h.conn[c].pkg
  /\ g.conn[c].len = h.conn[c].len
  /\ \A k \in Ota : g.gs[k] \in {h.gs[k], None}
  /\ g.buf # None => (h.buf # None /\ g.cap = h.cap) \/ g.cap = h.conn[c].len

\* What Orderly says of the owner of a web update.
WebRule(g, c) == g.gs["web"] = c =>
  \/ /\ g.conn[c].left + g.conn[c].recved = g.conn[c].len
     /\ \A i \in 1..g.conn[c].recved : g.buf[i] = Seg(g.conn[c].pkg, i)
  \/ g.conn[c].recved = 0 /\ g.buf = None

Solo(h, c) == \A k \in Ota, d \in Conn \ {c} : h.gs[k] # d

\* What the effect of a segment may be.
Tame(g, h, c) ==
  \/ g = Start
  \/ /\ Frame(g, h, c) /\ WebRule(g, c)
     /\ Solo(h, c) \/ (g.busy = h.busy /\ g.buf = h.buf)

\* The memory a segment finds: it is taken off what is left.
Taken(h, c, s) ==
  /\ h.susp => h.busy
  /\ \A k \in Ota : h.gs[k] = c =>
       /\ h.conn[c].kind = k /\ s = Seg(h.conn[c].pkg, h.conn[c].len - h.conn[c].left)
       /\ h.conn[c].left = h.conn[c].len - 1 => h.busy
  /\ h.gs["web"] = c =>
       \/ /\ h.conn[c].left + 1 + h.conn[c].recved = h.conn[c].len
          /\ \A i \in 1..h.conn[c].recved : h.buf[i] = Seg(h.conn[c].pkg, i)
       \/ h.conn[c].recved = 0 /\ h.buf = None

LEMMA FinishFrame ==
  ASSUME NEW g \in MemType, NEW h, NEW c \in Conn, Frame(g, h, c)
  PROVE  Frame(FinishHeap(g), h, c) /\ ~FinishHeap(g).busy /\ ~FinishHeap(g).susp
<1>1. CASE g.busy
  <2> DEFINE f == FinishHeap(g)
  <2>1. /\ f.conn = g.conn /\ f.gs = g.gs /\ f.susp = FALSE /\ f.busy = FALSE
        /\ f.buf = g.buf /\ f.cap = g.cap
    BY <1>1 DEF FinishHeap, MemType
  <2> HIDE DEF f
  <2> QED BY <2>1 DEF Frame, f
<1>2. CASE ~g.busy
  BY <1>2 DEF FinishHeap, Frame
<1> QED BY <1>1, <1>2

LEMMA PutFrame ==
  ASSUME NEW h, MInv(h), NEW c \in Conn, Receiving(h, c), NEW s \in Segment,
         h.susp => h.busy, h.buf # None
  PROVE  Frame(Put(h, c, s), h, c)
<1> DEFINE g == Put(h, c, s)
<1>1. Grown(g, h, c) /\ g.gs = h.gs /\ g.cap = h.cap
  BY PutFacts
<1>2. h.conn[c] \in ConnType
  BY ReceivingFacts
<1>3. g.busy = h.busy /\ g.susp = h.susp
  BY DEF Put, MInv, MemType
<1>4. \A d \in Conn \ {c} : g.conn[d] = h.conn[d]
  BY DEF Put, MInv, MemType
<1> HIDE DEF g
<1>5. /\ g.conn[c].st = h.conn[c].st /\ g.conn[c].kind = h.conn[c].kind
      /\ g.conn[c].left = h.conn[c].left /\ g.conn[c].pkg = h.conn[c].pkg
      /\ g.conn[c].len = h.conn[c].len
  BY <1>1, <1>2 DEF Grown, ConnType
<1> QED BY <1>1, <1>3, <1>4, <1>5 DEF Frame, g

\* The first segment goes to a buffer of c's own.
LEMMA FirstFrame ==
  ASSUME NEW h, MInv(h), NEW c \in Conn, Receiving(h, c), NEW s \in Segment,
         h.susp => h.busy, h.conn[c].recved = 0,
         h.gs["fw"] \in {c, None}, h.gs["web"] \in {c, None}
  PROVE  Frame(Put(Alloc(h, c), c, s), h, c) /\ Put(Alloc(h, c), c, s) \in MemType
<1> DEFINE q == Alloc(h, c)
           g == Put(q, c, s)
<1>1. /\ MInv(q) /\ q.conn = h.conn /\ q.gs = h.gs /\ q.busy = h.busy
      /\ q.susp = h.susp /\ q.buf # None /\ q.cap = h.conn[c].len
  BY AllocFacts
<1> HIDE DEF q
<1>2. Receiving(q, c)
  BY <1>1 DEF Receiving
<1>3. Frame(g, q, c) /\ g \in MemType /\ g.cap = q.cap
  BY <1>1, <1>2, PutFacts, PutFrame
<1> HIDE DEF g
<1>4. Frame(g, h, c)
  BY <1>1, <1>3 DEF Frame
<1> QED BY <1>3, <1>4 DEF g, q

LEMMA PrepareBusy ==
  ASSUME NEW h, h.busy, NEW c
  PROVE  PrepareHeap(h, c) = h
BY DEF PrepareHeap

LEMMA StreamFrame ==
  ASSUME NEW h, MInv(h), NEW c \in Conn, Receiving(h, c), NEW t \in Stream,
         h.susp => h.busy
  PROVE  Frame(Streamed(h, c, t), h, c)
<1> DEFINE g == Streamed(h, c, t)
<1>1. Grown(g, h, c) /\ g.gs = h.gs
  BY FeedFacts
<1>2. h.conn[c] \in ConnType
  BY ReceivingFacts
<1>3. g.busy = h.busy /\ g.susp = h.susp /\ g.buf = h.buf /\ g.cap = h.cap
  BY DEF Streamed, MInv, MemType
<1>4. \A d \in Conn \ {c} : g.conn[d] = h.conn[d]
  BY DEF Streamed, MInv, MemType
<1> HIDE DEF g
<1>5. /\ g.conn[c].st = h.conn[c].st /\ g.conn[c].kind = h.conn[c].kind
      /\ g.conn[c].left = h.conn[c].left /\ g.conn[c].pkg = h.conn[c].pkg
      /\ g.conn[c].len = h.conn[c].len
  BY <1>1, <1>2 DEF Grown, ConnType
<1> QED BY <1>1, <1>3, <1>4, <1>5 DEF Frame, g

LEMMA DisownFrame ==
  ASSUME NEW h \in MemType, NEW g \in MemType, NEW c \in Conn, Frame(g, h, c)
  PROVE  /\ Frame(AbortStream(g), h, c) /\ Frame(AbortBuffer(g), h, c)
         /\ Frame([g EXCEPT !.gs["fw"] = None], h, c)
<1> DEFINE a == [g EXCEPT !.stream = None, !.gs["fw"] = None]
           b == [g EXCEPT !.buf = None, !.gs["fw"] = None]
           d == [g EXCEPT !.gs["fw"] = None]
           o == [g.gs EXCEPT !["fw"] = None]
<1>1. o \in [Ota -> Conn \cup {None}] /\ \A k \in Ota : o[k] \in {g.gs[k], None}
  BY DEF MemType, Ota
<1>2. \A k \in Ota : o[k] \in {h.gs[k], None}
  BY <1>1 DEF Frame
<1>3. /\ a \in MemType /\ a.gs = o /\ a.conn = g.conn /\ a.busy = g.busy
      /\ a.susp = g.susp /\ a.buf = g.buf /\ a.cap = g.cap
  BY <1>1 DEF MemType
<1>4. /\ b \in MemType /\ b.gs = o /\ b.conn = g.conn /\ b.busy = g.busy
      /\ b.susp = g.susp /\ b.buf = None
  BY <1>1 DEF MemType
<1>5. /\ d.gs = o /\ d.conn = g.conn /\ d.busy = g.busy
      /\ d.susp = g.susp /\ d.buf = g.buf /\ d.cap = g.cap
  BY DEF MemType
<1> HIDE DEF a, b, d, o
<1>6. Frame(a, h, c) /\ Frame(b, h, c) /\ Frame(d, h, c)
  BY <1>2, <1>3, <1>4, <1>5 DEF Frame
<1>7. AbortStream(g) = FinishHeap(a) /\ AbortBuffer(g) = FinishHeap(b)
  BY DEF AbortStream, AbortBuffer, a, b
<1> QED BY <1>3, <1>4, <1>6, <1>7, FinishFrame DEF d

LEMMA FwTame ==
  ASSUME NEW h, MInv(h), NEW c \in Conn, Receiving(h, c), NEW s \in Segment,
         h.gs["fw"] = c, Taken(h, c, s), NEW room \in BOOLEAN
  PROVE  LET e == FwUpgrade(h, c, s, room) IN
         Tame(e.mem, h, c) /\ e.new.kind # "web"
<1> DEFINE x == h.conn[c]
           first == x.recved = 0 /\ h.buf = None /\ h.stream = None
           bad == s[2] # 1 \/ s[1] = None
           p == PrepareHeap(h, c)
           g == IF first
                THEN IF room THEN Put(Alloc(p, c), c, s)
                     ELSE [p EXCEPT !.stream = [left |-> x.len - 1, fw |-> <<>>],
                                    !.conn[c].recved = 1]
                ELSE IF h.stream # None
                THEN [h EXCEPT !.stream = Feed(@, s), !.conn[c].recved = @ + 1]
                ELSE IF h.buf # None /\ x.recved # x.len THEN Put(h, c, s)
                ELSE h
<1>1. FwUpgrade(h, c, s, room)
        = IF first /\ bad THEN Only([h EXCEPT !.gs["fw"] = None])
          ELSE IF Complete(g, c) THEN FwDone(g, c) ELSE Only(g)
  BY DEF FwUpgrade
<1>2. /\ h \in MemType /\ h.gs["web"] = None /\ c # None /\ "fw" \in Ota /\ "web" \in Ota
      /\ h.susp => h.busy
  BY OtaSessionAssumption DEF MInv, Registered, Taken, Ota
<1>3. Solo(h, c) /\ Frame(h, h, c)
  BY <1>2, OtaSessionAssumption DEF Solo, Frame, Ota
<1>4. ASSUME NEW k, Frame(k, h, c)
      PROVE  Tame(k, h, c)
  BY <1>2, <1>3, <1>4 DEF Tame, WebRule, Frame
<1>5. Nothing.kind # "web"
  BY OtaSessionAssumption DEF Nothing, Ota
<1>6. ASSUME NEW k, Frame(k, h, c)
      PROVE  Tame(Only(k).mem, h, c) /\ Only(k).new.kind # "web"
  BY <1>4, <1>5, <1>6 DEF Only
<1>7. ASSUME g \in MemType, Frame(g, h, c), ~(first /\ bad)
      PROVE  LET e == FwUpgrade(h, c, s, room) IN
             Tame(e.mem, h, c) /\ e.new.kind # "web"
  <2> HIDE DEF g, first, bad
  <2>1. Frame(AbortStream(g), h, c) /\ Frame(AbortBuffer(g), h, c)
    BY <1>2, <1>7, DisownFrame
  <2>2. Tame(Start, h, c)
    BY DEF Tame
  <2>3. Tame(FwDone(g, c).mem, h, c) /\ FwDone(g, c).new.kind # "web"
    BY <1>6, <2>1, <2>2 DEF FwDone
  <2>4. Tame(Only(g).mem, h, c) /\ Only(g).new.kind # "web"
    BY <1>6, <1>7
  <2> QED BY <1>1, <1>7, <2>3, <2>4
<1>8. CASE first /\ bad
  BY <1>1, <1>2, <1>3, <1>6, <1>8, DisownFrame
<1>9. CASE first /\ ~bad
  <2>1. p = h
    <3>1. x.left \in Nat /\ x.len \in Nat /\ s = Seg(x.pkg, x.len - x.left)
      BY <1>2, ReceivingFacts DEF Taken
    <3>2. s[2] = x.len - x.left
      BY <3>1 DEF Seg
    <3>3. x.left = x.len - 1
      BY <1>9, <3>1, <3>2, OtaSessionAssumption
    <3> QED BY <1>2, <3>3, PrepareBusy DEF Taken
  <2>2. CASE room
    <3>1. g = Put(Alloc(h, c), c, s)
      BY <1>9, <2>1, <2>2
    <3> HIDE DEF g
    <3>2. Frame(g, h, c) /\ g \in MemType
      BY <1>2, <1>9, <3>1, FirstFrame
    <3> QED BY <1>7, <1>9, <3>2
  <2>3. CASE ~room
    <3> DEFINE t == [left |-> x.len - 1, fw |-> <<>>]
               y == Streamed(h, c, t)
    <3>1. t \in Stream
      <4>1. x.len \in 0..Segs /\ x.len \in Nat /\ x.len >= 1
        BY ReceivingFacts
      <4> QED BY <4>1, OtaSessionAssumption DEF Stream
    <3>2. y \in MemType /\ Frame(y, h, c)
      BY <1>2, <3>1, FeedFacts, StreamFrame
    <3>3. y = [h EXCEPT !.stream = t, !.conn[c].recved = 1]
      <4>1. h.conn[c].recved = 0 /\ 0 + 1 = 1
        BY <1>9
      <4> QED BY <1>2, <4>1 DEF MemType, Streamed
    <3>4. g = y
      BY <1>9, <2>1, <2>3, <3>3
    <3> HIDE DEF g, y
    <3> QED BY <1>7, <1>9, <3>2, <3>4
  <2> QED BY <2>2, <2>3
<1>10. CASE ~first /\ h.stream # None
  <2> DEFINE y == Streamed(h, c, Feed(h.stream, s))
  <2>1. Feed(h.stream, s) \in Stream
    BY <1>2, <1>10, FeedStream DEF MemType
  <2>2. y \in MemType /\ Frame(y, h, c)
    BY <1>2, <2>1, FeedFacts, StreamFrame
  <2>3. g = y
    BY <1>2, <1>10 DEF Streamed, MemType
  <2> HIDE DEF g, y
  <2> QED BY <1>7, <1>10, <2>2, <2>3
<1>11. CASE ~first /\ h.stream = None
  <2>1. (g = Put(h, c, s) /\ h.buf # None) \/ g = h
    BY <1>11
  <2>2. h.buf # None => Put(h, c, s) \in MemType /\ Frame(Put(h, c, s), h, c)
    BY <1>2, PutFacts, PutFrame
  <2> HIDE DEF g
  <2> QED BY <1>2, <1>3, <1>7, <1>11, <2>1, <2>2
<1> QED BY <1>8, <1>9, <1>10, <1>11

LEMMA EndWebFrame ==
  ASSUME NEW h \in MemType, NEW g \in MemType, NEW c \in Conn, Frame(g, h, c)
  PROVE  Frame(EndWeb(g), h, c) /\ EndWeb(g).gs["web"] = None
<1> DEFINE b == [g EXCEPT !.buf = None, !.gs["web"] = None]
           o == [g.gs EXCEPT !["web"] = None]
<1>1. /\ o \in [Ota -> Conn \cup {None}] /\ o["web"] = None
      /\ \A k \in Ota : o[k] \in {g.gs[k], None}
  BY DEF MemType, Ota
<1>2. /\ b \in MemType /\ b.gs = o /\ b.conn = g.conn /\ b.busy = g.busy
      /\ b.susp = g.susp /\ b.buf = None
  BY <1>1 DEF MemType
<1> HIDE DEF b, o
<1>3. Frame(b, h, c)
  BY <1>1, <1>2 DEF Frame
<1>4. EndWeb(g) = FinishHeap(b)
  BY DEF EndWeb, b
<1>5. FinishHeap(b).gs = b.gs
  BY <1>2 DEF FinishHeap, MemType
<1> QED BY <1>1, <1>2, <1>3, <1>4, <1>5, FinishFrame

LEMMA WebTame ==
  ASSUME NEW h, MInv(h), NEW c \in Conn, Receiving(h, c), NEW s \in Segment,
         h.gs["web"] = c, Taken(h, c, s), NEW room \in BOOLEAN
  PROVE  LET e == WebUpgrade(h, c, s, room) IN
         Tame(e.mem, h, c) /\ (e.new.kind = "web" => WholeWeb(e.new.data))
<1> DEFINE x == h.conn[c]
           first == x.recved = 0 /\ h.buf = None
           bad == s[2] # 1 \/ s[1] = None
           p == PrepareHeap(h, c)
           b == IF first THEN Alloc(p, c) ELSE h
           g == Put(b, c, s)
           w == [kind |-> "web", how |-> "buffer", data |-> SubSeq(g.buf, 1, g.conn[c].len)]
<1>1. WebUpgrade(h, c, s, room)
        = IF first /\ bad THEN Only(h)
          ELSE IF first /\ ~room THEN Only(FinishHeap(p))
          ELSE IF Complete(g, c) THEN [mem |-> EndWeb(g), new |-> w]
          ELSE Only(g)
  BY DEF WebUpgrade
<1>2. /\ h \in MemType /\ h.gs["fw"] = None /\ c # None /\ "fw" \in Ota /\ "web" \in Ota
      /\ h.susp => h.busy
  BY OtaSessionAssumption DEF MInv, Registered, Taken, Ota
<1>3. Solo(h, c) /\ Frame(h, h, c)
  BY <1>2, OtaSessionAssumption DEF Solo, Frame, Ota
<1>4. /\ x.kind = "web" /\ s = Seg(x.pkg, x.len - x.left) /\ s[2] = x.len - x.left
      /\ x.left = x.len - 1 => h.busy
      /\ x.left \in Nat /\ x.recved \in Nat /\ x.recved + 1 \in 1..Segs /\ x.len \in Nat
  <2>1. x.kind = "web" /\ s = Seg(x.pkg, x.len - x.left) /\ (x.left = x.len - 1 => h.busy)
    BY <1>2 DEF Taken
  <2>2. s[2] = x.len - x.left
    BY <2>1 DEF Seg
  <2> QED BY <2>1, <2>2, ReceivingFacts
<1>5. x.pkg \in Pkg /\ x.len = Length[x.pkg]
  BY <1>4 DEF MInv, Counted, Receiving
<1>6. ASSUME NEW k, Frame(k, h, c), WebRule(k, c)
      PROVE  Tame(Only(k).mem, h, c) /\ Only(k).new.kind # "web"
  BY <1>3, <1>6, OtaSessionAssumption DEF Only, Nothing, Ota, Tame
<1>7. CASE first /\ bad
  <2>1. WebRule(h, c)
    BY <1>7 DEF WebRule
  <2> QED BY <1>1, <1>3, <1>6, <1>7, <2>1
<1>8. ASSUME first, ~bad
      PROVE  h.busy /\ p = h /\ x.left = x.len - 1
  <2>1. x.left = x.len - 1
    BY <1>4, <1>8, OtaSessionAssumption
  <2> QED BY <1>4, <2>1, PrepareBusy
<1>9. CASE first /\ ~bad /\ ~room
  <2> DEFINE f == FinishHeap(h)
  <2>1. f.conn = h.conn /\ f.buf = h.buf
    BY <1>2 DEF FinishHeap, MemType
  <2> HIDE DEF f
  <2>2. WebRule(f, c)
    BY <1>9, <2>1 DEF WebRule
  <2>3. Frame(f, h, c)
    BY <1>2, <1>3, FinishFrame DEF f
  <2> QED BY <1>1, <1>6, <1>8, <1>9, <2>2, <2>3 DEF f
<1>10. ASSUME ~(first /\ bad), ~(first /\ ~room)
       PROVE  LET e == WebUpgrade(h, c, s, room) IN
              Tame(e.mem, h, c) /\ (e.new.kind = "web" => WholeWeb(e.new.data))
  <2>1. /\ MInv(b) /\ b.conn = h.conn /\ b.buf # None /\ (b.susp => b.busy)
        /\ Frame(g, h, c) /\ g \in MemType
        /\ \A i \in 1..x.recved : b.buf[i] = Seg(x.pkg, i)
    <3>1. CASE first
      <4>1. b = Alloc(h, c)
        BY <1>8, <1>10, <3>1
      <4> HIDE DEF b
      <4>2. /\ MInv(b) /\ b.conn = h.conn /\ b.buf # None
            /\ b.busy = h.busy /\ b.susp = h.susp
        BY <1>2, <3>1, <4>1, AllocFacts
      <4>3. Frame(g, h, c) /\ g \in MemType
        BY <1>2, <3>1, <4>1, FirstFrame
      <4> QED BY <1>2, <3>1, <4>2, <4>3
    <3>2. CASE ~first
      <4>1. b = h
        BY <3>2
      <4> HIDE DEF b, g
      <4>2. h.buf # None /\ \A i \in 1..x.recved : h.buf[i] = Seg(x.pkg, i)
        BY <1>4, <3>2 DEF Taken, MInv, Filled
      <4>3. Frame(Put(h, c, s), h, c) /\ Put(h, c, s) \in MemType
        BY <1>2, <4>2, PutFacts, PutFrame
      <4> QED BY <1>2, <4>1, <4>2, <4>3 DEF g
    <3> QED BY <3>1, <3>2
  <2>2. x.left + 1 + x.recved = x.len
    <3>1. CASE first
      BY <1>4, <1>8, <1>10, <3>1, OtaSessionAssumption
    <3>2. CASE ~first
      BY <1>4, <3>2 DEF Taken
    <3> QED BY <3>1, <3>2
  <2>3. x.len - x.left = x.recved + 1
    BY <1>4, <2>2, OtaSessionAssumption
  <2> HIDE DEF b
  <2>4. /\ g \in MemType /\ Grown(g, b, c) /\ g.buf # None
        /\ g.buf[x.recved + 1] = s
        /\ \A j \in 1..Segs : j # x.recved + 1 => g.buf[j] = b.buf[j]
    <3>1. Receiving(b, c)
      BY <2>1 DEF Receiving
    <3> QED BY <2>1, <3>1, PutFacts
  <2>5. Frame(g, h, c)
    BY <2>1
  <2> HIDE DEF g
  <2>6. /\ g.conn[c].recved = x.recved + 1 /\ g.conn[c].len = x.len
        /\ g.conn[c].pkg = x.pkg /\ g.conn[c].left = x.left
    BY <2>1, <2>4, ReceivingFacts DEF Grown, ConnType
  <2>7. \A i \in 1..(x.recved + 1) : g.buf[i] = Seg(x.pkg, i)
    <3> SUFFICES ASSUME NEW i \in 1..(x.recved + 1), i # x.recved + 1
                 PROVE  g.buf[i] = Seg(x.pkg, i)
      BY <1>4, <2>3, <2>4
    <3>1. i \in 1..x.recved /\ i \in 1..Segs
      <4>1. x.recved + 1 <= Segs /\ Segs \in Nat
        BY <1>4, OtaSessionAssumption
      <4> DEFINE n == x.recved
      <4>2. n \in Nat /\ n + 1 <= Segs /\ i \in 1..(n + 1) /\ i # n + 1
        BY <1>4, <4>1
      <4> HIDE DEF n
      <4>3. i \in 1..n /\ i \in 1..Segs
        BY <4>1, <4>2
      <4> QED BY <4>3 DEF n
    <3> QED BY <2>1, <2>4, <3>1
  <2>8. WebRule(g, c)
    <3>1. g.conn[c].left + g.conn[c].recved = g.conn[c].len
      BY <1>4, <2>2, <2>6, OtaSessionAssumption
    <3> QED BY <2>6, <2>7, <3>1 DEF WebRule
  <2>9. Tame(Only(g).mem, h, c) /\ Only(g).new.kind # "web"
    BY <1>6, <2>5, <2>8
  <2>10. Tame(EndWeb(g), h, c)
    BY <1>2, <1>3, <2>4, <2>5, EndWebFrame DEF Tame, WebRule
  <2>11. ASSUME Complete(g, c)
         PROVE  WholeWeb(w.data)
    <3> DEFINE n == Length[x.pkg]
    <3>1. x.recved + 1 = n /\ g.conn[c].len = n
      BY <1>5, <2>6, <2>11 DEF Complete
    <3>2. g.buf \in Buffer
      BY <2>4 DEF MemType
    <3>3. SubSeq(g.buf, 1, n) = SubSeq(Body(x.pkg), 1, n)
      <4>1. \A i \in 1..n : g.buf[i] = Seg(x.pkg, i)
        BY <2>7, <3>1
      <4>2. 1 \in 1..2
        OBVIOUS
      <4> QED BY <1>5, <3>2, <4>1, <4>2, BodyInBuffer
    <3>4. SubSeq(Body(x.pkg), 1, n) = Body(x.pkg)
      BY <1>5, WholeBody
    <3> QED BY <1>5, <3>1, <3>3, <3>4 DEF WholeWeb
  <2> HIDE DEF first, bad, w
  <2>12. CASE Complete(g, c)
    <3>1. WebUpgrade(h, c, s, room) = [mem |-> EndWeb(g), new |-> w]
      BY <1>1, <1>10, <2>12
    <3> QED BY <2>10, <2>11, <2>12, <3>1
  <2>13. CASE ~Complete(g, c)
    <3>1. WebUpgrade(h, c, s, room) = Only(g)
      BY <1>1, <1>10, <2>13
    <3> QED BY <2>9, <3>1
  <2> QED BY <2>12, <2>13
<1> QED BY <1>7, <1>9, <1>10

-----------------------------------------------------------------------------
\* Orderly is kept while it can be.

\* A connection without a body becomes another one.
LEMMA ReplacedOrderly ==
  ASSUME NEW h \in MemType, Orderly(h), NEW c \in Conn, h.conn[c].st # "body",
         NEW v \in ConnType, v.st # "head", v.st = "body" => v.left > 0,
         NEW g, g = [h EXCEPT !.conn[c] = v]
  PROVE  Orderly(g)
<1>1. /\ g.gs = h.gs /\ g.buf = h.buf /\ g.busy = h.busy /\ g.susp = h.susp
      /\ g.cap = h.cap /\ g.conn[c] = v /\ \A d \in Conn \ {c} : g.conn[d] = h.conn[d]
  BY DEF MemType
<1>2. \A k \in Ota : h.gs[k] # c
  BY DEF Orderly
<1>3. h.gs["web"] # c
  BY <1>2 DEF Ota
<1>4. g.busy => \E d \in Conn : g.conn[d].st = "body" /\ g.conn[d].kind \in Ota
  BY <1>1 DEF Orderly
<1>5. \A d \in Conn :
        /\ g.conn[d].st # "head"
        /\ g.conn[d].st = "body" => g.conn[d].left > 0
  BY ZenonT(30), <1>1 DEF Orderly
<1>6. g.buf # None => \E d \in Conn :
        g.conn[d].st = "body" /\ g.conn[d].kind \in Ota /\ g.conn[d].len = g.cap
  BY <1>1 DEF Orderly
<1> QED BY <1>1, <1>2, <1>3, <1>4, <1>5, <1>6 DEF Orderly

\* Nobody owns anything and the heap is free.
LEMMA NobodyOrderly ==
  ASSUME NEW g, ~g.susp, ~g.busy, g.gs = NoOwner, g.buf = None,
         \A d \in Conn : g.conn[d].st # "head" /\ (g.conn[d].st = "body" => g.conn[d].left > 0)
  PROVE  Orderly(g)
<1>1. \A k \in Ota, d \in Conn : g.gs[k] # d
  BY OtaSessionAssumption DEF NoOwner
<1>2. \A d \in Conn : g.gs["web"] # d
  BY <1>1 DEF Ota
<1> QED BY <1>1, <1>2 DEF Orderly

LEMMA PostFinishedFree ==
  ASSUME NEW h \in MemType, h.susp => h.busy
  PROVE  ~PostFinished(h).busy /\ ~PostFinished(h).susp
BY DEF PostFinished, FinishHeap, MemType

LEMMA StartOrderly == Orderly(Start)
<1>1. Free.st = "free"
  BY DEF Free
<1>2. ~Start.susp /\ ~Start.busy /\ Start.gs = NoOwner /\ Start.buf = None
  BY DEF Start
<1> QED BY <1>1, <1>2, StartInv, NobodyOrderly

LEMMA CloseOrderly ==
  ASSUME NEW h, MInv(h), Orderly(h), NEW c \in Conn
  PROVE  Orderly(CloseConn(h, c))
<1> DEFINE g == CloseConn(h, c)
           n == PostFinished(h)
<1>1. /\ Free.st = "free" /\ Free \in ConnType
      /\ \A d \in Conn : g.conn[d] = IF d = c THEN Free ELSE h.conn[d]
  BY Records, CloseConnInv DEF Free
<1>2. CASE h.conn[c].left # 0
  <2>1. n \in MemType /\ n.gs = NoOwner /\ ~n.busy /\ ~n.susp /\ n.buf = None
    BY PostFinishedInv, PostFinishedFree DEF MInv, Orderly
  <2>2. g = [n EXCEPT !.conn[c] = Free]
    BY <1>2 DEF CloseConn
  <2> HIDE DEF n
  <2>3. g.gs = NoOwner /\ ~g.busy /\ ~g.susp /\ g.buf = None
    BY <2>1, <2>2 DEF MemType
  <2> HIDE DEF g
  <2>4. \A d \in Conn : g.conn[d].st # "head" /\ (g.conn[d].st = "body" => g.conn[d].left > 0)
    BY ZenonT(30), <1>1 DEF Orderly
  <2> QED BY <2>3, <2>4, NobodyOrderly DEF g
<1>3. CASE h.conn[c].left = 0
  <2>1. h.conn[c].st # "body"
    BY <1>3 DEF Orderly
  <2>2. g = [h EXCEPT !.conn[c] = Free]
    BY <1>3 DEF CloseConn
  <2> QED BY <1>1, <2>1, <2>2, ReplacedOrderly DEF MInv
<1> QED BY <1>2, <1>3

\* The second registration finds the heap reserved, or nobody else there.
LEMMA PrepareTwice ==
  ASSUME NEW h \in MemType, NEW c \in Conn
  PROVE  LET g == PrepareHeap(h, c) IN
         /\ (g.busy /\ g.gs = h.gs) \/ \A d \in Conn \ {c} : g.conn[d].left = 0
         /\ (\A d \in Conn \ {c} : h.conn[d].left = 0) => g.busy /\ g.gs = h.gs
         /\ g = h \/ g.buf = None
<1> DEFINE k == [h EXCEPT !.buf = None, !.busy = TRUE]
           q == CloseAllExcept(k, c)
           g == PrepareHeap(h, c)
<1>1. CASE h.busy
  BY <1>1 DEF PrepareHeap
<1>2. CASE ~h.busy
  <2>1. k \in MemType /\ k.busy /\ k.gs = h.gs /\ k.conn = h.conn /\ k.buf = None
    BY DEF MemType
  <2>2. g = [q EXCEPT !.susp = TRUE]
    BY <1>2 DEF PrepareHeap
  <2> HIDE DEF k
  <2> DEFINE y == IF \E d \in Conn \ {c} : k.conn[d].left # 0 THEN PostFinished(k) ELSE k
             f == [d \in Conn |-> IF d = c THEN y.conn[d] ELSE Free]
  <2>3. y \in MemType /\ y.buf = None
    <3>1. NoOwner \in [Ota -> Conn \cup {None}]
      BY Records
    <3> QED BY <2>1, <3>1 DEF PostFinished, FinishHeap, MemType
  <2>4. q = [y EXCEPT !.conn = f]
    BY DEF CloseAllExcept
  <2> HIDE DEF y, q
  <2>5. q.conn = f /\ q.busy = y.busy /\ q.gs = y.gs /\ q.buf = None
    BY <2>3, <2>4 DEF MemType
  <2>6. g.conn = f /\ g.busy = y.busy /\ g.gs = y.gs /\ g.buf = None
    BY <2>2, <2>3, <2>4 DEF MemType
  <2> HIDE DEF g
  <2>7. \A d \in Conn \ {c} : g.conn[d].left = 0
    <3>1. Free.left = 0
      BY DEF Free
    <3>2. \A d \in Conn \ {c} : f[d] = Free
      OBVIOUS
    <3> HIDE DEF f
    <3> QED BY <2>6, <3>1, <3>2
  <2>8. (\A d \in Conn \ {c} : h.conn[d].left = 0) => y = k
    BY <2>1 DEF y
  <2> QED BY <2>1, <2>6, <2>7, <2>8 DEF g
<1> QED BY <1>1, <1>2

LEMMA ParseOtaOrderly ==
  ASSUME MInv(m), Orderly(m), NEW c \in Conn, NEW k \in Ota, NEW p \in Pkg, ParseOta(c, k, p)
  PROVE  Orderly(m')
<1> DEFINE o == [NoOwner EXCEPT ![k] = c]
           a == [m EXCEPT !.gs = o]
           h == Register(m, c, k)
           b == [h EXCEPT !.gs = o]
           g == Register(h, c, k)
           v == Post(k, p)
<1>1. m.conn[c].recved = 0 /\ m.conn[c].st # "body"
  BY DEF ParseOta, Open, PartOf, Free
<1>2. MInv(h) /\ Kept(h, m, c)
  BY <1>1, RegisterInv
<1>3. h.conn[c].recved = 0 /\ h.conn[c].st # "body"
  BY <1>1, <1>2 DEF Kept
<1>4. MInv(g) /\ Kept(g, h, c)
  BY <1>2, <1>3, RegisterInv
<1>5. /\ o \in [Ota -> Conn \cup {None}]
      /\ \A j \in Ota, d \in Conn : o[j] = d => d = c /\ j = k
      /\ \A d \in Conn : o["web"] = d => d = c
  BY OtaSessionAssumption DEF NoOwner, Ota
<1>6. g.busy /\ g.gs = o
  <2>1. a \in MemType /\ a.gs = o /\ h = PrepareHeap(a, c)
    BY <1>5 DEF MInv, MemType, Register
  <2>2. b \in MemType /\ b.gs = o /\ b.busy = h.busy /\ b.conn = h.conn /\ g = PrepareHeap(b, c)
    BY <1>2, <1>5 DEF MInv, MemType, Register
  <2> HIDE DEF a, b, h, g
  <2>3. (h.busy /\ h.gs = o) \/ \A d \in Conn \ {c} : h.conn[d].left = 0
    BY <2>1, PrepareTwice
  <2>4. CASE h.busy
    <3>1. g = b
      BY <2>2, <2>4, PrepareBusy
    <3> QED BY <2>2, <2>4, <3>1
  <2>5. CASE \A d \in Conn \ {c} : h.conn[d].left = 0
    BY <2>2, <2>5, PrepareTwice
  <2> QED BY <2>3, <2>4, <2>5
<1>6a. g.buf = None \/ (g.buf = m.buf /\ g.cap = m.cap /\ g.conn = m.conn)
  <2>1. a.buf = m.buf /\ a.cap = m.cap /\ a.conn = m.conn /\ a \in MemType
    BY <1>5 DEF MInv, MemType
  <2>2. h = PrepareHeap(a, c) /\ g = PrepareHeap(b, c)
    BY DEF Register
  <2>3. b.buf = h.buf /\ b.cap = h.cap /\ b.conn = h.conn /\ b \in MemType
    BY <1>2, <1>5 DEF MInv, MemType
  <2> HIDE DEF a, b, h, g
  <2>4. (h = a \/ h.buf = None) /\ (g = b \/ g.buf = None)
    BY <2>1, <2>2, <2>3, PrepareTwice
  <2> QED BY <2>1, <2>3, <2>4
<1>7. m' = [g EXCEPT !.conn[c] = v]
  BY DEF ParseOta
<1> HIDE DEF o, g, h
<1>8. /\ m'.gs = o /\ m'.busy /\ m'.conn[c] = v /\ m'.buf = g.buf /\ m'.cap = g.cap
      /\ \A d \in Conn \ {c} : m'.conn[d] = g.conn[d]
  BY <1>4, <1>6, <1>7 DEF MInv, MemType
<1>9. /\ v.st = "body" /\ v.kind = k /\ v.left = v.len /\ v.recved = 0
      /\ v.left > 0 /\ v.left + v.recved = v.len /\ 1..v.recved = {}
  BY OtaSessionAssumption DEF Post, Ota
<1>10. \A d \in Conn \ {c} : m'.conn[d] \in {m.conn[d], Free}
  BY <1>2, <1>4, <1>8 DEF Kept
<1>11. Free.st = "free"
  BY DEF Free
<1>12. \A d \in Conn :
         /\ m'.conn[d].st # "head"
         /\ m'.conn[d].st = "body" => m'.conn[d].left > 0
  BY <1>8, <1>9, <1>10, <1>11 DEF Orderly
<1> HIDE DEF v
<1>13. \A d \in Conn, j \in Ota : m'.gs[j] = d =>
         /\ m'.conn[d].st = "body" /\ m'.conn[d].kind = j
         /\ m'.conn[d].left = m'.conn[d].len => m'.busy
  BY <1>5, <1>8, <1>9
<1>14. \A d \in Conn : m'.gs["web"] = d =>
         /\ m'.conn[d].left + m'.conn[d].recved = m'.conn[d].len
         /\ \A i \in 1..m'.conn[d].recved : m'.buf[i] = Seg(m'.conn[d].pkg, i)
  BY <1>5, <1>8, <1>9
<1>15. m'.busy => \E d \in Conn : m'.conn[d].st = "body" /\ m'.conn[d].kind \in Ota
  BY <1>8, <1>9
<1>17. m'.buf # None => \E d \in Conn :
         m'.conn[d].st = "body" /\ m'.conn[d].kind \in Ota /\ m'.conn[d].len = m'.cap
  BY <1>1, <1>6a, <1>8 DEF Orderly
<1> QED BY <1>8, <1>12, <1>13, <1>14, <1>15, <1>17 DEF Orderly

\* A segment is taken off what is left of c's body.
LEMMA OrderlyTaken ==
  ASSUME NEW h, MInv(h), Orderly(h), NEW c \in Conn, h.conn[c].left > 0
  PROVE  LET g == [h EXCEPT !.conn[c].left = @ - 1]
             x == h.conn[c] IN
         /\ Taken(g, c, Seg(x.pkg, x.len - x.left + 1))
         /\ g.busy = h.busy /\ g.gs = h.gs /\ g.buf = h.buf /\ g.cap = h.cap
         /\ g.conn[c].st = "body" /\ g.conn[c].kind = x.kind /\ g.conn[c].left = x.left - 1
         /\ g.conn[c].len = x.len
         /\ x.left \in Nat /\ x.len \in Nat /\ x.left <= x.len
         /\ x.kind \in Ota \/ x.len = 1
<1> DEFINE x == h.conn[c]
           g == [h EXCEPT !.conn[c].left = @ - 1]
           s == Seg(x.pkg, x.len - x.left + 1)
<1>1. /\ x \in ConnType /\ x.left \in Nat /\ x.recved \in Nat /\ x.len \in Nat
  BY OtaSessionAssumption DEF MInv, MemType, ConnType
<1>2. /\ x.st = "body" /\ x.left + x.recved <= x.len
      /\ \/ x.kind \in Ota /\ x.pkg \in Pkg /\ x.len = Length[x.pkg]
         \/ x.kind = "json" /\ x.pkg = None /\ x.len = 1
  BY <1>1 DEF MInv, Counted
<1>3. /\ g.conn[c].st = x.st /\ g.conn[c].kind = x.kind /\ g.conn[c].pkg = x.pkg
      /\ g.conn[c].left = x.left - 1 /\ g.conn[c].recved = x.recved
      /\ g.conn[c].len = x.len
      /\ g.gs = h.gs /\ g.buf = h.buf /\ g.busy = h.busy /\ g.susp = h.susp
      /\ g.cap = h.cap
  BY <1>1 DEF MInv, MemType, ConnType
<1> HIDE DEF g
<1>4. ASSUME NEW k \in Ota, h.gs[k] = c
      PROVE  /\ x.kind = k /\ s = Seg(x.pkg, x.len - (x.left - 1))
             /\ x.left - 1 = x.len - 1 => h.busy
  <2>1. x.kind = k /\ (x.left = x.len => h.busy)
    BY <1>4 DEF Orderly
  <2>2. x.len - x.left + 1 = x.len - (x.left - 1)
    BY <1>1
  <2>3. x.left - 1 = x.len - 1 => x.left = x.len
    BY <1>1
  <2> QED BY <2>1, <2>2, <2>3
<1>5. ASSUME h.gs["web"] = c
      PROVE  \/ /\ (x.left - 1) + 1 + x.recved = x.len
                /\ \A i \in 1..x.recved : h.buf[i] = Seg(x.pkg, i)
             \/ x.recved = 0 /\ h.buf = None
  <2>1. \/ /\ x.left + x.recved = x.len
           /\ \A i \in 1..x.recved : h.buf[i] = Seg(x.pkg, i)
        \/ x.recved = 0 /\ h.buf = None
    BY <1>5 DEF Orderly
  <2>2. (x.left - 1) + 1 + x.recved = x.left + x.recved
    BY <1>1
  <2> QED BY <2>1, <2>2
<1>6. Taken(g, c, s)
  BY <1>3, <1>4, <1>5 DEF Taken, Orderly
<1>7. x.left <= x.len
  BY <1>1, <1>2
<1> QED BY <1>1, <1>2, <1>3, <1>6, <1>7 DEF g

LEMMA ReceiveTame ==
  ASSUME NEW h, MInv(h), NEW c \in Conn, Receiving(h, c), NEW s \in Segment,
         Taken(h, c, s), NEW room \in BOOLEAN
  PROVE  LET e == ReceiveData(h, c, s, room) IN
         Tame(e.mem, h, c) /\ (e.new.kind = "web" => WholeWeb(e.new.data))
<1>1. CASE h.gs["web"] = c
  BY <1>1, WebTame DEF ReceiveData
<1>2. CASE h.gs["web"] # c /\ h.gs["fw"] = c
  BY <1>2, FwTame DEF ReceiveData
<1>3. CASE h.gs["web"] # c /\ h.gs["fw"] # c
  <2> DEFINE x == [h.conn[c] EXCEPT !.recved = @ + 1]
             g == [h EXCEPT !.conn[c].recved = @ + 1]
  <2>1. /\ g.gs = h.gs /\ g.buf = h.buf /\ g.busy = h.busy /\ g.susp = h.susp
        /\ g.cap = h.cap
        /\ g.conn = [h.conn EXCEPT ![c] = x]
    BY DEF MInv, MemType
  <2>2. h.conn \in [Conn -> ConnType]
    BY DEF MInv, MemType
  <2> HIDE DEF g
  <2>3. /\ \A d \in Conn \ {c} : g.conn[d] = h.conn[d]
        /\ g.conn[c].st = h.conn[c].st /\ g.conn[c].kind = h.conn[c].kind
        /\ g.conn[c].left = h.conn[c].left /\ g.conn[c].pkg = h.conn[c].pkg
        /\ g.conn[c].len = h.conn[c].len
    BY <2>1, <2>2 DEF ConnType
  <2>4. Tame(g, h, c)
    BY <1>3, <2>1, <2>3 DEF Tame, Frame, WebRule, Taken
  <2>5. Only(g).new.kind # "web"
    BY OtaSessionAssumption DEF Only, Nothing, Ota
  <2>6. ReceiveData(h, c, s, room) = Only(g)
    BY <1>3 DEF ReceiveData, g
  <2>7. Only(g).mem = g
    BY DEF Only
  <2> QED BY <2>4, <2>5, <2>6, <2>7
<1> QED BY <1>1, <1>2, <1>3

LEMMA RecvOrderly ==
  ASSUME MInv(m), Balanced(m), Orderly(m), NEW c \in Conn, HttpRecv(c)
  PROVE  Orderly(m') /\ (flashed'.kind = "web" => WholeWeb(flashed'.data))
<1> DEFINE g == [m EXCEPT !.conn[c].left = @ - 1]
           x == m.conn[c]
           s == Seg(x.pkg, x.len - x.left + 1)
<1>1. x.left > 0
  BY DEF HttpRecv
<1>2. PICK room \in {TRUE, ~MallocMayFail} :
        LET e == ReceiveData(g, c, s, room) IN
        /\ m' = IF e.mem.conn[c].st # "free" /\ x.left = 1
                THEN CloseConn(PostFinished(e.mem), c)
                ELSE e.mem
        /\ flashed' = e.new
  BY DEF HttpRecv
<1> DEFINE e == ReceiveData(g, c, s, room)
           n == PostFinished(e.mem)
<1>3. /\ MInv(g) /\ Receiving(g, c) /\ s \in Segment
      /\ g.gs["fw"] = c => s = Seg(g.conn[c].pkg, g.conn[c].recved + 1)
      /\ \A d \in Conn : d # c => g.conn[d] = m.conn[d]
  BY <1>1, TakenFacts
<1>4. /\ Taken(g, c, s) /\ g.busy = m.busy /\ g.gs = m.gs /\ g.buf = m.buf
      /\ g.cap = m.cap /\ g.conn[c].len = x.len
      /\ g.conn[c].st = "body" /\ g.conn[c].kind = x.kind /\ g.conn[c].left = x.left - 1
      /\ x.left \in Nat /\ x.len \in Nat /\ x.left <= x.len
      /\ x.kind \in Ota \/ x.len = 1
  BY <1>1, OrderlyTaken
<1> HIDE DEF g, s
<1>5. room \in BOOLEAN
  BY OtaSessionAssumption
<1>6. /\ Tame(e.mem, g, c) /\ (e.new.kind = "web" => WholeWeb(e.new.data))
      /\ MInv(e.mem)
  BY <1>3, <1>4, <1>5, ReceiveTame, ReceiveDataEffect DEF Effect
<1> HIDE DEF e
<1>7. CASE e.mem = Start
  <2>1. e.mem.conn[c].st = "free"
    BY <1>7, StartInv DEF Free
  <2> QED BY <1>2, <1>6, <1>7, <2>1, StartOrderly DEF e
<1>8. CASE e.mem # Start
  <2> DEFINE h == e.mem
  <2>1. /\ Frame(h, g, c) /\ WebRule(h, c)
        /\ Solo(g, c) \/ (h.busy = g.busy /\ h.buf = g.buf)
    BY <1>6, <1>8 DEF Tame
  <2>2. /\ h.susp => h.busy
        /\ h.conn[c].st = "body" /\ h.conn[c].kind = x.kind /\ h.conn[c].left = x.left - 1
        /\ h.conn[c].len = x.len
        /\ h.buf # None => (m.buf # None /\ h.cap = m.cap) \/ h.cap = x.len
        /\ \A d \in Conn \ {c} : h.conn[d] = m.conn[d]
        /\ \A k \in Ota : h.gs[k] \in {m.gs[k], None}
    BY <1>3, <1>4, <2>1 DEF Frame
  <2>3. \A d \in Conn \ {c} :
          /\ h.conn[d].st # "head"
          /\ h.conn[d].st = "body" => h.conn[d].left > 0
    BY ZenonT(30), <2>2 DEF Orderly
  <2>4. CASE x.left = 1
    <3>1. MInv(n) /\ n.conn = h.conn /\ n.gs = NoOwner /\ n.buf = None
      BY <1>6, PostFinishedInv
    <3>2. ~n.busy /\ ~n.susp
      BY <1>6, <2>2, PostFinishedFree DEF MInv
    <3> HIDE DEF n
    <3>3. n.conn[c].left = 0
      BY <1>4, <2>2, <2>4, <3>1
    <3>4. CloseConn(n, c) = [n EXCEPT !.conn[c] = Free]
      BY <3>3 DEF CloseConn
    <3> DEFINE z == CloseConn(n, c)
    <3>5. z.gs = NoOwner /\ ~z.busy /\ ~z.susp /\ z.buf = None
      BY <3>1, <3>2, <3>4 DEF MInv, MemType
    <3>6. \A d \in Conn : z.conn[d] = IF d = c THEN Free ELSE h.conn[d]
      BY <3>1, CloseConnInv
    <3>7. Free.st = "free"
      BY DEF Free
    <3> HIDE DEF z
    <3>8. \A d \in Conn : z.conn[d].st # "head" /\ (z.conn[d].st = "body" => z.conn[d].left > 0)
      BY <2>3, <3>6, <3>7
    <3>9. Orderly(z)
      BY <3>5, <3>8, NobodyOrderly
    <3>10. m' = z
      BY <1>2, <2>2, <2>4 DEF e, n, z
    <3> QED BY <1>2, <1>6, <3>9, <3>10 DEF e
  <2>5. CASE x.left # 1
    <3>1. x.left - 1 > 0 /\ x.kind \in Ota /\ x.left - 1 # x.len
      BY <1>1, <1>4, <2>5
    <3>2. \A d \in Conn :
            /\ h.conn[d].st # "head"
            /\ h.conn[d].st = "body" => h.conn[d].left > 0
      BY <2>2, <2>3, <3>1
    <3>3. h.busy => \E d \in Conn : h.conn[d].st = "body" /\ h.conn[d].kind \in Ota
      BY <2>2, <3>1
    <3>4. ASSUME NEW d \in Conn, NEW k \in Ota, h.gs[k] = d
          PROVE  /\ h.conn[d].st = "body" /\ h.conn[d].kind = k
                 /\ h.conn[d].left = h.conn[d].len => h.busy
      <4>1. m.gs[k] = d
        BY <2>2, <3>4, OtaSessionAssumption
      <4>2. /\ m.conn[d].st = "body" /\ m.conn[d].kind = k
            /\ m.conn[d].left = m.conn[d].len => m.busy
        BY <4>1 DEF Orderly
      <4>3. CASE d = c
        BY <2>2, <3>1, <4>2, <4>3
      <4>4. CASE d # c
        <5>1. h.busy = m.busy
          BY <1>4, <2>1, <4>1, <4>4 DEF Solo
        <5> QED BY <2>2, <4>2, <4>4, <5>1
      <4> QED BY <4>3, <4>4
    <3>5. ASSUME NEW d \in Conn, h.gs["web"] = d
          PROVE  \/ /\ h.conn[d].left + h.conn[d].recved = h.conn[d].len
                    /\ \A i \in 1..h.conn[d].recved : h.buf[i] = Seg(h.conn[d].pkg, i)
                 \/ h.conn[d].recved = 0 /\ h.buf = None
      <4>1. CASE d = c
        BY <2>1, <3>5, <4>1 DEF WebRule
      <4>2. CASE d # c
        <5>1. m.gs["web"] = d
          BY <2>2, <3>5, OtaSessionAssumption DEF Ota
        <5>2. h.buf = m.buf /\ h.conn[d] = m.conn[d]
          BY <1>4, <2>1, <2>2, <4>2, <5>1 DEF Solo, Ota
        <5> QED BY <5>1, <5>2 DEF Orderly
      <4> QED BY <4>1, <4>2
    <3>6. ASSUME h.buf # None
          PROVE  \E d \in Conn : /\ h.conn[d].st = "body" /\ h.conn[d].kind \in Ota
                                 /\ h.conn[d].len = h.cap
      <4>1. CASE h.cap = x.len
        BY <2>2, <3>1, <4>1
      <4>2. CASE m.buf # None /\ h.cap = m.cap
        <5>1. PICK d \in Conn : /\ m.conn[d].st = "body" /\ m.conn[d].kind \in Ota
                               /\ m.conn[d].len = m.cap
          BY <4>2 DEF Orderly
        <5> QED BY <2>2, <4>2, <5>1
      <4> QED BY <2>2, <3>6, <4>1, <4>2
    <3>7. Orderly(h)
      BY <2>2, <3>2, <3>3, <3>4, <3>5, <3>6 DEF Orderly
    <3> QED BY <1>2, <1>6, <2>5, <3>7 DEF e
  <2> QED BY <2>4, <2>5
<1> QED BY <1>7, <1>8

LEMMA IInvStep ==
  ASSUME IInv, [Next]_vars, ~rough', ~over, ~over'
  PROVE  Orderly(m') /\ WebWhole(flashed')
<1>1. MInv(m) /\ Balanced(m) /\ m \in MemType
  BY DEF IInv, FwInv, MInv
<1>2. \A c \in Conn : ~HttpErr(c) /\ \A k \in Ota : ~ParsePart(c, k)
  BY DEF ParsePart, HttpErr
<1>3. ~rough
  BY <1>2 DEF Next, vars, HttpAccept, ParseOta, ParseJson, HttpRecv, HttpClose, HttpErr,
              ParsePart, Restart
<1>4. Orderly(m) /\ WebWhole(flashed)
  BY <1>3 DEF IInv
<1>5. WebWhole(Nothing)
  BY OtaSessionAssumption DEF Nothing, Ota, WebWhole
<1>6. CASE UNCHANGED vars
  BY <1>4, <1>6 DEF vars
<1>7. CASE Restart
  BY <1>5, <1>7, StartOrderly DEF Restart
<1>8. ASSUME NEW c \in Conn, HttpAccept(c)
      PROVE  Orderly(m') /\ WebWhole(flashed')
  <2>1. Open.st = "open" /\ m.conn[c].st = "free"
    BY <1>8 DEF Open, HttpAccept, Live, Free
  <2>2. m' = [m EXCEPT !.conn[c] = Open] /\ flashed' = Nothing
    BY <1>8 DEF HttpAccept
  <2> QED BY <1>1, <1>4, <1>5, <2>1, <2>2, Records, ReplacedOrderly
<1>9. ASSUME NEW c \in Conn, ParseJson(c)
      PROVE  Orderly(m') /\ WebWhole(flashed')
  <2> DEFINE v == Post("json", None)
  <2>1. v.st = "body" /\ v.left > 0 /\ v \in ConnType /\ m.conn[c].st # "body"
    BY <1>9, Records DEF Post, ParseJson, Open, Free
  <2>2. m' = [m EXCEPT !.conn[c] = v] /\ flashed' = Nothing
    BY <1>9 DEF ParseJson
  <2> HIDE DEF v
  <2> QED BY <1>1, <1>4, <1>5, <2>1, <2>2, ReplacedOrderly
<1>10. ASSUME NEW c \in Conn, NEW k \in Ota, NEW p \in Pkg, ParseOta(c, k, p)
       PROVE  Orderly(m') /\ WebWhole(flashed')
  <2>1. flashed' = Nothing
    BY <1>10 DEF ParseOta
  <2> QED BY <1>1, <1>4, <1>5, <1>10, <2>1, ParseOtaOrderly
<1>11. ASSUME NEW c \in Conn, HttpClose(c)
       PROVE  Orderly(m') /\ WebWhole(flashed')
  <2>1. m' = CloseConn(m, c) /\ flashed' = Nothing
    BY <1>11 DEF HttpClose
  <2> QED BY <1>1, <1>4, <1>5, <2>1, CloseOrderly
<1>12. ASSUME NEW c \in Conn, HttpRecv(c)
       PROVE  Orderly(m') /\ WebWhole(flashed')
  BY <1>1, <1>4, <1>12, RecvOrderly DEF WebWhole
<1> QED BY <1>2, <1>6, <1>7, <1>8, <1>9, <1>10, <1>11, <1>12 DEF Next

-----------------------------------------------------------------------------
\* The heart of it: what is received is where it belongs, whoever owns the update.
LEMMA FwInvCorrect == Spec => []FwInv
BY FwInvInit, FwInvStep, PTL DEF Spec

\* The steps do not forget an overrun.
LEMMA OverStays == [Next]_vars /\ over => over'
BY DEF Next, vars, HttpAccept, ParsePart, ParseOta, ParseJson, HttpRecv, HttpClose,
       HttpErr, Restart

\* IInv holds: with the reservation of the heap, the length of the buffer and
\* the web upload in it, for any connections and packages of any lengths
\* (post.c:61-131, 189-365, 940-1051; httpd.c:2287-2383).
THEOREM IInvCorrect == Spec => []IInv
<1>1. Init => IInv
  <2>1. WebWhole(Nothing)
    BY OtaSessionAssumption DEF Nothing, Ota, WebWhole
  <2> QED BY <2>1, FwInvInit, StartOrderly DEF Init, IInv
<1>2. FwInv' /\ IInv /\ [Next]_vars => IInv'
  <2> SUFFICES ASSUME FwInv', IInv, [Next]_vars, ~over', ~rough'
               PROVE  Orderly(m') /\ WebWhole(flashed')
    BY DEF IInv, Orderly, WebWhole
  <2> QED BY OverStays, IInvStep
<1> QED BY <1>1, <1>2, FwInvCorrect, PTL DEF Spec

\* A firmware that is installed from the buffer is one whole package, also
\* when it has no CRC, however long the packages are and however connections
\* interleave, take the update over, are cut or are reset, as long as the
\* buffer was not overrun (post.c:940-1318).
THEOREM FirmwareWholeCorrect == Spec => []FirmwareWhole
<1>1. FwInv => FirmwareWhole
  BY DEF FwInv, FirmwareWhole
<1> QED BY <1>1, FwInvCorrect, PTL

\* A web image, which has no CRC, is one whole upload as long as every
\* connection ends in an orderly way and the buffer was not overrun
\* (post.c:189-365).
THEOREM WebUploadWholeCorrect == Spec => []WebUploadWhole
<1>1. IInv => WebUploadWhole
  BY DEF IInv, WebUploadWhole
<1> QED BY <1>1, IInvCorrect, PTL

\* The buffer that web_upgrade copies to without looking is there, also when
\* connections are reset and addresses are reused (post.c:255).
THEOREM WebBufferThereCorrect == Spec => []WebBufferThere
<1>1. FwInv => WebBufferThere
  BY DEF FwInv, MInv, Filled, WebBufferThere, Owns
<1> QED BY <1>1, FwInvCorrect, PTL

\* The heap is reserved, and the background tasks are suspended, only for an
\* upload that is going on (post.c:61-131).
THEOREM HeapOwnedCorrect == Spec => []HeapOwned
<1>1. IInv => HeapOwned
  BY DEF IInv, Orderly, HeapOwned, Uploading
<1> QED BY <1>1, IInvCorrect, PTL

\* The buffer is overrun only while two uploads go on, one in the buffer of the
\* other, or after a connection ended behind the server's back: neither
\* post.c:255 nor post.c:1041 compares with what was allocated.
THEOREM OverrunNeedsTwoCorrect == Spec => OverrunNeedsTwo
<1>1. ASSUME IInv, Next, ~over, over', ~rough
      PROVE  \E c, d \in Conn : c # d /\ Uploading(c) /\ Uploading(d)
  <2>1. PICK c \in Conn : HttpRecv(c) /\ Behind(m, c)
    <3>1. PICK c \in Conn : HttpRecv(c)
      BY <1>1 DEF Next, HttpAccept, ParsePart, ParseOta, ParseJson, HttpClose, HttpErr,
                  Restart
    <3> QED BY <1>1, <3>1 DEF HttpRecv
  <2>2. MInv(m) /\ Orderly(m)
    BY <1>1 DEF IInv, FwInv
  <2>3. m.conn[c].st = "body" /\ m.conn[c].kind \in Ota
    BY <2>1, <2>2 DEF Behind, Orderly, Ota
  <2>4. PICK d \in Conn :
          m.conn[d].st = "body" /\ m.conn[d].kind \in Ota /\ m.conn[d].len = m.cap
    BY <2>1, <2>2 DEF Behind, Orderly
  <2>5. c # d
    <3>1. /\ m.conn[c].left \in Nat /\ m.conn[c].recved \in Nat /\ m.conn[c].len \in Nat
      BY <2>2, OtaSessionAssumption DEF MInv, MemType, ConnType
    <3>2. m.conn[c].left > 0 /\ m.conn[c].left + m.conn[c].recved <= m.conn[c].len
      BY <2>1, <2>2, <2>3 DEF HttpRecv, MInv, Counted
    <3>3. m.conn[c].recved >= m.cap
      BY <2>1 DEF Behind
    <3> QED BY <2>4, <3>1, <3>2, <3>3
  <2> QED BY <2>3, <2>4, <2>5 DEF Uploading
<1>2. IInv /\ [Next]_vars =>
        [~over /\ over' => rough \/ \E c, d \in Conn : c # d /\ Uploading(c) /\ Uploading(d)]_vars
  BY <1>1
<1> QED BY <1>2, IInvCorrect, PTL DEF Spec, OverrunNeedsTwo
=============================================================================
