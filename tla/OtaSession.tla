----------------------------- MODULE OtaSession -----------------------------
(***************************************************************************)
(* Uploads to the running application: the HTTP server's connections and   *)
(* the globals of the update that belong to whichever of them came last.   *)
(*                                                                         *)
(* All of it runs in lwIP's one thread, so each callback is a step.  An    *)
(* upload is some TCP segments, as many as its package needs; the first    *)
(* carries the package header (firmware) or the multipart header (web).  A *)
(* firmware upload is kept in a buffer or, when malloc has no room for it, *)
(* streamed to PART_APP1.                                                  *)
(***************************************************************************)
EXTENDS Integers, Sequences

CONSTANTS Conn,           \* the addresses an http_state can have
          Pkg,            \* the packages that are uploaded
          Checked,        \* the firmware packages with a CRC (upg_header_ldr)
          Length,         \* the segments of each package
          Segs,           \* and the most of them
          MallocMayFail,  \* may there be no room for a whole package?
          None            \* no connection, no package, no buffer, no stream

Ota == {"web", "fw"}      \* POST .../upload and POST .../upgrade

\* A segment of a body: whose, and which; a JSON body is one of None's.
Seg(p, k) == <<p, k>>
Segment == (Pkg \X (1..Segs)) \cup {Seg(None, 1)}
Body(p) == [k \in 1..Length[p] |-> Seg(p, k)]

\* The memory from gs_byUserFile on, of which the buffer is only what malloc
\* was asked for, and s_ota_stream: what is left of the firmware and what of it
\* was written.
Buffer == [1..Segs -> Segment \cup {None}]
Stream == [left : 0..(Segs - 1), fw : Seq(Segment)]

ASSUME OtaSessionAssumption ==
  /\ Segs \in Nat /\ Segs > 1 /\ Length \in [Pkg -> 2..Segs]
  /\ Checked \subseteq Pkg /\ MallocMayFail \in BOOLEAN
  /\ None \notin Conn \cup Pkg \cup Buffer \cup Stream \cup Ota

\* struct http_state: "open" until its request is known, "head" while the
\* header is incomplete, "body" until all of the body came.
Free == [st |-> "free", kind |-> None, pkg |-> None, len |-> 0, left |-> 0, recved |-> 0]
Open == [Free EXCEPT !.st = "open"]
PartOf(k) == [Free EXCEPT !.st = "head", !.kind = k]
Post(k, p) ==
  LET n == IF k = "json" THEN 1 ELSE Length[p] IN
  [st |-> "body", kind |-> k, pkg |-> p, len |-> n, left |-> n, recved |-> 0]

NoOwner == [k \in Ota |-> None]

VARIABLES
  m,       \* the memory: conn, the connections; gs, whose the update is
           \* (gs_hs); buf, gs_byUserFile, and cap, what it was allocated
           \* with; busy, s_ota_heap_busy; susp, are the background tasks
           \* suspended; stream, s_ota_stream
  flashed, \* the firmware or web image that the last step installed
  rough,   \* did a connection end in a reset (http_err), or a header arrive
           \* in pieces, since the start?
  over     \* was a segment copied behind the end of the buffer since then?
           \* What the program does after that is undefined.

vars == <<m, flashed, rough, over>>

Start == [conn |-> [c \in Conn |-> Free], gs |-> NoOwner, buf |-> None, cap |-> 0,
          busy |-> FALSE, susp |-> FALSE, stream |-> None]

Owns(c, k) == m.gs[k] = c
Live(c) == m.conn[c].st # "free"

-----------------------------------------------------------------------------
\* What the functions do to the memory h.

\* Mutant: the background tasks are not resumed.
FinishWithoutResume(h) == [h EXCEPT !.busy = FALSE]

\* ota_finish_heap_prepare.
FinishHeap(h) == IF h.busy THEN [h EXCEPT !.busy = FALSE, !.susp = FALSE] ELSE h

\* Mutant: gs_hs is not cleared.
PostFinishedOwned(h) == FinishHeap([h EXCEPT !.buf = None])

\* httpd_post_finished: for every POST, whoever owns the update.
PostFinished(h) == FinishHeap([h EXCEPT !.buf = None, !.gs = NoOwner])

\* Mutant: a body that is cut short is not reported.
CloseSilently(h, c) == [h EXCEPT !.conn[c] = Free]

\* http_close_or_abort_conn.
CloseConn(h, c) ==
  LET g == IF h.conn[c].left # 0 THEN PostFinished(h) ELSE h
  IN [g EXCEPT !.conn[c] = Free]

\* httpd_close_all_except.
CloseAllExcept(h, c) ==
  LET g == IF \E d \in Conn \ {c} : h.conn[d].left # 0 THEN PostFinished(h) ELSE h
  IN [g EXCEPT !.conn = [d \in Conn |-> IF d = c THEN @[c] ELSE Free]]

\* ota_prepare_heap.
PrepareHeap(h, c) ==
  IF h.busy THEN h
  ELSE [CloseAllExcept([h EXCEPT !.buf = None, !.busy = TRUE], c) EXCEPT !.susp = TRUE]

\* Mutant: an update of the other kind goes on beside it.
RegisterBeside(h, c, k) == PrepareHeap([h EXCEPT !.gs[k] = c], c)

\* The update becomes that of c, when the first line of the request and when
\* all of its header is there.
Register(h, c, k) == PrepareHeap([h EXCEPT !.gs = [NoOwner EXCEPT ![k] = c]], c)

\* malloc for the whole upload of c.
Alloc(h, c) == [h EXCEPT !.buf = [k \in 1..Segs |-> None], !.cap = h.conn[c].len]

\* memcpy to gs_byUserFile + pkt_recved_len, as long as c has told, which need
\* not be as long as the upload that the buffer was allocated for.
Put(h, c, s) ==
  LET i == h.conn[c].recved + 1 IN
  [h EXCEPT !.buf = IF @ = None THEN @ ELSE [@ EXCEPT ![i] = s],
            !.conn[c].recved = i]

\* Will the next segment of c be copied behind the end of the buffer?
Behind(h, c) ==
  /\ h.gs["web"] = c \/ (h.gs["fw"] = c /\ h.stream = None)
  /\ h.buf # None /\ h.conn[c].recved >= h.cap

Complete(h, c) == h.conn[c].recved = h.conn[c].len

\* An effect: the memory after it, and what was installed, if anything.
Nothing == [kind |-> None, how |-> None, data |-> <<>>]
Only(h) == [mem |-> h, new |-> Nothing]

-----------------------------------------------------------------------------
\* web_upgrade(c) given segment s; `room' is what malloc says.
EndWeb(h) == FinishHeap([h EXCEPT !.buf = None, !.gs["web"] = None])

WebUpgrade(h, c, s, room) ==
  LET first == h.conn[c].recved = 0 /\ h.buf = None
      g == Put(IF first THEN Alloc(PrepareHeap(h, c), c) ELSE h, c, s)
  IN IF first /\ (s[2] # 1 \/ s[1] = None) THEN Only(h)  \* no "Content-Type: "
     ELSE IF first /\ ~room THEN Only(FinishHeap(PrepareHeap(h, c)))
     ELSE IF Complete(g, c)
     THEN [mem |-> EndWeb(g),
           new |-> [kind |-> "web", how |-> "buffer",
                    data |-> SubSeq(g.buf, 1, g.conn[c].len)]]
     ELSE Only(g)

\* fw_upgrade(c).  A package starts with its header; an installed firmware is
\* what follows it, and restarts the board: memory is as at the start.
AbortStream(h) == FinishHeap([h EXCEPT !.stream = None, !.gs["fw"] = None])
AbortBuffer(h) == FinishHeap([h EXCEPT !.buf = None, !.gs["fw"] = None])

\* The magic, the lengths in the header against the n segments received, and
\* upg_header_ldr's CRC.
Accept(b, n) ==
  /\ b[1] \in {Seg(p, 1) : p \in Pkg}
  /\ LET p == b[1][1] IN /\ Length[p] <= n
                        /\ p \in Checked => SubSeq(b, 1, Length[p]) = Body(p)

FwDone(h, c) ==
  IF h.stream # None
  THEN IF h.stream.left = 0
       THEN [mem |-> Start,
             new |-> [kind |-> "fw", how |-> "stream", data |-> h.stream.fw]]
       ELSE Only(AbortStream(h))
  ELSE IF Accept(h.buf, h.conn[c].recved)
       THEN [mem |-> Start,
             new |-> [kind |-> "fw", how |-> "buffer",
                      data |-> SubSeq(h.buf, 2, Length[h.buf[1][1]])]]
       ELSE Only(AbortBuffer(h))

Feed(st, s) ==      \* ota_stream_feed, the header behind it
  IF st.left = 0 THEN st ELSE [left |-> st.left - 1, fw |-> Append(st.fw, s)]

FwUpgrade(h, c, s, room) ==
  LET x == h.conn[c]
      first == x.recved = 0 /\ h.buf = None /\ h.stream = None
      p == PrepareHeap(h, c)
      g == IF first
           THEN IF room THEN Put(Alloc(p, c), c, s)
                ELSE [p EXCEPT !.stream = [left |-> x.len - 1, fw |-> <<>>],
                               !.conn[c].recved = 1]
           ELSE IF h.stream # None
           THEN [h EXCEPT !.stream = Feed(@, s), !.conn[c].recved = @ + 1]
           ELSE IF h.buf # None /\ x.recved # x.len THEN Put(h, c, s)
           ELSE h
  IN IF first /\ (s[2] # 1 \/ s[1] = None) THEN Only([h EXCEPT !.gs["fw"] = None])
     ELSE IF Complete(g, c) THEN FwDone(g, c)
     ELSE Only(g)

\* httpd_post_receive_data.
ReceiveData(h, c, s, room) ==
  IF h.gs["web"] = c THEN WebUpgrade(h, c, s, room)
  ELSE IF h.gs["fw"] = c THEN FwUpgrade(h, c, s, room)
  ELSE Only([h EXCEPT !.conn[c].recved = @ + 1])

-----------------------------------------------------------------------------
\* The callbacks.

HttpAccept(c) ==
  /\ ~Live(c)
  /\ m' = [m EXCEPT !.conn[c] = Open]
  /\ flashed' = Nothing /\ UNCHANGED <<rough, over>>

\* http_parse_request with an incomplete header: the update is registered as
\* soon as the first line is there.
ParsePart(c, k) ==
  /\ m.conn[c] \in {Open, PartOf(k)}
  /\ m' = Register([m EXCEPT !.conn[c] = PartOf(k)], c, k)
  /\ flashed' = Nothing /\ rough' = TRUE /\ UNCHANGED over

\* http_parse_request, http_post_request and httpd_post_begin.  Body that
\* came in the same segment is an HttpRecv of its own.
ParseOta(c, k, p) ==
  /\ m.conn[c] \in {Open, PartOf(k)}
  /\ LET g == Register(Register(m, c, k), c, k)
     IN m' = [g EXCEPT !.conn[c] = Post(k, p)]
  /\ flashed' = Nothing /\ UNCHANGED <<rough, over>>

ParseJson(c) ==
  /\ m.conn[c] = Open
  /\ m' = [m EXCEPT !.conn[c] = Post("json", None)]
  /\ flashed' = Nothing /\ UNCHANGED <<rough, over>>

\* http_recv during a body: http_post_rxpbuf and, at the end of the body,
\* http_handle_post_finished; the server then closes the connection.
HttpRecv(c) ==
  /\ m.conn[c].left > 0
  /\ \E room \in {TRUE, ~MallocMayFail} :
       LET x == m.conn[c]
           e == ReceiveData([m EXCEPT !.conn[c].left = @ - 1], c,
                            Seg(x.pkg, x.len - x.left + 1), room)
       IN /\ m' = IF e.mem.conn[c].st # "free" /\ x.left = 1
                  THEN CloseConn(PostFinished(e.mem), c)
                  ELSE e.mem
          /\ flashed' = e.new
  /\ over' = (over \/ Behind(m, c))
  /\ UNCHANGED rough

\* http_close_conn: the peer's FIN, four polls without data (http_poll), a
\* request that cannot be parsed, or the oldest connection when there is no
\* memory for another one.
HttpClose(c) ==
  /\ Live(c)
  /\ m' = CloseConn(m, c)
  /\ flashed' = Nothing /\ UNCHANGED <<rough, over>>

\* A reset by the peer, or TCP gave up: the state is freed, and that is all.
HttpErr(c) ==
  /\ Live(c)
  /\ m' = [m EXCEPT !.conn[c] = Free]
  /\ flashed' = Nothing /\ rough' = TRUE /\ UNCHANGED over

\* Power fails, or the board is restarted.
Restart ==
  /\ m' = Start
  /\ flashed' = Nothing /\ UNCHANGED <<rough, over>>

Init == m = Start /\ flashed = Nothing /\ rough = FALSE /\ over = FALSE

Next ==
  \/ \E c \in Conn :
       \/ HttpAccept(c)
       \/ \E k \in Ota : ParsePart(c, k)
       \/ \E k \in Ota, p \in Pkg : ParseOta(c, k, p)
       \/ ParseJson(c)
       \/ HttpRecv(c) \/ HttpClose(c) \/ HttpErr(c)
  \/ Restart

\* A connection makes progress or is closed by http_poll.
Fairness == \A c \in Conn : WF_vars(HttpRecv(c) \/ HttpClose(c))

Spec == Init /\ [][Next]_vars /\ Fairness

-----------------------------------------------------------------------------
\* Properties.

ConnType ==
  [st : {"free", "open", "head", "body"}, kind : Ota \cup {"json", None},
   pkg : Pkg \cup {None}, len : 0..Segs, left : 0..Segs, recved : 0..Segs]

MemType ==
  [conn : [Conn -> ConnType], gs : [Ota -> Conn \cup {None}],
   buf : Buffer \cup {None}, cap : 0..Segs,
   busy : BOOLEAN, susp : BOOLEAN,
   stream : Stream \cup {None}]

TypeOK == /\ m \in MemType /\ rough \in BOOLEAN /\ over \in BOOLEAN
          /\ flashed.kind \in Ota \cup {None}

WholeFw(d)  == \E p \in Pkg : d = SubSeq(Body(p), 2, Length[p])
WholeWeb(d) == \E p \in Pkg : d = Body(p)

\* Whatever connections interleave, take over, are reset or reuse an address,
\* a firmware installed from the buffer is one whole package, although only
\* some packages have a CRC (post.c:1199); but for the overrun below.
FwWhole(f) == f.kind = "fw" /\ f.how = "buffer" => WholeFw(f.data)
FirmwareWhole == ~over => FwWhole(flashed)

\* So is a web image, which has no CRC at all, as long as no connection ended
\* behind the server's back (post.c:189-365).
WebWhole(f) == f.kind = "web" => WholeWeb(f.data)
WebUploadWhole == ~rough /\ ~over => WebWhole(flashed)

\* A web upload past its first segment has a buffer to be copied to: nobody
\* releases it without taking the update away (post.c:255 does not look).
WebBufferThere == ~over =>
  \A c \in Conn : Owns(c, "web") /\ m.conn[c].left > 0 /\ m.conn[c].recved > 0 =>
     m.buf # None

Uploading(c) == m.conn[c].st = "body" /\ m.conn[c].kind \in Ota

\* The buffer has the length of the upload it was allocated for, and what is
\* copied to it is only measured against the length of the upload that copies
\* (post.c:255, 1041).  So a longer upload can run over its end: but, as long as
\* no connection ended behind the server's back, only by taking the update over
\* while another upload goes on; one upload after another is safe.
OverrunNeedsTwo == [][
  ~over /\ over' =>
    rough \/ \E c, d \in Conn : c # d /\ Uploading(c) /\ Uploading(d)]_vars

\* The heap is reserved, and the background tasks are suspended, only for an
\* upload that is going on (post.c:61: it must be given back at the end).
HeapOwned == ~rough /\ ~over =>
  /\ m.busy => \E c \in Conn : Uploading(c)
  /\ m.susp => m.busy

\* The background tasks always come back to run, whatever clients do within
\* whole headers and orderly ends.
HeapGivenBack == <>(rough \/ over) \/ []<>(~m.busy /\ ~m.susp)

\* A firmware that was streamed, for want of a buffer, is one whole package
\* too: its header has a CRC of all that follows (upgrade.h:79).  At least when
\* every connection ends in an orderly way.
StreamedWhole ==
  flashed.how = "stream" /\ ~rough /\ ~over => WholeFw(flashed.data)

\* Why a buffered firmware is whole.  What a body has received, and what it
\* has left, are at most its length; an update is registered for one
\* connection at most, and only for an upload of its kind or for a JSON body
\* that took over the address; what the owner of a firmware update has
\* received stands in the buffer, in order, and what that of a web update has
\* received stands in one.  These hold up to the first overrun.
Counted(h) == \A c \in Conn :
  LET x == h.conn[c] IN
  IF x.st # "body" THEN x.left = 0 /\ x.recved = 0
  ELSE /\ x.left + x.recved <= x.len
       /\ \/ x.kind \in Ota /\ x.pkg \in Pkg /\ x.len = Length[x.pkg]
          \/ x.kind = "json" /\ x.pkg = None /\ x.len = 1

Registered(h) ==
  /\ h.gs["web"] = None \/ h.gs["fw"] = None
  /\ \A c \in Conn, k \in Ota : h.gs[k] = c /\ h.conn[c].st = "body" =>
       h.conn[c].kind \in {k, "json"}

Filled(h) == \A c \in Conn :
  /\ h.gs["fw"] = c /\ h.conn[c].recved > 0 /\ h.stream = None =>
       /\ h.buf # None
       /\ \A i \in 1..h.conn[c].recved : h.buf[i] = Seg(h.conn[c].pkg, i)
  /\ h.gs["web"] = c /\ h.conn[c].recved > 0 => h.buf # None

MInv(h) == h \in MemType /\ Counted(h) /\ Registered(h) /\ Filled(h)

\* Between two callbacks a firmware body has received all it has not left.
Balanced(h) == \A c \in Conn :
  h.conn[c].st = "body" /\ h.conn[c].kind = "fw" =>
    h.conn[c].left + h.conn[c].recved = h.conn[c].len

\* While nobody ended behind the server's back: the update belongs to an
\* upload of its kind; the heap was reserved before its first segment and is
\* given back when the last upload ends; the upload that the buffer was
\* allocated for goes on; the owner of a web update has all it received in the
\* buffer, or, when there was no room, nothing for good.
Orderly(h) ==
  /\ h.susp => h.busy
  /\ h.buf # None => \E c \in Conn :
       h.conn[c].st = "body" /\ h.conn[c].kind \in Ota /\ h.conn[c].len = h.cap
  /\ h.busy => \E c \in Conn : h.conn[c].st = "body" /\ h.conn[c].kind \in Ota
  /\ \A c \in Conn :
       /\ h.conn[c].st # "head"
       /\ h.conn[c].st = "body" => h.conn[c].left > 0
  /\ \A c \in Conn, k \in Ota : h.gs[k] = c =>
       /\ h.conn[c].st = "body" /\ h.conn[c].kind = k
       /\ h.conn[c].left = h.conn[c].len => h.busy
  /\ \A c \in Conn : h.gs["web"] = c =>
       \/ /\ h.conn[c].left + h.conn[c].recved = h.conn[c].len
          /\ \A i \in 1..h.conn[c].recved : h.buf[i] = Seg(h.conn[c].pkg, i)
       \/ h.conn[c].recved = 0 /\ h.buf = None

\* The inductive invariant: for firmware, and with what the web image and the
\* heap need.  Once the buffer was overrun it says nothing.
FwInv == over \/ (TypeOK /\ MInv(m) /\ Balanced(m) /\ FwWhole(flashed))

IInv == /\ FwInv
        /\ over \/ rough \/ (Orderly(m) /\ WebWhole(flashed))
=============================================================================
