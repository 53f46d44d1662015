--------------------------- MODULE EchoServerProofs ---------------------------
(***************************************************************************)
(* What holds of the echo server for any number of connections, size of    *)
(* messages, send buffers and heap.  That no byte is lost from the count,  *)
(* and that only idle clients are timed out, does not depend on what       *)
(* blocks hold (EchoInv).  What blocks hold does until a stale pointer is  *)
(* freed, and the order of the echo until a continuation is cut short too  *)
(* (BacklogInv).  That a backlog is continued depends on neither           *)
(* (ContinuesInv).                                                         *)
(***************************************************************************)
EXTENDS EchoServer, PollProofs, SequenceTheorems

Wire == [sent : Byte, taken : Byte, fin : BOOLEAN, out : Seq(Byte),
         buffered : 0..SendBuffer, hasty : BOOLEAN, cut : BOOLEAN]

\* The state a handler works on.
HandlerState ==
  [s : Socket, f : [Events -> Conn \cup {NULL}], failed : BOOLEAN,
   e : EchoSocket, h : [Block -> Seq(Byte)], w : Wire, ub : BOOLEAN]

\* What was taken is with the kernel or in the backlog, and there is a backlog only
\* behind a pointer.
Tally(e, w) ==
  /\ w.taken = Len(w.out) + e.length
  /\ w.taken <= w.sent
  /\ e.length > 0 => e.backpressure # NULL

\* The sweeps a connection was silent for are those its timeout has run.
Patience(s, n) == s.timeout > 0 /\ s.timeout + n >= IdleSweeps

EchoInv ==
  /\ TypeOK
  /\ \A r \in ready : r = SweepTimer \/ r.c \in Conn
  /\ \A c \in Conn : sock[c].open => Tally(es[c], wire[c]) /\ Patience(sock[c], silence[c])
  /\ \A c \in Conn, e \in Events : filters[c][e] # NULL => sock[c].open

-----------------------------------------------------------------------------
(***************************************************************************)
(* The pieces of handlers.                                                 *)
(***************************************************************************)
LEMMA Sizes ==
  /\ SendBuffer \in Nat /\ MaxBytes \in Nat /\ IdleSweeps \in Nat \ {0} /\ 0 \in Byte
  /\ NULL \notin Block /\ NULL \notin Conn /\ FREE \in Seq(Byte)
BY EchoAssumption, ConnectionsAssumption DEF Byte, FREE

\* send takes no more than it is given, nor than there is room for, and no less than both.
LEMMA TakenBounds ==
  ASSUME NEW st \in HandlerState, NEW bytes \in Seq(Byte)
  PROVE  /\ Taken(st, bytes) \in 0..Len(bytes)
         /\ st.w.buffered + Taken(st, bytes) \in 0..SendBuffer
         /\ Taken(st, bytes) = Len(bytes) \/ st.w.buffered + Taken(st, bytes) = SendBuffer
<1>1. st.w.buffered \in 0..SendBuffer /\ Len(bytes) \in Nat /\ SendBuffer \in Nat
  BY Sizes, LenProperties DEF HandlerState, Wire
<1> QED
  BY <1>1 DEF Taken

\* A part of a sequence, and how long it is.
LEMMA PartOf ==
  ASSUME NEW bytes \in Seq(Byte), NEW i \in Nat \ {0}, NEW j \in 0..Len(bytes), i <= j + 1
  PROVE  SubSeq(bytes, i, j) \in Seq(Byte) /\ Len(SubSeq(bytes, i, j)) = j + 1 - i
<1>1. Len(bytes) \in Nat /\ \A k \in i..j : bytes[k] \in Byte
  BY LenProperties, ElementOfSeq
<1>2. i \in Int /\ j \in Int
  BY <1>1
<1>3. SubSeq(bytes, i, j) \in Seq(Byte)
      /\ Len(SubSeq(bytes, i, j)) = IF i <= j THEN j - i + 1 ELSE 0
  BY <1>1, <1>2, SubSeqProperties
<1> QED
  BY <1>1, <1>3

\* asock_poll_change leaves all but bits and filters alone.
LEMMA PollChangeType ==
  ASSUME NEW st \in HandlerState, NEW id \in Conn, NEW events
  PROVE  LET t == PollChange(st, id, events)
         IN  /\ t \in HandlerState
             /\ t.s.open = st.s.open /\ t.s.timeout = st.s.timeout /\ t.failed = st.failed
             /\ t.e = st.e /\ t.h = st.h /\ t.w = st.w /\ t.ub = st.ub
<1>1. ChangeBits(events) \in SUBSET Bits
  BY BitsType
<1>2. \A old : KqueueChange(st.f, old, events, id) \in [Events -> Conn \cup {NULL}]
  BY KqueueChangeFilters, st.f \in [Events -> Conn \cup {NULL}] DEF HandlerState
<1> QED
  BY <1>1, <1>2 DEF PollChange, HandlerState, Socket

\* The streams v are w with the first n of these bytes on their way to the client.
Sends(v, w, bytes, n) ==
  /\ v.sent = w.sent /\ v.taken = w.taken /\ v.hasty = w.hasty /\ v.cut = w.cut
  /\ v.out = w.out \o SubSeq(bytes, 1, n)
  /\ Len(v.out) = Len(w.out) + n
  /\ v.buffered = w.buffered + n

LEMMA WriteSends ==
  ASSUME NEW st \in HandlerState, NEW id \in Conn, NEW bytes \in Seq(Byte)
  PROVE  LET t == Write(st, id, bytes)
         IN  /\ t \in HandlerState
             /\ t.s.open = st.s.open
             /\ t.e = st.e /\ t.h = st.h /\ t.ub = st.ub
             /\ Sends(t.w, st.w, bytes, Taken(st, bytes))
             /\ IF Taken(st, bytes) = Len(bytes)
                  THEN t.s = st.s /\ t.f = st.f /\ t.failed = st.failed
                  ELSE t.failed
<1> DEFINE n == Taken(st, bytes)
           out == st.w.out \o SubSeq(bytes, 1, n)
           b == st.w.buffered + n
           v == [st.w EXCEPT !.out = out, !.buffered = b]
           sent == [st EXCEPT !.w = v]
           cut == [sent EXCEPT !.failed = TRUE]
<1>1. n \in 0..Len(bytes) /\ b \in 0..SendBuffer /\ Len(bytes) \in Nat
  BY TakenBounds, LenProperties
<1>2. st.w \in Wire /\ st.w.out \in Seq(Byte)
  BY DEF HandlerState, Wire
<1>3. out \in Seq(Byte) /\ Len(out) = Len(st.w.out) + n
  <2>1. 1 \in Nat \ {0} /\ 1 <= n + 1 /\ n + 1 - 1 = n
    BY <1>1
  <2>2. SubSeq(bytes, 1, n) \in Seq(Byte) /\ Len(SubSeq(bytes, 1, n)) = n
    BY <1>1, <2>1, PartOf
  <2> QED
    BY <1>2, <2>2, ConcatProperties
<1>4. Write(st, id, bytes) = IF n = Len(bytes) THEN sent
                            ELSE PollChange(cut, id, {READABLE, WRITABLE})
  <2>1. sent = [st EXCEPT !.w.out = @ \o SubSeq(bytes, 1, n), !.w.buffered = @ + n]
    BY DEF HandlerState, Wire
  <2> HIDE DEF sent
  <2> QED
    BY <2>1 DEF Write, WriteFailed
<1> HIDE DEF n, b
<1>5. v \in Wire /\ Sends(v, st.w, bytes, n)
  <2>1. out = st.w.out \o SubSeq(bytes, 1, n) /\ b = st.w.buffered + n
    BY DEF b
  <2> HIDE DEF out
  <2> QED
    BY <1>1, <1>2, <1>3, <2>1 DEF Wire, Sends
<1> HIDE DEF out, v
<1>6. /\ sent \in HandlerState /\ sent.s = st.s /\ sent.e = st.e /\ sent.h = st.h
      /\ sent.ub = st.ub /\ sent.w = v /\ sent.f = st.f /\ sent.failed = st.failed
  BY <1>5 DEF HandlerState
<1> HIDE DEF sent
<1>7. /\ cut \in HandlerState /\ cut.s = st.s /\ cut.e = st.e /\ cut.h = st.h
      /\ cut.ub = st.ub /\ cut.w = v /\ cut.failed
  BY <1>6 DEF HandlerState
<1> HIDE DEF cut
<1>8. LET t == PollChange(cut, id, {READABLE, WRITABLE})
      IN  /\ t \in HandlerState
          /\ t.s.open = cut.s.open /\ t.s.timeout = cut.s.timeout
          /\ t.failed
          /\ t.e = cut.e /\ t.h = cut.h /\ t.w = cut.w /\ t.ub = cut.ub
  BY <1>7, PollChangeType
<1> QED
  BY <1>4, <1>5, <1>6, <1>7, <1>8 DEF n

\* free changes one block of the heap.
LEMMA FreeType ==
  ASSUME NEW st \in HandlerState
  PROVE  LET t == FreeBacklog(st)
         IN  /\ t \in HandlerState
             /\ t.s = st.s /\ t.f = st.f /\ t.failed = st.failed /\ t.e = st.e /\ t.w = st.w
             /\ t.ub = (st.ub \/ Stale(st.e))
             /\ \A b \in Block \ {st.e.backpressure} : t.h[b] = st.h[b]
<1> DEFINE p == st.e.backpressure
           ub == st.ub \/ Stale(st.e)
           t == [st EXCEPT !.h[p] = FREE, !.ub = ub]
<1>1. p \in Block \cup {NULL} /\ ub \in BOOLEAN
  BY DEF HandlerState, EchoSocket, Stale
<1>2. FreeBacklog(st) = IF p = NULL THEN st ELSE t
  BY DEF FreeBacklog
<1>3. CASE p = NULL
  BY <1>2, <1>3 DEF Stale, HandlerState
<1>4. CASE p # NULL
  <2> HIDE DEF p, ub
  <2>1. /\ t \in HandlerState
        /\ t.s = st.s /\ t.f = st.f /\ t.failed = st.failed /\ t.e = st.e /\ t.w = st.w
        /\ t.ub = ub /\ \A b \in Block \ {p} : t.h[b] = st.h[b]
    BY <1>1, <1>4, Sizes DEF HandlerState
  <2> QED
    BY <1>2, <1>4, <2>1 DEF p, ub
<1> QED
  BY <1>3, <1>4

\* A new buffer of at most MaxBytes.
LEMMA RebufferType ==
  ASSUME NEW st \in HandlerState, NEW block \in Block, NEW bytes \in Seq(Byte),
         Len(bytes) <= MaxBytes
  PROVE  LET t == Rebuffer(st, block, bytes)
         IN  /\ t \in HandlerState
             /\ t.s = st.s /\ t.f = st.f /\ t.failed = st.failed /\ t.w = st.w
             /\ t.e.length = Len(bytes) /\ t.e.backpressure = block /\ block # NULL
             /\ t.ub = (st.ub \/ Stale(st.e))
             /\ st.e.backpressure # block => t.h[block] = bytes
             /\ \A b \in Block \ {block, st.e.backpressure} : t.h[b] = st.h[b]
<1> DEFINE u == [st EXCEPT !.h[block] = bytes]
           v == FreeBacklog(u)
           e == [backpressure |-> block, length |-> Len(bytes)]
           t == [v EXCEPT !.e = e]
<1>1. /\ u \in HandlerState
      /\ u.s = st.s /\ u.f = st.f /\ u.failed = st.failed /\ u.w = st.w /\ u.e = st.e
      /\ u.ub = st.ub
      /\ u.h[block] = bytes /\ \A b \in Block \ {block} : u.h[b] = st.h[b]
  BY DEF HandlerState
<1> HIDE DEF u
<1>3. /\ v \in HandlerState
      /\ v.s = u.s /\ v.f = u.f /\ v.failed = u.failed /\ v.w = u.w
      /\ v.ub = (u.ub \/ Stale(u.e))
      /\ \A b \in Block \ {st.e.backpressure} : v.h[b] = u.h[b]
  BY <1>1, FreeType
<1> HIDE DEF v
<1>4. e \in EchoSocket /\ e.length = Len(bytes) /\ e.backpressure = block /\ block # NULL
  <2>1. Len(bytes) \in Byte
    BY Sizes, LenProperties DEF Byte
  <2> QED
    BY <2>1, Sizes DEF EchoSocket
<1> HIDE DEF e
<1>5. /\ t \in HandlerState /\ t.s = v.s /\ t.f = v.f /\ t.failed = v.failed /\ t.w = v.w
      /\ t.h = v.h /\ t.e = e /\ t.ub = v.ub
  BY <1>3, <1>4 DEF HandlerState
<1>6. Rebuffer(st, block, bytes) = t
  BY DEF Rebuffer, t, v, u, e
<1> HIDE DEF t
<1> QED
  BY <1>1, <1>3, <1>4, <1>5, <1>6

\* Marking a connection as one whose continuation was cut short.
LEMMA MarkedType ==
  ASSUME NEW st \in HandlerState, NEW n \in Nat
  PROVE  LET t == [st EXCEPT !.w.cut = @ \/ n > 0]
         IN  /\ t \in HandlerState
             /\ t.s = st.s /\ t.f = st.f /\ t.failed = st.failed /\ t.e = st.e /\ t.h = st.h
             /\ t.ub = st.ub
             /\ t.w.sent = st.w.sent /\ t.w.taken = st.w.taken /\ t.w.fin = st.w.fin
             /\ t.w.out = st.w.out /\ t.w.buffered = st.w.buffered /\ t.w.hasty = st.w.hasty
             /\ t.w.cut = (st.w.cut \/ n > 0)
<1> DEFINE cut == st.w.cut \/ n > 0
           w == [st.w EXCEPT !.cut = cut]
<1>1. cut \in BOOLEAN /\ st.w \in Wire
  BY DEF HandlerState, Wire
<1> HIDE DEF cut
<1>2. /\ w \in Wire /\ w.cut = cut
      /\ w.sent = st.w.sent /\ w.taken = st.w.taken /\ w.fin = st.w.fin
      /\ w.out = st.w.out /\ w.buffered = st.w.buffered /\ w.hasty = st.w.hasty
  BY <1>1 DEF Wire
<1>3. [st EXCEPT !.w.cut = @ \/ n > 0] = [st EXCEPT !.w = w]
  BY DEF w, cut
<1> HIDE DEF w
<1> QED
  BY <1>2, <1>3 DEF HandlerState, cut

\* A function on 1..n is a sequence of length n.
LEMMA IsSequence ==
  ASSUME NEW n \in Nat, NEW f \in [1..n -> Byte]
  PROVE  f \in Seq(Byte) /\ Len(f) = n
<1>1. f \in Seq(Byte)
  BY SeqDef
<1>2. DOMAIN f = 1..Len(f) /\ Len(f) \in Nat /\ DOMAIN f = 1..n
  BY <1>1, LenProperties
<1> QED
  BY <1>1, <1>2

\* The backlog is as long as the socket says, whatever is in its block.
LEMMA BacklogType ==
  ASSUME NEW st \in HandlerState, st.e.length > 0 => st.e.backpressure # NULL
  PROVE  Backlog(st) \in Seq(Byte) /\ Len(Backlog(st)) = st.e.length
<1> DEFINE bytes == Held(st.e, st.h)
<1>1. st.e.length \in Nat /\ st.e.length <= MaxBytes /\ st.e.backpressure \in Block \cup {NULL}
      /\ st.h \in [Block -> Seq(Byte)]
  BY Sizes DEF HandlerState, EchoSocket, Byte
<1>2. bytes \in Seq(Byte)
  BY <1>1, Sizes, EmptySeq DEF Held
<1> HIDE DEF bytes
<1>3. \A i \in 1..st.e.length : (IF i <= Len(bytes) THEN bytes[i] ELSE 0) \in Byte
  BY <1>1, <1>2, Sizes, LenProperties, ElementOfSeq
<1>4. Backlog(st) = [i \in 1..st.e.length |-> IF i <= Len(bytes) THEN bytes[i] ELSE 0]
  BY DEF Backlog, bytes
<1>5. Backlog(st) \in [1..st.e.length -> Byte]
  BY <1>3, <1>4
<1> QED
  BY <1>1, <1>5, IsSequence

-----------------------------------------------------------------------------
(***************************************************************************)
(* The handlers.                                                           *)
(***************************************************************************)
LEMMA ContinueBacklogTallies ==
  ASSUME NEW st \in HandlerState, NEW id \in Conn, NEW block \in Block, Tally(st.e, st.w)
  PROVE  LET t == ContinueBacklog(st, id, block)
         IN  t \in HandlerState /\ t.s.open = st.s.open /\ Tally(t.e, t.w)
<1> DEFINE bytes == Backlog(st)
           n == Taken(st, bytes)
           wrote == Write(st, id, bytes)
           freed == FreeBacklog(wrote)
           rest == SubSeq(bytes, 1, Len(bytes) - n)
           full == [freed EXCEPT !.e.length = 0]
           marked == [wrote EXCEPT !.w.cut = @ \/ n > 0]
           short == Rebuffer(marked, block, rest)
<1>1. bytes \in Seq(Byte) /\ Len(bytes) = st.e.length
  BY BacklogType DEF Tally
<1> HIDE DEF bytes
<1>2. n \in 0..Len(bytes) /\ Len(bytes) \in Nat
  BY <1>1, TakenBounds, LenProperties
<1>3. /\ wrote \in HandlerState /\ wrote.s.open = st.s.open /\ wrote.e = st.e
      /\ Sends(wrote.w, st.w, bytes, n)
  BY <1>1, WriteSends
<1> HIDE DEF n, wrote
<1>4. /\ Len(st.w.out) \in Nat /\ Len(wrote.w.out) \in Nat
      /\ st.e.length \in Nat /\ st.e.length <= MaxBytes
      /\ st.e.backpressure \in Block \cup {NULL}
  BY <1>3, Sizes, LenProperties DEF HandlerState, Wire, EchoSocket, Byte
<1>5. CASE n = Len(bytes)
  <2>1. freed \in HandlerState /\ freed.s = wrote.s /\ freed.e = wrote.e /\ freed.w = wrote.w
    BY <1>3, FreeType
  <2> HIDE DEF freed
  <2>2. full \in HandlerState /\ full.s = freed.s /\ full.w = freed.w /\ full.e.length = 0
    BY <2>1, Sizes DEF HandlerState, EchoSocket
  <2> HIDE DEF full
  <2>3. Tally(full.e, full.w)
    BY <1>1, <1>2, <1>3, <1>4, <1>5, <2>1, <2>2 DEF Tally, Sends
  <2>4. ContinueBacklog(st, id, block) = full
    BY <1>5 DEF ContinueBacklog, full, freed, wrote, n, bytes
  <2> QED
    BY <1>3, <2>1, <2>2, <2>3, <2>4
<1>6. CASE n # Len(bytes)
  <2>1. rest \in Seq(Byte) /\ Len(rest) = Len(bytes) - n
    <3>1. /\ Len(bytes) - n \in 0..Len(bytes) /\ 1 \in Nat \ {0} /\ 1 <= Len(bytes) - n + 1
          /\ (Len(bytes) - n) + 1 - 1 = Len(bytes) - n
      BY <1>2
    <3> QED
      BY <1>1, <3>1, PartOf
  <2> HIDE DEF rest
  <2>2. Len(rest) <= MaxBytes
    BY <1>1, <1>2, <1>4, <2>1, Sizes
  <2> HIDE DEF marked
  <2>3. /\ short \in HandlerState /\ short.s = wrote.s
        /\ short.w.taken = wrote.w.taken /\ short.w.sent = wrote.w.sent
        /\ short.w.out = wrote.w.out
        /\ short.e.length = Len(rest) /\ short.e.backpressure # NULL
    <3>1. /\ marked \in HandlerState /\ marked.s = wrote.s
          /\ marked.w.taken = wrote.w.taken /\ marked.w.sent = wrote.w.sent
          /\ marked.w.out = wrote.w.out
      BY <1>2, <1>3, MarkedType DEF marked
    <3> QED
      BY <2>1, <2>2, <3>1, RebufferType
  <2> HIDE DEF short
  <2>4. Tally(short.e, short.w)
    <3>1. st.w.taken = Len(st.w.out) + st.e.length /\ st.w.taken <= st.w.sent
      BY DEF Tally
    <3>2. /\ short.w.taken = st.w.taken /\ short.w.sent = st.w.sent
          /\ Len(short.w.out) = Len(st.w.out) + n
      BY <1>3, <2>3 DEF Sends
    <3>3. short.e.length = st.e.length - n /\ n \in Nat
      BY <1>1, <1>2, <2>1, <2>3
    <3>4. Len(short.w.out) + short.e.length = Len(st.w.out) + st.e.length
      BY ONLY <1>4, <3>2, <3>3
    <3> QED
      BY <2>3, <3>1, <3>2, <3>4 DEF Tally
  <2>5. ContinueBacklog(st, id, block) = short
    BY <1>6 DEF ContinueBacklog, short, marked, rest, wrote, n, bytes
  <2> QED
    BY <1>3, <2>3, <2>4, <2>5
<1> QED
  BY <1>5, <1>6

\* What is unread is as long as what was sent and not taken.
LEMMA UnreadType ==
  ASSUME NEW st \in HandlerState, st.w.taken <= st.w.sent
  PROVE  Unread(st) \in Seq(Byte) /\ Len(Unread(st)) = st.w.sent - st.w.taken
<1>1. st.w.taken \in Nat /\ st.w.sent \in Nat /\ st.w.sent <= MaxBytes /\ MaxBytes \in Nat
  BY Sizes DEF HandlerState, Wire, Byte
<1>2. st.w.sent - st.w.taken \in Nat
      /\ \A i \in 1..(st.w.sent - st.w.taken) : st.w.taken + i \in Byte
  BY <1>1 DEF Byte
<1>3. Unread(st) \in [1..(st.w.sent - st.w.taken) -> Byte]
  BY <1>2 DEF Unread
<1> QED
  BY <1>2, <1>3, IsSequence

LEMMA SendBackTallies ==
  ASSUME NEW st \in HandlerState, NEW id \in Conn, NEW block \in Block, Tally(st.e, st.w)
  PROVE  LET t == SendBackOrBuffer(st, id, block)
         IN  t \in HandlerState /\ t.s.open = st.s.open /\ Tally(t.e, t.w)
<1> DEFINE data == Unread(st)
           n == Taken(st, data)
           written == Write(st, id, data)
           wrote == [written EXCEPT !.w.taken = st.w.sent]
           v == [written.w EXCEPT !.taken = st.w.sent]
           behind == Backlog(st) \o Rest(data, n)
           short == Rebuffer(wrote, block, behind)
<1>1. data \in Seq(Byte) /\ Len(data) = st.w.sent - st.w.taken
  BY UnreadType DEF Tally
<1> HIDE DEF data
<1>2. n \in 0..Len(data) /\ Len(data) \in Nat
  BY <1>1, TakenBounds, LenProperties
<1>3. /\ written \in HandlerState /\ written.s.open = st.s.open /\ written.e = st.e
      /\ Sends(written.w, st.w, data, n)
  BY <1>1, WriteSends
<1> HIDE DEF n, written
<1>4. /\ Len(st.w.out) \in Nat /\ st.e.length \in Nat /\ st.w.taken \in Nat
      /\ st.w.sent \in Byte /\ st.w.sent \in Nat /\ st.w.sent <= MaxBytes /\ MaxBytes \in Nat
  BY Sizes, LenProperties DEF HandlerState, Wire, EchoSocket, Byte
<1>5. /\ v \in Wire /\ v.taken = st.w.sent /\ v.sent = st.w.sent
      /\ Len(v.out) = Len(st.w.out) + n
  BY <1>3, <1>4 DEF HandlerState, Wire, Sends
<1>6. /\ wrote \in HandlerState /\ wrote.s = written.s /\ wrote.e = written.e /\ wrote.w = v
  BY <1>3, <1>5 DEF HandlerState
<1> HIDE DEF v, wrote
<1>7. CASE n = Len(data)
  <2>1. wrote.w.taken = Len(wrote.w.out) + wrote.e.length
    <3>1. st.w.taken = Len(st.w.out) + st.e.length
      BY DEF Tally
    <3>2. wrote.w.taken = st.w.sent /\ Len(wrote.w.out) = Len(st.w.out) + n /\ wrote.e = st.e
      BY <1>3, <1>5, <1>6
    <3>3. n = st.w.sent - st.w.taken
      BY <1>1, <1>7
    <3>4. st.w.sent = (Len(st.w.out) + (st.w.sent - st.w.taken)) + st.e.length
      BY <1>4, <3>1
    <3> QED
      BY <3>2, <3>3, <3>4
  <2>2. Tally(wrote.e, wrote.w)
    BY <1>3, <1>4, <1>5, <1>6, <2>1 DEF Tally
  <2>3. SendBackOrBuffer(st, id, block) = wrote
    BY <1>7 DEF SendBackOrBuffer, wrote, written, n, data
  <2> QED
    BY <1>3, <1>6, <2>2, <2>3
<1>8. CASE n # Len(data)
  <2>1. Backlog(st) \in Seq(Byte) /\ Len(Backlog(st)) = st.e.length
    BY BacklogType DEF Tally
  <2>2. Rest(data, n) \in Seq(Byte) /\ Len(Rest(data, n)) = Len(data) - n
    <3>1. /\ n + 1 \in Nat \ {0} /\ Len(data) \in 0..Len(data) /\ n + 1 <= Len(data) + 1
          /\ Len(data) + 1 - (n + 1) = Len(data) - n
      BY <1>2
    <3> QED
      BY <1>1, <3>1, PartOf DEF Rest
  <2>3. behind \in Seq(Byte) /\ Len(behind) = st.e.length + (Len(data) - n)
    <3>1. behind \in Seq(Byte) /\ Len(behind) = Len(Backlog(st)) + Len(Rest(data, n))
      BY ONLY <2>1, <2>2, ConcatProperties DEF behind
    <3> QED
      BY ONLY <2>1, <2>2, <3>1
  <2> HIDE DEF behind
  <2>4. st.w.taken = Len(st.w.out) + st.e.length
    BY DEF Tally
  <2>5. /\ Len(behind) <= MaxBytes /\ Len(behind) \in Nat
        /\ st.w.sent = (Len(st.w.out) + n) + Len(behind)
    <3> DEFINE unread == st.w.sent - st.w.taken
    <3>1. n \in Nat /\ n <= unread /\ Len(behind) = st.e.length + (unread - n)
      BY <1>1, <1>2, <2>3
    <3>2. unread \in Nat
      BY <1>1, <1>2
    <3>3. st.w.sent = Len(st.w.out) + st.e.length + unread
      BY <1>4, <2>4
    <3> HIDE DEF unread
    <3> QED
      BY <1>4, <3>1, <3>2, <3>3
  <2>6. /\ short \in HandlerState /\ short.s = wrote.s /\ short.w = wrote.w
        /\ short.e.length = Len(behind) /\ short.e.backpressure # NULL
    BY <1>6, <2>3, <2>5, RebufferType
  <2>7. SendBackOrBuffer(st, id, block) = short
    BY <1>8 DEF SendBackOrBuffer, behind, wrote, written, n, data
  <2> HIDE DEF short
  <2>8. Tally(short.e, short.w)
    <3>1. /\ short.w.taken = st.w.sent /\ short.w.sent = st.w.sent
          /\ Len(short.w.out) = Len(st.w.out) + n
      BY <1>5, <1>6, <2>6
    <3> QED
      BY <1>4, <2>5, <2>6, <3>1 DEF Tally
  <2> QED
    BY <1>3, <1>6, <2>6, <2>7, <2>8
<1> QED
  BY <1>7, <1>8

\* Arming a timeout changes nothing else of a connection.
LEMMA ArmedType ==
  ASSUME NEW st \in HandlerState
  PROVE  LET t == Armed(st)
         IN  /\ t \in HandlerState
             /\ t.s.open = st.s.open /\ t.s.bits = st.s.bits /\ t.s.timeout = IdleSweeps
             /\ t.f = st.f /\ t.failed = st.failed /\ t.e = st.e /\ t.h = st.h /\ t.w = st.w
             /\ t.ub = st.ub
<1>1. IdleSweeps \in 0..IdleSweeps
  BY Sizes
<1> QED
  BY <1>1 DEF Armed, HandlerState, Socket

LEMMA OnDataTallies ==
  ASSUME NEW st \in HandlerState, NEW id \in Conn, NEW block \in Block, Tally(st.e, st.w)
  PROVE  LET t == OnData(st, id, block)
         IN  /\ t \in HandlerState /\ Tally(t.e, t.w)
             /\ t.s.open = st.s.open /\ t.s.timeout = IdleSweeps
<1> DEFINE u == SendBackOrBuffer(st, id, block)
<1>1. u \in HandlerState /\ u.s.open = st.s.open /\ Tally(u.e, u.w)
  BY SendBackTallies
<1> HIDE DEF u
<1>2. OnData(st, id, block) = Armed(u)
  BY DEF OnData, u
<1> QED
  BY <1>1, <1>2, ArmedType

LEMMA OnWritableTallies ==
  ASSUME NEW st \in HandlerState, NEW id \in Conn, NEW block \in Block, Tally(st.e, st.w)
  PROVE  LET t == OnWritable(st, id, block)
         IN  /\ t \in HandlerState /\ Tally(t.e, t.w)
             /\ t.s.open = st.s.open /\ t.s.timeout = IdleSweeps
<1> DEFINE u == ContinueBacklog(st, id, block)
<1>1. u \in HandlerState /\ u.s.open = st.s.open /\ Tally(u.e, u.w)
  BY ContinueBacklogTallies
<1> HIDE DEF u
<1>2. OnWritable(st, id, block) = Armed(u)
  BY DEF OnWritable, u
<1> QED
  BY <1>1, <1>2, ArmedType

\* Stopping to poll changes only what is polled for.
LEMMA StopPollingType ==
  ASSUME NEW st \in HandlerState, NEW id \in Conn
  PROVE  LET t == StopPolling(st, id)
         IN  /\ t \in HandlerState /\ t.s.open = st.s.open /\ t.s.timeout = st.s.timeout
             /\ t.e = st.e /\ t.h = st.h /\ t.w = st.w /\ t.ub = st.ub
BY PollChangeType DEF StopPolling

LEMMA QuietType == Quiet \in Wire /\ NoEcho \in EchoSocket
<1>1. Quiet \in Wire
  BY Sizes, EmptySeq DEF Quiet, Wire
<1>2. NoEcho \in EchoSocket
  BY Sizes DEF NoEcho, EchoSocket
<1> QED
  BY <1>1, <1>2

\* A closed connection keeps nothing.
LEMMA ClosedType ==
  ASSUME NEW st \in HandlerState
  PROVE  LET t == Closed(st)
         IN  /\ t \in HandlerState /\ ~t.s.open /\ t.f = NoFilters
             /\ t.e = NoEcho /\ t.w = Quiet
             /\ t.ub = (st.ub \/ Stale(st.e))
             /\ \A b \in Block \ {st.e.backpressure} : t.h[b] = st.h[b]
<1> DEFINE u == ClosedSocket(st)
           v == FreeBacklog(u)
<1>1. NoSocket \in Socket /\ ~NoSocket.open
  BY Sizes DEF NoSocket, Socket
<1>2. NoFilters \in [Events -> Conn \cup {NULL}]
  BY DEF NoFilters
<1>3. /\ u \in HandlerState /\ u.s = NoSocket /\ u.f = NoFilters
      /\ u.e = st.e /\ u.h = st.h /\ u.ub = st.ub
  BY <1>1, <1>2 DEF ClosedSocket, HandlerState
<1> HIDE DEF u
<1>4. /\ v \in HandlerState /\ v.s = u.s /\ v.f = u.f
      /\ v.ub = (u.ub \/ Stale(u.e))
      /\ \A b \in Block \ {st.e.backpressure} : v.h[b] = u.h[b]
  BY <1>3, FreeType
<1> HIDE DEF v
<1>5. Closed(st) = [v EXCEPT !.e = NoEcho, !.w = Quiet]
  BY DEF Closed, v, u
<1> QED
  BY <1>1, <1>3, <1>4, <1>5, QuietType DEF HandlerState

\* What every handler starts from.
LEMMA StateType ==
  ASSUME TypeOK, NEW id \in Conn
  PROVE  /\ State(id) \in HandlerState
         /\ State(id).s = sock[id] /\ State(id).e = es[id] /\ State(id).w = wire[id]
         /\ State(id).f = filters[id] /\ State(id).h = heap /\ State(id).ub = FALSE
<1>1. sock[id] \in Socket /\ filters[id] \in [Events -> Conn \cup {NULL}]
      /\ lastWriteFailed \in BOOLEAN /\ es[id] \in EchoSocket
      /\ heap \in [Block -> Seq(Byte)] /\ wire[id] \in Wire
  BY DEF TypeOK, LibraryTypeOK, Wire
<1> QED
  BY <1>1 DEF State, HandlerState

-----------------------------------------------------------------------------
(***************************************************************************)
(* The steps of the server.                                                *)
(***************************************************************************)
\* A report that is not the sweep timer's is of an open connection.
LEMMA ReportOfConn ==
  ASSUME EchoInv, NEW r \in ready, r # SweepTimer
  PROVE  r.c \in Conn /\ sock[r.c].open /\ Tally(es[r.c], wire[r.c])
BY DEF EchoInv, TypeOK

\* A connection whose handler left it in order and armed, or closed it.
LEMMA BecomesKeeps ==
  ASSUME EchoInv, NEW id \in Conn, NEW st \in HandlerState, Becomes(id, st),
         ready' \in SUBSET ready,
         \/ st.s.open /\ Tally(st.e, st.w) /\ st.s.timeout = IdleSweeps
         \/ ~st.s.open /\ st.f = NoFilters /\ \A r \in ready' : r.c # id
  PROVE  EchoInv'
<1>1. /\ sock' = [sock EXCEPT ![id] = st.s]
      /\ filters' = [filters EXCEPT ![id] = st.f]
      /\ lastWriteFailed' = st.failed
      /\ silence' = [silence EXCEPT ![id] = 0]
      /\ es' = [es EXCEPT ![id] = st.e]
      /\ heap' = st.h
      /\ wire' = [wire EXCEPT ![id] = st.w]
      /\ undefined' \in BOOLEAN /\ crashed' \in BOOLEAN
  BY DEF Becomes, LibraryBecomes, Frees
<1>2. /\ sock \in [Conn -> Socket] /\ filters \in [Conn -> [Events -> Conn \cup {NULL}]]
      /\ es \in [Conn -> EchoSocket] /\ wire \in [Conn -> Wire]
      /\ silence \in [Conn -> 0..IdleSweeps]
  BY DEF EchoInv, TypeOK, LibraryTypeOK, Wire
<1>3. /\ st.s \in Socket /\ st.f \in [Events -> Conn \cup {NULL}] /\ st.failed \in BOOLEAN
      /\ st.e \in EchoSocket /\ st.h \in [Block -> Seq(Byte)] /\ st.w \in Wire
      /\ 0 \in 0..IdleSweeps
  BY Sizes DEF HandlerState
<1>4. /\ sock'[id] = st.s /\ filters'[id] = st.f /\ es'[id] = st.e /\ wire'[id] = st.w
      /\ silence'[id] = 0
      /\ \A c \in Conn \ {id} : /\ sock'[c] = sock[c] /\ filters'[c] = filters[c]
                               /\ es'[c] = es[c] /\ wire'[c] = wire[c]
                               /\ silence'[c] = silence[c]
  BY <1>1, <1>2
<1>5. \A r \in ready' : r = SweepTimer \/ r.c \in Conn
  BY DEF EchoInv
<1>6. \A r \in ready' : r = SweepTimer \/ sock'[r.c].open
  <2> SUFFICES ASSUME NEW r \in ready', r # SweepTimer
               PROVE  sock'[r.c].open
    OBVIOUS
  <2>1. r.c \in Conn /\ sock[r.c].open
    BY ReportOfConn
  <2> QED
    BY <1>4, <2>1
<1>7. TypeOK'
  <2>1. LibraryTypeOK'
    BY <1>1, <1>2, <1>3 DEF LibraryTypeOK, EchoInv, TypeOK
  <2>2. wire' \in [Conn -> Wire] /\ es' \in [Conn -> EchoSocket]
    BY <1>1, <1>2, <1>3
  <2> QED
    BY <1>1, <1>3, <1>6, <2>1, <2>2 DEF TypeOK, Wire
<1>8. ASSUME NEW c \in Conn, sock'[c].open
      PROVE  Tally(es'[c], wire'[c]) /\ Patience(sock'[c], silence'[c])
  <2>1. CASE c = id
    BY <1>4, <1>8, <2>1, Sizes DEF Patience
  <2>2. CASE c # id
    BY <1>4, <1>8, <2>2 DEF EchoInv
  <2> QED
    BY <2>1, <2>2
<1>9. \A c \in Conn, e \in Events : filters'[c][e] # NULL => sock'[c].open
  BY <1>4 DEF EchoInv, NoFilters
<1> QED
  BY <1>5, <1>7, <1>8, <1>9 DEF EchoInv

LEMMA InvUnchanged == EchoInv /\ UNCHANGED vars => EchoInv'
BY DEF EchoInv, TypeOK, LibraryTypeOK, vars, library

LEMMA InitInv == Init => EchoInv
<1> SUFFICES ASSUME Init PROVE EchoInv
  OBVIOUS
<1>1. NoSocket \in Socket /\ NoFilters \in [Events -> Conn \cup {NULL}] /\ 0 \in 0..IdleSweeps
  BY Sizes DEF NoSocket, Socket, NoFilters
<1>2. NoEcho \in EchoSocket
  BY Sizes DEF NoEcho, EchoSocket
<1>3. Quiet \in Wire
  BY Sizes, EmptySeq DEF Quiet, Wire
<1>4. LibraryTypeOK
  BY <1>1 DEF Init, LibraryInit, LibraryTypeOK
<1>5. wire \in [Conn -> Wire] /\ es \in [Conn -> EchoSocket] /\ heap \in [Block -> Seq(Byte)]
  BY <1>2, <1>3, Sizes DEF Init
<1>6. ready = {} /\ undefined = FALSE /\ crashed = FALSE
  BY DEF Init, LibraryInit
<1>7. TypeOK
  BY <1>4, <1>5, <1>6 DEF TypeOK, Wire
<1> QED
  BY <1>6, <1>7 DEF Init, LibraryInit, EchoInv, NoSocket, NoFilters

LEMMA AcceptStep ==
  ASSUME EchoInv, NEW c \in Conn, AcceptConnection(c)
  PROVE  EchoInv'
<1> DEFINE st0 == [State(c) EXCEPT !.w = Quiet]
           st1 == Accepted(st0, c)
           st2 == Armed(st1)
           st3 == OnOpen(st1)
<1>1. Quiet \in Wire /\ Quiet.sent = 0 /\ Quiet.taken = 0 /\ Len(Quiet.out) = 0
  BY Sizes, EmptySeq DEF Quiet, Wire
<1>2. st0 \in HandlerState /\ st0.w = Quiet
  BY <1>1, StateType DEF EchoInv, HandlerState
<1> HIDE DEF st0
<1>3. [open |-> TRUE, bits |-> StartBits({READABLE}), timeout |-> 0] \in Socket
  <2>1. StartBits({READABLE}) \in SUBSET Bits
    BY BitsType
  <2>2. 0 \in 0..IdleSweeps
    BY Sizes
  <2> QED
    BY <2>1, <2>2 DEF Socket
<1>4. KqueueChange(NoFilters, {}, {READABLE}, c) \in [Events -> Conn \cup {NULL}]
  BY KqueueAddFilters DEF NoFilters, Events, READABLE, WRITABLE
<1>5. st1 \in HandlerState /\ st1.s.open /\ st1.w = Quiet
  BY <1>2, <1>3, <1>4 DEF Accepted, HandlerState
<1> HIDE DEF st1
<1>6. st2 \in HandlerState /\ st2.s.open /\ st2.s.timeout = IdleSweeps /\ st2.w = Quiet
  BY <1>5, ArmedType
<1>7. NoEcho \in EchoSocket /\ NoEcho.length = 0
  BY Sizes DEF NoEcho, EchoSocket
<1>8. st3 = [st2 EXCEPT !.e = NoEcho]
  BY DEF OnOpen
<1> HIDE DEF st2, st3
<1>9. /\ st3 \in HandlerState /\ st3.s.open /\ st3.s.timeout = IdleSweeps
      /\ st3.w = Quiet /\ st3.e = NoEcho
  BY <1>6, <1>7, <1>8 DEF HandlerState
<1>10. Tally(NoEcho, Quiet)
  BY <1>1, <1>7 DEF Tally
<1>11. Becomes(c, st3) /\ ready' \in SUBSET ready
  BY DEF AcceptConnection, st3, st1, st0
<1> QED
  BY <1>9, <1>10, <1>11, BecomesKeeps

LEMMA KeventStep ==
  ASSUME EchoInv, KqueueWait
  PROVE  EchoInv'
<1> DEFINE reports == Reports({c \in Conn : wire[c].taken < wire[c].sent},
                              {c \in Conn : SendBuffer - wire[c].buffered >= LowWater},
                              {c \in Conn : wire[c].fin})
<1>1. /\ ready' \subseteq reports \cup {SweepTimer}
      /\ UNCHANGED <<sock, filters, lastWriteFailed, silence, es, heap, wire, undefined, crashed>>
  BY DEF KqueueWait, Kevent
<1>2. \A r \in reports : /\ r \in [c : Conn, e : Events, eof : BOOLEAN]
                        /\ r.c \in Conn /\ r.e \in Events /\ filters[r.c][r.e] # NULL
  BY DEF Reports
<1> HIDE DEF reports
<1>3. \A r \in reports : r \in Report /\ r.c \in Conn /\ sock[r.c].open
  BY <1>2 DEF EchoInv, Report
<1>4. SweepTimer \in Report
  BY DEF SweepTimer, Report, Events
<1>5. /\ ready' \subseteq Report
      /\ \A r \in ready' : r = SweepTimer \/ (r.c \in Conn /\ sock[r.c].open)
  BY <1>1, <1>3, <1>4
<1>6. TypeOK'
  <2>1. LibraryTypeOK'
    BY <1>1, <1>5 DEF EchoInv, TypeOK, LibraryTypeOK
  <2> QED
    BY <1>1, <1>5, <2>1 DEF EchoInv, TypeOK
<1> QED
  BY <1>1, <1>5, <1>6 DEF EchoInv

LEMMA SkipStep ==
  ASSUME EchoInv, NEW r \in ready, SkipReport(r)
  PROVE  EchoInv'
<1>1. /\ ready' \in SUBSET ready
      /\ UNCHANGED <<sock, filters, lastWriteFailed, silence, es, heap, wire, undefined, crashed>>
  BY DEF SkipReport, Skip
<1> QED
  BY <1>1 DEF EchoInv, TypeOK, LibraryTypeOK

\* Closing a connection, whatever its handler did before.
LEMMA CloseStep ==
  ASSUME EchoInv, NEW id \in Conn, NEW st \in HandlerState,
         Becomes(id, Closed(st)), ready' = ReportsWithout({id})
  PROVE  EchoInv'
<1> DEFINE t == Closed(st)
<1>1. t \in HandlerState /\ ~t.s.open /\ t.f = NoFilters
  BY ClosedType
<1>2. ready' \in SUBSET ready /\ \A r \in ready' : r.c # id
  BY DEF ReportsWithout
<1>3. Becomes(id, t)
  OBVIOUS
<1> HIDE DEF t
<1> QED
  BY <1>1, <1>2, <1>3, BecomesKeeps

LEMMA EofStep ==
  ASSUME EchoInv, NEW r \in ready, DispatchEof(r)
  PROVE  EchoInv'
<1>1. r # SweepTimer
  BY DEF DispatchEof, SweepTimer
<1>2. r.c \in Conn
  BY <1>1, ReportOfConn
<1>3. State(r.c) \in HandlerState
  BY <1>2, StateType DEF EchoInv
<1>4. Becomes(r.c, Closed(State(r.c))) /\ ready' = ReportsWithout({r.c})
  BY DEF DispatchEof
<1> QED
  BY <1>2, <1>3, <1>4, CloseStep

LEMMA ReadableStep ==
  ASSUME EchoInv, NEW r \in ready, DispatchReadable(r)
  PROVE  EchoInv'
<1> DEFINE id == r.c
           st == State(id)
<1>1. r # SweepTimer
  BY Sizes DEF DispatchReadable, SweepTimer
<1>2. id \in Conn /\ sock[id].open /\ Tally(es[id], wire[id])
  BY <1>1, ReportOfConn
<1>3. st \in HandlerState /\ st.s = sock[id] /\ st.e = es[id] /\ st.w = wire[id]
  BY <1>2, StateType DEF EchoInv
<1>4. PICK block \in NewBlock :
        IF wire[id].taken < wire[id].sent
          THEN Becomes(id, OnData(st, id, block)) /\ ready' = ready \ {r}
          ELSE Becomes(id, OnEnd(StopReading(st, id))) /\ ready' = ReportsWithout({id})
  BY DEF DispatchReadable
<1>5. block \in Block
  BY DEF NewBlock
<1> HIDE DEF st
<1>6. CASE wire[id].taken < wire[id].sent
  <2> DEFINE t == OnData(st, id, block)
  <2>1. /\ t \in HandlerState /\ Tally(t.e, t.w) /\ t.s.open /\ t.s.timeout = IdleSweeps
    BY <1>2, <1>3, <1>5, OnDataTallies
  <2>2. Becomes(id, t) /\ ready' \in SUBSET ready
    BY <1>4, <1>6
  <2> HIDE DEF t
  <2> QED
    BY <1>2, <2>1, <2>2, BecomesKeeps
<1>7. CASE ~(wire[id].taken < wire[id].sent)
  <2> DEFINE t == StopReading(st, id)
  <2>1. t \in HandlerState
    BY <1>2, <1>3, PollChangeType DEF StopReading
  <2>2. Becomes(id, Closed(t)) /\ ready' = ReportsWithout({id})
    BY <1>4, <1>7 DEF OnEnd
  <2> HIDE DEF t
  <2> QED
    BY <1>2, <2>1, <2>2, CloseStep
<1> QED
  BY <1>6, <1>7

LEMMA WritableStep ==
  ASSUME EchoInv, NEW r \in ready, DispatchWritable(r)
  PROVE  EchoInv'
<1> DEFINE id == r.c
           st == [State(id) EXCEPT !.failed = FALSE]
<1>1. r # SweepTimer
  BY DEF DispatchWritable, SweepTimer, READABLE, WRITABLE
<1>2. id \in Conn /\ sock[id].open /\ Tally(es[id], wire[id])
  BY <1>1, ReportOfConn
<1>3. st \in HandlerState /\ st.s = sock[id] /\ st.e = es[id] /\ st.w = wire[id]
  <2>1. /\ State(id) \in HandlerState
        /\ State(id).s = sock[id] /\ State(id).e = es[id] /\ State(id).w = wire[id]
    BY <1>2, StateType DEF EchoInv
  <2> QED
    BY <2>1 DEF HandlerState
<1>4. PICK block \in NewBlock : Becomes(id, StopPolling(OnWritable(st, id, block), id))
  BY DEF DispatchWritable
<1>5. block \in Block
  BY DEF NewBlock
<1> HIDE DEF st
<1> DEFINE u == OnWritable(st, id, block)
           t == StopPolling(u, id)
<1>6. u \in HandlerState /\ Tally(u.e, u.w) /\ u.s.open /\ u.s.timeout = IdleSweeps
  BY <1>2, <1>3, <1>5, OnWritableTallies
<1>7. Becomes(id, t) /\ ready' \in SUBSET ready
  BY <1>4 DEF DispatchWritable
<1> HIDE DEF u
<1>8. t \in HandlerState /\ Tally(t.e, t.w) /\ t.s.open /\ t.s.timeout = IdleSweeps
  BY <1>2, <1>6, StopPollingType
<1> HIDE DEF t
<1> QED
  BY <1>2, <1>7, <1>8, BecomesKeeps

\* The sweep closes connections or counts on.
LEMMA SweepStep ==
  ASSUME EchoInv, Sweep
  PROVE  EchoInv'
<1> DEFINE closing == Expiring
<1>1. /\ SweepSockets(closing)
      /\ es' = [c \in Conn |-> IF c \in closing THEN NoEcho ELSE es[c]]
      /\ \E freed : heap' = [b \in Block |-> IF b \in freed THEN FREE ELSE heap[b]]
      /\ wire' = [c \in Conn |-> IF c \in closing THEN Quiet ELSE wire[c]]
      /\ undefined' \in BOOLEAN /\ crashed' \in BOOLEAN
  BY DEF Sweep, Frees
<1>2. /\ \A r \in ready' : r \in ready /\ r # SweepTimer /\ r.c \notin closing
      /\ lastWriteFailed' = lastWriteFailed
  BY <1>1 DEF SweepSockets, ReportsWithout, SweepTimer
<1>3. /\ sock \in [Conn -> Socket] /\ filters \in [Conn -> [Events -> Conn \cup {NULL}]]
      /\ es \in [Conn -> EchoSocket] /\ silence \in [Conn -> 0..IdleSweeps]
      /\ heap \in [Block -> Seq(Byte)] /\ wire \in [Conn -> Wire]
  BY DEF EchoInv, TypeOK, LibraryTypeOK, Wire
<1>4. \A c \in Conn \ closing :
        /\ sock'[c] \in Socket /\ sock'[c].open = sock[c].open
        /\ filters'[c] = filters[c] /\ es'[c] = es[c]
        /\ sock[c].open => Patience(sock'[c], silence'[c])
  <2> SUFFICES ASSUME NEW c \in Conn \ closing
               PROVE  /\ sock'[c] \in Socket /\ sock'[c].open = sock[c].open
                      /\ filters'[c] = filters[c] /\ es'[c] = es[c]
                      /\ sock[c].open => Patience(sock'[c], silence'[c])
    OBVIOUS
  <2> DEFINE n == IF sock[c].timeout > 0 THEN sock[c].timeout - 1 ELSE 0
  <2>1. /\ sock[c] \in Socket /\ n \in 0..IdleSweeps /\ sock[c].timeout \in Nat
        /\ silence[c] \in Nat
    BY <1>3, Sizes DEF Socket
  <2>2. sock'[c] = [sock[c] EXCEPT !.timeout = n]
    BY <1>1 DEF SweepSockets
  <2>3. ASSUME sock[c].open PROVE Patience(sock'[c], silence'[c])
    <3>1. sock[c].timeout > 1 /\ sock[c].timeout + silence[c] >= IdleSweeps
      BY <2>1, <2>3 DEF EchoInv, Patience, Expiring
    <3>2. silence'[c] = IF silence[c] < IdleSweeps THEN silence[c] + 1 ELSE IdleSweeps
      BY <1>1 DEF SweepSockets
    <3>3. sock'[c].timeout = sock[c].timeout - 1
      BY <2>1, <2>2, <3>1 DEF Socket
    <3> QED
      BY <2>1, <3>1, <3>2, <3>3, Sizes DEF Patience
  <2> HIDE DEF n
  <2> QED
    BY <1>1, <2>1, <2>2, <2>3 DEF SweepSockets, Socket
<1>5. \A c \in closing : /\ sock'[c] \in Socket /\ ~sock'[c].open
                        /\ filters'[c] = NoFilters
  <2>1. NoSocket \in Socket /\ ~NoSocket.open
    BY Sizes DEF NoSocket, Socket
  <2> QED
    BY <1>1, <2>1 DEF SweepSockets, Expiring
<1>6. \A r \in ready' : r.c \in Conn /\ sock'[r.c].open
  BY <1>2, <1>4, ReportOfConn
<1>7. TypeOK'
  <2>1. NoFilters \in [Events -> Conn \cup {NULL}]
    BY DEF NoFilters
  <2>2. sock' \in [Conn -> Socket]
    <3>1. \A c \in Conn : sock'[c] \in Socket
      BY <1>4, <1>5
    <3>2. sock' = [c \in Conn |-> sock'[c]]
      BY <1>1 DEF SweepSockets
    <3> QED
      BY <3>1, <3>2
  <2>3. filters' \in [Conn -> [Events -> Conn \cup {NULL}]]
    BY <1>1, <1>3, <2>1 DEF SweepSockets
  <2>4. silence' \in [Conn -> 0..IdleSweeps]
    BY <1>1, <1>3, Sizes DEF SweepSockets
  <2>5. es' \in [Conn -> EchoSocket]
    <3>1. NoEcho \in EchoSocket
      BY Sizes DEF NoEcho, EchoSocket
    <3> QED
      BY <1>1, <1>3, <3>1
  <2>6. heap' \in [Block -> Seq(Byte)]
    BY <1>1, <1>3, Sizes
  <2>7. LibraryTypeOK'
    BY <1>2, <2>2, <2>3, <2>4 DEF LibraryTypeOK, EchoInv, TypeOK
  <2>8. wire' \in [Conn -> Wire]
    BY <1>1, <1>3, QuietType
  <2> QED
    BY <1>1, <1>6, <2>5, <2>6, <2>7, <2>8 DEF EchoInv, TypeOK, Wire
<1>8. ASSUME NEW c \in Conn, sock'[c].open
      PROVE  Tally(es'[c], wire'[c]) /\ Patience(sock'[c], silence'[c])
  BY <1>1, <1>4, <1>5, <1>8 DEF EchoInv
<1>9. \A c \in Conn, e \in Events : filters'[c][e] # NULL => sock'[c].open
  BY <1>4, <1>5 DEF EchoInv, NoFilters
<1> QED
  BY <1>6, <1>7, <1>8, <1>9 DEF EchoInv

-----------------------------------------------------------------------------
(***************************************************************************)
(* The steps of the clients.                                               *)
(***************************************************************************)
\* A client sends more, reads or ends; what was taken and echoed stays.
LEMMA ClientKeeps ==
  ASSUME EchoInv, NEW id \in Conn, NEW w \in Wire, wire' = [wire EXCEPT ![id] = w],
         UNCHANGED <<library, es, heap, undefined, crashed>>,
         w.taken = wire[id].taken, w.out = wire[id].out, w.sent >= wire[id].sent
  PROVE  EchoInv'
<1>1. /\ wire \in [Conn -> Wire] /\ wire' \in [Conn -> Wire]
      /\ wire'[id] = w /\ \A c \in Conn \ {id} : wire'[c] = wire[c]
  BY DEF EchoInv, TypeOK, Wire
<1>2. UNCHANGED <<sock, filters, ready, lastWriteFailed, silence, es, heap, undefined, crashed>>
  BY DEF library
<1>3. TypeOK'
  BY <1>1, <1>2 DEF EchoInv, TypeOK, LibraryTypeOK, Wire
<1>4. ASSUME NEW c \in Conn, sock'[c].open
      PROVE  Tally(es'[c], wire'[c]) /\ Patience(sock'[c], silence'[c])
  <2>1. Tally(es[c], wire[c]) /\ Patience(sock[c], silence[c])
    BY <1>2, <1>4 DEF EchoInv
  <2>2. wire[id].taken \in Nat /\ wire[id].sent \in Nat /\ w.sent \in Nat
    BY <1>1, Sizes DEF Wire, Byte
  <2> QED
    BY <1>1, <1>2, <2>1, <2>2 DEF Tally
<1> QED
  BY <1>2, <1>3, <1>4 DEF EchoInv

LEMMA SendsStep ==
  ASSUME EchoInv, NEW c \in Conn, ClientSends(c)
  PROVE  EchoInv'
<1> DEFINE w == wire[c]
           hasty == w.hasty \/ ~Answered(c)
<1>1. w \in Wire
  BY DEF EchoInv, TypeOK, Wire
<1>2. PICK n \in 1..MaxMessage :
        /\ w.sent + n <= MaxBytes
        /\ wire' = [wire EXCEPT ![c].sent = @ + n, ![c].hasty = @ \/ ~Answered(c)]
  BY DEF ClientSends
<1> DEFINE v == [w EXCEPT !.sent = w.sent + n, !.hasty = hasty]
<1>3. wire' = [wire EXCEPT ![c] = v]
  BY <1>2 DEF EchoInv, TypeOK
<1>4. w.sent + n \in Byte /\ w.sent + n >= w.sent
  <2>1. n \in Nat
    <3>1. MaxMessage \in Nat
      BY EchoAssumption
    <3> QED
      BY <3>1
  <2> QED
    BY <1>1, <1>2, <2>1, Sizes DEF Wire, Byte
<1>5. hasty \in BOOLEAN
  BY <1>1 DEF Wire
<1> HIDE DEF w, hasty
<1>6. v \in Wire /\ v.taken = w.taken /\ v.out = w.out /\ v.sent >= w.sent
  BY <1>1, <1>4, <1>5 DEF Wire
<1> HIDE DEF v
<1>7. UNCHANGED <<library, es, heap, undefined, crashed>>
  BY DEF ClientSends
<1> QED
  BY <1>3, <1>6, <1>7, ClientKeeps DEF w

LEMMA ReadsStep ==
  ASSUME EchoInv, NEW c \in Conn, ClientReads(c)
  PROVE  EchoInv'
<1> DEFINE w == wire[c]
<1>1. w \in Wire /\ SendBuffer \in Nat
  BY Sizes DEF EchoInv, TypeOK, Wire
<1>2. PICK n \in 1..w.buffered : wire' = [wire EXCEPT ![c].buffered = @ - n]
  BY DEF ClientReads
<1> DEFINE v == [w EXCEPT !.buffered = w.buffered - n]
<1>3. wire' = [wire EXCEPT ![c] = v]
  BY <1>2
<1>4. UNCHANGED <<library, es, heap, undefined, crashed>>
  BY DEF ClientReads
<1> HIDE DEF w
<1>5. w.sent >= w.sent
  BY <1>1, Sizes DEF Wire, Byte
<1>6. v \in Wire /\ v.taken = w.taken /\ v.out = w.out /\ v.sent = w.sent
  BY <1>1 DEF Wire
<1> HIDE DEF v
<1> QED
  BY <1>3, <1>4, <1>5, <1>6, ClientKeeps DEF w

LEMMA EndsStep ==
  ASSUME EchoInv, NEW c \in Conn, ClientEnds(c)
  PROVE  EchoInv'
<1> DEFINE w == wire[c]
           v == [w EXCEPT !.fin = TRUE]
<1>1. w \in Wire
  BY DEF EchoInv, TypeOK, Wire
<1>2. wire' = [wire EXCEPT ![c] = v] /\ UNCHANGED <<library, es, heap, undefined, crashed>>
  BY DEF ClientEnds
<1> HIDE DEF w
<1>3. w.sent >= w.sent
  BY <1>1, Sizes DEF Wire, Byte
<1>4. v \in Wire /\ v.taken = w.taken /\ v.out = w.out /\ v.sent = w.sent
  BY <1>1 DEF Wire
<1> HIDE DEF v
<1> QED
  BY <1>2, <1>3, <1>4, ClientKeeps DEF w

-----------------------------------------------------------------------------
LEMMA NextInv == EchoInv /\ [Next]_vars => EchoInv'
<1> SUFFICES ASSUME EchoInv, [Next]_vars PROVE EchoInv'
  OBVIOUS
<1>1. CASE KqueueWait
  BY <1>1, KeventStep
<1>2. ASSUME NEW r \in ready,
             SkipReport(r) \/ DispatchEof(r) \/ DispatchReadable(r) \/ DispatchWritable(r)
      PROVE  EchoInv'
  BY <1>2, SkipStep, EofStep, ReadableStep, WritableStep
<1>3. CASE Sweep
  BY <1>3, SweepStep
<1>4. ASSUME NEW c \in Conn,
             AcceptConnection(c) \/ ClientSends(c) \/ ClientReads(c) \/ ClientEnds(c)
      PROVE  EchoInv'
  BY <1>4, AcceptStep, SendsStep, ReadsStep, EndsStep
<1>5. CASE UNCHANGED vars
  BY <1>5, InvUnchanged
<1> QED
  BY <1>1, <1>2, <1>3, <1>4, <1>5 DEF Next, Dispatch

\* The inductive invariant of the echo server, for any clients.
THEOREM EchoInvariance == Spec => []EchoInv
<1>1. Init => EchoInv
  BY InitInv
<1>2. EchoInv /\ [Next]_vars => EchoInv'
  BY NextInv
<1> QED
  BY <1>1, <1>2, PTL DEF Spec

\* Types of the server's state; no handler runs on a connection that is closed.
THEOREM EchoTypes == Spec => []TypeOK
<1>1. EchoInv => TypeOK
  BY DEF EchoInv
<1> QED
  BY <1>1, EchoInvariance, PTL

\* Only the sweep that its timeout runs out in times a connection out.
LEMMA IdleStep == EchoInv /\ [Next]_vars =>
                    [\A c \in Conn : TimedOut(c) => silence[c] + 1 >= IdleSweeps]_vars
<1> SUFFICES ASSUME EchoInv, Next, NEW c \in Conn, TimedOut(c)
             PROVE  silence[c] + 1 >= IdleSweeps
  OBVIOUS
<1>1. SweepTimer \in ready /\ SweepTimer \notin ready' /\ sock[c].open /\ ~sock'[c].open
  BY DEF TimedOut
<1>2. CASE KqueueWait
  BY <1>1, <1>2 DEF KqueueWait, Kevent
<1>3. ASSUME NEW r \in ready,
             SkipReport(r) \/ DispatchEof(r) \/ DispatchReadable(r) \/ DispatchWritable(r)
      PROVE  FALSE
  <2>1. r # SweepTimer
    BY <1>3, Sizes DEF SkipReport, Skip, DispatchEof, DispatchReadable, DispatchWritable,
                       SweepTimer, READABLE, WRITABLE
  <2>2. r.c \in Conn /\ SweepTimer.c = NULL
    BY <2>1, ReportOfConn DEF SweepTimer
  <2>3. ready' \in {ready \ {r}, ReportsWithout({r.c})}
    BY <1>3 DEF SkipReport, Skip, DispatchEof, DispatchReadable, DispatchWritable
  <2> QED
    BY <1>1, <2>1, <2>2, <2>3, Sizes DEF ReportsWithout
<1>4. CASE Sweep
  <2>1. sock[c] \in Socket /\ Patience(sock[c], silence[c]) /\ silence[c] \in Nat
    BY <1>1, Sizes DEF EchoInv, TypeOK, LibraryTypeOK
  <2>2. CASE c \in Expiring
    BY <2>1, <2>2, Sizes DEF Expiring, Patience
  <2>3. CASE c \notin Expiring
    <3>1. sock'[c] = [sock[c] EXCEPT !.timeout = IF @ > 0 THEN @ - 1 ELSE 0]
      BY <1>4, <2>3 DEF Sweep, SweepSockets
    <3>2. sock'[c].open = sock[c].open
      BY <2>1, <3>1 DEF Socket
    <3> QED
      BY <1>1, <3>2
  <2> QED
    BY <2>2, <2>3
<1>5. ASSUME NEW d \in Conn,
             AcceptConnection(d) \/ ClientSends(d) \/ ClientReads(d) \/ ClientEnds(d)
      PROVE  FALSE
  BY <1>1, <1>5 DEF AcceptConnection, ClientSends, ClientReads, ClientEnds, library
<1>6. CASE crashed /\ UNCHANGED vars
  BY <1>1, <1>6 DEF vars, library
<1> QED
  BY <1>2, <1>3, <1>4, <1>5, <1>6 DEF Next, Dispatch

\* For any timeout, number of connections and order of reports and sweeps: a
\* connection is timed out only after it was silent for the whole of it.
THEOREM EchoPatience == Spec => OnlyBoringTimedOut
BY EchoInvariance, IdleStep, PTL DEF Spec, OnlyBoringTimedOut

-----------------------------------------------------------------------------
(***************************************************************************)
(* What the blocks hold.  Two events end it, and EchoServer_stale_pointer  *)
(* and EchoServer_second_short show them: a stale pointer is freed, which  *)
(* is history from then on (undefined), and a continuation is cut short,   *)
(* which is history of its connection (cut).  Nothing else does, with any  *)
(* number of connections that share a heap.                                *)
(***************************************************************************)
\* A backlog is in a block of its size.
Backed(e, h) == e.length > 0 => e.backpressure # NULL /\ Len(h[e.backpressure]) = e.length

\* What was taken is with the kernel or in the block.
Complete(e, h, w) ==
  ~w.cut => \A k \in 1..w.taken : Occurs(k, w.out) \/ Occurs(k, Held(e, h))

\* A client that waits for its echo gets it in order, and its backlog goes on from there.
InOrder(e, h, w) ==
  ~w.hasty /\ ~w.cut =>
    /\ Straight(w.out)
    /\ e.length > 0 => /\ w.taken = w.sent
                       /\ \A i \in 1..e.length : h[e.backpressure][i] = Len(w.out) + i

Echoed(e, h, w) == Backed(e, h) /\ Complete(e, h, w) /\ InOrder(e, h, w)

BacklogInv ==
  ~undefined =>
    /\ \A c \in Conn : Echoed(es[c], heap, wire[c])
    /\ \A c, d \in Conn : c # d /\ es[c].length > 0 /\ es[d].length > 0
                            => es[c].backpressure # es[d].backpressure

\* A handler leaves other blocks alone, and its backlog is where it was or in the block
\* it allocated.
Keeps(t, st, block) ==
  /\ \A b \in Block \ {block} : ~(st.e.length > 0 /\ b = st.e.backpressure) => t.h[b] = st.h[b]
  /\ t.e.length > 0 => \/ t.e.backpressure = block
                       \/ st.e.length > 0 /\ t.e.backpressure = st.e.backpressure

-----------------------------------------------------------------------------
LEMMA OccursJoined ==
  ASSUME NEW a \in Seq(Byte), NEW b \in Seq(Byte), NEW k, Occurs(k, a) \/ Occurs(k, b)
  PROVE  Occurs(k, a \o b)
<1>1. /\ Len(a) \in Nat /\ DOMAIN a = 1..Len(a) /\ Len(b) \in Nat /\ DOMAIN b = 1..Len(b)
  BY LenProperties
<1>2. /\ a \o b \in Seq(Byte) /\ Len(a \o b) = Len(a) + Len(b)
      /\ \A i \in 1..(Len(a) + Len(b)) :
           (a \o b)[i] = IF i <= Len(a) THEN a[i] ELSE b[i - Len(a)]
  BY ConcatProperties
<1>3. DOMAIN (a \o b) = 1..(Len(a) + Len(b))
  BY <1>2, LenProperties
<1>4. CASE Occurs(k, a)
  <2>1. PICK i \in 1..Len(a) : a[i] = k
    BY <1>1, <1>4 DEF Occurs
  <2>2. i \in 1..(Len(a) + Len(b)) /\ i <= Len(a)
    BY <1>1
  <2>3. (a \o b)[i] = k
    BY <1>2, <2>1, <2>2
  <2> QED
    BY <1>3, <2>2, <2>3 DEF Occurs
<1>5. CASE Occurs(k, b)
  <2>1. PICK i \in 1..Len(b) : b[i] = k
    BY <1>1, <1>5 DEF Occurs
  <2> DEFINE j == Len(a) + i
  <2>2. j \in 1..(Len(a) + Len(b)) /\ ~(j <= Len(a)) /\ j - Len(a) = i
    BY <1>1
  <2> HIDE DEF j
  <2>3. (a \o b)[j] = k
    BY <1>2, <2>1, <2>2
  <2> QED
    BY <1>3, <2>2, <2>3 DEF Occurs
<1> QED
  BY <1>4, <1>5

\* The first bytes of a sequence, one by one.
LEMMA FirstOf ==
  ASSUME NEW bytes \in Seq(Byte), NEW n \in 0..Len(bytes)
  PROVE  /\ SubSeq(bytes, 1, n) \in Seq(Byte) /\ Len(SubSeq(bytes, 1, n)) = n
         /\ \A i \in 1..n : SubSeq(bytes, 1, n)[i] = bytes[i]
<1>1. Len(bytes) \in Nat /\ n \in Nat /\ n <= Len(bytes)
  BY LenProperties
<1>2. 1 \in Int /\ n \in Int /\ (\A k \in 1..n : bytes[k] \in Byte) /\ n - 1 + 1 = n
  BY <1>1, ElementOfSeq
<1>3. \A i \in 1..n : SubSeq(bytes, 1, n)[i] = bytes[i]
  <2>1. \A i \in 1..(n - 1 + 1) : SubSeq(bytes, 1, n)[i] = bytes[1 + i - 1]
    BY <1>2, SubSeqProperties
  <2> QED
    BY <1>1, <2>1
<1>4. 1 \in Nat \ {0} /\ 1 <= n + 1 /\ n + 1 - 1 = n
  BY <1>1
<1> QED
  BY <1>3, <1>4, PartOf

\* ... and the others.
LEMMA RestIs ==
  ASSUME NEW bytes \in Seq(Byte), NEW n \in 0..Len(bytes)
  PROVE  /\ Rest(bytes, n) \in Seq(Byte) /\ Len(Rest(bytes, n)) = Len(bytes) - n
         /\ \A i \in 1..(Len(bytes) - n) : Rest(bytes, n)[i] = bytes[n + i]
<1>1. Len(bytes) \in Nat /\ n \in Nat /\ n <= Len(bytes)
  BY LenProperties
<1>2. Rest(bytes, n) \in Seq(Byte) /\ Len(Rest(bytes, n)) = Len(bytes) - n
  <2>1. /\ n + 1 \in Nat \ {0} /\ Len(bytes) \in 0..Len(bytes) /\ n + 1 <= Len(bytes) + 1
        /\ Len(bytes) + 1 - (n + 1) = Len(bytes) - n
    BY <1>1
  <2> QED
    BY <2>1, PartOf DEF Rest
<1>3. \A k \in (n + 1)..Len(bytes) : bytes[k] \in Byte
  BY <1>1, ElementOfSeq
<1>4. n + 1 \in Int /\ Len(bytes) \in Int /\ Len(bytes) - (n + 1) + 1 = Len(bytes) - n
  BY <1>1
<1>5. \A i \in 1..(Len(bytes) - (n + 1) + 1) :
        SubSeq(bytes, n + 1, Len(bytes))[i] = bytes[(n + 1) + i - 1]
  BY <1>3, <1>4, SubSeqProperties
<1>6. \A i \in 1..(Len(bytes) - n) : (n + 1) + i - 1 = n + i
  BY <1>1
<1> QED
  BY <1>2, <1>4, <1>5, <1>6 DEF Rest

\* No byte of a sequence is lost by cutting it.
LEMMA OccursInParts ==
  ASSUME NEW bytes \in Seq(Byte), NEW n \in 0..Len(bytes), NEW j \in 1..Len(bytes)
  PROVE  Occurs(bytes[j], SubSeq(bytes, 1, n)) \/ Occurs(bytes[j], Rest(bytes, n))
<1>1. Len(bytes) \in Nat /\ n \in Nat /\ n <= Len(bytes)
  BY LenProperties
<1>2. CASE j <= n
  <2>1. j \in 1..n
    BY <1>1, <1>2
  <2>2. DOMAIN SubSeq(bytes, 1, n) = 1..n
    BY FirstOf, LenProperties
  <2> QED
    BY <2>1, <2>2, FirstOf DEF Occurs
<1>3. CASE ~(j <= n)
  <2> DEFINE i == j - n
  <2>1. i \in 1..(Len(bytes) - n) /\ n + i = j
    BY <1>1, <1>3
  <2>2. DOMAIN Rest(bytes, n) = 1..(Len(bytes) - n)
    BY RestIs, LenProperties
  <2> HIDE DEF i
  <2>3. Rest(bytes, n)[i] = bytes[j]
    BY <2>1, RestIs
  <2> QED
    BY <2>1, <2>2, <2>3 DEF Occurs
<1> QED
  BY <1>2, <1>3

\* The first bytes of a sequence behind what goes straight, going on from it.
LEMMA StraightOn ==
  ASSUME NEW out \in Seq(Byte), Straight(out), NEW bytes \in Seq(Byte), NEW n \in 0..Len(bytes),
         \A i \in 1..n : bytes[i] = Len(out) + i
  PROVE  Straight(out \o SubSeq(bytes, 1, n))
<1> DEFINE part == SubSeq(bytes, 1, n)
<1>1. Len(out) \in Nat /\ DOMAIN out = 1..Len(out) /\ n \in Nat
  BY LenProperties
<1>2. part \in Seq(Byte) /\ Len(part) = n /\ \A i \in 1..n : part[i] = bytes[i]
  BY FirstOf
<1> HIDE DEF part
<1>3. /\ out \o part \in Seq(Byte) /\ Len(out \o part) = Len(out) + n
      /\ \A i \in 1..(Len(out) + n) :
           (out \o part)[i] = IF i <= Len(out) THEN out[i] ELSE part[i - Len(out)]
  BY <1>2, ConcatProperties
<1>4. DOMAIN (out \o part) = 1..(Len(out) + n)
  BY <1>3, LenProperties
<1>5. ASSUME NEW i \in 1..(Len(out) + n) PROVE (out \o part)[i] = i
  <2>1. CASE i <= Len(out)
    <3>1. i \in DOMAIN out
      BY <1>1, <2>1
    <3>2. out[i] = i
      BY <3>1 DEF Straight
    <3> QED
      BY <1>3, <2>1, <3>2
  <2>2. CASE ~(i <= Len(out))
    <3>1. i - Len(out) \in 1..n /\ Len(out) + (i - Len(out)) = i
      BY <1>1, <2>2
    <3> QED
      BY <1>2, <1>3, <2>2, <3>1
  <2> QED
    BY <2>1, <2>2
<1> QED
  BY <1>4, <1>5 DEF Straight, part

\* What a block of its size holds is the backlog.
LEMMA BacklogIs ==
  ASSUME NEW st \in HandlerState, Backed(st.e, st.h)
  PROVE  /\ st.e.length > 0
              => \A i \in 1..st.e.length : Backlog(st)[i] = st.h[st.e.backpressure][i]
         /\ \A k : Occurs(k, Held(st.e, st.h)) => \E j \in 1..st.e.length : Backlog(st)[j] = k
<1>1. st.e.length \in Nat /\ st.h \in [Block -> Seq(Byte)] /\ st.e.backpressure \in Block \cup {NULL}
  BY Sizes DEF HandlerState, EchoSocket, Byte
<1>2. CASE st.e.length = 0
  <2>1. Held(st.e, st.h) = <<>>
    BY <1>2 DEF Held
  <2>2. ~(st.e.length > 0) /\ \A k : ~Occurs(k, <<>>)
    BY <1>2 DEF Occurs
  <2> QED
    BY <2>1, <2>2
<1>3. CASE st.e.length # 0
  <2> DEFINE bytes == st.h[st.e.backpressure]
  <2>1. bytes \in Seq(Byte) /\ Len(bytes) = st.e.length /\ Held(st.e, st.h) = bytes
    BY <1>1, <1>3 DEF Backed, Held
  <2>2. DOMAIN bytes = 1..st.e.length
    BY <2>1, LenProperties
  <2>3. \A i \in 1..st.e.length : Backlog(st)[i] = bytes[i]
    BY <1>1, <2>1 DEF Backlog
  <2> QED
    BY <2>1, <2>2, <2>3 DEF Occurs
<1> QED
  BY <1>2, <1>3

\* The bytes that came are the next the client sent.
LEMMA UnreadIs ==
  ASSUME NEW st \in HandlerState, Tally(st.e, st.w)
  PROVE  /\ Unread(st) \in Seq(Byte) /\ Len(Unread(st)) = st.w.sent - st.w.taken
         /\ \A i \in 1..Len(Unread(st)) : Unread(st)[i] = st.w.taken + i
         /\ st.e.length = 0 => st.w.taken = Len(st.w.out)
<1>1. Unread(st) \in Seq(Byte) /\ Len(Unread(st)) = st.w.sent - st.w.taken
  BY UnreadType DEF Tally
<1>2. st.e.length = 0 => st.w.taken = Len(st.w.out)
  <2>1. Len(st.w.out) \in Nat
    BY LenProperties DEF HandlerState, Wire
  <2> QED
    BY <2>1 DEF Tally
<1>3. \A i \in 1..(st.w.sent - st.w.taken) : Unread(st)[i] = st.w.taken + i
  BY DEF Unread
<1> QED
  BY <1>1, <1>2, <1>3

\* A connection without a backlog, or whose block stays as it is, is as it was.
LEMMA SameBlock ==
  ASSUME NEW e, NEW h, NEW g, NEW w, Echoed(e, h, w),
         e.length > 0 => g[e.backpressure] = h[e.backpressure],
         e.length = 0 \/ e.length > 0
  PROVE  Echoed(e, g, w)
BY DEF Echoed, Backed, Complete, InOrder, Held

\* A connection that nothing was sent on yet is in order.
LEMMA QuietEchoed ==
  ASSUME NEW h PROVE Echoed(NoEcho, h, Quiet)
<1>1. NoEcho.length = 0 /\ Quiet.taken = 0 /\ Quiet.out = <<>>
  BY DEF NoEcho, Quiet
<1>2. Straight(<<>>)
  BY DEF Straight
<1> QED
  BY <1>1, <1>2 DEF Echoed, Backed, Complete, InOrder

\* What is free or freed is not the block of a backlog.
LEMMA OwnBlock ==
  ASSUME NEW st \in HandlerState, NEW block \in Block, st.h[block] = FREE,
         Backed(st.e, st.h), ~Stale(st.e)
  PROVE  /\ st.e.backpressure # block
         /\ \A b \in Block : ~(st.e.length > 0 /\ b = st.e.backpressure) => b # st.e.backpressure
<1>1. st.e.length \in Nat /\ st.e.backpressure \in Block \cup {NULL}
  BY Sizes DEF HandlerState, EchoSocket, Byte
<1>2. CASE st.e.backpressure = NULL
  BY <1>2, Sizes
<1>3. CASE st.e.backpressure # NULL
  <2>1. st.e.length > 0
    BY <1>1, <1>3 DEF Stale
  <2>2. st.h[st.e.backpressure] # FREE
    BY <2>1, EmptySeq DEF Backed, FREE
  <2> QED
    BY <2>1, <2>2
<1> QED
  BY <1>2, <1>3

-----------------------------------------------------------------------------
(***************************************************************************)
(* The handlers.  Each leaves its connection in order, unless it freed a   *)
(* stale pointer, and other blocks alone.                                  *)
(***************************************************************************)
LEMMA SendBackBacks ==
  ASSUME NEW st \in HandlerState, NEW id \in Conn, NEW block \in Block, Tally(st.e, st.w),
         Echoed(st.e, st.h, st.w), st.w.taken < st.w.sent, st.h[block] = FREE
  PROVE  LET t == SendBackOrBuffer(st, id, block)
         IN  ~t.ub => Echoed(t.e, t.h, t.w) /\ Keeps(t, st, block)
<1> DEFINE data == Unread(st)
           n == Taken(st, data)
           first == SubSeq(data, 1, n)
           rest == Rest(data, n)
           written == Write(st, id, data)
           wrote == [written EXCEPT !.w.taken = st.w.sent]
           v == [written.w EXCEPT !.taken = st.w.sent]
           backlog == Backlog(st)
           behind == backlog \o rest
           short == Rebuffer(wrote, block, behind)
           t == SendBackOrBuffer(st, id, block)
<1>1. /\ data \in Seq(Byte) /\ Len(data) = st.w.sent - st.w.taken
      /\ \A i \in 1..Len(data) : data[i] = st.w.taken + i
      /\ st.e.length = 0 => st.w.taken = Len(st.w.out)
  BY UnreadIs
<1>2. t = IF n = Len(data) THEN wrote ELSE short
  BY DEF SendBackOrBuffer
<1> HIDE DEF data, t
<1>3. n \in 0..Len(data) /\ Len(data) \in Nat
  BY <1>1, TakenBounds, LenProperties
<1>4. /\ written \in HandlerState /\ written.e = st.e /\ written.h = st.h
      /\ written.ub = st.ub /\ Sends(written.w, st.w, data, n)
  BY <1>1, WriteSends
<1> HIDE DEF n, written
<1>5. /\ st.w.sent \in Byte /\ st.w.sent \in Nat /\ st.w.taken \in Nat
      /\ st.e.length \in Nat /\ st.w.out \in Seq(Byte) /\ Len(st.w.out) \in Nat
      /\ st.e.backpressure \in Block \cup {NULL}
  BY Sizes, LenProperties DEF HandlerState, Wire, EchoSocket, Byte
<1>6. /\ v \in Wire /\ v.taken = st.w.sent /\ v.sent = st.w.sent
      /\ v.hasty = st.w.hasty /\ v.cut = st.w.cut /\ v.out = st.w.out \o first
      /\ Len(v.out) = Len(st.w.out) + n
  BY <1>4, <1>5 DEF HandlerState, Wire, Sends
<1>7. /\ wrote \in HandlerState /\ wrote.w = v /\ wrote.e = st.e /\ wrote.h = st.h
      /\ wrote.ub = st.ub
  BY <1>4, <1>6 DEF HandlerState
<1> HIDE DEF v, wrote
<1>8. /\ first \in Seq(Byte) /\ Len(first) = n
      /\ rest \in Seq(Byte) /\ Len(rest) = Len(data) - n
      /\ \A i \in 1..(Len(data) - n) : rest[i] = data[n + i]
      /\ \A j \in 1..Len(data) : Occurs(data[j], first) \/ Occurs(data[j], rest)
  BY <1>1, <1>3, FirstOf, RestIs, OccursInParts
<1> HIDE DEF first, rest
<1>9. /\ backlog \in Seq(Byte) /\ Len(backlog) = st.e.length
      /\ \A k : Occurs(k, Held(st.e, st.h)) => \E j \in 1..st.e.length : backlog[j] = k
  <2>1. Backed(st.e, st.h)
    BY DEF Echoed
  <2> QED
    BY <2>1, BacklogIs, BacklogType DEF Tally
<1> HIDE DEF backlog
<1>10. ASSUME ~st.w.cut, NEW k \in 1..st.w.sent
       PROVE  Occurs(k, v.out) \/ Occurs(k, rest) \/ Occurs(k, Held(st.e, st.h))
  <2>1. CASE k <= st.w.taken
    <3>1. k \in 1..st.w.taken
      BY <1>5, <2>1
    <3>2. Occurs(k, st.w.out) \/ Occurs(k, Held(st.e, st.h))
      BY <1>10, <3>1 DEF Echoed, Complete
    <3> QED
      BY <1>5, <1>6, <1>8, <3>2, OccursJoined
  <2>2. CASE ~(k <= st.w.taken)
    <3> DEFINE j == k - st.w.taken
    <3>1. j \in 1..Len(data) /\ st.w.taken + j = k
      BY <1>1, <1>5, <2>2
    <3> HIDE DEF j
    <3>2. data[j] = k
      BY <1>1, <3>1
    <3>3. Occurs(k, first) \/ Occurs(k, rest)
      BY <1>8, <3>1, <3>2
    <3> QED
      BY <1>5, <1>6, <1>8, <3>3, OccursJoined
  <2> QED
    BY <2>1, <2>2
<1>11. ASSUME ~st.w.hasty, ~st.w.cut PROVE Straight(v.out) /\ st.e.length = 0
  <2>1. Straight(st.w.out) /\ (st.e.length > 0 => st.w.taken = st.w.sent)
    BY <1>11 DEF Echoed, InOrder
  <2>2. st.e.length = 0
    BY <1>5, <2>1
  <2>3. \A i \in 1..n : data[i] = Len(st.w.out) + i
    <3>1. \A i \in 1..n : i \in 1..Len(data)
      BY <1>3
    <3> QED
      BY <1>1, <2>2, <3>1
  <2> QED
    BY <1>1, <1>3, <1>5, <1>6, <2>1, <2>2, <2>3, StraightOn DEF first
<1>12. CASE n = Len(data)
  <2>1. ~\E k : Occurs(k, rest)
    <3>1. DOMAIN rest = 1..0
      BY <1>3, <1>8, <1>12, LenProperties
    <3> QED
      BY <3>1 DEF Occurs
  <2>2. Backed(st.e, st.h)
    BY DEF Echoed
  <2>3. Complete(st.e, st.h, v)
    BY <1>6, <1>10, <2>1 DEF Complete
  <2>4. InOrder(st.e, st.h, v)
    BY <1>5, <1>6, <1>11 DEF InOrder
  <2>5. Keeps(wrote, st, block)
    BY <1>7 DEF Keeps
  <2> QED
    BY <1>2, <1>7, <1>12, <2>2, <2>3, <2>4, <2>5 DEF Echoed, t
<1>13. CASE n # Len(data)
  <2>1. /\ behind \in Seq(Byte) /\ Len(behind) = st.e.length + (Len(data) - n)
        /\ \A i \in 1..Len(behind) :
             behind[i] = IF i <= st.e.length THEN backlog[i] ELSE rest[i - st.e.length]
        /\ \A k : Occurs(k, backlog) \/ Occurs(k, rest) => Occurs(k, behind)
    <3>1. /\ behind \in Seq(Byte) /\ Len(behind) = Len(backlog) + Len(rest)
          /\ \A i \in 1..(Len(backlog) + Len(rest)) :
               behind[i] = IF i <= Len(backlog) THEN backlog[i] ELSE rest[i - Len(backlog)]
      BY ONLY <1>8, <1>9, ConcatProperties DEF behind
    <3>2. \A k : Occurs(k, backlog) \/ Occurs(k, rest) => Occurs(k, behind)
      BY <1>8, <1>9, OccursJoined
    <3> HIDE DEF behind
    <3> QED
      BY <1>8, <1>9, <3>1, <3>2
  <2> HIDE DEF behind
  <2>2. Len(behind) <= MaxBytes /\ Len(behind) > 0
    <3> DEFINE unread == st.w.sent - st.w.taken
    <3>1. n \in Nat /\ n <= unread /\ Len(behind) = st.e.length + (unread - n) /\ n # unread
      BY <1>1, <1>3, <1>13, <2>1
    <3>2. unread \in Nat
      BY <1>1, <1>3
    <3>3. st.w.sent = Len(st.w.out) + st.e.length + unread
      BY <1>5 DEF Tally
    <3>4. st.w.sent <= MaxBytes /\ MaxBytes \in Nat
      BY <1>5, Sizes DEF Byte
    <3>5. st.e.length \in Nat /\ Len(st.w.out) \in Nat /\ st.w.sent \in Nat
      BY <1>5
    <3> HIDE DEF unread
    <3> QED
      BY ONLY <3>1, <3>2, <3>3, <3>4, <3>5
  <2>3. /\ short.w = v
        /\ short.e.length = Len(behind) /\ short.e.backpressure = block /\ block # NULL
        /\ short.ub = (st.ub \/ Stale(st.e))
        /\ st.e.backpressure # block => short.h[block] = behind
        /\ \A b \in Block \ {block, st.e.backpressure} : short.h[b] = st.h[b]
    <3>1. Len(behind) <= MaxBytes
      BY <2>2
    <3> QED
      BY <1>7, <2>1, <3>1, RebufferType
  <2> HIDE DEF short
  <2> SUFFICES ASSUME ~short.ub
               PROVE  Echoed(short.e, short.h, short.w) /\ Keeps(short, st, block)
    BY <1>2, <1>13 DEF t
  <2>4. /\ st.e.backpressure # block
        /\ \A b \in Block : ~(st.e.length > 0 /\ b = st.e.backpressure)
                             => b # st.e.backpressure
    BY <2>3, OwnBlock DEF Echoed
  <2>5. short.h[block] = behind
    BY <2>3, <2>4
  <2>6. Backed(short.e, short.h)
    BY <2>3, <2>5 DEF Backed
  <2>7. Complete(short.e, short.h, short.w)
    <3>1. Held(short.e, short.h) = behind
      BY <2>2, <2>3, <2>5 DEF Held
    <3>2. \A k : Occurs(k, Held(st.e, st.h)) => Occurs(k, backlog)
      <4>1. DOMAIN backlog = 1..st.e.length
        BY <1>9, LenProperties
      <4> QED
        BY <1>9, <4>1 DEF Occurs
    <3> QED
      BY <1>6, <1>10, <2>1, <2>3, <3>1, <3>2 DEF Complete
  <2>8. InOrder(short.e, short.h, short.w)
    <3> SUFFICES ASSUME ~v.hasty, ~v.cut
                 PROVE  /\ Straight(v.out) /\ v.taken = v.sent
                        /\ \A i \in 1..Len(behind) : behind[i] = Len(v.out) + i
      BY <2>3, <2>5 DEF InOrder
    <3>1. Straight(v.out) /\ st.e.length = 0
      BY <1>6, <1>11
    <3>2. ASSUME NEW i \in 1..Len(behind) PROVE behind[i] = Len(v.out) + i
      <4>1. i \in 1..(Len(data) - n) /\ n + i \in 1..Len(data) /\ i \in Nat
            /\ ~(i <= 0) /\ i - 0 = i
        BY <1>3, <2>1, <3>1
      <4>2. behind[i] = data[n + i]
        BY <1>8, <2>1, <3>1, <4>1
      <4>3. data[n + i] = Len(st.w.out) + (n + i)
        BY <1>1, <3>1, <4>1
      <4>4. Len(st.w.out) + (n + i) = (Len(st.w.out) + n) + i
        <5> DEFINE l == Len(st.w.out)
        <5>1. n \in Nat /\ i \in Nat /\ l \in Nat
          BY <1>3, <1>5, <4>1
        <5> HIDE DEF l
        <5>2. l + (n + i) = (l + n) + i
          BY ONLY <5>1
        <5> QED
          BY <5>2 DEF l
      <4> QED
        BY <1>6, <4>2, <4>3, <4>4
    <3> QED
      BY <1>6, <3>1, <3>2
  <2>9. Keeps(short, st, block)
    BY <2>3, <2>4 DEF Keeps
  <2> QED
    BY <2>6, <2>7, <2>8, <2>9 DEF Echoed
<1> QED
  BY <1>12, <1>13 DEF t

LEMMA OnDataBacks ==
  ASSUME NEW st \in HandlerState, NEW id \in Conn, NEW block \in Block, Tally(st.e, st.w),
         Echoed(st.e, st.h, st.w), st.w.taken < st.w.sent, st.h[block] = FREE
  PROVE  LET t == OnData(st, id, block)
         IN  ~t.ub => Echoed(t.e, t.h, t.w) /\ Keeps(t, st, block)
<1> DEFINE u == SendBackOrBuffer(st, id, block)
           t == Armed(u)
<1>1. u \in HandlerState /\ (~u.ub => Echoed(u.e, u.h, u.w) /\ Keeps(u, st, block))
  BY SendBackTallies, SendBackBacks
<1>2. OnData(st, id, block) = t
  BY DEF OnData
<1> HIDE DEF u
<1>3. t.e = u.e /\ t.h = u.h /\ t.w = u.w /\ t.ub = u.ub
  BY <1>1, ArmedType
<1> HIDE DEF t
<1> QED
  BY <1>1, <1>2, <1>3 DEF Keeps

LEMMA ContinueBacklogBacks ==
  ASSUME NEW st \in HandlerState, NEW id \in Conn, NEW block \in Block, Tally(st.e, st.w),
         Echoed(st.e, st.h, st.w), st.h[block] = FREE
  PROVE  LET t == ContinueBacklog(st, id, block)
         IN  ~t.ub => Echoed(t.e, t.h, t.w) /\ Keeps(t, st, block)
<1> DEFINE bytes == Backlog(st)
           n == Taken(st, bytes)
           first == SubSeq(bytes, 1, n)
           wrote == Write(st, id, bytes)
           freed == FreeBacklog(wrote)
           left == SubSeq(bytes, 1, Len(bytes) - n)
           full == [freed EXCEPT !.e.length = 0]
           marked == [wrote EXCEPT !.w.cut = @ \/ n > 0]
           short == Rebuffer(marked, block, left)
           t == ContinueBacklog(st, id, block)
<1>1. /\ bytes \in Seq(Byte) /\ Len(bytes) = st.e.length
      /\ st.e.length > 0 => \A i \in 1..st.e.length : bytes[i] = st.h[st.e.backpressure][i]
      /\ \A k : Occurs(k, Held(st.e, st.h)) => \E j \in 1..st.e.length : bytes[j] = k
  <2>1. Backed(st.e, st.h)
    BY DEF Echoed
  <2> QED
    BY <2>1, BacklogIs, BacklogType DEF Tally
<1>2. t = IF n = Len(bytes) THEN full ELSE short
  BY DEF ContinueBacklog
<1> HIDE DEF bytes, t
<1>3. n \in 0..Len(bytes) /\ Len(bytes) \in Nat
  BY <1>1, TakenBounds, LenProperties
<1>4. /\ wrote \in HandlerState /\ wrote.e = st.e /\ wrote.h = st.h /\ wrote.ub = st.ub
      /\ Sends(wrote.w, st.w, bytes, n)
  BY <1>1, WriteSends
<1> HIDE DEF n, wrote
<1>5. /\ st.e.length \in Nat /\ st.e.length <= MaxBytes
      /\ st.w.out \in Seq(Byte) /\ Len(st.w.out) \in Nat
      /\ st.e.backpressure \in Block \cup {NULL}
  BY Sizes, LenProperties DEF HandlerState, Wire, EchoSocket, Byte
<1>6. /\ wrote.w.taken = st.w.taken /\ wrote.w.sent = st.w.sent
      /\ wrote.w.hasty = st.w.hasty /\ wrote.w.cut = st.w.cut
      /\ wrote.w.out = st.w.out \o first /\ Len(wrote.w.out) = Len(st.w.out) + n
  BY <1>4 DEF Sends
<1>7. first \in Seq(Byte) /\ Len(first) = n /\ \A i \in 1..n : first[i] = bytes[i]
  BY <1>1, <1>3, FirstOf
<1> HIDE DEF first
<1>8. ASSUME ~st.w.cut, NEW k \in 1..st.w.taken
      PROVE  Occurs(k, wrote.w.out) \/ \E j \in 1..st.e.length : bytes[j] = k
  <2>1. Occurs(k, st.w.out) \/ Occurs(k, Held(st.e, st.h))
    BY <1>8 DEF Echoed, Complete
  <2>2. Occurs(k, st.w.out) => Occurs(k, wrote.w.out)
    BY <1>5, <1>6, <1>7, OccursJoined
  <2> QED
    BY <1>1, <2>1, <2>2
<1>9. ASSUME ~st.w.hasty, ~st.w.cut
      PROVE  /\ Straight(wrote.w.out)
             /\ st.e.length > 0 =>
                  /\ st.w.taken = st.w.sent
                  /\ \A i \in 1..st.e.length : bytes[i] = Len(st.w.out) + i
  <2>1. /\ Straight(st.w.out)
        /\ st.e.length > 0 =>
             /\ st.w.taken = st.w.sent
             /\ \A i \in 1..st.e.length : st.h[st.e.backpressure][i] = Len(st.w.out) + i
    BY <1>9 DEF Echoed, InOrder
  <2>2. st.e.length > 0 => \A i \in 1..st.e.length : bytes[i] = Len(st.w.out) + i
    BY <1>1, <2>1
  <2>3. \A i \in 1..n : bytes[i] = Len(st.w.out) + i
    <3>1. \A i \in 1..n : i \in 1..st.e.length /\ st.e.length > 0
      BY <1>1, <1>3, <1>5
    <3> QED
      BY <2>2, <3>1
  <2>4. Straight(st.w.out \o SubSeq(bytes, 1, n))
    BY <1>1, <1>3, <1>5, <2>1, <2>3, StraightOn
  <2> QED
    BY <1>6, <2>1, <2>2, <2>4 DEF first
<1>10. CASE n = Len(bytes)
  <2>1. /\ freed \in HandlerState /\ freed.e = wrote.e /\ freed.w = wrote.w
        /\ freed.ub = (st.ub \/ Stale(st.e))
        /\ \A b \in Block \ {st.e.backpressure} : freed.h[b] = st.h[b]
    BY <1>4, FreeType
  <2> HIDE DEF freed
  <2>2. /\ full.w = wrote.w /\ full.h = freed.h /\ full.e.length = 0 /\ full.ub = freed.ub
    BY <2>1, Sizes DEF HandlerState, EchoSocket
  <2> HIDE DEF full
  <2> SUFFICES ASSUME ~full.ub
               PROVE  Echoed(full.e, full.h, full.w) /\ Keeps(full, st, block)
    BY <1>2, <1>10 DEF t
  <2>3. \A b \in Block : ~(st.e.length > 0 /\ b = st.e.backpressure) => b # st.e.backpressure
    BY <2>1, <2>2, OwnBlock DEF Echoed
  <2>4. ASSUME ~st.w.cut, NEW k \in 1..st.w.taken PROVE Occurs(k, wrote.w.out)
    <3>1. ASSUME NEW j \in 1..st.e.length, bytes[j] = k PROVE Occurs(k, first)
      <4>1. DOMAIN first = 1..st.e.length /\ first[j] = k
        BY <1>1, <1>7, <1>10, <3>1, LenProperties
      <4> QED
        BY <4>1 DEF Occurs
    <3>2. Occurs(k, first) => Occurs(k, wrote.w.out)
      BY <1>5, <1>6, <1>7, OccursJoined
    <3> QED
      BY <1>8, <2>4, <3>1, <3>2
  <2>5. ~(full.e.length > 0)
    BY <2>2
  <2>6. Complete(full.e, full.h, full.w)
    BY <1>6, <2>2, <2>4 DEF Complete
  <2>7. InOrder(full.e, full.h, full.w)
    BY <1>6, <1>9, <2>2, <2>5 DEF InOrder
  <2>8. Keeps(full, st, block)
    BY <2>1, <2>2, <2>3, <2>5 DEF Keeps
  <2> QED
    BY <2>5, <2>6, <2>7, <2>8 DEF Echoed, Backed
<1>11. CASE n # Len(bytes)
  <2>1. Len(bytes) - n \in 0..Len(bytes) /\ Len(bytes) - n > 0 /\ Len(bytes) - n <= MaxBytes
    BY <1>1, <1>3, <1>5, <1>11, Sizes
  <2>2. /\ left \in Seq(Byte) /\ Len(left) = Len(bytes) - n
        /\ \A i \in 1..(Len(bytes) - n) : left[i] = bytes[i]
    BY <1>1, <2>1, FirstOf
  <2> HIDE DEF left
  <2>3. /\ marked \in HandlerState /\ marked.e = st.e /\ marked.h = st.h
        /\ marked.ub = st.ub
        /\ marked.w.taken = st.w.taken /\ marked.w.sent = st.w.sent
        /\ marked.w.hasty = st.w.hasty /\ marked.w.cut = (st.w.cut \/ n > 0)
        /\ marked.w.out = wrote.w.out
    <3>1. n \in Nat
      BY <1>3
    <3>2. /\ marked \in HandlerState /\ marked.e = wrote.e /\ marked.h = wrote.h
          /\ marked.ub = wrote.ub
          /\ marked.w.taken = wrote.w.taken /\ marked.w.sent = wrote.w.sent
          /\ marked.w.hasty = wrote.w.hasty /\ marked.w.cut = (wrote.w.cut \/ n > 0)
          /\ marked.w.out = wrote.w.out
      BY <1>4, <3>1, MarkedType
    <3> HIDE DEF marked
    <3> QED
      BY <1>4, <1>6, <3>2
  <2> HIDE DEF marked
  <2>4. /\ short.w = marked.w
        /\ short.e.length = Len(left) /\ short.e.backpressure = block /\ block # NULL
        /\ short.ub = (st.ub \/ Stale(st.e))
        /\ st.e.backpressure # block => short.h[block] = left
        /\ \A b \in Block \ {block, st.e.backpressure} : short.h[b] = st.h[b]
    <3>1. Len(left) <= MaxBytes
      BY <2>1, <2>2
    <3> QED
      BY <2>2, <2>3, <3>1, RebufferType
  <2> HIDE DEF short
  <2> SUFFICES ASSUME ~short.ub
               PROVE  Echoed(short.e, short.h, short.w) /\ Keeps(short, st, block)
    BY <1>2, <1>11 DEF t
  <2>5. /\ st.e.backpressure # block
        /\ \A b \in Block : ~(st.e.length > 0 /\ b = st.e.backpressure)
                             => b # st.e.backpressure
    BY <2>4, OwnBlock DEF Echoed
  <2>6. short.h[block] = left
    BY <2>4, <2>5
  <2>7. Backed(short.e, short.h)
    BY <2>4, <2>6 DEF Backed
  <2>8. ASSUME ~short.w.cut
        PROVE  n = 0 /\ ~st.w.cut /\ Len(left) = st.e.length /\ wrote.w.sent = st.w.sent
    <3>1. ~(st.w.cut \/ n > 0)
      BY <2>3, <2>4, <2>8
    <3>2. n = 0
      BY <1>3, <3>1
    <3> QED
      BY <1>1, <1>6, <2>2, <3>1, <3>2
  <2>9. Complete(short.e, short.h, short.w)
    <3> SUFFICES ASSUME ~short.w.cut, NEW k \in 1..st.w.taken
                 PROVE  Occurs(k, wrote.w.out) \/ Occurs(k, left)
      BY <2>1, <2>2, <2>3, <2>4, <2>6 DEF Complete, Held
    <3>1. ASSUME NEW j \in 1..st.e.length, bytes[j] = k PROVE Occurs(k, left)
      <4>1. DOMAIN left = 1..st.e.length /\ left[j] = k
        BY <1>1, <2>2, <2>8, <3>1, LenProperties
      <4> QED
        BY <4>1 DEF Occurs
    <3> QED
      BY <1>8, <2>8, <3>1
  <2>10. InOrder(short.e, short.h, short.w)
    <3> SUFFICES ASSUME ~st.w.hasty, ~short.w.cut
                 PROVE  /\ Straight(wrote.w.out) /\ st.w.taken = st.w.sent
                        /\ \A i \in 1..Len(left) : left[i] = Len(wrote.w.out) + i
      BY <2>3, <2>4, <2>6 DEF InOrder
    <3>1. /\ Straight(wrote.w.out) /\ st.w.taken = st.w.sent
          /\ \A i \in 1..st.e.length : bytes[i] = Len(st.w.out) + i
      BY <1>1, <1>9, <2>1, <2>2, <2>8
    <3>2. Len(wrote.w.out) = Len(st.w.out)
      BY <1>5, <1>6, <2>8
    <3> QED
      BY <2>2, <2>8, <3>1, <3>2
  <2>11. Keeps(short, st, block)
    BY <2>4, <2>5 DEF Keeps
  <2> QED
    BY <2>7, <2>9, <2>10, <2>11 DEF Echoed
<1> QED
  BY <1>10, <1>11

LEMMA OnWritableBacks ==
  ASSUME NEW st \in HandlerState, NEW id \in Conn, NEW block \in Block, Tally(st.e, st.w),
         Echoed(st.e, st.h, st.w), st.h[block] = FREE
  PROVE  LET t == StopPolling(OnWritable(st, id, block), id)
         IN  ~t.ub => Echoed(t.e, t.h, t.w) /\ Keeps(t, st, block)
<1> DEFINE u == ContinueBacklog(st, id, block)
           v == Armed(u)
           t == StopPolling(v, id)
<1>1. u \in HandlerState /\ (~u.ub => Echoed(u.e, u.h, u.w) /\ Keeps(u, st, block))
  BY ContinueBacklogTallies, ContinueBacklogBacks
<1>2. OnWritable(st, id, block) = v
  BY DEF OnWritable
<1> HIDE DEF u
<1>3. v \in HandlerState /\ v.e = u.e /\ v.h = u.h /\ v.w = u.w /\ v.ub = u.ub
  BY <1>1, ArmedType
<1> HIDE DEF v
<1>4. t.e = u.e /\ t.h = u.h /\ t.w = u.w /\ t.ub = u.ub
  BY <1>3, StopPollingType
<1> HIDE DEF t
<1>5. ~t.ub => Echoed(t.e, t.h, t.w) /\ Keeps(t, st, block)
  BY <1>1, <1>4 DEF Keeps
<1> QED
  BY <1>2, <1>5 DEF t

-----------------------------------------------------------------------------
(***************************************************************************)
(* The steps.  A step is the handler of one connection; the others' blocks *)
(* are out of its reach while no stale pointer is freed.                   *)
(***************************************************************************)
LEMMA BecomesBacks ==
  ASSUME EchoInv, BacklogInv, NEW id \in Conn, NEW st \in HandlerState, Becomes(id, st),
         NEW block, block \in Block => heap[block] = FREE,
         ~st.ub => Keeps(st, State(id), block) /\ Echoed(st.e, st.h, st.w)
  PROVE  BacklogInv'
<1>1. /\ es' = [es EXCEPT ![id] = st.e]
      /\ heap' = st.h
      /\ wire' = [wire EXCEPT ![id] = st.w]
      /\ undefined' = (undefined \/ st.ub)
  BY DEF Becomes, Frees
<1>2. /\ es'[id] = st.e /\ wire'[id] = st.w
      /\ \A c \in Conn \ {id} : es'[c] = es[c] /\ wire'[c] = wire[c]
  BY <1>1 DEF EchoInv, TypeOK
<1>3. State(id).e = es[id] /\ State(id).h = heap
  BY StateType DEF EchoInv
<1> SUFFICES ASSUME ~undefined'
             PROVE  /\ \A c \in Conn : Echoed(es'[c], heap', wire'[c])
                    /\ \A c, d \in Conn : c # d /\ es'[c].length > 0 /\ es'[d].length > 0
                                            => es'[c].backpressure # es'[d].backpressure
  BY DEF BacklogInv
<1>4. /\ Keeps(st, State(id), block) /\ Echoed(st.e, st.h, st.w)
      /\ \A c \in Conn : Echoed(es[c], heap, wire[c])
      /\ \A c, d \in Conn : c # d /\ es[c].length > 0 /\ es[d].length > 0
                              => es[c].backpressure # es[d].backpressure
  BY <1>1 DEF BacklogInv
<1>5. ASSUME NEW d \in Conn \ {id}, es[d].length > 0
      PROVE  /\ heap'[es[d].backpressure] = heap[es[d].backpressure]
             /\ es[d].backpressure # block
             /\ ~(es[id].length > 0 /\ es[d].backpressure = es[id].backpressure)
  <2>1. es[d].backpressure # NULL /\ Len(heap[es[d].backpressure]) = es[d].length
    BY <1>4, <1>5 DEF Echoed, Backed
  <2>2. es[d].backpressure \in Block /\ es[d].length # 0
    BY <1>5, <2>1, Sizes DEF EchoInv, TypeOK, EchoSocket, Byte
  <2>3. es[d].backpressure # block
    BY <2>1, <2>2, EmptySeq DEF FREE
  <2>4. ~(es[id].length > 0 /\ es[d].backpressure = es[id].backpressure)
    BY <1>4, <1>5
  <2> QED
    BY <1>1, <1>3, <1>4, <2>2, <2>3, <2>4 DEF Keeps
<1>6. ASSUME NEW c \in Conn PROVE Echoed(es'[c], heap', wire'[c])
  <2>1. CASE c = id
    BY <1>1, <1>2, <1>4, <2>1
  <2>2. CASE c # id
    <3>1. Echoed(es[c], heap, wire[c]) /\ (es[c].length = 0 \/ es[c].length > 0)
      BY <1>4, Sizes DEF EchoInv, TypeOK, EchoSocket, Byte
    <3>2. es[c].length > 0 => heap'[es[c].backpressure] = heap[es[c].backpressure]
      BY <1>5, <2>2
    <3> QED
      BY <1>2, <2>2, <3>1, <3>2, SameBlock
  <2> QED
    BY <2>1, <2>2
<1>7. ASSUME NEW d \in Conn \ {id}, es[d].length > 0, st.e.length > 0
      PROVE  es[d].backpressure # st.e.backpressure
  BY <1>3, <1>4, <1>5, <1>7 DEF Keeps
<1>8. ASSUME NEW c \in Conn, NEW d \in Conn, c # d, es'[c].length > 0, es'[d].length > 0
      PROVE  es'[c].backpressure # es'[d].backpressure
  BY <1>2, <1>4, <1>7, <1>8
<1> QED
  BY <1>6, <1>8

\* Steps that change no echo socket and no block, and of streams nothing that the order
\* of the echo depends on.
LEMMA StreamBacks ==
  ASSUME BacklogInv, UNCHANGED <<es, heap, undefined>>,
         \A c \in Conn : Echoed(es[c], heap, wire[c]) => Echoed(es[c], heap, wire'[c])
  PROVE  BacklogInv'
BY DEF BacklogInv

LEMMA InitBacks == Init => BacklogInv
<1> SUFFICES ASSUME Init PROVE BacklogInv
  OBVIOUS
<1>1. \A c \in Conn : es[c] = NoEcho /\ wire[c] = Quiet
  BY DEF Init
<1>2. ~(NoEcho.length > 0)
  BY DEF NoEcho
<1> QED
  BY <1>1, <1>2, QuietEchoed DEF BacklogInv

LEMMA AcceptBacks ==
  ASSUME EchoInv, BacklogInv, NEW c \in Conn, AcceptConnection(c)
  PROVE  BacklogInv'
<1> DEFINE st0 == [State(c) EXCEPT !.w = Quiet]
           st1 == Accepted(st0, c)
           st2 == Armed(st1)
           st3 == OnOpen(st1)
<1>1. st0 \in HandlerState /\ st0.w = Quiet /\ st0.h = heap
  BY QuietType, StateType DEF EchoInv, HandlerState
<1> HIDE DEF st0
<1>2. [open |-> TRUE, bits |-> StartBits({READABLE}), timeout |-> 0] \in Socket
  BY BitsType, Sizes DEF Socket
<1>3. KqueueChange(NoFilters, {}, {READABLE}, c) \in [Events -> Conn \cup {NULL}]
  BY KqueueAddFilters DEF NoFilters, Events, READABLE, WRITABLE
<1>4. st1 \in HandlerState /\ st1.w = Quiet /\ st1.h = heap
  BY <1>1, <1>2, <1>3 DEF Accepted, HandlerState
<1> HIDE DEF st1
<1>5. st2 \in HandlerState /\ st2.w = Quiet /\ st2.h = heap
  BY <1>4, ArmedType
<1>6. st3 = [st2 EXCEPT !.e = NoEcho]
  BY DEF OnOpen
<1> HIDE DEF st2, st3
<1>7. st3 \in HandlerState /\ st3.w = Quiet /\ st3.h = heap /\ st3.e = NoEcho
  BY <1>5, <1>6, QuietType DEF HandlerState
<1>8. Keeps(st3, State(c), NULL)
  <2>1. ~(NoEcho.length > 0)
    BY DEF NoEcho
  <2> QED
    BY <1>7, <2>1, StateType DEF Keeps, EchoInv
<1>9. Echoed(st3.e, st3.h, st3.w)
  BY <1>7, QuietEchoed
<1>10. Becomes(c, st3)
  BY DEF AcceptConnection, st3, st1, st0
<1> QED
  BY <1>7, <1>8, <1>9, <1>10, Sizes, BecomesBacks

\* Closing a connection, whatever its handler did before.
LEMMA CloseBacks ==
  ASSUME EchoInv, BacklogInv, NEW id \in Conn, NEW st \in HandlerState,
         st.e = es[id], st.h = heap, Becomes(id, Closed(st))
  PROVE  BacklogInv'
<1> DEFINE t == Closed(st)
<1>1. /\ t \in HandlerState /\ t.e = NoEcho /\ t.w = Quiet
      /\ t.ub = (st.ub \/ Stale(st.e))
      /\ \A b \in Block \ {st.e.backpressure} : t.h[b] = st.h[b]
  BY ClosedType
<1>2. Becomes(id, t)
  OBVIOUS
<1> HIDE DEF t
<1>3. Echoed(t.e, t.h, t.w)
  BY <1>1, QuietEchoed
<1>4. ASSUME ~t.ub PROVE Keeps(t, State(id), NULL)
  <2>1. State(id).e = st.e /\ State(id).h = st.h
    BY StateType DEF EchoInv
  <2>2. \A b \in Block : ~(st.e.length > 0 /\ b = st.e.backpressure) => b # st.e.backpressure
    <3>1. st.e.length \in Nat /\ ~Stale(st.e)
      BY <1>1, <1>4, Sizes DEF HandlerState, EchoSocket, Byte
    <3> QED
      BY <3>1, Sizes DEF Stale
  <2>3. ~(NoEcho.length > 0)
    BY DEF NoEcho
  <2> QED
    BY <1>1, <2>1, <2>2, <2>3 DEF Keeps
<1> QED
  BY <1>1, <1>2, <1>3, <1>4, Sizes, BecomesBacks

LEMMA EofBacks ==
  ASSUME EchoInv, BacklogInv, NEW r \in ready, DispatchEof(r)
  PROVE  BacklogInv'
<1>1. r # SweepTimer
  BY DEF DispatchEof, SweepTimer
<1>2. r.c \in Conn
  BY <1>1, ReportOfConn
<1>3. State(r.c) \in HandlerState /\ State(r.c).e = es[r.c] /\ State(r.c).h = heap
  BY <1>2, StateType DEF EchoInv
<1>4. Becomes(r.c, Closed(State(r.c)))
  BY DEF DispatchEof
<1> QED
  BY <1>2, <1>3, <1>4, CloseBacks

LEMMA ReadableBacks ==
  ASSUME EchoInv, BacklogInv, NEW r \in ready, DispatchReadable(r)
  PROVE  BacklogInv'
<1> DEFINE id == r.c
           st == State(id)
<1>1. r # SweepTimer
  BY Sizes DEF DispatchReadable, SweepTimer
<1>2. id \in Conn /\ sock[id].open /\ Tally(es[id], wire[id])
  BY <1>1, ReportOfConn
<1>3. /\ st \in HandlerState /\ st.e = es[id] /\ st.h = heap /\ st.w = wire[id]
      /\ st.ub = FALSE
  BY <1>2, StateType DEF EchoInv
<1>4. PICK block \in NewBlock :
        IF wire[id].taken < wire[id].sent
          THEN Becomes(id, OnData(st, id, block))
          ELSE Becomes(id, OnEnd(StopReading(st, id)))
  BY DEF DispatchReadable
<1>5. block \in Block /\ heap[block] = FREE
  BY DEF NewBlock
<1>6. CASE undefined
  <2>1. undefined'
    BY <1>6 DEF DispatchReadable, Becomes, Frees
  <2> QED
    BY <2>1 DEF BacklogInv
<1>7. CASE ~undefined /\ wire[id].taken < wire[id].sent
  <2>1. Echoed(es[id], heap, wire[id])
    BY <1>2, <1>7 DEF BacklogInv
  <2> HIDE DEF st
  <2> DEFINE t == OnData(st, id, block)
  <2>2. t \in HandlerState /\ (~t.ub => Echoed(t.e, t.h, t.w) /\ Keeps(t, st, block))
    BY <1>2, <1>3, <1>5, <1>7, <2>1, OnDataTallies, OnDataBacks
  <2>3. Becomes(id, t)
    BY <1>4, <1>7
  <2> HIDE DEF t
  <2> QED
    BY <1>2, <1>5, <2>2, <2>3, BecomesBacks DEF st
<1>8. CASE ~(wire[id].taken < wire[id].sent)
  <2> HIDE DEF st
  <2> DEFINE t == StopReading(st, id)
  <2>1. t \in HandlerState /\ t.e = es[id] /\ t.h = heap
    BY <1>2, <1>3, PollChangeType DEF StopReading
  <2>2. Becomes(id, Closed(t))
    BY <1>4, <1>8 DEF OnEnd
  <2> HIDE DEF t
  <2> QED
    BY <1>2, <2>1, <2>2, CloseBacks
<1> QED
  BY <1>6, <1>7, <1>8

LEMMA WritableBacks ==
  ASSUME EchoInv, BacklogInv, NEW r \in ready, DispatchWritable(r)
  PROVE  BacklogInv'
<1> DEFINE id == r.c
           st == [State(id) EXCEPT !.failed = FALSE]
<1>1. r # SweepTimer
  BY DEF DispatchWritable, SweepTimer, READABLE, WRITABLE
<1>2. id \in Conn /\ sock[id].open /\ Tally(es[id], wire[id])
  BY <1>1, ReportOfConn
<1>3. /\ st \in HandlerState /\ st.e = es[id] /\ st.h = heap /\ st.w = wire[id]
      /\ st.ub = FALSE /\ State(id).e = st.e /\ State(id).h = st.h
  <2>1. /\ State(id) \in HandlerState /\ State(id).ub = FALSE
        /\ State(id).e = es[id] /\ State(id).h = heap /\ State(id).w = wire[id]
    BY <1>2, StateType DEF EchoInv
  <2> QED
    BY <2>1 DEF HandlerState
<1>4. PICK block \in NewBlock : Becomes(id, StopPolling(OnWritable(st, id, block), id))
  BY DEF DispatchWritable
<1>5. block \in Block /\ heap[block] = FREE
  BY DEF NewBlock
<1> HIDE DEF st
<1> DEFINE u == OnWritable(st, id, block)
           t == StopPolling(u, id)
<1>6. t \in HandlerState
  <2>1. u \in HandlerState
    BY <1>2, <1>3, <1>5, OnWritableTallies
  <2> HIDE DEF u
  <2> QED
    BY <1>2, <2>1, StopPollingType
<1>7. Becomes(id, t)
  BY <1>4
<1>8. CASE undefined
  <2>1. undefined'
    BY <1>7, <1>8 DEF Becomes, Frees
  <2> QED
    BY <2>1 DEF BacklogInv
<1>9. CASE ~undefined
  <2>1. Echoed(es[id], heap, wire[id])
    BY <1>2, <1>9 DEF BacklogInv
  <2>2. ~t.ub => Echoed(t.e, t.h, t.w) /\ Keeps(t, st, block)
    BY <1>2, <1>3, <1>5, <2>1, OnWritableBacks
  <2> HIDE DEF t
  <2>3. ~t.ub => Keeps(t, State(id), block)
    BY <1>3, <2>2 DEF Keeps
  <2> QED
    BY <1>2, <1>5, <1>6, <1>7, <2>2, <2>3, BecomesBacks
<1> QED
  BY <1>8, <1>9

\* The sweep frees the blocks of the connections it closes, and no other's backlog.
LEMMA SweepBacks ==
  ASSUME EchoInv, BacklogInv, Sweep
  PROVE  BacklogInv'
<1> DEFINE closing == Expiring
           freed == {es[c].backpressure : c \in closing} \ {NULL}
<1>1. /\ es' = [c \in Conn |-> IF c \in closing THEN NoEcho ELSE es[c]]
      /\ heap' = [b \in Block |-> IF b \in freed THEN FREE ELSE heap[b]]
      /\ undefined' = (undefined \/ \E c \in closing : Stale(es[c]))
      /\ wire' = [c \in Conn |-> IF c \in closing THEN Quiet ELSE wire[c]]
  BY DEF Sweep, Frees
<1>2. closing \subseteq Conn /\ \A c \in Conn : es[c].length \in Nat
  BY Sizes DEF Expiring, EchoInv, TypeOK, EchoSocket, Byte
<1> HIDE DEF closing
<1> SUFFICES ASSUME ~undefined'
             PROVE  /\ \A c \in Conn : Echoed(es'[c], heap', wire'[c])
                    /\ \A c, d \in Conn : c # d /\ es'[c].length > 0 /\ es'[d].length > 0
                                            => es'[c].backpressure # es'[d].backpressure
  BY DEF BacklogInv
<1>3. /\ \A c \in closing : ~Stale(es[c])
      /\ \A c \in Conn : Echoed(es[c], heap, wire[c])
      /\ \A c, d \in Conn : c # d /\ es[c].length > 0 /\ es[d].length > 0
                              => es[c].backpressure # es[d].backpressure
  BY <1>1 DEF BacklogInv
<1>4. ASSUME NEW d \in Conn \ closing, es[d].length > 0
      PROVE  heap'[es[d].backpressure] = heap[es[d].backpressure]
  <2>1. es[d].backpressure # NULL /\ es[d].backpressure \in Block
    BY <1>3, <1>4 DEF Echoed, Backed, EchoInv, TypeOK, EchoSocket
  <2>2. ASSUME NEW c \in closing PROVE es[d].backpressure # es[c].backpressure
    <3>1. es[c].backpressure # NULL => es[c].length > 0
      BY <1>2, <1>3, <2>2 DEF Stale
    <3> QED
      BY <1>2, <1>3, <1>4, <2>1, <3>1
  <2> QED
    BY <1>1, <2>1, <2>2
<1> HIDE DEF freed
<1>5. ASSUME NEW c \in Conn PROVE Echoed(es'[c], heap', wire'[c])
  <2>1. CASE c \in closing
    BY <1>1, <2>1, QuietEchoed
  <2>2. CASE c \notin closing
    <3>1. es[c].length = 0 \/ es[c].length > 0
      BY <1>2
    <3> QED
      BY <1>1, <1>3, <1>4, <2>2, <3>1, SameBlock
  <2> QED
    BY <2>1, <2>2
<1>6. ASSUME NEW c \in Conn, es'[c].length > 0 PROVE es'[c] = es[c]
  <2>1. ~(NoEcho.length > 0)
    BY DEF NoEcho
  <2> QED
    BY <1>1, <1>6, <2>1
<1> QED
  BY <1>3, <1>5, <1>6

LEMMA SendsBacks ==
  ASSUME EchoInv, BacklogInv, NEW c \in Conn, ClientSends(c)
  PROVE  BacklogInv'
<1> DEFINE w == wire[c]
<1>1. /\ w \in Wire /\ Tally(es[c], w) /\ es[c].length \in Nat /\ Len(w.out) \in Nat
      /\ w.taken \in Nat
  <2>1. w \in Wire /\ Tally(es[c], w) /\ es[c] \in EchoSocket
    BY DEF EchoInv, TypeOK, Wire, ClientSends
  <2> QED
    BY <2>1, Sizes, LenProperties DEF Wire, EchoSocket, Byte
<1>2. PICK n : wire' = [wire EXCEPT ![c].sent = @ + n, ![c].hasty = @ \/ ~Answered(c)]
  BY DEF ClientSends
<1>3. /\ wire'[c] = [w EXCEPT !.sent = @ + n, !.hasty = @ \/ ~Answered(c)]
      /\ \A d \in Conn \ {c} : wire'[d] = wire[d]
  BY <1>2 DEF EchoInv, TypeOK
<1> DEFINE v == wire'[c]
<1>4. /\ v.taken = w.taken /\ v.out = w.out /\ v.cut = w.cut
      /\ ~v.hasty => ~w.hasty /\ Len(w.out) = w.sent
  BY <1>1, <1>3 DEF Wire, Answered
<1> HIDE DEF w, v
<1>5. ~v.hasty => ~(es[c].length > 0)
  BY <1>1, <1>4 DEF Tally
<1>6. Echoed(es[c], heap, w) => Echoed(es[c], heap, v)
  BY <1>4, <1>5 DEF Echoed, Complete, InOrder
<1> QED
  BY <1>3, <1>6, StreamBacks DEF ClientSends, w, v

LEMMA ReadsBacks ==
  ASSUME EchoInv, BacklogInv, NEW c \in Conn, ClientReads(c)
  PROVE  BacklogInv'
<1> DEFINE w == wire[c]
           v == wire'[c]
<1>1. PICK n : wire' = [wire EXCEPT ![c].buffered = @ - n]
  BY DEF ClientReads
<1>2. v = [w EXCEPT !.buffered = @ - n] /\ \A d \in Conn \ {c} : wire'[d] = wire[d]
  BY <1>1 DEF EchoInv, TypeOK
<1>3. w \in Wire
  BY DEF EchoInv, TypeOK, Wire
<1> HIDE DEF w, v
<1>4. /\ v.taken = w.taken /\ v.sent = w.sent /\ v.out = w.out /\ v.cut = w.cut
      /\ v.hasty = w.hasty
  BY <1>2, <1>3 DEF Wire
<1>5. Echoed(es[c], heap, w) => Echoed(es[c], heap, v)
  BY <1>4 DEF Echoed, Complete, InOrder
<1> QED
  BY <1>2, <1>5, StreamBacks DEF ClientReads, w, v

LEMMA EndsBacks ==
  ASSUME EchoInv, BacklogInv, NEW c \in Conn, ClientEnds(c)
  PROVE  BacklogInv'
<1> DEFINE w == wire[c]
           v == wire'[c]
<1>1. v = [w EXCEPT !.fin = TRUE] /\ \A d \in Conn \ {c} : wire'[d] = wire[d]
  BY DEF EchoInv, TypeOK, ClientEnds
<1>2. w \in Wire
  BY DEF EchoInv, TypeOK, Wire
<1> HIDE DEF w, v
<1>3. /\ v.taken = w.taken /\ v.sent = w.sent /\ v.out = w.out /\ v.cut = w.cut
      /\ v.hasty = w.hasty
  BY <1>1, <1>2 DEF Wire
<1>4. Echoed(es[c], heap, w) => Echoed(es[c], heap, v)
  BY <1>3 DEF Echoed, Complete, InOrder
<1> QED
  BY <1>1, <1>4, StreamBacks DEF ClientEnds, w, v

LEMMA NextBacks == EchoInv /\ BacklogInv /\ [Next]_vars => BacklogInv'
<1> SUFFICES ASSUME EchoInv, BacklogInv, [Next]_vars PROVE BacklogInv'
  OBVIOUS
<1>1. CASE UNCHANGED <<es, heap, wire, undefined>>
  BY <1>1, StreamBacks
<1>2. CASE KqueueWait
  BY <1>1, <1>2 DEF KqueueWait
<1>3. ASSUME NEW r \in ready, SkipReport(r)
      PROVE  BacklogInv'
  BY <1>1, <1>3 DEF SkipReport
<1>4. ASSUME NEW r \in ready, DispatchEof(r) \/ DispatchReadable(r) \/ DispatchWritable(r)
      PROVE  BacklogInv'
  BY <1>4, EofBacks, ReadableBacks, WritableBacks
<1>5. CASE Sweep
  BY <1>5, SweepBacks
<1>6. ASSUME NEW c \in Conn,
             AcceptConnection(c) \/ ClientSends(c) \/ ClientReads(c) \/ ClientEnds(c)
      PROVE  BacklogInv'
  BY <1>6, AcceptBacks, SendsBacks, ReadsBacks, EndsBacks
<1>7. CASE UNCHANGED vars
  BY <1>1, <1>7 DEF vars
<1> QED
  BY <1>2, <1>3, <1>4, <1>5, <1>6, <1>7 DEF Next, Dispatch

-----------------------------------------------------------------------------
\* Until a stale pointer is freed every backlog is in a block of its own.
LEMMA BacklogInvariance == Spec => []BacklogInv
<1>1. Init => BacklogInv
  BY InitBacks
<1>2. EchoInv /\ BacklogInv /\ [Next]_vars => BacklogInv'
  BY NextBacks
<1> QED
  BY <1>1, <1>2, EchoInvariance, PTL DEF Spec

\* A continuation never reads past its backlog, nor memory that is free or another
\* connection's, before somebody has freed a stale pointer: any number of connections
\* on one heap, any sizes and timeouts.
THEOREM BacklogSafety == Spec => []BacklogSized
<1>1. BacklogInv => BacklogSized
  BY DEF BacklogInv, Echoed, Backed, BacklogSized
<1> QED
  BY <1>1, BacklogInvariance, PTL

\* A client that waits for its echo gets it in order, whatever the short writes and the
\* other connections, up to the two events the code does not survive.
THEOREM EchoOrder == Spec => []EchoUntilCut
<1>1. BacklogInv => EchoUntilCut
  BY DEF BacklogInv, Echoed, InOrder, EchoUntilCut
<1> QED
  BY <1>1, BacklogInvariance, PTL

\* es->length never disagrees with what on_data took and the kernel has; up to the two
\* events no byte is lost or made up either, of clients that do not wait too.
THEOREM EchoCounting == Spec => []BytesAccounted
<1>1. EchoInv /\ BacklogInv => BytesAccounted
  BY DEF EchoInv, Tally, BacklogInv, Echoed, Complete, BytesAccounted
<1> QED
  BY <1>1, EchoInvariance, BacklogInvariance, PTL

-----------------------------------------------------------------------------
(***************************************************************************)
(* What is left over is continued: a connection with a backlog polls for   *)
(* writable, and one that polls for both has the filter.  It takes both    *)
(* bits to be sure, since asock_poll_change records readable alone as if   *)
(* it were writable.  Nothing is assumed of blocks or messages.            *)
(***************************************************************************)
Continues(s, f, e) ==
  /\ s.bits = Bits => f[WRITABLE] # NULL
  /\ e.length > 0 => s.bits = Bits

ContinuesInv == \A c \in Conn : Continues(sock[c], filters[c], es[c])

\* A socket that hears readable and is made to poll for both does.
LEMMA PollsBoth ==
  ASSUME NEW st, NEW id \in Conn, st.s \in Socket, "IN" \in st.s.bits,
         DOMAIN st = {"s", "f", "failed", "e", "h", "w", "ub"},
         st.s.bits = Bits => st.f[WRITABLE] # NULL
  PROVE  LET t == PollChange(st, id, {READABLE, WRITABLE})
         IN  t.s.bits = Bits /\ t.f[WRITABLE] # NULL
<1>1. PICK both : both = {READABLE, WRITABLE}
  OBVIOUS
<1>2. PICK bits \in SUBSET Bits : bits = st.s.bits
  BY DEF Socket
<1>3. "IN" \in bits
  BY <1>2
<1>4. /\ ChangeBits(both) = Bits
      /\ PollEvents(bits) = both => bits = Bits
      /\ PollEvents(bits) # both
           => KqueueChange(st.f, PollEvents(bits), both, id)[WRITABLE] = id
  BY <1>1, <1>3, AddsWritable
<1> DEFINE f == KqueueChange(st.f, PollEvents(bits), both, id)
           changed == [st EXCEPT !.s.bits = ChangeBits(both), !.f = f]
<1>5. PollChange(st, id, {READABLE, WRITABLE}) = IF PollEvents(bits) = both THEN st ELSE changed
  BY <1>1, <1>2 DEF PollChange
<1>6. id # NULL
  BY Sizes
<1>7. PollEvents(bits) # both => f[WRITABLE] = id
  BY <1>4
<1> HIDE DEF f
<1>8. changed.s.bits = ChangeBits(both) /\ changed.f = f
  BY DEF Socket
<1> HIDE DEF changed
<1> QED
  BY <1>2, <1>4, <1>5, <1>6, <1>7, <1>8

\* So does one that had a short write.
LEMMA WriteContinues ==
  ASSUME NEW st \in HandlerState, NEW id \in Conn, NEW bytes \in Seq(Byte),
         Taken(st, bytes) # Len(bytes), "IN" \in st.s.bits,
         st.s.bits = Bits => st.f[WRITABLE] # NULL
  PROVE  LET t == Write(st, id, bytes) IN t.s.bits = Bits /\ t.f[WRITABLE] # NULL
<1> DEFINE n == Taken(st, bytes)
           sent == [st EXCEPT !.w.out = @ \o SubSeq(bytes, 1, n), !.w.buffered = @ + n]
           cut == [sent EXCEPT !.failed = TRUE]
<1>1. st.s \in Socket /\ DOMAIN st = {"s", "f", "failed", "e", "h", "w", "ub"}
  BY DEF HandlerState
<1>2. sent.s = st.s /\ sent.f = st.f /\ DOMAIN sent = DOMAIN st
  BY <1>1
<1> HIDE DEF sent
<1>3. cut.s = st.s /\ cut.f = st.f /\ DOMAIN cut = DOMAIN st
  BY <1>1, <1>2
<1>4. Write(st, id, bytes) = PollChange(cut, id, {READABLE, WRITABLE})
  BY DEF Write, WriteFailed, sent
<1> HIDE DEF cut
<1>5. LET t == PollChange(cut, id, {READABLE, WRITABLE})
      IN  t.s.bits = Bits /\ t.f[WRITABLE] # NULL
  BY <1>1, <1>3, PollsBoth
<1> QED
  BY <1>4, <1>5

\* Rebuffering is between the echo socket and the heap.
LEMMA RebufferKeeps ==
  ASSUME NEW st, NEW block, NEW bytes, DOMAIN st = {"s", "f", "failed", "e", "h", "w", "ub"}
  PROVE  LET t == Rebuffer(st, block, bytes)
         IN  t.s = st.s /\ t.f = st.f /\ t.failed = st.failed
<1> DEFINE u == [st EXCEPT !.h[block] = bytes]
           v == FreeBacklog(u)
<1>1. /\ u.s = st.s /\ u.f = st.f /\ u.failed = st.failed
      /\ DOMAIN u = {"s", "f", "failed", "e", "h", "w", "ub"}
  OBVIOUS
<1> HIDE DEF u
<1>2. /\ v.s = u.s /\ v.f = u.f /\ v.failed = u.failed /\ DOMAIN v = DOMAIN u
  BY <1>1 DEF FreeBacklog
<1> HIDE DEF v
<1>3. Rebuffer(st, block, bytes) = [v EXCEPT !.e = [backpressure |-> block, length |-> Len(bytes)]]
  BY DEF Rebuffer, v, u
<1> QED
  BY <1>1, <1>2, <1>3

\* on_data runs on a socket that hears readable.
LEMMA OnDataContinues ==
  ASSUME NEW st \in HandlerState, NEW id \in Conn, NEW block \in Block,
         Tally(st.e, st.w), Continues(st.s, st.f, st.e), "IN" \in st.s.bits
  PROVE  LET t == OnData(st, id, block) IN Continues(t.s, t.f, t.e)
<1> DEFINE data == Unread(st)
           n == Taken(st, data)
           written == Write(st, id, data)
           wrote == [written EXCEPT !.w.taken = st.w.sent]
           behind == Backlog(st) \o Rest(data, n)
           short == Rebuffer(wrote, block, behind)
           u == SendBackOrBuffer(st, id, block)
<1>1. data \in Seq(Byte) /\ Len(data) = st.w.sent - st.w.taken
  BY UnreadType DEF Tally
<1> HIDE DEF data
<1>2. /\ written \in HandlerState /\ written.e = st.e
      /\ n = Len(data) => written.s = st.s /\ written.f = st.f
  BY <1>1, WriteSends
<1>3. n # Len(data) => written.s.bits = Bits /\ written.f[WRITABLE] # NULL
  BY <1>1, WriteContinues DEF Continues
<1> HIDE DEF written
<1>4. /\ wrote.s = written.s /\ wrote.f = written.f /\ wrote.e = written.e
      /\ DOMAIN wrote = {"s", "f", "failed", "e", "h", "w", "ub"}
  BY <1>2 DEF HandlerState
<1>5. u = IF n = Len(data) THEN wrote ELSE short
  BY DEF SendBackOrBuffer, behind, wrote, written, data, n
<1> HIDE DEF behind, n, wrote
<1>6. short.s = wrote.s /\ short.f = wrote.f
  BY ONLY <1>4, RebufferKeeps DEF short
<1>7. Continues(u.s, u.f, u.e)
  <2> HIDE DEF wrote, short, u
  <2> QED
    BY <1>2, <1>3, <1>4, <1>5, <1>6 DEF Continues
<1>8. u \in HandlerState
  BY SendBackTallies
<1> HIDE DEF u
<1>9. OnData(st, id, block) = Armed(u)
  BY DEF OnData, u
<1> QED
  BY <1>7, <1>8, <1>9, ArmedType DEF Continues

\* on_writable leaves no backlog, or one that is polled for as it was.
LEMMA OnWritableContinues ==
  ASSUME NEW st \in HandlerState, NEW id \in Conn, NEW block \in Block,
         Tally(st.e, st.w), Continues(st.s, st.f, st.e), ~st.failed
  PROVE  LET t == OnWritable(st, id, block)
         IN  Continues(t.s, t.f, t.e) /\ (~t.failed => t.e.length = 0)
<1> DEFINE bytes == Backlog(st)
           n == Taken(st, bytes)
           wrote == Write(st, id, bytes)
           freed == FreeBacklog(wrote)
           full == [freed EXCEPT !.e.length = 0]
           rest == SubSeq(bytes, 1, Len(bytes) - n)
           marked == [wrote EXCEPT !.w.cut = @ \/ n > 0]
           short == Rebuffer(marked, block, rest)
           u == ContinueBacklog(st, id, block)
<1>1. bytes \in Seq(Byte) /\ Len(bytes) = st.e.length
  BY BacklogType DEF Tally
<1> HIDE DEF bytes
<1>2. /\ wrote \in HandlerState /\ wrote.e = st.e
      /\ IF n = Len(bytes)
           THEN wrote.s = st.s /\ wrote.f = st.f /\ wrote.failed = st.failed
           ELSE wrote.failed
  BY <1>1, WriteSends
<1>3. n # Len(bytes) => wrote.s.bits = Bits /\ wrote.f[WRITABLE] # NULL
  <2> SUFFICES ASSUME n # Len(bytes)
               PROVE  wrote.s.bits = Bits /\ wrote.f[WRITABLE] # NULL
    OBVIOUS
  <2>1. n \in 0..Len(bytes) /\ st.e.length \in Nat
    BY <1>1, TakenBounds, LenProperties
  <2>2. "IN" \in st.s.bits
    BY <1>1, <2>1 DEF Continues, Bits
  <2> QED
    BY <1>1, <2>2, WriteContinues DEF Continues
<1>4. u = IF n = Len(bytes) THEN full ELSE short
  BY DEF ContinueBacklog, bytes, n
<1> HIDE DEF wrote, n
<1>6. /\ freed \in HandlerState /\ freed.s = wrote.s /\ freed.f = wrote.f
      /\ freed.failed = wrote.failed
  BY <1>2, FreeType
<1> HIDE DEF freed
<1>7. full.s = freed.s /\ full.f = freed.f /\ full.e.length = 0 /\ full.failed = freed.failed
  BY <1>6 DEF HandlerState, EchoSocket
<1> HIDE DEF rest
<1>8. short.s = wrote.s /\ short.f = wrote.f /\ short.failed = wrote.failed
  <2>1. /\ DOMAIN marked = {"s", "f", "failed", "e", "h", "w", "ub"}
        /\ marked.s = wrote.s /\ marked.f = wrote.f /\ marked.failed = wrote.failed
    BY <1>2 DEF HandlerState
  <2> HIDE DEF marked
  <2> QED
    BY ONLY <2>1, RebufferKeeps DEF short
<1>9. Continues(u.s, u.f, u.e) /\ (~u.failed => u.e.length = 0)
  <2> HIDE DEF full, short, u
  <2> QED
    BY <1>2, <1>3, <1>4, <1>6, <1>7, <1>8 DEF Continues
<1>10. u \in HandlerState
  BY ContinueBacklogTallies
<1> HIDE DEF u
<1>11. OnWritable(st, id, block) = Armed(u)
  BY DEF OnWritable, u
<1> QED
  BY <1>9, <1>10, <1>11, ArmedType DEF Continues

\* The loop stops polling for writable only if nothing was left over.
LEMMA StopPollingContinues ==
  ASSUME NEW st \in HandlerState, NEW id \in Conn,
         Continues(st.s, st.f, st.e), ~st.failed => st.e.length = 0
  PROVE  LET t == StopPolling(st, id) IN Continues(t.s, t.f, t.e)
<1> DEFINE old == PollEvents(st.s.bits)
           new == old \cap {READABLE}
           f == KqueueChange(st.f, old, new, id)
           changed == [st EXCEPT !.s.bits = ChangeBits(new), !.f = f]
<1>1. StopPolling(st, id) = IF ~st.failed THEN IF old = new THEN st ELSE changed ELSE st
  BY DEF StopPolling, PollChange
<1>2. old \in SUBSET Events
  BY BitsType
<1>3. "IN" \notin ChangeBits(new)
  BY <1>2, DropsWritable
<1>4. st.s \in Socket
  BY DEF HandlerState
<1> HIDE DEF old, new, f
<1>5. changed.s.bits = ChangeBits(new) /\ changed.f = f /\ changed.e = st.e
  BY <1>4 DEF HandlerState, Socket
<1> HIDE DEF changed
<1>6. ChangeBits(new) # Bits
  BY <1>3 DEF Bits
<1>7. ~st.failed => Continues(changed.s, changed.f, changed.e)
  BY <1>5, <1>6 DEF Continues
<1> QED
  BY <1>1, <1>7

-----------------------------------------------------------------------------
LEMMA BecomesContinues ==
  ASSUME EchoInv, ContinuesInv, NEW id \in Conn, NEW st, Becomes(id, st),
         Continues(st.s, st.f, st.e)
  PROVE  ContinuesInv'
<1>1. /\ sock \in [Conn -> Socket] /\ es \in [Conn -> EchoSocket]
      /\ filters \in [Conn -> [Events -> Conn \cup {NULL}]]
  BY DEF EchoInv, TypeOK, LibraryTypeOK
<1>2. /\ sock' = [sock EXCEPT ![id] = st.s] /\ filters' = [filters EXCEPT ![id] = st.f]
      /\ es' = [es EXCEPT ![id] = st.e]
  BY DEF Becomes, LibraryBecomes
<1>3. /\ sock'[id] = st.s /\ filters'[id] = st.f /\ es'[id] = st.e
      /\ \A c \in Conn \ {id} : /\ sock'[c] = sock[c] /\ filters'[c] = filters[c]
                               /\ es'[c] = es[c]
  BY <1>1, <1>2
<1> SUFFICES ASSUME NEW c \in Conn PROVE Continues(sock'[c], filters'[c], es'[c])
  BY DEF ContinuesInv
<1> QED
  BY <1>3 DEF ContinuesInv

\* A connection that is closed or quiet has nothing to continue.
LEMMA NothingContinues ==
  \A f : Continues(NoSocket, f, NoEcho)
<1>1. NoSocket.bits = {} /\ NoEcho.length = 0 /\ Bits # {}
  BY DEF NoSocket, NoEcho, Bits
<1> QED
  BY <1>1 DEF Continues

LEMMA AcceptContinues ==
  ASSUME EchoInv, ContinuesInv, NEW c \in Conn, AcceptConnection(c)
  PROVE  ContinuesInv'
<1> DEFINE st0 == [State(c) EXCEPT !.w = Quiet]
           s0 == [open |-> TRUE, bits |-> StartBits({READABLE}), timeout |-> 0]
           f0 == KqueueChange(NoFilters, {}, {READABLE}, c)
           st1 == [st0 EXCEPT !.s = s0, !.f = f0]
           st2 == [st1 EXCEPT !.s.timeout = IdleSweeps]
           st3 == [st2 EXCEPT !.e = NoEcho]
<1>1. OnOpen(Accepted(st0, c)) = st3
  BY DEF OnOpen, Accepted, Armed
<1>2. StartBits({READABLE}) # Bits
  BY DEF StartBits, Bits, READABLE, WRITABLE
<1>3. DOMAIN st0 = {"s", "f", "failed", "e", "h", "w", "ub"}
  BY DEF State
<1> HIDE DEF st0, f0
<1>4. st3.s.bits = StartBits({READABLE}) /\ st3.e = NoEcho
  BY <1>3
<1> HIDE DEF st3
<1>5. NoEcho.length = 0
  BY DEF NoEcho
<1>6. Continues(st3.s, st3.f, st3.e)
  BY <1>2, <1>4, <1>5 DEF Continues
<1>7. Becomes(c, st3)
  BY <1>1 DEF AcceptConnection, st0
<1> QED
  BY <1>6, <1>7, BecomesContinues

LEMMA CloseContinues ==
  ASSUME EchoInv, ContinuesInv, NEW id \in Conn, NEW st \in HandlerState, Becomes(id, Closed(st))
  PROVE  ContinuesInv'
<1> DEFINE t == Closed(st)
<1>1. t.e = NoEcho /\ t.f = NoFilters
  BY ClosedType
<1>2. NoFilters[WRITABLE] = NULL /\ NoEcho.length = 0
  BY DEF NoFilters, NoEcho, Events
<1>3. t.s = NoSocket
  <2> DEFINE v == FreeBacklog(ClosedSocket(st))
  <2>1. ClosedSocket(st).s = NoSocket
    BY DEF ClosedSocket, HandlerState
  <2>2. v.s = NoSocket
    BY <2>1 DEF FreeBacklog, ClosedSocket, HandlerState
  <2> HIDE DEF v
  <2> QED
    BY <2>2 DEF Closed, v
<1>4. Becomes(id, t)
  OBVIOUS
<1> HIDE DEF t
<1>5. Continues(t.s, t.f, t.e)
  BY <1>1, <1>3, NothingContinues
<1> QED
  BY <1>4, <1>5, BecomesContinues

LEMMA ReadableContinues ==
  ASSUME EchoInv, ContinuesInv, NEW r \in ready, DispatchReadable(r)
  PROVE  ContinuesInv'
<1> DEFINE id == r.c
           st == State(id)
<1>1. r # SweepTimer
  BY Sizes DEF DispatchReadable, SweepTimer
<1>2. id \in Conn /\ sock[id].open /\ Tally(es[id], wire[id])
  BY <1>1, ReportOfConn
<1>3. /\ st \in HandlerState /\ st.s = sock[id] /\ st.e = es[id] /\ st.w = wire[id]
      /\ st.f = filters[id]
  BY <1>2, StateType DEF EchoInv
<1>4. PICK block \in NewBlock :
        IF wire[id].taken < wire[id].sent
          THEN Becomes(id, OnData(st, id, block)) /\ ready' = ready \ {r}
          ELSE Becomes(id, OnEnd(StopReading(st, id))) /\ ready' = ReportsWithout({id})
  BY DEF DispatchReadable
<1>5. block \in Block /\ "IN" \in sock[id].bits
  BY EventsOfBits DEF NewBlock, DispatchReadable, Heard
<1>6. Continues(st.s, st.f, st.e)
  BY <1>2, <1>3 DEF ContinuesInv
<1> HIDE DEF st
<1>7. CASE wire[id].taken < wire[id].sent
  <2> DEFINE t == OnData(st, id, block)
  <2>1. Continues(t.s, t.f, t.e)
    BY <1>2, <1>3, <1>5, <1>6, OnDataContinues
  <2>2. Becomes(id, t)
    BY <1>4, <1>7
  <2> HIDE DEF t
  <2> QED
    BY <1>2, <2>1, <2>2, BecomesContinues
<1>8. CASE ~(wire[id].taken < wire[id].sent)
  <2> DEFINE t == StopReading(st, id)
  <2>1. t \in HandlerState
    BY <1>2, <1>3, PollChangeType DEF StopReading
  <2>2. Becomes(id, Closed(t))
    BY <1>4, <1>8 DEF OnEnd
  <2> HIDE DEF t
  <2> QED
    BY <1>2, <2>1, <2>2, CloseContinues
<1> QED
  BY <1>7, <1>8

LEMMA WritableContinues ==
  ASSUME EchoInv, ContinuesInv, NEW r \in ready, DispatchWritable(r)
  PROVE  ContinuesInv'
<1> DEFINE id == r.c
           st == [State(id) EXCEPT !.failed = FALSE]
<1>1. r # SweepTimer
  BY DEF DispatchWritable, SweepTimer, READABLE, WRITABLE
<1>2. id \in Conn /\ sock[id].open /\ Tally(es[id], wire[id])
  BY <1>1, ReportOfConn
<1>3. /\ st \in HandlerState /\ st.s = sock[id] /\ st.e = es[id] /\ st.w = wire[id]
      /\ st.f = filters[id] /\ ~st.failed
  <2>1. /\ State(id) \in HandlerState /\ State(id).s = sock[id]
        /\ State(id).e = es[id] /\ State(id).w = wire[id] /\ State(id).f = filters[id]
    BY <1>2, StateType DEF EchoInv
  <2> QED
    BY <2>1 DEF HandlerState
<1>4. PICK block \in NewBlock : Becomes(id, StopPolling(OnWritable(st, id, block), id))
  BY DEF DispatchWritable
<1>5. block \in Block
  BY DEF NewBlock
<1>6. Continues(st.s, st.f, st.e)
  BY <1>2, <1>3 DEF ContinuesInv
<1> HIDE DEF st
<1> DEFINE u == OnWritable(st, id, block)
           t == StopPolling(u, id)
<1>7. u \in HandlerState
  BY <1>2, <1>3, <1>5, OnWritableTallies
<1>8. Continues(u.s, u.f, u.e) /\ (~u.failed => u.e.length = 0)
  BY <1>2, <1>3, <1>5, <1>6, OnWritableContinues
<1>9. Becomes(id, t)
  BY <1>4
<1> HIDE DEF u
<1>10. Continues(t.s, t.f, t.e)
  BY <1>2, <1>7, <1>8, StopPollingContinues
<1> HIDE DEF t
<1> QED
  BY <1>2, <1>9, <1>10, BecomesContinues

LEMMA SweepContinues ==
  ASSUME EchoInv, ContinuesInv, Sweep
  PROVE  ContinuesInv'
<1> SUFFICES ASSUME NEW c \in Conn PROVE Continues(sock'[c], filters'[c], es'[c])
  BY DEF ContinuesInv
<1>1. /\ SweepSockets(Expiring)
      /\ es'[c] = IF c \in Expiring THEN NoEcho ELSE es[c]
  BY DEF Sweep
<1>2. /\ sock'[c] = IF c \in Expiring THEN NoSocket
                   ELSE [sock[c] EXCEPT !.timeout = IF @ > 0 THEN @ - 1 ELSE 0]
      /\ filters'[c] = IF c \in Expiring THEN NoFilters ELSE filters[c]
  BY <1>1 DEF SweepSockets
<1>3. sock[c] \in Socket
  BY DEF EchoInv, TypeOK, LibraryTypeOK
<1>4. CASE c \in Expiring
  BY <1>1, <1>2, <1>4, NothingContinues
<1>5. CASE c \notin Expiring
  <2>1. sock'[c].bits = sock[c].bits /\ filters'[c] = filters[c] /\ es'[c] = es[c]
    BY <1>1, <1>2, <1>3, <1>5 DEF Socket
  <2> QED
    BY <2>1 DEF Continues, ContinuesInv
<1> QED
  BY <1>4, <1>5

LEMMA NextContinues == EchoInv /\ ContinuesInv /\ [Next]_vars => ContinuesInv'
<1> SUFFICES ASSUME EchoInv, ContinuesInv, [Next]_vars PROVE ContinuesInv'
  OBVIOUS
<1>1. CASE UNCHANGED <<sock, filters, es>>
  BY <1>1 DEF ContinuesInv
<1>2. CASE KqueueWait
  BY <1>1, <1>2 DEF KqueueWait, Kevent
<1>3. ASSUME NEW r \in ready, SkipReport(r)
      PROVE  ContinuesInv'
  BY <1>1, <1>3 DEF SkipReport, Skip
<1>4. ASSUME NEW r \in ready, DispatchEof(r)
      PROVE  ContinuesInv'
  <2>1. r # SweepTimer
    BY <1>4 DEF DispatchEof, SweepTimer
  <2>2. r.c \in Conn /\ State(r.c) \in HandlerState
    BY <2>1, ReportOfConn, StateType DEF EchoInv
  <2> QED
    BY <1>4, <2>2, CloseContinues DEF DispatchEof
<1>5. ASSUME NEW r \in ready, DispatchReadable(r) \/ DispatchWritable(r)
      PROVE  ContinuesInv'
  BY <1>5, ReadableContinues, WritableContinues
<1>6. CASE Sweep
  BY <1>6, SweepContinues
<1>7. ASSUME NEW c \in Conn,
             AcceptConnection(c) \/ ClientSends(c) \/ ClientReads(c) \/ ClientEnds(c)
      PROVE  ContinuesInv'
  BY <1>1, <1>7, AcceptContinues DEF ClientSends, ClientReads, ClientEnds, library
<1>8. CASE UNCHANGED vars
  BY <1>1, <1>8 DEF vars, library
<1> QED
  BY <1>2, <1>3, <1>4, <1>5, <1>6, <1>7, <1>8 DEF Next, Dispatch

\* Whatever short writes and new data come in between, a backlog is registered for
\* writable and heard: it never waits for a call that nobody makes.
THEOREM EchoContinues == Spec => []BacklogIsWritable
<1>1. Init => ContinuesInv
  BY NothingContinues DEF Init, LibraryInit, ContinuesInv
<1>2. EchoInv /\ ContinuesInv /\ [Next]_vars => ContinuesInv'
  BY NextContinues
<1>3. ContinuesInv => BacklogIsWritable
  <2> SUFFICES ASSUME ContinuesInv, NEW c \in Conn, es[c].length > 0
               PROVE  filters[c][WRITABLE] # NULL /\ WRITABLE \in PollEvents(sock[c].bits)
    BY DEF BacklogIsWritable
  <2>1. sock[c].bits = Bits /\ filters[c][WRITABLE] # NULL
    BY DEF ContinuesInv, Continues
  <2> QED
    BY <2>1, EventsOfBits DEF Bits
<1> QED
  BY <1>1, <1>2, <1>3, EchoInvariance, PTL DEF Spec
=============================================================================
