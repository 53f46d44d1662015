--------------------------- MODULE HttpServerProofs ---------------------------
(***************************************************************************)
(* The answers of the HTTP server, for every number of connections, size   *)
(* of response and size of send buffer.  Whatever clients send, no request *)
(* is answered twice; a client that waits for an answer before it asks     *)
(* again reads whole responses.                                            *)
(*                                                                         *)
(* The properties are not inductive: what on_writable sends depends on the *)
(* offset, on the filters asock_poll_change leaves behind and on reports   *)
(* that are already in the batch.  HttpInv says how these hang together,   *)
(* PolledInv that what is left of a response is continued.  RegisteredInv  *)
(* is what a timeout finds when the example's main registered its handler. *)
(***************************************************************************)
EXTENDS HttpServer, PollProofs

\* The state a handler works on.
HandlerState ==
  [s : Socket, f : [Events -> Conn \cup {NULL}], failed : BOOLEAN, o : 0..Length, w : Wire]

\* The last response went out whole, or none was begun.
Waiting(o, w) == w.answered + w.unread = w.asked /\ o \in {0, Length}

\* A response is out as far as the offset.
Streaming(o, w) == w.answered + 1 = w.asked /\ w.unread = 0 /\ o < Length

\* The offset is where the stream stands, and its answers are whole so far.
Place(from) == IF from = Length THEN 0 ELSE from

StreamOK(o, w) ==
  /\ w.pos = Place(o)
  /\ w.unread <= 1
  /\ ~w.garbled
  /\ Waiting(o, w) \/ Streaming(o, w)

WritableReported(c) == \E r \in ready : r.c = c /\ r.e = WRITABLE

\* Requests were read that the stream has no whole response for.
Owed(w) == w.answered + w.unread < w.asked

\* Whatever clients send: what is left of the response, Length - o, completes no more
\* than what is owed.
Owes(o, w) ==
  /\ w.answered + w.unread <= w.asked
  /\ w.answered + w.unread = w.asked => w.pos = 0 /\ o \in {0, Length}
  /\ w.answered + w.unread + 1 = w.asked => w.pos <= o

\* on_writable is called for a connection at offset 0 only if a response was begun.
ConnInv(c) ==
  sock[c].open =>
    /\ Owes(offset[c], wire[c])
    /\ ~Pipelining => StreamOK(offset[c], wire[c])
    /\ offset[c] = 0 => \/ Owed(wire[c])
                        \/ filters[c][WRITABLE] = NULL /\ ~WritableReported(c)

HttpInv ==
  /\ TypeOK
  /\ ~Pipelining => AnswersAreWhole
  /\ OneAnswerEach
  /\ \A r \in ready : r = SweepTimer \/ r.c \in Conn
  /\ \A c \in Conn : ConnInv(c)
  /\ \A c \in Conn, e \in Events : filters[c][e] # NULL => sock[c].open

-----------------------------------------------------------------------------
\* Where a stream is after a write of at most a response.
LEMMA Places ==
  ASSUME NEW pos \in 0..Length - 1, NEW k \in 0..Length
  PROVE  /\ (pos + k) % Length = IF pos + k >= Length THEN pos + k - Length ELSE pos + k
         /\ (pos + k) \div Length = IF pos + k >= Length THEN 1 ELSE 0
<1> DEFINE L == Length
           n == pos + k
<1>1. L \in Nat \ {0} /\ n \in Nat /\ n < 2 * L
  BY HttpAssumption
<1> HIDE DEF L, n
<1>2. CASE n < L
  <2>1. n % L = n /\ n \div L = 0
    BY <1>1, <1>2
  <2> QED
    BY <1>1, <1>2, <2>1 DEF L, n
<1>3. CASE n >= L
  <2> DEFINE m == n - L
  <2>1. m \in 0..(L - 1) /\ n = m + L
    BY <1>1, <1>3
  <2> HIDE DEF m
  <2>2. (m + L) % L = m /\ (m + L) \div L = 1
    BY <1>1, <2>1
  <2>3. n % L = m /\ n \div L = 1
    BY <2>1, <2>2
  <2> QED
    BY <1>1, <1>3, <2>1, <2>3 DEF L, n
<1> QED
  BY <1>1, <1>2, <1>3

\* send takes no more than it is given, nor than there is room for.
LEMMA SentBounds ==
  ASSUME NEW st \in HandlerState, NEW n \in Nat
  PROVE  /\ Sent(st, n) \in 0..n
         /\ st.w.buffered + Sent(st, n) \in 0..SendBuffer
<1>1. st.w.buffered \in 0..SendBuffer
  BY DEF HandlerState, Wire
<1> QED
  BY <1>1, HttpAssumption DEF Sent

\* The streams v are w with k bytes of a response from byte from on behind them.
Sends(v, w, from, k) ==
  /\ v.unread = w.unread /\ v.asked = w.asked
  /\ v.pos = IF w.pos + k >= Length THEN w.pos + k - Length ELSE w.pos + k
  /\ v.answered = w.answered + IF w.pos + k >= Length THEN 1 ELSE 0
  /\ v.garbled => w.garbled \/ (k > 0 /\ from # w.pos)

\* And they belong there: the answer is counted when its last byte goes out.
Continues(v, w, from, k) ==
  /\ v.unread = w.unread /\ v.asked = w.asked
  /\ ~v.garbled
  /\ v.pos = Place(from + k)
  /\ v.answered = w.answered + IF k > 0 /\ from + k = Length THEN 1 ELSE 0

\* Only the streams of a state were changed.
OnlyStreams(t, st) ==
  t \in HandlerState /\ t.s = st.s /\ t.f = st.f /\ t.failed = st.failed /\ t.o = st.o

\* What send does to the streams, wherever they stand.
LEMMA SendSends ==
  ASSUME NEW st \in HandlerState, NEW from \in 0..Length
  PROVE  LET t == Send(st, from, Length - from)
         IN  OnlyStreams(t, st) /\ Sends(t.w, st.w, from, Sent(st, Length - from))
<1> DEFINE k == Sent(st, Length - from)
           t == Send(st, from, Length - from)
<1>0. Length \in Nat \ {0} /\ SendBuffer \in Nat /\ MaxRequests \in Nat
  BY HttpAssumption
<1>1. k \in 0..(Length - from) /\ k \in 0..Length /\ st.w.buffered + k \in 0..SendBuffer
  BY <1>0, SentBounds, Length - from \in Nat
<1>2. st.w \in Wire /\ st.w.answered \in Nat /\ st.w.pos \in 0..Length - 1
  BY DEF HandlerState, Wire
<1>3. t = IF k = 0 THEN st
          ELSE [st EXCEPT !.w.buffered = @ + k, !.w.pos = (st.w.pos + k) % Length,
                          !.w.answered = @ + (st.w.pos + k) \div Length,
                          !.w.garbled = @ \/ from # st.w.pos]
  BY DEF Send
<1>4. CASE k = 0
  <2>1. t = st /\ ~(st.w.pos + 0 >= Length) /\ st.w.pos + 0 = st.w.pos
        /\ st.w.answered + 0 = st.w.answered
    BY <1>0, <1>2, <1>3, <1>4
  <2> QED
    BY <1>4, <2>1 DEF OnlyStreams, Sends
<1>5. CASE k # 0
  <2> HIDE DEF k, t
  <2> DEFINE x == IF st.w.pos + k >= Length THEN st.w.pos + k - Length ELSE st.w.pos + k
             y == IF st.w.pos + k >= Length THEN 1 ELSE 0
             b == st.w.buffered + k
             a == st.w.answered + y
             g == st.w.garbled \/ from # st.w.pos
             v == [st.w EXCEPT !.buffered = b, !.pos = x, !.answered = a, !.garbled = g]
  <2>1. (st.w.pos + k) % Length = x /\ (st.w.pos + k) \div Length = y
    BY <1>1, <1>2, Places
  <2>2. x \in 0..Length - 1 /\ a \in Nat /\ b \in 0..SendBuffer /\ g \in BOOLEAN
    BY <1>0, <1>1, <1>2
  <2>3. t = [st EXCEPT !.w.buffered = @ + k, !.w.pos = x, !.w.answered = @ + y,
                       !.w.garbled = @ \/ from # st.w.pos]
    BY <1>3, <1>5, <2>1
  <2> HIDE DEF x, y
  <2>4. t = [st EXCEPT !.w = v]
    BY <2>3 DEF HandlerState, Wire
  <2> HIDE DEF a, b, g, v
  <2>5. v = [st.w EXCEPT !.buffered = b, !.pos = x, !.answered = a, !.garbled = g]
    BY DEF v
  <2>6. /\ v \in Wire /\ v.unread = st.w.unread /\ v.asked = st.w.asked
        /\ v.pos = x /\ v.answered = a
    BY <1>2, <2>2, <2>5 DEF Wire
  <2>7. v.garbled = g
    BY <1>2, <2>2, <2>5 DEF Wire
  <2>8. OnlyStreams(t, st) /\ t.w = v
    BY <2>4, <2>6 DEF OnlyStreams, HandlerState
  <2>9. k > 0
    BY <1>1, <1>5
  <2>10. v.garbled => st.w.garbled \/ (k > 0 /\ from # st.w.pos)
    BY <2>7, <2>9 DEF g
  <2>11. Sends(v, st.w, from, k)
    BY <2>6, <2>10 DEF Sends, x, y, a
  <2> QED
    BY <2>8, <2>11 DEF k, t
<1> QED
  BY <1>4, <1>5

\* Bytes from where the stream stands on: nothing is garbled, and the answer is
\* counted when its last byte goes out.
LEMMA SendsContinue ==
  ASSUME NEW w \in Wire, NEW v \in Wire, NEW from \in 0..Length, NEW k \in 0..(Length - from),
         Sends(v, w, from, k), w.pos = Place(from), ~w.garbled
  PROVE  Continues(v, w, from, k)
<1>1. Length \in Nat \ {0} /\ w.answered \in Nat
  BY HttpAssumption DEF Wire
<1>2. CASE from = Length
  <2>1. k = 0 /\ w.pos = 0 /\ Place(from + k) = 0 /\ ~(w.pos + k >= Length)
    BY <1>1, <1>2 DEF Place
  <2> QED
    BY <1>1, <2>1 DEF Sends, Continues
<1>3. CASE from # Length
  <2>1. w.pos = from /\ from + k \in 0..Length /\ from < Length
    BY <1>1, <1>3 DEF Place
  <2>2. /\ Place(from + k) = IF from + k >= Length THEN from + k - Length ELSE from + k
        /\ from + k >= Length <=> k > 0 /\ from + k = Length
    BY <1>1, <2>1 DEF Place
  <2>3. ~v.garbled
    BY <2>1 DEF Sends
  <2> QED
    BY <2>1, <2>2, <2>3 DEF Sends, Continues
<1> QED
  BY <1>2, <1>3

\* asock_poll_change leaves all but bits and filters alone.
LEMMA PollChangeType ==
  ASSUME NEW st \in HandlerState, NEW id \in Conn, NEW events
  PROVE  LET t == PollChange(st, id, events)
         IN  /\ t \in HandlerState
             /\ t.s.open = st.s.open /\ t.failed = st.failed /\ t.o = st.o /\ t.w = st.w
<1>1. ChangeBits(events) \in SUBSET Bits
  BY BitsType
<1>2. \A old : KqueueChange(st.f, old, events, id) \in [Events -> Conn \cup {NULL}]
  BY KqueueChangeFilters, st.f \in [Events -> Conn \cup {NULL}] DEF HandlerState
<1> QED
  BY <1>1, <1>2 DEF PollChange, HandlerState, Socket

\* A write, complete or short.
LEMMA WriteSends ==
  ASSUME NEW st \in HandlerState, NEW id \in Conn, NEW from \in 0..Length
  PROVE  LET t == Write(st, id, from)
         IN  /\ t \in HandlerState
             /\ t.s.open = st.s.open /\ t.o = st.o
             /\ Written(st, from) \in 0..(Length - from)
             /\ Sends(t.w, st.w, from, Written(st, from))
<1> DEFINE u == Send(st, from, Length - from)
           failed == [u EXCEPT !.failed = TRUE]
<1>1. OnlyStreams(u, st) /\ Sends(u.w, st.w, from, Written(st, from))
  BY SendSends DEF Written
<1> HIDE DEF u
<1>2. /\ failed \in HandlerState
      /\ failed.s = u.s /\ failed.o = u.o /\ failed.w = u.w
  BY <1>1 DEF OnlyStreams, HandlerState
<1> HIDE DEF failed
<1>3. LET t == PollChange(failed, id, {READABLE, WRITABLE})
      IN  /\ t \in HandlerState
          /\ t.s.open = failed.s.open /\ t.o = failed.o /\ t.w = failed.w
  BY <1>2, PollChangeType
<1>4. Write(st, id, from) \in {u, PollChange(failed, id, {READABLE, WRITABLE})}
  BY DEF Write, WriteFailed, u, failed
<1>5. Written(st, from) \in 0..(Length - from)
  BY HttpAssumption, SentBounds, Length - from \in Nat DEF Written
<1> QED
  BY <1>1, <1>2, <1>3, <1>4, <1>5 DEF OnlyStreams

\* A write that begins where the stream stands.
LEMMA WriteContinues ==
  ASSUME NEW st \in HandlerState, NEW id \in Conn, NEW from \in 0..Length,
         st.w.pos = Place(from), ~st.w.garbled
  PROVE  LET t == Write(st, id, from)
         IN  t \in HandlerState /\ Continues(t.w, st.w, from, Written(st, from))
<1> DEFINE t == Write(st, id, from)
           k == Written(st, from)
<1>1. t \in HandlerState /\ k \in 0..(Length - from) /\ Sends(t.w, st.w, from, k)
  BY WriteSends
<1> HIDE DEF t, k
<1>2. t.w \in Wire /\ st.w \in Wire
  BY <1>1 DEF HandlerState
<1>3. Continues(t.w, st.w, from, k)
  BY <1>1, <1>2, SendsContinue
<1> QED
  BY <1>1, <1>3 DEF t, k

\* Arming its timeout changes nothing else of a connection.
LEMMA ArmedType ==
  ASSUME NEW st \in HandlerState
  PROVE  LET t == Armed(st)
         IN  /\ t \in HandlerState
             /\ t.s.open = st.s.open /\ t.f = st.f /\ t.o = st.o /\ t.w = st.w
<1>1. IdleSweeps \in 0..IdleSweeps
  BY ConnectionsAssumption
<1> QED
  BY <1>1 DEF Armed, HandlerState, Socket

-----------------------------------------------------------------------------
(***************************************************************************)
(* The handlers.                                                           *)
(***************************************************************************)
\* Where a written offset leaves the streams.
LEMMA StreamGoesOn ==
  ASSUME NEW w \in Wire, NEW v \in Wire, NEW from \in 0..Length, NEW k \in 0..(Length - from),
         Continues(v, w, from, k), w.unread = 0, w.answered + 1 = w.asked, from < Length
  PROVE  /\ StreamOK(from + k, v)
         /\ from + k = 0 => Streaming(from + k, v)
<1>1. /\ Length \in Nat \ {0} /\ w.answered \in Nat /\ w.asked \in Nat /\ v.answered \in Nat
      /\ v.unread \in Nat /\ v.asked \in Nat
  BY HttpAssumption DEF Wire
<1>2. /\ v.unread = 0 /\ v.asked = w.asked /\ v.pos = Place(from + k) /\ ~v.garbled
      /\ v.answered = w.answered + IF k > 0 /\ from + k = Length THEN 1 ELSE 0
  BY DEF Continues
<1>3. CASE from + k = Length
  <2>1. k > 0 /\ from + k # 0
    BY <1>1, <1>3
  <2>2. Waiting(from + k, v)
    BY <1>1, <1>2, <1>3, <2>1 DEF Waiting
  <2> QED
    BY <1>2, <2>1, <2>2 DEF StreamOK
<1>4. CASE from + k # Length
  <2>1. from + k < Length /\ v.answered = w.answered
    BY <1>1, <1>2, <1>4
  <2>2. Streaming(from + k, v)
    BY <1>1, <1>2, <2>1 DEF Streaming
  <2> QED
    BY <1>2, <2>2 DEF StreamOK
<1> QED
  BY <1>3, <1>4

\* The same for clients that do not wait: what is left of a response that began
\* completes no more than what is owed.
LEMMA CountGoesOn ==
  ASSUME NEW w \in Wire, NEW v \in Wire, NEW from \in 0..Length, NEW k \in 0..(Length - from),
         Sends(v, w, from, k), Owed(w), w.answered + w.unread + 1 = w.asked => w.pos <= from
  PROVE  /\ Owes(from + k, v)
         /\ from + k = 0 => Owed(v)
<1>1. /\ Length \in Nat \ {0} /\ w.answered \in Nat /\ w.asked \in Nat /\ w.unread \in Nat
      /\ w.pos \in 0..Length - 1
  BY HttpAssumption DEF Wire
<1>2. v.unread = w.unread /\ v.asked = w.asked
  BY DEF Sends
<1>3. CASE w.pos + k >= Length
  <2>1. v.pos = w.pos + k - Length /\ v.answered = w.answered + 1
    BY <1>3 DEF Sends
  <2> QED
    BY <1>1, <1>2, <1>3, <2>1 DEF Owed, Owes
<1>4. CASE ~(w.pos + k >= Length)
  <2>1. v.pos = w.pos + k /\ v.answered = w.answered
    BY <1>1, <1>4 DEF Sends
  <2> QED
    BY <1>1, <1>2, <1>4, <2>1 DEF Owed, Owes
<1> QED
  BY <1>3, <1>4

\* A stream that waits for nothing but the rest of its answer.
LEMMA OwedStreams ==
  ASSUME NEW o, NEW w \in Wire, StreamOK(o, w)
  PROVE  Owed(w) <=> Streaming(o, w)
BY HttpAssumption DEF Wire, StreamOK, Waiting, Streaming, Owed

\* on_data sends a response from its start.
LEMMA OnDataSends ==
  ASSUME NEW st \in HandlerState, NEW id \in Conn
  PROVE  LET t == OnData(st, id)
         IN  /\ t \in HandlerState
             /\ t.s.open = st.s.open
             /\ t.o \in 0..(Length - 0) /\ Sends(t.w, st.w, 0, t.o)
<1> DEFINE k == Written(st, 0)
           u == Write(st, id, 0)
           a == Armed(u)
<1>1. Length \in Nat \ {0} /\ 0 \in 0..Length /\ Length - 0 = Length
  BY HttpAssumption
<1>2. /\ u \in HandlerState /\ u.s.open = st.s.open
      /\ k \in 0..(Length - 0) /\ Sends(u.w, st.w, 0, k)
  BY <1>1, WriteSends
<1> HIDE DEF k, u
<1>3. a \in HandlerState /\ a.s.open = u.s.open /\ a.w = u.w
  BY <1>2, ArmedType
<1> HIDE DEF a
<1>4. OnData(st, id) = [a EXCEPT !.o = k]
  BY DEF OnData, a, u, k
<1>5. OnData(st, id) \in HandlerState /\ OnData(st, id).s = a.s
      /\ OnData(st, id).w = a.w /\ OnData(st, id).o = k
  BY <1>1, <1>2, <1>3, <1>4 DEF HandlerState
<1> QED
  BY <1>2, <1>3, <1>5

\* on_writable sends one on from the offset, or has nothing to send.
LEMMA OnWritableSends ==
  ASSUME NEW st \in HandlerState, NEW id \in Conn
  PROVE  LET t == OnWritable(st, id)
         IN  /\ t \in HandlerState
             /\ t.s.open = st.s.open
             /\ \E k \in 0..(Length - st.o) : t.o = st.o + k /\ Sends(t.w, st.w, st.o, k)
<1> DEFINE o == st.o
           k == Written(st, o)
           u == Write(st, id, o)
<1>1. Length \in Nat /\ o \in 0..Length
  BY HttpAssumption DEF HandlerState
<1>2. /\ u \in HandlerState /\ u.s.open = st.s.open /\ u.o = o
      /\ k \in 0..(Length - o) /\ Sends(u.w, st.w, o, k)
  BY <1>1, WriteSends
<1>3. OnWritable(st, id) = [u EXCEPT !.o = u.o + k]
  BY DEF OnWritable
<1> HIDE DEF k, u, o
<1>4. o + k \in 0..Length
  BY <1>1, <1>2
<1>5. OnWritable(st, id) \in HandlerState /\ OnWritable(st, id).s = u.s
      /\ OnWritable(st, id).w = u.w /\ OnWritable(st, id).o = o + k
  BY <1>2, <1>3, <1>4 DEF HandlerState
<1> QED
  BY <1>2, <1>5 DEF o

\* on_data leaves the connection in order, ...
LEMMA OnDataAnswers ==
  ASSUME NEW st \in HandlerState, NEW id \in Conn, st.s.open, Owed(st.w),
         st.w.answered + st.w.unread + 1 = st.w.asked => st.w.pos = 0,
         ~Pipelining => /\ st.w.unread = 0 /\ st.w.answered + 1 = st.w.asked
                        /\ st.w.pos = 0 /\ ~st.w.garbled
  PROVE  LET t == OnData(st, id)
         IN  /\ t \in HandlerState
             /\ t.s.open
             /\ Owes(t.o, t.w)
             /\ ~Pipelining => StreamOK(t.o, t.w)
             /\ t.o = 0 => Owed(t.w)
<1> DEFINE t == OnData(st, id)
           k == t.o
<1>1. t \in HandlerState /\ t.s.open /\ k \in 0..(Length - 0) /\ Sends(t.w, st.w, 0, k)
  BY OnDataSends
<1> HIDE DEF t
<1>2. Length \in Nat \ {0} /\ 0 \in 0..Length /\ 0 < Length /\ Place(0) = 0 /\ 0 <= 0
      /\ st.w \in Wire /\ t.w \in Wire
  BY <1>1, HttpAssumption DEF Place, HandlerState
<1> HIDE DEF k
<1>3. 0 + k = k
  BY <1>1, <1>2
<1>4. Owes(0 + k, t.w) /\ (0 + k = 0 => Owed(t.w))
  BY <1>1, <1>2, CountGoesOn
<1>5. ASSUME ~Pipelining
      PROVE  StreamOK(0 + k, t.w)
  BY <1>1, <1>2, <1>5, SendsContinue, StreamGoesOn
<1> QED
  BY <1>1, <1>3, <1>4, <1>5 DEF k, t

\* ... and so does on_writable.
LEMMA OnWritableGoesOn ==
  ASSUME NEW st \in HandlerState, NEW id \in Conn, st.s.open, Owes(st.o, st.w),
         ~Pipelining => StreamOK(st.o, st.w), st.o = 0 => Owed(st.w)
  PROVE  LET t == OnWritable(st, id)
         IN  /\ t \in HandlerState
             /\ t.s.open
             /\ Owes(t.o, t.w)
             /\ ~Pipelining => StreamOK(t.o, t.w)
             /\ t.o = 0 => Owed(t.w)
<1> DEFINE o == st.o
           w == st.w
           t == OnWritable(st, id)
           v == t.w
<1>1. /\ t \in HandlerState /\ t.s.open
      /\ \E k \in 0..(Length - o) : t.o = o + k /\ Sends(v, w, o, k)
  BY OnWritableSends
<1>2. PICK k \in 0..(Length - o) : t.o = o + k /\ Sends(v, w, o, k)
  BY <1>1
<1>3. Length \in Nat \ {0} /\ o \in 0..Length /\ w \in Wire /\ v \in Wire
  BY <1>1, HttpAssumption DEF HandlerState
<1>4. Owes(o, w) /\ (~Pipelining => StreamOK(o, w)) /\ (o = 0 => Owed(w))
  OBVIOUS
<1> HIDE DEF o, w, v, t
<1>5. CASE Owed(w)
  <2>1. Owes(o + k, v) /\ (o + k = 0 => Owed(v))
    BY <1>2, <1>3, <1>4, <1>5, CountGoesOn DEF Owes
  <2>2. ASSUME ~Pipelining
        PROVE  StreamOK(o + k, v)
    <3>1. Streaming(o, w)
      BY <1>3, <1>4, <1>5, <2>2, OwedStreams
    <3>2. w.unread = 0 /\ w.answered + 1 = w.asked /\ o < Length
      BY <3>1 DEF Streaming
    <3>3. w.pos = Place(o) /\ ~w.garbled
      BY <1>4, <2>2 DEF StreamOK
    <3> QED
      BY <1>2, <1>3, <3>2, <3>3, SendsContinue, StreamGoesOn
  <2> QED
    BY <1>1, <1>2, <2>1, <2>2 DEF t, v
<1>6. CASE ~Owed(w)
  <2>1. /\ w.answered \in Nat /\ w.asked \in Nat /\ w.unread \in Nat
        /\ w.pos \in 0..Length - 1
    BY <1>3, HttpAssumption DEF Wire
  <2>2. w.answered + w.unread = w.asked /\ w.pos = 0 /\ o = Length
    BY <1>4, <1>6, <2>1 DEF Owes, Owed
  <2>3. k = 0 /\ o + k = o
    BY <1>3, <2>2
  <2>4. /\ v.unread = w.unread /\ v.asked = w.asked /\ v.pos = w.pos
        /\ v.answered = w.answered /\ (v.garbled => w.garbled)
    BY <1>3, <2>1, <2>2, <2>3, <1>2 DEF Sends
  <2>5. Owes(o + k, v) /\ o + k # 0
    BY <1>3, <1>4, <2>2, <2>3, <2>4 DEF Owes
  <2>6. ~Pipelining => StreamOK(o + k, v)
    BY <1>4, <2>3, <2>4 DEF StreamOK, Waiting, Streaming
  <2> QED
    BY <1>1, <1>2, <2>5, <2>6 DEF t, v
<1> QED
  BY <1>5, <1>6

\* Stopping to poll changes only what is polled for.
LEMMA StopPollingType ==
  ASSUME NEW st \in HandlerState, NEW id \in Conn
  PROVE  LET t == StopPolling(st, id)
         IN  t \in HandlerState /\ t.s.open = st.s.open /\ t.o = st.o /\ t.w = st.w
BY PollChangeType DEF StopPolling

\* A closed connection keeps only the client's streams.
LEMMA ClosedType ==
  ASSUME NEW st \in HandlerState
  PROVE  LET t == Closed(st)
         IN  t \in HandlerState /\ ~t.s.open /\ t.f = NoFilters /\ t.o = 0 /\ t.w = st.w
<1>1. NoSocket \in Socket /\ ~NoSocket.open
  BY ConnectionsAssumption DEF NoSocket, Socket
<1>2. NoFilters \in [Events -> Conn \cup {NULL}]
  BY DEF NoFilters
<1>3. 0 \in 0..Length
  BY HttpAssumption
<1> QED
  BY <1>1, <1>2, <1>3 DEF Closed, ClosedSocket, HandlerState

\* What every handler starts from.
LEMMA StateType ==
  ASSUME TypeOK, NEW id \in Conn
  PROVE  State(id) \in HandlerState
BY DEF TypeOK, LibraryTypeOK, State, HandlerState

-----------------------------------------------------------------------------
(***************************************************************************)
(* The steps of the server.                                                *)
(***************************************************************************)
\* A report that is not the sweep timer's is of an open connection.
LEMMA ReportOfConn ==
  ASSUME HttpInv, NEW r \in ready, r # SweepTimer
  PROVE  r.c \in Conn /\ sock[r.c].open /\ ConnInv(r.c)
BY DEF HttpInv, TypeOK

\* A connection whose handler left it in order, or closed it.
LEMMA BecomesKeeps ==
  ASSUME HttpInv, NEW id \in Conn, NEW st \in HandlerState, Becomes(id, st),
         ready' \in SUBSET ready, UNCHANGED app, crashed' \in BOOLEAN,
         ~Pipelining => ~st.w.garbled, st.w.answered + st.w.unread <= st.w.asked,
         \/ /\ st.s.open
            /\ Owes(st.o, st.w)
            /\ ~Pipelining => StreamOK(st.o, st.w)
            /\ st.o = 0 => \/ Owed(st.w)
                           \/ st.f[WRITABLE] = NULL /\ ~WritableReported(id)
         \/ ~st.s.open /\ st.f = NoFilters /\ \A r \in ready' : r.c # id
  PROVE  HttpInv'
<1>1. /\ sock' = [sock EXCEPT ![id] = st.s]
      /\ filters' = [filters EXCEPT ![id] = st.f]
      /\ lastWriteFailed' = st.failed
      /\ silence' = [silence EXCEPT ![id] = 0]
      /\ offset' = [offset EXCEPT ![id] = st.o]
      /\ wire' = [wire EXCEPT ![id] = st.w]
      /\ handlers' = handlers /\ program' = program
  BY DEF Becomes, LibraryBecomes, app
<1>2. /\ sock \in [Conn -> Socket] /\ filters \in [Conn -> [Events -> Conn \cup {NULL}]]
      /\ offset \in [Conn -> 0..Length] /\ wire \in [Conn -> Wire]
      /\ silence \in [Conn -> 0..IdleSweeps]
  BY DEF HttpInv, TypeOK, LibraryTypeOK
<1>3. /\ st.s \in Socket /\ st.f \in [Events -> Conn \cup {NULL}] /\ st.failed \in BOOLEAN
      /\ st.o \in 0..Length /\ st.w \in Wire /\ 0 \in 0..IdleSweeps
  BY ConnectionsAssumption DEF HandlerState
<1>4. /\ sock'[id] = st.s /\ filters'[id] = st.f /\ offset'[id] = st.o /\ wire'[id] = st.w
      /\ \A c \in Conn \ {id} : /\ sock'[c] = sock[c] /\ filters'[c] = filters[c]
                               /\ offset'[c] = offset[c] /\ wire'[c] = wire[c]
  BY <1>1, <1>2
<1>5. \A r \in ready' : r = SweepTimer \/ r.c \in Conn
  BY DEF HttpInv
<1>6. \A r \in ready' : r = SweepTimer \/ sock'[r.c].open
  <2> SUFFICES ASSUME NEW r \in ready', r # SweepTimer
               PROVE  sock'[r.c].open
    OBVIOUS
  <2>1. r.c \in Conn /\ sock[r.c].open
    BY ReportOfConn
  <2> QED
    BY <1>4, <2>1
<1>7. TypeOK'
  <2>1. LibraryTypeOK'
    BY <1>1, <1>2, <1>3 DEF LibraryTypeOK, HttpInv, TypeOK
  <2> QED
    BY <1>1, <1>2, <1>3, <1>6, <2>1 DEF HttpInv, TypeOK
<1>8. (~Pipelining => AnswersAreWhole') /\ OneAnswerEach'
  BY <1>4 DEF HttpInv, AnswersAreWhole, OneAnswerEach
<1>9. ASSUME NEW c \in Conn
      PROVE  ConnInv(c)'
  <2>1. WritableReported(c)' => WritableReported(c)
    BY DEF WritableReported
  <2>2. CASE c = id
    BY <1>4, <2>1, <2>2 DEF ConnInv, Owes, Owed, StreamOK, Waiting, Streaming
  <2>3. CASE c # id
    <3>1. ConnInv(c)
      BY DEF HttpInv
    <3> QED
      BY <1>4, <2>1, <2>3, <3>1 DEF ConnInv, Owes, Owed, StreamOK, Waiting, Streaming
  <2> QED
    BY <2>2, <2>3
<1>10. \A c \in Conn, e \in Events : filters'[c][e] # NULL => sock'[c].open
  BY <1>4 DEF HttpInv, NoFilters
<1> QED
  BY <1>5, <1>7, <1>8, <1>9, <1>10 DEF HttpInv

\* A step that leaves connections alone; clients of open ones may act, if they leave
\* the stream as it is.
LEMMA InvUnchanged ==
  ASSUME HttpInv, UNCHANGED <<library, offset, wire>>,
         handlers' \in [{"on_end", "on_socket_timeout"} -> {"unset", "on_end", "on_timeout"}],
         program' \in Programs \cup {"none"}, crashed' \in BOOLEAN
  PROVE  HttpInv'
BY DEF HttpInv, TypeOK, LibraryTypeOK, library, AnswersAreWhole, OneAnswerEach, ConnInv,
       Owes, Owed, StreamOK, Waiting, Streaming, WritableReported

LEMMA InitInv == Init => HttpInv
<1> SUFFICES ASSUME Init PROVE HttpInv
  OBVIOUS
<1>1. /\ {Length, SendBuffer, MaxRequests} \subseteq Nat \ {0} /\ IdleSweeps \in Nat \ {0}
  BY HttpAssumption, ConnectionsAssumption
<1>2. LibraryTypeOK
  <2>1. NoSocket \in Socket
    BY <1>1 DEF NoSocket, Socket
  <2>2. NoFilters \in [Events -> Conn \cup {NULL}]
    BY DEF NoFilters
  <2>3. 0 \in 0..IdleSweeps
    BY <1>1
  <2> QED
    BY <2>1, <2>2, <2>3 DEF Init, LibraryInit, LibraryTypeOK
<1>3. Quiet \in Wire
  BY <1>1 DEF Quiet, Wire
<1>4. TypeOK
  <2>1. handlers \in [{"on_end", "on_socket_timeout"} -> {"unset", "on_end", "on_timeout"}]
    BY DEF Init
  <2>2. 0 \in 0..Length
    BY <1>1
  <2>3. ready = {} /\ program = "none" /\ crashed = FALSE
    BY DEF Init, LibraryInit
  <2>4. offset \in [Conn -> 0..Length] /\ wire \in [Conn -> Wire]
    BY <1>3, <2>2 DEF Init
  <2> QED
    BY <1>2, <2>1, <2>3, <2>4 DEF TypeOK
<1> QED
  BY <1>4 DEF Init, LibraryInit, HttpInv, AnswersAreWhole, OneAnswerEach, ConnInv, NoSocket,
              NoFilters, Quiet

LEMMA ProgramStep ==
  ASSUME HttpInv, AhttpRun \/ ExampleMain
  PROVE  HttpInv'
BY InvUnchanged DEF AhttpRun, ExampleMain, Register, HttpInv, TypeOK

LEMMA AcceptStep ==
  ASSUME HttpInv, NEW c \in Conn, AcceptConnection(c)
  PROVE  HttpInv'
<1> DEFINE st0 == [State(c) EXCEPT !.w = Quiet]
           st1 == Accepted(st0, c)
           st2 == Armed(st1)
           st3 == OnOpen(st1)
<1>0. /\ {Length, SendBuffer, MaxRequests} \subseteq Nat \ {0} /\ IdleSweeps \in Nat \ {0}
      /\ NULL \notin Conn /\ 0 \in 0..Length
  BY HttpAssumption, ConnectionsAssumption
<1>1. Quiet \in Wire
  BY <1>0 DEF Quiet, Wire
<1>2. st0 \in HandlerState /\ st0.w = Quiet
  BY <1>1, StateType DEF HttpInv, HandlerState
<1> HIDE DEF st0
<1>3. [open |-> TRUE, bits |-> StartBits({READABLE}), timeout |-> 0] \in Socket
  <2>1. StartBits({READABLE}) \in SUBSET Bits
    BY BitsType
  <2> QED
    BY <1>0, <2>1 DEF Socket
<1>4. /\ KqueueChange(NoFilters, {}, {READABLE}, c) \in [Events -> Conn \cup {NULL}]
      /\ KqueueChange(NoFilters, {}, {READABLE}, c)[WRITABLE] = NULL
  BY KqueueAddFilters DEF NoFilters, Events, READABLE, WRITABLE
<1>5. st1 \in HandlerState /\ st1.s.open /\ st1.w = Quiet /\ st1.f[WRITABLE] = NULL
  BY <1>2, <1>3, <1>4 DEF Accepted, HandlerState
<1> HIDE DEF st1
<1>6. st2 \in HandlerState /\ st2.s.open /\ st2.w = Quiet /\ st2.f[WRITABLE] = NULL
  BY <1>5, ArmedType
<1>7. st3 = [st2 EXCEPT !.o = 0]
  BY DEF OnOpen
<1> HIDE DEF st2, st3
<1>8. st3 \in HandlerState /\ st3.s.open /\ st3.w = Quiet /\ st3.f[WRITABLE] = NULL /\ st3.o = 0
  BY <1>0, <1>6, <1>7 DEF HandlerState
<1>9. ~WritableReported(c)
  <2> SUFFICES ASSUME NEW r \in ready, r.c = c PROVE FALSE
    BY DEF WritableReported
  <2>1. r # SweepTimer
    BY <1>0 DEF SweepTimer
  <2> QED
    BY <2>1, ReportOfConn DEF AcceptConnection
<1>10. /\ Owes(0, Quiet) /\ StreamOK(0, Quiet) /\ ~Quiet.garbled
       /\ Quiet.answered + Quiet.unread <= Quiet.asked
  BY <1>0 DEF Owes, StreamOK, Waiting, Place, Quiet
<1>11. /\ Becomes(c, st3) /\ ready' \in SUBSET ready /\ UNCHANGED app /\ crashed' \in BOOLEAN
  BY DEF AcceptConnection, HttpInv, TypeOK, st3, st1, st0
<1> QED
  BY <1>8, <1>9, <1>10, <1>11, BecomesKeeps

LEMMA KeventStep ==
  ASSUME HttpInv, KqueueWait
  PROVE  HttpInv'
<1> DEFINE fin == {c \in Conn : wire[c].fin}
           reports == Reports({c \in Conn : wire[c].unread > 0},
                              {c \in Conn : wire[c].buffered < SendBuffer}, fin)
<1>1. /\ ready = {} /\ ready' \subseteq reports \cup {SweepTimer}
      /\ UNCHANGED <<sock, filters, lastWriteFailed, silence, handlers, program, offset, wire, crashed>>
  BY DEF KqueueWait, Kevent, app
<1>2. \A r \in reports : /\ r \in [c : Conn, e : Events, eof : BOOLEAN]
                        /\ r.c \in Conn /\ r.e \in Events /\ filters[r.c][r.e] # NULL
  BY DEF Reports
<1> HIDE DEF reports
<1>3. \A r \in reports : r \in Report /\ r.c \in Conn /\ sock[r.c].open
  BY <1>2 DEF HttpInv, Report
<1>4. SweepTimer \in Report
  BY DEF SweepTimer, Report, Events
<1>5. /\ ready' \subseteq Report
      /\ \A r \in ready' : r = SweepTimer \/ (r.c \in Conn /\ sock[r.c].open)
  BY <1>1, <1>3, <1>4
<1>6. TypeOK'
  <2>1. LibraryTypeOK'
    BY <1>1, <1>5 DEF HttpInv, TypeOK, LibraryTypeOK
  <2> QED
    BY <1>1, <1>5, <2>1 DEF HttpInv, TypeOK
<1>7. (~Pipelining => AnswersAreWhole') /\ OneAnswerEach'
  BY <1>1 DEF HttpInv, AnswersAreWhole, OneAnswerEach
<1>8. ASSUME NEW c \in Conn
      PROVE  ConnInv(c)'
  <2>1. ConnInv(c)
    BY DEF HttpInv
  <2>2. WritableReported(c)' => filters[c][WRITABLE] # NULL
    <3> SUFFICES ASSUME NEW r \in ready', r.c = c, r.e = WRITABLE
                 PROVE  filters[c][WRITABLE] # NULL
      BY DEF WritableReported
    <3>1. r # SweepTimer
      BY DEF SweepTimer, READABLE, WRITABLE
    <3> QED
      BY <1>1, <1>2, <3>1
  <2> QED
    BY <1>1, <2>1, <2>2 DEF ConnInv, Owes, Owed, StreamOK, Waiting, Streaming
<1> QED
  BY <1>1, <1>5, <1>6, <1>7, <1>8 DEF HttpInv

LEMMA SkipStep ==
  ASSUME HttpInv, NEW r \in ready, SkipReport(r)
  PROVE  HttpInv'
<1>1. /\ ready' \in SUBSET ready
      /\ UNCHANGED <<sock, filters, lastWriteFailed, silence, handlers, program, offset, wire, crashed>>
  BY DEF SkipReport, Skip, app
<1> QED
  BY <1>1 DEF HttpInv, TypeOK, LibraryTypeOK, AnswersAreWhole, OneAnswerEach, ConnInv, Owes, Owed,
              StreamOK, Waiting, Streaming, WritableReported

\* Closing a connection, whatever its handler did before, if not to the streams.
LEMMA CloseStep ==
  ASSUME HttpInv, NEW id \in Conn, NEW st \in HandlerState, st.w = wire[id],
         Becomes(id, Closed(st)), ready' = ReportsWithout({id}),
         UNCHANGED app, crashed' \in BOOLEAN
  PROVE  HttpInv'
<1> DEFINE t == Closed(st)
<1>1. t \in HandlerState /\ ~t.s.open /\ t.f = NoFilters /\ t.w = wire[id]
  BY ClosedType
<1> HIDE DEF t
<1>2. (~Pipelining => ~wire[id].garbled) /\ wire[id].answered + wire[id].unread <= wire[id].asked
  BY DEF HttpInv, AnswersAreWhole, OneAnswerEach
<1>3. ready' \in SUBSET ready /\ \A r \in ready' : r.c # id
  BY DEF ReportsWithout
<1>4. Becomes(id, t)
  BY DEF t
<1> QED
  BY <1>1, <1>2, <1>3, <1>4, BecomesKeeps

LEMMA EofStep ==
  ASSUME HttpInv, NEW r \in ready, DispatchEof(r)
  PROVE  HttpInv'
<1>1. r # SweepTimer
  BY DEF DispatchEof, SweepTimer
<1>2. r.c \in Conn
  BY <1>1, ReportOfConn
<1>3. State(r.c) \in HandlerState /\ State(r.c).w = wire[r.c]
  BY <1>2, StateType DEF HttpInv, State
<1>4. /\ Becomes(r.c, Closed(State(r.c))) /\ ready' = ReportsWithout({r.c})
      /\ UNCHANGED app /\ crashed' \in BOOLEAN
  BY DEF DispatchEof, HttpInv, TypeOK
<1> QED
  BY <1>2, <1>3, <1>4, CloseStep

LEMMA ReadableStep ==
  ASSUME HttpInv, NEW r \in ready, DispatchReadable(r)
  PROVE  HttpInv'
<1> DEFINE id == r.c
           st0 == State(id)
<1>1. r # SweepTimer
  BY ConnectionsAssumption DEF DispatchReadable, SweepTimer
<1>2. id \in Conn /\ sock[id].open /\ ConnInv(id)
  BY <1>1, ReportOfConn
<1>3. /\ st0 \in HandlerState /\ st0.w = wire[id] /\ st0.s = sock[id] /\ st0.o = offset[id]
  BY <1>2, StateType DEF HttpInv, State
<1>4. UNCHANGED app
  BY DEF DispatchReadable
<1>5. CASE wire[id].unread > 0
  <2> DEFINE st1 == [st0 EXCEPT !.w.unread = 0]
             t == OnData(st1, id)
  <2>1. /\ Owes(offset[id], wire[id]) /\ (~Pipelining => StreamOK(offset[id], wire[id]))
        /\ wire[id] \in Wire /\ MaxRequests \in Nat
    BY <1>2, HttpAssumption DEF ConnInv, HttpInv, TypeOK
  <2>2. /\ wire[id].answered < wire[id].asked
        /\ wire[id].answered + 1 = wire[id].asked => wire[id].pos = 0
    BY <1>5, <2>1 DEF Owes, Wire
  <2>9. ASSUME ~Pipelining
        PROVE  wire[id].answered + 1 = wire[id].asked /\ wire[id].pos = 0 /\ ~wire[id].garbled
    <3>1. wire[id].unread = 1
      BY <1>5, <2>1, <2>9 DEF StreamOK, Wire
    <3> QED
      BY <2>1, <2>9, <3>1 DEF StreamOK, Waiting, Streaming, Place
  <2>3. /\ st1 \in HandlerState /\ st1.s.open /\ st1.w.unread = 0
        /\ st1.w.answered = wire[id].answered /\ st1.w.asked = wire[id].asked
        /\ st1.w.pos = wire[id].pos
    <3> DEFINE v == [wire[id] EXCEPT !.unread = 0]
    <3>1. 0 \in 0..MaxRequests
      BY HttpAssumption
    <3>2. /\ v \in Wire /\ v.unread = 0 /\ v.answered = wire[id].answered
          /\ v.asked = wire[id].asked /\ v.pos = wire[id].pos
      BY <2>1, <3>1 DEF Wire
    <3>3. st1 = [st0 EXCEPT !.w = v]
      BY <1>3
    <3> HIDE DEF v, st1, st0
    <3> QED
      BY <1>2, <1>3, <3>2, <3>3 DEF HandlerState
  <2>4. st1.w.garbled = wire[id].garbled
    BY <1>3, <2>1 DEF HandlerState, Wire
  <2> HIDE DEF st1
  <2>10. /\ Owed(st1.w)
         /\ st1.w.answered + st1.w.unread + 1 = st1.w.asked => st1.w.pos = 0
         /\ ~Pipelining => /\ st1.w.unread = 0 /\ st1.w.answered + 1 = st1.w.asked
                           /\ st1.w.pos = 0 /\ ~st1.w.garbled
    <3>1. wire[id].answered \in Nat /\ wire[id].asked \in Nat
      BY <2>1 DEF Wire
    <3> QED
      BY <2>2, <2>3, <2>4, <2>9, <3>1 DEF Owed
  <2>5. /\ t \in HandlerState /\ t.s.open /\ Owes(t.o, t.w)
        /\ ~Pipelining => StreamOK(t.o, t.w)
        /\ t.o = 0 => Owed(t.w)
    BY <1>2, <2>3, <2>10, OnDataAnswers
  <2>6. Becomes(id, t) /\ ready' \in SUBSET ready /\ crashed' \in BOOLEAN
    BY <1>5 DEF DispatchReadable, ParseDies, st1
  <2> HIDE DEF t
  <2>7. (~Pipelining => ~t.w.garbled) /\ t.w.answered + t.w.unread <= t.w.asked
    BY <2>5 DEF StreamOK, Owes
  <2> QED
    BY <1>2, <1>4, <2>5, <2>6, <2>7, BecomesKeeps
<1>6. CASE ~(wire[id].unread > 0)
  <2> DEFINE st1 == StopReading(st0, id)
  <2>1. st1 \in HandlerState /\ st1.w = wire[id]
    BY <1>2, <1>3, PollChangeType DEF StopReading
  <2>2. /\ Becomes(id, Closed(st1)) /\ ready' = ReportsWithout({id}) /\ crashed' \in BOOLEAN
    BY <1>6 DEF DispatchReadable, HttpInv, TypeOK
  <2> HIDE DEF st1
  <2> QED
    BY <1>2, <1>4, <2>1, <2>2, CloseStep
<1> QED
  BY <1>5, <1>6

LEMMA WritableStep ==
  ASSUME HttpInv, NEW r \in ready, DispatchWritable(r)
  PROVE  HttpInv'
<1> DEFINE id == r.c
           st0 == State(id)
           st1 == [st0 EXCEPT !.failed = FALSE]
           st2 == OnWritable(st1, id)
           t == StopPolling(st2, id)
<1>1. r # SweepTimer
  BY DEF DispatchWritable, SweepTimer, READABLE, WRITABLE
<1>2. id \in Conn /\ sock[id].open /\ ConnInv(id) /\ WritableReported(id)
  BY <1>1, ReportOfConn DEF DispatchWritable, WritableReported
<1>3. /\ st0 \in HandlerState /\ st0.w = wire[id] /\ st0.s = sock[id] /\ st0.o = offset[id]
  BY <1>2, StateType DEF HttpInv, State
<1> HIDE DEF st0
<1>4. st1 \in HandlerState /\ st1.w = wire[id] /\ st1.s = sock[id] /\ st1.o = offset[id]
  BY <1>3 DEF HandlerState
<1> HIDE DEF st1
<1>5. /\ Owes(st1.o, st1.w)
      /\ ~Pipelining => StreamOK(st1.o, st1.w)
      /\ st1.o = 0 => Owed(st1.w)
  BY <1>2, <1>4 DEF ConnInv
<1>6. /\ st2 \in HandlerState /\ st2.s.open
      /\ Owes(st2.o, st2.w)
      /\ ~Pipelining => StreamOK(st2.o, st2.w)
      /\ st2.o = 0 => Owed(st2.w)
  BY <1>2, <1>4, <1>5, OnWritableGoesOn
<1> HIDE DEF st2
<1>7. t \in HandlerState /\ t.s.open /\ t.o = st2.o /\ t.w = st2.w
  BY <1>2, <1>6, StopPollingType
<1>8. /\ Becomes(id, t) /\ ready' \in SUBSET ready /\ UNCHANGED app /\ crashed' \in BOOLEAN
  BY DEF DispatchWritable, HttpInv, TypeOK, st2, st1, st0
<1> HIDE DEF t
<1>9. (~Pipelining => ~t.w.garbled) /\ t.w.answered + t.w.unread <= t.w.asked
  BY <1>6, <1>7 DEF StreamOK, Owes
<1> QED
  BY <1>2, <1>6, <1>7, <1>8, <1>9, BecomesKeeps

\* The sweep closes connections or leaves their streams alone.
LEMMA SweepStep ==
  ASSUME HttpInv, Sweep
  PROVE  HttpInv'
<1>1. PICK closing \in SUBSET Conn :
        /\ SweepSockets(closing)
        /\ offset' = [c \in Conn |-> IF c \in closing THEN 0 ELSE offset[c]]
        /\ UNCHANGED <<wire, handlers, program>> /\ crashed' \in BOOLEAN
  <2>1. CASE handlers.on_socket_timeout = "unset"
    <3>1. offset = [c \in Conn |-> offset[c]]
      BY DEF HttpInv, TypeOK
    <3>2. offset' = [c \in Conn |-> IF c \in {} THEN 0 ELSE offset[c]]
      BY <2>1, <3>1 DEF Sweep
    <3> QED
      BY <2>1, <3>2 DEF Sweep, app, HttpInv, TypeOK
  <2>2. CASE handlers.on_socket_timeout # "unset"
    BY <2>2 DEF Sweep, app, Expiring, HttpInv, TypeOK
  <2> QED
    BY <2>1, <2>2
<1>2. /\ ready' \in SUBSET ready
      /\ \A r \in ready' : r \in ready /\ r # SweepTimer /\ r.c \notin closing
      /\ lastWriteFailed' = lastWriteFailed
  BY <1>1 DEF SweepSockets, ReportsWithout, SweepTimer
<1>3. /\ sock \in [Conn -> Socket] /\ filters \in [Conn -> [Events -> Conn \cup {NULL}]]
      /\ offset \in [Conn -> 0..Length] /\ silence \in [Conn -> 0..IdleSweeps]
      /\ IdleSweeps \in Nat \ {0} /\ 0 \in 0..Length
  BY ConnectionsAssumption, HttpAssumption DEF HttpInv, TypeOK, LibraryTypeOK
<1>4. \A c \in Conn \ closing :
        /\ sock'[c] \in Socket /\ sock'[c].open = sock[c].open
        /\ filters'[c] = filters[c] /\ offset'[c] = offset[c]
  <2> SUFFICES ASSUME NEW c \in Conn \ closing
               PROVE  /\ sock'[c] \in Socket /\ sock'[c].open = sock[c].open
                      /\ filters'[c] = filters[c] /\ offset'[c] = offset[c]
    OBVIOUS
  <2> DEFINE n == IF sock[c].timeout > 0 THEN sock[c].timeout - 1 ELSE 0
  <2>1. sock[c] \in Socket /\ n \in 0..IdleSweeps
    BY <1>3 DEF Socket
  <2>2. sock'[c] = [sock[c] EXCEPT !.timeout = n]
    BY <1>1 DEF SweepSockets
  <2> HIDE DEF n
  <2> QED
    BY <1>1, <2>1, <2>2 DEF SweepSockets, Socket
<1>5. \A c \in closing : /\ sock'[c] \in Socket /\ ~sock'[c].open
                        /\ filters'[c] = NoFilters /\ offset'[c] = 0
  <2>1. NoSocket \in Socket /\ ~NoSocket.open
    BY <1>3 DEF NoSocket, Socket
  <2> QED
    BY <1>1, <2>1 DEF SweepSockets
<1>6. \A r \in ready' : r.c \in Conn /\ sock'[r.c].open
  BY <1>2, <1>4, ReportOfConn
<1>7. TypeOK'
  <2>1. NoFilters \in [Events -> Conn \cup {NULL}]
    BY DEF NoFilters
  <2>2. sock' \in [Conn -> Socket]
    <3>1. \A c \in Conn : sock'[c] \in Socket
      BY <1>4, <1>5
    <3>2. sock' = [c \in Conn |-> sock'[c]]
      BY <1>1 DEF SweepSockets
    <3> QED
      BY <3>1, <3>2
  <2>3. filters' \in [Conn -> [Events -> Conn \cup {NULL}]]
    BY <1>1, <1>3, <2>1 DEF SweepSockets
  <2>4. silence' \in [Conn -> 0..IdleSweeps]
    BY <1>1, <1>3 DEF SweepSockets
  <2>5. offset' \in [Conn -> 0..Length]
    BY <1>1, <1>3
  <2>6. LibraryTypeOK'
    BY <1>2, <2>2, <2>3, <2>4 DEF LibraryTypeOK, HttpInv, TypeOK
  <2> QED
    BY <1>1, <1>6, <2>5, <2>6 DEF HttpInv, TypeOK
<1>8. (~Pipelining => AnswersAreWhole') /\ OneAnswerEach'
  BY <1>1 DEF HttpInv, AnswersAreWhole, OneAnswerEach
<1>9. ASSUME NEW c \in Conn
      PROVE  ConnInv(c)'
  <2>1. CASE c \in closing
    BY <1>5, <2>1 DEF ConnInv
  <2>2. CASE c \notin closing
    <3>1. ConnInv(c) /\ (WritableReported(c)' => WritableReported(c))
      BY <1>2 DEF HttpInv, WritableReported
    <3> QED
      BY <1>1, <1>4, <2>2, <3>1 DEF ConnInv, Owes, Owed, StreamOK, Waiting, Streaming
  <2> QED
    BY <2>1, <2>2
<1>10. \A c \in Conn, e \in Events : filters'[c][e] # NULL => sock'[c].open
  BY <1>4, <1>5 DEF HttpInv, NoFilters
<1> QED
  BY <1>6, <1>7, <1>8, <1>9, <1>10 DEF HttpInv

-----------------------------------------------------------------------------
(***************************************************************************)
(* The steps of the clients.                                               *)
(***************************************************************************)
\* A client's step that leaves its streams in order.
LEMMA ClientKeeps ==
  ASSUME HttpInv, NEW id \in Conn, NEW w \in Wire, wire' = [wire EXCEPT ![id] = w],
         UNCHANGED <<library, app, offset, crashed>>,
         ~Pipelining => ~w.garbled, w.answered + w.unread <= w.asked,
         Owes(offset[id], wire[id]) => Owes(offset[id], w),
         Owed(wire[id]) => Owed(w),
         ~Pipelining /\ sock[id].open /\ StreamOK(offset[id], wire[id]) => StreamOK(offset[id], w)
  PROVE  HttpInv'
<1>1. /\ wire \in [Conn -> Wire] /\ wire' \in [Conn -> Wire]
      /\ wire'[id] = w /\ \A c \in Conn \ {id} : wire'[c] = wire[c]
  BY DEF HttpInv, TypeOK
<1>2. UNCHANGED <<sock, filters, ready, lastWriteFailed, silence, handlers, program, offset, crashed>>
  BY DEF library, app
<1>3. TypeOK'
  BY <1>1, <1>2 DEF HttpInv, TypeOK, LibraryTypeOK
<1>4. (~Pipelining => AnswersAreWhole') /\ OneAnswerEach'
  BY <1>1 DEF HttpInv, AnswersAreWhole, OneAnswerEach
<1>5. ASSUME NEW c \in Conn
      PROVE  ConnInv(c)'
  <2>1. ConnInv(c) /\ (WritableReported(c)' <=> WritableReported(c))
    BY <1>2 DEF HttpInv, WritableReported
  <2>2. CASE c = id
    <3>1. /\ (StreamOK(offset[c], wire[c]))' <=> StreamOK(offset[c], w)
          /\ (Owes(offset[c], wire[c]))' <=> Owes(offset[c], w)
          /\ (Owed(wire[c]))' <=> Owed(w)
      BY <1>1, <1>2, <2>2 DEF Owes, Owed, StreamOK, Waiting, Streaming
    <3> QED
      BY <1>1, <1>2, <2>1, <2>2, <3>1 DEF ConnInv
  <2>3. CASE c # id
    BY <1>1, <1>2, <2>1, <2>3 DEF ConnInv, Owes, Owed, StreamOK, Waiting, Streaming
  <2> QED
    BY <2>2, <2>3
<1> QED
  BY <1>2, <1>3, <1>4, <1>5 DEF HttpInv

LEMMA RequestStep ==
  ASSUME HttpInv, NEW c \in Conn, Request(c)
  PROVE  HttpInv'
<1> DEFINE w == wire[c]
           o == offset[c]
           v == [w EXCEPT !.unread = w.unread + 1, !.asked = w.asked + 1]
<1>1. w \in Wire /\ MaxRequests \in Nat
  BY HttpAssumption DEF HttpInv, TypeOK
<1>2. /\ sock[c].open /\ w.asked < MaxRequests
      /\ Pipelining \/ w.answered = w.asked
      /\ wire' = [wire EXCEPT ![c] = v]
      /\ UNCHANGED <<library, app, offset, crashed>>
  BY DEF Request
<1>3. /\ Owes(o, w) /\ (~Pipelining => StreamOK(o, w) /\ ~w.garbled)
  BY <1>2 DEF HttpInv, ConnInv, AnswersAreWhole
<1> HIDE DEF w, o
<1>4. w.answered \in Nat /\ w.asked \in Nat /\ w.unread \in Nat /\ w.unread <= w.asked
  BY <1>1, <1>3 DEF Wire, Owes
<1>5. /\ v \in Wire /\ v.unread = w.unread + 1 /\ v.asked = w.asked + 1
      /\ v.answered = w.answered /\ v.pos = w.pos
  <2>1. w.unread + 1 \in 0..MaxRequests /\ w.asked + 1 \in 0..MaxRequests
    BY <1>1, <1>2, <1>4
  <2>2. v \in Wire
    BY <1>1, <2>1 DEF Wire
  <2> QED
    BY <1>1, <2>1, <2>2 DEF Wire
<1>6. v.garbled = w.garbled
  BY <1>1 DEF Wire
<1> HIDE DEF v
<1>7. Owes(o, v) /\ (Owed(w) => Owed(v)) /\ v.answered + v.unread <= v.asked
  BY <1>3, <1>4, <1>5 DEF Owes, Owed
<1>8. ASSUME ~Pipelining
      PROVE  StreamOK(o, v) /\ ~v.garbled
  <2>1. w.unread = 0 /\ ~Streaming(o, w) /\ Waiting(o, w)
    BY <1>2, <1>3, <1>4, <1>8 DEF StreamOK, Waiting, Streaming
  <2> QED
    BY <1>2, <1>3, <1>4, <1>5, <1>6, <1>8, <2>1 DEF StreamOK, Waiting
<1> QED
  BY <1>2, <1>5, <1>7, <1>8, ClientKeeps DEF w, o

LEMMA ReadsStep ==
  ASSUME HttpInv, NEW c \in Conn, ClientReads(c)
  PROVE  HttpInv'
<1> DEFINE w == wire[c]
<1>1. w \in Wire /\ SendBuffer \in Nat
  BY HttpAssumption DEF HttpInv, TypeOK
<1>2. PICK n \in 1..w.buffered : wire' = [wire EXCEPT ![c].buffered = @ - n]
  BY DEF ClientReads
<1> DEFINE v == [w EXCEPT !.buffered = w.buffered - n]
<1>3. wire' = [wire EXCEPT ![c] = v] /\ UNCHANGED <<library, app, offset, crashed>>
  BY <1>2 DEF ClientReads
<1>4. (~Pipelining => ~w.garbled) /\ w.answered + w.unread <= w.asked
  BY DEF HttpInv, AnswersAreWhole, OneAnswerEach
<1> HIDE DEF w
<1>5. /\ v \in Wire /\ v.unread = w.unread /\ v.asked = w.asked
      /\ v.answered = w.answered /\ v.pos = w.pos
  BY <1>1 DEF Wire
<1>6. v.garbled = w.garbled
  BY <1>1 DEF Wire
<1> HIDE DEF v
<1>7. /\ Owes(offset[c], w) => Owes(offset[c], v)
      /\ Owed(w) => Owed(v)
      /\ ~Pipelining /\ StreamOK(offset[c], w) => StreamOK(offset[c], v)
  BY <1>4, <1>5, <1>6 DEF Owes, Owed, StreamOK, Waiting, Streaming
<1> QED
  BY <1>3, <1>4, <1>5, <1>6, <1>7, ClientKeeps DEF w

LEMMA EndsStep ==
  ASSUME HttpInv, NEW c \in Conn, ClientEnds(c)
  PROVE  HttpInv'
<1> DEFINE w == wire[c]
           v == [w EXCEPT !.fin = TRUE]
<1>1. w \in Wire
  BY DEF HttpInv, TypeOK
<1>2. wire' = [wire EXCEPT ![c] = v] /\ UNCHANGED <<library, app, offset, crashed>>
  BY DEF ClientEnds
<1>3. (~Pipelining => ~w.garbled) /\ w.answered + w.unread <= w.asked
  BY DEF HttpInv, AnswersAreWhole, OneAnswerEach
<1> HIDE DEF w
<1>4. /\ v \in Wire /\ v.unread = w.unread /\ v.asked = w.asked
      /\ v.answered = w.answered /\ v.pos = w.pos
  BY <1>1 DEF Wire
<1>5. v.garbled = w.garbled
  BY <1>1 DEF Wire
<1> HIDE DEF v
<1>6. /\ Owes(offset[c], w) => Owes(offset[c], v)
      /\ Owed(w) => Owed(v)
      /\ ~Pipelining /\ StreamOK(offset[c], w) => StreamOK(offset[c], v)
  BY <1>3, <1>4, <1>5 DEF Owes, Owed, StreamOK, Waiting, Streaming
<1> QED
  BY <1>2, <1>3, <1>4, <1>5, <1>6, ClientKeeps DEF w

-----------------------------------------------------------------------------
LEMMA NextInv == HttpInv /\ [Next]_vars => HttpInv'
<1> SUFFICES ASSUME HttpInv, [Next]_vars PROVE HttpInv'
  OBVIOUS
<1>1. CASE AhttpRun \/ ExampleMain
  BY <1>1, ProgramStep
<1>2. CASE KqueueWait
  BY <1>2, KeventStep
<1>3. ASSUME NEW r \in ready,
             SkipReport(r) \/ DispatchEof(r) \/ DispatchReadable(r) \/ DispatchWritable(r)
      PROVE  HttpInv'
  BY <1>3, SkipStep, EofStep, ReadableStep, WritableStep
<1>4. CASE Sweep
  BY <1>4, SweepStep
<1>5. ASSUME NEW c \in Conn, AcceptConnection(c) \/ Request(c) \/ ClientReads(c) \/ ClientEnds(c)
      PROVE  HttpInv'
  BY <1>5, AcceptStep, RequestStep, ReadsStep, EndsStep
<1>6. CASE UNCHANGED vars
  BY <1>6, InvUnchanged DEF vars, HttpInv, TypeOK
<1> QED
  BY <1>1, <1>2, <1>3, <1>4, <1>5, <1>6 DEF Next, Dispatch

\* The inductive invariant of the server, for any clients.
THEOREM HttpInvariance == Spec => []HttpInv
<1>1. Init => HttpInv
  BY InitInv
<1>2. HttpInv /\ [Next]_vars => HttpInv'
  BY NextInv
<1> QED
  BY <1>1, <1>2, PTL DEF Spec

\* Types of the server's state; a write starts inside its response, and no report
\* that waits is of a connection that was closed, by its handler or by a sweep.
THEOREM HttpTypes == Spec => []TypeOK
<1>1. HttpInv => TypeOK
  BY DEF HttpInv
<1> QED
  BY <1>1, HttpInvariance, PTL

\* Whatever the size of responses and send buffers, clients that wait for their
\* answers read whole ones: every on_writable goes on where the last write stopped.
THEOREM WholeAnswers == ASSUME ~Pipelining PROVE Spec => []AnswersAreWhole
<1>1. HttpInv => AnswersAreWhole
  BY DEF HttpInv
<1> QED
  BY <1>1, HttpInvariance, PTL

\* Whatever clients send and when: no request is answered twice, and none before it is
\* read, even where requests in a row start responses over in the middle.
THEOREM AnswerCounting == Spec => []OneAnswerEach
<1>1. HttpInv => OneAnswerEach
  BY DEF HttpInv
<1> QED
  BY <1>1, HttpInvariance, PTL
-----------------------------------------------------------------------------
(***************************************************************************)
(* What is left of a response is continued: a connection whose answer is   *)
(* not out polls for writable, and one that polls for both has the filter. *)
(***************************************************************************)
Unfinished(w) == w.answered < w.asked /\ w.unread = 0

Polled(s, f, w) ==
  /\ s.bits = Bits => f[WRITABLE] # NULL
  /\ Unfinished(w) => s.bits = Bits

PolledInv == \A c \in Conn : sock[c].open => Polled(sock[c], filters[c], wire[c])

\* A socket that hears readable and is made to poll for both does.
LEMMA PollsBoth ==
  ASSUME NEW st \in HandlerState, NEW id \in Conn, "IN" \in st.s.bits,
         st.s.bits = Bits => st.f[WRITABLE] # NULL
  PROVE  LET t == PollChange(st, id, {READABLE, WRITABLE})
         IN  t.s.bits = Bits /\ t.f[WRITABLE] # NULL
<1>1. PICK both : both = {READABLE, WRITABLE}
  OBVIOUS
<1>2. PICK bits \in SUBSET Bits : bits = st.s.bits
  BY DEF HandlerState, Socket
<1>3. "IN" \in bits
  BY <1>2
<1>4. /\ ChangeBits(both) = Bits
      /\ PollEvents(bits) = both => bits = Bits
      /\ PollEvents(bits) # both
           => KqueueChange(st.f, PollEvents(bits), both, id)[WRITABLE] = id
  BY <1>1, <1>3, AddsWritable
<1> DEFINE f == KqueueChange(st.f, PollEvents(bits), both, id)
           changed == [st EXCEPT !.s.bits = ChangeBits(both), !.f = f]
<1>5. PollChange(st, id, {READABLE, WRITABLE}) = IF PollEvents(bits) = both THEN st ELSE changed
  BY <1>1, <1>2 DEF PollChange
<1>6. id # NULL
  BY ConnectionsAssumption
<1>7. PollEvents(bits) # both => f[WRITABLE] = id
  BY <1>4
<1> HIDE DEF f
<1>8. changed.s.bits = ChangeBits(both) /\ changed.f = f
  BY DEF HandlerState, Socket
<1> HIDE DEF changed
<1> QED
  BY <1>2, <1>4, <1>5, <1>6, <1>7, <1>8

\* A write sends all there is or leaves the socket polling for both.
LEMMA WritePolls ==
  ASSUME NEW st \in HandlerState, NEW id \in Conn, NEW from \in 0..Length,
         st.s.bits = Bits => st.f[WRITABLE] # NULL,
         from < Length => "IN" \in st.s.bits
  PROVE  LET t == Write(st, id, from)
         IN  IF Written(st, from) = Length - from
               THEN t.s = st.s /\ t.f = st.f /\ t.failed = st.failed
               ELSE t.s.bits = Bits /\ t.f[WRITABLE] # NULL /\ t.failed
<1> DEFINE k == Sent(st, Length - from)
           u == Send(st, from, Length - from)
           cut == [u EXCEPT !.failed = TRUE]
           t == PollChange(cut, id, {READABLE, WRITABLE})
<1>1. OnlyStreams(u, st)
  BY SendSends
<1>2. Write(st, id, from) = (IF k = Length - from THEN u ELSE t) /\ Written(st, from) = k
  BY DEF Write, WriteFailed, Written
<1>3. Length \in Nat /\ k \in 0..(Length - from)
  BY HttpAssumption, SentBounds, Length - from \in Nat
<1> HIDE DEF u, k
<1>4. cut \in HandlerState /\ cut.s = st.s /\ cut.f = st.f /\ cut.failed
  BY <1>1 DEF OnlyStreams, HandlerState
<1> HIDE DEF cut
<1>5. k # Length - from => t.s.bits = Bits /\ t.f[WRITABLE] # NULL
  <2> SUFFICES ASSUME k # Length - from
               PROVE  t.s.bits = Bits /\ t.f[WRITABLE] # NULL
    OBVIOUS
  <2>1. from < Length
    BY <1>3
  <2>2. "IN" \in cut.s.bits /\ (cut.s.bits = Bits => cut.f[WRITABLE] # NULL)
    BY <1>4, <2>1
  <2> HIDE DEF t
  <2> QED
    BY <1>4, <2>2, PollsBoth DEF t
<1>6. t.failed
  <2>1. t.failed = cut.failed
    BY <1>4, PollChangeType
  <2> QED
    BY <1>4, <2>1
<1> HIDE DEF t
<1> QED
  BY <1>1, <1>2, <1>5, <1>6 DEF OnlyStreams

\* A request is answered to its end, or the rest is polled for.
LEMMA OnDataPolls ==
  ASSUME NEW st \in HandlerState, NEW id \in Conn,
         st.w.unread = 0, st.w.answered + 1 = st.w.asked, st.w.pos = 0, ~st.w.garbled,
         st.s.bits = Bits => st.f[WRITABLE] # NULL, "IN" \in st.s.bits
  PROVE  LET t == OnData(st, id) IN Polled(t.s, t.f, t.w)
<1> DEFINE k == Written(st, 0)
           u == Write(st, id, 0)
           a == Armed(u)
<1>1. Length \in Nat \ {0} /\ 0 \in 0..Length /\ 0 < Length /\ Place(0) = 0
      /\ Length - 0 = Length
  BY HttpAssumption DEF Place
<1>2. u \in HandlerState /\ Continues(u.w, st.w, 0, k)
  BY <1>1, WriteContinues
<1>3. IF k = Length THEN u.s = st.s /\ u.f = st.f
                    ELSE u.s.bits = Bits /\ u.f[WRITABLE] # NULL
  BY <1>1, WritePolls
<1>4. k \in 0..Length
  BY <1>1, SentBounds DEF Written
<1> HIDE DEF k, u
<1>5. a \in HandlerState /\ a.f = u.f /\ a.w = u.w /\ a.s.bits = u.s.bits
  <2>1. a \in HandlerState /\ a.f = u.f /\ a.w = u.w
    BY <1>2, ArmedType
  <2> QED
    BY <1>2, <2>1 DEF Armed, HandlerState, Socket
<1> HIDE DEF a
<1>6. OnData(st, id) = [a EXCEPT !.o = k]
  BY DEF OnData, a, u, k
<1>7. OnData(st, id).s = a.s /\ OnData(st, id).f = a.f /\ OnData(st, id).w = a.w
  BY <1>5, <1>6 DEF HandlerState
<1>8. k = Length => ~Unfinished(u.w)
  <2>1. st.w.answered \in Nat /\ st.w.asked \in Nat
    BY HttpAssumption DEF HandlerState, Wire
  <2> QED
    BY <1>1, <1>2, <2>1 DEF Continues, Unfinished
<1> QED
  BY <1>3, <1>5, <1>7, <1>8 DEF Polled

\* on_writable goes on with it, or has nothing more to send.
LEMMA OnWritablePolls ==
  ASSUME NEW st \in HandlerState, NEW id \in Conn, StreamOK(st.o, st.w),
         st.o = 0 => Streaming(st.o, st.w), Polled(st.s, st.f, st.w), ~st.failed
  PROVE  LET t == OnWritable(st, id)
         IN  Polled(t.s, t.f, t.w) /\ (~t.failed => ~Unfinished(t.w))
<1> DEFINE o == st.o
           k == Written(st, o)
           u == Write(st, id, o)
<1>1. /\ Length \in Nat \ {0} /\ o \in 0..Length /\ Length - o \in Nat
      /\ st.w \in Wire /\ st.w.pos = Place(o) /\ ~st.w.garbled
  BY HttpAssumption DEF HandlerState, StreamOK
<1>2. (Waiting(o, st.w) /\ o # 0) \/ Streaming(o, st.w)
  BY DEF StreamOK
<1>3. o < Length => Unfinished(st.w)
  <2>1. o < Length => Streaming(o, st.w)
    BY <1>1, <1>2 DEF Waiting
  <2>2. st.w.answered \in Nat /\ st.w.asked \in Nat
    BY <1>1 DEF Wire
  <2> QED
    BY <2>1, <2>2 DEF Streaming, Unfinished
<1>4. o < Length => "IN" \in st.s.bits
  BY <1>3 DEF Polled, Bits
<1>5. st.s.bits = Bits => st.f[WRITABLE] # NULL
  BY DEF Polled
<1>6. u \in HandlerState /\ Continues(u.w, st.w, o, k)
  BY <1>1, WriteContinues
<1>7. IF k = Length - o THEN u.s = st.s /\ u.f = st.f /\ u.failed = st.failed
                        ELSE u.s.bits = Bits /\ u.f[WRITABLE] # NULL /\ u.failed
  BY <1>1, <1>4, <1>5, WritePolls
<1>8. OnWritable(st, id) = [u EXCEPT !.o = u.o + k]
  BY DEF OnWritable
<1>9. k \in 0..(Length - o)
  BY <1>1, SentBounds DEF Written
<1> HIDE DEF k, u, o
<1>10. /\ OnWritable(st, id).s = u.s /\ OnWritable(st, id).f = u.f
       /\ OnWritable(st, id).w = u.w /\ OnWritable(st, id).failed = u.failed
  BY <1>6, <1>8 DEF HandlerState
<1>11. k = Length - o => ~Unfinished(u.w)
  <2> SUFFICES ASSUME k = Length - o PROVE ~Unfinished(u.w)
    OBVIOUS
  <2>1. st.w.answered \in Nat /\ st.w.asked \in Nat /\ st.w.unread \in Nat
    BY <1>1, HttpAssumption DEF Wire
  <2>2. /\ u.w.unread = st.w.unread /\ u.w.asked = st.w.asked
        /\ u.w.answered = st.w.answered + IF k > 0 /\ o + k = Length THEN 1 ELSE 0
    BY <1>6 DEF Continues
  <2>3. CASE Streaming(o, st.w)
    <3>1. k > 0 /\ o + k = Length /\ st.w.answered + 1 = st.w.asked
      BY <1>1, <2>3 DEF Streaming
    <3> QED
      BY <2>1, <2>2, <3>1 DEF Unfinished
  <2>4. CASE Waiting(o, st.w) /\ o # 0
    <3>1. k = 0 /\ st.w.answered + st.w.unread = st.w.asked
      BY <1>1, <2>4 DEF Waiting
    <3> QED
      BY <2>1, <2>2, <3>1 DEF Unfinished
  <2> QED
    BY <1>2, <2>3, <2>4
<1>12. st.w.unread = u.w.unread
  BY <1>6 DEF Continues
<1> QED
  BY <1>7, <1>10, <1>11, <1>5 DEF Polled

\* The loop stops polling for writable only if nothing was left over.
LEMMA StopPollingPolls ==
  ASSUME NEW st \in HandlerState, NEW id \in Conn,
         Polled(st.s, st.f, st.w), ~st.failed => ~Unfinished(st.w)
  PROVE  LET t == StopPolling(st, id) IN Polled(t.s, t.f, t.w)
<1> DEFINE old == PollEvents(st.s.bits)
           new == old \cap {READABLE}
           f == KqueueChange(st.f, old, new, id)
           changed == [st EXCEPT !.s.bits = ChangeBits(new), !.f = f]
<1>1. StopPolling(st, id) = IF ~st.failed THEN IF old = new THEN st ELSE changed ELSE st
  BY DEF StopPolling, PollChange
<1>2. old \in SUBSET Events
  BY BitsType
<1>3. "IN" \notin ChangeBits(new)
  BY <1>2, DropsWritable
<1>4. st.s \in Socket
  BY DEF HandlerState
<1> HIDE DEF old, new, f
<1>5. changed.s.bits = ChangeBits(new) /\ changed.f = f /\ changed.w = st.w
  BY <1>4 DEF HandlerState, Socket
<1> HIDE DEF changed
<1>6. ChangeBits(new) # Bits
  BY <1>3 DEF Bits
<1>7. ~st.failed => Polled(changed.s, changed.f, changed.w)
  BY <1>5, <1>6 DEF Polled
<1> QED
  BY <1>1, <1>7

-----------------------------------------------------------------------------
LEMMA BecomesPolled ==
  ASSUME HttpInv, PolledInv, NEW id \in Conn, NEW st, Becomes(id, st),
         st.s.open => Polled(st.s, st.f, st.w)
  PROVE  PolledInv'
<1>1. /\ sock \in [Conn -> Socket] /\ wire \in [Conn -> Wire]
      /\ filters \in [Conn -> [Events -> Conn \cup {NULL}]]
  BY DEF HttpInv, TypeOK, LibraryTypeOK
<1>2. /\ sock' = [sock EXCEPT ![id] = st.s] /\ filters' = [filters EXCEPT ![id] = st.f]
      /\ wire' = [wire EXCEPT ![id] = st.w]
  BY DEF Becomes, LibraryBecomes
<1>3. /\ sock'[id] = st.s /\ filters'[id] = st.f /\ wire'[id] = st.w
      /\ \A c \in Conn \ {id} : /\ sock'[c] = sock[c] /\ filters'[c] = filters[c]
                               /\ wire'[c] = wire[c]
  BY <1>1, <1>2
<1> SUFFICES ASSUME NEW c \in Conn, sock'[c].open
             PROVE  Polled(sock'[c], filters'[c], wire'[c])
  BY DEF PolledInv
<1> QED
  BY <1>3 DEF PolledInv

LEMMA AcceptPolled ==
  ASSUME HttpInv, PolledInv, NEW c \in Conn, AcceptConnection(c)
  PROVE  PolledInv'
<1> DEFINE st0 == [State(c) EXCEPT !.w = Quiet]
           s0 == [open |-> TRUE, bits |-> StartBits({READABLE}), timeout |-> 0]
           f0 == KqueueChange(NoFilters, {}, {READABLE}, c)
           st1 == [st0 EXCEPT !.s = s0, !.f = f0]
           st2 == [st1 EXCEPT !.s.timeout = IdleSweeps]
           st3 == [st2 EXCEPT !.o = 0]
<1>1. OnOpen(Accepted(st0, c)) = st3
  BY DEF OnOpen, Accepted, Armed
<1>2. StartBits({READABLE}) # Bits
  BY DEF StartBits, Bits, READABLE, WRITABLE
<1>3. DOMAIN st0 = {"s", "f", "failed", "o", "w"} /\ st0.w = Quiet
  BY DEF State
<1> HIDE DEF st0, f0
<1>4. st3.s.bits = StartBits({READABLE}) /\ st3.w = Quiet
  BY <1>3
<1> HIDE DEF st3
<1>5. ~Unfinished(Quiet)
  BY DEF Unfinished, Quiet
<1>6. Polled(st3.s, st3.f, st3.w)
  BY <1>2, <1>4, <1>5 DEF Polled
<1>7. Becomes(c, st3)
  BY <1>1 DEF AcceptConnection, st0
<1> QED
  BY <1>6, <1>7, BecomesPolled

LEMMA ClosePolled ==
  ASSUME HttpInv, PolledInv, NEW id \in Conn, NEW st \in HandlerState, Becomes(id, Closed(st))
  PROVE  PolledInv'
<1> DEFINE t == Closed(st)
<1>1. ~t.s.open
  BY ClosedType
<1>2. Becomes(id, t)
  OBVIOUS
<1> HIDE DEF t
<1> QED
  BY <1>1, <1>2, BecomesPolled

LEMMA ReadablePolled ==
  ASSUME HttpInv, ~Pipelining, PolledInv, NEW r \in ready, DispatchReadable(r)
  PROVE  PolledInv'
<1> DEFINE id == r.c
           st0 == State(id)
<1>1. r # SweepTimer
  BY ConnectionsAssumption DEF DispatchReadable, SweepTimer
<1>2. id \in Conn /\ sock[id].open /\ ConnInv(id)
  BY <1>1, ReportOfConn
<1>3. st0 \in HandlerState /\ st0.w = wire[id] /\ st0.s = sock[id] /\ st0.f = filters[id]
  BY <1>2, StateType DEF HttpInv, State
<1>4. "IN" \in sock[id].bits
  BY EventsOfBits DEF DispatchReadable, Heard
<1>5. CASE wire[id].unread > 0
  <2> DEFINE v == [wire[id] EXCEPT !.unread = 0]
             st1 == [st0 EXCEPT !.w = v]
             t == OnData(st1, id)
  <2>1. StreamOK(offset[id], wire[id]) /\ wire[id] \in Wire
    BY <1>2 DEF ConnInv, HttpInv, TypeOK
  <2>2. /\ wire[id].unread = 1 /\ wire[id].answered + 1 = wire[id].asked
        /\ wire[id].pos = 0 /\ ~wire[id].garbled
    <3>1. wire[id].unread = 1
      BY <1>5, <2>1 DEF StreamOK, Wire
    <3> QED
      BY <2>1, <3>1 DEF StreamOK, Waiting, Streaming, Place
  <2>3. /\ v \in Wire /\ v.unread = 0 /\ v.answered = wire[id].answered
        /\ v.asked = wire[id].asked /\ v.pos = wire[id].pos
    <3>1. 0 \in 0..MaxRequests
      BY HttpAssumption
    <3> QED
      BY <2>1, <3>1 DEF Wire
  <2>4. v.garbled = wire[id].garbled
    BY <2>1 DEF Wire
  <2>5. Becomes(id, t)
    BY <1>3, <1>5 DEF DispatchReadable
  <2> HIDE DEF v, st0
  <2>6. st1 \in HandlerState /\ st1.s = sock[id] /\ st1.f = filters[id] /\ st1.w = v
    BY <1>3, <2>3 DEF HandlerState
  <2> HIDE DEF st1
  <2>7. sock[id].bits = Bits => filters[id][WRITABLE] # NULL
    BY <1>2 DEF PolledInv, Polled
  <2>8. Polled(t.s, t.f, t.w)
    BY <1>2, <1>4, <2>2, <2>3, <2>4, <2>6, <2>7, OnDataPolls
  <2> HIDE DEF t
  <2> QED
    BY <1>2, <2>5, <2>8, BecomesPolled
<1>6. CASE ~(wire[id].unread > 0)
  <2> DEFINE st1 == StopReading(st0, id)
  <2>1. st1 \in HandlerState
    BY <1>2, <1>3, PollChangeType DEF StopReading
  <2>2. Becomes(id, Closed(st1))
    BY <1>6 DEF DispatchReadable
  <2> HIDE DEF st1
  <2> QED
    BY <1>2, <2>1, <2>2, ClosePolled
<1> QED
  BY <1>5, <1>6

LEMMA WritablePolled ==
  ASSUME HttpInv, ~Pipelining, PolledInv, NEW r \in ready, DispatchWritable(r)
  PROVE  PolledInv'
<1> DEFINE id == r.c
           st0 == State(id)
           st1 == [st0 EXCEPT !.failed = FALSE]
           st2 == OnWritable(st1, id)
           t == StopPolling(st2, id)
<1>1. r # SweepTimer
  BY DEF DispatchWritable, SweepTimer, READABLE, WRITABLE
<1>2. id \in Conn /\ sock[id].open /\ ConnInv(id) /\ WritableReported(id)
  BY <1>1, ReportOfConn DEF DispatchWritable, WritableReported
<1>3. Becomes(id, t)
  BY DEF DispatchWritable
<1>4. /\ st0 \in HandlerState /\ st0.w = wire[id] /\ st0.s = sock[id]
      /\ st0.o = offset[id] /\ st0.f = filters[id]
  BY <1>2, StateType DEF HttpInv, State
<1> HIDE DEF st0
<1>5. /\ st1 \in HandlerState /\ st1.w = wire[id] /\ st1.s = sock[id]
      /\ st1.o = offset[id] /\ st1.f = filters[id] /\ ~st1.failed
  BY <1>4 DEF HandlerState
<1> HIDE DEF st1
<1>6. StreamOK(st1.o, st1.w) /\ (st1.o = 0 => Streaming(st1.o, st1.w))
  <2>1. StreamOK(st1.o, st1.w) /\ (st1.o = 0 => Owed(st1.w))
    BY <1>2, <1>5 DEF ConnInv
  <2> QED
    BY <1>5, <2>1, OwedStreams DEF HandlerState
<1>7. Polled(st1.s, st1.f, st1.w)
  BY <1>2, <1>5 DEF PolledInv
<1>8. st2 \in HandlerState
  BY <1>2, <1>5, OnWritableSends
<1>9. Polled(st2.s, st2.f, st2.w) /\ (~st2.failed => ~Unfinished(st2.w))
  BY <1>2, <1>5, <1>6, <1>7, OnWritablePolls
<1> HIDE DEF st2
<1>10. Polled(t.s, t.f, t.w)
  BY <1>2, <1>8, <1>9, StopPollingPolls
<1> HIDE DEF t
<1> QED
  BY <1>2, <1>3, <1>10, BecomesPolled

LEMMA SweepPolled ==
  ASSUME HttpInv, PolledInv, Sweep
  PROVE  PolledInv'
<1>1. PICK closing : SweepSockets(closing) /\ wire' = wire
  BY DEF Sweep
<1> SUFFICES ASSUME NEW c \in Conn, sock'[c].open
             PROVE  Polled(sock'[c], filters'[c], wire'[c])
  BY DEF PolledInv
<1>2. c \notin closing
  BY <1>1 DEF SweepSockets, NoSocket
<1>3. sock[c] \in Socket
  BY DEF HttpInv, TypeOK, LibraryTypeOK
<1>4. /\ sock'[c].bits = sock[c].bits /\ sock[c].open
      /\ filters'[c] = filters[c] /\ wire'[c] = wire[c]
  BY <1>1, <1>2, <1>3 DEF SweepSockets, Socket
<1> QED
  BY <1>4 DEF Polled, PolledInv

\* What a client does leaves no response unfinished that was not.
LEMMA ClientPolled ==
  ASSUME HttpInv, PolledInv, NEW c \in Conn, Request(c) \/ ClientReads(c) \/ ClientEnds(c)
  PROVE  PolledInv'
<1> DEFINE w == wire[c]
<1>1. wire \in [Conn -> Wire] /\ w \in Wire
  BY DEF HttpInv, TypeOK
<1>2. UNCHANGED <<sock, filters>> /\ \A d \in Conn \ {c} : wire'[d] = wire[d]
  BY <1>1 DEF Request, ClientReads, ClientEnds, library
<1>3. Unfinished(wire'[c]) => Unfinished(w)
  <2>1. CASE Request(c)
    <3>1. wire'[c].unread = w.unread + 1 /\ w.unread \in Nat
      BY <1>1, <2>1, HttpAssumption DEF Request, Wire
    <3> QED
      BY <3>1 DEF Unfinished
  <2>2. CASE ClientReads(c)
    <3>1. PICK n : wire' = [wire EXCEPT ![c].buffered = w.buffered - n]
      BY <2>2 DEF ClientReads
    <3> QED
      BY <1>1, <3>1 DEF Unfinished, Wire
  <2>3. CASE ClientEnds(c)
    BY <1>1, <2>3 DEF ClientEnds, Unfinished, Wire
  <2> QED
    BY <2>1, <2>2, <2>3
<1> QED
  BY <1>2, <1>3 DEF PolledInv, Polled

LEMMA NextPolled ==
  ASSUME ~Pipelining, HttpInv, PolledInv, [Next]_vars
  PROVE  PolledInv'
<1>1. CASE UNCHANGED <<sock, filters, wire>>
  BY <1>1 DEF PolledInv
<1>2. CASE AhttpRun \/ ExampleMain \/ KqueueWait \/ UNCHANGED vars
  BY <1>1, <1>2 DEF AhttpRun, ExampleMain, KqueueWait, Kevent, vars, library
<1>3. ASSUME NEW r \in ready, SkipReport(r)
      PROVE  PolledInv'
  BY <1>1, <1>3 DEF SkipReport, Skip
<1>4. ASSUME NEW r \in ready, DispatchEof(r)
      PROVE  PolledInv'
  <2>1. r # SweepTimer
    BY <1>4 DEF DispatchEof, SweepTimer
  <2>2. r.c \in Conn /\ State(r.c) \in HandlerState
    BY <2>1, ReportOfConn, StateType DEF HttpInv
  <2> QED
    BY <1>4, <2>2, ClosePolled DEF DispatchEof
<1>5. ASSUME NEW r \in ready, DispatchReadable(r) \/ DispatchWritable(r)
      PROVE  PolledInv'
  BY <1>5, ReadablePolled, WritablePolled
<1>6. CASE Sweep
  BY <1>6, SweepPolled
<1>7. ASSUME NEW c \in Conn,
             AcceptConnection(c) \/ Request(c) \/ ClientReads(c) \/ ClientEnds(c)
      PROVE  PolledInv'
  BY <1>7, AcceptPolled, ClientPolled
<1> QED
  BY <1>2, <1>3, <1>4, <1>5, <1>6, <1>7 DEF Next, Dispatch

\* A response that is not out is registered for writable and heard, so that it never
\* waits for a call that nobody makes.
THEOREM AnswersContinue == ASSUME ~Pipelining PROVE Spec => []UnfinishedIsWritable
<1>1. Init => PolledInv
  BY DEF Init, LibraryInit, PolledInv, NoSocket
<1>2. HttpInv /\ PolledInv /\ [Next]_vars => PolledInv'
  BY NextPolled
<1>3. PolledInv => UnfinishedIsWritable
  <2> SUFFICES ASSUME PolledInv, NEW c \in Conn, sock[c].open, Unfinished(wire[c])
               PROVE  filters[c][WRITABLE] # NULL /\ WRITABLE \in PollEvents(sock[c].bits)
    BY DEF UnfinishedIsWritable, Unfinished
  <2>1. sock[c].bits = Bits /\ filters[c][WRITABLE] # NULL
    BY DEF PolledInv, Polled
  <2> QED
    BY <2>1, EventsOfBits DEF Bits
<1> QED
  BY <1>1, <1>2, <1>3, HttpInvariance, PTL DEF Spec

-----------------------------------------------------------------------------
(***************************************************************************)
(* The timeout's handler, which only ahttp_run leaves unset.               *)
(***************************************************************************)
RegisteredInv ==
  /\ DOMAIN handlers = {"on_end", "on_socket_timeout"}
  /\ program # "none" => program = "main" /\ handlers.on_socket_timeout = "on_timeout"
  /\ ~crashed
  /\ \A r \in ready : r = SweepTimer \/ r.c \in Conn

LEMMA NextRegistered ==
  ASSUME Programs \subseteq {"main"}, RegisteredInv, [Next]_vars
  PROVE  RegisteredInv'
<1> USE DEF RegisteredInv
<1>1. CASE AhttpRun
  BY <1>1 DEF AhttpRun
<1>2. CASE ExampleMain
  BY <1>2 DEF ExampleMain, Register, library
<1>3. CASE KqueueWait
  <2>1. \A r \in ready' : r = SweepTimer \/ r.c \in Conn
    BY <1>3 DEF KqueueWait, Kevent, Reports
  <2> QED
    BY <1>3, <2>1 DEF KqueueWait, app
<1>4. ASSUME NEW r \in ready,
             SkipReport(r) \/ DispatchEof(r) \/ DispatchReadable(r) \/ DispatchWritable(r)
      PROVE  RegisteredInv'
  <2>1. ready' \in SUBSET ready /\ UNCHANGED app
    BY <1>4 DEF SkipReport, Skip, DispatchEof, DispatchReadable, DispatchWritable, ReportsWithout
  <2>2. ~crashed'
    <3>1. program = "main"
      BY <1>4 DEF SkipReport, DispatchEof, DispatchReadable, DispatchWritable, Serving
    <3> QED
      BY <1>4, <3>1
      DEF SkipReport, DispatchEof, DispatchReadable, DispatchWritable, ParseDies
  <2> QED
    BY <2>1, <2>2 DEF app
<1>5. CASE Sweep
  <2>1. handlers.on_socket_timeout = "on_timeout"
    BY <1>5 DEF Sweep, Serving
  <2> QED
    BY <1>5, <2>1 DEF Sweep, SweepSockets, ReportsWithout, app
<1>6. ASSUME NEW c \in Conn,
             AcceptConnection(c) \/ Request(c) \/ ClientReads(c) \/ ClientEnds(c)
      PROVE  RegisteredInv'
  BY <1>6 DEF AcceptConnection, Request, ClientReads, ClientEnds, library, app
<1>7. CASE UNCHANGED vars
  BY <1>7 DEF vars, library
<1> QED
  BY <1>1, <1>2, <1>3, <1>4, <1>5, <1>6, <1>7 DEF Next, Dispatch

\* Only a sweep takes the sweep timer's report out of the batch.
LEMMA SweepCloses ==
  ASSUME RegisteredInv, Next, NEW c \in Expiring, SweepTimer \in ready, SweepTimer \notin ready'
  PROVE  ~crashed' /\ ~sock'[c].open
<1>1. CASE Sweep
  <2>1. handlers.on_socket_timeout = "on_timeout" /\ ~crashed
    BY <1>1 DEF Sweep, Serving, RegisteredInv
  <2>2. SweepSockets(Expiring) /\ ~crashed'
    BY <1>1, <2>1 DEF Sweep
  <2> QED
    BY <2>2 DEF SweepSockets, Expiring, NoSocket
<1>2. ASSUME NEW r \in ready,
             SkipReport(r) \/ DispatchEof(r) \/ DispatchReadable(r) \/ DispatchWritable(r)
      PROVE  FALSE
  <2>1. r # SweepTimer
    BY <1>2, ConnectionsAssumption
    DEF SkipReport, Skip, DispatchEof, DispatchReadable, DispatchWritable, SweepTimer,
        READABLE, WRITABLE
  <2>2. r.c # SweepTimer.c
    BY <2>1, ConnectionsAssumption DEF RegisteredInv, SweepTimer
  <2> QED
    BY <1>2, <2>1, <2>2
    DEF SkipReport, Skip, DispatchEof, DispatchReadable, DispatchWritable, ReportsWithout
<1>3. CASE KqueueWait
  BY <1>3 DEF KqueueWait, Kevent
<1>4. CASE UNCHANGED ready
  BY <1>4
<1>5. CASE ~Sweep /\ ~KqueueWait
           /\ ~(\E r \in ready : SkipReport(r) \/ DispatchEof(r) \/ DispatchReadable(r)
                                                \/ DispatchWritable(r))
  BY <1>4, <1>5 DEF Next, Dispatch, AhttpRun, ExampleMain, AcceptConnection, Request,
     ClientReads, ClientEnds, vars, library
<1> QED
  BY <1>1, <1>2, <1>3, <1>5

\* Registered as the example does it, on_timeout closes every connection whose timeout
\* runs out and the server goes on, whatever clients and handlers did before: the
\* registrations of ahttp_run are all that is wrong with its idle timeouts.
THEOREM IdleClosing ==
  ASSUME Programs \subseteq {"main"}
  PROVE  Spec => IdleTimeoutCloses
<1>1. Init => RegisteredInv
  BY DEF Init, LibraryInit, RegisteredInv
<1>2. RegisteredInv /\ [Next]_vars => RegisteredInv'
  BY NextRegistered
<1>3. RegisteredInv /\ [Next]_vars =>
        [\A c \in Expiring : SweepTimer \notin ready' /\ SweepTimer \in ready
                              => ~crashed' /\ ~sock'[c].open]_vars
  BY SweepCloses
<1> QED
  BY <1>1, <1>2, <1>3, PTL DEF Spec, IdleTimeoutCloses
=============================================================================
