------------------------------ MODULE EchoServer ------------------------------
(***************************************************************************)
(* The echo server of examples/echo_server.c: what a client sends comes    *)
(* back, and what the kernel does not take at once waits in a heap block   *)
(* of the connection's own, its backpressure.                              *)
(***************************************************************************)
EXTENDS Connections

CONSTANTS
  Block,         \* addresses malloc returns
  SendBuffer,    \* bytes the kernel takes before the client reads
  LowWater,      \* room from which kqueue reports a socket writable
  MaxMessage,    \* bound: bytes a client sends at once
  MaxBytes,      \* bound: bytes of one connection
  MaxPair,       \* bound: bytes of two connections together
  Leaving        \* bound: the clients that shut their side down

ASSUME EchoAssumption ==
  /\ {SendBuffer, MaxMessage, MaxBytes, MaxPair} \subseteq Nat \ {0}
  /\ LowWater \in 1..SendBuffer
  /\ NULL \notin Block
  /\ Leaving \subseteq Conn

VARIABLES
  es,        \* struct echo_socket of each connection
  heap,      \* the bytes in each block, FREE where none is allocated
  wire,      \* kernel and client: the two streams of each connection
  undefined, \* history: memory was freed that had been freed before
  crashed    \* the process is gone

vars == <<library, es, heap, wire, undefined, crashed>>

(***************************************************************************)
(* A client numbers the bytes it sends, from 1 on; 0 is a byte no client   *)
(* sent.  out is what the kernel ever took for the client.  Two fields are *)
(* history: the client did not always wait for its echo (hasty); a         *)
(* continuation of its backlog was itself cut short (cut).                 *)
(***************************************************************************)
FREE == <<>>    \* no handler allocates 0 bytes
Byte == 0..MaxBytes

EchoSocket == [backpressure : Block \cup {NULL}, length : Byte]
NoEcho == [backpressure |-> NULL, length |-> 0]
Quiet == [sent |-> 0, taken |-> 0, fin |-> FALSE, out |-> <<>>, buffered |-> 0,
          hasty |-> FALSE, cut |-> FALSE]

Init ==
  /\ LibraryInit
  /\ es = [c \in Conn |-> NoEcho]
  /\ heap = [b \in Block |-> FREE]
  /\ wire = [c \in Conn |-> Quiet]
  /\ undefined = FALSE
  /\ crashed = FALSE

-----------------------------------------------------------------------------
(***************************************************************************)
(* The calls of a handler.  Its state has the fields of Connections, the   *)
(* echo socket e, the heap h, the streams w and ub, whether it freed a     *)
(* block it had freed before.                                              *)
(***************************************************************************)
State(id) == [s |-> sock[id], f |-> filters[id], failed |-> lastWriteFailed,
              e |-> es[id], h |-> heap, w |-> wire[id], ub |-> FALSE]

\* What send takes: as much as there is room for.
Taken(st, bytes) ==
  LET room == SendBuffer - st.w.buffered
  IN  IF Len(bytes) < room THEN Len(bytes) ELSE room

\* asock_socket_write
Write(st, id, bytes) ==
  LET n    == Taken(st, bytes)
      sent == [st EXCEPT !.w.out = @ \o SubSeq(bytes, 1, n), !.w.buffered = @ + n]
  IN  IF n = Len(bytes) THEN sent ELSE WriteFailed(sent, id)

\* on_writable leaves the pointer of a block it freed behind, with no length.
Stale(e) == e.backpressure # NULL /\ e.length = 0

\* free(es->backpressure).  The block of a stale pointer may be another's by now.
FreeBacklog(st) ==
  IF st.e.backpressure = NULL THEN st
  ELSE [st EXCEPT !.h[st.e.backpressure] = FREE, !.ub = @ \/ Stale(st.e)]

\* What the block of a backlog holds, nothing when there is none.
Held(e, h) == IF e.length = 0 THEN <<>> ELSE h[e.backpressure]

\* es->length bytes from es->backpressure on, whatever is there
Backlog(st) ==
  LET bytes == Held(st.e, st.h)
  IN  [i \in 1..st.e.length |-> IF i <= Len(bytes) THEN bytes[i] ELSE 0]

\* A new buffer of these bytes takes the place of the old one.
Rebuffer(st, block, bytes) ==
  [FreeBacklog([st EXCEPT !.h[block] = bytes])
     EXCEPT !.e = [backpressure |-> block, length |-> Len(bytes)]]

-----------------------------------------------------------------------------
(***************************************************************************)
(* The handlers; block is what their malloc returns, if they call it.      *)
(***************************************************************************)
MOnOpen(st) == [st EXCEPT !.e = NoEcho]   \* no timeout armed

OnOpen(st) == [Armed(st) EXCEPT !.e = NoEcho]

MContinueBacklog(st, id, block) ==   \* length not reset
  LET bytes == Backlog(st)
      n     == Taken(st, bytes)
      wrote == Write(st, id, bytes)
  IN  IF n = Len(bytes) THEN FreeBacklog(wrote)
      ELSE Rebuffer(wrote, block, SubSeq(bytes, 1, Len(bytes) - n))

\* What is left is copied from the start of the old buffer; a buffer written out
\* is freed, and its pointer kept.
ContinueBacklog(st, id, block) ==
  LET bytes == Backlog(st)
      n     == Taken(st, bytes)
      wrote == Write(st, id, bytes)
  IN  IF n = Len(bytes)
        THEN [FreeBacklog(wrote) EXCEPT !.e.length = 0]
        ELSE Rebuffer([wrote EXCEPT !.w.cut = @ \/ n > 0],
                      block, SubSeq(bytes, 1, Len(bytes) - n))

MOnWritable(st, id, block) ==   \* not armed
  ContinueBacklog(st, id, block)

OnWritable(st, id, block) == Armed(ContinueBacklog(st, id, block))

Unread(st) == [i \in 1..(st.w.sent - st.w.taken) |-> st.w.taken + i]

MRest(data, n) == SubSeq(data, 1, Len(data) - n)   \* data for data + written
Rest(data, n) == SubSeq(data, n + 1, Len(data))

MSendBackOrBuffer(st, id, block) ==   \* the backlog is dropped
  LET data  == Unread(st)
      n     == Taken(st, data)
      wrote == [Write(st, id, data) EXCEPT !.w.taken = st.w.sent]
  IN  IF n = Len(data) THEN wrote ELSE Rebuffer(wrote, block, Rest(data, n))

\* What came is written first; the rest of it goes behind the backlog.
SendBackOrBuffer(st, id, block) ==
  LET data  == Unread(st)
      n     == Taken(st, data)
      wrote == [Write(st, id, data) EXCEPT !.w.taken = st.w.sent]
  IN  IF n = Len(data) THEN wrote
      ELSE Rebuffer(wrote, block, Backlog(st) \o Rest(data, n))

OnData(st, id, block) == Armed(SendBackOrBuffer(st, id, block))

\* on_echo_socket_close, called by the close.  The streams end with the connection.
Closed(st) == [FreeBacklog(ClosedSocket(st)) EXCEPT !.e = NoEcho, !.w = Quiet]

\* on_echo_socket_end; the close makes the shutdown moot.
OnEnd(st) == Closed(st)

-----------------------------------------------------------------------------
\* Freeing a block again, or one that is another's by now, may end the process.
Frees(again) ==
  /\ undefined' = (undefined \/ again)
  /\ crashed' \in IF again THEN BOOLEAN ELSE {FALSE}

Becomes(id, st) ==
  /\ LibraryBecomes(id, st)
  /\ es' = [es EXCEPT ![id] = st.e]
  /\ heap' = st.h
  /\ wire' = [wire EXCEPT ![id] = st.w]
  /\ Frees(st.ub)

NewBlock == {b \in Block : heap[b] = FREE}

Serving == ~crashed

\* A client connects: accept, asock_poll_start, on_echo_socket_open.
AcceptConnection(c) ==
  /\ Serving
  /\ ~sock[c].open
  /\ Becomes(c, OnOpen(Accepted([State(c) EXCEPT !.w = Quiet], c)))
  /\ UNCHANGED ready

KqueueWait ==
  /\ Serving
  /\ Kevent({c \in Conn : wire[c].taken < wire[c].sent},
            {c \in Conn : SendBuffer - wire[c].buffered >= LowWater},
            {c \in Conn : wire[c].fin})
  /\ UNCHANGED <<es, heap, wire, undefined, crashed>>

SkipReport(r) ==
  /\ Serving
  /\ Skip(r)
  /\ UNCHANGED <<es, heap, wire, undefined, crashed>>

\* EV_EOF is an error: the connection is closed, unread data or not.
DispatchEof(r) ==
  /\ Serving
  /\ r.eof
  /\ Becomes(r.c, Closed(State(r.c)))
  /\ ready' = ReportsWithout({r.c})

DispatchReadable(r) ==
  /\ Serving
  /\ r.c \in Conn /\ r.e = READABLE /\ ~r.eof /\ Heard(r)
  /\ \E block \in NewBlock :
       IF wire[r.c].taken < wire[r.c].sent
         THEN /\ Becomes(r.c, OnData(State(r.c), r.c, block))
              /\ ready' = ready \ {r}
         ELSE /\ Becomes(r.c, OnEnd(StopReading(State(r.c), r.c)))
              /\ ready' = ReportsWithout({r.c})

DispatchWritable(r) ==
  /\ Serving
  /\ r.e = WRITABLE /\ Heard(r)
  /\ \E block \in NewBlock :
       Becomes(r.c, StopPolling(OnWritable([State(r.c) EXCEPT !.failed = FALSE], r.c, block), r.c))
  /\ ready' = ready \ {r}

\* The sweep, with on_echo_socket_timeout and the close and on_close it leads to
\* for every connection whose timeout runs out.
Sweep ==
  LET freed == {es[c].backpressure : c \in Expiring} \ {NULL}
  IN  /\ Serving
      /\ SweepSockets(Expiring)
      /\ es' = [c \in Conn |-> IF c \in Expiring THEN NoEcho ELSE es[c]]
      /\ heap' = [b \in Block |-> IF b \in freed THEN FREE ELSE heap[b]]
      /\ Frees(\E c \in Expiring : Stale(es[c]))
      /\ wire' = [c \in Conn |-> IF c \in Expiring THEN Quiet ELSE wire[c]]

Dispatch ==
  \/ \E r \in ready : SkipReport(r) \/ DispatchEof(r) \/ DispatchReadable(r) \/ DispatchWritable(r)
  \/ Sweep

-----------------------------------------------------------------------------
(***************************************************************************)
(* The client.                                                             *)
(***************************************************************************)
Answered(c) == Len(wire[c].out) = wire[c].sent /\ wire[c].buffered = 0

ClientSends(c) ==
  /\ Serving
  /\ sock[c].open
  /\ ~wire[c].fin
  /\ \E n \in 1..MaxMessage :
       /\ wire[c].sent + n <= MaxBytes
       /\ \A d \in Conn \ {c} : wire[c].sent + n + wire[d].sent <= MaxPair
       /\ wire' = [wire EXCEPT ![c].sent = @ + n, ![c].hasty = @ \/ ~Answered(c)]
  /\ UNCHANGED <<library, es, heap, undefined, crashed>>

ClientReads(c) ==
  /\ \E n \in 1..wire[c].buffered : wire' = [wire EXCEPT ![c].buffered = @ - n]
  /\ UNCHANGED <<library, es, heap, undefined, crashed>>

ClientEnds(c) ==
  /\ Serving
  /\ c \in Leaving
  /\ sock[c].open
  /\ ~wire[c].fin
  /\ wire' = [wire EXCEPT ![c].fin = TRUE]
  /\ UNCHANGED <<library, es, heap, undefined, crashed>>

Next ==
  \/ KqueueWait
  \/ Dispatch
  \/ \E c \in Conn : AcceptConnection(c) \/ ClientSends(c) \/ ClientReads(c) \/ ClientEnds(c)
  \/ crashed /\ UNCHANGED vars

Spec == Init /\ [][Next]_vars

(***************************************************************************)
(* The loop works through its batch and calls kevent again; the sweep      *)
(* timer repeats, so again and again it has run out when kevent is called. *)
(* Nothing makes a client send, read or leave.                             *)
(***************************************************************************)
Fairness ==
  /\ WF_ready(Serving /\ BatchShrinks)
  /\ SF_vars(KqueueWait /\ SweepTimer \in ready')

FairSpec == Spec /\ Fairness

-----------------------------------------------------------------------------
\* Type correctness; every report that waits is of a connection that is open, so
\* no handler runs on a connection closed earlier in the iteration.
TypeOK ==
  /\ LibraryTypeOK
  /\ \A r \in ready : r = SweepTimer \/ sock[r.c].open
  /\ es \in [Conn -> EchoSocket]
  /\ heap \in [Block -> Seq(Byte)]
  /\ wire \in [Conn -> [sent : Byte, taken : Byte, fin : BOOLEAN, out : Seq(Byte),
                        buffered : 0..SendBuffer, hasty : BOOLEAN, cut : BOOLEAN]]
  /\ undefined \in BOOLEAN
  /\ crashed \in BOOLEAN

Straight(out) == \A i \in DOMAIN out : out[i] = i

\* What comes back is what was sent, byte for byte and in order ("a basic TCP/TLS
\* echo server"; "Continue writing out our backpressure"), to clients that always
\* waited for the echo; what comes while a backlog waits is sent ahead of it.
EchoInOrder == \A c \in Conn : ~wire[c].hasty => Straight(wire[c].out)

\* ... and so it is across short writes, backlogs, their continuation and all that other
\* connections do, up to two events: a continuation of its own is cut short
\* (EchoInOrder fails there), or somebody frees a stale pointer (NoStaleFree).
EchoUntilCut ==
  ~undefined => \A c \in Conn : ~wire[c].hasty /\ ~wire[c].cut => Straight(wire[c].out)

Occurs(k, bytes) == \E i \in DOMAIN bytes : bytes[i] = k

\* What on_data took is as much as what is with the kernel and what es->length counts,
\* always.  Up to the two events it is also the same bytes, each once: none is lost,
\* repeated or made up, of hasty clients either, in whatever order they go out.
BytesAccounted ==
  \A c \in Conn : sock[c].open =>
    /\ wire[c].taken = Len(wire[c].out) + es[c].length
    /\ ~undefined /\ ~wire[c].cut =>
         \A k \in 1..wire[c].taken : Occurs(k, wire[c].out) \/ Occurs(k, Held(es[c], heap))

\* A connection with a backlog holds a live block of exactly that many bytes, and no
\* other connection's, so no continuation and no copy reads past it or from memory that
\* was freed, until somebody frees a stale pointer.
BacklogSized ==
  ~undefined => \A c \in Conn : es[c].length > 0 =>
    /\ es[c].backpressure # NULL
    /\ Len(heap[es[c].backpressure]) = es[c].length
    /\ \A d \in Conn \ {c} : es[d].length > 0 => es[d].backpressure # es[c].backpressure

\* No block is freed twice, nor one that is another connection's by now: what
\* EchoServer_stale_pointer refutes.
NoStaleFree == ~undefined

\* The harm it does: a backlog of another connection is no longer there.
BacklogsLive ==
  ~crashed => \A c \in Conn : es[c].length > 0 => Len(heap[es[c].backpressure]) = es[c].length

\* A backlog is registered for writable, and the loop hears it, whatever short writes
\* and new data came in between: none waits for a call that nobody makes.
BacklogIsWritable ==
  \A c \in Conn : es[c].length > 0
                    => filters[c][WRITABLE] # NULL /\ WRITABLE \in PollEvents(sock[c].bits)

\* "Client is not boring" (on_data, on_writable): only a connection none of whose
\* reports was handled for the whole timeout is timed out, whatever the order of
\* reports and sweeps.
OnlyBoringTimedOut ==
  [][\A c \in Conn : TimedOut(c) => silence[c] + 1 >= IdleSweeps]_vars

\* "Start a timeout to close the socket if boring": a connection does not outlast
\* its client's interest, not even one whose reports the loop skips.
BoringIsClosed == \A c \in Conn : sock[c].open ~> (~sock[c].open \/ crashed)
=============================================================================
