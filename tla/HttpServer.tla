------------------------------ MODULE HttpServer ------------------------------
(***************************************************************************)
(* The HTTP servers on top of the library: ahttp_run of src/http/core.c    *)
(* and the program of examples/http_server.c, which has the same handlers  *)
(* but does not parse and registers them as it means to.  Each request is  *)
(* answered with one canned response, written as far as send takes it and  *)
(* continued from on_writable.                                             *)
(***************************************************************************)
EXTENDS Connections

CONSTANTS
  Programs,      \* which programs may be run: ahttp_run, the example's main
  Length,        \* bytes of a response, context->length
  SendBuffer,    \* bytes the kernel takes before the client reads
  MaxRequests,   \* bound: requests of one connection
  Pipelining     \* clients send a request before the last one is answered

ASSUME HttpAssumption ==
  /\ {Length, SendBuffer, MaxRequests} \subseteq Nat \ {0}
  /\ Programs \subseteq {"ahttp_run", "main"}
  /\ Pipelining \in BOOLEAN

VARIABLES
  handlers,          \* the context's on_end and on_socket_timeout
  program,           \* the program that is in its loop
  offset,            \* how much of its response each connection has streamed
  wire,              \* kernel and client: the two streams of each connection
  crashed            \* the process is gone

vars == <<library, handlers, program, offset, wire, crashed>>

(***************************************************************************)
(* A stream of responses is abstracted to where the next byte belongs in a *)
(* response, pos, and whether a byte ever came out of place.               *)
(***************************************************************************)
Wire == [unread : 0..MaxRequests, asked : 0..MaxRequests, fin : BOOLEAN,
         buffered : 0..SendBuffer, pos : 0..Length - 1, answered : Nat, garbled : BOOLEAN]

Quiet == [unread |-> 0, asked |-> 0, fin |-> FALSE, buffered |-> 0, pos |-> 0,
          answered |-> 0, garbled |-> FALSE]

Init ==
  /\ LibraryInit
  /\ handlers = [on_end |-> "unset", on_socket_timeout |-> "unset"]
  /\ program = "none"
  /\ offset = [c \in Conn |-> 0]
  /\ wire = [c \in Conn |-> Quiet]
  /\ crashed = FALSE

-----------------------------------------------------------------------------
(***************************************************************************)
(* The handlers; their state has the fields of Connections, the offset o   *)
(* and the streams w.                                                      *)
(***************************************************************************)
State(id) == [s |-> sock[id], f |-> filters[id], failed |-> lastWriteFailed,
              o |-> offset[id], w |-> wire[id]]

\* send: what the buffer has room for, bytes from .. from + n - 1 of a response.
Sent(st, n) == LET room == SendBuffer - st.w.buffered IN IF n < room THEN n ELSE room

Send(st, from, n) ==
  LET k   == Sent(st, n)
      end == st.w.pos + k
  IN  IF k = 0 THEN st
      ELSE [st EXCEPT !.w.buffered = @ + k,
                      !.w.pos = end % Length,
                      !.w.answered = @ + end \div Length,
                      !.w.garbled = @ \/ from # st.w.pos]

\* asock_socket_write of a response's bytes from offset from on
Write(st, id, from) ==
  LET n == Length - from
  IN  IF Sent(st, n) = n THEN Send(st, from, n) ELSE WriteFailed(Send(st, from, n), id)

Written(st, from) == Sent(st, Length - from)

MOnOpen(st) == [st EXCEPT !.o = 0]   \* no timeout armed
OnOpen(st) == [Armed(st) EXCEPT !.o = 0]

\* Whatever came is one request, answered from its start.
OnData(st, id) == [Armed(Write(st, id, 0)) EXCEPT !.o = Written(st, 0)]

\* This one does not arm the timeout again.
MOnWritable(st, id) == Write(st, id, st.o)   \* offset not advanced
OnWritable(st, id) == [Write(st, id, st.o) EXCEPT !.o = @ + Written(st, st.o)]

\* on_end (its shutdown is moot before the close) and on_timeout
Closed(st) == [ClosedSocket(st) EXCEPT !.o = 0]

\* HttpParser has what ahttp_core_parse does with the data: it may end the
\* process, and on_data frees a pointer it never set.
ParseDies == IF program = "ahttp_run" THEN BOOLEAN ELSE {FALSE}

-----------------------------------------------------------------------------
(***************************************************************************)
(* The server.                                                             *)
(***************************************************************************)
Serving == program # "none" /\ ~crashed
app == <<handlers, program>>

Becomes(id, st) ==
  /\ LibraryBecomes(id, st)
  /\ offset' = [offset EXCEPT ![id] = st.o]
  /\ wire' = [wire EXCEPT ![id] = st.w]

\* asock_context_on_end, asock_context_on_timeout
Register(registered, event, handler) == [registered EXCEPT ![event] = handler]

\* ahttp_run: the last two registrations are both of on_end.
AhttpRun ==
  /\ program = "none" /\ "ahttp_run" \in Programs
  /\ program' = "ahttp_run"
  /\ handlers' = Register(Register(handlers, "on_end", "on_end"), "on_end", "on_timeout")
  /\ UNCHANGED <<library, offset, wire, crashed>>

\* main of examples/http_server.c
ExampleMain ==
  /\ program = "none" /\ "main" \in Programs
  /\ program' = "main"
  /\ handlers' = Register(Register(handlers, "on_socket_timeout", "on_timeout"),
                          "on_end", "on_end")
  /\ UNCHANGED <<library, offset, wire, crashed>>

\* A client connects: accept, asock_poll_start, on_open.
AcceptConnection(c) ==
  /\ Serving
  /\ ~sock[c].open
  /\ Becomes(c, OnOpen(Accepted([State(c) EXCEPT !.w = Quiet], c)))
  /\ UNCHANGED <<ready, app, crashed>>

KqueueWait ==
  /\ Serving
  /\ Kevent({c \in Conn : wire[c].unread > 0},
            {c \in Conn : wire[c].buffered < SendBuffer},
            {c \in Conn : wire[c].fin})
  /\ UNCHANGED <<app, offset, wire, crashed>>

SkipReport(r) ==
  /\ Serving
  /\ Skip(r)
  /\ UNCHANGED <<app, offset, wire, crashed>>

\* EV_EOF is an error: the connection is closed, unread data or not.
DispatchEof(r) ==
  /\ Serving
  /\ r.eof
  /\ Becomes(r.c, Closed(State(r.c)))
  /\ ready' = ReportsWithout({r.c})
  /\ UNCHANGED <<app, crashed>>

DispatchReadable(r) ==
  /\ Serving
  /\ r.c \in Conn /\ r.e = READABLE /\ ~r.eof /\ Heard(r)
  /\ IF wire[r.c].unread > 0
       THEN /\ Becomes(r.c, OnData([State(r.c) EXCEPT !.w.unread = 0], r.c))
            /\ ready' = ready \ {r}
            /\ crashed' \in ParseDies
       ELSE /\ Becomes(r.c, Closed(StopReading(State(r.c), r.c)))
            /\ ready' = ReportsWithout({r.c})
            /\ UNCHANGED crashed
  /\ UNCHANGED app

DispatchWritable(r) ==
  /\ Serving
  /\ r.e = WRITABLE /\ Heard(r)
  /\ Becomes(r.c, StopPolling(OnWritable([State(r.c) EXCEPT !.failed = FALSE], r.c), r.c))
  /\ ready' = ready \ {r}
  /\ UNCHANGED <<app, crashed>>

\* Calling a handler nobody set jumps to what malloc left in the context, which
\* may end the process; if not, the connection stays.
Sweep ==
  /\ Serving
  /\ IF handlers.on_socket_timeout = "unset"
       THEN SweepSockets({}) /\ crashed' \in (IF Expiring = {} THEN {FALSE} ELSE BOOLEAN)
            /\ UNCHANGED offset
       ELSE /\ SweepSockets(Expiring)
            /\ offset' = [c \in Conn |-> IF c \in Expiring THEN 0 ELSE offset[c]]
            /\ UNCHANGED crashed
  /\ UNCHANGED <<app, wire>>

Dispatch ==
  \/ \E r \in ready : SkipReport(r) \/ DispatchEof(r) \/ DispatchReadable(r) \/ DispatchWritable(r)
  \/ Sweep

-----------------------------------------------------------------------------
(***************************************************************************)
(* The client.                                                             *)
(***************************************************************************)
Request(c) ==
  /\ Serving
  /\ sock[c].open
  /\ ~wire[c].fin
  /\ wire[c].asked < MaxRequests
  /\ Pipelining \/ (wire[c].answered = wire[c].asked /\ wire[c].buffered = 0)
  /\ wire' = [wire EXCEPT ![c].unread = @ + 1, ![c].asked = @ + 1]
  /\ UNCHANGED <<library, app, offset, crashed>>

ClientReads(c) ==
  /\ \E n \in 1..wire[c].buffered : wire' = [wire EXCEPT ![c].buffered = @ - n]
  /\ UNCHANGED <<library, app, offset, crashed>>

ClientEnds(c) ==
  /\ Serving
  /\ sock[c].open
  /\ ~wire[c].fin
  /\ wire' = [wire EXCEPT ![c].fin = TRUE]
  /\ UNCHANGED <<library, app, offset, crashed>>

Next ==
  \/ AhttpRun \/ ExampleMain
  \/ KqueueWait
  \/ Dispatch
  \/ \E c \in Conn : AcceptConnection(c) \/ Request(c) \/ ClientReads(c) \/ ClientEnds(c)
  \/ crashed /\ UNCHANGED vars

Spec == Init /\ [][Next]_vars

(***************************************************************************)
(* The loop works through its batch and calls kevent again; the sweep      *)
(* timer repeats, so again and again it has run out when kevent is called; *)
(* clients read what reaches them.  Nothing makes a client ask or leave.   *)
(***************************************************************************)
Fairness ==
  /\ WF_ready(Serving /\ BatchShrinks)
  /\ WF_vars(KqueueWait)
  /\ SF_vars(KqueueWait /\ SweepTimer \in ready')
  /\ \A c \in Conn : WF_vars(ClientReads(c))

FairSpec == Spec /\ Fairness

-----------------------------------------------------------------------------
\* Type correctness; where a connection's next write starts stays inside the
\* response, and every report that waits is of a connection that is open.
TypeOK ==
  /\ LibraryTypeOK
  /\ \A r \in ready : r = SweepTimer \/ sock[r.c].open
  /\ handlers \in [{"on_end", "on_socket_timeout"} -> {"unset", "on_end", "on_timeout"}]
  /\ program \in Programs \cup {"none"}
  /\ crashed \in BOOLEAN
  /\ offset \in [Conn -> 0..Length]
  /\ wire \in [Conn -> Wire]

\* However the kernel splits its writes, a client that waits for its answer reads
\* whole responses: each continuation in on_writable starts at the byte the last
\* write stopped at (src/http/core.c, on_data and on_writable).
AnswersAreWhole == \A c \in Conn : ~wire[c].garbled

\* No request is answered twice, and none before it is read: what on_writable
\* continues is the one answer on_data began, and a writable event after the last
\* byte sends nothing.
OneAnswerEach == \A c \in Conn : wire[c].answered + wire[c].unread <= wire[c].asked

\* A response that is not out is registered for writable, and the loop hears it: no
\* order of short writes, reports and changes of the poll leaves one stuck
\* (asock_socket_write, and "then stop polling for more writable" in poll.c).
UnfinishedIsWritable ==
  \A c \in Conn : sock[c].open /\ wire[c].answered < wire[c].asked /\ wire[c].unread = 0
                    => filters[c][WRITABLE] # NULL /\ WRITABLE \in PollEvents(sock[c].bits)

\* A response that on_data began is sent to its last byte, as long as the client
\* reads and its socket is not closed: a short write of on_writable keeps the
\* writable filter until the next one (poll.c, "If we have no failed write or if
\* we shut down, then stop polling for more writable"), whatever asock_poll_change
\* made of the poll's own bits.
AnswersComplete ==
  \A c \in Conn :
    (sock[c].open /\ wire[c].answered < wire[c].asked /\ wire[c].unread = 0)
      ~> (wire[c].answered = wire[c].asked \/ ~sock[c].open \/ crashed)

\* "Timeout idle http connections" (on_open): where the timeout's handler is
\* registered no connection outlasts its client's interest, not even one whose
\* reports the loop skips.
IdleIsClosed ==
  \A c \in Conn :
    (sock[c].open /\ handlers.on_socket_timeout = "on_timeout") ~> ~sock[c].open

\* The same line of src/http/core.c: a timeout that runs out closes its
\* connection, and the server goes on.
IdleTimeoutCloses ==
  [][\A c \in Expiring : SweepTimer \notin ready' /\ SweepTimer \in ready
                           => ~crashed' /\ ~sock'[c].open]_vars

\* A client that has shut its side down has its last request read before the
\* server closes ("We got FIN, so stop polling for readable", poll.c, where recv
\* finds the end of the stream).
LastRequestRead ==
  [][\A c \in Conn : sock[c].open /\ ~sock'[c].open /\ ~TimedOut(c) => wire[c].unread = 0]_vars
=============================================================================
