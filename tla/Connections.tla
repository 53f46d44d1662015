----------------------------- MODULE Connections -----------------------------
(***************************************************************************)
(* The connections a server has accepted, as the library keeps them: what  *)
(* each socket records, its kernel filters and the batch of reports the    *)
(* loop is working through.  HttpServer and EchoServer add what their      *)
(* handlers remember of a connection, and its client.                      *)
(*                                                                         *)
(* The handlers of these servers touch only their own connection, so one   *)
(* step is one report with the handler it calls.  EventLoop has the life   *)
(* of the sockets' memory, and application handlers of any kind.           *)
(***************************************************************************)
EXTENDS Poll, Integers

CONSTANTS
  Conn,          \* connections
  IdleSweeps,    \* sweeps of the timeout handlers arm (30 seconds)
  Timed          \* FALSE: everyone is done before the first sweep comes

ASSUME ConnectionsAssumption ==
  /\ IdleSweeps \in Nat \ {0}
  /\ Timed \in BOOLEAN
  /\ NULL \notin Conn

VARIABLES
  sock,              \* the socket of each connection
  filters,           \* kernel: the filters of its descriptor
  ready,             \* reports of this iteration not yet dispatched
  lastWriteFailed,   \* loop->data.last_write_failed
  silence            \* history: sweeps since a report of it was last handled

library == <<sock, filters, ready, lastWriteFailed, silence>>

Socket == [open : BOOLEAN, bits : SUBSET Bits, timeout : 0..IdleSweeps]
NoSocket == [open |-> FALSE, bits |-> {}, timeout |-> 0]

Report == [c : Conn \cup {NULL}, e : Events, eof : BOOLEAN]
SweepTimer == [c |-> NULL, e |-> READABLE, eof |-> FALSE]

LibraryTypeOK ==
  /\ sock \in [Conn -> Socket]
  /\ filters \in [Conn -> [Events -> Conn \cup {NULL}]]
  /\ ready \subseteq Report
  /\ lastWriteFailed \in BOOLEAN
  /\ silence \in [Conn -> 0..IdleSweeps]

LibraryInit ==
  /\ sock = [c \in Conn |-> NoSocket]
  /\ filters = [c \in Conn |-> NoFilters]
  /\ ready = {}
  /\ lastWriteFailed = FALSE
  /\ silence = [c \in Conn |-> 0]

-----------------------------------------------------------------------------
(***************************************************************************)
(* The calls handlers are made of.  They turn a record st, the state of    *)
(* one connection while its handler runs, into another; st.s, st.f and     *)
(* st.failed are the library's part of it.                                 *)
(***************************************************************************)
PollChange(st, id, events) ==
  LET old == PollEvents(st.s.bits)
  IN  IF old = events THEN st
      ELSE [st EXCEPT !.s.bits = ChangeBits(events),
                      !.f = KqueueChange(st.f, old, events, id)]

\* What accept and asock_poll_start leave behind, before on_open.
Accepted(st, id) ==
  [st EXCEPT !.s = [open |-> TRUE, bits |-> StartBits({READABLE}), timeout |-> 0],
             !.f = KqueueChange(NoFilters, {}, {READABLE}, id)]

\* asock_socket_write, when send took less than it was given
WriteFailed(st, id) == PollChange([st EXCEPT !.failed = TRUE], id, {READABLE, WRITABLE})

\* asock_socket_timeout(s, 30)
Armed(st) == [st EXCEPT !.s.timeout = IdleSweeps]

\* asock_socket_close: the descriptor goes, and its filters with it.
ClosedSocket(st) == [st EXCEPT !.s = NoSocket, !.f = NoFilters]

\* Around on_writable: "stop polling for more writable"
MStopPolling(st, id) ==   \* even when the handler's write failed
  PollChange(st, id, PollEvents(st.s.bits) \cap {READABLE})

StopPolling(st, id) ==
  IF ~st.failed
    THEN PollChange(st, id, PollEvents(st.s.bits) \cap {READABLE})
    ELSE st

\* recv found the end of the stream: "stop polling for readable"
StopReading(st, id) == PollChange(st, id, PollEvents(st.s.bits) \cap {WRITABLE})

LibraryBecomes(id, st) ==
  /\ sock' = [sock EXCEPT ![id] = st.s]
  /\ filters' = [filters EXCEPT ![id] = st.f]
  /\ lastWriteFailed' = st.failed
  /\ silence' = [silence EXCEPT ![id] = 0]

-----------------------------------------------------------------------------
(***************************************************************************)
(* The loop.  kevent reports every filter whose condition holds when it is *)
(* called, with EV_EOF once the client has shut its side down, and it      *)
(* blocks while there is none; time decides whether the sweep timer has    *)
(* run out.  The batch comes in any order.                                 *)
(***************************************************************************)
Reports(readable, writable, fin) ==
  {r \in [c : Conn, e : Events, eof : BOOLEAN] :
     /\ filters[r.c][r.e] # NULL
     /\ IF r.e = READABLE
          THEN r.c \in readable \cup fin /\ r.eof = (r.c \in fin)
          ELSE r.c \in writable /\ ~r.eof}

Kevent(readable, writable, fin) ==
  /\ ready = {}
  /\ \E timer \in IF Timed THEN SUBSET {SweepTimer} ELSE {{}} :
       ready' = Reports(readable, writable, fin) \cup timer
  /\ ready' # {}
  /\ UNCHANGED <<sock, filters, lastWriteFailed, silence>>

\* The loop filters a report by what the poll records; EV_EOF is an error and
\* passes whatever the poll records.
Heard(r) == r.e \in PollEvents(sock[r.c].bits)

Skip(r) ==
  /\ r # SweepTimer
  /\ ~r.eof
  /\ ~Heard(r)
  /\ ready' = ready \ {r}
  /\ UNCHANGED <<sock, filters, lastWriteFailed, silence>>

\* Closing takes a connection's other reports out of the batch
\* (asock_poll_stop, asock_loop_update_pending).
MReportsWithout(ids) == {r \in ready : r.c \notin ids \/ r.e = WRITABLE}   \* only one of them
ReportsWithout(ids) == {r \in ready : r.c \notin ids}

(***************************************************************************)
(* The sweep (TimerSweep has its walk): every armed timeout is one sweep   *)
(* shorter, and on_timeout is called for those that come to nothing.  An   *)
(* on_timeout closes its socket, so closing is all of them or none.        *)
(***************************************************************************)
Expiring == {c \in Conn : sock[c].timeout = 1}

SweepSockets(closing) ==
  /\ SweepTimer \in ready
  /\ sock' = [c \in Conn |-> IF c \in closing THEN NoSocket
                             ELSE [sock[c] EXCEPT !.timeout = IF @ > 0 THEN @ - 1 ELSE 0]]
  /\ filters' = [c \in Conn |-> IF c \in closing THEN NoFilters ELSE filters[c]]
  /\ ready' = ReportsWithout(closing \cup {NULL})
  /\ silence' = [c \in Conn |-> IF silence[c] < IdleSweeps THEN silence[c] + 1 ELSE IdleSweeps]
  /\ UNCHANGED lastWriteFailed

\* What working through a batch comes to: only a dispatch takes reports out of it.
BatchShrinks == ready' \in SUBSET ready

TimedOut(c) == SweepTimer \in ready /\ SweepTimer \notin ready' /\ sock[c].open /\ ~sock'[c].open
=============================================================================
