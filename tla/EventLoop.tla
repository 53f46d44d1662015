------------------------------ MODULE EventLoop ------------------------------
(***************************************************************************)
(* asock_loop_run and everything it drives: the kqueue loop, the dispatch  *)
(* of ready polls, the life of listen, connect and accepted sockets from   *)
(* malloc to the deferred free, and the calls an application makes from    *)
(* its handlers (src/core/loop.c, poll.c, socket.c, context.c, core.c).    *)
(*                                                                         *)
(* One step is the code between two points where control passes between    *)
(* the loop and a handler of the application.  While a handler runs, any   *)
(* number of Api steps may happen, on any socket the application can still *)
(* name.  asock_socket_close ends by calling on_close, so what an on_close *)
(* handler does inside another handler is just more Api steps of that one. *)
(*                                                                         *)
(* Abstractions: the order of a context's socket list (TimerSweep has it), *)
(* the closed list as the set of sockets flagged closed, data as the four  *)
(* outcomes of recv, and one fallthrough poll, CALLBACK, for the sweep     *)
(* timer and the wakeup async alike.                                       *)
(***************************************************************************)
EXTENDS Poll, Integers, FiniteSets

CONSTANTS
  Addr,        \* heap addresses at which a socket's poll can be allocated
  Fd,          \* file descriptors
  CALLBACK,    \* the loop's own fallthrough poll
  MaxReady,    \* room in loop->ready_polls (1024 in the code)
  EagerApp,    \* the application writes to or shuts down connecting sockets
  Adoption     \* "off", "synced" (see Adoptable) or "any"

ASSUME ConstantsAssumption ==
  /\ IsFiniteSet(Addr)
  /\ NULL \notin Addr \cup Fd
  /\ CALLBACK \notin Addr \cup Fd \cup {NULL}
  /\ MaxReady \in Nat
  /\ EagerApp \in BOOLEAN
  /\ Adoption \in {"off", "synced", "any"}

VARIABLES
  pc,               \* which part of asock_loop_run is executing
  cb,               \* the handler a ready poll has called, NoCb if none
  ready,            \* loop->ready_polls[0 .. num_ready_polls - 1]
  cur,              \* loop->current_ready_poll + 1; 0 before kevent first returns
  lastWriteFailed,  \* loop->data.last_write_failed
  numPolls,         \* loop->num_polls
  sock,             \* the heap: what is stored at each address
  openFds,          \* kernel: open descriptors
  listenFds,        \* kernel: those that are listening
  knote             \* kernel: the filters of each descriptor

vars == <<pc, cb, ready, cur, lastWriteFailed, numPolls, sock,
          openFds, listenFds, knote>>

(***************************************************************************)
(* closed: prev = context, and linked in loop->data.closed_head.           *)
(* opened is auxiliary: on_open has been called for this socket.           *)
(***************************************************************************)
Types == {"SOCKET", "SHUTDOWN", "SEMI"}
Sock  == [type : Types \cup {"FREED"}, bits : SUBSET Bits, fd : Fd \cup {NULL},
          closed : BOOLEAN, opened : BOOLEAN]
Freed == [type |-> "FREED", bits |-> {}, fd |-> NULL,
          closed |-> FALSE, opened |-> FALSE]

Kinds == {"open", "accept", "data", "writable", "end", "close", "tick"}
NoCb  == [kind |-> "none", s |-> NULL, ls |-> NULL]

Allocated   == {a \in Addr : sock[a].type # "FREED"}
IsClosed(s) == sock[s].closed
Live        == {a \in Allocated : ~IsClosed(a)}
IsShutdown(s) == sock[s].type = "SHUTDOWN"
PollsFor(s) == PollEvents(sock[s].bits)

Init ==
  /\ pc = "setup"
  /\ cb = NoCb
  /\ ready = <<>>
  /\ cur = 0
  /\ lastWriteFailed = FALSE
  /\ numPolls = 0
  /\ sock = [a \in Addr |-> Freed]
  /\ openFds = {}
  /\ listenFds = {}
  /\ knote = [f \in Fd |-> NoFilters]

-----------------------------------------------------------------------------
(***************************************************************************)
(* Pieces shared by the loop and the API.  Each fixes sock' and knote'.    *)
(***************************************************************************)

\* asock_poll_change: a no-op when the poll already records these events.
\* s is rewritten as t, which differs in what the caller sets besides.
PollChange(s, t, events) ==
  IF PollsFor(s) = events
    THEN /\ sock' = [sock EXCEPT ![s] = t]
         /\ UNCHANGED knote
    ELSE /\ sock' = [sock EXCEPT ![s] = [t EXCEPT !.bits = ChangeBits(events)]]
         /\ knote' = [knote EXCEPT ![sock[s].fd] =
                        KqueueChange(@, PollsFor(s), events, s)]

\* Descriptors come from socket and accept; a call that fails changes nothing.
CreateSocket(f) == f \notin openFds /\ openFds' = openFds \cup {f}

ListenSocket(f) == CreateSocket(f) /\ listenFds' = listenFds \cup {f}

ConnectSocket(f) == CreateSocket(f) /\ UNCHANGED listenFds

AcceptSocket(ls, f) ==
  sock[ls].fd \in listenFds /\ CreateSocket(f) /\ UNCHANGED listenFds

\* asock_poll_create, _init and _start, then asock_context_link.
NewPoll(a, f, type, events, opened) ==
  /\ a \notin Allocated
  /\ numPolls' = numPolls + 1
  /\ sock' = [sock EXCEPT ![a] = [type |-> type, bits |-> StartBits(events), fd |-> f,
                                  closed |-> FALSE, opened |-> opened]]
  /\ knote' = [knote EXCEPT ![f] = KqueueChange(@, {}, events, a)]

\* close(fd), which drops every filter of the descriptor.
MCloseFd(f) ==   \* asock_poll_stop, but no close
  /\ knote' = [knote EXCEPT ![f] = NoFilters]
  /\ UNCHANGED <<openFds, listenFds>>

CloseFd(f) ==
  /\ openFds' = openFds \ {f}
  /\ listenFds' = listenFds \ {f}
  /\ knote' = [knote EXCEPT ![f] = NoFilters]

\* The socket goes to the closed list; its memory stays until FreeClosed.
MBury(s) == sock' = [sock EXCEPT ![s] = Freed]   \* freed at once

Bury(s) == sock' = [sock EXCEPT ![s].closed = TRUE]

\* asock_socket_close and asock_core_listen_close: asock_poll_stop, close, bury.
\* What asock_poll_stop asks of kqueue is moot, the descriptor being closed.
Close(s) ==
  IF IsClosed(s)
    THEN UNCHANGED <<sock, knote, openFds, listenFds, ready>>
    ELSE /\ ready' = UpdatePending(ready, cur, s, NULL)
         /\ CloseFd(sock[s].fd)
         /\ Bury(s)

-----------------------------------------------------------------------------
(***************************************************************************)
(* The application.                                                        *)
(***************************************************************************)
AppRuns == pc \in {"setup", "pre", "post"} \/ cb # NoCb

\* A stream socket the application holds (asock_context_listen's result has
\* another type and is only ever closed).
Stream(s) == s \in Allocated /\ (IsClosed(s) \/ sock[s].fd \notin listenFds)

\* Write and shutdown are for sockets that were opened, unless EagerApp.
Usable(s) == Stream(s) /\ (EagerApp \/ sock[s].opened)

\* asock_context_listen
ApiListen(a, f) ==
  /\ AppRuns
  /\ ListenSocket(f)
  /\ NewPoll(a, f, "SEMI", {READABLE}, FALSE)
  /\ UNCHANGED <<pc, cb, ready, cur, lastWriteFailed>>

\* asock_context_connect
ApiConnect(a, f) ==
  /\ AppRuns
  /\ ConnectSocket(f)
  /\ NewPoll(a, f, "SEMI", {WRITABLE}, FALSE)
  /\ UNCHANGED <<pc, cb, ready, cur, lastWriteFailed>>

\* asock_socket_close.  The pending-list scan reads cur, which is set only once
\* kevent has returned.
ApiClose(s) ==
  /\ AppRuns
  /\ cur > 0
  /\ Stream(s)
  /\ Close(s)
  /\ UNCHANGED <<pc, cb, cur, lastWriteFailed, numPolls>>

\* asock_core_listen_close: no on_close, and maybe from inside the accept loop.
ApiListenClose(ls) ==
  /\ AppRuns
  /\ cur > 0
  /\ ls \in Live
  /\ sock[ls].fd \in listenFds
  /\ Close(ls)
  /\ UNCHANGED <<pc, cb, cur, lastWriteFailed, numPolls>>

\* asock_socket_write, when send takes less than all of the data, as it does on a
\* socket that is still connecting.  A complete send, and a call on a closed or
\* shut down socket, change nothing.
ApiWriteShort(s) ==
  /\ AppRuns
  /\ Usable(s)
  /\ ~IsClosed(s)
  /\ ~IsShutdown(s)
  /\ lastWriteFailed' = TRUE
  /\ PollChange(s, sock[s], {READABLE, WRITABLE})
  /\ UNCHANGED <<pc, cb, ready, cur, numPolls, openFds, listenFds>>

\* asock_socket_shutdown
ApiShutdown(s) ==
  /\ AppRuns
  /\ Usable(s)
  /\ ~IsClosed(s)
  /\ ~IsShutdown(s)
  /\ PollChange(s, [sock[s] EXCEPT !.type = "SHUTDOWN"], PollsFor(s) \cap {READABLE})
  /\ UNCHANGED <<pc, cb, ready, cur, lastWriteFailed, numPolls, openFds, listenFds>>

\* asock_poll_resize re-registers what the poll records, as if nothing were.
MResize(filters, events, n) == KqueueChange(filters, events, events, n)

Resize(filters, events, n) == KqueueChange(filters, {}, events, n)

\* What the kernel watches for s is what s says it polls for, and it is not nothing.
Synced(s) ==
  /\ PollsFor(s) # {}
  /\ {e \in Events : knote[sock[s].fd][e] # NULL} = PollsFor(s)

Adoptable(s) == Adoption = "any" \/ (Adoption = "synced" /\ Synced(s))

\* asock_context_adopt_socket when realloc moves the block from s to n.  When it
\* does not, or s is closed, nothing changes here.
ApiAdopt(s, n) ==
  /\ AppRuns
  /\ cur > 0
  /\ Stream(s)
  /\ ~IsClosed(s)
  /\ Adoptable(s)
  /\ n \notin Allocated
  /\ sock' = [sock EXCEPT ![n] = sock[s], ![s] = Freed]
  /\ IF PollsFor(s) # {}
       THEN /\ knote' = [knote EXCEPT ![sock[s].fd] = Resize(@, PollsFor(s), n)]
            /\ ready' = UpdatePending(ready, cur, s, n)
       ELSE UNCHANGED <<knote, ready>>
  /\ cb' = IF cb.s = s THEN [cb EXCEPT !.s = n] ELSE cb   \* the handler returns n
  /\ UNCHANGED <<pc, cur, lastWriteFailed, numPolls, openFds, listenFds>>

Api ==
  \/ \E a \in Addr, f \in Fd : ApiListen(a, f) \/ ApiConnect(a, f)
  \/ \E s \in Addr : ApiClose(s) \/ ApiListenClose(s) \/ ApiWriteShort(s) \/ ApiShutdown(s)
  \/ \E s, n \in Addr : ApiAdopt(s, n)

-----------------------------------------------------------------------------
(***************************************************************************)
(* The iteration: asock_loop_pre, kevent, the ready list, asock_loop_post. *)
(***************************************************************************)
LoopCheck ==
  /\ pc \in {"setup", "post"}
  /\ pc' = IF numPolls = 0 THEN "exit" ELSE "pre"
  /\ UNCHANGED <<cb, ready, cur, lastWriteFailed, numPolls, sock, openFds, listenFds, knote>>

Triggers == {t \in Fd \X Events : knote[t[1]][t[2]] # NULL} \cup {<<CALLBACK, READABLE>>}
Udata(t) == IF t[1] = CALLBACK THEN CALLBACK ELSE knote[t[1]][t[2]]

\* kevent reports some of the registered filters, each once, in any order,
\* EV_EOF or EV_ERROR set on any socket's; none when it is interrupted.
Kevent ==
  /\ pc = "pre"
  /\ \E n \in 0..MaxReady :
       \E t \in [1..n -> Triggers], eof \in [1..n -> BOOLEAN] :
         /\ \A i, j \in 1..n : t[i] = t[j] => i = j
         /\ \A i \in 1..n : eof[i] => t[i][1] # CALLBACK
         /\ ready' = [i \in 1..n |-> [poll |-> Udata(t[i]), filter |-> t[i][2], eof |-> eof[i]]]
  /\ pc' = "dispatch"
  /\ cur' = 1
  /\ UNCHANGED <<cb, lastWriteFailed, numPolls, sock, openFds, listenFds, knote>>

\* asock_poll_free, of every socket in gone.
MPollFree(gone) ==   \* num_polls forgotten
  /\ sock' = [a \in Addr |-> IF a \in gone THEN Freed ELSE sock[a]]
  /\ UNCHANGED numPolls

PollFree(gone) ==
  /\ sock' = [a \in Addr |-> IF a \in gone THEN Freed ELSE sock[a]]
  /\ numPolls' = numPolls - Cardinality(gone)

\* asock_socket_free_closed, then post_cb.
MFreeClosed ==   \* post_cb only
  /\ pc = "dispatch"
  /\ cur > Len(ready)
  /\ pc' = "post"
  /\ UNCHANGED <<cb, ready, cur, lastWriteFailed, numPolls, sock, openFds, listenFds, knote>>

FreeClosed ==
  /\ pc = "dispatch"
  /\ cur > Len(ready)
  /\ PollFree({a \in Addr : IsClosed(a)})
  /\ pc' = "post"
  /\ UNCHANGED <<cb, ready, cur, lastWriteFailed, openFds, listenFds, knote>>

-----------------------------------------------------------------------------
(***************************************************************************)
(* asock_poll_ready_dispatch, one action per way it can go.                *)
(***************************************************************************)
MAdvance == cur' = cur + 2 /\ cb' = NoCb   \* stepped twice

Advance == cur' = cur + 1 /\ cb' = NoCb

Call(kind, s) == cb' = [kind |-> kind, s |-> s, ls |-> NULL] /\ UNCHANGED cur

Entry == ready[cur]
ReadyEvents(s) == {Entry.filter} \cap PollsFor(s)

Dispatching == pc = "dispatch" /\ cb = NoCb /\ cur <= Len(ready)

\* The current entry is socket s, and the loop's filter lets it through.
Dispatches(s) ==
  /\ Dispatching
  /\ Entry.poll = s
  /\ ReadyEvents(s) # {} \/ Entry.eof

SkipReady ==
  /\ Dispatching
  /\ Entry.poll # CALLBACK
  /\ Entry.poll \in Addr => ~Dispatches(Entry.poll)
  /\ Advance
  /\ UNCHANGED <<pc, ready, lastWriteFailed, numPolls, sock, openFds, listenFds, knote>>

DispatchCallback ==
  /\ Dispatching
  /\ Entry.poll = CALLBACK
  /\ Call("tick", NULL)
  /\ UNCHANGED <<pc, ready, lastWriteFailed, numPolls, sock, openFds, listenFds, knote>>

\* A semi-socket that polls for writable only is a connect socket.
MDispatchConnect(s) ==   \* it stays a semi-socket
  /\ Dispatches(s)
  /\ sock[s].type = "SEMI"
  /\ PollsFor(s) = {WRITABLE}
  /\ sock' = [sock EXCEPT ![s].opened = TRUE]
  /\ Call("open", s)
  /\ UNCHANGED <<pc, ready, lastWriteFailed, numPolls, openFds, listenFds, knote>>

DispatchConnect(s) ==
  /\ Dispatches(s)
  /\ sock[s].type = "SEMI"
  /\ PollsFor(s) = {WRITABLE}
  /\ sock' = [sock EXCEPT ![s].type = "SOCKET", ![s].opened = TRUE]
  /\ Call("open", s)   \* asock_poll_change to WRITABLE changed nothing
  /\ UNCHANGED <<pc, ready, lastWriteFailed, numPolls, openFds, listenFds, knote>>

\* One turn of the accept loop of ls: a connection, or accept's -1.
Accept(ls) ==
  \/ /\ \E a \in Addr, f \in Fd :
          /\ AcceptSocket(ls, f)
          /\ NewPoll(a, f, "SOCKET", {READABLE}, TRUE)
          /\ cb' = [kind |-> "accept", s |-> a, ls |-> ls]
     /\ UNCHANGED <<pc, ready, cur, lastWriteFailed>>
  \/ /\ Advance
     /\ UNCHANGED <<pc, ready, lastWriteFailed, numPolls, sock, openFds, listenFds, knote>>

DispatchAccept(s) ==
  /\ Dispatches(s)
  /\ sock[s].type = "SEMI"
  /\ PollsFor(s) # {WRITABLE}
  /\ Accept(s)

\* The socket case of the switch, for an event e or, first of all, an error.
Proper(s) == Dispatches(s) /\ sock[s].type \in {"SOCKET", "SHUTDOWN"}
Event(s, e) == Proper(s) /\ ~Entry.eof /\ ReadyEvents(s) = {e}

CloseAndCall(s) ==
  /\ Close(s)
  /\ Call("close", s)
  /\ UNCHANGED <<pc, lastWriteFailed, numPolls>>

DispatchError(s) == Proper(s) /\ Entry.eof /\ CloseAndCall(s)

DispatchWritable(s) ==
  /\ Event(s, WRITABLE)
  /\ lastWriteFailed' = FALSE
  /\ Call("writable", s)
  /\ UNCHANGED <<pc, ready, numPolls, sock, openFds, listenFds, knote>>

RecvData(s) ==
  /\ Event(s, READABLE)
  /\ Call("data", s)
  /\ UNCHANGED <<pc, ready, lastWriteFailed, numPolls, sock, openFds, listenFds, knote>>

RecvEnd(s) ==
  /\ Event(s, READABLE)
  /\ ~IsShutdown(s)
  /\ PollChange(s, sock[s], PollsFor(s) \cap {WRITABLE})
  /\ Call("end", s)
  /\ UNCHANGED <<pc, ready, lastWriteFailed, numPolls, openFds, listenFds>>

\* FIN back after our own, or recv failed for good.
RecvClose(s) == Event(s, READABLE) /\ CloseAndCall(s)

RecvWouldBlock(s) ==
  /\ Event(s, READABLE)
  /\ Advance
  /\ UNCHANGED <<pc, ready, lastWriteFailed, numPolls, sock, openFds, listenFds, knote>>

-----------------------------------------------------------------------------
(***************************************************************************)
(* A handler returns to the loop.                                          *)
(***************************************************************************)
ReturnWritable ==
  /\ cb.kind = "writable"
  /\ IF ~IsClosed(cb.s) /\ (~lastWriteFailed \/ IsShutdown(cb.s))
       THEN PollChange(cb.s, sock[cb.s], PollsFor(cb.s) \cap {READABLE})
       ELSE UNCHANGED <<sock, knote>>
  /\ Advance
  /\ UNCHANGED <<pc, ready, lastWriteFailed, numPolls, openFds, listenFds>>

\* The accept loop goes on unless on_open closed the listen socket.
ReturnAccept ==
  /\ cb.kind = "accept"
  /\ ~IsClosed(cb.ls)
  /\ Accept(cb.ls)

ReturnOther ==
  /\ \/ cb.kind \in {"open", "data", "end", "close", "tick"}
     \/ cb.kind = "accept" /\ IsClosed(cb.ls)
  /\ Advance
  /\ UNCHANGED <<pc, ready, lastWriteFailed, numPolls, sock, openFds, listenFds, knote>>

-----------------------------------------------------------------------------
Dispatch(s) ==
  \/ DispatchConnect(s) \/ DispatchAccept(s) \/ DispatchError(s) \/ DispatchWritable(s)
  \/ RecvData(s) \/ RecvEnd(s) \/ RecvClose(s) \/ RecvWouldBlock(s)

Loop ==
  \/ LoopCheck \/ Kevent \/ FreeClosed
  \/ SkipReady \/ DispatchCallback
  \/ \E s \in Addr : Dispatch(s)
  \/ ReturnWritable \/ ReturnAccept \/ ReturnOther

\* asock_loop_run has returned.
Done == pc = "exit" /\ UNCHANGED vars

Next == Api \/ Loop \/ Done

Spec == Init /\ [][Next]_vars

(***************************************************************************)
(* The sweep timer repeats, so kevent returns again and again; handlers    *)
(* return.  Nothing obliges the application or the network to act.         *)
(***************************************************************************)
FairSpec == Spec /\ WF_vars(Loop)

-----------------------------------------------------------------------------
(***************************************************************************)
(* Correctness.                                                            *)
(***************************************************************************)
ReadyEntry == [poll : Addr \cup {NULL, CALLBACK}, filter : Events, eof : BOOLEAN]

\* Every variable stays in the range the code gives it.
TypeOK ==
  /\ pc \in {"setup", "pre", "dispatch", "post", "exit"}
  /\ cb \in [kind : Kinds \cup {"none"}, s : Addr \cup {NULL}, ls : Addr \cup {NULL}]
  /\ ready \in Seq(ReadyEntry)
  /\ Len(ready) <= MaxReady
  /\ cur \in 0..Len(ready) + 1
  /\ lastWriteFailed \in BOOLEAN
  /\ numPolls \in Int
  /\ sock \in [Addr -> Sock]
  /\ openFds \in SUBSET Fd
  /\ listenFds \in SUBSET Fd
  /\ knote \in [Fd -> [Events -> Addr \cup {NULL}]]

\* The loop casts the udata of every entry it has not passed yet to a poll: a
\* socket closed, freed or moved by an earlier handler of the same iteration
\* must be gone from the rest of the list (asock_loop_update_pending).
PendingReadyLive ==
  \A i \in DOMAIN ready : i >= cur => ready[i].poll \in Live \cup {NULL, CALLBACK}

\* The kernel holds raw pointers too: each registered filter points to a live
\* poll, the one that owns the descriptor (asock_poll_stop, asock_poll_resize).
KnotesTargetLive ==
  \A f \in Fd, e \in Events :
    knote[f][e] # NULL => knote[f][e] \in Live /\ sock[knote[f][e]].fd = f

\* Descriptors are neither leaked nor shared nor closed under a live socket,
\* although the kernel hands a number out again as soon as it is closed.
FdsOwned ==
  /\ openFds = {sock[s].fd : s \in Live}
  /\ \A s, t \in Live : sock[s].fd = sock[t].fd => s = t

\* asock_loop_run runs exactly as long as num_polls is not 0: it has to be the
\* number of polls still in memory, or the loop stops early or never.
NumPollsExact == numPolls = Cardinality(Allocated)

\* The socket a handler was called for, and the listen socket whose accept loop
\* called it, stay in memory until the handler returns, whatever it closes.
HandlerPointersValid ==
  /\ cb.s \in Allocated \cup {NULL}
  /\ cb.ls \in Allocated \cup {NULL}

\* No sequence of events makes a listen socket deaf: while open it records and
\* is registered for readable, nothing else, and is dispatched as a semi-socket.
ListenersKeepPolling ==
  \A s \in Live : sock[s].fd \in listenFds =>
    /\ sock[s].type = "SEMI"
    /\ PollsFor(s) = {READABLE}
    /\ knote[sock[s].fd] = [e \in Events |-> IF e = READABLE THEN s ELSE NULL]

\* asock_loop_run drops events a poll does not record, "what they actually poll
\* for": the recorded events of a live poll are the filters the kernel has.
PollsMatchKernel ==
  \A s \in Live : PollsFor(s) = {e \in Events : knote[sock[s].fd][e] # NULL}

\* Dispatch tells connect from listen sockets by their events: a live semi-socket
\* polls for writable alone exactly when its descriptor is not listening.
SemiEventsTellRole ==
  \A s \in Live : sock[s].type = "SEMI" =>
    (PollsFor(s) = {WRITABLE} <=> sock[s].fd \notin listenFds)

\* "We are now a proper socket" (poll.c): a connected socket the application wrote
\* nothing to from on_open is there to be read, as an accepted one is.
ConnectedSocketsHear ==
  [][cb.kind = "open" /\ cb' = NoCb /\ cb.s \in Live /\ ~IsShutdown(cb.s)
       => knote[sock[cb.s].fd][READABLE] # NULL]_vars

-----------------------------------------------------------------------------
(***************************************************************************)
(* The loop implements SocketLifecycle.                                    *)
(***************************************************************************)
Stage(a) ==
  IF a \notin Allocated            THEN "free"
  ELSE IF IsClosed(a)              THEN "closed"
  ELSE IF sock[a].opened           THEN "open"
  ELSE IF sock[a].fd \in listenFds THEN "listening"
  ELSE "connecting"

Lifecycle == INSTANCE SocketLifecycle WITH
  Socket <- Addr, NULL <- NULL,
  life <- [a \in Addr |-> Stage(a)], handler <- <<cb.kind, cb.s>>

\* Handlers are called in a legal order on sockets that are open, and nothing is
\* freed under a handler: the loop's steps are steps of SocketLifecycle.
ImplementsLifecycle == Lifecycle!LifeSpec

\* A socket that was closed is freed at the end of an iteration that comes.
ClosedIsFreed == \A a \in Addr : sock[a].closed ~> ~sock[a].closed

\* Once every socket is closed and the application opens no other, the loop
\* returns to its caller.
DrainedLoopReturns == <>[](Live = {}) => <>(pc = "exit")
=============================================================================
