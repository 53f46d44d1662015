# A TLA+ verification of asock

asock is an event-driven socket library in C: one thread runs a loop over
kqueue, sockets are heap blocks the kernel points to, and the application lives
in handlers that the loop calls and that call back into the library. Most of
what can go wrong here goes wrong between those calls: a handler closes, frees or
moves a socket that the loop, the kernel or another list is about to follow. The
specifications in this directory model that code, TLC checks them on small
instances, and TLAPS proves the main safety properties for instances of any size.

Paths are those of the repository (`core/` and `http/` are under `src/`).

## The system

| Component | State it keeps | Operations | Talks to |
|---|---|---|---|
| Poll layer (`core/poll.c`) | `poll_type`: a type and two bits for what the poll says it polls for; the filters it has registered in the kernel | create, init, start, change, stop, resize, free, ready_dispatch | kqueue; the loop's ready list (`update_pending`); the handlers of the context |
| Event loop (`core/loop.c`) | `num_polls`, `ready_polls`, `current_ready_poll`, `last_write_failed`, list of contexts, closed list | run, pre, post, update_pending, link, integrate, wakeup | kqueue; dispatch; the sweep |
| Sockets (`core/socket.c`) | list links, context, timeout; `prev = context` marks it closed | write, shutdown, close, timeout, free_closed | poll layer, contexts |
| Contexts (`core/context.c`) | head of a doubly linked socket list, an iterator for sweeps, the handlers | create, link, unlink, listen, connect, adopt | loop, sockets |
| BSD calls (`core/core.c`) | descriptors, in the kernel | create, listen, connect, accept, close, recv, send | the kernel |
| Timers and sweep (`core/timer.c`) | an `EVFILT_TIMER` per timer; each socket's count of sweeps | create, set, close; sweep | the loop's own timer, `on_socket_timeout` |
| Asyncs (`core/async.c`) | an `EVFILT_USER` per async | create, set, wakeup, close | any thread, through the kernel |
| HTTP server (`http/core.c`) | per socket the offset of the next byte to write; per context one response | on_open, on_data, on_writable, on_end, on_timeout, run | the socket API |
| HTTP parser (`http/core.c`) | none of its own; the loop's receive buffer, shared by all sockets, never cleared and never terminated | parse, parse_method, parse_url | on_data |
| Echo server (`examples/echo_server.c`) | per socket a heap block of unwritten bytes and its length | on_open, on_data, on_writable, on_end, on_close, on_timeout | the socket API |
| HTTP example (`examples/http_server.c`) | as the HTTP server | the HTTP server's handlers without the parser, `main` | the socket API |

SSL and SQL are declarations without code. The empty test and the build script are
not modelled.

The hard behaviours, each listed with its line under `hazards` in `PROJECT.json`:

* **pointers under callbacks**: pending ready entries and kernel filters after
  a close, a deferred free, a reused descriptor or a `realloc` that moves a socket; timers
  that are freed while kqueue has their address; a freed backlog's pointer;
* **legal calls in an unusual order**: short write on a connecting socket,
  listen socket closed inside its accept loop, adoption in the middle of a sweep;
* **bookkeeping on which progress hangs**: `num_polls`, the writable filter
  after a short write, the sweep timer, a wakeup from another thread;
* **lists walked while they change**: the sweep's iterator;
* **short writes**: what a handler keeps for on_writable, across further short
  writes, new data, timeouts and closes;
* **a shared buffer**: a request is parsed as a string over what earlier ones left, and
  ends at the first NUL there happens to be;
* **numbers**: sweeps in an unsigned short, a timeout of 0, positions and lengths
  of the parser.

## Modules

```
Poll ---------> EventLoop ------> EventLoopMC
   |               |  +---------> EventLoopProofs
   |               +- implements SocketLifecycle
   +----------> PollProofs (lemmas, used by EventLoopProofs)
   |               +---------> HttpServerProofs, EchoServerProofs
   +----------> Connections ----> HttpServer ---^         ^
                        +-------> EchoServer -------------+
ContextList --> TimerSweep - implements TimeoutSpec
   |               +-----------> TimerSweepProofs
   +----------> ContextListProofs (lemmas, used by TimerSweepProofs)
LoopCallbacks ------------------> LoopCallbacksProofs
HttpParser ---------------------> HttpParserProofs
```

**Poll** has the poll layer's data as operators: the bits that `start` and
`change` record, what `asock_poll_events` reads out of them, the change list handed
to kqueue (applied in order, stopped by the first refused change, the result
ignored), and `asock_loop_update_pending`.

**EventLoop** is the core: `asock_loop_run`, `asock_poll_ready_dispatch`, the closed
list and its free, and the API an application uses from handlers. A step is the
code between two points where control passes between the loop and a handler.
`pc` says where the loop is; `cb` is the handler running and the pointers the code
uses when it returns (`s`, and the listen socket of the accept loop); while it runs,
any number of `Api*` steps may happen on any socket the application can still
name. What an `on_close` handler does inside another handler is covered, being
more of the same. Each way through dispatch is an action of its own
(`DispatchConnect`, `DispatchAccept`, `DispatchError`, `DispatchWritable`, `RecvData`,
`RecvEnd`, `RecvClose`, `RecvWouldBlock`), and each way back (`ReturnWritable`,
`ReturnAccept`, `ReturnOther`). Addresses and descriptors are reused as soon as
`free` and `close` give them back.

**SocketLifecycle** is what the loop promises an application: a socket is
listening or connecting, then open, then closed, then free; handlers are called in
a legal order, on open sockets; the memory a handler was given stays until
it returns. `ImplementsLifecycle` is that EventLoop refines it.

**ContextList** has the intrusive lists as operators on a memory: `Link`, `Unlink`
with its iterator update, `Bury`, `Relocate`.

**TimerSweep** is the timeout sweep over those lists, one socket per step, the
handler free to close, create, adopt and re-arm any socket between
`TimeOut` and `TimeOutReturns`. **TimeoutSpec** says what it promises without lists: of every
context in turn the sockets it has when its turn comes are visited once, in any
order, and on_timeout is called exactly for those whose count ends. The
refinement maps what is behind the iterator to the set still to be visited.

**LoopCallbacks** is the other kind of poll: timers and asyncs, counted in
`num_polls` unless created as fallthrough, freed at once when closed, and woken from
other threads at any point. The application closes any of them at any time; `early` records
the closes after which kqueue can still report the address. A dispatch of such an
address, or of one that is another poll's by now, calls whatever is there or ends the process
(`DispatchCrashes`). EventLoop has one fallthrough poll, `CALLBACK`, in their
place; LoopCallbacks has a number, `sockets`, in place of EventLoop's. `LoopFree` is
`asock_loop_free` once the loop has returned.

**Connections** is the library as a server's accepted connections see it: each socket's
bits, filters and timeout, the batch of reports the loop is working through, short
writes, closes that take reports out of the batch, and the sweep. One step is one
report with the handler it calls, since the handlers of the two servers touch only
their own connection.

**HttpServer** adds `ahttp_run` and the program of `examples/http_server.c`: the registration
of handlers, the handlers, and a client. A response is a number of bytes; what the
client has got so far is where the next byte belongs in a response and whether a
byte ever came out of place.

**EchoServer** adds `examples/echo_server.c`, with the heap its backlogs live in, byte by
byte: the bytes are numbered as the client sends them, so a byte lost, repeated or
overtaken shows. All connections share the heap, so that a stale pointer's block may be
handed out to another connection, as malloc does. The code does not survive two
events, which the history variables `undefined` (memory was freed that had been freed
before) and `cut` (a continuation of this connection's backlog wrote some of it and was cut
short) record, and the properties say what holds up to them.

**HttpParser** is `ahttp_core_parse` over the shared buffer, one byte per step, against the
definition of the field between the first two spaces. Clients send any bytes, NUL among them;
the buffer starts with whatever malloc left in it, and behind it is memory of other blocks,
which changes between requests. `strlen` ends at the first NUL in all of that, or runs out of
memory (`Overrun`).

`PROJECT.json` gives for each definition the lines it models. The operators whose
names start with `M` are deliberately wrong variants of the definition that follows
them; each property fails under at least one.

### Abstractions

* Data is left out of EventLoop: `recv` is one of its four outcomes, a write is
  complete (and changes nothing) or short. HttpServer counts bytes, EchoServer and
  HttpParser have them.
* EventLoop keeps the closed list as the set of sockets flagged closed, and leaves
  the order of a context's list to TimerSweep.
* A handler returns the socket it was given, or what adoption moved it to, as the
  API asks.
* Calls that can fail outside asock (`socket`, `listen`, `getaddrinfo`) change nothing
  when they fail.
* kqueue is external: `Kevent` returns any filters that are registered, each once, in
  any order, some with EV_EOF or EV_ERROR. That is more than a kernel would do,
  and it includes a report whose data is gone (`RecvWouldBlock`).
* `num_ready_polls` is uninitialised until kevent first returns; calls that read it
  (close, adopt) are modelled only after that (`cur > 0`).
* Variables or fields that the code does not have: `opened` (on_open was called),
  `want` (sweeps a timeout should still wait), `disarmed`, `asked`, `early`, `silence` (sweeps
  since a report of the connection was handled), `hasty` (the client sent before it
  had its echo), `cut`, `undefined`. They are written, and read by properties, by guards on the
  application or the client, and by the choice below only.
* In Connections kqueue reports exactly what is true when it is called; a report may
  be stale by the time it is dispatched. `Timed = FALSE` is a system that is done
  before the sweep timer first fires.
* What undefined behaviour does is a choice: calling a handler that was never set,
  calling through a poll that was freed, freeing a block twice, reading a string without an end or
  printing one ends the process or goes on (`crashed`). Where it goes on, a repeated free frees
  what is at that address by then, which is how one connection's stale pointer takes another's
  backlog, and bytes read behind a block are 0, a byte no client sent.
* The memory behind the receive buffer does not change while the parser runs over it (it
  allocates one block, of the url); it may have changed by the next request.
* The streams of an echo connection end with the connection: `wire` is that of the
  connections that are open.
* HttpServer's send buffer is writable when it has any room; `LowWater` of EchoServer
  is the room from which kqueue says so.
* `malloc` is not checked anywhere in the code; it never fails here. EchoServer has one
  block more than its connections' backlogs, for the copy a handler makes.

## Runs

| Run | Instance | Shows |
|---|---|---|
| `EventLoop_safety` | 3 addresses, 2 descriptors, 2 entries per iteration, adoption of synchronised sockets | 8 invariants and the refinement of SocketLifecycle |
| `EventLoop_liveness` | 2 addresses, 2 descriptors, 1 entry, `EagerApp` | closed sockets are freed; a drained loop returns |
| `TimerSweep` | 3 addresses, 2 contexts, timeouts off and 9 s (2 sweeps) | the lists, a sweep that never leaves them, the refinement of TimeoutSpec, sweeps end, timeouts run out |
| `LoopCallbacks` | 1 address for the application's polls, 1 other poll, up to 4 events per iteration | counting; every poll called exists or was closed while kqueue could still report it; wakeups heard, sweeps recur |
| `HttpServer` | both programs; 2 clients with 2 requests each, 3-byte responses, a 1-byte send buffer, timeouts of 2 sweeps | whole answers, at most one per request read, completed; idle connections closed where the timeout's handler is registered |
| `HttpParser` | 5-byte buffer of any content and a byte of memory behind it, requests of 1 to 4 bytes; a letter, a space and NUL | finds the second field, and finds it in the request if it is there or a NUL ends the request |
| `EchoServer` | 2 clients on one heap of 3 blocks, 3 bytes each and 4 together, a 1-byte send buffer, timeouts of 2 sweeps, one of the clients leaves | lengths agree always; until a stale pointer is freed, a backlog in a live block of its own and its size; until a continuation is cut short besides, no byte lost, repeated or made up, and echo in order for a client that waits; a backlog always polled for; exactly the boring are closed |

Why these bounds: three addresses give a socket being dispatched, a second one a
handler acts on, and a free block for a move or a new socket; two descriptors and
two entries give a pending entry behind the current one whose descriptor is closed
and handed out again; two filters of one poll may fill both entries. Three
sockets give a list an inner node, and two contexts one whose turn is still to come.
A response of three buffers needs a second short write from on_writable, and a third
that is complete. After its first short write the bits `asock_poll_change` swaps have dispatch
skip the connection's readable reports, so in this run, where every response is short, a
connection's second request is read by nobody; the answer to the first is what it is about.
Messages of 2 and 3 bytes into a buffer of 1 leave a backlog that one
continuation finishes, or needs two for and is cut short, and one that grows by the next
message. Two clients with backlogs, and a third block for the copy, let the block of a
finished backlog go to the other connection before its stale pointer is freed by a close;
up to that free the properties are checked, past it types, lengths, patience and liveness
are. Two sweeps let a timeout be
armed, counted and armed again before it runs out. A buffer longer than the
longest request has room for what is left of earlier ones, a byte behind it for a string that
ends outside, and requests of four bytes for two spaces, or one, with a NUL anywhere.
One address is enough for a timer that is closed armed, freed, allocated again as an
async and reported in between, beside the loop's own two polls; four events are all that can
fire then. Two addresses with at most two events pass too (240,074 states). The proofs remove the bounds for the safety
properties they cover. States of `EventLoop_safety` that differ by a renaming of
addresses or descriptors are checked once (`Symmetry`, only safety properties in that
run), and `View` forgets the ready entries that have been passed.

The other runs each show the code disagreeing with a comment of its own:

| Run | What happens | Says otherwise |
|---|---|---|
| `EventLoop_kernel_filters` | after `asock_poll_change` a poll records the opposite of its filters (`core/poll.c:141-142` pairs WRITABLE with IN) | `core/loop.c:46-47` |
| `LoopCallbacks_fallthrough` | closing a fallthrough timer takes one off `num_polls` | `core/loop.h:43` |
| `HttpServer_idle_timeout` | the timeout handler is registered as on_end; the timeout calls a handler nobody set | `http/core.c:255` |
| `HttpServer_half_close` | a client that sends a request and shuts its side down is closed on EV_EOF, the request unread | `core/poll.c:340` |
| `EchoServer_second_short` | a continuation cut short keeps the bytes it wrote and drops the others | `examples/echo_server.c:46` |

Further configurations, not among the regular runs, each end in a counterexample within
seconds (`tlc -config <name>.cfg <module>`) and explain a bound or a constant above:

| Configuration | What happens | Says otherwise |
|---|---|---|
| `EventLoop_semi_role` (EventLoopMC) | a short write to a connecting socket has it dispatched as a listen socket | `core/poll.c:219-220` |
| `EventLoop_adopt_any` (EventLoopMC) | adopting a socket whose bits and filters differ leaves a filter with the old address | `core/poll.c:195` |
| `EventLoop_deaf_client` (EventLoopMC) | a connected socket stays registered for writable only | nothing; `core/poll.c:224` calls it "a proper socket" |
| `TimerSweep_long_timeout` (TimerSweep) | 262144 s are 65536 sweeps, 0 in an unsigned short, so the timeout runs out at once | `core/socket.h:78` |
| `LoopCallbacks_disarm` (LoopCallbacks) | a timer set with 0 and 0 fires | `core/timer.h:43` |
| `LoopCallbacks_close_armed` (LoopCallbacks) | a timer closed while armed fires, and the loop calls through its freed poll | nothing; `core/timer.c:38-39` prepares the `EV_DELETE` |
| `HttpParser_stale` (HttpParser) | a request without two spaces is parsed on into whatever is behind it | nothing |
| `EchoServer_stale_pointer` (EchoServer) | the pointer of a backlog that was written out frees another connection's backlog | nothing |

Constants keep these apart from the rest: `EagerApp` (the application writes to
connecting sockets), `Adoption` ("synced" is adoption of sockets whose recorded
events are their filters), `Fallthrough`, `Disarms`, `Seconds`, `Programs`, `Pipelining`. What a passing
run shows is to be read with its values. `MaxReady`, `MaxBytes`, `MaxPair` and `Leaving` only
bound an instance. `TimeoutNotEarly` counts sweeps, not seconds: the
first sweep may come right after a timeout is set, so a timeout may run out up to
one granularity early in real time.

### Fairness

* EventLoop and LoopCallbacks: weak fairness of the loop as a whole. Handlers
  return, and kevent returns because the sweep timer repeats. Nothing obliges the
  application or the network to do anything.
* LoopCallbacks: strong fairness that a filter which stays triggered is reported in
  the end; kqueue keeps active filters in a queue.
* TimerSweep: weak fairness of the walk, strong fairness of the sweep's start and of
  `FreeClosed`, which both come again and again since the timer repeats and every
  iteration ends in `asock_loop_post`. `ArmedRunsOut` adds, as a premise, that a timeout is
  not set again for ever.
* HttpServer and EchoServer: weak fairness of the batch shrinking, since a `for` loop
  walks it; strong fairness of a kevent that reports the sweep timer, which repeats. HttpServer
  adds weak fairness of kevent, once it has something to report, and of the clients' reading,
  since `AnswersComplete` is about what the server does for clients that read; EchoServer's
  clients need not even read. Clients need not ask, send or leave. (`BatchShrinks` names what working
  through the batch comes to, and the subscript is `ready`, so the fairness is of the
  loop and not of any one report.)

## Proofs

`EventLoopProofs` proves, for any finite set of addresses, any set of descriptors and any
`MaxReady`, under `Adoption # "any"`:

* `TypeSafety` (TypeOK), `MemorySafety` (PendingReadyLive), `KernelSafety`
  (KnotesTargetLive), `HandlerSafety` (HandlerPointersValid), `DescriptorSafety` (FdsOwned),
  `PollCounting` (NumPollsExact) and `ListenersHear` (ListenersKeepPolling).

They follow from one inductive invariant, `IInv` (`Invariance`), because the properties
are not inductive alone. `PendingReadyLive` needs `KnotesTargetLive`, since kevent copies the
kernel's pointers into the ready list, and `PendingDistinct`: `update_pending` stops after two
entries, which is enough only if no poll is pending twice for one filter. `KnotesTargetLive`
needs `FdsOwned`, as it is the descriptor that ties a filter to a poll when a close drops
filters, and `HeapClean`: free memory has no state, a socket in memory has a descriptor.
`ListenersKeepPolling` and `HandlerInv` hold each other up: `HandlerInv` says that a handler
runs only while the loop is at a ready entry (so nothing is freed under it), that
on_writable is called for a proper socket and the accept loop for a listen socket, hence
that neither changes what a listen socket polls for. The proof has one lemma per action
over lemmas on what the operators of Poll return (`UpdatePendingAll`,
`KqueueChangeFilters` and others). `EagerApp` is not
restricted, so the theorems cover applications that write to connecting sockets as
well, which the safety run does not.

Its second part proves, when the application does not write to connecting sockets,
that the loop implements SocketLifecycle (`LifecycleRefinement`: the initial state and every
action, each mapped to the abstract action it performs or to a stutter). The mapping
reads a socket's stage off the code's own state, so the proof needs to know that
dispatch tells sockets apart as the mapping does: `DispatchTellsRoles` (SemiEventsTellRole).
This follows from `RoleInv` on top of IInv: a listen socket is never opened, and any other
live socket is a semi-socket exactly until its on_open is called, and polls for writable
alone until then. `EagerApp` breaks exactly this, as `EventLoop_semi_role` shows.

`LoopCallbacksProofs` proves for any finite number of timers and asyncs, whatever the
application creates, closes and wakes: `CallbackTypes` (TypeOK), `WakeupSafety`
(WakeupNotLost) and `CallbackSafety` (CallbacksLive). For wakeups: a wakeup another thread asks for, at any point of the loop, is a trigger in the
kernel or an entry of the batch that is still to come, until its handler runs. With no
fallthrough polls of the application: `CallbackCounting` (NumPollsCounts) and
`LoopReturnsLast` (LoopWaits). `CallbackSafety` is of any application. It does not say that no freed
poll is called, which is false (`LoopCallbacks_close_armed`): it says which closes can bring
that about, namely `asock_timer_close` of an armed timer and either close between kevent and the
dispatch of the poll's own report, and that no trigger outlives its async. The invariants
(`CountInv`, `WakeInv`, `LiveInv`) add that the loop's own polls stay in memory and are never `early`
(`OwnPolls`), and that a callback runs only during dispatch, for the current entry.

`TimerSweepProofs` proves for any finite number of sockets and contexts: `SweepTypes`
(TypeOK, hence no count below zero), `ListSafety` (ListsDoublyLinked), `WalkSafety`
(WalkStaysInList), `ClosedListSafety` (ClosedListExact), and, if every timeout is shorter than
262142 seconds, `NoEarlyTimeout` (TimeoutNotEarly); that is the largest for which
rounding and counting in an unsigned short are right, and `TimerSweep_long_timeout` shows what
happens beyond. What a pointer leads to would be an induction along the list. It is
avoided by how `From` is defined, as the least set that contains the first element and is
closed under `next`: whatever is closed contains it. `ContextListProofs` says
with it what linking, unlinking, moving, closing and freeing a socket do to a list of
any length. The invariant (`SweepInv`, over `InOrder`) names for each context the set its
head leads to, with `next` and `prev` inverse to each other on it, the iterator in it, and
the closed list apart from all of them: `prev` of a closed socket is its context, so nothing
may follow it. `TimeoutRefinement` proves that the lists implement TimeoutSpec
(ImplementsTimeouts), which knows no list, only which sockets a sweep has yet to visit. That
set is the tail of the list behind the iterator (`Tail`, again a least closed
set); the list cut at the iterator, less its first element, is the same walk (`TailCut`). It takes one more
invariant, `WalkInv`: the loop's list of contexts ends, the sweep is idle exactly when it has no
context, and while a handler runs the socket it was called for is the iterator or not behind it,
so that moving on or not moving on visits nothing twice. `SweepProgress` (SweepShrinks) follows
from the refinement's steps and the walk's: what a sweep has yet to visit never grows, whatever
handlers create, move or close, and every step of the walk but the one after a handler takes
a context or a socket off it.

`HttpServerProofs` proves for any number of connections, any size of response and any
send buffer, whatever clients send and when: `HttpTypes` and `AnswerCounting` (OneAnswerEach).
For clients that wait for an answer before they ask again (`~Pipelining`) it proves `WholeAnswers`
(AnswersAreWhole); without that a second request starts the response over in the middle of
the first. The invariant (`HttpInv`) ties four places together: the offset, how far the
client's stream has come, whether the connection is registered for writable, and
whether a writable report of it is in the batch. on_writable sends from the offset
whatever it is called for, so a connection that owes nothing must have neither
filter nor report; that is what the swapped bits of `asock_poll_change` put at stake. For
clients that do not wait it says that the rest of a response completes no more than is owed
(`Owes`): the stream may stand anywhere in a response when on_data starts one over.

Two more parts stand on it. `AnswersContinue` (UnfinishedIsWritable), again for clients that wait: a
connection with a response that is not out polls for both, and one that polls for both has the
filter (`PolledInv`). So a short write is never the last one for want of a call, which is what
AnswersComplete needs besides fairness. `IdleClosing`: with the registrations of the example's
`main`, every timeout that runs out closes its connection and the server goes on
(IdleTimeoutCloses, which `HttpServer_idle_timeout` refutes for `ahttp_run`). So the registrations of
`ahttp_run` are all that is wrong there.

`EchoServerProofs` proves for any number of connections, and any size of messages and send
buffer: `EchoTypes` and `EchoPatience` (OnlyBoringTimedOut).
The invariant (`EchoInv`) is about lengths and counts: a backlog is as long as `es->length` says
whatever its block holds, so the proof goes through for connections that free each
other's blocks. For the timeouts it is that `silence` and what is left of the timeout are at
least the timeout together, with the handlers between them arming it anew.

Its second part is about the bytes, for any number of connections on one heap and any
sizes: `BacklogSafety` (BacklogSized), `EchoOrder` (EchoUntilCut) and `EchoCounting` (BytesAccounted).
The server may free another connection's backlog (`EchoServer_stale_pointer`), and drops
bytes when a continuation is cut short (`EchoServer_second_short`). No assumption rules these out;
the properties say that nothing else goes wrong: what they promise holds until one of the two
has happened, and the lengths agree even after. The invariant (`BacklogInv`, on top of `EchoInv`) is
what every connection has until a stale pointer is freed: a backlog in a live block of exactly
its length (`Backed`), no two of them in one block, what was taken out or in the block
(`Complete`), and, for a client that waits, a backlog that goes on where the echo stopped, with
nothing else on its way (`InOrder`). A handler that frees no stale pointer leaves the blocks of
all other backlogs alone and keeps its own backlog where it was or in the block it allocated
(`Keeps`), and one that frees a stale pointer sets `undefined`. `BacklogInv` was checked by TLC
first, on the run's instance.

Its third part is `EchoContinues` (BacklogIsWritable), with no assumption on messages or on what
blocks hold: a connection with a backlog polls for both, and one that polls for both has the
writable filter (`ContinuesInv`). on_writable sends even when `length` is 0 or new data has come in
between, and asock_poll_change pairs the bits the wrong way round; this says that neither ever leaves
a backlog waiting for a call that nobody makes.

`HttpParserProofs` proves for any buffer, any memory behind it and requests of any length and
any bytes: `ParserTypes`, `UrlCorrect` (UrlIsSecondField) and `RequestsAreOwn` (CompleteRequestsAreOwn):
where there is a string at all, the loop finds the field between its first two spaces, and for a
request that has them before its first NUL, or has a NUL, what it finds is the request's own. The
invariant (`ParserInv`) is the usual one of a loop: how many spaces are before the
position, and what that has assigned.

The assumptions are those named in the modules (`ConstantsAssumption`,
`CallbacksAssumption`, `ListAssumption`, `SecondsAssumption`, `ConnectionsAssumption`,
`HttpAssumption`, `EchoAssumption`, `ParserAssumption`): finiteness and distinctness of the constants, and that
sizes are positive numbers. Restrictions of a theorem to some values of the constants
are in its statement.

Only model-checked: liveness, since fairness and ENABLED are out of the prover's reach
(ClosedIsFreed, DrainedLoopReturns, SweepEnds, ArmedRunsOut, WakeupHeard, SweepRecurs, AnswersComplete,
IdleIsClosed, BoringIsClosed). For four of them the part that is safety is proved: WakeupNotLost,
UnfinishedIsWritable, BacklogIsWritable and SweepShrinks say that a wakeup, a response, a backlog and
a sweep cannot get stuck, and leave to fairness only that the loop goes on. (Of these, the runs
check BacklogIsWritable; the others are stated in the modules and proved there.) Every safety
invariant, action property and refinement that a passing run checks is stated by a theorem.

## Not modelled

* `asock_context_free`: it leaves the context in the loop's list, no program in the
  repository calls it, and nothing says when one may.
* Several loops: adopting a socket into a context of another loop (`core/poll.c:290-291`
  calls it absurd).
* Failing allocation: `malloc` and `realloc` are never checked.
* Address resolution, socket options, formatting of addresses; the `epoll` branches.
* Which HTTP methods the parser knows; `ahttp_core_parse_version`, which nothing calls; what
  printing `url` does with bytes that are not terminated; requests that arrive in pieces or pipelined
  (`Pipelining = TRUE` shows an answer restarted in the middle).
* `asock_async_set`: callbacks are set before the first wakeup.
* SSL and SQL (no code), `bin/`, the empty test, `http_websocket.c` (the handlers of
  `http_server.c` over again).

## Plan

Done: the modules and proofs above. What would come next, in this order:

1. Composition: timers, asyncs and sockets in one ready list (EventLoop's `CALLBACK`
   replaced by LoopCallbacks' polls), and the sweep of TimerSweep under Connections.
