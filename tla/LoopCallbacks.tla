---------------------------- MODULE LoopCallbacks ----------------------------
(***************************************************************************)
(* Timers and asyncs (src/core/timer.c, async.c) and how asock_loop_run    *)
(* dispatches them: the loop's own sweep timer and wakeup async, those of  *)
(* the application, and asock_loop_wakeup called from other threads.  The  *)
(* other polls of the loop are a number here; EventLoop has them.          *)
(*                                                                         *)
(* kqueue knows a timer or an async by the address of its poll, and hands  *)
(* that address back when it fires; asock has no other record of it.       *)
(***************************************************************************)
EXTENDS Integers, Sequences, FiniteSets

CONSTANTS
  Addr,          \* addresses of the application's timers and asyncs
  SWEEP,         \* loop->data.sweep_timer
  WAKEUP,        \* loop->data.wakeup_async
  NULL,
  MaxSockets,    \* bound: other non-fallthrough polls
  Fallthrough,   \* what the application passes as fallthrough
  Disarms,       \* the application calls asock_timer_set with 0 and 0
  MaxReady       \* events that one kevent call returns at most (1024 in the code)

ASSUME CallbacksAssumption ==
  /\ IsFiniteSet(Addr)
  /\ NULL \notin Addr \cup {SWEEP, WAKEUP}
  /\ SWEEP \notin Addr \cup {WAKEUP}
  /\ WAKEUP \notin Addr
  /\ MaxSockets \in Nat
  /\ Fallthrough \subseteq BOOLEAN
  /\ Disarms \in BOOLEAN
  /\ MaxReady \in Nat \ {0}

Polls == Addr \cup {SWEEP, WAKEUP}

Ended == {"exit", "freed", "crashed"}

VARIABLES
  pc,         \* which part of asock_loop_run is executing
  cb,         \* the poll whose callback is running
  ready, cur, \* loop->ready_polls and current_ready_poll
  numPolls,   \* loop->num_polls
  poll,       \* what is stored at each address
  sockets,    \* the loop's other non-fallthrough polls
  timer,      \* kernel: EVFILT_TIMER of each address
  user,       \* kernel: the addresses with an EVFILT_USER triggered
  disarmed,   \* auxiliary: timers that asock_timer_set was to disarm
  asked,      \* auxiliary: a wakeup was asked for and its callback not run since
  early       \* history: addresses of polls that were closed while kqueue could
              \* still report them: an armed timer, or a report not dispatched yet

vars == <<pc, cb, ready, cur, numPolls, poll, sockets, timer, user, disarmed, asked, early>>

Freed == [kind |-> "FREED", fallthrough |-> FALSE]

Allocated == {a \in Polls : poll[a].kind # "FREED"}
Counted   == {a \in Allocated : ~poll[a].fallthrough}

\* asock_loop_create
Init ==
  /\ pc = "setup"
  /\ cb = NULL
  /\ ready = <<>>
  /\ cur = 0
  /\ numPolls = 0
  /\ poll = [a \in Polls |->
       CASE a = SWEEP  -> [kind |-> "timer", fallthrough |-> TRUE]
         [] a = WAKEUP -> [kind |-> "async", fallthrough |-> TRUE]
         [] OTHER      -> Freed]
  /\ sockets = 0
  /\ timer = [a \in Polls |-> "off"]
  /\ user = {}
  /\ disarmed = {}
  /\ asked = FALSE
  /\ early = {}

-----------------------------------------------------------------------------
(***************************************************************************)
(* The application, in any callback of the loop.                           *)
(***************************************************************************)
AppRuns == pc \in {"setup", "pre", "post"} \/ cb # NULL

Pending(a) == \E i \in DOMAIN ready : i >= cur /\ ready[i] = a /\ ~(i = cur /\ cb = a)

\* asock_timer_create, asock_async_create
MCreate(a, kind, fallthrough) ==   \* counts fallthrough polls
  /\ AppRuns
  /\ a \notin Allocated
  /\ poll' = [poll EXCEPT ![a] = [kind |-> kind, fallthrough |-> fallthrough]]
  /\ numPolls' = IF fallthrough THEN numPolls + 1 ELSE numPolls
  /\ UNCHANGED <<pc, cb, ready, cur, sockets, timer, user, disarmed, asked, early>>

Create(a, kind, fallthrough) ==
  /\ AppRuns
  /\ a \notin Allocated
  /\ poll' = [poll EXCEPT ![a] = [kind |-> kind, fallthrough |-> fallthrough]]
  /\ numPolls' = IF fallthrough THEN numPolls ELSE numPolls + 1
  /\ UNCHANGED <<pc, cb, ready, cur, sockets, timer, user, disarmed, asked, early>>

TimerCreate(a, fallthrough) == Create(a, "timer", fallthrough)
AsyncCreate(a, fallthrough) == Create(a, "async", fallthrough)

\* asock_timer_set: EV_ADD, with EV_ONESHOT unless it repeats.
Armed(repeat_ms) == IF repeat_ms = 0 THEN "once" ELSE "repeat"

TimerSet(a, ms, repeat_ms) ==
  /\ AppRuns
  /\ a \in Allocated \ {SWEEP}
  /\ poll[a].kind = "timer"
  /\ ms = 0 => repeat_ms = 0 /\ Disarms
  /\ timer' = [timer EXCEPT ![a] = Armed(repeat_ms)]
  /\ disarmed' = IF ms = 0 THEN disarmed \cup {a} ELSE disarmed \ {a}
  /\ UNCHANGED <<pc, cb, ready, cur, numPolls, poll, sockets, user, asked, early>>

\* asock_poll_free: num_polls goes down whatever was counted.
PollFree(a) ==
  /\ poll' = [poll EXCEPT ![a] = Freed]
  /\ numPolls' = numPolls - 1

\* asock_timer_close prepares an EV_DELETE and does not submit it.
TimerClose(a) ==
  /\ AppRuns
  /\ a \in Allocated \ {SWEEP}
  /\ poll[a].kind = "timer"
  /\ PollFree(a)
  /\ early' = IF timer[a] # "off" \/ Pending(a) THEN early \cup {a} ELSE early
  /\ disarmed' = disarmed \ {a}
  /\ UNCHANGED <<pc, cb, ready, cur, sockets, timer, user, asked>>

MAsyncClose(a) ==   \* the trigger stays in the kernel
  /\ AppRuns
  /\ a \in Allocated \ {WAKEUP}
  /\ poll[a].kind = "async"
  /\ PollFree(a)
  /\ early' = IF Pending(a) THEN early \cup {a} ELSE early
  /\ UNCHANGED <<pc, cb, ready, cur, sockets, timer, user, disarmed, asked>>

AsyncClose(a) ==
  /\ AppRuns
  /\ a \in Allocated \ {WAKEUP}
  /\ poll[a].kind = "async"
  /\ user' = user \ {a}
  /\ PollFree(a)
  /\ early' = IF Pending(a) THEN early \cup {a} ELSE early
  /\ UNCHANGED <<pc, cb, ready, cur, sockets, timer, disarmed, asked>>

\* A socket comes into being, or a closed one is freed in asock_loop_post.
SocketsChange(n) ==
  /\ AppRuns
  /\ n \in 0..MaxSockets
  /\ sockets' = n
  /\ numPolls' = numPolls + n - sockets
  /\ UNCHANGED <<pc, cb, ready, cur, poll, timer, user, disarmed, asked, early>>

App ==
  \/ \E a \in Addr, f \in Fallthrough : TimerCreate(a, f) \/ AsyncCreate(a, f)
  \/ \E a \in Addr : \E ms, repeat_ms \in 0..1 : TimerSet(a, ms, repeat_ms)
  \/ \E a \in Addr : TimerClose(a) \/ AsyncClose(a)
  \/ \E n \in 0..MaxSockets : SocketsChange(n)

-----------------------------------------------------------------------------
(***************************************************************************)
(* Any thread, at any time.                                                *)
(***************************************************************************)
MAsyncWakeup(a) == UNCHANGED user   \* EV_ADD, but no NOTE_TRIGGER

\* asock_async_wakeup: EV_ADD with EV_ONESHOT and NOTE_TRIGGER.
AsyncWakeup(a) == user' = user \cup {a}

\* An async of the application is woken while the application has it.
WakeAsync(a) ==
  /\ pc \notin Ended
  /\ poll[a].kind = "async"
  /\ AsyncWakeup(a)
  /\ UNCHANGED <<pc, cb, ready, cur, numPolls, poll, sockets, timer, disarmed, asked, early>>

LoopWakeup ==
  /\ pc \notin Ended
  /\ AsyncWakeup(WAKEUP)
  /\ asked' = TRUE
  /\ UNCHANGED <<pc, cb, ready, cur, numPolls, poll, sockets, timer, disarmed, early>>

-----------------------------------------------------------------------------
(***************************************************************************)
(* asock_loop_run.                                                         *)
(***************************************************************************)
\* asock_loop_integrate arms the sweep timer, which repeats.
MIntegrate == timer' = [timer EXCEPT ![SWEEP] = "once"]

Integrate == timer' = [timer EXCEPT ![SWEEP] = "repeat"]

LoopRun ==
  /\ pc = "setup"
  /\ Integrate
  /\ pc' = "check"
  /\ UNCHANGED <<cb, ready, cur, numPolls, poll, sockets, user, disarmed, asked, early>>

MLoopCheck ==   \* goes by the sockets alone
  /\ pc \in {"check", "post"}
  /\ pc' = IF sockets = 0 THEN "exit" ELSE "pre"
  /\ UNCHANGED <<cb, ready, cur, numPolls, poll, sockets, timer, user, disarmed, asked, early>>

LoopCheck ==
  /\ pc \in {"check", "post"}
  /\ pc' = IF numPolls = 0 THEN "exit" ELSE "pre"
  /\ UNCHANGED <<cb, ready, cur, numPolls, poll, sockets, timer, user, disarmed, asked, early>>

ArmedTimers == {a \in Polls : timer[a] # "off"}

\* kevent returns the timers and the user events that fired, in any order: an address
\* with both is there twice.  A one-shot filter is gone with its report.
Orders(events) ==
  {r \in [1..Cardinality(events) -> events] : \A e \in events : \E i \in DOMAIN r : r[i] = e}

Report(timers, users) ==
  LET events == (timers \X {"timer"}) \cup (users \X {"user"})
  IN /\ Cardinality(events) <= MaxReady
     /\ \E r \in Orders(events) : ready' = [i \in 1..Cardinality(events) |-> r[i][1]]
     /\ timer' = [a \in Polls |->
          IF a \in timers /\ timer[a] = "once" THEN "off" ELSE timer[a]]
     /\ user' = user \ users

Kevent ==
  /\ pc = "pre"
  /\ \E timers \in SUBSET ArmedTimers, users \in SUBSET user : Report(timers, users)
  /\ pc' = "dispatch"
  /\ cur' = 1
  /\ UNCHANGED <<cb, numPolls, poll, sockets, disarmed, asked, early>>

\* The ready poll's callback, which the poll's own memory names.
DispatchCallback ==
  /\ pc = "dispatch"
  /\ cb = NULL
  /\ cur <= Len(ready)
  /\ cb' = ready[cur]
  /\ asked' = IF ready[cur] = WAKEUP THEN FALSE ELSE asked
  /\ UNCHANGED <<pc, ready, cur, numPolls, poll, sockets, timer, user, disarmed, early>>

\* If that memory was freed, or belongs to a poll created since whose callback may not
\* be set, the call is undefined: it may do the above, or end the process.
DispatchCrashes ==
  /\ pc = "dispatch"
  /\ cb = NULL
  /\ cur <= Len(ready)
  /\ ready[cur] \notin Allocated \ early
  /\ pc' = "crashed"
  /\ UNCHANGED <<cb, ready, cur, numPolls, poll, sockets, timer, user, disarmed, asked, early>>

MCallbackReturns ==   \* stepped twice
  /\ cb # NULL
  /\ cb' = NULL
  /\ cur' = cur + 2
  /\ UNCHANGED <<pc, ready, numPolls, poll, sockets, timer, user, disarmed, asked, early>>

CallbackReturns ==
  /\ cb # NULL
  /\ cb' = NULL
  /\ cur' = cur + 1
  /\ UNCHANGED <<pc, ready, numPolls, poll, sockets, timer, user, disarmed, asked, early>>

LoopPost ==
  /\ pc = "dispatch"
  /\ cur > Len(ready)
  /\ pc' = "post"
  /\ UNCHANGED <<cb, ready, cur, numPolls, poll, sockets, timer, user, disarmed, asked, early>>

\* asock_loop_free once the loop has returned: asock_timer_close and
\* asock_async_close of the loop's own polls, then the kqueue and the loop.
LoopFree ==
  /\ pc = "exit"
  /\ pc' = "freed"
  /\ poll' = [poll EXCEPT ![SWEEP] = Freed, ![WAKEUP] = Freed]
  /\ numPolls' = numPolls - 2
  /\ timer' = [a \in Polls |-> "off"]
  /\ user' = {}
  /\ UNCHANGED <<cb, ready, cur, sockets, disarmed, asked, early>>

Loop ==
  \/ LoopRun \/ LoopCheck \/ Kevent
  \/ DispatchCallback \/ DispatchCrashes \/ CallbackReturns \/ LoopPost

Done == pc \in Ended /\ UNCHANGED vars

Next == App \/ LoopWakeup \/ (\E a \in Addr : WakeAsync(a)) \/ Loop \/ LoopFree \/ Done

Spec == Init /\ [][Next]_vars

(***************************************************************************)
(* Callbacks return.  kqueue hands out active filters in the order they    *)
(* became active, so one that stays active is reported in the end.         *)
(***************************************************************************)
FairSpec ==
  /\ Spec
  /\ WF_vars(Loop)
  /\ \A a \in {SWEEP, WAKEUP} : SF_vars(Kevent /\ \E i \in DOMAIN ready' : ready'[i] = a)

-----------------------------------------------------------------------------
(***************************************************************************)
(* Correctness.                                                            *)
(***************************************************************************)
\* Type correctness: in particular the loop's index stays within the ready list
\* or one past it, and only polls are handed out by kqueue.
TypeOK ==
  /\ pc \in {"setup", "check", "pre", "dispatch", "post"} \cup Ended
  /\ cb \in Polls \cup {NULL}
  /\ ready \in Seq(Polls)
  /\ cur \in 0..Len(ready) + 1
  /\ numPolls \in Int
  /\ poll \in [Polls -> [kind : {"timer", "async", "FREED"}, fallthrough : BOOLEAN]]
  /\ sockets \in 0..MaxSockets
  /\ timer \in [Polls -> {"off", "once", "repeat"}]
  /\ user \subseteq Polls
  /\ disarmed \subseteq Addr
  /\ asked \in BOOLEAN
  /\ early \subseteq Addr

\* The loop calls through the pointer of every entry it has yet to dispatch
\* (asock_poll_ready_dispatch).  Whatever the application closes, and when, the poll is
\* in memory or was closed while kqueue could still report it; every timer kqueue has
\* is that of a timer in memory or of one closed while armed, since asock_timer_close
\* leaves it there; and every trigger is that of an async in memory: asock_async_close
\* takes the trigger back.
CallbacksLive ==
  /\ \A i \in DOMAIN ready :
       i >= cur /\ ~(i = cur /\ cb # NULL) => ready[i] \in Allocated \cup early
  /\ \A a \in ArmedTimers : poll[a].kind = "timer" \/ a \in early
  /\ \A a \in user : poll[a].kind = "async"

\* No callback is called through freed memory (asock_poll_ready_dispatch): the code does
\* not keep this, once a timer is closed while it is armed (asock_timer_close).
FreedNeverCalled ==
  [][pc' # "crashed" /\ (cb' \notin {cb, NULL} => cb' \in Allocated)]_vars

\* "Number of non-fallthrough polls in the loop" (loop.h).
NumPollsCounts == pc # "freed" => numPolls = sockets + Cardinality(Counted)

\* The loop does not return while there is a socket or a timer to wait for, and a
\* loop that was freed leaves no timer or async of its own or of the application's
\* behind.
LoopWaits ==
  /\ pc \in {"exit", "freed"} => sockets = 0 /\ Counted = {}
  /\ pc = "freed" => {SWEEP, WAKEUP} \cap Allocated = {}

\* A wakeup another thread asked for is never forgotten: until the handler is called
\* its trigger is in the kernel or its poll in the batch, behind the current entry.
WakeupNotLost ==
  asked /\ pc \notin Ended => WAKEUP \in user \/ Pending(WAKEUP)

\* "Specify both 0 to disarm" (timer.h): a disarmed timer's callback is not called.
DisarmedStaysSilent == [][cb' \notin disarmed \/ cb' = cb]_vars

\* asock_loop_wakeup: the wakeup handler runs after every call, from the loop's
\* own thread, unless the loop returns or the process ends.
WakeupHeard == asked ~> ~asked \/ pc \in Ended

\* While the loop runs, timeouts are swept again and again.
SweepRecurs == <>(pc \in Ended) \/ []<>(cb = SWEEP)
=============================================================================
