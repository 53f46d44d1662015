------------------------------ MODULE TimerSweep ------------------------------
(***************************************************************************)
(* asock_timer_sweep: every ASOCK_TIMEOUT_GRANULARITY seconds the loop's   *)
(* own timer walks the sockets of every context and counts their timeouts  *)
(* down.  on_timeout may close, create, adopt and re-arm sockets, so the   *)
(* lists change under the walk.                                            *)
(*                                                                         *)
(* One step is the code between two points where control may pass to the   *)
(* application: one socket of the walk, or one call from a handler.        *)
(***************************************************************************)
EXTENDS ContextList, Integers

CONSTANT Seconds   \* the arguments asock_socket_timeout is called with

ASSUME SecondsAssumption == Seconds \subseteq Nat

VARIABLES
  phase,     \* "idle": outside the sweep; "sweep"; "handler": in on_timeout
  mem,       \* the lists
  contexts,  \* the loop's list of contexts: head, and next of each
  context,   \* loop->data.iterator
  s          \* the socket on_timeout was called for, at its address then

vars == <<phase, mem, contexts, context, s>>

ASOCK_TIMEOUT_GRANULARITY == 4
USHORT_VALUES == 65536   \* of a socket's timeout

\* asock_socket_timeout: rounded to sweeps, in an unsigned short, and at least 1.
MTimeoutSweeps(seconds) ==   \* in units of two sweeps
  LET sweeps == (seconds \div (2 * ASOCK_TIMEOUT_GRANULARITY)) % USHORT_VALUES
  IN  IF seconds = 0 THEN 0 ELSE IF sweeps = 0 THEN 1 ELSE sweeps

TimeoutSweeps(seconds) ==
  LET sweeps == ((2 * seconds + ASOCK_TIMEOUT_GRANULARITY)
                   \div (2 * ASOCK_TIMEOUT_GRANULARITY)) % USHORT_VALUES
  IN  IF seconds = 0 THEN 0 ELSE IF sweeps = 0 THEN 1 ELSE sweeps

Init ==
  /\ phase = "idle"
  /\ mem = NoSockets
  /\ contexts = [head |-> NULL, next |-> [c \in Ctx |-> NULL]]
  /\ context = NULL
  /\ s = NULL

Created == From(contexts.next, contexts.head)

-----------------------------------------------------------------------------
(***************************************************************************)
(* The application, from on_timeout or from any other handler.             *)
(***************************************************************************)
AppRuns == phase # "sweep"

\* asock_context_create, asock_loop_link.  Contexts are never freed, so which
\* unused address the new one has makes no difference.
CreateContext(c) ==
  /\ AppRuns
  /\ Created # Ctx
  /\ c = CHOOSE d \in Ctx : d \notin Created
  /\ contexts' = [head |-> c, next |-> [contexts.next EXCEPT ![c] = contexts.head]]
  /\ mem' = [mem EXCEPT !.head[c] = NULL, !.iterator[c] = NULL]
  /\ UNCHANGED <<phase, context, s>>

\* A socket is born listening, connecting or accepted.
CreateSocket(a, c) ==
  /\ AppRuns
  /\ c \in Created
  /\ ~mem.node[a].used
  /\ mem' = Link([mem EXCEPT !.node[a].used = TRUE], c, a)
  /\ UNCHANGED <<phase, contexts, context, s>>

SetTimeout(t, seconds) ==
  /\ AppRuns
  /\ t \in Linked(mem)
  /\ mem' = [mem EXCEPT !.node[t].timeout = TimeoutSweeps(seconds),
                        !.node[t].want = seconds \div ASOCK_TIMEOUT_GRANULARITY]
  /\ UNCHANGED <<phase, contexts, context, s>>

\* asock_socket_close, asock_core_listen_close
CloseSocket(t) ==
  /\ AppRuns
  /\ t \in Linked(mem)
  /\ mem' = Bury(Unlink(mem, t), t)
  /\ UNCHANGED <<phase, contexts, context, s>>

\* asock_context_adopt_socket, t moving to n or staying where it is
AdoptSocket(t, n, c) ==
  /\ AppRuns
  /\ t \in Linked(mem)
  /\ n = t \/ ~mem.node[n].used
  /\ c \in Created
  /\ mem' = Link(Relocate(Unlink(mem, t), t, n), c, n)
  /\ UNCHANGED <<phase, contexts, context, s>>

App ==
  \/ \E c \in Ctx : CreateContext(c)
  \/ \E a \in Addr, c \in Ctx : CreateSocket(a, c)
  \/ \E t \in Addr : CloseSocket(t) \/ \E seconds \in Seconds : SetTimeout(t, seconds)
  \/ \E t, n \in Addr, c \in Ctx : AdoptSocket(t, n, c)

-----------------------------------------------------------------------------
(***************************************************************************)
(* The loop.                                                               *)
(***************************************************************************)
\* asock_socket_free_closed, after the ready polls of an iteration
FreeClosed ==
  /\ phase = "idle"
  /\ mem.closedHead # NULL
  /\ LET gone == ListFrom(mem, mem.closedHead)
     IN  mem' = [mem EXCEPT !.closedHead = NULL,
                            !.node = [a \in Addr |-> IF a \in gone THEN Unused ELSE mem.node[a]]]
  /\ UNCHANGED <<phase, contexts, context, s>>

\* Go on with context c, or leave the sweep if it is NULL.
MEnter(c) ==   \* the inner loop starts where the context's last walk ended
  /\ context' = c
  /\ phase' = IF c = NULL THEN "idle" ELSE "sweep"
  /\ UNCHANGED <<mem, contexts, s>>

Enter(c) ==
  /\ context' = c
  /\ phase' = IF c = NULL THEN "idle" ELSE "sweep"
  /\ mem' = IF c = NULL THEN mem ELSE [mem EXCEPT !.iterator[c] = mem.head[c]]
  /\ UNCHANGED <<contexts, s>>

\* The sweep timer fires.
StartSweep ==
  /\ phase = "idle"
  /\ contexts.head # NULL
  /\ Enter(contexts.head)

Iterator == mem.iterator[context]

NextContext ==
  /\ phase = "sweep"
  /\ Iterator = NULL
  /\ Enter(contexts.next[context])

\* One sweep less for socket t.
MElapse(t) == [mem EXCEPT !.node[t].timeout = @ - 1, !.node[t].want = 0]   \* off counts too

Elapse(t) == [mem EXCEPT !.node[t].timeout = IF @ = 0 THEN 0 ELSE @ - 1,
                         !.node[t].want = IF @ = 0 THEN 0 ELSE @ - 1]

MPassSocket ==   \* a socket without a timeout holds the walk up
  /\ phase = "sweep"
  /\ Iterator # NULL
  /\ mem.node[Iterator].timeout # 1
  /\ mem' = [Elapse(Iterator) EXCEPT !.iterator[context] =
               IF mem.node[Iterator].timeout = 0 THEN @ ELSE mem.node[Iterator].next]
  /\ UNCHANGED <<phase, contexts, context, s>>

PassSocket ==
  /\ phase = "sweep"
  /\ Iterator # NULL
  /\ mem.node[Iterator].timeout # 1
  /\ mem' = [Elapse(Iterator) EXCEPT !.iterator[context] = mem.node[Iterator].next]
  /\ UNCHANGED <<phase, contexts, context, s>>

\* --(s->timeout) == 0: on_timeout is called.
TimeOut ==
  /\ phase = "sweep"
  /\ Iterator # NULL
  /\ mem.node[Iterator].timeout = 1
  /\ mem' = Elapse(Iterator)
  /\ s' = Iterator
  /\ phase' = "handler"
  /\ UNCHANGED <<contexts, context>>

\* on_timeout returns; its result is ignored.  "Check for unlink / link".
TimeOutReturns ==
  /\ phase = "handler"
  /\ mem' = [mem EXCEPT !.iterator[context] = IF s = @ THEN mem.node[s].next ELSE @]
  /\ phase' = "sweep"
  /\ s' = NULL
  /\ UNCHANGED <<contexts, context>>

Sweep == NextContext \/ PassSocket \/ TimeOut \/ TimeOutReturns

Next == App \/ FreeClosed \/ StartSweep \/ Sweep

Spec == Init /\ [][Next]_vars

(***************************************************************************)
(* on_timeout returns and the walk goes on; the sweep timer repeats and an *)
(* iteration ends with FreeClosed, so both come again and again.           *)
(***************************************************************************)
FairSpec == Spec /\ WF_vars(Sweep) /\ SF_vars(StartSweep) /\ SF_vars(FreeClosed)

-----------------------------------------------------------------------------
(***************************************************************************)
(* Correctness.                                                            *)
(***************************************************************************)
\* Type correctness: in particular no timeout counts down below zero, which its
\* unsigned short would turn into a wait of days.
TypeOK ==
  /\ phase \in {"idle", "sweep", "handler"}
  /\ mem \in Memory
  /\ contexts \in [head : Ctx \cup {NULL}, next : [Ctx -> Ctx \cup {NULL}]]
  /\ context \in Ctx \cup {NULL}
  /\ s \in Addr \cup {NULL}

\* Whatever handlers link and unlink, a context's list holds exactly its open
\* sockets, next and prev agree on their order, and it ends.
ListsDoublyLinked ==
  \A c \in Ctx :
    /\ ListFrom(mem, mem.head[c]) = Members(mem, c)
    /\ \A a \in Members(mem, c) :
         /\ mem.node[a].prev = NULL <=> mem.head[c] = a
         /\ mem.node[a].prev # NULL => mem.node[mem.node[a].prev].next = a
         /\ a \notin ListFrom(mem, mem.node[a].next)

\* asock_context_unlink: "properly update the iterator".  A sweep never holds on to a
\* socket that handlers closed, moved away or took out of its context's list.
WalkStaysInList == phase # "idle" => Iterator \in Members(mem, context) \cup {NULL}

\* Every closed socket is on the closed list, once, so that it is freed once.
ClosedListExact ==
  /\ ListFrom(mem, mem.closedHead) = {a \in Addr : IsClosed(mem, a)}
  /\ \A a \in ListFrom(mem, mem.closedHead) : a \notin ListFrom(mem, mem.node[a].next)

\* "How many seconds to timeout after" (asock_socket_timeout): the handler is not
\* called before as many whole sweeps have passed as the seconds contain.
TimeoutNotEarly == [][TimeOut => mem.node[s'].want <= 1]_vars

(***************************************************************************)
(* The walk implements TimeoutSpec: what is left of the list behind the    *)
(* iterator is what is still to be visited.                                *)
(***************************************************************************)
Membership(m) == [a \in Addr |-> IF a \in Linked(m) THEN m.node[a].context ELSE NULL]
SweepsLeft(m) == [a \in Addr |-> IF a \in Linked(m) THEN m.node[a].timeout ELSE 0]

ContextsLeft == IF context = NULL THEN {} ELSE From(contexts.next, contexts.next[context])
Unvisited ==
  IF context = NULL THEN {}
  ELSE ListFrom(mem, Iterator) \ (IF phase = "handler" THEN {s} ELSE {})

Timeouts == INSTANCE TimeoutSpec WITH
  Socket    <- Addr,
  contexts  <- Created,
  member    <- Membership(mem),
  left      <- SweepsLeft(mem),
  now       <- context,
  rest      <- ContextsLeft,
  todo      <- Unvisited,
  handling  <- (phase = "handler")

\* A sweep counts down every socket that is in a list from its start to its
\* turn, once, and calls on_timeout exactly for those whose count ends.
ImplementsTimeouts == Timeouts!TimeoutSpec

\* What a sweep has yet to visit only shrinks: no handler adds to it, by creating,
\* moving or closing sockets, and every step of the walk takes something off.
SweepShrinks ==
  [][context # NULL /\ context' # NULL =>
       /\ ContextsLeft' \subseteq ContextsLeft
       /\ context' = context => Unvisited' \subseteq Unvisited
       /\ Sweep => \/ ContextsLeft' # ContextsLeft
                   \/ Unvisited' # Unvisited
                   \/ phase = "handler"]_vars

\* A sweep comes to its end, whatever handlers add to the lists meanwhile.
SweepEnds == phase # "idle" ~> phase = "idle"

\* A timeout that is not set anew again and again runs out, or its socket goes.
ArmedRunsOut ==
  \A t \in Addr :
    <>[][~\E seconds \in Seconds : SetTimeout(t, seconds)]_vars =>
      (mem.node[t].timeout > 0 ~> mem.node[t].timeout = 0)
=============================================================================
