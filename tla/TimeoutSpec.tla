----------------------------- MODULE TimeoutSpec -----------------------------
(***************************************************************************)
(* What the timeout sweep promises, without lists or pointers.  A sweep    *)
(* takes the contexts that exist when it starts, one by one, and of each   *)
(* the sockets that belong to it when its turn comes.  TimerSweep          *)
(* implements this.                                                        *)
(***************************************************************************)
EXTENDS Naturals

CONSTANTS Socket, Ctx, NULL

VARIABLES
  contexts,  \* the contexts there are
  member,    \* the context of each open socket
  left,      \* sweeps left until each socket times out, 0 for never
  now,       \* the context being swept
  rest,      \* the contexts to be swept after it
  todo,      \* its sockets that are still to be visited
  handling   \* on_timeout is running

tsVars == <<contexts, member, left, now, rest, todo, handling>>

Open(s)    == member[s] # NULL
Members(c) == {s \in Socket : member[s] = c}

TimeoutInit ==
  /\ contexts = {}
  /\ member = [s \in Socket |-> NULL]
  /\ left = [s \in Socket |-> 0]
  /\ now = NULL
  /\ rest = {}
  /\ todo = {}
  /\ handling = FALSE

AppRuns == now = NULL \/ handling

NewContext(c) ==
  /\ AppRuns
  /\ c \notin contexts
  /\ contexts' = contexts \cup {c}
  /\ UNCHANGED <<member, left, now, rest, todo, handling>>

Arrive(s, c) ==
  /\ AppRuns
  /\ ~Open(s)
  /\ c \in contexts
  /\ member' = [member EXCEPT ![s] = c]
  /\ UNCHANGED <<contexts, left, now, rest, todo, handling>>

\* asock_socket_timeout counts in an unsigned short.
Arm(s) ==
  /\ AppRuns
  /\ Open(s)
  /\ left'[s] \in Nat /\ left'[s] < 65536
  /\ \A t \in Socket \ {s} : left'[t] = left[t]
  /\ UNCHANGED <<contexts, member, now, rest, todo, handling>>

Leave(s) ==
  /\ AppRuns
  /\ Open(s)
  /\ member' = [member EXCEPT ![s] = NULL]
  /\ left' = [left EXCEPT ![s] = 0]
  /\ todo' = todo \ {s}
  /\ UNCHANGED <<contexts, now, rest, handling>>

\* Adoption: the timeout is off, and this sweep does not visit the socket again
\* unless it moves to a context whose turn is still to come.
Move(s, n, c) ==
  /\ AppRuns
  /\ Open(s)
  /\ n = s \/ ~Open(n)
  /\ c \in contexts
  /\ member' = [t \in Socket |-> IF t = n THEN c ELSE IF t = s THEN NULL ELSE member[t]]
  /\ left' = [left EXCEPT ![s] = 0]
  /\ todo' = todo \ {s}
  /\ UNCHANGED <<contexts, now, rest, handling>>

Turn(c) == now' = c /\ todo' = Members(c)

Begin ==
  /\ now = NULL
  /\ \E c \in contexts : Turn(c) /\ rest' = contexts \ {c}
  /\ UNCHANGED <<contexts, member, left, handling>>

Continue ==
  /\ now # NULL
  /\ ~handling
  /\ todo = {}
  /\ IF rest = {}
       THEN now' = NULL /\ UNCHANGED <<rest, todo>>
       ELSE \E c \in rest : Turn(c) /\ rest' = rest \ {c}
  /\ UNCHANGED <<contexts, member, left, handling>>

\* One socket's turn: on_timeout is called if and only if its count ends here.
Visit(s) ==
  /\ s \in todo
  /\ ~handling
  /\ left' = [left EXCEPT ![s] = IF @ = 0 THEN 0 ELSE @ - 1]
  /\ handling' = (left[s] = 1)
  /\ todo' = todo \ {s}
  /\ UNCHANGED <<contexts, member, now, rest>>

Return ==
  /\ handling
  /\ handling' = FALSE
  /\ UNCHANGED <<contexts, member, left, now, rest, todo>>

TimeoutNext ==
  \/ \E c \in Ctx : NewContext(c) \/ \E s \in Socket : Arrive(s, c)
  \/ \E s \in Socket : Leave(s) \/ Visit(s) \/ Arm(s)
  \/ \E s, n \in Socket, c \in Ctx : Move(s, n, c)
  \/ Begin \/ Continue \/ Return

TimeoutSpec == TimeoutInit /\ [][TimeoutNext]_tsVars
=============================================================================
