--------------------------- MODULE SocketLifecycle ---------------------------
(***************************************************************************)
(* What the event loop promises an application about a socket, without     *)
(* polls, kqueue or lists: which handler may be called when, and when the  *)
(* memory behind a pointer may go away.  EventLoop implements this.        *)
(***************************************************************************)
CONSTANTS Socket, NULL

VARIABLES
  life,      \* where each socket is in its life
  handler    \* the handler the loop is running: its kind and its socket

lifeVars == <<life, handler>>

Stages == {"free", "listening", "connecting", "open", "closed"}
Idle   == <<"none", NULL>>

LifeTypeOK ==
  /\ life \in [Socket -> Stages]
  /\ handler \in {"none", "open", "accept", "data", "writable", "end", "close", "tick"}
                   \X (Socket \cup {NULL})

LifeInit ==
  /\ life = [s \in Socket |-> "free"]
  /\ handler = Idle

Becomes(s, from, to) == life[s] \in from /\ life' = [life EXCEPT ![s] = to]

Create(s) ==
  /\ Becomes(s, {"free"}, "listening") \/ Becomes(s, {"free"}, "connecting")
  /\ UNCHANGED handler

\* on_open comes once: at birth for an accepted socket, else on connection.
\* The accept loop calls on_open again as soon as the previous call returns.
Accepted(s) ==
  /\ handler[1] \in {"none", "accept"}
  /\ Becomes(s, {"free"}, "open")
  /\ handler' = <<"accept", s>>

Connected(s) ==
  /\ handler = Idle
  /\ Becomes(s, {"connecting"}, "open")
  /\ handler' = <<"open", s>>

\* on_data, on_writable and on_end are for open sockets only.
Deliver(kind, s) ==
  /\ handler = Idle
  /\ life[s] = "open"
  /\ handler' = <<kind, s>>
  /\ UNCHANGED life

Tick ==
  /\ handler = Idle
  /\ handler' = <<"tick", NULL>>
  /\ UNCHANGED life

Return ==
  /\ handler # Idle
  /\ handler' = Idle
  /\ UNCHANGED life

\* Closed by the application, or by the loop, which then runs on_close.
CloseSocket(s) ==
  /\ Becomes(s, {"listening", "connecting", "open"}, "closed")
  /\ UNCHANGED handler \/ (handler = Idle /\ life[s] = "open" /\ handler' = <<"close", s>>)

\* Adopted into another context: the same socket at a new address.
Move(s, t) ==
  /\ life[s] \in {"connecting", "open"}
  /\ life[t] = "free"
  /\ life' = [life EXCEPT ![t] = life[s], ![s] = "free"]
  /\ handler' = IF handler[2] = s THEN <<handler[1], t>> ELSE handler

\* Memory is released for all closed sockets together, and under no handler.
Reap ==
  /\ handler = Idle
  /\ life' = [s \in Socket |-> IF life[s] = "closed" THEN "free" ELSE life[s]]
  /\ UNCHANGED handler

LifeNext ==
  \/ \E s \in Socket : \/ Create(s) \/ Accepted(s) \/ Connected(s) \/ CloseSocket(s)
                       \/ \E kind \in {"data", "writable", "end"} : Deliver(kind, s)
                       \/ \E t \in Socket : Move(s, t)
  \/ Tick \/ Return \/ Reap

LifeSpec == LifeInit /\ [][LifeNext]_lifeVars
=============================================================================
