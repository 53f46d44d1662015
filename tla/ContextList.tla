----------------------------- MODULE ContextList -----------------------------
(***************************************************************************)
(* The intrusive lists of asock: a context's doubly linked list of         *)
(* sockets, whose iterator a timeout sweep leaves pointing into the list   *)
(* while handlers change it, and the loop's singly linked closed list.     *)
(* The operators take the lists' memory m and return it changed.           *)
(***************************************************************************)
EXTENDS Naturals, FiniteSets

CONSTANTS
  Addr,   \* addresses of sockets
  Ctx,    \* addresses of contexts
  NULL

ASSUME ListAssumption ==
  IsFiniteSet(Addr \cup Ctx) /\ NULL \notin Addr \cup Ctx /\ Addr \cap Ctx = {}

(***************************************************************************)
(* want is auxiliary: how many sweeps the timeout asked for has yet to     *)
(* let pass.                                                               *)
(***************************************************************************)
Node == [used : BOOLEAN, context : Ctx \cup {NULL}, prev : Addr \cup Ctx \cup {NULL},
         next : Addr \cup {NULL}, timeout : Nat, want : Nat]
Unused == [used |-> FALSE, context |-> NULL, prev |-> NULL, next |-> NULL,
           timeout |-> 0, want |-> 0]

Memory == [head : [Ctx -> Addr \cup {NULL}], iterator : [Ctx -> Addr \cup {NULL}],
           node : [Addr -> Node], closedHead : Addr \cup {NULL}]
NoSockets == [head |-> [c \in Ctx |-> NULL], iterator |-> [c \in Ctx |-> NULL],
              node |-> [a \in Addr |-> Unused], closedHead |-> NULL]

IsClosed(m, s) == m.node[s].used /\ m.node[s].prev = m.node[s].context
Linked(m)      == {a \in Addr : m.node[a].used /\ ~IsClosed(m, a)}
Members(m, c)  == {a \in Linked(m) : m.node[a].context = c}

-----------------------------------------------------------------------------
\* asock_context_link: s becomes the head of c's list, its timeout off.
Link(m, c, s) ==
  LET first == m.head[c]
  IN  [m EXCEPT !.head[c] = s,
                !.node = [a \in Addr |->
                  CASE a = s     -> [m.node[s] EXCEPT !.context = c, !.prev = NULL,
                                       !.next = first, !.timeout = 0, !.want = 0]
                    [] a # s /\ a = first -> [m.node[a] EXCEPT !.prev = s]
                    [] OTHER     -> m.node[a]]]

\* asock_context_unlink: prev = next is taken to mean that s is alone.
MUnlink(m, s) ==   \* without "properly update the iterator"
  LET c == m.node[s].context
      p == m.node[s].prev
      n == m.node[s].next
  IN  [m EXCEPT !.head[c] = IF p = n THEN NULL ELSE IF p = NULL THEN n ELSE @,
                !.node = [a \in Addr |->
                  CASE a = p /\ p # n -> [m.node[a] EXCEPT !.next = n]
                    [] a = n /\ p # n -> [m.node[a] EXCEPT !.prev = p]
                    [] OTHER          -> m.node[a]]]

MUnlinkPrev(m, s) ==   \* the successor keeps its prev
  LET c == m.node[s].context
      p == m.node[s].prev
      n == m.node[s].next
  IN  [m EXCEPT !.iterator[c] = IF @ = s THEN n ELSE @,
                !.head[c] = IF p = n THEN NULL ELSE IF p = NULL THEN n ELSE @,
                !.node = [a \in Addr |->
                  IF a = p /\ p # n THEN [m.node[a] EXCEPT !.next = n] ELSE m.node[a]]]

Unlink(m, s) ==
  LET c == m.node[s].context
      p == m.node[s].prev
      n == m.node[s].next
  IN  [m EXCEPT !.iterator[c] = IF @ = s THEN n ELSE @,
                !.head[c] = IF p = n THEN NULL ELSE IF p = NULL THEN n ELSE @,
                !.node = [a \in Addr |->
                  CASE a = p /\ p # n -> [m.node[a] EXCEPT !.next = n]
                    [] a = n /\ p # n -> [m.node[a] EXCEPT !.prev = p]
                    [] OTHER          -> m.node[a]]]

\* The end of asock_socket_close: onto the closed list, and prev = context.
MBury(m, s) ==   \* the list before it is lost
  [m EXCEPT !.node[s].next = NULL, !.node[s].prev = m.node[s].context, !.closedHead = s]

Bury(m, s) ==
  [m EXCEPT !.node[s].next = m.closedHead, !.node[s].prev = m.node[s].context,
            !.closedHead = s]

\* realloc moves the block from s to n.
Relocate(m, s, n) == [m EXCEPT !.node[n] = m.node[s], !.node[s] = IF s = n THEN @ ELSE Unused]

-----------------------------------------------------------------------------
(***************************************************************************)
(* What following next from the pointer p arrives at, p included: what     *)
(* every set has that p points into and no next pointer leads out of.      *)
(***************************************************************************)
ClosedUnder(next, S) == \A a \in S : next[a] \in S \cup {NULL}

From(next, p) ==
  {a \in DOMAIN next :
     \A S \in SUBSET DOMAIN next :
       p \in S \cup {NULL} /\ ClosedUnder(next, S) => a \in S}

NextOf(m)    == [a \in Addr |-> m.node[a].next]
ListFrom(m, p) == From(NextOf(m), p)
=============================================================================
