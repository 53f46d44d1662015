-------------------------- MODULE ContextListProofs --------------------------
(***************************************************************************)
(* The intrusive lists of sockets, of any length: linking, unlinking,      *)
(* moving, closing and freeing a socket leave every list doubly linked     *)
(* and finite, and exactly the open sockets of its context in it.          *)
(***************************************************************************)
EXTENDS ContextList, TLAPS

-----------------------------------------------------------------------------
(***************************************************************************)
(* Lists as such: next pointers over some addresses D.                     *)
(***************************************************************************)
Pointers(D) == [D -> D \cup {NULL}]

LEMMA FromClosed ==
  ASSUME NEW D, NULL \notin D, NEW next \in Pointers(D), NEW p \in D \cup {NULL}
  PROVE  /\ From(next, p) \in SUBSET D
         /\ p \in From(next, p) \cup {NULL}
         /\ ClosedUnder(next, From(next, p))
<1>1. DOMAIN next = D
  BY DEF Pointers
<1>2. From(next, p) \in SUBSET D /\ p \in From(next, p) \cup {NULL}
  BY <1>1 DEF From
<1>3. ASSUME NEW a \in From(next, p), next[a] # NULL
      PROVE  next[a] \in From(next, p)
  <2>1. a \in D /\ next[a] \in D
    BY <1>1, <1>3 DEF From, Pointers
  <2>2. ASSUME NEW S \in SUBSET D, p \in S \cup {NULL}, ClosedUnder(next, S)
        PROVE  next[a] \in S
    <3>1. a \in S
      BY <1>1, <2>2 DEF From
    <3> QED
      BY <1>3, <2>2, <3>1 DEF ClosedUnder
  <2> QED
    BY <1>1, <2>1, <2>2 DEF From
<1> QED
  BY <1>2, <1>3 DEF ClosedUnder

\* It is the smallest such set.
LEMMA FromLeast ==
  ASSUME NEW next, NEW p, NEW S \in SUBSET DOMAIN next,
         p \in S \cup {NULL}, ClosedUnder(next, S)
  PROVE  From(next, p) \subseteq S
BY DEF From

\* Pointers that do not lie on the way do not matter.
LEMMA FromFrame ==
  ASSUME NEW D, NULL \notin D, NEW next \in Pointers(D), NEW then \in Pointers(D),
         NEW p \in D \cup {NULL}, \A a \in From(next, p) : then[a] = next[a]
  PROVE  From(then, p) = From(next, p)
<1>1. /\ From(next, p) \in SUBSET D /\ p \in From(next, p) \cup {NULL}
      /\ ClosedUnder(next, From(next, p))
  BY FromClosed
<1>2. /\ From(then, p) \in SUBSET D /\ p \in From(then, p) \cup {NULL}
      /\ ClosedUnder(then, From(then, p))
  BY FromClosed
<1>3. DOMAIN next = D /\ DOMAIN then = D
  BY DEF Pointers
<1>4. From(then, p) \subseteq From(next, p)
  <2>1. ClosedUnder(then, From(next, p))
    BY <1>1 DEF ClosedUnder
  <2> QED
    BY <1>1, <1>3, <2>1, FromLeast
<1>5. From(next, p) \subseteq From(then, p)
  <2> DEFINE S == From(next, p) \cap From(then, p)
  <2>1. p \in S \cup {NULL} /\ S \in SUBSET D
    BY <1>1, <1>2
  <2>2. ClosedUnder(next, S)
    BY <1>1, <1>2 DEF ClosedUnder
  <2> HIDE DEF S
  <2>3. From(next, p) \subseteq S
    BY <1>3, <2>1, <2>2, FromLeast
  <2> QED
    BY <2>3 DEF S
<1> QED
  BY <1>4, <1>5

\* The list from p on is p and the list behind it.
LEMMA FromStep ==
  ASSUME NEW D, NULL \notin D, NEW next \in Pointers(D), NEW p \in D
  PROVE  From(next, p) = {p} \cup From(next, next[p])
<1>1. next[p] \in D \cup {NULL} /\ DOMAIN next = D
  BY DEF Pointers
<1>2. /\ From(next, p) \in SUBSET D /\ p \in From(next, p) \cup {NULL}
      /\ ClosedUnder(next, From(next, p))
  BY FromClosed
<1>3. /\ From(next, next[p]) \in SUBSET D /\ next[p] \in From(next, next[p]) \cup {NULL}
      /\ ClosedUnder(next, From(next, next[p]))
  BY <1>1, FromClosed
<1>4. p \in From(next, p) /\ next[p] \in From(next, p) \cup {NULL}
  BY <1>2 DEF ClosedUnder
<1>5. From(next, next[p]) \subseteq From(next, p)
  BY <1>1, <1>2, <1>4, FromLeast
<1>6. From(next, p) \subseteq {p} \cup From(next, next[p])
  <2> DEFINE S == {p} \cup From(next, next[p])
  <2>1. S \in SUBSET D /\ p \in S \cup {NULL} /\ ClosedUnder(next, S)
    BY <1>3 DEF ClosedUnder
  <2> HIDE DEF S
  <2>2. From(next, p) \subseteq S
    BY <1>1, <2>1, FromLeast
  <2> QED
    BY <2>2 DEF S
<1> QED
  BY <1>4, <1>5, <1>6

LEMMA FromNull ==
  ASSUME NEW next
  PROVE  From(next, NULL) = {}
<1>1. {} \in SUBSET DOMAIN next /\ ClosedUnder(next, {})
  BY DEF ClosedUnder
<1> QED
  BY <1>1, FromLeast

-----------------------------------------------------------------------------
\* The list that starts at p holds exactly M, and comes to an end: nothing in it
\* is met again behind itself.
Chain(next, p, M) ==
  /\ From(next, p) = M
  /\ \A a \in M : a \notin From(next, next[a])

LEMMA ChainTypes ==
  ASSUME NEW D, NULL \notin D, NEW next \in Pointers(D), NEW p \in D \cup {NULL}, NEW M,
         Chain(next, p, M)
  PROVE  /\ M \in SUBSET D /\ p \in M \cup {NULL}
         /\ \A a \in M : /\ next[a] \in M \cup {NULL}
                         /\ From(next, next[a]) \subseteq M
<1>1. /\ M \in SUBSET D /\ p \in M \cup {NULL} /\ ClosedUnder(next, M)
  BY FromClosed DEF Chain
<1>2. DOMAIN next = D
  BY DEF Pointers
<1>3. ASSUME NEW a \in M
      PROVE  next[a] \in M \cup {NULL} /\ From(next, next[a]) \subseteq M
  <2>1. next[a] \in M \cup {NULL}
    BY <1>1 DEF ClosedUnder
  <2> QED
    BY <1>1, <1>2, <2>1, FromLeast
<1> QED
  BY <1>1, <1>3

\* Other lists' pointers do not matter.
LEMMA ChainFrame ==
  ASSUME NEW D, NULL \notin D, NEW next \in Pointers(D), NEW then \in Pointers(D),
         NEW p \in D \cup {NULL}, NEW M, Chain(next, p, M), \A a \in M : then[a] = next[a]
  PROVE  Chain(then, p, M)
<1>1. From(then, p) = M
  BY FromFrame DEF Chain
<1>2. ASSUME NEW a \in M
      PROVE  a \notin From(then, then[a])
  <2>1. /\ next[a] \in D \cup {NULL} /\ From(next, next[a]) \subseteq M /\ then[a] = next[a]
    BY ChainTypes
  <2>2. From(then, next[a]) = From(next, next[a])
    BY <2>1, FromFrame
  <2> QED
    BY <2>1, <2>2 DEF Chain
<1> QED
  BY <1>1, <1>2 DEF Chain

LEMMA ChainPush ==
  ASSUME NEW D, NULL \notin D, NEW next \in Pointers(D), NEW then \in Pointers(D),
         NEW p \in D \cup {NULL}, NEW M, Chain(next, p, M), \A a \in M : then[a] = next[a],
         NEW x \in D \ M, then[x] = p
  PROVE  Chain(then, x, M \cup {x})
<1>1. Chain(then, p, M)
  BY ChainFrame
<1>2. From(then, x) = M \cup {x}
  BY <1>1, FromStep DEF Chain
<1>3. x \notin From(then, then[x])
  BY <1>1 DEF Chain
<1> QED
  BY <1>1, <1>2, <1>3 DEF Chain

LEMMA ChainPop ==
  ASSUME NEW D, NULL \notin D, NEW next \in Pointers(D), NEW p \in D, NEW M, Chain(next, p, M)
  PROVE  Chain(next, next[p], M \ {p})
<1>1. From(next, p) = {p} \cup From(next, next[p]) /\ p \in M
  BY FromStep DEF Chain
<1>2. p \notin From(next, next[p])
  BY <1>1 DEF Chain
<1> QED
  BY <1>1, <1>2 DEF Chain

\* t is taken out from behind q, the only one that points to it.
LEMMA ChainCut ==
  ASSUME NEW D, NULL \notin D, NEW next \in Pointers(D), NEW then \in Pointers(D),
         NEW p \in D, NEW M, Chain(next, p, M),
         NEW q \in M, NEW t \in M, p # t, q # t, next[q] = t, \A a \in M : next[a] = t => a = q,
         then[q] = next[t], \A a \in M \ {q} : then[a] = next[a]
  PROVE  Chain(then, p, M \ {t})
<1>1. /\ M \in SUBSET D /\ p \in M
      /\ \A a \in M : next[a] \in M \cup {NULL} /\ From(next, next[a]) \subseteq M
  BY ChainTypes
<1>2. DOMAIN next = D /\ DOMAIN then = D
  BY DEF Pointers
<1>3. t \notin From(next, next[t])
  BY DEF Chain
<1>4. next[t] # t
  <2>1. next[t] \in From(next, next[t]) \cup {NULL}
    BY <1>1, FromClosed
  <2> QED
    BY <1>1, <1>3, <2>1
<1>5. From(then, p) \subseteq M \ {t}
  <2>1. ClosedUnder(then, M \ {t})
    BY <1>1, <1>4 DEF ClosedUnder
  <2> QED
    BY <1>1, <1>2, <2>1, FromLeast
<1>6. M \ {t} \subseteq From(then, p)
  <2> DEFINE T == From(then, p)
             S == IF q \in T THEN T \cup {t} ELSE T
  <2>1. T \in SUBSET D /\ p \in T /\ ClosedUnder(then, T) /\ T \subseteq M \ {t}
    BY <1>1, <1>5, FromClosed
  <2>2. S \in SUBSET D /\ p \in S
    BY <1>1, <2>1
  <2>3. ClosedUnder(next, S)
    <3> SUFFICES ASSUME NEW a \in S PROVE next[a] \in S \cup {NULL}
      BY DEF ClosedUnder
    <3>1. CASE a = t
      BY <2>1, <3>1 DEF ClosedUnder
    <3>2. CASE a # t /\ a = q
      BY <2>1, <3>2
    <3>3. CASE a # t /\ a # q
      BY <2>1, <3>3 DEF ClosedUnder
    <3> QED
      BY <3>1, <3>2, <3>3
  <2> HIDE DEF S
  <2>4. From(next, p) \subseteq S
    BY <1>2, <2>2, <2>3, FromLeast
  <2> QED
    BY <2>4 DEF S, Chain
<1>7. ASSUME NEW a \in M \ {t}
      PROVE  a \notin From(then, then[a])
  <2> DEFINE R == From(next, next[a])
  <2>1. next[a] \in D \cup {NULL} /\ R \in SUBSET D /\ next[a] \in R \cup {NULL}
        /\ ClosedUnder(next, R) /\ R \subseteq M
    BY <1>1, FromClosed
  <2> HIDE DEF R
  <2>2. ClosedUnder(then, R)
    <3> SUFFICES ASSUME NEW b \in R PROVE then[b] \in R \cup {NULL}
      BY DEF ClosedUnder
    <3>1. CASE b = q
      <4>1. t \in R
        BY <1>1, <2>1, <3>1 DEF ClosedUnder
      <4> QED
        BY <2>1, <3>1, <4>1 DEF ClosedUnder
    <3>2. CASE b # q
      BY <2>1, <3>2 DEF ClosedUnder
    <3> QED
      BY <3>1, <3>2
  <2>3. then[a] \in R \cup {NULL}
    BY <1>1, <2>1 DEF ClosedUnder
  <2>4. From(then, then[a]) \subseteq R
    BY <1>2, <2>1, <2>2, <2>3, FromLeast
  <2> QED
    BY <2>4 DEF Chain, R
<1> QED
  BY <1>5, <1>6, <1>7 DEF Chain

\* The same for what is left of a list from a pointer p into it, which goes on to
\* the next if it points to t.
LEMMA TailCut ==
  ASSUME NEW D, NULL \notin D, NEW next \in Pointers(D), NEW then \in Pointers(D),
         NEW M \in SUBSET D, ClosedUnder(next, M), NEW p \in M \cup {NULL},
         NEW q, NEW t \in M, t \notin From(next, next[t]),
         \A a \in M : next[a] = t <=> a = q,
         \A a \in D : then[a] = IF a = q THEN next[t] ELSE next[a]
  PROVE  From(then, IF p = t THEN next[t] ELSE p) = From(next, p) \ {t}
<1> DEFINE T == From(next, p)
           r == IF p = t THEN next[t] ELSE p
<1>1. DOMAIN next = D /\ DOMAIN then = D /\ p \in D \cup {NULL} /\ next[t] \in M \cup {NULL}
  BY DEF Pointers, ClosedUnder
<1>2. T \in SUBSET D /\ p \in T \cup {NULL} /\ ClosedUnder(next, T) /\ T \subseteq M
  BY <1>1, FromClosed, FromLeast
<1>3. next[t] # t
  <2>1. next[t] \in From(next, next[t]) \cup {NULL}
    BY <1>1, FromClosed
  <2> QED
    BY <2>1
<1>4. r \in (T \ {t}) \cup {NULL} /\ r \in D \cup {NULL}
  BY <1>1, <1>2, <1>3 DEF ClosedUnder
<1> HIDE DEF T
<1>5. ClosedUnder(then, T \ {t})
  <2> SUFFICES ASSUME NEW a \in T \ {t} PROVE then[a] \in (T \ {t}) \cup {NULL}
    BY DEF ClosedUnder
  <2>1. CASE a = q
    <3>1. next[a] = t /\ t \in T
      BY <1>2, <2>1 DEF ClosedUnder
    <3> QED
      BY <1>2, <1>3, <2>1, <3>1 DEF ClosedUnder
  <2>2. CASE a # q
    BY <1>2, <2>2 DEF ClosedUnder
  <2> QED
    BY <2>1, <2>2
<1>6. From(then, r) \subseteq T \ {t}
  BY <1>1, <1>2, <1>4, <1>5, FromLeast
<1>7. T \ {t} \subseteq From(then, r)
  <2> DEFINE R == From(then, r)
             S == R \cup {t}
  <2>1. R \in SUBSET D /\ r \in R \cup {NULL} /\ ClosedUnder(then, R) /\ R \subseteq T \ {t}
    BY <1>4, <1>6, FromClosed
  <2> HIDE DEF R
  <2>2. CASE t \in T
    <3>1. p \in S \cup {NULL}
      BY <2>1
    <3>2. p = t \/ q \in R \/ t \notin T
      <4> SUFFICES ASSUME p # t, q \notin R PROVE t \notin T
        OBVIOUS
      <4>1. ClosedUnder(next, R)
        BY <2>1 DEF ClosedUnder
      <4>2. T \subseteq R
        BY <1>1, <2>1, <4>1, FromLeast DEF T
      <4> QED
        BY <2>1, <4>2
    <3>3. next[t] \in R \cup {NULL}
      BY <2>1, <2>2, <3>2 DEF ClosedUnder
    <3>4. ClosedUnder(next, S)
      BY <1>2, <2>1, <3>3 DEF ClosedUnder
    <3>5. T \subseteq S
      BY <1>1, <2>1, <3>1, <3>4, FromLeast DEF T
    <3> QED
      BY <3>5 DEF R
  <2>3. CASE t \notin T
    <3>1. ClosedUnder(next, R) /\ p \in R \cup {NULL}
      <4>1. q \notin R
        BY <1>2, <2>1, <2>3 DEF ClosedUnder
      <4> QED
        BY <1>2, <2>1, <2>3, <4>1 DEF ClosedUnder
    <3>2. T \subseteq R
      BY <1>1, <2>1, <3>1, FromLeast DEF T
    <3> QED
      BY <3>2 DEF R
  <2> QED
    BY <2>2, <2>3
<1> QED
  BY <1>6, <1>7 DEF T

-----------------------------------------------------------------------------
(***************************************************************************)
(* What the operations write.                                              *)
(***************************************************************************)
LEMMA NodeTypes ==
  ASSUME NEW m \in Memory, NEW a \in Addr
  PROVE  /\ m.node[a] \in Node
         /\ m.node[a].next \in Addr \cup {NULL}
         /\ m.node[a].prev \in Addr \cup Ctx \cup {NULL}
         /\ m.node[a].context \in Ctx \cup {NULL}
BY DEF Memory, Node

LEMMA NextOfTypes ==
  ASSUME NEW m \in Memory
  PROVE  NextOf(m) \in Pointers(Addr) /\ \A a \in Addr : NextOf(m)[a] = m.node[a].next
BY NodeTypes DEF NextOf, Pointers

LEMMA LinkWrites ==
  ASSUME NEW m \in Memory, NEW c \in Ctx, NEW x \in Addr, m.head[c] # x
  PROVE  LET t == Link(m, c, x)
         IN  /\ t \in Memory
             /\ t.head = [m.head EXCEPT ![c] = x]
             /\ t.iterator = m.iterator /\ t.closedHead = m.closedHead
             /\ t.node[x].next = m.head[c] /\ t.node[x].prev = NULL /\ t.node[x].context = c
             /\ t.node[x].used = m.node[x].used
             /\ \A a \in Addr \ {x} :
                  /\ t.node[a].next = m.node[a].next /\ t.node[a].context = m.node[a].context
                  /\ t.node[a].used = m.node[a].used
                  /\ t.node[a].prev = IF a = m.head[c] THEN x ELSE m.node[a].prev
<1> DEFINE first == m.head[c]
           nx == [m.node[x] EXCEPT !.context = c, !.prev = NULL, !.next = first,
                                   !.timeout = 0, !.want = 0]
           nodes == [a \in Addr |-> CASE a = x     -> nx
                                     [] a # x /\ a = first -> [m.node[a] EXCEPT !.prev = x]
                                     [] OTHER     -> m.node[a]]
           t == Link(m, c, x)
<1>1. /\ first \in Addr \cup {NULL} /\ m.head \in [Ctx -> Addr \cup {NULL}]
      /\ m.node \in [Addr -> Node]
  BY DEF Memory
<1>2. /\ nx \in Node
      /\ nx.next = first /\ nx.prev = NULL /\ nx.context = c /\ nx.used = m.node[x].used
  BY <1>1, NodeTypes DEF Node
<1> HIDE DEF nx
<1>3. \A a \in Addr : LET z == [m.node[a] EXCEPT !.prev = x]
                      IN  /\ z \in Node /\ z.next = m.node[a].next
                          /\ z.context = m.node[a].context /\ z.used = m.node[a].used
                          /\ z.prev = x
  BY NodeTypes DEF Node
<1>4. /\ nodes \in [Addr -> Node]
      /\ nodes[x] = nx
      /\ \A a \in Addr \ {x} :
           nodes[a] = IF a = first THEN [m.node[a] EXCEPT !.prev = x] ELSE m.node[a]
  BY <1>1, <1>2, <1>3, NodeTypes
<1>5. t = [m EXCEPT !.head = [m.head EXCEPT ![c] = x], !.node = nodes]
  BY DEF Link, nx, Memory
<1> HIDE DEF nodes, first
<1>6. /\ t \in Memory /\ t.head = [m.head EXCEPT ![c] = x]
      /\ t.iterator = m.iterator /\ t.closedHead = m.closedHead /\ t.node = nodes
  <2>1. [m.head EXCEPT ![c] = x] \in [Ctx -> Addr \cup {NULL}]
    BY <1>1
  <2> QED
    BY <1>4, <1>5, <2>1 DEF Memory
<1> HIDE DEF t
<1>7. ASSUME NEW a \in Addr \ {x}
      PROVE  /\ t.node[a].next = m.node[a].next /\ t.node[a].context = m.node[a].context
             /\ t.node[a].used = m.node[a].used
             /\ t.node[a].prev = IF a = first THEN x ELSE m.node[a].prev
  BY <1>3, <1>4, <1>6
<1> QED
  BY <1>2, <1>4, <1>6, <1>7 DEF t, first

LEMMA UnlinkWrites ==
  ASSUME NEW m \in Memory, NEW x \in Addr, NEW c \in Ctx, NEW p, NEW n,
         m.node[x].context = c, m.node[x].prev = p, m.node[x].next = n
  PROVE  LET t == Unlink(m, x)
         IN  /\ t \in Memory
             /\ t.head = [m.head EXCEPT ![c] = IF p = n THEN NULL
                                               ELSE IF p = NULL THEN n ELSE m.head[c]]
             /\ t.iterator = [m.iterator EXCEPT ![c] = IF m.iterator[c] = x THEN n
                                                       ELSE m.iterator[c]]
             /\ t.closedHead = m.closedHead
             /\ \A a \in Addr :
                  /\ t.node[a].context = m.node[a].context /\ t.node[a].used = m.node[a].used
                  /\ t.node[a].next = IF p # n /\ a = p THEN n ELSE m.node[a].next
                  /\ t.node[a].prev = IF p # n /\ a = n THEN p ELSE m.node[a].prev
<1> DEFINE nodes == [a \in Addr |-> CASE a = p /\ p # n -> [m.node[a] EXCEPT !.next = n]
                                     [] a = n /\ p # n -> [m.node[a] EXCEPT !.prev = p]
                                     [] OTHER          -> m.node[a]]
           heads == [m.head EXCEPT ![c] = IF p = n THEN NULL
                                          ELSE IF p = NULL THEN n ELSE m.head[c]]
           iterators == [m.iterator EXCEPT ![c] = IF m.iterator[c] = x THEN n ELSE m.iterator[c]]
           t == Unlink(m, x)
<1>1. /\ n \in Addr \cup {NULL} /\ p \in Addr \cup Ctx \cup {NULL}
      /\ m.node \in [Addr -> Node]
      /\ m.head \in [Ctx -> Addr \cup {NULL}] /\ m.iterator \in [Ctx -> Addr \cup {NULL}]
  BY NodeTypes DEF Memory
<1>2. \A a \in Addr : LET z == [m.node[a] EXCEPT !.next = n]
                      IN  /\ z \in Node /\ z.next = n /\ z.prev = m.node[a].prev
                          /\ z.context = m.node[a].context /\ z.used = m.node[a].used
  BY <1>1, NodeTypes DEF Node
<1>3. \A a \in Addr : LET z == [m.node[a] EXCEPT !.prev = p]
                      IN  /\ z \in Node /\ z.next = m.node[a].next /\ z.prev = p
                          /\ z.context = m.node[a].context /\ z.used = m.node[a].used
  BY <1>1, NodeTypes DEF Node
<1>4. /\ nodes \in [Addr -> Node]
      /\ \A a \in Addr :
           nodes[a] = IF p # n /\ a = p THEN [m.node[a] EXCEPT !.next = n]
                      ELSE IF p # n /\ a = n THEN [m.node[a] EXCEPT !.prev = p]
                      ELSE m.node[a]
  BY <1>1, <1>2, <1>3, NodeTypes
<1>5. t = [m EXCEPT !.iterator = iterators, !.head = heads, !.node = nodes]
  BY <1>1 DEF Unlink, Memory
<1>6. heads \in [Ctx -> Addr \cup {NULL}] /\ iterators \in [Ctx -> Addr \cup {NULL}]
  <2>1. (IF p = n THEN NULL ELSE IF p = NULL THEN n ELSE m.head[c]) \in Addr \cup {NULL}
    BY <1>1
  <2>2. (IF m.iterator[c] = x THEN n ELSE m.iterator[c]) \in Addr \cup {NULL}
    BY <1>1
  <2> QED
    BY <1>1, <2>1, <2>2
<1> HIDE DEF nodes, heads, iterators
<1>7. /\ t \in Memory /\ t.head = heads /\ t.iterator = iterators
      /\ t.closedHead = m.closedHead /\ t.node = nodes
  BY <1>4, <1>5, <1>6 DEF Memory
<1> HIDE DEF t
<1>8. ASSUME NEW a \in Addr
      PROVE  /\ t.node[a].context = m.node[a].context /\ t.node[a].used = m.node[a].used
             /\ t.node[a].next = IF p # n /\ a = p THEN n ELSE m.node[a].next
             /\ t.node[a].prev = IF p # n /\ a = n THEN p ELSE m.node[a].prev
  <2>1. CASE p # n /\ a = p
    <3>1. t.node[a] = [m.node[a] EXCEPT !.next = n] /\ a # n
      BY <1>4, <1>7, <2>1
    <3> QED
      BY <1>2, <2>1, <3>1
  <2>2. CASE p # n /\ a = n
    <3>1. t.node[a] = [m.node[a] EXCEPT !.prev = p] /\ a # p
      BY <1>4, <1>7, <2>2
    <3> QED
      BY <1>3, <2>2, <3>1
  <2>3. CASE ~(p # n /\ a = p) /\ ~(p # n /\ a = n)
    <3>1. t.node[a] = m.node[a]
      BY <1>4, <1>7, <2>3
    <3> QED
      BY <2>3, <3>1
  <2> QED
    BY <2>1, <2>2, <2>3
<1> QED
  BY <1>7, <1>8 DEF t, heads, iterators

LEMMA BuryWrites ==
  ASSUME NEW m \in Memory, NEW x \in Addr
  PROVE  LET t == Bury(m, x)
         IN  /\ t \in Memory
             /\ t.head = m.head /\ t.iterator = m.iterator /\ t.closedHead = x
             /\ t.node[x].next = m.closedHead /\ t.node[x].prev = m.node[x].context
             /\ t.node[x].context = m.node[x].context /\ t.node[x].used = m.node[x].used
             /\ \A a \in Addr \ {x} : t.node[a] = m.node[a]
<1> DEFINE nx == [m.node[x] EXCEPT !.next = m.closedHead, !.prev = m.node[x].context]
           t == Bury(m, x)
<1>1. m.node \in [Addr -> Node] /\ m.closedHead \in Addr \cup {NULL}
  BY DEF Memory
<1>2. /\ nx \in Node /\ nx.next = m.closedHead /\ nx.prev = m.node[x].context
      /\ nx.context = m.node[x].context /\ nx.used = m.node[x].used
  BY <1>1, NodeTypes DEF Node
<1>3. t = [m EXCEPT !.node = [m.node EXCEPT ![x] = nx], !.closedHead = x]
  BY <1>1 DEF Bury, Memory, Node
<1> HIDE DEF nx
<1>4. /\ t \in Memory /\ t.node = [m.node EXCEPT ![x] = nx]
      /\ t.head = m.head /\ t.iterator = m.iterator /\ t.closedHead = x
  BY <1>1, <1>2, <1>3 DEF Memory
<1> HIDE DEF t
<1> QED
  BY <1>1, <1>2, <1>4 DEF t

LEMMA RelocateWrites ==
  ASSUME NEW m \in Memory, NEW x \in Addr, NEW y \in Addr
  PROVE  LET t == Relocate(m, x, y)
         IN  /\ t \in Memory
             /\ t.head = m.head /\ t.iterator = m.iterator /\ t.closedHead = m.closedHead
             /\ t.node[y] = m.node[x]
             /\ x # y => t.node[x] = Unused
             /\ \A a \in Addr \ {x, y} : t.node[a] = m.node[a]
<1> DEFINE moved == [m.node EXCEPT ![y] = m.node[x]]
           nodes == [moved EXCEPT ![x] = IF x = y THEN moved[x] ELSE Unused]
           t == Relocate(m, x, y)
<1>1. m.node \in [Addr -> Node] /\ Unused \in Node
  BY DEF Memory, Node, Unused
<1>2. moved \in [Addr -> Node] /\ nodes \in [Addr -> Node]
  BY <1>1
<1>3. t = [m EXCEPT !.node = nodes]
  BY <1>1 DEF Relocate, Memory
<1>4. /\ nodes[y] = m.node[x] /\ (x # y => nodes[x] = Unused)
      /\ \A a \in Addr \ {x, y} : nodes[a] = m.node[a]
  BY <1>1
<1> HIDE DEF nodes, moved
<1>5. /\ t \in Memory /\ t.node = nodes
      /\ t.head = m.head /\ t.iterator = m.iterator /\ t.closedHead = m.closedHead
  BY <1>2, <1>3 DEF Memory
<1> QED
  BY <1>4, <1>5

-----------------------------------------------------------------------------
(***************************************************************************)
(* The lists in order: in[c] is in the list of context c, dead on the      *)
(* closed list.  In the middle of a call a socket may be in neither.       *)
(***************************************************************************)
Doubly(m, c, M) ==
  \A a \in M :
    /\ m.node[a].context = c
    /\ m.node[a].prev = NULL <=> m.head[c] = a
    /\ m.node[a].prev # NULL => m.node[a].prev \in M /\ m.node[m.node[a].prev].next = a
    /\ m.node[a].next # NULL => m.node[m.node[a].next].prev = a

ListOK(m, c, M) ==
  /\ Chain(NextOf(m), m.head[c], M)
  /\ Doubly(m, c, M)
  /\ m.iterator[c] \in M \cup {NULL}

Lists(m, in, dead) ==
  /\ m \in Memory
  /\ in \in [Ctx -> SUBSET Addr] /\ dead \in SUBSET Addr
  /\ \A c \in Ctx : ListOK(m, c, in[c]) /\ in[c] \cap dead = {}
  /\ Chain(NextOf(m), m.closedHead, dead)

\* x is put into the list of c, or taken out of it.
With(in, c, x)    == [in EXCEPT ![c] = @ \cup {x}]
Without(in, c, x) == [in EXCEPT ![c] = @ \ {x}]

LEMMA HeadTypes ==
  ASSUME NEW m \in Memory
  PROVE  /\ m.closedHead \in Addr \cup {NULL} /\ NULL \notin Addr
         /\ \A c \in Ctx : m.head[c] \in Addr \cup {NULL}
BY ListAssumption DEF Memory

\* A list none of whose sockets was touched.
LEMMA ListFrame ==
  ASSUME NEW m \in Memory, NEW t \in Memory, NEW c \in Ctx, NEW M \in SUBSET Addr, ListOK(m, c, M),
         t.head[c] = m.head[c], t.iterator[c] \in M \cup {NULL},
         \A a \in M : /\ t.node[a].next = m.node[a].next /\ t.node[a].prev = m.node[a].prev
                      /\ t.node[a].context = m.node[a].context
  PROVE  ListOK(t, c, M)
<1>1. Chain(NextOf(t), t.head[c], M)
  <2>1. \A a \in M : NextOf(t)[a] = NextOf(m)[a]
    BY NextOfTypes
  <2> QED
    BY <2>1, NextOfTypes, HeadTypes, ChainFrame DEF ListOK
<1>2. \A a \in M : m.node[a].next # NULL => m.node[a].next \in M
  <2>1. \A a \in M : NextOf(m)[a] \in M \cup {NULL}
    BY NextOfTypes, HeadTypes, ChainTypes DEF ListOK
  <2> QED
    BY <2>1, NextOfTypes
<1>3. Doubly(t, c, M)
  BY <1>2 DEF ListOK, Doubly
<1> QED
  BY <1>1, <1>3 DEF ListOK

LEMMA DeadFrame ==
  ASSUME NEW m \in Memory, NEW t \in Memory, NEW M \in SUBSET Addr,
         Chain(NextOf(m), m.closedHead, M), t.closedHead = m.closedHead,
         \A a \in M : t.node[a].next = m.node[a].next
  PROVE  Chain(NextOf(t), t.closedHead, M)
<1>1. \A a \in M : NextOf(t)[a] = NextOf(m)[a]
  BY NextOfTypes
<1> QED
  BY <1>1, NextOfTypes, HeadTypes, ChainFrame

\* No step on links at all: timeouts, the iterators.
LEMMA ListsFrame ==
  ASSUME NEW m, NEW in, NEW dead, Lists(m, in, dead), NEW t \in Memory,
         t.closedHead = m.closedHead,
         \A c \in Ctx : t.head[c] = m.head[c] /\ t.iterator[c] \in in[c] \cup {NULL},
         \A a \in dead \cup UNION {in[c] : c \in Ctx} :
           /\ t.node[a].next = m.node[a].next /\ t.node[a].prev = m.node[a].prev
           /\ t.node[a].context = m.node[a].context
  PROVE  Lists(t, in, dead)
<1>1. ASSUME NEW c \in Ctx
      PROVE  ListOK(t, c, in[c])
  <2>1. /\ m \in Memory /\ in[c] \in SUBSET Addr /\ ListOK(m, c, in[c])
    BY DEF Lists
  <2>2. \A a \in in[c] : a \in dead \cup UNION {in[d] : d \in Ctx}
    OBVIOUS
  <2> QED
    BY <2>1, <2>2, ListFrame
<1>2. Chain(NextOf(t), t.closedHead, dead)
  BY DeadFrame DEF Lists
<1> QED
  BY <1>1, <1>2 DEF Lists

\* A socket that is in no list goes to the front of a context's.
LEMMA LinkKeeps ==
  ASSUME NEW m, NEW in, NEW dead, Lists(m, in, dead), NEW c \in Ctx, NEW x \in Addr,
         x \notin dead, \A d \in Ctx : x \notin in[d]
  PROVE  /\ Lists(Link(m, c, x), With(in, c, x), dead)
         /\ \A a \in dead : /\ Link(m, c, x).node[a].prev = m.node[a].prev
                            /\ Link(m, c, x).node[a].context = m.node[a].context
         /\ Link(m, c, x).node[x].context = c
         /\ \A a \in Addr \ {x} : Link(m, c, x).node[a].context = m.node[a].context
         /\ \A a \in Addr : Link(m, c, x).node[a].used = m.node[a].used
<1> DEFINE t == Link(m, c, x)
           M == in[c]
           first == m.head[c]
<1>1. /\ m \in Memory /\ in \in [Ctx -> SUBSET Addr] /\ M \in SUBSET Addr /\ dead \in SUBSET Addr
      /\ \A d \in Ctx : ListOK(m, d, in[d]) /\ in[d] \cap dead = {}
      /\ Chain(NextOf(m), m.closedHead, dead)
  BY DEF Lists
<1>2. first \in M \cup {NULL} /\ NULL \notin Addr
      /\ \A a \in M : NextOf(m)[a] \in M \cup {NULL}
  BY <1>1, NextOfTypes, HeadTypes, ChainTypes DEF ListOK
<1>3. first # x
  BY <1>2, ListAssumption
<1>4. /\ t \in Memory
      /\ t.head = [m.head EXCEPT ![c] = x]
      /\ t.iterator = m.iterator /\ t.closedHead = m.closedHead
      /\ t.node[x].next = first /\ t.node[x].prev = NULL /\ t.node[x].context = c
      /\ t.node[x].used = m.node[x].used
      /\ \A a \in Addr \ {x} :
           /\ t.node[a].next = m.node[a].next /\ t.node[a].context = m.node[a].context
           /\ t.node[a].used = m.node[a].used
           /\ t.node[a].prev = IF a = first THEN x ELSE m.node[a].prev
  BY <1>1, <1>3, LinkWrites
<1> HIDE DEF t
<1>5. m.head \in [Ctx -> Addr \cup {NULL}]
  BY <1>1 DEF Memory
<1>6. ListOK(t, c, M \cup {x})
  <2>1. Chain(NextOf(t), x, M \cup {x})
    <3>1. /\ Chain(NextOf(m), first, M) /\ first \in Addr \cup {NULL} /\ x \in Addr \ M
          /\ NextOf(t)[x] = first /\ \A a \in M : NextOf(t)[a] = NextOf(m)[a]
      BY <1>1, <1>2, <1>4, NextOfTypes DEF ListOK
    <3> QED
      BY <1>1, <1>2, <1>4, <3>1, NextOfTypes, ChainPush
  <2>2. t.head[c] = x
    BY <1>4, <1>5
  <2>3. Doubly(m, c, M)
    BY <1>1 DEF ListOK
  <2>4. \A a \in M : m.node[a].next \in M \cup {NULL}
    BY <1>1, <1>2, NextOfTypes
  <2>5. ASSUME NEW a \in M \cup {x}
        PROVE  /\ t.node[a].context = c
               /\ t.node[a].prev = NULL <=> t.head[c] = a
               /\ t.node[a].prev # NULL => /\ t.node[a].prev \in M \cup {x}
                                           /\ t.node[t.node[a].prev].next = a
               /\ t.node[a].next # NULL => t.node[t.node[a].next].prev = a
    <3>1. CASE a = x
      <4>1. /\ t.node[a].context = c /\ t.node[a].prev = NULL /\ t.head[c] = a
            /\ t.node[a].next = first
        BY <1>4, <2>2, <3>1
      <4>2. first # NULL => t.node[first].prev = a
        BY <1>1, <1>2, <1>3, <1>4, <3>1
      <4> QED
        BY <4>1, <4>2
    <3>2. CASE a # x /\ a = first
      <4>1. a \in M /\ t.node[a].prev = x /\ t.node[a].next = m.node[a].next /\ t.node[a].context = c
        BY <1>1, <1>4, <2>3, <3>2 DEF Doubly
      <4>2. ASSUME m.node[a].next # NULL
            PROVE  t.node[m.node[a].next].prev = a
        <5>1. m.node[a].next \in M /\ m.node[m.node[a].next].prev = a
          BY <2>3, <2>4, <4>1, <4>2 DEF Doubly
        <5>2. m.node[a].next # first
          BY <2>3, <3>2, <4>1, <5>1, <1>2, <1>1 DEF Doubly
        <5> QED
          BY <1>1, <1>4, <5>1, <5>2
      <4>3. t.node[x].next = a /\ x # NULL /\ t.head[c] # a /\ x \in M \cup {x}
        BY <1>2, <1>4, <2>2, <3>2
      <4> QED
        BY <4>1, <4>2, <4>3
    <3>3. CASE a # x /\ a # first
      <4>1. /\ a \in M /\ t.node[a].prev = m.node[a].prev /\ t.node[a].next = m.node[a].next
            /\ t.node[a].context = c
        BY <1>1, <1>4, <2>3, <3>3 DEF Doubly
      <4>2. /\ m.node[a].prev \in M /\ m.node[m.node[a].prev].next = a
        BY <2>3, <3>3, <4>1 DEF Doubly
      <4>3. t.node[m.node[a].prev].next = a
        BY <1>1, <1>4, <4>2
      <4>4. m.node[a].prev # NULL
        BY <1>1, <1>2, <4>2
      <4>5. ASSUME m.node[a].next # NULL
            PROVE  t.node[m.node[a].next].prev = a
        <5>1. m.node[a].next \in M /\ m.node[m.node[a].next].prev = a
          BY <2>3, <2>4, <4>1, <4>5 DEF Doubly
        <5>2. m.node[a].next # first
          BY <1>1, <1>2, <2>3, <4>1, <5>1 DEF Doubly
        <5> QED
          BY <1>1, <1>4, <5>1, <5>2
      <4> QED
        BY <2>2, <3>3, <4>1, <4>2, <4>3, <4>4, <4>5
    <3> QED
      BY <3>1, <3>2, <3>3
  <2>6. Doubly(t, c, M \cup {x})
    BY <2>5 DEF Doubly
  <2>7. t.iterator[c] \in M \cup {NULL}
    BY <1>1, <1>4 DEF ListOK
  <2> QED
    BY <2>1, <2>2, <2>6, <2>7 DEF ListOK
<1>7. ASSUME NEW d \in Ctx, d # c
      PROVE  ListOK(t, d, in[d])
  <2>1. in[d] \in SUBSET Addr /\ ListOK(m, d, in[d])
    BY <1>1
  <2>2. t.head[d] = m.head[d] /\ t.iterator[d] \in in[d] \cup {NULL}
    BY <1>4, <1>5, <1>7, <2>1 DEF ListOK
  <2>3. \A a \in in[d] : a \in Addr \ {x} /\ m.node[a].context = d
    BY <2>1 DEF ListOK, Doubly
  <2>4. \A a \in M : m.node[a].context = c
    BY <1>1 DEF ListOK, Doubly
  <2>5. \A a \in in[d] : a # first
    BY <1>2, <1>7, <2>1, <2>3, <2>4
  <2>6. \A a \in in[d] : /\ t.node[a].next = m.node[a].next /\ t.node[a].prev = m.node[a].prev
                         /\ t.node[a].context = m.node[a].context
    BY <1>4, <2>3, <2>5
  <2> QED
    BY <1>1, <1>4, <2>1, <2>2, <2>6, ListFrame
<1>8. Chain(NextOf(t), t.closedHead, dead)
  <2>1. \A a \in dead : t.node[a].next = m.node[a].next
    BY <1>1, <1>4
  <2> QED
    BY <1>1, <1>4, <2>1, DeadFrame
<1>9. Lists(t, With(in, c, x), dead)
  <2> DEFINE into == [in EXCEPT ![c] = M \cup {x}]
  <2>1. into \in [Ctx -> SUBSET Addr] /\ into[c] = M \cup {x} /\ \A d \in Ctx \ {c} : into[d] = in[d]
    BY <1>1
  <2> HIDE DEF into
  <2>2. \A d \in Ctx : ListOK(t, d, into[d]) /\ into[d] \cap dead = {}
    BY <1>1, <1>6, <1>7, <2>1
  <2>3. Lists(t, into, dead)
    BY <1>1, <1>4, <1>8, <2>1, <2>2 DEF Lists
  <2> QED
    BY <2>3 DEF into, With
<1>10. \A a \in dead : a # first /\ a \in Addr \ {x}
  BY <1>1, <1>2
<1> QED
  BY <1>4, <1>9, <1>10 DEF t

\* A socket is taken out of its context's list, and out of the way of a sweep.
LEMMA UnlinkKeeps ==
  ASSUME NEW m, NEW in, NEW dead, Lists(m, in, dead), NEW c \in Ctx, NEW x \in in[c]
  PROVE  /\ Lists(Unlink(m, x), Without(in, c, x), dead)
         /\ \A a \in Addr : /\ Unlink(m, x).node[a].context = m.node[a].context
                            /\ Unlink(m, x).node[a].used = m.node[a].used
         /\ \A a \in dead : Unlink(m, x).node[a].prev = m.node[a].prev
         /\ \A a \in Addr : Unlink(m, x).node[a].next =
              IF a = m.node[x].prev THEN m.node[x].next ELSE m.node[a].next
         /\ \A d \in Ctx : Unlink(m, x).iterator[d] =
              IF d = c /\ m.iterator[d] = x THEN m.node[x].next ELSE m.iterator[d]
<1> DEFINE u == Unlink(m, x)
           M == in[c]
           p == m.node[x].prev
           n == m.node[x].next
<1>1. /\ m \in Memory /\ in \in [Ctx -> SUBSET Addr] /\ M \in SUBSET Addr /\ dead \in SUBSET Addr
      /\ \A d \in Ctx : ListOK(m, d, in[d]) /\ in[d] \cap dead = {}
      /\ Chain(NextOf(m), m.closedHead, dead)
      /\ x \in Addr /\ NULL \notin Addr /\ NULL \notin M
  BY ListAssumption DEF Lists
<1>2. /\ Chain(NextOf(m), m.head[c], M) /\ Doubly(m, c, M) /\ m.iterator[c] \in M \cup {NULL}
  BY <1>1 DEF ListOK
<1>3. /\ m.head \in [Ctx -> Addr \cup {NULL}] /\ m.iterator \in [Ctx -> Addr \cup {NULL}]
      /\ NextOf(m) \in Pointers(Addr) /\ \A a \in Addr : NextOf(m)[a] = m.node[a].next
  BY <1>1, NextOfTypes DEF Memory
<1>4. /\ m.head[c] \in M \cup {NULL}
      /\ \A a \in M : /\ m.node[a].next \in M \cup {NULL}
                      /\ From(NextOf(m), m.node[a].next) \subseteq M
                      /\ a \notin From(NextOf(m), m.node[a].next)
  <2>1. /\ m.head[c] \in M \cup {NULL}
        /\ \A a \in M : /\ NextOf(m)[a] \in M \cup {NULL}
                        /\ From(NextOf(m), NextOf(m)[a]) \subseteq M
    BY <1>1, <1>2, <1>3, ChainTypes
  <2> QED
    BY <1>1, <1>2, <1>3, <2>1 DEF Chain
<1>5. /\ m.node[x].context = c
      /\ p = NULL <=> m.head[c] = x
      /\ p # NULL => p \in M /\ m.node[p].next = x
      /\ n # NULL => n \in M /\ m.node[n].prev = x
  BY <1>2, <1>4 DEF Doubly
<1>6. \A a \in M : m.node[a].next # NULL => m.node[a].next \in From(NextOf(m), m.node[a].next)
  BY <1>1, <1>3, <1>4, FromClosed
<1>7. n # x /\ p # x
  BY <1>1, <1>4, <1>5, <1>6
<1>8. p = n => p = NULL /\ M = {x}
  <2> SUFFICES ASSUME p = n PROVE p = NULL /\ M = {x}
    OBVIOUS
  <2>1. p = NULL
    <3> SUFFICES ASSUME p # NULL PROVE FALSE
      OBVIOUS
    <3>1. p \in M /\ n = p /\ m.node[p].next = x
      BY <1>5
    <3>2. p \in From(NextOf(m), n) /\ ClosedUnder(NextOf(m), From(NextOf(m), n))
      BY <1>1, <1>3, <1>6, <3>1, FromClosed
    <3>3. x \in From(NextOf(m), n)
      BY <1>1, <1>3, <3>1, <3>2 DEF ClosedUnder
    <3> QED
      BY <1>4, <3>3
  <2>2. From(NextOf(m), x) = {x} \cup From(NextOf(m), NULL)
    <3>1. From(NextOf(m), x) = {x} \cup From(NextOf(m), NextOf(m)[x])
      BY <1>1, <1>3, FromStep
    <3>2. NextOf(m)[x] = NULL
      BY <1>1, <1>3, <2>1
    <3> QED
      BY <3>1, <3>2
  <2> QED
    BY <1>2, <1>5, <2>1, <2>2, FromNull DEF Chain
<1>9. /\ u \in Memory
      /\ u.head = [m.head EXCEPT ![c] = IF p = n THEN NULL ELSE IF p = NULL THEN n ELSE m.head[c]]
      /\ u.iterator = [m.iterator EXCEPT ![c] = IF m.iterator[c] = x THEN n ELSE m.iterator[c]]
      /\ u.closedHead = m.closedHead
      /\ \A a \in Addr :
           /\ u.node[a].context = m.node[a].context /\ u.node[a].used = m.node[a].used
           /\ u.node[a].next = IF p # n /\ a = p THEN n ELSE m.node[a].next
           /\ u.node[a].prev = IF p # n /\ a = n THEN p ELSE m.node[a].prev
  BY <1>1, <1>5, UnlinkWrites
<1> HIDE DEF u
<1>10. NextOf(u) \in Pointers(Addr) /\ \A a \in Addr : NextOf(u)[a] = u.node[a].next
  BY <1>9, NextOfTypes
<1>11. /\ u.head[c] = IF p = n THEN NULL ELSE IF p = NULL THEN n ELSE m.head[c]
       /\ u.iterator[c] = IF m.iterator[c] = x THEN n ELSE m.iterator[c]
       /\ \A d \in Ctx \ {c} : u.head[d] = m.head[d] /\ u.iterator[d] = m.iterator[d]
  BY <1>3, <1>9
<1> HIDE DEF p, n
<1>12. Chain(NextOf(u), u.head[c], M \ {x})
  <2>1. CASE p = n
    <3>1. u.head[c] = NULL /\ M \ {x} = {}
      BY <1>8, <1>11, <2>1
    <3> QED
      BY <3>1, FromNull DEF Chain
  <2>2. CASE p # n /\ p = NULL
    <3>1. u.head[c] = n /\ n = NextOf(m)[x] /\ m.head[c] = x /\ n \in Addr \cup {NULL}
      BY <1>1, <1>3, <1>4, <1>5, <1>11, <2>2 DEF n
    <3>2. Chain(NextOf(m), n, M \ {x})
      <4>1. Chain(NextOf(m), x, M)
        BY <1>2, <3>1
      <4>2. Chain(NextOf(m), NextOf(m)[x], M \ {x})
        BY <1>1, <1>3, <4>1, ChainPop
      <4> QED
        BY <3>1, <4>2
    <3>3. \A a \in M \ {x} : NextOf(u)[a] = NextOf(m)[a]
      BY <1>1, <1>3, <1>9, <1>10, <2>2
    <3> QED
      BY <1>1, <1>3, <1>10, <3>1, <3>2, <3>3, ChainFrame
  <2>3. CASE p # n /\ p # NULL
    <3>1. /\ u.head[c] = m.head[c] /\ m.head[c] \in Addr /\ m.head[c] # x /\ p \in M
      <4>1. m.head[c] # NULL
        BY <1>1, <1>2, <1>4, FromNull DEF Chain
      <4> QED
        BY <1>1, <1>4, <1>5, <1>11, <2>3, <4>1
    <3>2. NextOf(m)[p] = x /\ \A a \in M : NextOf(m)[a] = x => a = p
      <4>1. \A a \in M : m.node[a].next = x => a = p
        BY <1>1, <1>2 DEF Doubly, p
      <4> QED
        BY <1>1, <1>3, <1>5, <3>1, <4>1
    <3>3. NextOf(u)[p] = NextOf(m)[x] /\ \A a \in M \ {p} : NextOf(u)[a] = NextOf(m)[a]
      BY <1>1, <1>3, <1>9, <1>10, <2>3, <3>1 DEF n
    <3> QED
      BY <1>1, <1>2, <1>3, <1>7, <1>10, <3>1, <3>2, <3>3, ChainCut
  <2> QED
    BY <2>1, <2>2, <2>3
<1>13. ASSUME NEW a \in M \ {x}
       PROVE  /\ u.node[a].context = c
              /\ u.node[a].prev = NULL <=> u.head[c] = a
              /\ u.node[a].prev # NULL => /\ u.node[a].prev \in M \ {x}
                                          /\ u.node[u.node[a].prev].next = a
              /\ u.node[a].next # NULL => u.node[u.node[a].next].prev = a
  <2> DEFINE ap == m.node[a].prev
             an == m.node[a].next
  <2>1. /\ a \in Addr /\ a \in M /\ a # x /\ m.node[a].context = c
        /\ ap = NULL <=> m.head[c] = a
        /\ ap # NULL => ap \in M /\ m.node[ap].next = a
        /\ an # NULL => an \in M /\ m.node[an].prev = a
    BY <1>1, <1>2, <1>4 DEF Doubly
  <2>2. p # n
    BY <1>8
  <2>3. /\ u.node[a].context = c
        /\ u.node[a].next = IF a = p THEN n ELSE an
        /\ u.node[a].prev = IF a = n THEN p ELSE ap
    BY <1>9, <2>1, <2>2
  <2>4. (ap = x <=> a = n) /\ (an = x <=> a = p)
    BY <1>1, <1>5, <2>1 DEF p, n
  <2> HIDE DEF ap, an
  <2>5. u.node[a].prev = NULL <=> u.head[c] = a
    BY <1>1, <1>5, <1>7, <1>11, <2>1, <2>2, <2>3, <2>4
  <2>6. ASSUME u.node[a].prev # NULL
        PROVE  u.node[a].prev \in M \ {x} /\ u.node[u.node[a].prev].next = a
    <3>1. CASE a = n
      BY <1>1, <1>5, <1>7, <1>9, <2>2, <2>3, <2>6, <3>1
    <3>2. CASE a # n
      <4>1. ap \in M /\ ap # x /\ m.node[ap].next = a /\ u.node[a].prev = ap
        BY <2>1, <2>3, <2>4, <2>6, <3>2
      <4>2. ap # p
        BY <1>1, <1>5, <2>1, <4>1
      <4> QED
        BY <1>1, <1>9, <4>1, <4>2
    <3> QED
      BY <3>1, <3>2
  <2>7. ASSUME u.node[a].next # NULL
        PROVE  u.node[u.node[a].next].prev = a
    <3>1. CASE a = p
      BY <1>1, <1>5, <1>9, <2>2, <2>3, <2>7, <3>1
    <3>2. CASE a # p
      <4>1. an \in M /\ an # x /\ m.node[an].prev = a /\ u.node[a].next = an
        BY <2>1, <2>3, <2>4, <2>7, <3>2
      <4>2. an # n
        BY <1>1, <1>5, <2>1, <4>1
      <4> QED
        BY <1>1, <1>9, <4>1, <4>2
    <3> QED
      BY <3>1, <3>2
  <2> QED
    BY <2>3, <2>5, <2>6, <2>7
<1>14. ListOK(u, c, M \ {x})
  <2>1. u.iterator[c] \in (M \ {x}) \cup {NULL}
    BY <1>2, <1>5, <1>7, <1>11
  <2>2. Doubly(u, c, M \ {x})
    BY <1>13 DEF Doubly
  <2> QED
    BY <1>12, <2>1, <2>2 DEF ListOK
<1>15. \A a \in Addr : a \notin M => u.node[a].next = m.node[a].next /\ u.node[a].prev = m.node[a].prev
  BY <1>1, <1>5, <1>8, <1>9
<1>16. ASSUME NEW d \in Ctx, d # c
       PROVE  ListOK(u, d, in[d])
  <2>1. in[d] \in SUBSET Addr /\ ListOK(m, d, in[d])
    BY <1>1
  <2>2. \A a \in in[d] : a \in Addr /\ a \notin M
    BY <1>2, <1>16, <2>1 DEF ListOK, Doubly
  <2>3. u.head[d] = m.head[d] /\ u.iterator[d] \in in[d] \cup {NULL}
    BY <1>11, <1>16, <2>1 DEF ListOK
  <2>4. \A a \in in[d] : /\ u.node[a].next = m.node[a].next /\ u.node[a].prev = m.node[a].prev
                         /\ u.node[a].context = m.node[a].context
    BY <1>9, <1>15, <2>2
  <2> QED
    BY <1>1, <1>9, <2>1, <2>3, <2>4, ListFrame
<1>17. Chain(NextOf(u), u.closedHead, dead) /\ \A a \in dead : u.node[a].prev = m.node[a].prev
  <2>1. \A a \in dead : a \in Addr /\ a \notin M
    BY <1>1
  <2> QED
    BY <1>1, <1>9, <1>15, <2>1, DeadFrame
<1>18. Lists(u, Without(in, c, x), dead)
  <2> DEFINE into == [in EXCEPT ![c] = M \ {x}]
  <2>1. into \in [Ctx -> SUBSET Addr] /\ into[c] = M \ {x} /\ \A d \in Ctx \ {c} : into[d] = in[d]
    BY <1>1
  <2> HIDE DEF into
  <2>2. \A d \in Ctx : ListOK(u, d, into[d]) /\ into[d] \cap dead = {}
    BY <1>1, <1>14, <1>16, <2>1
  <2>3. Lists(u, into, dead)
    BY <1>1, <1>9, <1>17, <2>1, <2>2 DEF Lists
  <2> QED
    BY <2>3 DEF into, Without
<1>19. \A a \in Addr : u.node[a].next = IF a = p THEN n ELSE m.node[a].next
  BY <1>1, <1>8, <1>9
<1>20. \A d \in Ctx : u.iterator[d] = IF d = c /\ m.iterator[d] = x THEN n ELSE m.iterator[d]
  BY <1>11
<1> QED
  BY <1>9, <1>17, <1>18, <1>19, <1>20 DEF u, p, n

\* A socket that is in no list goes onto the closed list.
LEMMA BuryKeeps ==
  ASSUME NEW m, NEW in, NEW dead, Lists(m, in, dead), NEW x \in Addr,
         x \notin dead, \A d \in Ctx : x \notin in[d]
  PROVE  Lists(Bury(m, x), in, dead \cup {x})
<1> DEFINE t == Bury(m, x)
<1>1. /\ m \in Memory /\ in \in [Ctx -> SUBSET Addr] /\ dead \in SUBSET Addr
      /\ \A d \in Ctx : ListOK(m, d, in[d]) /\ in[d] \cap dead = {}
      /\ Chain(NextOf(m), m.closedHead, dead)
  BY DEF Lists
<1>2. /\ t \in Memory
      /\ t.head = m.head /\ t.iterator = m.iterator /\ t.closedHead = x
      /\ t.node[x].next = m.closedHead
      /\ \A a \in Addr \ {x} : t.node[a] = m.node[a]
  BY <1>1, BuryWrites
<1> HIDE DEF t
<1>3. ASSUME NEW d \in Ctx
      PROVE  ListOK(t, d, in[d])
  <2>1. in[d] \in SUBSET Addr /\ ListOK(m, d, in[d]) /\ m.iterator[d] \in in[d] \cup {NULL}
    BY <1>1 DEF ListOK
  <2>2. \A a \in in[d] : t.node[a] = m.node[a]
    BY <1>2, <2>1
  <2> QED
    BY <1>1, <1>2, <2>1, <2>2, ListFrame
<1>4. Chain(NextOf(t), x, dead \cup {x})
  <2>1. /\ NextOf(m) \in Pointers(Addr) /\ NextOf(t) \in Pointers(Addr)
        /\ NextOf(t)[x] = m.closedHead /\ m.closedHead \in Addr \cup {NULL} /\ NULL \notin Addr
    BY <1>1, <1>2, NextOfTypes, HeadTypes
  <2>2. \A a \in dead : NextOf(t)[a] = NextOf(m)[a]
    BY <1>1, <1>2, NextOfTypes
  <2> QED
    BY <1>1, <2>1, <2>2, ChainPush
<1>5. \A d \in Ctx : in[d] \cap (dead \cup {x}) = {}
  BY <1>1
<1>6. Lists(t, in, dead \cup {x})
  BY <1>1, <1>2, <1>3, <1>4, <1>5 DEF Lists
<1> QED
  BY <1>6 DEF t

\* A socket that is in no list moves where no listed one is.
LEMMA RelocateKeeps ==
  ASSUME NEW m, NEW in, NEW dead, Lists(m, in, dead), NEW x \in Addr, NEW y \in Addr,
         x \notin dead, \A d \in Ctx : x \notin in[d],
         y \notin dead, \A d \in Ctx : y \notin in[d]
  PROVE  Lists(Relocate(m, x, y), in, dead)
<1> DEFINE t == Relocate(m, x, y)
<1>1. /\ m \in Memory /\ in \in [Ctx -> SUBSET Addr] /\ dead \in SUBSET Addr
      /\ \A d \in Ctx : m.iterator[d] \in in[d] \cup {NULL}
  BY DEF Lists, ListOK
<1>2. /\ t \in Memory
      /\ t.head = m.head /\ t.iterator = m.iterator /\ t.closedHead = m.closedHead
      /\ \A a \in Addr \ {x, y} : t.node[a] = m.node[a]
  BY <1>1, RelocateWrites
<1> HIDE DEF t
<1>3. \A a \in dead \cup UNION {in[d] : d \in Ctx} : a \in Addr \ {x, y}
  BY <1>1
<1>4. \A a \in dead \cup UNION {in[d] : d \in Ctx} : t.node[a] = m.node[a]
  BY <1>2, <1>3
<1>5. Lists(t, in, dead)
  BY <1>1, <1>2, <1>4, ListsFrame
<1> QED
  BY <1>5 DEF t

-----------------------------------------------------------------------------
(***************************************************************************)
(* What is left of a walk: the list behind a context's iterator.           *)
(***************************************************************************)
Tail(m, c) == ListFrom(m, m.iterator[c])

LEMMA TailFrame ==
  ASSUME NEW m \in Memory, NEW t \in Memory, NEW p \in Addr \cup {NULL},
         \A a \in ListFrom(m, p) : t.node[a].next = m.node[a].next
  PROVE  ListFrom(t, p) = ListFrom(m, p)
<1>1. /\ NextOf(m) \in Pointers(Addr) /\ NextOf(t) \in Pointers(Addr) /\ NULL \notin Addr
      /\ From(NextOf(m), p) \in SUBSET Addr
  BY NextOfTypes, HeadTypes, FromClosed
<1>2. \A a \in From(NextOf(m), p) : NextOf(t)[a] = NextOf(m)[a]
  BY <1>1, NextOfTypes DEF ListFrom
<1> QED
  BY <1>1, <1>2, FromFrame DEF ListFrom

\* A walk's tail lies in its list.
LEMMA TailInList ==
  ASSUME NEW m, NEW in, NEW dead, Lists(m, in, dead), NEW c \in Ctx
  PROVE  /\ Tail(m, c) \subseteq in[c] /\ m.iterator[c] \in Addr \cup {NULL}
         /\ ClosedUnder(NextOf(m), in[c]) /\ in[c] \in SUBSET Addr
         /\ m.iterator[c] \in in[c] \cup {NULL}
<1>1. /\ m \in Memory /\ in[c] \in SUBSET Addr /\ Chain(NextOf(m), m.head[c], in[c])
      /\ m.iterator[c] \in in[c] \cup {NULL}
  BY DEF Lists, ListOK
<1>2. /\ NextOf(m) \in Pointers(Addr) /\ NULL \notin Addr /\ DOMAIN NextOf(m) = Addr
      /\ m.head[c] \in Addr \cup {NULL}
  BY <1>1, NextOfTypes, HeadTypes DEF Pointers
<1>3. ClosedUnder(NextOf(m), in[c])
  BY <1>1, <1>2, FromClosed DEF Chain
<1>4. Tail(m, c) \subseteq in[c]
  BY <1>1, <1>2, <1>3, FromLeast DEF Tail, ListFrom
<1> QED
  BY <1>1, <1>3, <1>4

LEMMA UnlinkTail ==
  ASSUME NEW m, NEW in, NEW dead, Lists(m, in, dead), NEW c \in Ctx, NEW x \in in[c], NEW d \in Ctx
  PROVE  Tail(Unlink(m, x), d) = Tail(m, d) \ {x}
<1> DEFINE u == Unlink(m, x)
           p == m.node[x].prev
           n == m.node[x].next
<1>1. /\ m \in Memory /\ in \in [Ctx -> SUBSET Addr] /\ NULL \notin Addr /\ x \in Addr
      /\ \A b \in Ctx : Doubly(m, b, in[b]) /\ in[b] \in SUBSET Addr
      /\ Chain(NextOf(m), m.head[c], in[c])
  BY ListAssumption DEF Lists, ListOK
<1>2. /\ u \in Memory
      /\ \A a \in Addr : u.node[a].next = IF a = p THEN n ELSE m.node[a].next
      /\ \A b \in Ctx : u.iterator[b] = IF b = c /\ m.iterator[b] = x THEN n ELSE m.iterator[b]
  <2>1. /\ Lists(u, Without(in, c, x), dead)
        /\ \A a \in Addr : u.node[a].next = IF a = p THEN n ELSE m.node[a].next
        /\ \A b \in Ctx : u.iterator[b] = IF b = c /\ m.iterator[b] = x THEN n ELSE m.iterator[b]
    BY UnlinkKeeps
  <2> HIDE DEF u, p, n
  <2> QED
    BY <2>1 DEF Lists
<1>3. /\ NextOf(m) \in Pointers(Addr) /\ \A a \in Addr : NextOf(m)[a] = m.node[a].next
      /\ NextOf(u) \in Pointers(Addr) /\ \A a \in Addr : NextOf(u)[a] = u.node[a].next
  BY <1>1, <1>2, NextOfTypes
<1>4. \A a \in in[c] : m.node[a].next = x <=> a = p
  BY <1>1 DEF Doubly
<1> HIDE DEF u
<1>5. ASSUME d = c
      PROVE  Tail(u, d) = Tail(m, d) \ {x}
  <2> DEFINE next == NextOf(m)
             then == NextOf(u)
             q == p
             i == m.iterator[c]
  <2>1. /\ i \in in[c] \cup {NULL} /\ ClosedUnder(next, in[c])
    BY TailInList
  <2>2. /\ next \in Pointers(Addr) /\ then \in Pointers(Addr) /\ in[c] \in SUBSET Addr
        /\ x \notin From(next, next[x]) /\ next[x] = n
        /\ \A a \in in[c] : next[a] = x <=> a = q
        /\ \A a \in Addr : then[a] = IF a = q THEN next[x] ELSE next[a]
    BY <1>1, <1>2, <1>3, <1>4 DEF Chain
  <2>3. u.iterator[c] = IF i = x THEN next[x] ELSE i
    BY <1>2, <2>2
  <2> HIDE DEF next, then, q, i
  <2>4. From(then, IF i = x THEN next[x] ELSE i) = From(next, i) \ {x}
    BY <1>1, <2>1, <2>2, TailCut
  <2>5. Tail(u, c) = From(then, u.iterator[c]) /\ Tail(m, c) = From(next, i)
    BY DEF next, then, i, Tail, ListFrom
  <2>6. Tail(u, c) = Tail(m, c) \ {x}
    BY <2>3, <2>4, <2>5
  <2> QED
    BY <1>5, <2>6
<1>6. ASSUME d # c
      PROVE  Tail(u, d) = Tail(m, d) \ {x}
  <2>1. Tail(m, d) \subseteq in[d] /\ m.iterator[d] \in Addr \cup {NULL}
    BY TailInList
  <2>2. \A a \in in[d] : a \notin in[c]
    BY <1>1, <1>6 DEF Doubly
  <2>3. p \in in[c] \cup {NULL}
    BY <1>1 DEF Doubly
  <2>4. \A a \in Tail(m, d) : u.node[a].next = m.node[a].next /\ a # x
    BY <1>1, <1>2, <2>1, <2>2, <2>3
  <2>5. ListFrom(u, m.iterator[d]) = ListFrom(m, m.iterator[d])
    BY <1>1, <1>2, <2>1, <2>4, TailFrame DEF Tail
  <2>6. u.iterator[d] = m.iterator[d]
    BY <1>2, <1>6
  <2>7. Tail(u, d) = Tail(m, d)
    BY <2>5, <2>6 DEF Tail
  <2>8. x \notin Tail(m, d)
    BY <2>4
  <2>9. Tail(u, d) = Tail(m, d) \ {x}
    BY <2>7, <2>8
  <2> QED
    BY <2>9
<1>7. Tail(u, d) = Tail(m, d) \ {x}
  BY <1>5, <1>6
<1> QED
  BY <1>7 DEF u

SameWalks(m, t) == \A c \in Ctx : t.iterator[c] = m.iterator[c] /\ Tail(t, c) = Tail(m, c)

LeavesWalks(m, t, x) ==
  \A c \in Ctx : /\ Tail(t, c) = Tail(m, c) \ {x}
                 /\ m.iterator[c] # x => t.iterator[c] = m.iterator[c]

LEMMA UnlinkWalks ==
  ASSUME NEW m, NEW in, NEW dead, Lists(m, in, dead), NEW c \in Ctx, NEW x \in in[c]
  PROVE  LeavesWalks(m, Unlink(m, x), x)
<1>1. \A d \in Ctx : Tail(Unlink(m, x), d) = Tail(m, d) \ {x}
  BY UnlinkTail
<1>2. \A d \in Ctx : Unlink(m, x).iterator[d] =
        IF d = c /\ m.iterator[d] = x THEN m.node[x].next ELSE m.iterator[d]
  BY UnlinkKeeps
<1> QED
  BY <1>1, <1>2 DEF LeavesWalks

LEMMA WalksFrame ==
  ASSUME NEW m, NEW in, NEW dead, Lists(m, in, dead), NEW t \in Memory,
         \A c \in Ctx : t.iterator[c] = m.iterator[c],
         \A c \in Ctx : \A a \in in[c] : t.node[a].next = m.node[a].next
  PROVE  SameWalks(m, t)
<1> SUFFICES ASSUME NEW c \in Ctx PROVE Tail(t, c) = Tail(m, c)
  BY DEF SameWalks
<1>1. m \in Memory /\ Tail(m, c) \subseteq in[c] /\ m.iterator[c] \in Addr \cup {NULL}
  BY TailInList DEF Lists
<1>2. \A a \in ListFrom(m, m.iterator[c]) : t.node[a].next = m.node[a].next
  BY <1>1 DEF Tail
<1>3. ListFrom(t, m.iterator[c]) = ListFrom(m, m.iterator[c])
  BY <1>1, <1>2, TailFrame
<1> QED
  BY <1>3 DEF Tail

\* What is linked in, buried or moved is no part of a walk.
LEMMA LinkWalks ==
  ASSUME NEW m, NEW in, NEW dead, Lists(m, in, dead), NEW c \in Ctx, NEW x \in Addr,
         \A d \in Ctx : x \notin in[d]
  PROVE  SameWalks(m, Link(m, c, x))
<1> DEFINE t == Link(m, c, x)
<1>1. m \in Memory /\ m.head[c] # x /\ \A d \in Ctx : in[d] \in SUBSET Addr
  <2>1. m \in Memory /\ in[c] \in SUBSET Addr /\ Chain(NextOf(m), m.head[c], in[c]) /\ x \notin in[c]
    BY DEF Lists, ListOK
  <2>2. NextOf(m) \in Pointers(Addr) /\ NULL \notin Addr /\ m.head[c] \in Addr \cup {NULL}
    BY <2>1, NextOfTypes, HeadTypes
  <2>3. m.head[c] \in in[c] \cup {NULL}
    BY <2>1, <2>2, ChainTypes
  <2> QED
    BY <2>1, <2>2, <2>3 DEF Lists
<1>2. /\ t \in Memory
      /\ t.head = [m.head EXCEPT ![c] = x]
      /\ t.iterator = m.iterator /\ t.closedHead = m.closedHead
      /\ t.node[x].next = m.head[c] /\ t.node[x].prev = NULL /\ t.node[x].context = c
      /\ t.node[x].used = m.node[x].used
      /\ \A a \in Addr \ {x} :
           /\ t.node[a].next = m.node[a].next /\ t.node[a].context = m.node[a].context
           /\ t.node[a].used = m.node[a].used
           /\ t.node[a].prev = IF a = m.head[c] THEN x ELSE m.node[a].prev
  BY <1>1, LinkWrites
<1> HIDE DEF t
<1>3. \A d \in Ctx : \A a \in in[d] : t.node[a].next = m.node[a].next
  BY <1>1, <1>2
<1>4. SameWalks(m, t)
  BY <1>2, <1>3, WalksFrame
<1> QED
  BY <1>4 DEF t

LEMMA BuryWalks ==
  ASSUME NEW m, NEW in, NEW dead, Lists(m, in, dead), NEW x \in Addr,
         \A d \in Ctx : x \notin in[d]
  PROVE  SameWalks(m, Bury(m, x))
<1> DEFINE t == Bury(m, x)
<1>1. m \in Memory /\ \A d \in Ctx : in[d] \in SUBSET Addr
  BY DEF Lists
<1>2. /\ t \in Memory /\ t.iterator = m.iterator
      /\ \A a \in Addr \ {x} : t.node[a] = m.node[a]
  BY <1>1, BuryWrites
<1> HIDE DEF t
<1>3. \A d \in Ctx : \A a \in in[d] : t.node[a].next = m.node[a].next
  BY <1>1, <1>2
<1>4. SameWalks(m, t)
  BY <1>2, <1>3, WalksFrame
<1> QED
  BY <1>4 DEF t

LEMMA RelocateWalks ==
  ASSUME NEW m, NEW in, NEW dead, Lists(m, in, dead), NEW x \in Addr, NEW y \in Addr,
         \A d \in Ctx : x \notin in[d] /\ y \notin in[d]
  PROVE  SameWalks(m, Relocate(m, x, y))
<1> DEFINE t == Relocate(m, x, y)
<1>1. m \in Memory /\ \A d \in Ctx : in[d] \in SUBSET Addr
  BY DEF Lists
<1>2. /\ t \in Memory /\ t.iterator = m.iterator
      /\ \A a \in Addr \ {x, y} : t.node[a] = m.node[a]
  BY <1>1, RelocateWrites
<1> HIDE DEF t
<1>3. \A d \in Ctx : \A a \in in[d] : t.node[a].next = m.node[a].next
  BY <1>1, <1>2
<1>4. SameWalks(m, t)
  BY <1>2, <1>3, WalksFrame
<1> QED
  BY <1>4 DEF t

\* Only linking changes a timeout, by switching it off.
LEMMA TimeoutsKept ==
  ASSUME NEW m \in Memory, NEW x \in Addr, NEW c \in Ctx, NEW a \in Addr
  PROVE  /\ Link(m, c, x).node[a].timeout = IF a = x THEN 0 ELSE m.node[a].timeout
         /\ Unlink(m, x).node[a].timeout = m.node[a].timeout
         /\ Bury(m, x).node[a].timeout = m.node[a].timeout
<1>1. m.node[a] \in Node /\ m.node[x] \in Node
  BY NodeTypes
<1>2. Link(m, c, x).node[a].timeout = IF a = x THEN 0 ELSE m.node[a].timeout
  BY <1>1 DEF Link, Memory, Node
<1>3. Unlink(m, x).node[a].timeout = m.node[a].timeout
  BY <1>1 DEF Unlink, Memory, Node
<1>4. Bury(m, x).node[a].timeout = m.node[a].timeout
  BY <1>1 DEF Bury, Memory, Node
<1> QED
  BY <1>2, <1>3, <1>4

-----------------------------------------------------------------------------
(***************************************************************************)
(* The lists between two calls: every socket in memory is in one.          *)
(***************************************************************************)
MembersOf(m) == [c \in Ctx |-> Members(m, c)]
ClosedOf(m) == {a \in Addr : IsClosed(m, a)}

InOrder(m) ==
  /\ Lists(m, MembersOf(m), ClosedOf(m))
  /\ \A a \in Addr : m.node[a].used => m.node[a].context \in Ctx

LEMMA Settled ==
  ASSUME NEW m, NEW in, NEW dead, Lists(m, in, dead),
         \A a \in Addr : m.node[a].used <=> (a \in dead \/ \E c \in Ctx : a \in in[c]),
         \A a \in dead : m.node[a].prev = m.node[a].context /\ m.node[a].context \in Ctx
  PROVE  InOrder(m) /\ MembersOf(m) = in /\ ClosedOf(m) = dead
<1>1. /\ m \in Memory /\ in \in [Ctx -> SUBSET Addr] /\ dead \in SUBSET Addr
      /\ \A c \in Ctx : in[c] \cap dead = {} /\ Doubly(m, c, in[c])
  BY DEF Lists, ListOK
<1>2. ASSUME NEW c \in Ctx, NEW a \in in[c]
      PROVE  /\ a \in Addr /\ m.node[a].context = c /\ m.node[a].used
             /\ m.node[a].prev # m.node[a].context
  <2>1. a \in Addr /\ m.node[a].context = c /\ m.node[a].prev \in in[c] \cup {NULL} /\ in[c] \subseteq Addr
    BY <1>1 DEF Doubly
  <2>2. c \notin Addr \cup {NULL}
    BY ListAssumption
  <2> QED
    BY <2>1, <2>2
<1>3. ClosedOf(m) = dead
  BY <1>1, <1>2 DEF ClosedOf, IsClosed
<1>4. ASSUME NEW c \in Ctx
      PROVE  Members(m, c) = in[c]
  BY <1>1, <1>2 DEF Members, Linked, IsClosed
<1>5. MembersOf(m) = in
  BY <1>1, <1>4 DEF MembersOf
<1>6. \A a \in Addr : m.node[a].used => m.node[a].context \in Ctx
  BY <1>2
<1> QED
  BY <1>3, <1>5, <1>6 DEF InOrder

\* What order means for the sockets.
LEMMA InOrderFacts ==
  ASSUME NEW m, InOrder(m)
  PROVE  /\ m \in Memory
         /\ MembersOf(m) \in [Ctx -> SUBSET Addr] /\ ClosedOf(m) \in SUBSET Addr
         /\ \A a \in Addr : m.node[a].used <=>
              (a \in ClosedOf(m) \/ \E c \in Ctx : a \in MembersOf(m)[c])
         /\ \A a \in ClosedOf(m) : m.node[a].prev = m.node[a].context /\ m.node[a].context \in Ctx
         /\ \A c \in Ctx : \A a \in MembersOf(m)[c] : a \notin ClosedOf(m) /\ m.node[a].context = c
         /\ \A a \in Linked(m) : m.node[a].context \in Ctx /\ a \in MembersOf(m)[m.node[a].context]
<1>1. m \in Memory /\ MembersOf(m) \in [Ctx -> SUBSET Addr] /\ ClosedOf(m) \in SUBSET Addr
  BY DEF InOrder, Lists
<1>2. \A a \in Addr : m.node[a].used => m.node[a].context \in Ctx
  BY DEF InOrder
<1>3. \A c \in Ctx : MembersOf(m)[c] = Members(m, c)
  BY DEF MembersOf
<1> QED
  BY <1>1, <1>2, <1>3 DEF ClosedOf, Members, Linked, IsClosed

\* Steps on timeouts and iterators only.
LEMMA LinksUntouched ==
  ASSUME NEW m, InOrder(m), NEW t \in Memory, t.closedHead = m.closedHead, t.head = m.head,
         \A c \in Ctx : t.iterator[c] \in MembersOf(m)[c] \cup {NULL},
         \A a \in Addr : /\ t.node[a].next = m.node[a].next /\ t.node[a].prev = m.node[a].prev
                         /\ t.node[a].context = m.node[a].context
                         /\ t.node[a].used = m.node[a].used
  PROVE  InOrder(t) /\ MembersOf(t) = MembersOf(m) /\ ClosedOf(t) = ClosedOf(m)
<1>1. Lists(m, MembersOf(m), ClosedOf(m))
  BY DEF InOrder
<1>2. \A a \in ClosedOf(m) \cup UNION {MembersOf(m)[c] : c \in Ctx} : a \in Addr
  BY InOrderFacts
<1>3. Lists(t, MembersOf(m), ClosedOf(m))
  BY <1>1, <1>2, ListsFrame
<1>4. /\ \A a \in Addr : t.node[a].used <=>
           (a \in ClosedOf(m) \/ \E c \in Ctx : a \in MembersOf(m)[c])
      /\ \A a \in ClosedOf(m) : t.node[a].prev = t.node[a].context /\ t.node[a].context \in Ctx
  BY <1>2, InOrderFacts
<1> QED
  BY <1>3, <1>4, Settled

\* A new socket is linked.
LEMMA CreateKeeps ==
  ASSUME NEW m, InOrder(m), NEW c \in Ctx, NEW x \in Addr, ~m.node[x].used
  PROVE  LET t == Link([m EXCEPT !.node[x].used = TRUE], c, x)
         IN  /\ InOrder(t)
             /\ MembersOf(t) = With(MembersOf(m), c, x)
             /\ ClosedOf(t) = ClosedOf(m)
             /\ t.node[x].context = c
             /\ \A a \in Addr \ {x} : /\ t.node[a].context = m.node[a].context
                                      /\ t.node[a].used = m.node[a].used
             /\ SameWalks(m, t)
             /\ \A a \in Addr : t.node[a].timeout = IF a = x THEN 0 ELSE m.node[a].timeout
<1> DEFINE nx == [m.node[x] EXCEPT !.used = TRUE]
           n == [m EXCEPT !.node[x].used = TRUE]
           t == Link(n, c, x)
           in == MembersOf(m)
           dead == ClosedOf(m)
           into == With(in, c, x)
<1>1. /\ m \in Memory /\ Lists(m, in, dead) /\ in \in [Ctx -> SUBSET Addr] /\ dead \in SUBSET Addr
      /\ x \notin dead /\ \A d \in Ctx : x \notin in[d]
      /\ \A d \in Ctx : m.iterator[d] \in in[d] \cup {NULL}
  BY InOrderFacts DEF InOrder, Lists, ListOK
<1>2. nx \in Node /\ nx.used
  BY <1>1, NodeTypes DEF Node
<1>3. n = [m EXCEPT !.node = [m.node EXCEPT ![x] = nx]]
  BY <1>1 DEF Memory
<1> HIDE DEF nx
<1>4. /\ n \in Memory /\ n.node = [m.node EXCEPT ![x] = nx]
      /\ n.head = m.head /\ n.iterator = m.iterator /\ n.closedHead = m.closedHead
  BY <1>1, <1>2, <1>3 DEF Memory
<1>5. n.node[x] = nx /\ \A a \in Addr \ {x} : n.node[a] = m.node[a]
  BY <1>1, <1>4 DEF Memory
<1> HIDE DEF n, in, dead
<1>6. \A a \in dead \cup UNION {in[d] : d \in Ctx} : n.node[a] = m.node[a]
  BY <1>1, <1>5
<1>7. Lists(n, in, dead)
  BY <1>1, <1>4, <1>6, ListsFrame
<1> HIDE DEF into, t
<1>9. /\ Lists(t, into, dead)
      /\ \A a \in dead : t.node[a].prev = n.node[a].prev /\ t.node[a].context = n.node[a].context
      /\ t.node[x].context = c
      /\ \A a \in Addr \ {x} : t.node[a].context = n.node[a].context
      /\ \A a \in Addr : t.node[a].used = n.node[a].used
  BY <1>1, <1>7, LinkKeeps DEF t, into
<1>11. \A a \in Addr : t.node[a].used <=> (a \in dead \/ \E d \in Ctx : a \in into[d])
  <2>1. \A a \in Addr : m.node[a].used <=> (a \in dead \/ \E d \in Ctx : a \in in[d])
    BY InOrderFacts DEF in, dead
  <2>2. into[c] = in[c] \cup {x} /\ \A d \in Ctx \ {c} : into[d] = in[d]
    BY <1>1 DEF into, With
  <2>3. ASSUME NEW a \in Addr, a # x
        PROVE  t.node[a].used <=> (a \in dead \/ \E d \in Ctx : a \in into[d])
    <3>1. t.node[a].used <=> m.node[a].used
      BY <1>5, <1>9, <2>3
    <3>2. (\E d \in Ctx : a \in into[d]) <=> (\E d \in Ctx : a \in in[d])
      BY <2>2, <2>3
    <3> QED
      BY <2>1, <3>1, <3>2
  <2>4. t.node[x].used /\ x \in into[c]
    BY <1>2, <1>5, <1>9, <2>2
  <2> QED
    BY <2>3, <2>4
<1>12. \A a \in dead : t.node[a].prev = t.node[a].context /\ t.node[a].context \in Ctx
  BY <1>1, <1>5, <1>9, InOrderFacts DEF dead
<1>13. InOrder(t) /\ MembersOf(t) = into /\ ClosedOf(t) = dead
  BY <1>9, <1>11, <1>12, Settled
<1>14. SameWalks(m, n)
  <2>1. \A d \in Ctx : \A a \in in[d] : n.node[a].next = m.node[a].next
    BY <1>6
  <2>2. n \in Memory /\ \A d \in Ctx : n.iterator[d] = m.iterator[d]
    BY <1>4
  <2>3. Lists(m, in, dead)
    BY <1>1
  <2> QED
    BY <2>1, <2>2, <2>3, WalksFrame
<1>15. SameWalks(n, t)
  BY <1>1, <1>7, LinkWalks DEF t
<1>16. SameWalks(m, t)
  BY <1>14, <1>15 DEF SameWalks
<1>17. \A a \in Addr : t.node[a].timeout = IF a = x THEN 0 ELSE m.node[a].timeout
  <2>1. \A a \in Addr : t.node[a].timeout = IF a = x THEN 0 ELSE n.node[a].timeout
    <3>1. n \in Memory
      BY <1>4
    <3> QED
      BY <3>1, TimeoutsKept DEF t
  <2> QED
    BY <1>5, <2>1
<1> QED
  BY <1>5, <1>9, <1>13, <1>16, <1>17 DEF t, n, in, dead, into

\* An open socket is closed.
LEMMA CloseKeeps ==
  ASSUME NEW m, InOrder(m), NEW x \in Linked(m)
  PROVE  LET t == Bury(Unlink(m, x), x)
             c == m.node[x].context
         IN  /\ InOrder(t)
             /\ c \in Ctx
             /\ MembersOf(t) = Without(MembersOf(m), c, x)
             /\ ClosedOf(t) = ClosedOf(m) \cup {x}
             /\ \A a \in Addr : /\ t.node[a].context = m.node[a].context
                                /\ t.node[a].used = m.node[a].used
                                /\ t.node[a].timeout = m.node[a].timeout
             /\ LeavesWalks(m, t, x)
<1> DEFINE c == m.node[x].context
           u == Unlink(m, x)
           t == Bury(u, x)
           in == MembersOf(m)
           dead == ClosedOf(m)
           into == Without(in, c, x)
<1>1. /\ m \in Memory /\ Lists(m, in, dead) /\ in \in [Ctx -> SUBSET Addr] /\ dead \in SUBSET Addr
      /\ c \in Ctx /\ x \in in[c] /\ x \in Addr /\ x \notin dead /\ m.node[x].used
      /\ \A d \in Ctx : \A a \in in[d] : m.node[a].context = d
  BY InOrderFacts DEF InOrder, Linked
<1> HIDE DEF in, dead, into, u, c
<1>2. /\ Lists(u, into, dead)
      /\ \A a \in Addr : u.node[a].context = m.node[a].context /\ u.node[a].used = m.node[a].used
      /\ \A a \in dead : u.node[a].prev = m.node[a].prev
  BY <1>1, UnlinkKeeps DEF u, into
<1>3. into[c] = in[c] \ {x} /\ \A d \in Ctx \ {c} : into[d] = in[d]
  BY <1>1 DEF into, Without
<1>4. \A d \in Ctx : x \notin into[d]
  BY <1>1, <1>3
<1>5. Lists(t, into, dead \cup {x})
  BY <1>1, <1>2, <1>4, BuryKeeps
<1>6. /\ t.node[x].prev = u.node[x].context
      /\ t.node[x].context = u.node[x].context /\ t.node[x].used = u.node[x].used
      /\ \A a \in Addr \ {x} : t.node[a] = u.node[a]
  BY <1>1, <1>2, BuryWrites DEF Lists
<1> HIDE DEF t
<1>7. \A a \in Addr : t.node[a].context = m.node[a].context /\ t.node[a].used = m.node[a].used
  BY <1>1, <1>2, <1>6
<1>8. \A a \in Addr : t.node[a].used <=> (a \in dead \cup {x} \/ \E d \in Ctx : a \in into[d])
  <2>1. \A a \in Addr : m.node[a].used <=> (a \in dead \/ \E d \in Ctx : a \in in[d])
    BY InOrderFacts DEF in, dead
  <2>2. ASSUME NEW a \in Addr, a # x
        PROVE  (\E d \in Ctx : a \in into[d]) <=> (\E d \in Ctx : a \in in[d])
    BY <1>3, <2>2
  <2> QED
    BY <1>1, <1>7, <2>1, <2>2
<1>9. \A a \in dead \cup {x} : t.node[a].prev = t.node[a].context /\ t.node[a].context \in Ctx
  <2>1. \A a \in dead : a \in Addr \ {x} /\ m.node[a].prev = m.node[a].context /\ m.node[a].context \in Ctx
    BY <1>1, InOrderFacts DEF dead
  <2> QED
    BY <1>1, <1>2, <1>6, <2>1
<1>10. InOrder(t) /\ MembersOf(t) = into /\ ClosedOf(t) = dead \cup {x}
  BY <1>5, <1>8, <1>9, Settled
<1>11. LeavesWalks(m, t, x)
  <2>1. LeavesWalks(m, u, x)
    BY <1>1, UnlinkWalks DEF u
  <2>2. SameWalks(u, t)
    BY <1>1, <1>2, <1>4, BuryWalks DEF t
  <2> QED
    BY <2>1, <2>2 DEF LeavesWalks, SameWalks
<1>12. \A a \in Addr : t.node[a].timeout = m.node[a].timeout
  <2>1. u \in Memory
    BY <1>2 DEF Lists
  <2>2. \A a \in Addr : t.node[a].timeout = u.node[a].timeout
    BY <1>1, <2>1, TimeoutsKept DEF t
  <2>3. \A a \in Addr : u.node[a].timeout = m.node[a].timeout
    BY <1>1, TimeoutsKept DEF u
  <2> QED
    BY <2>2, <2>3
<1> QED
  BY <1>1, <1>7, <1>10, <1>11, <1>12 DEF t, u, into, in, dead, c

\* A socket goes from its context's list to that of c, and may move in memory.
LEMMA AdoptKeeps ==
  ASSUME NEW m, InOrder(m), NEW x \in Linked(m), NEW y \in Addr, y = x \/ ~m.node[y].used,
         NEW c \in Ctx
  PROVE  LET t == Link(Relocate(Unlink(m, x), x, y), c, y)
         IN  /\ InOrder(t)
             /\ t.node[y].context = c
             /\ MembersOf(t) = With(Without(MembersOf(m), m.node[x].context, x), c, y)
             /\ \A a \in Addr \ {x, y} : /\ t.node[a].context = m.node[a].context
                                         /\ t.node[a].used = m.node[a].used
                                         /\ t.node[a].timeout = m.node[a].timeout
             /\ x # y => ~t.node[x].used
             /\ t.node[y].timeout = 0
             /\ LeavesWalks(m, t, x)
<1> DEFINE d == m.node[x].context
           u == Unlink(m, x)
           r == Relocate(u, x, y)
           t == Link(r, c, y)
           in == MembersOf(m)
           dead == ClosedOf(m)
           out == Without(in, d, x)
           into == With(out, c, y)
<1>1. /\ m \in Memory /\ Lists(m, in, dead) /\ in \in [Ctx -> SUBSET Addr] /\ dead \in SUBSET Addr
      /\ d \in Ctx /\ x \in in[d] /\ x \in Addr /\ x \notin dead /\ m.node[x].used
      /\ \A b \in Ctx : \A a \in in[b] : m.node[a].context = b
  BY InOrderFacts DEF InOrder, Linked
<1>2. \A a \in Addr : m.node[a].used <=> (a \in dead \/ \E b \in Ctx : a \in in[b])
  BY InOrderFacts
<1>3. \A a \in dead : m.node[a].prev = m.node[a].context /\ m.node[a].context \in Ctx
  BY InOrderFacts
<1> HIDE DEF in, dead, out, into, u, r, t, d
<1>4. /\ Lists(u, out, dead)
      /\ \A a \in Addr : u.node[a].context = m.node[a].context /\ u.node[a].used = m.node[a].used
      /\ \A a \in dead : u.node[a].prev = m.node[a].prev
  BY <1>1, UnlinkKeeps DEF u, out
<1>5. out[d] = in[d] \ {x} /\ (\A b \in Ctx \ {d} : out[b] = in[b]) /\ out \in [Ctx -> SUBSET Addr]
  BY <1>1 DEF out, Without
<1>6. (\A b \in Ctx : x \notin out[b]) /\ (\A b \in Ctx : y \notin out[b]) /\ y \notin dead
  <2>1. \A b \in Ctx : x \notin out[b]
    BY <1>1, <1>5
  <2>2. CASE y = x
    BY <1>1, <2>1, <2>2
  <2>3. CASE y # x
    <3>1. y \notin dead /\ \A b \in Ctx : y \notin in[b]
      BY <1>2, <2>3
    <3>2. \A b \in Ctx : out[b] \subseteq in[b]
      BY <1>5
    <3> QED
      BY <2>1, <3>1, <3>2
  <2> QED
    BY <2>2, <2>3
<1>7. Lists(r, out, dead)
  BY <1>1, <1>4, <1>6, RelocateKeeps DEF r
<1>8. /\ r.node[y] = u.node[x] /\ (x # y => r.node[x] = Unused)
      /\ \A a \in Addr \ {x, y} : r.node[a] = u.node[a]
  <2>1. u \in Memory
    BY <1>4 DEF Lists
  <2> QED
    BY <1>1, <2>1, RelocateWrites DEF r
<1>9. /\ Lists(t, into, dead)
      /\ \A a \in dead : t.node[a].prev = r.node[a].prev /\ t.node[a].context = r.node[a].context
      /\ t.node[y].context = c
      /\ \A a \in Addr \ {y} : t.node[a].context = r.node[a].context
      /\ \A a \in Addr : t.node[a].used = r.node[a].used
  BY <1>6, <1>7, LinkKeeps DEF t, into
<1>10. into[c] = out[c] \cup {y} /\ \A b \in Ctx \ {c} : into[b] = out[b]
  BY <1>5 DEF into, With
<1>11. \A a \in Addr \ {x, y} : /\ t.node[a].context = m.node[a].context
                                /\ t.node[a].used = m.node[a].used
  BY <1>4, <1>8, <1>9
<1>12. t.node[y].used /\ (x # y => ~t.node[x].used)
  BY <1>1, <1>4, <1>8, <1>9 DEF Unused
<1>13. \A a \in Addr : t.node[a].used <=> (a \in dead \/ \E b \in Ctx : a \in into[b])
  <2>1. ASSUME NEW a \in Addr \ {x, y}
        PROVE  t.node[a].used <=> (a \in dead \/ \E b \in Ctx : a \in into[b])
    <3>1. \A b \in Ctx : a \in into[b] <=> a \in in[b]
      BY <1>5, <1>10
    <3> QED
      BY <1>2, <1>11, <3>1
  <2>2. \E b \in Ctx : y \in into[b]
    BY <1>10
  <2>3. x # y => x \notin dead /\ \A b \in Ctx : x \notin into[b]
    BY <1>1, <1>6, <1>10
  <2> QED
    BY <1>12, <2>1, <2>2, <2>3
<1>14. \A a \in dead : t.node[a].prev = t.node[a].context /\ t.node[a].context \in Ctx
  <2>1. \A a \in dead : a \in Addr \ {x, y}
    BY <1>1, <1>6
  <2> QED
    BY <1>3, <1>4, <1>8, <1>9, <2>1
<1>15. InOrder(t) /\ MembersOf(t) = into
  BY <1>9, <1>13, <1>14, Settled
<1>16. LeavesWalks(m, t, x)
  <2>1. LeavesWalks(m, u, x)
    BY <1>1, UnlinkWalks DEF u
  <2>2. SameWalks(u, r)
    BY <1>1, <1>4, <1>6, RelocateWalks DEF r
  <2>3. SameWalks(r, t)
    BY <1>6, <1>7, LinkWalks DEF t
  <2> QED
    BY <2>1, <2>2, <2>3 DEF LeavesWalks, SameWalks
<1>17. t.node[y].timeout = 0 /\ \A a \in Addr \ {x, y} : t.node[a].timeout = m.node[a].timeout
  <2>1. r \in Memory
    BY <1>7 DEF Lists
  <2>2. \A a \in Addr : t.node[a].timeout = IF a = y THEN 0 ELSE r.node[a].timeout
    BY <2>1, TimeoutsKept DEF t
  <2>3. \A a \in Addr : u.node[a].timeout = m.node[a].timeout
    BY <1>1, TimeoutsKept DEF u
  <2> QED
    BY <1>8, <2>2, <2>3
<1> QED
  BY <1>9, <1>11, <1>12, <1>15, <1>16, <1>17 DEF t, r, u, into, out, in, d

\* The closed sockets are freed.
LEMMA FreeKeeps ==
  ASSUME NEW m, InOrder(m)
  PROVE  LET gone == ListFrom(m, m.closedHead)
             t == [m EXCEPT !.closedHead = NULL,
                            !.node = [a \in Addr |-> IF a \in gone THEN Unused ELSE m.node[a]]]
         IN  /\ InOrder(t)
             /\ MembersOf(t) = MembersOf(m)
             /\ gone = ClosedOf(m)
             /\ \A a \in Addr : t.node[a].used => t.node[a].context = m.node[a].context
             /\ \A a \in Addr \ gone : t.node[a].timeout = m.node[a].timeout
             /\ SameWalks(m, t)
<1> DEFINE gone == ListFrom(m, m.closedHead)
           nodes == [a \in Addr |-> IF a \in gone THEN Unused ELSE m.node[a]]
           t == [m EXCEPT !.closedHead = NULL, !.node = nodes]
           in == MembersOf(m)
<1>1. /\ m \in Memory /\ Lists(m, in, ClosedOf(m)) /\ in \in [Ctx -> SUBSET Addr]
      /\ ClosedOf(m) \in SUBSET Addr
      /\ \A a \in Addr : m.node[a].used <=>
           (a \in ClosedOf(m) \/ \E c \in Ctx : a \in in[c])
      /\ \A c \in Ctx : \A a \in in[c] : a \notin ClosedOf(m)
  BY InOrderFacts DEF InOrder
<1>2. gone = ClosedOf(m)
  BY <1>1 DEF Lists, Chain, ListFrom
<1>3. m.node \in [Addr -> Node] /\ Unused \in Node /\ Unused.used = FALSE
  BY <1>1 DEF Memory, Unused, Node
<1> HIDE DEF gone
<1>4. /\ nodes \in [Addr -> Node]
      /\ \A a \in Addr : nodes[a] = IF a \in gone THEN Unused ELSE m.node[a]
  BY <1>3
<1> HIDE DEF nodes
<1>5. /\ t \in Memory /\ t.node = nodes /\ t.closedHead = NULL
      /\ t.head = m.head /\ t.iterator = m.iterator
  BY <1>1, <1>4 DEF Memory
<1> HIDE DEF t, in
<1>6. \A c \in Ctx : \A a \in in[c] : t.node[a] = m.node[a]
  BY <1>1, <1>2, <1>4, <1>5
<1>7. ASSUME NEW c \in Ctx
      PROVE  ListOK(t, c, in[c])
  <2>1. in[c] \in SUBSET Addr /\ ListOK(m, c, in[c]) /\ m.iterator[c] \in in[c] \cup {NULL}
    BY <1>1 DEF Lists, ListOK
  <2>2. \A a \in in[c] : t.node[a] = m.node[a]
    BY <1>6
  <2> QED
    BY <1>1, <1>5, <2>1, <2>2, ListFrame
<1>8. Chain(NextOf(t), NULL, {})
  BY FromNull DEF Chain
<1>9. Lists(t, in, {})
  BY <1>1, <1>5, <1>7, <1>8 DEF Lists
<1>10. \A a \in Addr : t.node[a].used <=> (a \in {} \/ \E c \in Ctx : a \in in[c])
  BY <1>1, <1>2, <1>3, <1>4, <1>5
<1>11. InOrder(t) /\ MembersOf(t) = in
  BY <1>9, <1>10, Settled
<1>12. \A a \in Addr : t.node[a].used => t.node[a].context = m.node[a].context
  BY <1>3, <1>4, <1>5
<1>13. \A a \in Addr \ gone : t.node[a].timeout = m.node[a].timeout
  BY <1>4, <1>5
<1>14. SameWalks(m, t)
  <2>1. \A c \in Ctx : \A a \in in[c] : t.node[a].next = m.node[a].next
    BY <1>6
  <2> QED
    BY <1>1, <1>5, <2>1, WalksFrame
<1> QED
  BY <1>2, <1>11, <1>12, <1>13, <1>14 DEF t, nodes, gone, in
=============================================================================
