--------------------------- MODULE TimerSweepProofs ---------------------------
(***************************************************************************)
(* Proofs about TimerSweep, for any number of sockets and contexts: the    *)
(* lists under a sweep (SweepInv), what a timeout waits for, that the walk *)
(* implements TimeoutSpec (WalkInv), and that it gets on.                  *)
(***************************************************************************)
EXTENDS TimerSweep, ContextListProofs

-----------------------------------------------------------------------------
(***************************************************************************)
(* The inductive invariant.                                                *)
(***************************************************************************)
\* A socket belongs to a context that was created.
ContextsKnown(m, known) == \A a \in Addr : m.node[a].used => m.node[a].context \in known

SweepInv ==
  /\ TypeOK
  /\ InOrder(mem)
  /\ ContextsKnown(mem, Created)
  /\ phase # "idle" => context \in Ctx
  /\ phase = "handler" => s \in Addr

LEMMA CreatedTypes ==
  ASSUME TypeOK
  PROVE  /\ contexts.next \in Pointers(Ctx) /\ contexts.head \in Ctx \cup {NULL}
         /\ NULL \notin Ctx /\ Created \subseteq Ctx
<1>1. contexts.next \in Pointers(Ctx) /\ contexts.head \in Ctx \cup {NULL} /\ NULL \notin Ctx
  BY ListAssumption DEF TypeOK, Pointers
<1> QED
  BY <1>1, FromClosed DEF Created

LEMMA IteratorInList ==
  ASSUME NEW m, InOrder(m), NEW c \in Ctx
  PROVE  /\ m.iterator[c] \in MembersOf(m)[c] \cup {NULL}
         /\ m.head[c] \in MembersOf(m)[c] \cup {NULL}
         /\ \A a \in MembersOf(m)[c] : m.node[a].next \in MembersOf(m)[c] \cup {NULL}
         /\ MembersOf(m)[c] = Members(m, c) /\ MembersOf(m)[c] \in SUBSET Addr
<1>1. /\ m \in Memory /\ ListOK(m, c, MembersOf(m)[c])
      /\ MembersOf(m)[c] \in SUBSET Addr
  BY InOrderFacts DEF InOrder, Lists
<1>2. /\ m.head[c] \in MembersOf(m)[c] \cup {NULL}
      /\ \A a \in MembersOf(m)[c] : NextOf(m)[a] \in MembersOf(m)[c] \cup {NULL}
  BY <1>1, NextOfTypes, HeadTypes, ChainTypes DEF ListOK
<1> QED
  BY <1>1, <1>2, NextOfTypes DEF ListOK, MembersOf

LEMMA SweepInit == Init => SweepInv
<1> SUFFICES ASSUME Init PROVE SweepInv
  OBVIOUS
<1>1. /\ NoSockets \in Memory /\ NoSockets.closedHead = NULL
      /\ \A c \in Ctx : NoSockets.head[c] = NULL /\ NoSockets.iterator[c] = NULL
      /\ \A a \in Addr : ~NoSockets.node[a].used
  BY DEF NoSockets, Memory, Node, Unused
<1>2. Lists(NoSockets, [c \in Ctx |-> {}], {})
  <2> DEFINE in == [c \in Ctx |-> {}]
  <2>1. in \in [Ctx -> SUBSET Addr] /\ \A c \in Ctx : in[c] = {}
    OBVIOUS
  <2> HIDE DEF in
  <2>2. Chain(NextOf(NoSockets), NULL, {})
    BY FromNull DEF Chain
  <2>3. \A c \in Ctx : ListOK(NoSockets, c, in[c]) /\ in[c] \cap {} = {}
    BY <1>1, <2>1, <2>2 DEF ListOK, Doubly
  <2>4. Lists(NoSockets, in, {})
    BY <1>1, <2>1, <2>2, <2>3 DEF Lists
  <2> QED
    BY <2>4 DEF in
<1>3. InOrder(NoSockets)
  <2> DEFINE in == [c \in Ctx |-> {}]
  <2>1. \A c \in Ctx : in[c] = {}
    OBVIOUS
  <2> HIDE DEF in
  <2>2. Lists(NoSockets, in, {})
    BY <1>2 DEF in
  <2> QED
    BY <1>1, <2>1, <2>2, Settled
<1>4. ContextsKnown(NoSockets, Created)
  BY <1>1 DEF ContextsKnown
<1> QED
  BY <1>1, <1>3, <1>4 DEF Init, SweepInv, TypeOK

-----------------------------------------------------------------------------
(***************************************************************************)
(* The application's calls.                                                *)
(***************************************************************************)
\* The new context has no sockets; what was at its address had none either.
LEMMA CreateContextWrites ==
  ASSUME SweepInv, NEW c \in Ctx, CreateContext(c)
  PROVE  /\ mem' = mem /\ c \notin Created /\ Created' = {c} \cup Created
         /\ contexts'.head = c /\ contexts'.next \in Pointers(Ctx)
         /\ contexts'.next[c] = contexts.head
         /\ \A d \in Ctx \ {c} : contexts'.next[d] = contexts.next[d]
<1>1. /\ TypeOK /\ InOrder(mem) /\ ContextsKnown(mem, Created) /\ mem \in Memory
      /\ contexts.next \in Pointers(Ctx) /\ contexts.head \in Ctx \cup {NULL}
      /\ NULL \notin Ctx /\ Created \subseteq Ctx
  BY CreatedTypes DEF SweepInv, TypeOK
<1>2. c \notin Created
  <2>1. \E d \in Ctx : d \notin Created
    BY <1>1 DEF CreateContext
  <2> QED
    BY <2>1 DEF CreateContext
<1>3. Members(mem, c) = {}
  BY <1>1, <1>2 DEF ContextsKnown, Members, Linked
<1>4. mem.head[c] = NULL /\ mem.iterator[c] = NULL
  BY <1>1, <1>3, IteratorInList
<1>5. mem' = mem
  <2>1. [mem.head EXCEPT ![c] = NULL] = mem.head /\ [mem.iterator EXCEPT ![c] = NULL] = mem.iterator
    BY <1>1, <1>4 DEF Memory
  <2>2. mem' = [mem EXCEPT !.head = mem.head, !.iterator = mem.iterator]
    BY <2>1 DEF CreateContext
  <2> QED
    BY <1>1, <2>2 DEF Memory
<1>6. /\ contexts'.head = c /\ contexts'.next = [contexts.next EXCEPT ![c] = contexts.head]
  BY DEF CreateContext
<1>7. contexts'.next \in Pointers(Ctx) /\ contexts'.next[c] = contexts.head
      /\ \A d \in Ctx \ {c} : contexts'.next[d] = contexts.next[d]
  BY <1>1, <1>6 DEF Pointers
<1>8. From(contexts'.next, contexts.head) = Created
  <2> DEFINE old == contexts.next
             new == contexts'.next
             p == contexts.head
  <2>1. \A d \in From(contexts.next, contexts.head) : contexts'.next[d] = contexts.next[d]
    BY <1>1, <1>2, <1>7 DEF Created
  <2>2. /\ NULL \notin Ctx /\ old \in Pointers(Ctx) /\ new \in Pointers(Ctx) /\ p \in Ctx \cup {NULL}
        /\ \A d \in From(old, p) : new[d] = old[d]
    BY <1>1, <1>7, <2>1
  <2> HIDE DEF old, new, p
  <2>3. From(new, p) = From(old, p)
    BY <2>2, FromFrame
  <2> QED
    BY <2>3 DEF Created, old, new, p
<1>9. Created' = {c} \cup Created
  <2> DEFINE new == contexts'.next
  <2>1. Created' = From(new, c)
    BY <1>6 DEF Created
  <2>2. NULL \notin Ctx /\ new \in Pointers(Ctx) /\ From(new, new[c]) = Created
    BY <1>1, <1>7, <1>8
  <2> HIDE DEF new
  <2>3. From(new, c) = {c} \cup From(new, new[c])
    BY <2>2, FromStep
  <2> QED
    BY <2>1, <2>2, <2>3
<1> QED
  BY <1>2, <1>5, <1>6, <1>7, <1>9

LEMMA CreateContextSafe ==
  ASSUME SweepInv, NEW c \in Ctx, CreateContext(c)
  PROVE  SweepInv'
<1>1. /\ TypeOK /\ InOrder(mem) /\ ContextsKnown(mem, Created) /\ mem \in Memory
      /\ contexts.next \in Pointers(Ctx) /\ contexts.head \in Ctx \cup {NULL}
      /\ NULL \notin Ctx /\ Created \subseteq Ctx
  BY CreatedTypes DEF SweepInv, TypeOK
<1>2. /\ mem' = mem /\ c \notin Created /\ Created' = {c} \cup Created
      /\ contexts'.next \in Pointers(Ctx)
  BY CreateContextWrites
<1>3. TypeOK'
  <2>1. contexts' \in [head : Ctx \cup {NULL}, next : [Ctx -> Ctx \cup {NULL}]]
    BY <1>2 DEF CreateContext, Pointers
  <2> QED
    BY <1>1, <1>2, <2>1 DEF TypeOK, CreateContext
<1>4. ContextsKnown(mem', Created')
  BY <1>1, <1>2 DEF ContextsKnown
<1> QED
  BY <1>1, <1>2, <1>3, <1>4 DEF SweepInv, CreateContext

\* A step of the application on the lists alone.
LEMMA AppStep ==
  ASSUME SweepInv, UNCHANGED <<phase, contexts, context, s>>,
         InOrder(mem'), ContextsKnown(mem', Created)
  PROVE  SweepInv'
<1>1. mem' \in Memory
  BY InOrderFacts
<1>2. Created' = Created
  BY DEF Created
<1>3. TypeOK'
  BY <1>1 DEF SweepInv, TypeOK
<1> QED
  BY <1>2, <1>3 DEF SweepInv

LEMMA CreateSocketSafe ==
  ASSUME SweepInv, NEW a \in Addr, NEW c \in Ctx, CreateSocket(a, c)
  PROVE  SweepInv'
<1>1. InOrder(mem) /\ ContextsKnown(mem, Created) /\ ~mem.node[a].used /\ c \in Created
  BY DEF SweepInv, CreateSocket
<1>2. /\ InOrder(mem') /\ mem'.node[a].context = c
      /\ \A b \in Addr \ {a} : /\ mem'.node[b].context = mem.node[b].context
                               /\ mem'.node[b].used = mem.node[b].used
  BY <1>1, CreateKeeps DEF CreateSocket
<1>3. ContextsKnown(mem', Created)
  BY <1>1, <1>2 DEF ContextsKnown
<1> QED
  BY <1>2, <1>3, AppStep DEF CreateSocket

LEMMA CloseSocketSafe ==
  ASSUME SweepInv, NEW t \in Addr, CloseSocket(t)
  PROVE  SweepInv'
<1>1. InOrder(mem) /\ ContextsKnown(mem, Created) /\ t \in Linked(mem)
  BY DEF SweepInv, CloseSocket
<1>2. /\ InOrder(mem')
      /\ \A b \in Addr : /\ mem'.node[b].context = mem.node[b].context
                         /\ mem'.node[b].used = mem.node[b].used
  BY <1>1, CloseKeeps DEF CloseSocket
<1>3. ContextsKnown(mem', Created)
  BY <1>1, <1>2 DEF ContextsKnown
<1> QED
  BY <1>2, <1>3, AppStep DEF CloseSocket

LEMMA AdoptSocketSafe ==
  ASSUME SweepInv, NEW t \in Addr, NEW n \in Addr, NEW c \in Ctx, AdoptSocket(t, n, c)
  PROVE  SweepInv'
<1>1. /\ InOrder(mem) /\ ContextsKnown(mem, Created) /\ t \in Linked(mem)
      /\ (n = t \/ ~mem.node[n].used) /\ c \in Created
  BY DEF SweepInv, AdoptSocket
<1>2. /\ InOrder(mem') /\ mem'.node[n].context = c
      /\ \A b \in Addr \ {t, n} : /\ mem'.node[b].context = mem.node[b].context
                                  /\ mem'.node[b].used = mem.node[b].used
      /\ t # n => ~mem'.node[t].used
  BY <1>1, AdoptKeeps DEF AdoptSocket
<1>3. ContextsKnown(mem', Created)
  BY <1>1, <1>2 DEF ContextsKnown
<1> QED
  BY <1>2, <1>3, AppStep DEF AdoptSocket

LEMMA FreeClosedSafe ==
  ASSUME SweepInv, FreeClosed
  PROVE  SweepInv'
<1>1. InOrder(mem) /\ ContextsKnown(mem, Created)
  BY DEF SweepInv
<1>2. InOrder(mem') /\ \A a \in Addr : mem'.node[a].used => mem'.node[a].context = mem.node[a].context
  BY <1>1, FreeKeeps DEF FreeClosed
<1>3. \A a \in Addr : mem'.node[a].used => mem.node[a].used
  BY <1>1, InOrderFacts DEF FreeClosed, Memory, Unused
<1>4. ContextsKnown(mem', Created)
  BY <1>1, <1>2, <1>3 DEF ContextsKnown
<1> QED
  BY <1>2, <1>4, AppStep DEF FreeClosed

LEMMA SweepsTypes ==
  ASSUME NEW seconds \in Nat
  PROVE  TimeoutSweeps(seconds) \in Nat /\ seconds \div ASOCK_TIMEOUT_GRANULARITY \in Nat
<1> DEFINE n == (2 * seconds + 4) \div 8
<1>1. n \in Nat /\ seconds \div 4 \in Nat
  OBVIOUS
<1>2. TimeoutSweeps(seconds) =
        IF seconds = 0 THEN 0 ELSE IF n % 65536 = 0 THEN 1 ELSE n % 65536
  BY DEF TimeoutSweeps, ASOCK_TIMEOUT_GRANULARITY, USHORT_VALUES
<1> HIDE DEF n
<1>3. n % 65536 \in Nat
  BY <1>1
<1> QED
  BY <1>1, <1>2, <1>3 DEF ASOCK_TIMEOUT_GRANULARITY

\* Setting or counting down a timeout writes nothing else.
Counted(m, x, sweeps, want) == [m EXCEPT !.node[x].timeout = sweeps, !.node[x].want = want]

LEMMA CountWrites ==
  ASSUME NEW m \in Memory, NEW x \in Addr, NEW sweeps \in Nat, NEW want \in Nat
  PROVE  LET t == Counted(m, x, sweeps, want)
         IN  /\ t \in Memory /\ t.head = m.head /\ t.iterator = m.iterator
             /\ t.closedHead = m.closedHead
             /\ \A a \in Addr : /\ t.node[a].next = m.node[a].next
                                /\ t.node[a].prev = m.node[a].prev
                                /\ t.node[a].context = m.node[a].context
                                /\ t.node[a].used = m.node[a].used
             /\ t.node[x].timeout = sweeps /\ t.node[x].want = want
             /\ \A a \in Addr \ {x} : t.node[a] = m.node[a]
<1> DEFINE nx == [m.node[x] EXCEPT !.timeout = sweeps, !.want = want]
           t == Counted(m, x, sweeps, want)
<1>1. m.node \in [Addr -> Node]
  BY DEF Memory
<1>2. /\ nx \in Node /\ nx.timeout = sweeps /\ nx.want = want
      /\ nx.next = m.node[x].next /\ nx.prev = m.node[x].prev
      /\ nx.context = m.node[x].context /\ nx.used = m.node[x].used
  BY <1>1, NodeTypes DEF Node
<1>3. t = [m EXCEPT !.node = [m.node EXCEPT ![x] = nx]]
  BY <1>1 DEF Memory, Node, Counted
<1> HIDE DEF nx, t
<1>4. /\ t \in Memory /\ t.node = [m.node EXCEPT ![x] = nx]
      /\ t.head = m.head /\ t.iterator = m.iterator /\ t.closedHead = m.closedHead
  BY <1>1, <1>2, <1>3 DEF Memory
<1> QED
  BY <1>1, <1>2, <1>4 DEF t

LEMMA SetTimeoutSafe ==
  ASSUME SweepInv, NEW t \in Addr, NEW seconds \in Seconds, SetTimeout(t, seconds)
  PROVE  SweepInv'
<1> DEFINE sweeps == TimeoutSweeps(seconds)
           want == seconds \div ASOCK_TIMEOUT_GRANULARITY
<1>1. InOrder(mem) /\ ContextsKnown(mem, Created) /\ mem \in Memory
  BY DEF SweepInv, TypeOK
<1>2. sweeps \in Nat /\ want \in Nat
  BY SecondsAssumption, SweepsTypes
<1>3. mem' = Counted(mem, t, sweeps, want)
  BY DEF SetTimeout, Counted
<1> HIDE DEF sweeps, want
<1>4. /\ mem' \in Memory /\ mem'.head = mem.head /\ mem'.iterator = mem.iterator
      /\ mem'.closedHead = mem.closedHead
      /\ \A a \in Addr : /\ mem'.node[a].next = mem.node[a].next
                         /\ mem'.node[a].prev = mem.node[a].prev
                         /\ mem'.node[a].context = mem.node[a].context
                         /\ mem'.node[a].used = mem.node[a].used
  BY <1>1, <1>2, <1>3, CountWrites
<1>5. \A c \in Ctx : mem'.iterator[c] \in MembersOf(mem)[c] \cup {NULL}
  BY <1>1, <1>4, IteratorInList
<1>6. InOrder(mem') /\ ContextsKnown(mem', Created)
  BY <1>1, <1>4, <1>5, LinksUntouched DEF ContextsKnown
<1> QED
  BY <1>6, AppStep DEF SetTimeout

-----------------------------------------------------------------------------
(***************************************************************************)
(* The walk.                                                               *)
(***************************************************************************)
\* A step that moves iterators along their lists and counts timeouts.
LEMMA WalkStep ==
  ASSUME SweepInv, UNCHANGED contexts, mem' \in Memory,
         mem'.head = mem.head, mem'.closedHead = mem.closedHead,
         \A c \in Ctx : mem'.iterator[c] \in Members(mem, c) \cup {NULL},
         \A a \in Addr : /\ mem'.node[a].next = mem.node[a].next
                         /\ mem'.node[a].prev = mem.node[a].prev
                         /\ mem'.node[a].context = mem.node[a].context
                         /\ mem'.node[a].used = mem.node[a].used,
         phase' \in {"idle", "sweep", "handler"}, context' \in Ctx \cup {NULL},
         phase' # "idle" => context' \in Ctx,
         s' \in Addr \cup {NULL}, phase' = "handler" => s' \in Addr
  PROVE  SweepInv'
<1>1. InOrder(mem) /\ ContextsKnown(mem, Created)
  BY DEF SweepInv
<1>2. \A c \in Ctx : mem'.iterator[c] \in MembersOf(mem)[c] \cup {NULL}
  BY DEF MembersOf
<1>3. InOrder(mem')
  BY <1>1, <1>2, LinksUntouched
<1>4. ContextsKnown(mem', Created') 
  BY <1>1 DEF ContextsKnown, Created
<1>5. TypeOK'
  BY DEF SweepInv, TypeOK
<1> QED
  BY <1>3, <1>4, <1>5 DEF SweepInv

LEMMA EnterSafe ==
  ASSUME SweepInv, phase # "handler", NEW c \in Ctx \cup {NULL}, Enter(c)
  PROVE  SweepInv'
<1>1. /\ InOrder(mem) /\ mem \in Memory /\ s \in Addr \cup {NULL} /\ NULL \notin Ctx
      /\ \A d \in Ctx : /\ mem.iterator[d] \in Members(mem, d) \cup {NULL}
                        /\ mem.head[d] \in Members(mem, d) \cup {NULL}
  BY IteratorInList, CreatedTypes DEF SweepInv, TypeOK
<1>2. CASE c = NULL
  <2>1. mem' = mem /\ phase' = "idle" /\ context' = NULL /\ s' = s /\ UNCHANGED contexts
    BY <1>2 DEF Enter
  <2> QED
    BY <1>1, <2>1, WalkStep
<1>3. CASE c # NULL
  <2> DEFINE its == [mem.iterator EXCEPT ![c] = mem.head[c]]
  <2>1. /\ mem' = [mem EXCEPT !.iterator = its] /\ phase' = "sweep" /\ context' = c /\ s' = s
        /\ UNCHANGED contexts /\ c \in Ctx
    BY <1>3 DEF Enter
  <2>2. /\ its \in [Ctx -> Addr \cup {NULL}] /\ its[c] = mem.head[c]
        /\ \A d \in Ctx \ {c} : its[d] = mem.iterator[d]
    BY <1>1, <2>1 DEF Memory
  <2> HIDE DEF its
  <2>3. /\ mem' \in Memory /\ mem'.head = mem.head /\ mem'.closedHead = mem.closedHead
        /\ mem'.node = mem.node /\ mem'.iterator = its
    BY <1>1, <2>1, <2>2 DEF Memory
  <2>4. \A d \in Ctx : mem'.iterator[d] \in Members(mem, d) \cup {NULL}
    BY <1>1, <2>1, <2>2, <2>3
  <2> QED
    BY <1>1, <2>1, <2>3, <2>4, WalkStep
<1> QED
  BY <1>2, <1>3

\* Where a walk stands: in the list of its context.
LEMMA WalkFacts ==
  ASSUME SweepInv, phase # "idle"
  PROVE  /\ mem \in Memory /\ context \in Ctx /\ s \in Addr \cup {NULL}
         /\ \A c \in Ctx : mem.iterator[c] \in Members(mem, c) \cup {NULL}
         /\ \A a \in Members(mem, context) : mem.node[a].next \in Members(mem, context) \cup {NULL}
         /\ Iterator \in Members(mem, context) \cup {NULL}
         /\ Members(mem, context) \in SUBSET Addr
BY IteratorInList DEF SweepInv, TypeOK, Iterator

\* The walk goes on from p.
LEMMA MoveWrites ==
  ASSUME NEW m \in Memory, NEW c \in Ctx, NEW p \in Addr \cup {NULL}
  PROVE  LET t == [m EXCEPT !.iterator[c] = p]
         IN  /\ t \in Memory /\ t.head = m.head /\ t.closedHead = m.closedHead /\ t.node = m.node
             /\ t.iterator[c] = p /\ \A d \in Ctx \ {c} : t.iterator[d] = m.iterator[d]
<1> DEFINE its == [m.iterator EXCEPT ![c] = p]
           t == [m EXCEPT !.iterator[c] = p]
<1>1. /\ its \in [Ctx -> Addr \cup {NULL}] /\ its[c] = p
      /\ \A d \in Ctx \ {c} : its[d] = m.iterator[d]
  BY DEF Memory
<1>2. t = [m EXCEPT !.iterator = its]
  OBVIOUS
<1> HIDE DEF its, t
<1>3. /\ t \in Memory /\ t.head = m.head /\ t.closedHead = m.closedHead /\ t.node = m.node
      /\ t.iterator = its
  BY <1>1, <1>2 DEF Memory
<1> QED
  BY <1>1, <1>3 DEF t

LEMMA ElapseWrites ==
  ASSUME mem \in Memory, NEW x \in Addr
  PROVE  LET t == Elapse(x)
         IN  /\ t \in Memory /\ t.head = mem.head /\ t.iterator = mem.iterator
             /\ t.closedHead = mem.closedHead
             /\ \A a \in Addr : /\ t.node[a].next = mem.node[a].next
                                /\ t.node[a].prev = mem.node[a].prev
                                /\ t.node[a].context = mem.node[a].context
                                /\ t.node[a].used = mem.node[a].used
             /\ t.node[x].timeout = (IF mem.node[x].timeout = 0 THEN 0 ELSE mem.node[x].timeout - 1)
             /\ t.node[x].want = (IF mem.node[x].want = 0 THEN 0 ELSE mem.node[x].want - 1)
             /\ \A a \in Addr \ {x} : t.node[a] = mem.node[a]
<1> DEFINE sweeps == IF mem.node[x].timeout = 0 THEN 0 ELSE mem.node[x].timeout - 1
           want == IF mem.node[x].want = 0 THEN 0 ELSE mem.node[x].want - 1
           t == Elapse(x)
<1>1. sweeps \in Nat /\ want \in Nat
  BY NodeTypes DEF Node
<1>2. t = Counted(mem, x, sweeps, want)
  BY DEF Elapse, Counted, Memory, Node
<1> HIDE DEF sweeps, want, t
<1>3. /\ t \in Memory /\ t.head = mem.head /\ t.iterator = mem.iterator
      /\ t.closedHead = mem.closedHead
      /\ \A a \in Addr : /\ t.node[a].next = mem.node[a].next
                         /\ t.node[a].prev = mem.node[a].prev
                         /\ t.node[a].context = mem.node[a].context
                         /\ t.node[a].used = mem.node[a].used
      /\ t.node[x].timeout = sweeps /\ t.node[x].want = want
      /\ \A a \in Addr \ {x} : t.node[a] = mem.node[a]
  BY <1>1, <1>2, CountWrites
<1> QED
  BY <1>3 DEF sweeps, want, t

LEMMA NextContextSafe ==
  ASSUME SweepInv, NextContext
  PROVE  SweepInv'
<1>1. contexts.next[context] \in Ctx \cup {NULL}
  BY WalkFacts DEF NextContext, SweepInv, TypeOK
<1> QED
  BY <1>1, EnterSafe DEF NextContext

LEMMA StartSweepSafe ==
  ASSUME SweepInv, StartSweep
  PROVE  SweepInv'
BY EnterSafe DEF StartSweep, SweepInv, TypeOK

LEMMA PassSocketSafe ==
  ASSUME SweepInv, PassSocket
  PROVE  SweepInv'
<1> DEFINE t == Elapse(Iterator)
<1>1. /\ phase = "sweep" /\ phase' = phase /\ UNCHANGED <<contexts, context, s>>
      /\ mem' = [t EXCEPT !.iterator[context] = mem.node[Iterator].next]
      /\ Iterator # NULL
  BY DEF PassSocket
<1>2. /\ mem \in Memory /\ context \in Ctx /\ s \in Addr \cup {NULL}
      /\ \A c \in Ctx : mem.iterator[c] \in Members(mem, c) \cup {NULL}
      /\ Iterator \in Addr /\ mem.node[Iterator].next \in Members(mem, context) \cup {NULL}
      /\ Members(mem, context) \in SUBSET Addr
  BY <1>1, WalkFacts
<1>3. /\ t \in Memory /\ t.head = mem.head /\ t.iterator = mem.iterator
      /\ t.closedHead = mem.closedHead
      /\ \A a \in Addr : /\ t.node[a].next = mem.node[a].next
                         /\ t.node[a].prev = mem.node[a].prev
                         /\ t.node[a].context = mem.node[a].context
                         /\ t.node[a].used = mem.node[a].used
  BY <1>2, ElapseWrites
<1> HIDE DEF t
<1>4. /\ mem' \in Memory /\ mem'.head = t.head /\ mem'.closedHead = t.closedHead
      /\ mem'.node = t.node /\ mem'.iterator[context] = mem.node[Iterator].next
      /\ \A d \in Ctx \ {context} : mem'.iterator[d] = t.iterator[d]
  <2> DEFINE p == mem.node[Iterator].next
  <2>1. p \in Addr \cup {NULL} /\ mem' = [t EXCEPT !.iterator[context] = p]
    BY <1>1, <1>2
  <2> HIDE DEF p
  <2>2. /\ mem' \in Memory /\ mem'.head = t.head /\ mem'.closedHead = t.closedHead
        /\ mem'.node = t.node /\ mem'.iterator[context] = p
        /\ \A d \in Ctx \ {context} : mem'.iterator[d] = t.iterator[d]
    BY <1>2, <1>3, <2>1, MoveWrites
  <2> QED
    BY <2>2 DEF p
<1>5. \A c \in Ctx : mem'.iterator[c] \in Members(mem, c) \cup {NULL}
  BY <1>2, <1>3, <1>4
<1> QED
  BY <1>1, <1>2, <1>3, <1>4, <1>5, WalkStep

LEMMA TimeOutSafe ==
  ASSUME SweepInv, TimeOut
  PROVE  SweepInv'
<1> DEFINE t == Elapse(Iterator)
<1>1. /\ phase = "sweep" /\ phase' = "handler" /\ UNCHANGED <<contexts, context>>
      /\ mem' = t /\ Iterator # NULL /\ s' = Iterator
  BY DEF TimeOut
<1>2. /\ mem \in Memory /\ context \in Ctx
      /\ \A c \in Ctx : mem.iterator[c] \in Members(mem, c) \cup {NULL}
      /\ Iterator \in Addr
  BY <1>1, WalkFacts
<1>3. /\ t \in Memory /\ t.head = mem.head /\ t.iterator = mem.iterator
      /\ t.closedHead = mem.closedHead
      /\ \A a \in Addr : /\ t.node[a].next = mem.node[a].next
                         /\ t.node[a].prev = mem.node[a].prev
                         /\ t.node[a].context = mem.node[a].context
                         /\ t.node[a].used = mem.node[a].used
  BY <1>2, ElapseWrites
<1> HIDE DEF t
<1> QED
  BY <1>1, <1>2, <1>3, WalkStep

LEMMA TimeOutReturnsSafe ==
  ASSUME SweepInv, TimeOutReturns
  PROVE  SweepInv'
<1> DEFINE p == IF s = Iterator THEN mem.node[s].next ELSE Iterator
<1>1. /\ phase = "handler" /\ phase' = "sweep" /\ UNCHANGED <<contexts, context>>
      /\ mem' = [mem EXCEPT !.iterator[context] = p] /\ s' = NULL /\ s \in Addr
  BY DEF TimeOutReturns, SweepInv, Iterator
<1>2. /\ mem \in Memory /\ context \in Ctx
      /\ \A c \in Ctx : mem.iterator[c] \in Members(mem, c) \cup {NULL}
      /\ p \in Members(mem, context) \cup {NULL} /\ p \in Addr \cup {NULL}
  <2>1. NULL \notin Addr
    BY ListAssumption
  <2> QED
    BY <1>1, <2>1, WalkFacts
<1> HIDE DEF p
<1>3. /\ mem' \in Memory /\ mem'.head = mem.head /\ mem'.closedHead = mem.closedHead
      /\ mem'.node = mem.node /\ mem'.iterator[context] = p
      /\ \A d \in Ctx \ {context} : mem'.iterator[d] = mem.iterator[d]
  BY <1>1, <1>2, MoveWrites
<1>4. \A c \in Ctx : mem'.iterator[c] \in Members(mem, c) \cup {NULL}
  BY <1>2, <1>3
<1> QED
  BY <1>1, <1>2, <1>3, <1>4, WalkStep

-----------------------------------------------------------------------------
LEMMA SweepNext == SweepInv /\ [Next]_vars => SweepInv'
<1> SUFFICES ASSUME SweepInv, [Next]_vars
             PROVE  SweepInv'
  OBVIOUS
<1>1. CASE App
  <2>1. CASE \E c \in Ctx : CreateContext(c)
    BY <2>1, CreateContextSafe
  <2>2. CASE \E a \in Addr, c \in Ctx : CreateSocket(a, c)
    BY <2>2, CreateSocketSafe
  <2>3. CASE \E t \in Addr : CloseSocket(t)
    BY <2>3, CloseSocketSafe
  <2>4. CASE \E t \in Addr : \E seconds \in Seconds : SetTimeout(t, seconds)
    BY <2>4, SetTimeoutSafe
  <2>5. CASE \E t, n \in Addr, c \in Ctx : AdoptSocket(t, n, c)
    BY <2>5, AdoptSocketSafe
  <2> QED
    BY <1>1, <2>1, <2>2, <2>3, <2>4, <2>5 DEF App
<1>2. CASE FreeClosed
  BY <1>2, FreeClosedSafe
<1>3. CASE StartSweep
  BY <1>3, StartSweepSafe
<1>4. CASE Sweep
  BY <1>4, NextContextSafe, PassSocketSafe, TimeOutSafe, TimeOutReturnsSafe DEF Sweep
<1>5. CASE UNCHANGED vars
  <2>1. UNCHANGED <<phase, contexts, context, s>> /\ mem' = mem
    BY <1>5 DEF vars
  <2> QED
    BY <2>1, AppStep DEF SweepInv
<1> QED
  BY <1>1, <1>2, <1>3, <1>4, <1>5 DEF Next

\* The lists are in order whatever the application does and wherever a sweep is.
THEOREM SweepInvariance == Spec => []SweepInv
  BY SweepInit, SweepNext, PTL DEF Spec

THEOREM SweepTypes == Spec => []TypeOK
<1>1. SweepInv => TypeOK
  BY DEF SweepInv
<1> QED
  BY <1>1, SweepInvariance, PTL

THEOREM WalkSafety == Spec => []WalkStaysInList
<1>1. SweepInv => WalkStaysInList
  BY WalkFacts DEF WalkStaysInList
<1> QED
  BY <1>1, SweepInvariance, PTL

THEOREM ListSafety == Spec => []ListsDoublyLinked
<1>1. ASSUME SweepInv
      PROVE  ListsDoublyLinked
  <2> SUFFICES ASSUME NEW c \in Ctx
               PROVE  /\ ListFrom(mem, mem.head[c]) = Members(mem, c)
                      /\ \A a \in Members(mem, c) :
                           /\ mem.node[a].prev = NULL <=> mem.head[c] = a
                           /\ mem.node[a].prev # NULL => mem.node[mem.node[a].prev].next = a
                           /\ a \notin ListFrom(mem, mem.node[a].next)
    BY DEF ListsDoublyLinked
  <2>1. mem \in Memory /\ ListOK(mem, c, Members(mem, c)) /\ Members(mem, c) \in SUBSET Addr
    BY <1>1, IteratorInList, InOrderFacts DEF SweepInv, InOrder, Lists
  <2>2. \A a \in Members(mem, c) : NextOf(mem)[a] = mem.node[a].next
    BY <2>1, NextOfTypes
  <2>3. Chain(NextOf(mem), mem.head[c], Members(mem, c)) /\ Doubly(mem, c, Members(mem, c))
    BY <2>1 DEF ListOK
  <2>4. \A a \in Members(mem, c) :
           /\ mem.node[a].prev = NULL <=> mem.head[c] = a
           /\ mem.node[a].prev # NULL => mem.node[mem.node[a].prev].next = a
    BY <2>3 DEF Doubly
  <2> QED
    BY <2>2, <2>3, <2>4 DEF Chain, ListFrom
<1> QED
  BY <1>1, SweepInvariance, PTL

THEOREM ClosedListSafety == Spec => []ClosedListExact
<1>1. ASSUME SweepInv
      PROVE  ClosedListExact
  <2>1. mem \in Memory /\ Chain(NextOf(mem), mem.closedHead, ClosedOf(mem)) /\ ClosedOf(mem) \in SUBSET Addr
    BY <1>1, InOrderFacts DEF SweepInv, InOrder, Lists
  <2>2. \A a \in ClosedOf(mem) : NextOf(mem)[a] = mem.node[a].next
    BY <2>1, NextOfTypes
  <2>3. ListFrom(mem, mem.closedHead) = ClosedOf(mem)
    BY <2>1 DEF Chain, ListFrom
  <2>4. \A a \in ClosedOf(mem) : a \notin ListFrom(mem, mem.node[a].next)
    BY <2>1, <2>2 DEF Chain, ListFrom
  <2> QED
    BY <2>3, <2>4 DEF ClosedListExact, ClosedOf
<1> QED
  BY <1>1, SweepInvariance, PTL

-----------------------------------------------------------------------------
(***************************************************************************)
(* No timeout is early, as long as the sweeps fit an unsigned short.       *)
(***************************************************************************)
\* What is left of a timeout is never less than what was asked for.
Patient(m) == \A a \in Addr : m.node[a].want <= m.node[a].timeout

LEMMA SweepsSuffice ==
  ASSUME NEW seconds \in Nat, seconds < 262142
  PROVE  seconds \div ASOCK_TIMEOUT_GRANULARITY <= TimeoutSweeps(seconds)
<1> DEFINE n == (2 * seconds + 4) \div 8
<1>1. n \in Nat /\ n < 65536 /\ seconds \div 4 <= n
  OBVIOUS
<1>2. TimeoutSweeps(seconds) =
        IF seconds = 0 THEN 0 ELSE IF n % 65536 = 0 THEN 1 ELSE n % 65536
  BY DEF TimeoutSweeps, ASOCK_TIMEOUT_GRANULARITY, USHORT_VALUES
<1>3. ASOCK_TIMEOUT_GRANULARITY = 4 /\ (seconds = 0 => seconds \div 4 = 0)
  BY DEF ASOCK_TIMEOUT_GRANULARITY
<1> HIDE DEF n
<1>4. n % 65536 = n
  BY <1>1
<1> QED
  BY <1>1, <1>2, <1>3, <1>4

LEMMA LinkPatient ==
  ASSUME NEW m \in Memory, Patient(m), NEW c \in Ctx, NEW x \in Addr
  PROVE  Patient(Link(m, c, x))
<1> SUFFICES ASSUME NEW a \in Addr
             PROVE  Link(m, c, x).node[a].want <= Link(m, c, x).node[a].timeout
  BY DEF Patient
<1>1. m.node[a] \in Node /\ m.node[x] \in Node /\ m.node[a].want <= m.node[a].timeout
  BY NodeTypes DEF Patient
<1> QED
  BY <1>1 DEF Link, Memory, Node

LEMMA UnlinkPatient ==
  ASSUME NEW m \in Memory, Patient(m), NEW x \in Addr
  PROVE  Patient(Unlink(m, x))
<1> SUFFICES ASSUME NEW a \in Addr
             PROVE  Unlink(m, x).node[a].want <= Unlink(m, x).node[a].timeout
  BY DEF Patient
<1>1. m.node[a] \in Node /\ m.node[a].want <= m.node[a].timeout
  BY NodeTypes DEF Patient
<1> QED
  BY <1>1 DEF Unlink, Memory, Node

LEMMA UnlinkInMemory ==
  ASSUME NEW m, InOrder(m), NEW x \in Linked(m)
  PROVE  Unlink(m, x) \in Memory
<1> DEFINE c == m.node[x].context
<1>1. Lists(m, MembersOf(m), ClosedOf(m)) /\ c \in Ctx /\ x \in MembersOf(m)[c]
  BY InOrderFacts DEF InOrder
<1> HIDE DEF c
<1>2. Lists(Unlink(m, x), Without(MembersOf(m), c, x), ClosedOf(m))
  BY <1>1, UnlinkKeeps
<1> QED
  BY <1>2 DEF Lists

LEMMA BuryPatient ==
  ASSUME NEW m \in Memory, Patient(m), NEW x \in Addr
  PROVE  Patient(Bury(m, x))
<1> SUFFICES ASSUME NEW a \in Addr
             PROVE  Bury(m, x).node[a].want <= Bury(m, x).node[a].timeout
  BY DEF Patient
<1>1. m.node[a] \in Node /\ m.node[a].want <= m.node[a].timeout
  BY NodeTypes DEF Patient
<1> QED
  BY <1>1 DEF Bury, Memory, Node

LEMMA RelocatePatient ==
  ASSUME NEW m \in Memory, Patient(m), NEW x \in Addr, NEW y \in Addr
  PROVE  Patient(Relocate(m, x, y))
<1> SUFFICES ASSUME NEW a \in Addr
             PROVE  Relocate(m, x, y).node[a].want <= Relocate(m, x, y).node[a].timeout
  BY DEF Patient
<1>1. /\ m.node[a].want <= m.node[a].timeout /\ m.node[x].want <= m.node[x].timeout
      /\ Unused.want <= Unused.timeout
  BY DEF Patient, Unused
<1>2. LET t == Relocate(m, x, y)
      IN  /\ t.node[y] = m.node[x]
          /\ x # y => t.node[x] = Unused
          /\ \A b \in Addr \ {x, y} : t.node[b] = m.node[b]
  BY RelocateWrites
<1> QED
  BY <1>1, <1>2

\* What a timeout was set to is at least what was asked for.
Bounded == \A seconds \in Seconds : seconds < 262142

LEMMA PatientNext ==
  ASSUME Bounded, SweepInv, Patient(mem), [Next]_vars
  PROVE  Patient(mem')
<1>1. mem \in Memory /\ InOrder(mem)
  BY DEF SweepInv, TypeOK
<1>2. ASSUME mem'.node = mem.node
      PROVE  Patient(mem')
  BY <1>2 DEF Patient
<1>3. ASSUME NEW a \in Addr, NEW c \in Ctx, CreateSocket(a, c)
      PROVE  Patient(mem')
  <2> DEFINE n == [mem EXCEPT !.node[a].used = TRUE]
  <2>1. n \in Memory /\ Patient(n)
    BY <1>1 DEF Memory, Node, Patient
  <2>2. mem' = Link(n, c, a)
    BY <1>3 DEF CreateSocket
  <2> HIDE DEF n
  <2> QED
    BY <2>1, <2>2, LinkPatient
<1>4. ASSUME NEW t \in Addr, CloseSocket(t)
      PROVE  Patient(mem')
  <2> DEFINE u == Unlink(mem, t)
  <2>1. t \in Linked(mem) /\ mem' = Bury(u, t)
    BY <1>4 DEF CloseSocket
  <2>2. u \in Memory
    BY <1>1, <2>1, UnlinkInMemory
  <2>3. Patient(u)
    BY <1>1, UnlinkPatient
  <2> HIDE DEF u
  <2> QED
    BY <2>1, <2>2, <2>3, BuryPatient
<1>5. ASSUME NEW t \in Addr, NEW seconds \in Seconds, SetTimeout(t, seconds)
      PROVE  Patient(mem')
  <2> DEFINE sweeps == TimeoutSweeps(seconds)
             want == seconds \div ASOCK_TIMEOUT_GRANULARITY
  <2>1. sweeps \in Nat /\ want \in Nat /\ want <= sweeps
    BY SecondsAssumption, SweepsTypes, SweepsSuffice DEF Bounded
  <2>2. mem' = Counted(mem, t, sweeps, want)
    BY <1>5 DEF SetTimeout, Counted
  <2> HIDE DEF sweeps, want
  <2>3. /\ mem'.node[t].timeout = sweeps /\ mem'.node[t].want = want
        /\ \A a \in Addr \ {t} : mem'.node[a] = mem.node[a]
    BY <1>1, <2>1, <2>2, CountWrites
  <2> QED
    BY <2>1, <2>3 DEF Patient
<1>6. ASSUME NEW t \in Addr, NEW n \in Addr, NEW c \in Ctx, AdoptSocket(t, n, c)
      PROVE  Patient(mem')
  <2> DEFINE u == Unlink(mem, t)
             r == Relocate(u, t, n)
  <2>1. t \in Linked(mem) /\ mem' = Link(r, c, n)
    BY <1>6 DEF AdoptSocket
  <2>2. u \in Memory /\ Patient(u)
    BY <1>1, <2>1, UnlinkInMemory, UnlinkPatient
  <2> HIDE DEF u
  <2>3. r \in Memory /\ Patient(r)
    BY <2>2, RelocateWrites, RelocatePatient
  <2> HIDE DEF r
  <2> QED
    BY <2>1, <2>3, LinkPatient
<1>7. ASSUME FreeClosed
      PROVE  Patient(mem')
  <2>1. \A a \in Addr : mem'.node[a] \in {mem.node[a], Unused}
    BY <1>1, <1>7 DEF FreeClosed, Memory
  <2>2. Unused.want <= Unused.timeout
    BY DEF Unused
  <2> QED
    BY <2>1, <2>2 DEF Patient
<1>8. ASSUME PassSocket \/ TimeOut
      PROVE  Patient(mem')
  <2> DEFINE t == Elapse(Iterator)
  <2>1. mem'.node = t.node /\ Iterator # NULL /\ phase = "sweep"
    <3>1. CASE PassSocket
      <4>1. mem' = [t EXCEPT !.iterator[context] = mem.node[Iterator].next]
        BY <3>1 DEF PassSocket
      <4>2. t \in Memory
        BY <1>1, <3>1, WalkFacts, ElapseWrites DEF PassSocket
      <4> HIDE DEF t
      <4> QED
        BY <3>1, <4>1, <4>2 DEF PassSocket, Memory
    <3>2. CASE TimeOut
      BY <3>2 DEF TimeOut
    <3> QED
      BY <1>8, <3>1, <3>2
  <2>2. Iterator \in Addr
    BY <2>1, WalkFacts
  <2>3. /\ t.node[Iterator].timeout = (IF mem.node[Iterator].timeout = 0 THEN 0
                                       ELSE mem.node[Iterator].timeout - 1)
        /\ t.node[Iterator].want = (IF mem.node[Iterator].want = 0 THEN 0
                                    ELSE mem.node[Iterator].want - 1)
        /\ \A a \in Addr \ {Iterator} : t.node[a] = mem.node[a]
    BY <1>1, <2>2, ElapseWrites
  <2>4. /\ mem.node[Iterator].timeout \in Nat /\ mem.node[Iterator].want \in Nat
        /\ mem.node[Iterator].want <= mem.node[Iterator].timeout
    BY <1>1, <2>2, NodeTypes DEF Node, Patient
  <2> HIDE DEF t
  <2> QED
    BY <2>1, <2>2, <2>3, <2>4 DEF Patient
<1>9. CASE App
  <2>1. ASSUME NEW c \in Ctx, CreateContext(c)
        PROVE  mem'.node = mem.node
    BY <1>1, <2>1 DEF CreateContext, Memory
  <2> QED
    BY <1>2, <1>3, <1>4, <1>5, <1>6, <1>9, <2>1 DEF App
<1>10. CASE StartSweep \/ NextContext \/ TimeOutReturns \/ UNCHANGED vars
  <2>1. mem'.node = mem.node
    BY <1>1, <1>10 DEF StartSweep, NextContext, Enter, TimeOutReturns, vars, Memory
  <2> QED
    BY <1>2, <2>1
<1> QED
  BY <1>7, <1>8, <1>9, <1>10 DEF Next, Sweep

\* As long as no timeout of 262142 seconds or more is set, no socket times out
\* before the sweeps it asked for have passed.
THEOREM NoEarlyTimeout ==
  ASSUME Bounded
  PROVE  Spec => TimeoutNotEarly
<1> DEFINE PatientInv == SweepInv /\ Patient(mem)
<1>1. Init => PatientInv
  BY SweepInit DEF Init, NoSockets, Unused, Patient
<1>2. PatientInv /\ [Next]_vars => PatientInv'
  BY SweepNext, PatientNext
<1>3. PatientInv => [TimeOut => mem.node[s'].want <= 1]_vars
  <2> SUFFICES ASSUME PatientInv, TimeOut
               PROVE  mem.node[s'].want <= 1
    OBVIOUS
  <2>1. Iterator \in Addr /\ s' = Iterator /\ mem.node[Iterator].timeout = 1
    BY WalkFacts DEF TimeOut
  <2> QED
    BY <2>1 DEF Patient
<1> QED
  BY <1>1, <1>2, <1>3, PTL DEF Spec, TimeoutNotEarly

-----------------------------------------------------------------------------
(***************************************************************************)
(* The walk implements TimeoutSpec.  What calls do to the timeouts, to who *)
(* is in which list, and to what is left of a walk.                        *)
(***************************************************************************)
LEMMA MembershipIs ==
  ASSUME NEW m, InOrder(m), NEW a \in Addr
  PROVE  /\ \A c \in Ctx : a \in MembersOf(m)[c] =>
              Membership(m)[a] = c /\ SweepsLeft(m)[a] = m.node[a].timeout /\ a \in Linked(m)
         /\ (\A c \in Ctx : a \notin MembersOf(m)[c]) =>
              Membership(m)[a] = NULL /\ SweepsLeft(m)[a] = 0 /\ a \notin Linked(m)
<1>1. \A c \in Ctx : MembersOf(m)[c] = Members(m, c)
  BY DEF MembersOf
<1>2. a \in Linked(m) => m.node[a].context \in Ctx
  BY InOrderFacts
<1> QED
  BY <1>1, <1>2 DEF Membership, SweepsLeft, Members

\* Where the walk is: in a list of contexts that ends, and behind the socket whose
\* handler is running, unless that one still is where it was.
WalkInv ==
  /\ Chain(contexts.next, contexts.head, Created)
  /\ phase = "idle" <=> context = NULL
  /\ phase # "idle" => context \in Created
  /\ phase = "handler" => Iterator = s \/ s \notin Tail(mem, context)

TimeoutStep == [Timeouts!TimeoutNext]_(Timeouts!tsVars)

\* The mapping, for the proofs below.
LEMMA Mapping ==
  /\ (/\ Created' = Created /\ Membership(mem') = Membership(mem)
      /\ SweepsLeft(mem') = SweepsLeft(mem)
      /\ UNCHANGED <<phase, context, ContextsLeft, Unvisited>>) => TimeoutStep
  /\ Timeouts!TimeoutNext => TimeoutStep
BY DEF TimeoutStep, Timeouts!tsVars

LEMMA UnvisitedIs ==
  Unvisited = IF context = NULL THEN {}
              ELSE Tail(mem, context) \ (IF phase = "handler" THEN {s} ELSE {})
BY DEF Unvisited, Tail, Iterator

\* The application changes lists the walk does not stand in, ...
LEMMA WalkUntouched ==
  ASSUME SweepInv, WalkInv, UNCHANGED <<phase, contexts, context, s>>, SameWalks(mem, mem')
  PROVE  WalkInv' /\ Created' = Created /\ UNCHANGED <<ContextsLeft, Unvisited>>
<1>1. Created' = Created /\ ContextsLeft' = ContextsLeft
  BY DEF Created, ContextsLeft
<1>2. phase # "idle" => context \in Ctx /\ context # NULL
  BY ListAssumption DEF SweepInv
<1>3. phase # "idle" => Iterator' = Iterator /\ Tail(mem', context) = Tail(mem, context)
  BY <1>2 DEF SameWalks, Iterator
<1>4. WalkInv'
  BY <1>1, <1>3 DEF WalkInv
<1>5. Unvisited' = IF context' = NULL THEN {}
                   ELSE Tail(mem', context') \ (IF phase' = "handler" THEN {s'} ELSE {})
  BY DEF Unvisited, Tail, Iterator
<1>6. Unvisited' = Unvisited
  BY <1>3, <1>5, UnvisitedIs DEF WalkInv
<1> QED
  BY <1>1, <1>4, <1>6

\* ... or takes a socket out of its way.
LEMMA WalkLeft ==
  ASSUME SweepInv, WalkInv, UNCHANGED <<phase, contexts, context, s>>,
         NEW x \in Addr, LeavesWalks(mem, mem', x)
  PROVE  /\ WalkInv' /\ Created' = Created /\ ContextsLeft' = ContextsLeft
         /\ Unvisited' = Unvisited \ {x}
<1>1. Created' = Created /\ ContextsLeft' = ContextsLeft
  BY DEF Created, ContextsLeft
<1>2. phase # "idle" => context \in Ctx /\ context # NULL
  BY ListAssumption DEF SweepInv
<1>3. phase # "idle" => /\ Iterator # x => Iterator' = Iterator
                        /\ Tail(mem', context) = Tail(mem, context) \ {x}
  BY <1>2 DEF LeavesWalks, Iterator
<1>4. phase = "handler" => Iterator' = s \/ s \notin Tail(mem', context)
  BY <1>3 DEF WalkInv
<1>5. WalkInv'
  BY <1>1, <1>4 DEF WalkInv
<1>6. Unvisited' = IF context' = NULL THEN {}
                   ELSE Tail(mem', context') \ (IF phase' = "handler" THEN {s'} ELSE {})
  BY DEF Unvisited, Tail, Iterator
<1>7. Unvisited' = Unvisited \ {x}
  BY <1>3, <1>6, UnvisitedIs DEF WalkInv
<1> QED
  BY <1>1, <1>5, <1>7

\* A socket that stays in its list with its timeout.
LEMMA MembershipKept ==
  ASSUME NEW m, InOrder(m), NEW t, InOrder(t), NEW a \in Addr,
         \A c \in Ctx : a \in MembersOf(t)[c] <=> a \in MembersOf(m)[c],
         a \in Linked(m) => t.node[a].timeout = m.node[a].timeout
  PROVE  Membership(t)[a] = Membership(m)[a] /\ SweepsLeft(t)[a] = SweepsLeft(m)[a]
<1>1. CASE \E c \in Ctx : a \in MembersOf(m)[c]
  BY <1>1, MembershipIs
<1>2. CASE \A c \in Ctx : a \notin MembersOf(m)[c]
  BY <1>2, MembershipIs
<1> QED
  BY <1>1, <1>2

LEMMA MembershipTypes ==
  ASSUME NEW m, NEW t
  PROVE  /\ (\A a \in Addr : Membership(t)[a] = Membership(m)[a]) => Membership(t) = Membership(m)
         /\ (\A a \in Addr : SweepsLeft(t)[a] = SweepsLeft(m)[a]) => SweepsLeft(t) = SweepsLeft(m)
         /\ DOMAIN Membership(m) = Addr /\ DOMAIN SweepsLeft(m) = Addr
BY DEF Membership, SweepsLeft

LEMMA CreateContextTimes ==
  ASSUME SweepInv, WalkInv, NEW c \in Ctx, CreateContext(c)
  PROVE  WalkInv' /\ TimeoutStep
<1>1. /\ mem' = mem /\ c \notin Created /\ Created' = {c} \cup Created
      /\ contexts'.head = c /\ contexts'.next[c] = contexts.head
      /\ \A d \in Ctx \ {c} : contexts'.next[d] = contexts.next[d]
      /\ contexts'.next \in Pointers(Ctx) /\ UNCHANGED <<phase, context, s>>
  BY CreateContextWrites DEF CreateContext
<1>2. /\ contexts.next \in Pointers(Ctx) /\ contexts.head \in Ctx \cup {NULL}
      /\ NULL \notin Ctx /\ Created \subseteq Ctx
  BY CreatedTypes DEF SweepInv
<1>3. Chain(contexts'.next, contexts'.head, Created')
  <2> DEFINE next == contexts.next
             then == contexts'.next
             p == contexts.head
             C == Created
  <2>1. /\ next \in Pointers(Ctx) /\ then \in Pointers(Ctx) /\ p \in Ctx \cup {NULL}
        /\ Chain(next, p, C) /\ c \in Ctx \ C /\ then[c] = p /\ NULL \notin Ctx
        /\ \A a \in C : then[a] = next[a]
    BY <1>1, <1>2 DEF WalkInv
  <2> HIDE DEF next, then, p, C
  <2>2. Chain(then, c, C \cup {c})
    BY <2>1, ChainPush
  <2>3. C \cup {c} = Created'
    BY <1>1 DEF C
  <2> QED
    BY <1>1, <2>2, <2>3 DEF then
<1>4. ContextsLeft' = ContextsLeft
  <2>1. CASE context = NULL
    BY <1>1, <2>1 DEF ContextsLeft
  <2>2. CASE context # NULL
    <3> DEFINE next == contexts.next
               then == contexts'.next
               p == next[context]
    <3>1. context \in Created
      BY <2>2 DEF WalkInv
    <3>2. /\ next \in Pointers(Ctx) /\ then \in Pointers(Ctx) /\ NULL \notin Ctx
          /\ Chain(next, contexts.head, Created)
      BY <1>1, <1>2 DEF WalkInv
    <3>3. p \in Ctx \cup {NULL} /\ From(next, p) \subseteq Created
      BY <1>2, <3>1, <3>2, ChainTypes
    <3>4. \A a \in From(next, p) : then[a] = next[a]
      BY <1>1, <1>2, <3>3
    <3>5. then[context] = p /\ context \in Ctx
      BY <1>1, <1>2, <3>1
    <3> HIDE DEF next, then, p
    <3>6. From(then, p) = From(next, p)
      BY <3>2, <3>3, <3>4, FromFrame
    <3>7. ContextsLeft = From(next, p) /\ ContextsLeft' = From(then, then[context])
      BY <1>1, <2>2 DEF ContextsLeft, next, then, p
    <3> QED
      BY <3>5, <3>6, <3>7
  <2> QED
    BY <2>1, <2>2
<1>5. Iterator' = Iterator /\ Unvisited' = Unvisited
  BY <1>1 DEF Iterator, Unvisited
<1>6. WalkInv'
  BY <1>1, <1>3, <1>5 DEF WalkInv
<1>7. Timeouts!NewContext(c)
  <2>1. context = NULL \/ phase = "handler"
    BY DEF CreateContext, AppRuns, WalkInv, SweepInv, TypeOK
  <2> QED
    BY <1>1, <1>4, <1>5, <2>1 DEF Timeouts!NewContext, Timeouts!AppRuns
<1> QED
  BY <1>6, <1>7, Mapping DEF Timeouts!TimeoutNext

LEMMA AppNow ==
  ASSUME SweepInv, WalkInv, AppRuns
  PROVE  Timeouts!AppRuns
BY DEF AppRuns, Timeouts!AppRuns, WalkInv, SweepInv, TypeOK

LEMMA CreateSocketTimes ==
  ASSUME SweepInv, WalkInv, NEW a \in Addr, NEW c \in Ctx, CreateSocket(a, c)
  PROVE  WalkInv' /\ TimeoutStep
<1> DEFINE in == MembersOf(mem)
           into == MembersOf(mem')
<1>1. /\ InOrder(mem) /\ ~mem.node[a].used /\ c \in Created /\ AppRuns
      /\ UNCHANGED <<phase, contexts, context, s>>
  BY DEF SweepInv, CreateSocket
<1>2. /\ InOrder(mem') /\ into = With(in, c, a) /\ SameWalks(mem, mem')
      /\ \A b \in Addr : mem'.node[b].timeout = IF b = a THEN 0 ELSE mem.node[b].timeout
  BY <1>1, CreateKeeps DEF CreateSocket
<1>3. /\ in \in [Ctx -> SUBSET Addr] /\ \A d \in Ctx : a \notin in[d]
  BY <1>1, InOrderFacts
<1>4. into[c] = in[c] \cup {a} /\ \A d \in Ctx \ {c} : into[d] = in[d]
  BY <1>2, <1>3 DEF With
<1>5. WalkInv' /\ Created' = Created /\ UNCHANGED <<ContextsLeft, Unvisited>>
  BY <1>1, <1>2, WalkUntouched
<1>6. Membership(mem)[a] = NULL /\ SweepsLeft(mem)[a] = 0
  BY <1>1, <1>3, MembershipIs
<1>7. Membership(mem')[a] = c /\ SweepsLeft(mem')[a] = 0
  BY <1>2, <1>4, MembershipIs
<1>8. ASSUME NEW b \in Addr \ {a}
      PROVE  Membership(mem')[b] = Membership(mem)[b] /\ SweepsLeft(mem')[b] = SweepsLeft(mem)[b]
  <2>1. \A d \in Ctx : b \in into[d] <=> b \in in[d]
    BY <1>4
  <2> QED
    BY <1>1, <1>2, <2>1, MembershipKept
<1> HIDE DEF in, into
<1>9. SweepsLeft(mem') = SweepsLeft(mem)
  BY <1>6, <1>7, <1>8, MembershipTypes
<1>10. Membership(mem') = [Membership(mem) EXCEPT ![a] = c]
  BY <1>7, <1>8 DEF Membership
<1>11. Timeouts!Arrive(a, c)
  BY <1>1, <1>5, <1>6, <1>9, <1>10, AppNow DEF Timeouts!Arrive, Timeouts!Open
<1> QED
  BY <1>5, <1>11, Mapping DEF Timeouts!TimeoutNext

LEMMA SweepsFit ==
  ASSUME NEW seconds \in Nat
  PROVE  TimeoutSweeps(seconds) < 65536
<1> DEFINE n == (2 * seconds + 4) \div 8
<1>1. n \in Nat
  OBVIOUS
<1>2. TimeoutSweeps(seconds) =
        IF seconds = 0 THEN 0 ELSE IF n % 65536 = 0 THEN 1 ELSE n % 65536
  BY DEF TimeoutSweeps, ASOCK_TIMEOUT_GRANULARITY, USHORT_VALUES
<1> HIDE DEF n
<1>3. n % 65536 < 65536
  BY <1>1
<1> QED
  BY <1>2, <1>3

LEMMA SetTimeoutTimes ==
  ASSUME SweepInv, WalkInv, NEW t \in Addr, NEW seconds \in Seconds, SetTimeout(t, seconds)
  PROVE  WalkInv' /\ TimeoutStep
<1> DEFINE sweeps == TimeoutSweeps(seconds)
           want == seconds \div ASOCK_TIMEOUT_GRANULARITY
<1>1. /\ InOrder(mem) /\ mem \in Memory /\ t \in Linked(mem) /\ AppRuns
      /\ UNCHANGED <<phase, contexts, context, s>>
  BY DEF SweepInv, TypeOK, SetTimeout
<1>2. sweeps \in Nat /\ want \in Nat /\ sweeps < 65536
  BY SecondsAssumption, SweepsTypes, SweepsFit
<1>3. mem' = Counted(mem, t, sweeps, want)
  BY DEF SetTimeout, Counted
<1> HIDE DEF sweeps, want
<1>4. /\ mem' \in Memory /\ mem'.head = mem.head /\ mem'.iterator = mem.iterator
      /\ mem'.closedHead = mem.closedHead
      /\ \A a \in Addr : /\ mem'.node[a].next = mem.node[a].next
                         /\ mem'.node[a].prev = mem.node[a].prev
                         /\ mem'.node[a].context = mem.node[a].context
                         /\ mem'.node[a].used = mem.node[a].used
      /\ mem'.node[t].timeout = sweeps /\ mem'.node[t].want = want
      /\ \A a \in Addr \ {t} : mem'.node[a] = mem.node[a]
  BY <1>1, <1>2, <1>3, CountWrites
<1>5. \A c \in Ctx : mem'.iterator[c] \in MembersOf(mem)[c] \cup {NULL}
  BY <1>1, <1>4, IteratorInList
<1>6. InOrder(mem') /\ MembersOf(mem') = MembersOf(mem)
  BY <1>1, <1>4, <1>5, LinksUntouched
<1>7. SameWalks(mem, mem')
  <2>1. Lists(mem, MembersOf(mem), ClosedOf(mem)) /\ MembersOf(mem) \in [Ctx -> SUBSET Addr]
    BY <1>1, InOrderFacts DEF InOrder
  <2>2. \A c \in Ctx : \A a \in MembersOf(mem)[c] : mem'.node[a].next = mem.node[a].next
    BY <1>4, <2>1
  <2> QED
    BY <1>4, <2>1, <2>2, WalksFrame
<1>8. WalkInv' /\ Created' = Created /\ UNCHANGED <<ContextsLeft, Unvisited>>
  BY <1>1, <1>7, WalkUntouched
<1>9. \E d \in Ctx : t \in MembersOf(mem)[d]
  BY <1>1, InOrderFacts
<1>10. Membership(mem)[t] # NULL /\ SweepsLeft(mem')[t] = sweeps
       /\ Membership(mem')[t] = Membership(mem)[t]
  BY <1>1, <1>4, <1>6, <1>9, MembershipIs, ListAssumption
<1>11. ASSUME NEW b \in Addr \ {t}
       PROVE  Membership(mem')[b] = Membership(mem)[b] /\ SweepsLeft(mem')[b] = SweepsLeft(mem)[b]
  BY <1>1, <1>4, <1>6, MembershipKept
<1>12. Membership(mem') = Membership(mem)
  BY <1>10, <1>11, MembershipTypes
<1>13. Timeouts!Arm(t)
  BY <1>1, <1>2, <1>8, <1>10, <1>11, <1>12, AppNow DEF Timeouts!Arm, Timeouts!Open
<1> QED
  BY <1>8, <1>13, Mapping DEF Timeouts!TimeoutNext

LEMMA CloseSocketTimes ==
  ASSUME SweepInv, WalkInv, NEW t \in Addr, CloseSocket(t)
  PROVE  WalkInv' /\ TimeoutStep
<1> DEFINE in == MembersOf(mem)
           into == MembersOf(mem')
           c == mem.node[t].context
<1>1. /\ InOrder(mem) /\ t \in Linked(mem) /\ AppRuns
      /\ UNCHANGED <<phase, contexts, context, s>>
  BY DEF SweepInv, CloseSocket
<1>2. /\ InOrder(mem') /\ c \in Ctx /\ into = Without(in, c, t) /\ LeavesWalks(mem, mem', t)
      /\ \A b \in Addr : mem'.node[b].timeout = mem.node[b].timeout
  BY <1>1, CloseKeeps DEF CloseSocket
<1>3. /\ in \in [Ctx -> SUBSET Addr] /\ t \in in[c]
      /\ \A d \in Ctx : t \in in[d] => d = c
  BY <1>1, InOrderFacts
<1> HIDE DEF c
<1>4. into[c] = in[c] \ {t} /\ \A d \in Ctx \ {c} : into[d] = in[d]
  BY <1>2, <1>3 DEF Without
<1>5. WalkInv' /\ Created' = Created /\ ContextsLeft' = ContextsLeft /\ Unvisited' = Unvisited \ {t}
  BY <1>1, <1>2, WalkLeft
<1>6. Membership(mem)[t] # NULL
  BY <1>1, <1>2, <1>3, MembershipIs, ListAssumption
<1>7. Membership(mem')[t] = NULL /\ SweepsLeft(mem')[t] = 0
  <2>1. \A d \in Ctx : t \notin into[d]
    BY <1>3, <1>4
  <2> QED
    BY <1>2, <2>1, MembershipIs
<1>8. ASSUME NEW b \in Addr \ {t}
      PROVE  Membership(mem')[b] = Membership(mem)[b] /\ SweepsLeft(mem')[b] = SweepsLeft(mem)[b]
  <2>1. \A d \in Ctx : b \in into[d] <=> b \in in[d]
    BY <1>4
  <2> QED
    BY <1>1, <1>2, <2>1, MembershipKept
<1> HIDE DEF in, into
<1>9. Membership(mem') = [Membership(mem) EXCEPT ![t] = NULL]
  BY <1>7, <1>8 DEF Membership
<1>10. SweepsLeft(mem') = [SweepsLeft(mem) EXCEPT ![t] = 0]
  BY <1>7, <1>8 DEF SweepsLeft
<1>11. Timeouts!Leave(t)
  BY <1>1, <1>5, <1>6, <1>9, <1>10, AppNow DEF Timeouts!Leave, Timeouts!Open
<1> QED
  BY <1>5, <1>11, Mapping DEF Timeouts!TimeoutNext

LEMMA AdoptSocketTimes ==
  ASSUME SweepInv, WalkInv, NEW t \in Addr, NEW n \in Addr, NEW c \in Ctx, AdoptSocket(t, n, c)
  PROVE  WalkInv' /\ TimeoutStep
<1> DEFINE in == MembersOf(mem)
           from == mem.node[t].context
           out == Without(in, from, t)
           into == MembersOf(mem')
<1>1. /\ InOrder(mem) /\ t \in Linked(mem) /\ AppRuns /\ c \in Created
      /\ n = t \/ ~mem.node[n].used
      /\ UNCHANGED <<phase, contexts, context, s>>
  BY DEF SweepInv, AdoptSocket
<1>2. /\ InOrder(mem') /\ into = With(out, c, n)
      /\ LeavesWalks(mem, mem', t) /\ mem'.node[n].timeout = 0
      /\ \A b \in Addr \ {t, n} : mem'.node[b].timeout = mem.node[b].timeout
  BY <1>1, AdoptKeeps DEF AdoptSocket
<1>3. /\ in \in [Ctx -> SUBSET Addr] /\ from \in Ctx /\ t \in in[from]
      /\ \A d \in Ctx : t \in in[d] => d = from
      /\ n # t => \A d \in Ctx : n \notin in[d]
  BY <1>1, InOrderFacts
<1> HIDE DEF from
<1>4. out[from] = in[from] \ {t} /\ (\A d \in Ctx \ {from} : out[d] = in[d])
      /\ out \in [Ctx -> SUBSET Addr]
  BY <1>3 DEF Without
<1> HIDE DEF out
<1>5. into[c] = out[c] \cup {n} /\ \A d \in Ctx \ {c} : into[d] = out[d]
  BY <1>2, <1>4 DEF With
<1>6. WalkInv' /\ Created' = Created /\ ContextsLeft' = ContextsLeft /\ Unvisited' = Unvisited \ {t}
  BY <1>1, <1>2, WalkLeft
<1>7. Membership(mem)[t] # NULL /\ (n # t => Membership(mem)[n] = NULL /\ SweepsLeft(mem)[n] = 0)
  BY <1>1, <1>3, MembershipIs, ListAssumption
<1>8. Membership(mem')[n] = c /\ SweepsLeft(mem')[n] = 0
  BY <1>2, <1>5, MembershipIs
<1>9. n # t => Membership(mem')[t] = NULL /\ SweepsLeft(mem')[t] = 0
  <2>1. n # t => \A d \in Ctx : t \notin into[d]
    BY <1>3, <1>4, <1>5
  <2> QED
    BY <1>2, <2>1, MembershipIs
<1>10. ASSUME NEW b \in Addr \ {t, n}
       PROVE  Membership(mem')[b] = Membership(mem)[b] /\ SweepsLeft(mem')[b] = SweepsLeft(mem)[b]
  <2>1. \A d \in Ctx : b \in into[d] <=> b \in in[d]
    BY <1>4, <1>5
  <2> QED
    BY <1>1, <1>2, <2>1, MembershipKept
<1> HIDE DEF in, into
<1>11. Membership(mem') = [b \in Addr |-> IF b = n THEN c ELSE IF b = t THEN NULL
                                          ELSE Membership(mem)[b]]
  BY <1>8, <1>9, <1>10 DEF Membership
<1>12. SweepsLeft(mem') = [SweepsLeft(mem) EXCEPT ![t] = 0]
  <2>1. \A b \in Addr : SweepsLeft(mem')[b] = IF b = t THEN 0 ELSE SweepsLeft(mem)[b]
    BY <1>7, <1>8, <1>9, <1>10
  <2> QED
    BY <2>1 DEF SweepsLeft
<1>13. Timeouts!Move(t, n, c)
  BY <1>1, <1>6, <1>7, <1>11, <1>12, AppNow DEF Timeouts!Move, Timeouts!Open
<1> QED
  BY <1>6, <1>13, Mapping DEF Timeouts!TimeoutNext

LEMMA FreeClosedTimes ==
  ASSUME SweepInv, WalkInv, FreeClosed
  PROVE  WalkInv' /\ TimeoutStep
<1> DEFINE gone == ListFrom(mem, mem.closedHead)
<1>1. InOrder(mem) /\ UNCHANGED <<phase, contexts, context, s>>
  BY DEF SweepInv, FreeClosed
<1>2. /\ InOrder(mem') /\ MembersOf(mem') = MembersOf(mem) /\ gone = ClosedOf(mem)
      /\ \A a \in Addr \ gone : mem'.node[a].timeout = mem.node[a].timeout
      /\ SameWalks(mem, mem')
  BY <1>1, FreeKeeps DEF FreeClosed
<1>3. \A a \in Linked(mem) : a \in Addr \ gone
  BY <1>2 DEF Linked, ClosedOf
<1> HIDE DEF gone
<1>4. WalkInv' /\ Created' = Created /\ UNCHANGED <<ContextsLeft, Unvisited>>
  BY <1>1, <1>2, WalkUntouched
<1>5. ASSUME NEW b \in Addr
      PROVE  Membership(mem')[b] = Membership(mem)[b] /\ SweepsLeft(mem')[b] = SweepsLeft(mem)[b]
  BY <1>1, <1>2, <1>3, MembershipKept
<1>6. Membership(mem') = Membership(mem) /\ SweepsLeft(mem') = SweepsLeft(mem)
  BY <1>5, MembershipTypes
<1> QED
  BY <1>1, <1>4, <1>6, Mapping

\* The walk changes neither lists nor, but for one socket, timeouts.
LEMMA ListsKept ==
  ASSUME SweepInv, SweepInv', NEW x,
         \A a \in Addr : /\ mem'.node[a].prev = mem.node[a].prev
                         /\ mem'.node[a].context = mem.node[a].context
                         /\ mem'.node[a].used = mem.node[a].used
                         /\ a # x => mem'.node[a].timeout = mem.node[a].timeout
  PROVE  /\ Membership(mem') = Membership(mem)
         /\ \A a \in Addr \ {x} : SweepsLeft(mem')[a] = SweepsLeft(mem)[a]
<1>1. Linked(mem') = Linked(mem)
  BY DEF Linked, IsClosed
<1> QED
  BY <1>1 DEF Membership, SweepsLeft

\* The sweep takes up context c, or ends.
LEMMA EnterTimes ==
  ASSUME SweepInv, WalkInv, phase # "handler", NEW c \in Created \cup {NULL}, Enter(c)
  PROVE  /\ WalkInv' /\ Created' = Created
         /\ Membership(mem') = Membership(mem) /\ SweepsLeft(mem') = SweepsLeft(mem)
         /\ phase' # "handler" /\ context' = c
         /\ IF c = NULL THEN ContextsLeft' = {} /\ Unvisited' = {}
            ELSE /\ Unvisited' = {a \in Addr : Membership(mem)[a] = c}
                 /\ ContextsLeft' = From(contexts.next, contexts.next[c])
<1>1. /\ InOrder(mem) /\ mem \in Memory /\ NULL \notin Ctx /\ Created \subseteq Ctx
      /\ c \in Ctx \cup {NULL}
  BY CreatedTypes DEF SweepInv, TypeOK
<1>2. /\ context' = c /\ phase' = (IF c = NULL THEN "idle" ELSE "sweep") /\ UNCHANGED <<contexts, s>>
      /\ Created' = Created
  BY DEF Enter, Created
<1>3. mem'.node = mem.node /\ SweepInv'
  BY <1>1, EnterSafe DEF Enter, Memory
<1>4. /\ Membership(mem') = Membership(mem)
      /\ \A a \in Addr \ {NULL} : SweepsLeft(mem')[a] = SweepsLeft(mem)[a]
  BY <1>3, ListsKept
<1>5. SweepsLeft(mem') = SweepsLeft(mem)
  BY <1>4, MembershipTypes, ListAssumption
<1>6. WalkInv'
  BY <1>2 DEF WalkInv
<1>7. CASE c = NULL
  BY <1>2, <1>4, <1>5, <1>6, <1>7 DEF ContextsLeft, Unvisited
<1>8. CASE c # NULL
  <2>1. c \in Ctx
    BY <1>1, <1>8
  <2>2. Unvisited' = ListFrom(mem', mem'.iterator[c]) /\ mem'.iterator[c] = mem.head[c]
    BY <1>1, <1>2, <1>8, <2>1 DEF Unvisited, Iterator, Enter, Memory
  <2>3. NextOf(mem') = NextOf(mem)
    BY <1>3 DEF NextOf
  <2>4. ListFrom(mem', mem.head[c]) = MembersOf(mem)[c]
    BY <1>1, <2>1, <2>3 DEF ListFrom, InOrder, Lists, ListOK, Chain
  <2>5. \A a \in Addr : a \in MembersOf(mem)[c] <=> Membership(mem)[a] = c
    BY <1>1, <2>1, MembershipIs
  <2>6. MembersOf(mem)[c] \in SUBSET Addr
    BY <1>1, <2>1, InOrderFacts
  <2>7. Unvisited' = {a \in Addr : Membership(mem)[a] = c}
    BY <2>2, <2>4, <2>5, <2>6
  <2>8. ContextsLeft' = From(contexts.next, contexts.next[c])
    BY <1>2, <1>8 DEF ContextsLeft
  <2> QED
    BY <1>2, <1>4, <1>5, <1>6, <1>8, <2>7, <2>8
<1> QED
  BY <1>7, <1>8

\* What comes after a context in the list of contexts.
LEMMA ContextsAfter ==
  ASSUME SweepInv, WalkInv, NEW c \in Created
  PROVE  LET d == contexts.next[c]
         IN  /\ d \in Created \cup {NULL} /\ c \notin From(contexts.next, d)
             /\ From(contexts.next, c) = {c} \cup From(contexts.next, d)
<1> DEFINE next == contexts.next
           p == contexts.head
           C == Created
<1>1. /\ NULL \notin Ctx /\ next \in Pointers(Ctx) /\ p \in Ctx \cup {NULL} /\ Chain(next, p, C)
      /\ C \subseteq Ctx /\ c \in C
  BY CreatedTypes DEF SweepInv, WalkInv
<1> HIDE DEF next, p, C
<1>2. next[c] \in C \cup {NULL} /\ c \notin From(next, next[c])
  BY <1>1, ChainTypes DEF Chain
<1>3. From(next, c) = {c} \cup From(next, next[c])
  BY <1>1, FromStep
<1> QED
  BY <1>2, <1>3 DEF next, C

LEMMA StartSweepTimes ==
  ASSUME SweepInv, WalkInv, StartSweep
  PROVE  WalkInv' /\ TimeoutStep
<1> DEFINE c == contexts.head
<1>1. phase = "idle" /\ c # NULL /\ Enter(c) /\ context = NULL
  BY DEF StartSweep, WalkInv
<1>2. c \in Created /\ Created = From(contexts.next, c)
  <2>1. contexts.head \in Created \cup {NULL}
    BY CreatedTypes, FromClosed DEF SweepInv, Created
  <2> QED
    BY <1>1, <2>1 DEF Created
<1>3. From(contexts.next, contexts.next[c]) = Created \ {c}
  BY <1>2, ContextsAfter
<1>4. /\ WalkInv' /\ Created' = Created
      /\ Membership(mem') = Membership(mem) /\ SweepsLeft(mem') = SweepsLeft(mem)
      /\ phase' # "handler" /\ context' = c /\ ContextsLeft' = Created \ {c}
      /\ Unvisited' = {a \in Addr : Membership(mem)[a] = c}
  BY <1>1, <1>2, <1>3, EnterTimes
<1>5. Timeouts!Turn(c)
  BY <1>4 DEF Timeouts!Turn, Timeouts!Members
<1>6. Timeouts!Begin
  BY <1>1, <1>2, <1>4, <1>5 DEF Timeouts!Begin
<1> QED
  BY <1>4, <1>6, Mapping DEF Timeouts!TimeoutNext

LEMMA NextContextTimes ==
  ASSUME SweepInv, WalkInv, NextContext
  PROVE  WalkInv' /\ TimeoutStep
<1> DEFINE c == contexts.next[context]
<1>1. phase = "sweep" /\ Iterator = NULL /\ Enter(c) /\ context # NULL /\ context \in Created
  BY DEF NextContext, WalkInv
<1>2. c \in Created \cup {NULL} /\ ContextsLeft = From(contexts.next, c)
  BY <1>1, ContextsAfter DEF ContextsLeft
<1>3. Unvisited = {}
  BY <1>1, FromNull DEF Unvisited, ListFrom
<1>4. /\ WalkInv' /\ Created' = Created
      /\ Membership(mem') = Membership(mem) /\ SweepsLeft(mem') = SweepsLeft(mem)
      /\ phase' # "handler" /\ context' = c
      /\ IF c = NULL THEN ContextsLeft' = {} /\ Unvisited' = {}
         ELSE /\ Unvisited' = {a \in Addr : Membership(mem)[a] = c}
              /\ ContextsLeft' = From(contexts.next, contexts.next[c])
  BY <1>1, <1>2, EnterTimes
<1>5. CASE c = NULL
  <2>1. ContextsLeft = {}
    BY <1>2, <1>5, FromNull
  <2>2. Timeouts!Continue
    BY <1>1, <1>3, <1>4, <1>5, <2>1 DEF Timeouts!Continue
  <2> QED
    BY <1>4, <2>2, Mapping DEF Timeouts!TimeoutNext
<1>6. CASE c # NULL
  <2>1. c \in ContextsLeft /\ ContextsLeft' = ContextsLeft \ {c}
    BY <1>2, <1>4, <1>6, ContextsAfter
  <2>2. Timeouts!Turn(c)
    BY <1>4, <1>6 DEF Timeouts!Turn, Timeouts!Members
  <2>3. Timeouts!Continue
    BY <1>1, <1>3, <1>4, <2>1, <2>2 DEF Timeouts!Continue
  <2> QED
    BY <1>4, <2>3, Mapping DEF Timeouts!TimeoutNext
<1> QED
  BY <1>5, <1>6

\* A socket of the walk, and what comes after it.
LEMMA SocketsAfter ==
  ASSUME SweepInv, phase # "idle", Iterator # NULL
  PROVE  LET n == mem.node[Iterator].next
         IN  /\ Iterator \in Addr /\ Iterator \in Tail(mem, context)
             /\ ListFrom(mem, n) = Tail(mem, context) \ {Iterator}
             /\ SweepsLeft(mem)[Iterator] = mem.node[Iterator].timeout
             /\ Iterator \in Linked(mem)
<1> DEFINE x == Iterator
           next == NextOf(mem)
           p == mem.head[context]
           M == MembersOf(mem)[context]
<1>1. /\ InOrder(mem) /\ mem \in Memory /\ context \in Ctx /\ x \in M /\ M \in SUBSET Addr
  BY WalkFacts, InOrderFacts DEF SweepInv, MembersOf
<1>2. /\ NULL \notin Addr /\ next \in Pointers(Addr) /\ p \in Addr \cup {NULL} /\ Chain(next, p, M)
      /\ next[x] = mem.node[x].next
  BY <1>1, NextOfTypes, HeadTypes DEF InOrder, Lists, ListOK
<1>3. SweepsLeft(mem)[x] = mem.node[x].timeout /\ x \in Linked(mem)
  BY <1>1, MembershipIs
<1>4. Tail(mem, context) = From(next, x)
  BY DEF Tail, ListFrom, Iterator
<1>5. ListFrom(mem, mem.node[x].next) = From(next, next[x])
  BY <1>2 DEF ListFrom
<1> HIDE DEF x, next, p, M
<1>6. From(next, x) = {x} \cup From(next, next[x]) /\ x \notin From(next, next[x])
  BY <1>1, <1>2, FromStep DEF Chain
<1>7. x \in Addr /\ x \in Tail(mem, context)
      /\ ListFrom(mem, mem.node[x].next) = Tail(mem, context) \ {x}
  BY <1>1, <1>4, <1>5, <1>6
<1> QED
  BY <1>3, <1>7 DEF x

\* One sweep less for the socket the walk has come to.
LEMMA ElapseTimes ==
  ASSUME SweepInv, SweepInv', phase = "sweep", Iterator # NULL, UNCHANGED context,
         mem'.node = Elapse(Iterator).node
  PROVE  /\ Membership(mem') = Membership(mem)
         /\ SweepsLeft(mem') = [SweepsLeft(mem) EXCEPT ![Iterator] = IF @ = 0 THEN 0 ELSE @ - 1]
         /\ \A p \in Addr \cup {NULL} : ListFrom(mem', p) = ListFrom(mem, p)
<1> DEFINE x == Iterator
           left == IF mem.node[x].timeout = 0 THEN 0 ELSE mem.node[x].timeout - 1
<1>1. /\ x \in Addr /\ x \in Linked(mem) /\ SweepsLeft(mem)[x] = mem.node[x].timeout
      /\ mem \in Memory /\ mem' \in Memory
  BY SocketsAfter DEF SweepInv, TypeOK
<1>2. /\ \A a \in Addr : /\ mem'.node[a].next = mem.node[a].next
                         /\ mem'.node[a].prev = mem.node[a].prev
                         /\ mem'.node[a].context = mem.node[a].context
                         /\ mem'.node[a].used = mem.node[a].used
      /\ mem'.node[x].timeout = left
      /\ \A a \in Addr \ {x} : mem'.node[a] = mem.node[a]
  BY <1>1, ElapseWrites
<1> HIDE DEF x
<1>3. /\ Membership(mem') = Membership(mem)
      /\ \A a \in Addr \ {x} : SweepsLeft(mem')[a] = SweepsLeft(mem)[a]
  BY <1>2, ListsKept
<1>4. SweepsLeft(mem')[x] = left
  BY <1>1, <1>2 DEF SweepsLeft, Linked, IsClosed
<1> HIDE DEF left
<1>5. SweepsLeft(mem') = [SweepsLeft(mem) EXCEPT ![x] = left]
  BY <1>3, <1>4 DEF SweepsLeft
<1>6. \A p \in Addr \cup {NULL} : ListFrom(mem', p) = ListFrom(mem, p)
  BY <1>1, <1>2, TailFrame, FromClosed, NextOfTypes, HeadTypes DEF ListFrom
<1> QED
  BY <1>1, <1>3, <1>5, <1>6 DEF x, left

LEMMA PassSocketTimes ==
  ASSUME SweepInv, WalkInv, PassSocket
  PROVE  /\ WalkInv' /\ TimeoutStep
         /\ Iterator \in Unvisited /\ Unvisited' = Unvisited \ {Iterator}
<1> DEFINE x == Iterator
           n == mem.node[x].next
<1>1. /\ phase = "sweep" /\ x # NULL /\ mem.node[x].timeout # 1
      /\ UNCHANGED <<phase, contexts, context, s>> /\ SweepInv'
      /\ context \in Ctx /\ context # NULL /\ mem \in Memory
  BY PassSocketSafe, WalkFacts DEF PassSocket, WalkInv
<1>2. /\ x \in Addr /\ x \in Tail(mem, context)
      /\ ListFrom(mem, n) = Tail(mem, context) \ {x}
      /\ SweepsLeft(mem)[x] = mem.node[x].timeout
      /\ n \in Addr \cup {NULL}
  BY <1>1, SocketsAfter, NodeTypes
<1>3. mem'.node = Elapse(x).node /\ Iterator' = n
  <2> DEFINE e == Elapse(x)
  <2>1. mem' = [e EXCEPT !.iterator[context] = n]
    BY DEF PassSocket
  <2>2. e \in Memory
    BY <1>1, <1>2, ElapseWrites
  <2> HIDE DEF e, n
  <2>3. mem'.node = e.node /\ mem'.iterator[context] = n
    BY <1>1, <1>2, <2>1, <2>2, MoveWrites
  <2> QED
    BY <1>1, <2>3 DEF e, n, Iterator
<1> HIDE DEF n
<1>4. /\ Membership(mem') = Membership(mem)
      /\ SweepsLeft(mem') = [SweepsLeft(mem) EXCEPT ![x] = IF @ = 0 THEN 0 ELSE @ - 1]
      /\ ListFrom(mem', n) = ListFrom(mem, n)
  BY <1>1, <1>2, <1>3, ElapseTimes
<1>5. Created' = Created /\ ContextsLeft' = ContextsLeft /\ WalkInv'
  BY <1>1 DEF Created, ContextsLeft, WalkInv
<1>6. Unvisited = Tail(mem, context)
  BY <1>1, UnvisitedIs
<1>7. Unvisited' = Unvisited \ {x}
  <2>1. Unvisited' = ListFrom(mem', n)
    BY <1>1, <1>3 DEF Unvisited
  <2> QED
    BY <1>2, <1>4, <1>6, <2>1
<1> HIDE DEF x
<1>8. Timeouts!Visit(x)
  BY <1>1, <1>2, <1>4, <1>5, <1>6, <1>7 DEF Timeouts!Visit
<1>9. x \in Unvisited /\ TimeoutStep
  BY <1>2, <1>6, <1>8, Mapping DEF Timeouts!TimeoutNext
<1> QED
  BY <1>5, <1>7, <1>9 DEF x

LEMMA TimeOutTimes ==
  ASSUME SweepInv, WalkInv, TimeOut
  PROVE  /\ WalkInv' /\ TimeoutStep
         /\ Iterator \in Unvisited /\ Unvisited' = Unvisited \ {Iterator}
<1> DEFINE x == Iterator
<1>1. /\ phase = "sweep" /\ phase' = "handler" /\ x # NULL /\ mem.node[x].timeout = 1
      /\ UNCHANGED <<contexts, context>> /\ s' = x /\ SweepInv' /\ mem' = Elapse(x)
      /\ context \in Ctx /\ context # NULL /\ mem \in Memory
  BY TimeOutSafe, WalkFacts DEF TimeOut, WalkInv
<1>2. /\ x \in Addr /\ x \in Tail(mem, context) /\ SweepsLeft(mem)[x] = mem.node[x].timeout
  BY <1>1, SocketsAfter
<1>3. Iterator' = x
  BY <1>1, <1>2, ElapseWrites DEF Iterator
<1>4. /\ Membership(mem') = Membership(mem)
      /\ SweepsLeft(mem') = [SweepsLeft(mem) EXCEPT ![x] = IF @ = 0 THEN 0 ELSE @ - 1]
      /\ ListFrom(mem', x) = ListFrom(mem, x)
  BY <1>1, <1>2, ElapseTimes
<1>5. Created' = Created /\ ContextsLeft' = ContextsLeft /\ WalkInv'
  BY <1>1, <1>3 DEF Created, ContextsLeft, WalkInv
<1>6. Unvisited = Tail(mem, context) /\ Tail(mem, context) = ListFrom(mem, x)
  BY <1>1, UnvisitedIs DEF Tail, Iterator
<1>7. Unvisited' = Unvisited \ {x}
  <2>1. Unvisited' = ListFrom(mem', x) \ {x}
    BY <1>1, <1>3 DEF Unvisited
  <2> QED
    BY <1>4, <1>6, <2>1
<1> HIDE DEF x
<1>8. Timeouts!Visit(x)
  BY <1>1, <1>2, <1>4, <1>5, <1>6, <1>7 DEF Timeouts!Visit
<1>9. x \in Unvisited /\ TimeoutStep
  BY <1>2, <1>6, <1>8, Mapping DEF Timeouts!TimeoutNext
<1> QED
  BY <1>5, <1>7, <1>9 DEF x

LEMMA TimeOutReturnsTimes ==
  ASSUME SweepInv, WalkInv, TimeOutReturns
  PROVE  WalkInv' /\ TimeoutStep
<1> DEFINE p == IF s = Iterator THEN mem.node[s].next ELSE Iterator
<1>1. /\ phase = "handler" /\ phase' = "sweep" /\ UNCHANGED <<contexts, context>>
      /\ mem' = [mem EXCEPT !.iterator[context] = p] /\ s \in Addr /\ SweepInv'
      /\ context \in Ctx /\ context # NULL /\ mem \in Memory /\ Iterator \in Addr \cup {NULL}
  <2>1. Iterator \in Members(mem, context) \cup {NULL} /\ Members(mem, context) \in SUBSET Addr
    BY WalkFacts DEF TimeOutReturns
  <2> QED
    BY <2>1, TimeOutReturnsSafe, WalkFacts DEF TimeOutReturns, SweepInv, Iterator, WalkInv
<1>2. p \in Addr \cup {NULL}
  BY <1>1, NodeTypes
<1>3. ListFrom(mem, p) = Tail(mem, context) \ {s}
  <2>1. CASE s = Iterator
    <3>1. NULL \notin Addr
      BY ListAssumption
    <3> QED
      BY <1>1, <2>1, <3>1, SocketsAfter
  <2>2. CASE s # Iterator
    <3>1. s \notin Tail(mem, context) /\ Tail(mem, context) = ListFrom(mem, Iterator)
      BY <1>1, <2>2 DEF WalkInv, Tail, Iterator
    <3> QED
      BY <2>2, <3>1
  <2> QED
    BY <2>1, <2>2
<1> HIDE DEF p
<1>4. mem'.node = mem.node /\ mem'.iterator[context] = p
  BY <1>1, <1>2, MoveWrites
<1>5. NextOf(mem') = NextOf(mem) /\ Iterator' = p
  BY <1>1, <1>4 DEF NextOf, Iterator
<1>6. Created' = Created /\ ContextsLeft' = ContextsLeft /\ WalkInv'
  BY <1>1 DEF Created, ContextsLeft, WalkInv
<1>7. Membership(mem') = Membership(mem) /\ SweepsLeft(mem') = SweepsLeft(mem)
  BY <1>4 DEF Membership, SweepsLeft, Linked, IsClosed
<1>8. Unvisited' = Unvisited
  <2>1. Unvisited' = ListFrom(mem', p)
    BY <1>1, <1>5 DEF Unvisited
  <2>2. ListFrom(mem', p) = ListFrom(mem, p)
    BY <1>5 DEF ListFrom
  <2> QED
    BY <1>1, <1>3, <2>1, <2>2, UnvisitedIs
<1>9. Timeouts!Return
  BY <1>1, <1>6, <1>7, <1>8 DEF Timeouts!Return
<1> QED
  BY <1>6, <1>9, Mapping DEF Timeouts!TimeoutNext

-----------------------------------------------------------------------------
LEMMA NextTimes == SweepInv /\ WalkInv /\ [Next]_vars => WalkInv' /\ TimeoutStep
<1> SUFFICES ASSUME SweepInv, WalkInv, [Next]_vars
             PROVE  WalkInv' /\ TimeoutStep
  OBVIOUS
<1>1. CASE App
  <2>1. CASE \E c \in Ctx : CreateContext(c)
    BY <2>1, CreateContextTimes
  <2>2. CASE \E a \in Addr, c \in Ctx : CreateSocket(a, c)
    BY <2>2, CreateSocketTimes
  <2>3. CASE \E t \in Addr : CloseSocket(t)
    BY <2>3, CloseSocketTimes
  <2>4. CASE \E t \in Addr : \E seconds \in Seconds : SetTimeout(t, seconds)
    BY <2>4, SetTimeoutTimes
  <2>5. CASE \E t, n \in Addr, c \in Ctx : AdoptSocket(t, n, c)
    BY <2>5, AdoptSocketTimes
  <2> QED
    BY <1>1, <2>1, <2>2, <2>3, <2>4, <2>5 DEF App
<1>2. CASE FreeClosed
  BY <1>2, FreeClosedTimes
<1>3. CASE StartSweep
  BY <1>3, StartSweepTimes
<1>4. CASE Sweep
  BY <1>4, NextContextTimes, PassSocketTimes, TimeOutTimes, TimeOutReturnsTimes DEF Sweep
<1>5. CASE UNCHANGED vars
  <2>1. UNCHANGED <<phase, contexts, context, s>> /\ mem' = mem
    BY <1>5 DEF vars
  <2>2. SameWalks(mem, mem')
    BY <2>1 DEF SameWalks
  <2>3. WalkInv' /\ Created' = Created /\ UNCHANGED <<ContextsLeft, Unvisited>>
    BY <2>1, <2>2, WalkUntouched
  <2> QED
    BY <2>1, <2>3, Mapping
<1> QED
  BY <1>1, <1>2, <1>3, <1>4, <1>5 DEF Next

LEMMA WalkInvariance == Spec => []WalkInv
<1>1. Init => WalkInv
  BY FromNull DEF Init, WalkInv, Created, Chain
<1>2. SweepInv /\ WalkInv /\ [Next]_vars => WalkInv'
  BY NextTimes
<1> QED
  BY <1>1, <1>2, SweepInvariance, PTL DEF Spec

\* Refinement: whatever handlers do to the lists meanwhile, a sweep visits every
\* socket of every context once, and calls on_timeout for those whose count ends.
THEOREM TimeoutRefinement == Spec => ImplementsTimeouts
<1>1. Init => Timeouts!TimeoutInit
  <2> SUFFICES ASSUME Init PROVE Timeouts!TimeoutInit
    OBVIOUS
  <2>1. Linked(mem) = {}
    BY DEF Init, NoSockets, Unused, Linked
  <2> QED
    BY <2>1, FromNull DEF Init, Timeouts!TimeoutInit, Created, Membership, SweepsLeft,
                          ContextsLeft, Unvisited
<1>2. SweepInv /\ WalkInv /\ [Next]_vars => [Timeouts!TimeoutNext]_(Timeouts!tsVars)
  BY NextTimes DEF TimeoutStep
<1> QED
  BY <1>1, <1>2, SweepInvariance, WalkInvariance, PTL DEF Spec, ImplementsTimeouts, Timeouts!TimeoutSpec
-----------------------------------------------------------------------------
(***************************************************************************)
(* A sweep shrinks: what it has still to visit is bounded by what there    *)
(* was when its turn began, and goes down with every step of the walk.     *)
(***************************************************************************)
\* What a step of TimeoutSpec inside of a sweep does to the sweep's remainder.
LEMMA RemainderShrinks ==
  ASSUME TimeoutStep, context # NULL, context' # NULL, context \notin ContextsLeft
  PROVE  /\ ContextsLeft' \subseteq ContextsLeft
         /\ context' = context => Unvisited' \subseteq Unvisited
         /\ context' # context => ContextsLeft' # ContextsLeft
<1>1. CASE UNCHANGED Timeouts!tsVars
  BY <1>1 DEF Timeouts!tsVars
<1>2. CASE Timeouts!Continue
  <2>1. PICK c \in ContextsLeft : context' = c /\ ContextsLeft' = ContextsLeft \ {c}
    BY <1>2 DEF Timeouts!Continue, Timeouts!Turn
  <2> QED
    BY <2>1
<1>3. CASE \/ \E c \in Ctx : Timeouts!NewContext(c) \/ \E a \in Addr : Timeouts!Arrive(a, c)
           \/ \E a \in Addr : Timeouts!Arm(a)
           \/ Timeouts!Return
  BY <1>3 DEF Timeouts!NewContext, Timeouts!Arrive, Timeouts!Arm, Timeouts!Return
<1>4. CASE \/ \E a \in Addr : Timeouts!Leave(a) \/ Timeouts!Visit(a)
           \/ \E a, n \in Addr, c \in Ctx : Timeouts!Move(a, n, c)
  BY <1>4 DEF Timeouts!Leave, Timeouts!Visit, Timeouts!Move
<1>5. ~Timeouts!Begin
  BY DEF Timeouts!Begin
<1> QED
  BY <1>1, <1>2, <1>3, <1>4, <1>5 DEF TimeoutStep, Timeouts!TimeoutNext

\* The remainder of a sweep never holds the context it is at.
LEMMA NotItsOwn ==
  ASSUME SweepInv, WalkInv, context # NULL
  PROVE  /\ phase # "idle" /\ context \in Created
         /\ contexts.next[context] # context /\ context \notin ContextsLeft
<1>1. phase # "idle" /\ context \in Created
  BY DEF WalkInv
<1> DEFINE next == contexts.next
           p == contexts.head
           C == Created
<1>2. /\ NULL \notin Ctx /\ next \in Pointers(Ctx) /\ p \in Ctx \cup {NULL} /\ Chain(next, p, C)
      /\ C \subseteq Ctx /\ context \in C
  BY <1>1, CreatedTypes DEF SweepInv, WalkInv
<1>3. ContextsLeft = From(next, next[context])
  BY DEF ContextsLeft
<1> HIDE DEF next, p, C
<1>4. context \notin From(next, next[context])
  BY <1>2 DEF Chain
<1>5. ASSUME next[context] = context PROVE FALSE
  <2>1. context \in From(next, context)
    BY <1>2, FromStep
  <2> QED
    BY <1>4, <1>5, <2>1
<1> QED
  BY <1>1, <1>3, <1>4, <1>5 DEF next

\* Every step of the walk, but the return of a handler, takes something off.
LEMMA WalkShrinks ==
  ASSUME SweepInv, WalkInv, Sweep, context # NULL, context' # NULL
  PROVE  context' # context \/ Unvisited' # Unvisited \/ phase = "handler"
<1>1. CASE NextContext
  BY <1>1, NotItsOwn DEF NextContext, Enter
<1>2. CASE PassSocket
  BY <1>2, PassSocketTimes
<1>3. CASE TimeOut
  BY <1>3, TimeOutTimes
<1>4. CASE TimeOutReturns
  BY <1>4 DEF TimeOutReturns
<1> QED
  BY <1>1, <1>2, <1>3, <1>4 DEF Sweep

\* The progress of a sweep: whatever handlers create, move or close, they add
\* nothing to what the sweep has still to visit, and each step of the walk takes a
\* context or a socket off, but the one that goes on after a handler.  There are
\* only so many sockets and contexts, so what SweepEnds adds is that steps are taken.
THEOREM SweepProgress == Spec => SweepShrinks
<1> DEFINE Shrinks ==
      context # NULL /\ context' # NULL =>
        /\ ContextsLeft' \subseteq ContextsLeft
        /\ context' = context => Unvisited' \subseteq Unvisited
        /\ Sweep => \/ ContextsLeft' # ContextsLeft
                    \/ Unvisited' # Unvisited
                    \/ phase = "handler"
<1>1. SweepInv /\ WalkInv /\ [Next]_vars => [Shrinks]_vars
  <2> SUFFICES ASSUME SweepInv, WalkInv, [Next]_vars, context # NULL, context' # NULL
               PROVE  /\ ContextsLeft' \subseteq ContextsLeft
                      /\ context' = context => Unvisited' \subseteq Unvisited
                      /\ Sweep => \/ ContextsLeft' # ContextsLeft
                                  \/ Unvisited' # Unvisited
                                  \/ phase = "handler"
    OBVIOUS
  <2>1. TimeoutStep
    BY NextTimes
  <2>2. /\ ContextsLeft' \subseteq ContextsLeft
        /\ context' = context => Unvisited' \subseteq Unvisited
        /\ context' # context => ContextsLeft' # ContextsLeft
    BY <2>1, NotItsOwn, RemainderShrinks
  <2> QED
    BY <2>2, WalkShrinks
<1> QED
  BY <1>1, SweepInvariance, WalkInvariance, PTL DEF Spec, SweepShrinks
=============================================================================
