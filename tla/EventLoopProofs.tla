--------------------------- MODULE EventLoopProofs ---------------------------
(***************************************************************************)
(* Proofs about EventLoop, for any number of addresses and descriptors and *)
(* any room in the ready list.                                             *)
(***************************************************************************)
EXTENDS EventLoop, PollProofs, FiniteSetTheorems

-----------------------------------------------------------------------------
(***************************************************************************)
(* The ready list.                                                         *)
(***************************************************************************)

\* asock_loop_update_pending replaces every pending entry of a poll that has at
\* most one entry per filter, and no other.
LEMMA UpdatePendingAll ==
  ASSUME NEW r \in Seq(ReadyEntry), NEW c \in Nat,
         NEW old, NEW new \in Addr \cup {NULL, CALLBACK},
         \A i, j \in DOMAIN r :
           (/\ i >= c /\ r[i].poll = old
            /\ j >= c /\ r[j].poll = old
            /\ r[i].filter = r[j].filter) => i = j
  PROVE  LET u == UpdatePending(r, c, old, new)
         IN  /\ u \in Seq(ReadyEntry)
             /\ Len(u) = Len(r)
             /\ \A i \in DOMAIN r : u[i] = IF i >= c /\ r[i].poll = old
                                             THEN [r[i] EXCEPT !.poll = new]
                                             ELSE r[i]
<1> DEFINE u == UpdatePending(r, c, old, new)
           pending == Pending(r, c, old)
<1>1. DOMAIN r = 1..Len(r) /\ Len(r) \in Nat
  OBVIOUS
<1>2. \A i \in DOMAIN r : r[i] \in ReadyEntry
  OBVIOUS
<1>3. ~\E i, j, k \in pending : i < j /\ j < k
  <2> SUFFICES ASSUME NEW i \in pending, NEW j \in pending, NEW k \in pending, i < j, j < k
               PROVE  FALSE
    OBVIOUS
  <2>1. {r[i].filter, r[j].filter, r[k].filter} \subseteq {READABLE, WRITABLE}
    BY <1>2 DEF ReadyEntry, Events, Pending
  <2>2. i \in Nat /\ j \in Nat /\ k \in Nat
    BY <1>1 DEF Pending
  <2> QED
    BY <2>1, <2>2 DEF Pending
<1>4. \A i \in DOMAIN r : u[i] = IF i \in pending THEN [r[i] EXCEPT !.poll = new] ELSE r[i]
  BY <1>3 DEF UpdatePending
<1>5. u = [i \in 1..Len(r) |-> IF i \in pending THEN [r[i] EXCEPT !.poll = new] ELSE r[i]]
  BY <1>1, <1>3 DEF UpdatePending
<1>6. \A i \in 1..Len(r) : (IF i \in pending THEN [r[i] EXCEPT !.poll = new] ELSE r[i]) \in ReadyEntry
  BY <1>1, <1>2 DEF ReadyEntry
<1>7. u \in Seq(ReadyEntry) /\ Len(u) = Len(r)
  BY <1>1, <1>5, <1>6
<1> QED
  BY <1>4, <1>7 DEF Pending

-----------------------------------------------------------------------------
(***************************************************************************)
(* The inductive invariant.                                                *)
(*                                                                         *)
(* KnotesTargetLive is needed because kevent copies the pointers the       *)
(* kernel holds into the ready list; FdsOwned because it is the descriptor *)
(* that ties a filter to a poll; PendingDistinct because the pending list  *)
(* is scanned for two entries only.                                        *)
(***************************************************************************)

\* Free memory is blank, and a socket in memory has a descriptor.
HeapClean ==
  \A a \in Addr : IF sock[a].type = "FREED" THEN sock[a] = Freed ELSE sock[a].fd \in Fd

HeapInv ==
  /\ HeapClean
  /\ FdsOwned
  /\ KnotesTargetLive
  /\ listenFds \subseteq openFds
  /\ ListenersKeepPolling

\* A poll is in the rest of the ready list at most once per filter.
PendingDistinct ==
  \A i, j \in DOMAIN ready :
    (/\ i >= cur /\ ready[i].poll \in Addr
     /\ j >= cur /\ ready[j].poll = ready[i].poll
     /\ ready[j].filter = ready[i].filter) => i = j

PendingInv == PendingReadyLive /\ PendingDistinct

\* A handler runs only while the loop is at a ready entry; on_writable is called
\* for a proper socket, and the accept loop is that of a listen socket.
Listener(a) == IsClosed(a) \/ sock[a].fd \in listenFds

HandlerInv ==
  /\ pc = "dispatch" => cur >= 1
  /\ HandlerPointersValid
  /\ cb # NoCb => pc = "dispatch" /\ cur \in DOMAIN ready
  /\ cb.kind = "writable" => cb.s \in Allocated /\ sock[cb.s].type # "SEMI"
  /\ cb.kind = "accept" => cb.ls # NULL
  /\ cb.ls # NULL => cb.ls \in Allocated /\ Listener(cb.ls)

IInv == TypeOK /\ HeapInv /\ PendingInv /\ HandlerInv /\ NumPollsExact

-----------------------------------------------------------------------------
(***************************************************************************)
(* What the pieces of EventLoop do to the heap.                            *)
(***************************************************************************)
SockOK  == sock \in [Addr -> Sock]
KnoteOK == knote \in [Fd -> [Events -> Addr \cup {NULL}]]

\* kqueue forgets the filters of a descriptor when it is closed.
LEMMA FilterUnlessOpen ==
  ASSUME SockOK, HeapInv, NEW f \in Fd, f \notin openFds
  PROVE  \A e \in Events : knote[f][e] = NULL
BY DEF HeapInv, KnotesTargetLive, FdsOwned

\* asock_poll_change on a live stream socket moves no pointer and no descriptor.
LEMMA PollChangeHeap ==
  ASSUME ConstantsAssumption, SockOK, KnoteOK, HeapInv,
         NEW s \in Live, sock[s].fd \notin listenFds,
         NEW t \in Sock, t.type # "FREED", t.fd = sock[s].fd, ~t.closed,
         NEW events \in SUBSET Events,
         PollChange(s, t, events),
         UNCHANGED <<openFds, listenFds>>
  PROVE  /\ SockOK' /\ KnoteOK' /\ HeapInv'
         /\ Allocated' = Allocated /\ Live' = Live
         /\ \A a \in Addr : a # s => sock'[a] = sock[a]
         /\ sock'[s].type = t.type
         /\ \A a \in Allocated : Listener(a) => Listener(a)'
<1> USE DEF SockOK, KnoteOK
<1>1. s \in Addr /\ sock[s].fd \in Fd /\ sock[s].fd \in openFds
  BY DEF HeapInv, HeapClean, Live, Allocated, FdsOwned
<1>2. \E bits \in SUBSET Bits : sock' = [sock EXCEPT ![s] = [t EXCEPT !.bits = bits]]
  <2>1. t = [t EXCEPT !.bits = t.bits] /\ t.bits \in SUBSET Bits
    BY DEF Sock
  <2> QED
    BY <2>1, BitsType DEF PollChange
<1>3. PICK bits \in SUBSET Bits : sock' = [sock EXCEPT ![s] = [t EXCEPT !.bits = bits]]
  BY <1>2
<1>4. /\ \A a \in Addr : a # s => sock'[a] = sock[a]
      /\ sock'[s] = [t EXCEPT !.bits = bits]
      /\ sock' \in [Addr -> Sock]
  BY <1>1, <1>3 DEF Sock
<1>5. /\ sock'[s].fd = sock[s].fd
      /\ sock'[s].type = t.type
      /\ ~sock'[s].closed
      /\ sock'[s].type # "FREED"
  BY <1>4 DEF Sock
<1>6. Allocated' = Allocated /\ Live' = Live
  BY <1>4, <1>5 DEF Allocated, Live, IsClosed
<1>7. /\ knote' \in [Fd -> [Events -> Addr \cup {NULL}]]
      /\ \A f \in Fd : f # sock[s].fd => knote'[f] = knote[f]
      /\ \A e \in Events : knote'[sock[s].fd][e] \in {knote[sock[s].fd][e], s, NULL}
  <2>1. CASE PollsFor(s) = events
    BY <1>1, <2>1 DEF PollChange
  <2>2. CASE PollsFor(s) # events
    <3> DEFINE changed == KqueueChange(knote[sock[s].fd], PollsFor(s), events, s)
    <3>1. knote' = [knote EXCEPT ![sock[s].fd] = changed]
      BY <2>2 DEF PollChange
    <3>2. /\ changed \in [Events -> Addr \cup {NULL}]
          /\ \A e \in Events : changed[e] \in {knote[sock[s].fd][e], s, NULL}
      BY <1>1, KqueueChangeFilters
    <3> HIDE DEF changed
    <3> QED
      BY <1>1, <3>1, <3>2
  <2> QED
    BY <2>1, <2>2
<1>8. HeapClean' /\ \A u \in Live : u \in Addr /\ sock'[u].fd = sock[u].fd
  BY <1>1, <1>4, <1>5 DEF HeapInv, HeapClean, Live, Allocated
<1>9. FdsOwned'
  <2>1. openFds' = {sock'[u].fd : u \in Live'}
    BY <1>6, <1>8 DEF HeapInv, FdsOwned
  <2> QED
    BY <2>1, <1>6, <1>8 DEF HeapInv, FdsOwned
<1>10. KnotesTargetLive'
  <2> SUFFICES ASSUME NEW f \in Fd, NEW e \in Events, knote'[f][e] # NULL
               PROVE  knote'[f][e] \in Live /\ sock[knote'[f][e]].fd = f
    BY <1>6, <1>8 DEF KnotesTargetLive
  <2> QED
    BY <1>1, <1>7 DEF HeapInv, KnotesTargetLive
<1>11. ListenersKeepPolling'
  <2> SUFFICES ASSUME NEW u \in Live', (sock[u].fd \in listenFds)'
               PROVE  /\ sock'[u].type = "SEMI"
                      /\ PollsFor(u)' = {READABLE}
                      /\ knote'[sock'[u].fd] = [e \in Events |-> IF e = READABLE THEN u ELSE NULL]
    BY DEF ListenersKeepPolling
  <2>1. u \in Live /\ u # s /\ sock'[u] = sock[u] /\ sock[u].fd # sock[s].fd
    BY <1>1, <1>4, <1>5, <1>6 DEF HeapInv, FdsOwned, Live, Allocated
  <2>2. sock[u].fd \in Fd
    BY <2>1 DEF HeapInv, HeapClean, Live, Allocated
  <2> QED
    BY <1>7, <2>1, <2>2 DEF HeapInv, ListenersKeepPolling, PollsFor
<1>12. \A a \in Allocated : Listener(a) => Listener(a)'
  BY <1>4 DEF Listener, IsClosed, Live, Allocated
<1> QED
  BY <1>4, <1>5, <1>6, <1>7, <1>8, <1>9, <1>10, <1>11, <1>12 DEF HeapInv

\* A new poll takes a free address and a free descriptor, and its filters point
\* to it; a listen socket starts out polling for readable.
LEMMA NewPollHeap ==
  ASSUME ConstantsAssumption, SockOK, KnoteOK, HeapInv, NumPollsExact,
         NEW a \in Addr, NEW f \in Fd, NEW type \in Types,
         NEW events \in SUBSET Events, NEW opened \in BOOLEAN,
         CreateSocket(f), NewPoll(a, f, type, events, opened),
         \/ listenFds' = listenFds
         \/ listenFds' = listenFds \cup {f} /\ type = "SEMI" /\ events = {READABLE}
  PROVE  /\ SockOK' /\ KnoteOK' /\ HeapInv' /\ NumPollsExact'
         /\ Allocated' = Allocated \cup {a} /\ Live' = Live \cup {a}
         /\ \A b \in Allocated : sock'[b] = sock[b]
         /\ \A b \in Allocated : Listener(b) => Listener(b)'
         /\ sock'[a].type = type
<1> USE DEF SockOK, KnoteOK
<1> DEFINE new == [type |-> type, bits |-> StartBits(events), fd |-> f,
                   closed |-> FALSE, opened |-> opened]
           filters == KqueueChange(knote[f], {}, events, a)
<1>1. /\ a \notin Allocated /\ f \notin openFds
      /\ sock' = [sock EXCEPT ![a] = new]
      /\ openFds' = openFds \cup {f}
      /\ knote' = [knote EXCEPT ![f] = filters]
      /\ numPolls' = numPolls + 1
  BY DEF NewPoll, CreateSocket
<1>2. new \in Sock /\ new.type # "FREED" /\ new.fd = f /\ ~new.closed /\ new.bits = StartBits(events)
  BY BitsType DEF Sock, Types
<1>3. filters = [e \in Events |-> IF e \in events THEN a ELSE NULL]
  <2>1. \A e \in Events : knote[f][e] = NULL
    BY <1>1, FilterUnlessOpen
  <2>2. filters = [e \in Events |-> IF e \in events THEN a ELSE knote[f][e]]
    BY KqueueAddFilters
  <2> QED
    BY <2>1, <2>2
<1> HIDE DEF new, filters
<1>4. /\ sock' \in [Addr -> Sock]
      /\ sock'[a] = new
      /\ \A b \in Addr : b # a => sock'[b] = sock[b]
  BY <1>1, <1>2
<1>5. Allocated' = Allocated \cup {a} /\ Live' = Live \cup {a}
  BY <1>2, <1>4 DEF Allocated, Live, IsClosed
<1>6. /\ \A u \in Live : u \in Addr /\ u # a /\ sock'[u] = sock[u]
      /\ \A u \in Live : sock[u].fd \in openFds /\ sock[u].fd \in Fd /\ sock[u].fd # f
  BY <1>1, <1>4 DEF HeapInv, HeapClean, Live, Allocated, FdsOwned
<1>7. /\ knote' \in [Fd -> [Events -> Addr \cup {NULL}]]
      /\ \A g \in Fd : g # f => knote'[g] = knote[g]
      /\ knote'[f] = filters
  BY <1>1, <1>3
<1>8. HeapClean'
  BY <1>2, <1>4 DEF HeapInv, HeapClean
<1>9. FdsOwned'
  <2>1. openFds' = {sock'[u].fd : u \in Live'}
    BY <1>1, <1>2, <1>4, <1>5, <1>6 DEF HeapInv, FdsOwned
  <2> QED
    BY <2>1, <1>2, <1>4, <1>5, <1>6 DEF HeapInv, FdsOwned
<1>10. KnotesTargetLive'
  <2> SUFFICES ASSUME NEW g \in Fd, NEW e \in Events, knote'[g][e] # NULL
               PROVE  knote'[g][e] \in Live' /\ sock'[knote'[g][e]].fd = g
    BY DEF KnotesTargetLive
  <2>1. CASE g = f
    BY <2>1, <1>2, <1>3, <1>4, <1>5, <1>7
  <2>2. CASE g # f
    BY <2>2, <1>5, <1>6, <1>7 DEF HeapInv, KnotesTargetLive
  <2> QED
    BY <2>1, <2>2
<1>11. ListenersKeepPolling'
  <2> SUFFICES ASSUME NEW u \in Live', (sock[u].fd \in listenFds)'
               PROVE  /\ sock'[u].type = "SEMI"
                      /\ PollsFor(u)' = {READABLE}
                      /\ knote'[sock'[u].fd] = [e \in Events |-> IF e = READABLE THEN u ELSE NULL]
    BY DEF ListenersKeepPolling
  <2>1. CASE u = a
    <3>1. type = "SEMI" /\ events = {READABLE}
      BY <2>1, <1>1, <1>2, <1>4 DEF HeapInv
    <3>2. PollsFor(u)' = {READABLE}
      BY <2>1, <3>1, <1>2, <1>4, StartRecords DEF PollsFor
    <3>3. sock'[u].type = "SEMI" /\ sock'[u].fd = f
      BY <2>1, <3>1, <1>2, <1>4 DEF new
    <3> QED
      BY <2>1, <3>1, <3>2, <3>3, <1>3, <1>7
  <2>2. CASE u # a
    <3>1. u \in Live /\ sock'[u] = sock[u] /\ sock[u].fd \in listenFds
      BY <2>2, <1>5, <1>6
    <3>2. knote'[sock[u].fd] = knote[sock[u].fd]
      BY <3>1, <1>6, <1>7
    <3> QED
      BY <3>1, <3>2 DEF HeapInv, ListenersKeepPolling, PollsFor
  <2> QED
    BY <2>1, <2>2
<1>12. NumPollsExact'
  <2>1. IsFiniteSet(Allocated)
    BY FS_Subset DEF ConstantsAssumption, Allocated
  <2> QED
    BY <2>1, <1>1, <1>5, FS_AddElement DEF NumPollsExact
<1>13. \A b \in Allocated : Listener(b) => Listener(b)'
  BY <1>1, <1>4 DEF Listener, IsClosed, Allocated
<1> QED
  BY <1>1, <1>2, <1>4, <1>5, <1>6, <1>7, <1>8, <1>9, <1>10, <1>11, <1>12, <1>13
     DEF HeapInv, Allocated, new

\* Closing a live socket takes it, its descriptor and its filters out of use, and
\* leaves its memory where it is.
LEMMA CloseHeap ==
  ASSUME ConstantsAssumption, SockOK, KnoteOK, HeapInv, NEW s \in Live, Close(s)
  PROVE  /\ SockOK' /\ KnoteOK' /\ HeapInv'
         /\ Allocated' = Allocated /\ Live' = Live \ {s}
         /\ \A a \in Addr : sock'[a].type = sock[a].type
         /\ \A a \in Allocated : Listener(a) => Listener(a)'
         /\ ready' = UpdatePending(ready, cur, s, NULL)
<1> USE DEF SockOK, KnoteOK
<1> DEFINE f == sock[s].fd
<1>1. /\ s \in Addr /\ f \in Fd /\ f \in openFds
      /\ \A u \in Live : u # s => sock[u].fd # f
  BY DEF HeapInv, HeapClean, Live, Allocated, FdsOwned
<1>2. /\ sock' = [sock EXCEPT ![s].closed = TRUE]
      /\ openFds' = openFds \ {f}
      /\ listenFds' = listenFds \ {f}
      /\ knote' = [knote EXCEPT ![f] = NoFilters]
      /\ ready' = UpdatePending(ready, cur, s, NULL)
  BY DEF Close, Bury, CloseFd, Live
<1>3. /\ sock' \in [Addr -> Sock]
      /\ \A u \in Addr : /\ u # s => sock'[u] = sock[u]
                         /\ sock'[u].fd = sock[u].fd
                         /\ sock'[u].type = sock[u].type
      /\ sock'[s].closed
  BY <1>1, <1>2 DEF Sock
<1>4. Allocated' = Allocated /\ Live' = Live \ {s}
  BY <1>3 DEF Allocated, Live, IsClosed
<1>5. /\ knote' \in [Fd -> [Events -> Addr \cup {NULL}]]
      /\ \A g \in Fd : g # f => knote'[g] = knote[g]
      /\ \A e \in Events : knote'[f][e] = NULL
  BY <1>1, <1>2 DEF NoFilters
<1>6. \A u \in Live : u \in Addr /\ sock[u].fd \in Fd
  BY DEF HeapInv, HeapClean, Live, Allocated
<1>7. HeapClean'
  BY <1>1, <1>3 DEF HeapInv, HeapClean, Live, Allocated
<1>8. FdsOwned'
  <2>1. openFds' = {sock'[u].fd : u \in Live'}
    BY <1>1, <1>2, <1>3, <1>4, <1>6 DEF HeapInv, FdsOwned
  <2> QED
    BY <2>1, <1>3, <1>4, <1>6 DEF HeapInv, FdsOwned
<1>9. KnotesTargetLive'
  <2> SUFFICES ASSUME NEW g \in Fd, NEW e \in Events, knote'[g][e] # NULL
               PROVE  knote'[g][e] \in Live' /\ sock'[knote'[g][e]].fd = g
    BY DEF KnotesTargetLive
  <2>1. g # f /\ knote'[g][e] = knote[g][e]
    BY <1>5
  <2> QED
    BY <2>1, <1>3, <1>4, <1>6 DEF HeapInv, KnotesTargetLive
<1>10. ListenersKeepPolling'
  BY <1>1, <1>2, <1>3, <1>4, <1>5, <1>6 DEF HeapInv, ListenersKeepPolling, PollsFor
<1>11. listenFds' \subseteq openFds'
  BY <1>2 DEF HeapInv
<1>12. \A a \in Allocated : Listener(a) => Listener(a)'
  BY <1>1, <1>2, <1>3 DEF Listener, IsClosed, Live, Allocated
<1> QED
  BY <1>2, <1>3, <1>4, <1>5, <1>7, <1>8, <1>9, <1>10, <1>11, <1>12 DEF HeapInv

\* The end of an iteration frees the closed sockets and only those, and takes
\* each out of num_polls.
LEMMA PollFreeHeap ==
  ASSUME ConstantsAssumption, SockOK, KnoteOK, HeapInv, NumPollsExact,
         PollFree({a \in Addr : IsClosed(a)}),
         UNCHANGED <<knote, openFds, listenFds>>
  PROVE  SockOK' /\ KnoteOK' /\ HeapInv' /\ NumPollsExact'
<1> USE DEF SockOK, KnoteOK
<1> DEFINE gone == {a \in Addr : IsClosed(a)}
<1>1. /\ sock' = [a \in Addr |-> IF a \in gone THEN Freed ELSE sock[a]]
      /\ numPolls' = numPolls - Cardinality(gone)
  BY DEF PollFree
<1>2. Freed \in Sock
  BY DEF Freed, Sock, Types
<1>3. /\ sock' \in [Addr -> Sock]
      /\ \A a \in Addr : sock'[a] = IF a \in gone THEN Freed ELSE sock[a]
  BY <1>1, <1>2
<1>4. gone \subseteq Allocated
  BY DEF HeapInv, HeapClean, Freed, IsClosed, Allocated
<1>5. Allocated' = Allocated \ gone /\ Live' = Live
  BY <1>3, <1>4 DEF Allocated, Live, IsClosed, Freed
<1>6. \A u \in Live : u \in Addr /\ sock'[u] = sock[u]
  BY <1>3 DEF Live, Allocated
<1>7. HeapClean'
  BY <1>3 DEF HeapInv, HeapClean, Freed
<1>8. FdsOwned'
  <2>1. openFds' = {sock'[u].fd : u \in Live'}
    BY <1>5, <1>6 DEF HeapInv, FdsOwned
  <2> QED
    BY <2>1, <1>5, <1>6 DEF HeapInv, FdsOwned
<1>9. KnotesTargetLive'
  BY <1>5, <1>6 DEF HeapInv, KnotesTargetLive
<1>10. ListenersKeepPolling'
  BY <1>5, <1>6 DEF HeapInv, ListenersKeepPolling, PollsFor
<1>11. NumPollsExact'
  <2>1. IsFiniteSet(Allocated) /\ IsFiniteSet(gone)
    BY FS_Subset DEF ConstantsAssumption, Allocated
  <2>2. Cardinality(Allocated \ gone) = Cardinality(Allocated) - Cardinality(gone)
    <3>1. Allocated \cap gone = gone
      BY <1>4
    <3> QED
      BY <2>1, <3>1, FS_Difference
  <2> HIDE DEF gone
  <2> QED
    BY <2>2, <1>1, <1>5 DEF NumPollsExact
<1> QED
  BY <1>3, <1>7, <1>8, <1>9, <1>10, <1>11 DEF HeapInv

\* Adoption moves a socket to a free address, and its filters with it if they are
\* the ones it records.
LEMMA AdoptHeap ==
  ASSUME ConstantsAssumption, SockOK, KnoteOK, HeapInv, NumPollsExact, Adoption # "any",
         NEW s \in Addr, NEW n \in Addr, ApiAdopt(s, n)
  PROVE  /\ SockOK' /\ KnoteOK' /\ HeapInv' /\ NumPollsExact'
         /\ s \in Live /\ n \notin Allocated
         /\ Allocated' = (Allocated \ {s}) \cup {n}
         /\ Live' = (Live \ {s}) \cup {n}
         /\ sock' = [sock EXCEPT ![n] = sock[s], ![s] = Freed]
         /\ ready' = UpdatePending(ready, cur, s, n)
<1> USE DEF SockOK, KnoteOK
<1> DEFINE f == sock[s].fd
           filters == Resize(knote[f], PollsFor(s), n)
<1>1. /\ s \in Live /\ n \notin Allocated /\ s # n
      /\ f \notin listenFds
      /\ sock' = [sock EXCEPT ![n] = sock[s], ![s] = Freed]
      /\ UNCHANGED <<numPolls, openFds, listenFds>>
  BY DEF ApiAdopt, Stream, Live
<1>2. PollsFor(s) # {} /\ {e \in Events : knote[f][e] # NULL} = PollsFor(s)
  BY DEF ApiAdopt, Adoptable, Synced, ConstantsAssumption
<1>3. /\ knote' = [knote EXCEPT ![f] = filters]
      /\ ready' = UpdatePending(ready, cur, s, n)
  BY <1>2 DEF ApiAdopt
<1>4. f \in Fd /\ f \in openFds /\ \A u \in Live : u # s => sock[u].fd # f
  BY <1>1 DEF HeapInv, HeapClean, Live, Allocated, FdsOwned
<1>5. /\ filters = [e \in Events |-> IF e \in PollsFor(s) THEN n ELSE knote[f][e]]
      /\ \A e \in Events : filters[e] \in {n, NULL}
  <2>1. PollsFor(s) \in SUBSET Events
    BY <1>2
  <2>2. filters = [e \in Events |-> IF e \in PollsFor(s) THEN n ELSE knote[f][e]]
    BY DEF Resize, KqueueChange
  <2> QED
    BY <2>2, <1>2
<1>6. /\ knote' \in [Fd -> [Events -> Addr \cup {NULL}]]
      /\ \A g \in Fd : g # f => knote'[g] = knote[g]
      /\ \A e \in Events : knote'[f][e] \in {n, NULL}
  BY <1>3, <1>4, <1>5
<1>7. /\ sock' \in [Addr -> Sock]
      /\ sock'[n] = sock[s] /\ sock'[s] = Freed
      /\ \A u \in Addr : u # s /\ u # n => sock'[u] = sock[u]
  <2>1. Freed \in Sock
    BY DEF Freed, Sock, Types
  <2> QED
    BY <1>1, <2>1
<1>8. /\ sock[s].type # "FREED" /\ ~sock[s].closed
      /\ Freed.type = "FREED" /\ s \in Allocated
  BY <1>1 DEF Live, Allocated, IsClosed, Freed
<1>9. Allocated' = (Allocated \ {s}) \cup {n} /\ Live' = (Live \ {s}) \cup {n}
  <2>1. \A u \in Addr : sock'[u].type # "FREED" <=> u \in (Allocated \ {s}) \cup {n}
    BY <1>1, <1>7, <1>8 DEF Allocated
  <2>2. Allocated' = (Allocated \ {s}) \cup {n}
    BY <2>1 DEF Allocated
  <2>3. \A u \in Allocated' : ~sock'[u].closed <=> u \in (Live \ {s}) \cup {n}
    BY <2>2, <1>1, <1>7, <1>8 DEF Live, IsClosed, Allocated
  <2>4. (Live \ {s}) \cup {n} \subseteq Allocated'
    BY <2>2 DEF Live
  <2> QED
    BY <2>2, <2>3, <2>4 DEF Live, IsClosed
<1>10. \A u \in Live \ {s} : u \in Addr /\ u # n /\ sock'[u] = sock[u] /\ sock[u].fd \in Fd
  BY <1>1, <1>7 DEF HeapInv, HeapClean, Live, Allocated
<1>11. HeapClean'
  BY <1>1, <1>7, <1>8 DEF HeapInv, HeapClean
<1>12. FdsOwned'
  <2>1. openFds' = {sock'[u].fd : u \in Live'}
    BY <1>1, <1>7, <1>9, <1>10 DEF HeapInv, FdsOwned
  <2> QED
    BY <2>1, <1>1, <1>7, <1>9, <1>10 DEF HeapInv, FdsOwned
<1>13. KnotesTargetLive'
  <2> SUFFICES ASSUME NEW g \in Fd, NEW e \in Events, knote'[g][e] # NULL
               PROVE  knote'[g][e] \in Live' /\ sock'[knote'[g][e]].fd = g
    BY DEF KnotesTargetLive
  <2>1. CASE g = f
    BY <2>1, <1>6, <1>7, <1>9
  <2>2. CASE g # f
    BY <2>2, <1>6, <1>9, <1>10 DEF HeapInv, KnotesTargetLive
  <2> QED
    BY <2>1, <2>2
<1>14. ListenersKeepPolling'
  <2> SUFFICES ASSUME NEW u \in Live', (sock[u].fd \in listenFds)'
               PROVE  /\ sock'[u].type = "SEMI"
                      /\ PollsFor(u)' = {READABLE}
                      /\ knote'[sock'[u].fd] = [e \in Events |-> IF e = READABLE THEN u ELSE NULL]
    BY DEF ListenersKeepPolling
  <2>1. u \in Live /\ u # s /\ sock'[u] = sock[u] /\ sock[u].fd \in listenFds
    BY <1>1, <1>7, <1>9, <1>10
  <2>2. sock[u].fd \in Fd /\ sock[u].fd # f
    BY <2>1, <1>1, <1>10
  <2> QED
    BY <2>1, <2>2, <1>6 DEF HeapInv, ListenersKeepPolling, PollsFor
<1>15. NumPollsExact'
  <2>1. IsFiniteSet(Allocated)
    BY FS_Subset DEF ConstantsAssumption, Allocated
  <2>2. IsFiniteSet(Allocated \ {s}) /\ Cardinality(Allocated \ {s}) = Cardinality(Allocated) - 1
    BY <2>1, <1>8, FS_RemoveElement
  <2>3. Cardinality(Allocated) \in Nat
    BY <2>1, FS_CardinalityType
  <2>4. Cardinality(Allocated') = Cardinality(Allocated \ {s}) + 1
    BY <2>2, <1>1, <1>9, FS_AddElement
  <2> QED
    BY <2>2, <2>3, <2>4, <1>1 DEF NumPollsExact
<1> QED
  BY <1>1, <1>3, <1>6, <1>7, <1>9, <1>11, <1>12, <1>13, <1>14, <1>15 DEF HeapInv

-----------------------------------------------------------------------------
(***************************************************************************)
(* The ready list and the running handler.                                 *)
(***************************************************************************)
ReadyOK == ready \in Seq(ReadyEntry) /\ Len(ready) <= MaxReady
CurOK   == cur \in 0..Len(ready) + 1

\* What happens to polls outside the pending entries does not disturb them.
LEMMA PendingFrame ==
  ASSUME ReadyOK, CurOK, PendingInv, ready' = ready, cur' \in Int, cur' >= cur,
         Live \subseteq Live'
  PROVE  PendingInv'
BY DEF PendingInv, PendingReadyLive, PendingDistinct, ReadyOK, CurOK

\* asock_loop_update_pending keeps the pending entries alive when s goes away or
\* is replaced by a poll that was nowhere before.
LEMMA PendingUpdate ==
  ASSUME ConstantsAssumption, ReadyOK, CurOK, PendingInv, cur' = cur,
         NEW s \in Addr, NEW new \in Addr \cup {NULL},
         ready' = UpdatePending(ready, cur, s, new),
         Live \ {s} \subseteq Live', new \in Live' \cup {NULL}, new \notin Live
  PROVE  ReadyOK' /\ Len(ready') = Len(ready) /\ PendingInv'
<1>1. DOMAIN ready = 1..Len(ready) /\ Len(ready) \in Nat /\ cur \in Nat
  BY DEF ReadyOK, CurOK
<1>2. \A i, j \in DOMAIN ready :
        (/\ i >= cur /\ ready[i].poll = s
         /\ j >= cur /\ ready[j].poll = s
         /\ ready[i].filter = ready[j].filter) => i = j
  <2> SUFFICES ASSUME NEW i \in DOMAIN ready, NEW j \in DOMAIN ready,
                      i >= cur, ready[i].poll = s, j >= cur, ready[j].poll = s,
                      ready[i].filter = ready[j].filter
               PROVE  i = j
    OBVIOUS
  <2>1. ready[i].poll \in Addr /\ ready[j].poll = ready[i].poll
    OBVIOUS
  <2> QED
    BY <2>1 DEF PendingInv, PendingDistinct
<1>3. /\ ready' \in Seq(ReadyEntry)
      /\ Len(ready') = Len(ready)
      /\ \A i \in DOMAIN ready : ready'[i] = IF i >= cur /\ ready[i].poll = s
                                               THEN [ready[i] EXCEPT !.poll = new]
                                               ELSE ready[i]
  BY <1>1, <1>2, UpdatePendingAll DEF ReadyOK
<1>4. ReadyOK' /\ DOMAIN ready' = DOMAIN ready
  BY <1>1, <1>3 DEF ReadyOK
<1>5. \A i \in DOMAIN ready : ready[i] \in ReadyEntry
  BY DEF ReadyOK
<1>6. \A i \in DOMAIN ready : i >= cur =>
        /\ ready'[i].filter = ready[i].filter
        /\ ready'[i].poll = IF ready[i].poll = s THEN new ELSE ready[i].poll
  BY <1>3, <1>5 DEF ReadyEntry
<1>7. \A i \in DOMAIN ready : i >= cur => ready[i].poll \in Live \cup {NULL, CALLBACK}
  BY DEF PendingInv, PendingReadyLive
<1>8. PendingReadyLive'
  BY <1>4, <1>6, <1>7 DEF PendingReadyLive
<1>9. PendingDistinct'
  <2> SUFFICES ASSUME NEW i \in DOMAIN ready, NEW j \in DOMAIN ready,
                      i >= cur, ready'[i].poll \in Addr,
                      j >= cur, ready'[j].poll = ready'[i].poll,
                      ready'[j].filter = ready'[i].filter
               PROVE  i = j
    BY <1>4 DEF PendingDistinct
  <2>1. ready[j].poll = ready[i].poll /\ ready[i].poll \in Addr
    BY <1>6, <1>7 DEF ConstantsAssumption
  <2> QED
    BY <2>1, <1>6 DEF PendingInv, PendingDistinct
<1> QED
  BY <1>3, <1>4, <1>8, <1>9 DEF PendingInv

\* Nor does what an application does in its handler disturb what the loop holds.
LEMMA HandlerFrame ==
  ASSUME HandlerInv, UNCHANGED <<pc, cb, cur>>, DOMAIN ready' = DOMAIN ready,
         Allocated \subseteq Allocated',
         \A a \in Allocated : sock[a].type # "SEMI" => sock'[a].type # "SEMI",
         \A a \in Allocated : Listener(a) => Listener(a)'
  PROVE  HandlerInv'
BY DEF HandlerInv, HandlerPointersValid

\* The loop's next entry, with no handler running.
LEMMA Advances ==
  ASSUME TypeOK, cur <= Len(ready), Advance, UNCHANGED ready
  PROVE  CurOK' /\ cur' \in Int /\ cur' >= cur /\ HandlerInv' /\ cb'.kind \in Kinds \cup {"none"}
         /\ cb' = NoCb
BY DEF TypeOK, Advance, CurOK, HandlerInv, HandlerPointersValid, NoCb

\* The current entry of the ready list, when it is a socket, is a live one.
LEMMA DispatchesLive ==
  ASSUME ConstantsAssumption, TypeOK, PendingInv, HandlerInv, NEW s \in Addr, Dispatches(s)
  PROVE  s \in Live /\ cur \in DOMAIN ready /\ pc = "dispatch" /\ cb = NoCb
<1>1. cur \in 1..Len(ready) /\ DOMAIN ready = 1..Len(ready)
  <2>1. ready \in Seq(ReadyEntry) /\ cur \in 0..Len(ready) + 1 /\ 1 <= cur /\ cur <= Len(ready)
    BY DEF TypeOK, HandlerInv, Dispatches, Dispatching
  <2> QED
    BY <2>1
<1> QED
  BY <1>1 DEF PendingInv, PendingReadyLive, Dispatches, Dispatching, Entry, ConstantsAssumption

-----------------------------------------------------------------------------
(***************************************************************************)
(* Every action preserves the invariant.                                   *)
(***************************************************************************)
CbOK      == cb \in [kind : Kinds \cup {"none"}, s : Addr \cup {NULL}, ls : Addr \cup {NULL}]
ControlOK == /\ pc \in {"setup", "pre", "dispatch", "post", "exit"}
             /\ CbOK
             /\ lastWriteFailed \in BOOLEAN

\* The type invariant gives the types of the parts the proofs use.
LEMMA TypeParts ==
  ASSUME TypeOK
  PROVE  SockOK /\ KnoteOK /\ ReadyOK /\ CurOK /\ ControlOK
BY DEF TypeOK, SockOK, KnoteOK, ReadyOK, CurOK, ControlOK, CbOK

\* The parts of the invariant make up the whole.
LEMMA Reassemble ==
  ASSUME ConstantsAssumption, SockOK', KnoteOK', HeapInv', NumPollsExact',
         ReadyOK', CurOK', ControlOK', PendingInv', HandlerInv'
  PROVE  IInv'
<1>1. openFds' \subseteq Fd /\ listenFds' \subseteq Fd
  BY DEF HeapInv, HeapClean, FdsOwned, Live, Allocated
<1>2. numPolls' \in Int
  <2>1. IsFiniteSet(Allocated')
    BY FS_Subset DEF ConstantsAssumption, Allocated
  <2> QED
    BY <2>1, FS_CardinalityType DEF NumPollsExact
<1>3. TypeOK'
  BY <1>1, <1>2 DEF TypeOK, SockOK, KnoteOK, ReadyOK, CurOK, ControlOK, CbOK
<1> QED
  BY <1>3 DEF IInv

\* A step that leaves heap and kernel alone.
LEMMA HeapFrame ==
  ASSUME IInv, UNCHANGED <<sock, knote, openFds, listenFds, numPolls>>
  PROVE  /\ SockOK' /\ KnoteOK' /\ HeapInv' /\ NumPollsExact'
         /\ Allocated' = Allocated /\ Live' = Live
         /\ \A a \in Allocated : Listener(a) => Listener(a)'
<1>1. SockOK /\ KnoteOK /\ HeapInv /\ NumPollsExact
  BY TypeParts DEF IInv
<1>2. Allocated' = Allocated /\ Live' = Live
  BY DEF Allocated, Live, IsClosed
<1>3. SockOK' /\ KnoteOK' /\ NumPollsExact'
  BY <1>1, <1>2 DEF SockOK, KnoteOK, NumPollsExact
<1>4. HeapClean' /\ FdsOwned'
  BY <1>1, <1>2 DEF HeapInv, HeapClean, FdsOwned
<1>5. KnotesTargetLive'
  BY <1>1, <1>2 DEF HeapInv, KnotesTargetLive
<1>6. ListenersKeepPolling'
  BY <1>1, <1>2 DEF HeapInv, ListenersKeepPolling, PollsFor
<1>7. \A a \in Allocated : Listener(a) => Listener(a)'
  BY DEF Listener, IsClosed
<1> QED
  BY <1>1, <1>2, <1>3, <1>4, <1>5, <1>6, <1>7 DEF HeapInv

\* The invariant speaks of the variables alone.
LEMMA Stutter ==
  ASSUME ConstantsAssumption, IInv, UNCHANGED vars
  PROVE  IInv'
<1> USE TypeParts DEF IInv
<1>1. UNCHANGED <<pc, cb, ready, cur, lastWriteFailed, numPolls, sock, openFds, listenFds, knote>>
  BY DEF vars
<1>2. /\ SockOK' /\ KnoteOK' /\ HeapInv' /\ NumPollsExact'
      /\ Allocated' = Allocated /\ Live' = Live
      /\ \A a \in Allocated : Listener(a) => Listener(a)'
  BY <1>1, HeapFrame
<1>3. HandlerInv'
  BY <1>1, <1>2, HandlerFrame
<1>4. PendingInv'
  BY <1>1, <1>2, PendingFrame DEF CurOK
<1>5. ReadyOK' /\ CurOK' /\ ControlOK'
  BY <1>1 DEF ReadyOK, CurOK, ControlOK, CbOK
<1> QED
  BY <1>2, <1>3, <1>4, <1>5, Reassemble

\* asock_context_listen and asock_context_connect keep the invariant.
LEMMA NewPollStep ==
  ASSUME ConstantsAssumption, IInv,
         NEW a \in Addr, NEW f \in Fd, ApiListen(a, f) \/ ApiConnect(a, f)
  PROVE  IInv'
<1> USE TypeParts DEF IInv
<1>1. UNCHANGED <<pc, cb, ready, cur, lastWriteFailed>>
  BY DEF ApiListen, ApiConnect
<1>2. /\ SockOK' /\ KnoteOK' /\ HeapInv' /\ NumPollsExact'
      /\ Allocated' = Allocated \cup {a} /\ Live' = Live \cup {a}
      /\ \A b \in Allocated : sock'[b] = sock[b]
      /\ \A b \in Allocated : Listener(b) => Listener(b)'
  <2>1. CASE ApiListen(a, f)
    BY <2>1, NewPollHeap DEF ApiListen, ListenSocket, Types, Events
  <2>2. CASE ApiConnect(a, f)
    BY <2>2, NewPollHeap DEF ApiConnect, ConnectSocket, Types, Events
  <2> QED
    BY <2>1, <2>2
<1>3. HandlerInv'
  BY <1>1, <1>2, HandlerFrame
<1>4. PendingInv'
  BY <1>1, <1>2, PendingFrame DEF CurOK
<1>5. ReadyOK' /\ CurOK' /\ ControlOK'
  BY <1>1 DEF ReadyOK, CurOK, ControlOK, CbOK
<1> QED
  BY <1>2, <1>3, <1>4, <1>5, Reassemble

\* The socket a handler writes to or shuts down.
LEMMA PollChangeStep ==
  ASSUME ConstantsAssumption, IInv, NEW s \in Addr, ApiWriteShort(s) \/ ApiShutdown(s)
  PROVE  IInv'
<1> USE TypeParts DEF IInv
<1>1. /\ UNCHANGED <<pc, cb, ready, cur, numPolls, openFds, listenFds>>
      /\ lastWriteFailed' \in BOOLEAN
      /\ s \in Live /\ sock[s].fd \notin listenFds
  BY DEF ApiWriteShort, ApiShutdown, Usable, Stream, Live, ControlOK
<1>2. sock[s] \in Sock /\ ~sock[s].closed /\ sock[s].type # "FREED"
  BY <1>1 DEF Live, Allocated, IsClosed, SockOK
<1>3. /\ SockOK' /\ KnoteOK' /\ HeapInv'
      /\ Allocated' = Allocated /\ Live' = Live
      /\ \A a \in Addr : sock[a].type # "SEMI" => sock'[a].type # "SEMI"
      /\ \A a \in Allocated : Listener(a) => Listener(a)'
  <2>1. CASE ApiWriteShort(s)
    <3>1. PollChange(s, sock[s], {READABLE, WRITABLE})
      BY <2>1 DEF ApiWriteShort
    <3> QED
      BY <1>1, <1>2, <3>1, PollChangeHeap DEF Events
  <2>2. CASE ApiShutdown(s)
    <3> DEFINE t == [sock[s] EXCEPT !.type = "SHUTDOWN"]
    <3>1. /\ t \in Sock /\ t.type = "SHUTDOWN" /\ t.fd = sock[s].fd /\ ~t.closed
          /\ PollChange(s, t, PollsFor(s) \cap {READABLE})
      BY <1>2, <2>2 DEF ApiShutdown, Sock, Types
    <3> HIDE DEF t
    <3> QED
      BY <1>1, <1>2, <3>1, PollChangeHeap DEF Events
  <2> QED
    BY <2>1, <2>2
<1>4. HandlerInv'
  BY <1>1, <1>3, HandlerFrame DEF Allocated
<1>5. PendingInv'
  BY <1>1, <1>3, PendingFrame DEF CurOK
<1>6. ReadyOK' /\ CurOK' /\ ControlOK' /\ NumPollsExact'
  BY <1>1, <1>3 DEF ReadyOK, CurOK, ControlOK, CbOK, NumPollsExact
<1> QED
  BY <1>3, <1>4, <1>5, <1>6, Reassemble

\* Closing disables the entries of the socket that are still pending.
LEMMA CloseParts ==
  ASSUME ConstantsAssumption, IInv, NEW s \in Live, Close(s), UNCHANGED <<cur, numPolls>>
  PROVE  /\ SockOK' /\ KnoteOK' /\ HeapInv' /\ NumPollsExact'
         /\ ReadyOK' /\ CurOK' /\ PendingInv'
         /\ DOMAIN ready' = DOMAIN ready /\ Allocated' = Allocated
         /\ \A a \in Addr : sock'[a].type = sock[a].type
         /\ \A a \in Allocated : Listener(a) => Listener(a)'
<1> USE TypeParts DEF IInv
<1>1. /\ SockOK' /\ KnoteOK' /\ HeapInv'
      /\ Allocated' = Allocated /\ Live' = Live \ {s}
      /\ \A a \in Addr : sock'[a].type = sock[a].type
      /\ \A a \in Allocated : Listener(a) => Listener(a)'
      /\ ready' = UpdatePending(ready, cur, s, NULL)
  BY CloseHeap
<1>2. s \in Addr /\ NULL \notin Live
  BY DEF Live, Allocated, ConstantsAssumption
<1>3. ReadyOK' /\ Len(ready') = Len(ready) /\ PendingInv'
  BY <1>1, <1>2, PendingUpdate
<1>4. DOMAIN ready' = DOMAIN ready
  BY <1>3 DEF ReadyOK
<1>5. CurOK' /\ NumPollsExact'
  BY <1>1, <1>3 DEF CurOK, NumPollsExact
<1> QED
  BY <1>1, <1>3, <1>4, <1>5

\* asock_socket_close and asock_core_listen_close keep it.
LEMMA CloseStep ==
  ASSUME ConstantsAssumption, IInv, NEW s \in Addr, ApiClose(s) \/ ApiListenClose(s)
  PROVE  IInv'
<1> USE TypeParts DEF IInv
<1>1. /\ UNCHANGED <<pc, cb, cur, lastWriteFailed, numPolls>>
      /\ s \in Allocated /\ Close(s)
  BY DEF ApiClose, ApiListenClose, Stream, Live
<1>2. CASE IsClosed(s)
  <2>1. UNCHANGED vars
    BY <1>1, <1>2 DEF Close, vars
  <2> QED
    BY <2>1, Stutter
<1>3. CASE ~IsClosed(s)
  <2>1. s \in Live
    BY <1>1, <1>3 DEF Live
  <2>2. /\ SockOK' /\ KnoteOK' /\ HeapInv' /\ NumPollsExact'
        /\ ReadyOK' /\ CurOK' /\ PendingInv'
        /\ DOMAIN ready' = DOMAIN ready /\ Allocated' = Allocated
        /\ \A a \in Addr : sock'[a].type = sock[a].type
        /\ \A a \in Allocated : Listener(a) => Listener(a)'
    BY <1>1, <2>1, CloseParts
  <2>3. HandlerInv'
    BY <1>1, <2>2, HandlerFrame DEF Allocated
  <2>4. ControlOK'
    BY <1>1 DEF ControlOK, CbOK
  <2> QED
    BY <2>2, <2>3, <2>4, Reassemble
<1> QED
  BY <1>2, <1>3

\* Adoption hands the pending entries and the running handler over to the new
\* address.
LEMMA AdoptStep ==
  ASSUME ConstantsAssumption, Adoption # "any", IInv,
         NEW s \in Addr, NEW n \in Addr, ApiAdopt(s, n)
  PROVE  IInv'
<1> USE TypeParts DEF IInv
<1>1. /\ SockOK' /\ KnoteOK' /\ HeapInv' /\ NumPollsExact'
      /\ s \in Live /\ n \notin Allocated
      /\ Allocated' = (Allocated \ {s}) \cup {n}
      /\ Live' = (Live \ {s}) \cup {n}
      /\ sock' = [sock EXCEPT ![n] = sock[s], ![s] = Freed]
      /\ ready' = UpdatePending(ready, cur, s, n)
  BY AdoptHeap
<1>2. /\ UNCHANGED <<pc, cur, lastWriteFailed>>
      /\ cb' = IF cb.s = s THEN [cb EXCEPT !.s = n] ELSE cb
      /\ sock[s].fd \notin listenFds
  BY <1>1 DEF ApiAdopt, Stream, Live
<1>3. n \notin Live /\ n # s
  BY <1>1 DEF Live
<1>4. ReadyOK' /\ Len(ready') = Len(ready) /\ PendingInv'
  BY <1>1, <1>2, <1>3, PendingUpdate
<1>5. CurOK' /\ DOMAIN ready' = DOMAIN ready
  BY <1>2, <1>4 DEF CurOK, ReadyOK
<1>6. ControlOK'
  BY <1>2 DEF ControlOK, CbOK
<1>7. HandlerInv'
  <2>1. cb.ls # s
    BY <1>1, <1>2 DEF HandlerInv, Listener, Live, ConstantsAssumption
  <2>2. sock'[n] = sock[s] /\ \A u \in Addr : u # s /\ u # n => sock'[u] = sock[u]
    BY <1>1, <1>3 DEF SockOK
  <2>3. /\ cb'.kind = cb.kind /\ cb'.ls = cb.ls
        /\ cb'.s = IF cb.s = s THEN n ELSE cb.s
        /\ cb' # NoCb => cb # NoCb
    BY <1>1, <1>2 DEF ControlOK, CbOK, NoCb, Live, Allocated, ConstantsAssumption
  <2>4. /\ s \in Allocated /\ n \in Allocated'
        /\ \A u \in Allocated : u # s => u \in Allocated' /\ sock'[u] = sock[u]
    BY <1>1, <2>2 DEF Live, Allocated
  <2>5. HandlerPointersValid'
    BY <2>1, <2>3, <2>4 DEF HandlerInv, HandlerPointersValid
  <2>6. cb'.kind = "writable" => cb'.s \in Allocated' /\ sock'[cb'.s].type # "SEMI"
    BY <2>2, <2>3, <2>4 DEF HandlerInv
  <2>7. cb'.ls # NULL => cb'.ls \in Allocated' /\ Listener(cb.ls)'
    BY <1>1, <1>2, <2>1, <2>3, <2>4 DEF HandlerInv, Listener, IsClosed, ApiAdopt
  <2>8. UNCHANGED <<pc, cur>> /\ DOMAIN ready' = DOMAIN ready
    BY <1>2, <1>5
  <2>9. cb' # NoCb => pc' = "dispatch" /\ cur' \in DOMAIN ready'
    BY <2>3, <2>8 DEF HandlerInv
  <2>10. pc' = "dispatch" => cur' >= 1
    BY <2>8 DEF HandlerInv
  <2> QED
    BY <2>3, <2>5, <2>6, <2>7, <2>9, <2>10 DEF HandlerInv
<1> QED
  BY <1>1, <1>4, <1>5, <1>6, <1>7, Reassemble

\* So does every call of the application.
LEMMA ApiStep ==
  ASSUME ConstantsAssumption, Adoption # "any", IInv, Api
  PROVE  IInv'
BY NewPollStep, PollChangeStep, CloseStep, AdoptStep DEF Api

\* The loop's test of num_polls.
LEMMA LoopCheckStep ==
  ASSUME ConstantsAssumption, IInv, LoopCheck
  PROVE  IInv'
<1> USE TypeParts DEF IInv
<1>1. /\ UNCHANGED <<cb, ready, cur, lastWriteFailed, numPolls, sock, openFds, listenFds, knote>>
      /\ pc # "dispatch" /\ pc' \in {"exit", "pre"}
  BY DEF LoopCheck
<1>2. /\ SockOK' /\ KnoteOK' /\ HeapInv' /\ NumPollsExact'
      /\ Allocated' = Allocated /\ Live' = Live
  BY <1>1, HeapFrame
<1>3. HandlerInv'
  BY <1>1 DEF HandlerInv, HandlerPointersValid, NoCb
<1>4. PendingInv'
  BY <1>1, <1>2, PendingFrame DEF CurOK
<1>5. ReadyOK' /\ CurOK' /\ ControlOK'
  BY <1>1 DEF ReadyOK, CurOK, ControlOK, CbOK
<1> QED
  BY <1>2, <1>3, <1>4, <1>5, Reassemble

\* kevent reports pointers the kernel holds: all of them to live polls, and each
\* filter once.
LEMMA KeventStep ==
  ASSUME ConstantsAssumption, IInv, Kevent
  PROVE  IInv'
<1> USE TypeParts DEF IInv
<1>1. PICK n \in 0..MaxReady : \E t \in [1..n -> Triggers], eof \in [1..n -> BOOLEAN] :
         /\ \A i, j \in 1..n : t[i] = t[j] => i = j
         /\ \A i \in 1..n : eof[i] => t[i][1] # CALLBACK
         /\ ready' = [i \in 1..n |-> [poll |-> Udata(t[i]), filter |-> t[i][2], eof |-> eof[i]]]
  BY DEF Kevent
<1>2. PICK t \in [1..n -> Triggers], eof \in [1..n -> BOOLEAN] :
         /\ \A i, j \in 1..n : t[i] = t[j] => i = j
         /\ \A i \in 1..n : eof[i] => t[i][1] # CALLBACK
         /\ ready' = [i \in 1..n |-> [poll |-> Udata(t[i]), filter |-> t[i][2], eof |-> eof[i]]]
  BY <1>1
<1>3. /\ pc = "pre" /\ pc' = "dispatch" /\ cur' = 1 /\ n \in Nat /\ n <= MaxReady
      /\ UNCHANGED <<cb, lastWriteFailed, numPolls, sock, openFds, listenFds, knote>>
  BY DEF Kevent, ConstantsAssumption
<1>4. /\ SockOK' /\ KnoteOK' /\ HeapInv' /\ NumPollsExact'
      /\ Allocated' = Allocated /\ Live' = Live
  BY <1>3, HeapFrame
<1>5. \A u \in Triggers :
        \/ u = <<CALLBACK, READABLE>> /\ Udata(u) = CALLBACK
        \/ /\ u \in Fd \X Events /\ Udata(u) = knote[u[1]][u[2]]
           /\ Udata(u) \in Live /\ sock[Udata(u)].fd = u[1]
  <2> SUFFICES ASSUME NEW u \in Triggers, u # <<CALLBACK, READABLE>>
               PROVE  /\ u \in Fd \X Events /\ Udata(u) = knote[u[1]][u[2]]
                      /\ Udata(u) \in Live /\ sock[Udata(u)].fd = u[1]
    BY DEF Udata
  <2>1. u \in Fd \X Events /\ knote[u[1]][u[2]] # NULL /\ u[1] # CALLBACK
    BY DEF Triggers, ConstantsAssumption
  <2> QED
    BY <2>1 DEF Udata, HeapInv, KnotesTargetLive
<1>6. \A i \in 1..n : /\ Udata(t[i]) \in Live \cup {CALLBACK}
                      /\ t[i][2] \in Events
                      /\ eof[i] \in BOOLEAN
  BY <1>5 DEF Events
<1>7. Live \subseteq Addr
  BY DEF Live, Allocated
<1>8. /\ ready' \in Seq(ReadyEntry) /\ Len(ready') = n /\ DOMAIN ready' = 1..n
      /\ \A i \in 1..n : ready'[i].poll = Udata(t[i]) /\ ready'[i].filter = t[i][2]
  <2>1. \A i \in 1..n : [poll |-> Udata(t[i]), filter |-> t[i][2], eof |-> eof[i]] \in ReadyEntry
    BY <1>6, <1>7 DEF ReadyEntry
  <2> QED
    BY <1>2, <1>3, <2>1
<1>9. ReadyOK' /\ CurOK'
  BY <1>3, <1>8 DEF ReadyOK, CurOK
<1>10. PendingReadyLive'
  BY <1>4, <1>6, <1>8 DEF PendingReadyLive
<1>11. PendingDistinct'
  <2> SUFFICES ASSUME NEW i \in 1..n, NEW j \in 1..n, Udata(t[i]) \in Addr,
                      Udata(t[j]) = Udata(t[i]), t[j][2] = t[i][2]
               PROVE  i = j
    BY <1>8 DEF PendingDistinct
  <2>1. t[i] \in Triggers /\ t[j] \in Triggers /\ Udata(t[i]) # CALLBACK
    BY DEF ConstantsAssumption
  <2>2. /\ t[i] \in Fd \X Events /\ t[j] \in Fd \X Events
        /\ t[i][1] = sock[Udata(t[i])].fd /\ t[j][1] = sock[Udata(t[j])].fd
    BY <2>1, <1>5
  <2>3. t[i] = t[j]
    BY <2>2
  <2> QED
    BY <1>2, <2>3
<1>12. HandlerInv'
  BY <1>3 DEF HandlerInv, HandlerPointersValid, NoCb
<1>13. ControlOK'
  BY <1>3 DEF ControlOK, CbOK
<1> QED
  BY <1>4, <1>9, <1>10, <1>11, <1>12, <1>13, Reassemble DEF PendingInv

\* Nothing is pending, and no handler runs, when closed sockets are freed.
LEMMA FreeClosedStep ==
  ASSUME ConstantsAssumption, IInv, FreeClosed
  PROVE  IInv'
<1> USE TypeParts DEF IInv
<1>1. /\ UNCHANGED <<cb, ready, cur, lastWriteFailed, openFds, listenFds, knote>>
      /\ pc = "dispatch" /\ pc' = "post" /\ cur > Len(ready)
      /\ PollFree({a \in Addr : IsClosed(a)})
  BY DEF FreeClosed
<1>2. SockOK' /\ KnoteOK' /\ HeapInv' /\ NumPollsExact'
  BY <1>1, PollFreeHeap
<1>3. cur \notin DOMAIN ready /\ \A i \in DOMAIN ready : ~(i >= cur)
  <2>1. DOMAIN ready = 1..Len(ready) /\ Len(ready) \in Nat /\ cur \in Nat
    BY DEF ReadyOK, CurOK
  <2> QED
    BY <1>1, <2>1
<1>4. cb = NoCb
  BY <1>3 DEF HandlerInv
<1>5. HandlerInv'
  BY <1>1, <1>4 DEF HandlerInv, HandlerPointersValid, NoCb
<1>6. PendingInv'
  BY <1>1, <1>3 DEF PendingInv, PendingReadyLive, PendingDistinct
<1>7. ReadyOK' /\ CurOK' /\ ControlOK'
  BY <1>1 DEF ReadyOK, CurOK, ControlOK, CbOK
<1> QED
  BY <1>2, <1>5, <1>6, <1>7, Reassemble

\* The loop passes an entry, whatever it has done to the heap.
LEMMA AdvanceStep ==
  ASSUME ConstantsAssumption, IInv, cur \in DOMAIN ready, Advance,
         UNCHANGED <<pc, ready, lastWriteFailed>>,
         SockOK', KnoteOK', HeapInv', NumPollsExact', Live \subseteq Live'
  PROVE  IInv'
<1> USE TypeParts DEF IInv
<1>1. cur <= Len(ready)
  BY DEF ReadyOK
<1>2. CurOK' /\ cur' \in Int /\ cur' >= cur /\ HandlerInv' /\ cb' = NoCb
  BY <1>1, Advances
<1>3. PendingInv'
  BY <1>2, PendingFrame
<1>4. ReadyOK' /\ ControlOK'
  BY <1>2 DEF ReadyOK, ControlOK, CbOK, NoCb
<1> QED
  BY <1>2, <1>3, <1>4, Reassemble

\* The loop calls a handler, having kept every socket in memory and the pending
\* entries alive.
LEMMA CallStep ==
  ASSUME ConstantsAssumption, IInv, cur \in DOMAIN ready, pc = "dispatch", pc' = pc,
         NEW kind \in Kinds \ {"accept"}, NEW s \in Allocated \cup {NULL}, Call(kind, s),
         kind = "writable" => s # NULL /\ sock'[s].type # "SEMI",
         SockOK', KnoteOK', HeapInv', NumPollsExact', Allocated' = Allocated,
         ReadyOK', CurOK', PendingInv', DOMAIN ready' = DOMAIN ready,
         lastWriteFailed' \in BOOLEAN
  PROVE  IInv'
<1> USE TypeParts DEF IInv
<1>1. cb' = [kind |-> kind, s |-> s, ls |-> NULL] /\ cur' = cur
  BY DEF Call
<1>2. s \in Addr \cup {NULL}
  BY DEF Allocated
<1>3. ControlOK'
  BY <1>1, <1>2 DEF ControlOK, CbOK
<1>4. HandlerInv'
  BY <1>1 DEF HandlerInv, HandlerPointersValid
<1> QED
  BY <1>3, <1>4, Reassemble

\* A live socket that is not a semi-socket, or polls for writable, is no listener.
LEMMA StreamsDoNotListen ==
  ASSUME HeapInv, NEW s \in Live, sock[s].type # "SEMI" \/ PollsFor(s) = {WRITABLE}
  PROVE  sock[s].fd \notin listenFds
BY DEF HeapInv, ListenersKeepPolling, READABLE, WRITABLE

\* A connect socket becomes an open one.
LEMMA DispatchConnectStep ==
  ASSUME ConstantsAssumption, IInv, NEW s \in Addr, DispatchConnect(s)
  PROVE  IInv'
<1> USE TypeParts DEF IInv
<1> DEFINE t == [sock[s] EXCEPT !.type = "SOCKET", !.opened = TRUE]
<1>1. s \in Live /\ cur \in DOMAIN ready /\ pc = "dispatch"
  BY DispatchesLive DEF DispatchConnect
<1>2. /\ UNCHANGED <<pc, ready, lastWriteFailed, numPolls, openFds, listenFds, knote>>
      /\ Call("open", s) /\ cur' = cur
      /\ sock[s].fd \notin listenFds
  BY <1>1, StreamsDoNotListen DEF DispatchConnect, Call
<1>3. t \in Sock /\ t.type = "SOCKET" /\ t.fd = sock[s].fd /\ ~t.closed
  BY <1>1 DEF SockOK, Sock, Types, Live, IsClosed
<1>4. PollsFor(s) \in SUBSET Events
  BY BitsType DEF PollsFor
<1>5. sock' = [sock EXCEPT ![s] = t]
  BY <1>1 DEF DispatchConnect, SockOK, Sock
<1> HIDE DEF t
<1>6. PollChange(s, t, PollsFor(s))
  BY <1>2, <1>5 DEF PollChange
<1>7. /\ SockOK' /\ KnoteOK' /\ HeapInv'
      /\ Allocated' = Allocated /\ Live' = Live
  BY <1>1, <1>2, <1>3, <1>4, <1>6, PollChangeHeap
<1>8. PendingInv' /\ ReadyOK' /\ CurOK' /\ NumPollsExact' /\ lastWriteFailed' \in BOOLEAN
  BY <1>2, <1>7, PendingFrame DEF CurOK, ReadyOK, NumPollsExact, ControlOK
<1> QED
  BY <1>1, <1>2, <1>7, <1>8, CallStep DEF Kinds, Live

\* One turn of the accept loop of the listen socket ls.
LEMMA AcceptStep ==
  ASSUME ConstantsAssumption, IInv, cur \in DOMAIN ready, pc = "dispatch",
         NEW ls \in Allocated, Accept(ls)
  PROVE  IInv'
<1> USE TypeParts DEF IInv
<1>1. CASE /\ Advance
           /\ UNCHANGED <<pc, ready, lastWriteFailed, numPolls, sock, openFds, listenFds, knote>>
  <2>1. SockOK' /\ KnoteOK' /\ HeapInv' /\ NumPollsExact' /\ Live' = Live
    BY <1>1, HeapFrame
  <2> QED
    BY <1>1, <2>1, AdvanceStep
<1>2. CASE /\ \E a \in Addr, f \in Fd :
                /\ AcceptSocket(ls, f)
                /\ NewPoll(a, f, "SOCKET", {READABLE}, TRUE)
                /\ cb' = [kind |-> "accept", s |-> a, ls |-> ls]
           /\ UNCHANGED <<pc, ready, cur, lastWriteFailed>>
  <2>1. PICK a \in Addr, f \in Fd : /\ AcceptSocket(ls, f)
                                    /\ NewPoll(a, f, "SOCKET", {READABLE}, TRUE)
                                    /\ cb' = [kind |-> "accept", s |-> a, ls |-> ls]
    BY <1>2
  <2>2. /\ SockOK' /\ KnoteOK' /\ HeapInv' /\ NumPollsExact'
        /\ Allocated' = Allocated \cup {a} /\ Live' = Live \cup {a}
        /\ \A b \in Allocated : Listener(b) => Listener(b)'
    BY <1>2, <2>1, NewPollHeap DEF AcceptSocket, Types, Events
  <2>3. Listener(ls)
    BY <2>1 DEF AcceptSocket, Listener
  <2>4. ls \in Addr
    BY DEF Allocated
  <2>5. HandlerInv'
    BY <1>2, <2>1, <2>2, <2>3, <2>4 DEF HandlerInv, HandlerPointersValid, ConstantsAssumption
  <2>6. PendingInv' /\ ReadyOK' /\ CurOK'
    BY <1>2, <2>2, PendingFrame DEF CurOK, ReadyOK
  <2>7. ControlOK'
    BY <1>2, <2>1, <2>4 DEF ControlOK, CbOK, Kinds
  <2> QED
    BY <2>2, <2>5, <2>6, <2>7, Reassemble
<1> QED
  BY <1>1, <1>2 DEF Accept

\* Accepting, and finding nothing to accept.
LEMMA DispatchAcceptStep ==
  ASSUME ConstantsAssumption, IInv, NEW s \in Addr, DispatchAccept(s)
  PROVE  IInv'
<1>1. s \in Live /\ cur \in DOMAIN ready /\ pc = "dispatch"
  BY DispatchesLive DEF DispatchAccept, IInv
<1> QED
  BY <1>1, AcceptStep DEF DispatchAccept, Live

\* The loop closes a socket, on an error or an end of its own, and runs on_close.
LEMMA CloseAndCallStep ==
  ASSUME ConstantsAssumption, IInv, NEW s \in Addr, DispatchError(s) \/ RecvClose(s)
  PROVE  IInv'
<1> USE TypeParts DEF IInv
<1>1. s \in Live /\ cur \in DOMAIN ready /\ pc = "dispatch"
  BY DispatchesLive DEF DispatchError, RecvClose, Event, Proper
<1>2. Close(s) /\ Call("close", s) /\ UNCHANGED <<pc, cur, lastWriteFailed, numPolls>>
  BY DEF DispatchError, RecvClose, CloseAndCall, Call
<1>3. /\ SockOK' /\ KnoteOK' /\ HeapInv' /\ NumPollsExact'
      /\ ReadyOK' /\ CurOK' /\ PendingInv'
      /\ DOMAIN ready' = DOMAIN ready /\ Allocated' = Allocated
  BY <1>1, <1>2, CloseParts
<1>4. lastWriteFailed' \in BOOLEAN
  BY <1>2 DEF ControlOK
<1> QED
  BY <1>1, <1>2, <1>3, <1>4, CallStep DEF Kinds, Live

\* on_writable is called.
LEMMA DispatchWritableStep ==
  ASSUME ConstantsAssumption, IInv, NEW s \in Addr, DispatchWritable(s)
  PROVE  IInv'
<1> USE TypeParts DEF IInv
<1>1. /\ s \in Live /\ cur \in DOMAIN ready /\ pc = "dispatch"
      /\ sock[s].type \in {"SOCKET", "SHUTDOWN"}
  BY DispatchesLive DEF DispatchWritable, Event, Proper
<1>2. /\ Call("writable", s) /\ cur' = cur /\ lastWriteFailed' \in BOOLEAN
      /\ UNCHANGED <<pc, ready, numPolls, sock, openFds, listenFds, knote>>
  BY DEF DispatchWritable, Call
<1>3. /\ SockOK' /\ KnoteOK' /\ HeapInv' /\ NumPollsExact'
      /\ Allocated' = Allocated /\ Live' = Live
  BY <1>2, HeapFrame
<1>4. PendingInv' /\ ReadyOK' /\ CurOK'
  BY <1>2, <1>3, PendingFrame DEF CurOK, ReadyOK
<1>5. s # NULL /\ sock'[s].type = sock[s].type
  BY <1>2 DEF ConstantsAssumption
<1> QED
  BY <1>1, <1>2, <1>3, <1>4, <1>5, CallStep DEF Kinds, Live

\* on_data is called.
LEMMA RecvDataStep ==
  ASSUME ConstantsAssumption, IInv, NEW s \in Addr, RecvData(s)
  PROVE  IInv'
<1> USE TypeParts DEF IInv
<1>1. s \in Live /\ cur \in DOMAIN ready /\ pc = "dispatch"
  BY DispatchesLive DEF RecvData, Event, Proper
<1>2. /\ Call("data", s) /\ cur' = cur
      /\ UNCHANGED <<pc, ready, lastWriteFailed, numPolls, sock, openFds, listenFds, knote>>
  BY DEF RecvData, Call
<1>3. /\ SockOK' /\ KnoteOK' /\ HeapInv' /\ NumPollsExact'
      /\ Allocated' = Allocated /\ Live' = Live
  BY <1>2, HeapFrame
<1>4. PendingInv' /\ ReadyOK' /\ CurOK' /\ lastWriteFailed' \in BOOLEAN
  BY <1>2, <1>3, PendingFrame DEF CurOK, ReadyOK, ControlOK
<1> QED
  BY <1>1, <1>2, <1>3, <1>4, CallStep DEF Kinds, Live

\* The end of the stream: polling for readable stops.
LEMMA RecvEndStep ==
  ASSUME ConstantsAssumption, IInv, NEW s \in Addr, RecvEnd(s)
  PROVE  IInv'
<1> USE TypeParts DEF IInv
<1>1. /\ s \in Live /\ cur \in DOMAIN ready /\ pc = "dispatch"
      /\ sock[s].type \in {"SOCKET", "SHUTDOWN"}
  BY DispatchesLive DEF RecvEnd, Event, Proper
<1>2. /\ UNCHANGED <<pc, ready, lastWriteFailed, numPolls, openFds, listenFds>>
      /\ Call("end", s) /\ cur' = cur
      /\ PollChange(s, sock[s], PollsFor(s) \cap {WRITABLE})
      /\ sock[s].fd \notin listenFds
  BY <1>1, StreamsDoNotListen DEF RecvEnd, Call
<1>3. sock[s] \in Sock /\ sock[s].type # "FREED" /\ ~sock[s].closed
  BY <1>1 DEF SockOK, Live, IsClosed
<1>4. PollsFor(s) \cap {WRITABLE} \in SUBSET Events
  BY DEF Events
<1>5. /\ SockOK' /\ KnoteOK' /\ HeapInv'
      /\ Allocated' = Allocated /\ Live' = Live
  BY <1>1, <1>2, <1>3, <1>4, PollChangeHeap
<1>6. PendingInv' /\ ReadyOK' /\ CurOK' /\ NumPollsExact' /\ lastWriteFailed' \in BOOLEAN
  BY <1>2, <1>5, PendingFrame DEF CurOK, ReadyOK, NumPollsExact, ControlOK
<1> QED
  BY <1>1, <1>2, <1>5, <1>6, CallStep DEF Kinds, Live

\* An entry that is filtered out.
LEMMA SkipStep ==
  ASSUME ConstantsAssumption, IInv, SkipReady \/ \E s \in Addr : RecvWouldBlock(s)
  PROVE  IInv'
<1> USE TypeParts DEF IInv
<1>1. /\ Dispatching /\ Advance
      /\ UNCHANGED <<pc, ready, lastWriteFailed, numPolls, sock, openFds, listenFds, knote>>
  BY DEF SkipReady, RecvWouldBlock, Event, Proper, Dispatches
<1>2. cur \in DOMAIN ready
  <2>1. ready \in Seq(ReadyEntry) /\ cur \in Nat /\ 1 <= cur /\ cur <= Len(ready)
    BY <1>1 DEF ReadyOK, CurOK, HandlerInv, Dispatching
  <2> QED
    BY <2>1
<1>3. SockOK' /\ KnoteOK' /\ HeapInv' /\ NumPollsExact' /\ Live' = Live
  BY <1>1, HeapFrame
<1> QED
  BY <1>1, <1>2, <1>3, AdvanceStep

\* The sweep timer or the wakeup async.
LEMMA DispatchCallbackStep ==
  ASSUME ConstantsAssumption, IInv, DispatchCallback
  PROVE  IInv'
<1> USE TypeParts DEF IInv
<1>1. /\ Dispatching /\ pc = "dispatch" /\ Call("tick", NULL) /\ cur' = cur
      /\ UNCHANGED <<pc, ready, lastWriteFailed, numPolls, sock, openFds, listenFds, knote>>
  BY DEF DispatchCallback, Dispatching, Call
<1>2. cur \in DOMAIN ready
  <2>1. ready \in Seq(ReadyEntry) /\ cur \in Nat /\ 1 <= cur /\ cur <= Len(ready)
    BY <1>1 DEF ReadyOK, CurOK, HandlerInv, Dispatching
  <2> QED
    BY <2>1
<1>3. /\ SockOK' /\ KnoteOK' /\ HeapInv' /\ NumPollsExact'
      /\ Allocated' = Allocated /\ Live' = Live
  BY <1>1, HeapFrame
<1>4. PendingInv' /\ ReadyOK' /\ CurOK' /\ lastWriteFailed' \in BOOLEAN
  BY <1>1, <1>3, PendingFrame DEF CurOK, ReadyOK, ControlOK
<1> QED
  BY <1>1, <1>2, <1>3, <1>4, CallStep DEF Kinds

\* A handler returns; on_writable may have the loop stop polling for writable.
LEMMA ReturnStep ==
  ASSUME ConstantsAssumption, IInv, ReturnWritable \/ ReturnAccept \/ ReturnOther
  PROVE  IInv'
<1> USE TypeParts DEF IInv
<1>1. cb # NoCb /\ pc = "dispatch" /\ cur \in DOMAIN ready
  BY DEF ReturnWritable, ReturnAccept, ReturnOther, NoCb, HandlerInv
<1>2. CASE ReturnWritable
  <2>1. /\ cb.s \in Allocated /\ sock[cb.s].type # "SEMI"
        /\ Advance
        /\ UNCHANGED <<pc, ready, lastWriteFailed, numPolls, openFds, listenFds>>
    BY <1>2 DEF ReturnWritable, HandlerInv
  <2>2. CASE UNCHANGED <<sock, knote>>
    <3>1. SockOK' /\ KnoteOK' /\ HeapInv' /\ NumPollsExact' /\ Live' = Live
      BY <2>1, <2>2, HeapFrame
    <3> QED
      BY <1>1, <2>1, <3>1, AdvanceStep
  <2>3. CASE /\ ~IsClosed(cb.s)
             /\ PollChange(cb.s, sock[cb.s], PollsFor(cb.s) \cap {READABLE})
    <3>1. cb.s \in Live /\ sock[cb.s].fd \notin listenFds
      BY <2>1, <2>3, StreamsDoNotListen DEF Live
    <3>2. sock[cb.s] \in Sock /\ sock[cb.s].type # "FREED" /\ ~sock[cb.s].closed
      BY <3>1 DEF SockOK, Live, Allocated, IsClosed
    <3>3. PollsFor(cb.s) \cap {READABLE} \in SUBSET Events
      BY DEF Events
    <3>4. SockOK' /\ KnoteOK' /\ HeapInv' /\ Allocated' = Allocated /\ Live' = Live
      BY <2>1, <2>3, <3>1, <3>2, <3>3, PollChangeHeap
    <3>5. NumPollsExact'
      BY <2>1, <3>4 DEF NumPollsExact
    <3> QED
      BY <1>1, <2>1, <3>4, <3>5, AdvanceStep
  <2> QED
    BY <1>2, <2>2, <2>3 DEF ReturnWritable
<1>3. CASE ReturnAccept
  <2>1. cb.ls \in Allocated
    BY <1>3 DEF ReturnAccept, HandlerInv
  <2> QED
    BY <1>1, <1>3, <2>1, AcceptStep DEF ReturnAccept
<1>4. CASE ReturnOther
  <2>1. /\ Advance
        /\ UNCHANGED <<pc, ready, lastWriteFailed, numPolls, sock, openFds, listenFds, knote>>
    BY <1>4 DEF ReturnOther
  <2>2. SockOK' /\ KnoteOK' /\ HeapInv' /\ NumPollsExact' /\ Live' = Live
    BY <2>1, HeapFrame
  <2> QED
    BY <1>1, <2>1, <2>2, AdvanceStep
<1> QED
  BY <1>2, <1>3, <1>4

\* Every step of the loop keeps the invariant.
LEMMA LoopStep ==
  ASSUME ConstantsAssumption, IInv, Loop
  PROVE  IInv'
<1>1. ASSUME NEW s \in Addr, Dispatch(s) PROVE IInv'
  BY <1>1, DispatchConnectStep, DispatchAcceptStep, CloseAndCallStep, DispatchWritableStep,
     RecvDataStep, RecvEndStep, SkipStep DEF Dispatch
<1> QED
  BY <1>1, LoopCheckStep, KeventStep, FreeClosedStep, SkipStep, DispatchCallbackStep,
     ReturnStep DEF Loop

\* It holds when the loop has been created.
LEMMA InitEstablishes ==
  ASSUME ConstantsAssumption, Init
  PROVE  IInv
<1>1. Allocated = {} /\ Live = {}
  BY DEF Init, Allocated, Live, Freed
<1>2. TypeOK
  <2>1. sock \in [Addr -> Sock]
    BY DEF Init, Freed, Sock, Types
  <2>2. ready \in Seq(ReadyEntry) /\ Len(ready) = 0 /\ cur = 0
    BY DEF Init
  <2>3. Len(ready) <= MaxReady /\ cur \in 0..Len(ready) + 1
    BY <2>2 DEF ConstantsAssumption
  <2>4. cb \in [kind : Kinds \cup {"none"}, s : Addr \cup {NULL}, ls : Addr \cup {NULL}]
    BY DEF Init, NoCb
  <2>5. knote \in [Fd -> [Events -> Addr \cup {NULL}]]
    BY DEF Init, NoFilters
  <2>6. pc \in {"setup", "pre", "dispatch", "post", "exit"}
    BY DEF Init
  <2>7. lastWriteFailed \in BOOLEAN
    BY DEF Init
  <2>8. numPolls \in Int
    BY DEF Init
  <2>9. openFds \in SUBSET Fd /\ listenFds \in SUBSET Fd
    BY DEF Init
  <2> QED
    BY <2>1, <2>2, <2>3, <2>4, <2>5, <2>6, <2>7, <2>8, <2>9 DEF TypeOK
<1>3. HeapInv
  BY <1>1 DEF Init, HeapInv, HeapClean, Freed, FdsOwned, KnotesTargetLive, NoFilters,
              ListenersKeepPolling
<1>4. PendingInv
  <2>1. DOMAIN <<>> = {}
    OBVIOUS
  <2> QED
    BY <2>1 DEF Init, PendingInv, PendingReadyLive, PendingDistinct
<1>5. HandlerInv
  BY DEF Init, HandlerInv, HandlerPointersValid, NoCb
<1>6. NumPollsExact
  BY <1>1, FS_EmptySet DEF Init, NumPollsExact
<1> QED
  BY <1>2, <1>3, <1>4, <1>5, <1>6 DEF IInv

-----------------------------------------------------------------------------
(***************************************************************************)
(* The theorems.  Adoption # "any" excludes the moves of asock_poll_resize *)
(* that leave a kernel filter behind; TLC exhibits one (run adopt_any).   *)
(***************************************************************************)

\* The invariant holds in every state the loop and its application can reach.
THEOREM Invariance == Adoption # "any" => (Spec => []IInv)
<1> SUFFICES ASSUME Adoption # "any" PROVE Spec => []IInv
  OBVIOUS
<1>1. Init => IInv
  BY InitEstablishes, ConstantsAssumption
<1>2. IInv /\ [Next]_vars => IInv'
  BY ApiStep, LoopStep, Stutter, ConstantsAssumption DEF Next, Done
<1> QED
  BY <1>1, <1>2, PTL DEF Spec

\* Types: in particular the loop's index never leaves the ready list.
THEOREM TypeSafety == Adoption # "any" => (Spec => []TypeOK)
<1>1. IInv => TypeOK
  BY DEF IInv
<1> QED
  BY <1>1, Invariance, PTL

\* No pending ready entry points to a socket that was closed, freed or moved.
THEOREM MemorySafety == Adoption # "any" => (Spec => []PendingReadyLive)
<1>1. IInv => PendingReadyLive
  BY DEF IInv, PendingInv
<1> QED
  BY <1>1, Invariance, PTL

\* No filter the kernel has points to one either: a socket's filters go with it.
THEOREM KernelSafety == Adoption # "any" => (Spec => []KnotesTargetLive)
<1>1. IInv => KnotesTargetLive
  BY DEF IInv, HeapInv
<1> QED
  BY <1>1, Invariance, PTL

\* Nor is the socket of a running handler, or the listen socket whose accept loop
\* called it, freed before the handler returns.
THEOREM HandlerSafety == Adoption # "any" => (Spec => []HandlerPointersValid)
<1>1. IInv => HandlerPointersValid
  BY DEF IInv, HandlerInv
<1> QED
  BY <1>1, Invariance, PTL

\* Descriptors are neither leaked, nor shared, nor closed under a live socket.
THEOREM DescriptorSafety == Adoption # "any" => (Spec => []FdsOwned)
<1>1. IInv => FdsOwned
  BY DEF IInv, HeapInv
<1> QED
  BY <1>1, Invariance, PTL

\* num_polls, the loop's reason to go on, is the number of sockets in memory.
THEOREM PollCounting == Adoption # "any" => (Spec => []NumPollsExact)
<1>1. IInv => NumPollsExact
  BY DEF IInv
<1> QED
  BY <1>1, Invariance, PTL

\* No sequence of events makes a listen socket deaf.
THEOREM ListenersHear == Adoption # "any" => (Spec => []ListenersKeepPolling)
<1>1. IInv => ListenersKeepPolling
  BY DEF IInv, HeapInv
<1> QED
  BY <1>1, Invariance, PTL

-----------------------------------------------------------------------------
(***************************************************************************)
(* The event loop implements SocketLifecycle, for any number of addresses  *)
(* and descriptors: a proof about two applications it rests on, one that   *)
(* leaves connecting sockets alone (~EagerApp) and one that adopts only    *)
(* sockets whose filters are the ones they record (Adoption # "any").      *)
(***************************************************************************)

(***************************************************************************)
(* What a socket is: a listen socket is never opened, and of the others    *)
(* those not opened yet are the semi-sockets that poll for writable alone. *)
(* This is what lets dispatch tell them apart by their events.             *)
(***************************************************************************)
Role(s) ==
  IF sock[s].fd \in listenFds
    THEN ~sock[s].opened
    ELSE /\ sock[s].opened <=> sock[s].type # "SEMI"
         /\ ~sock[s].opened => PollsFor(s) = {WRITABLE}

RoleInv == \A s \in Live : Role(s)

\* The refinement mapping's view of the heap.
Life == [a \in Addr |-> Stage(a)]

-----------------------------------------------------------------------------
(***************************************************************************)
(* What the pieces of EventLoop do to stages and roles.                    *)
(***************************************************************************)
\* Sockets a step leaves alone keep their stage and their role, as long as their
\* descriptors listen as before.
LEMMA Untouched ==
  ASSUME NEW s \in Addr, sock'[s] = sock[s],
         s \in Live => (sock[s].fd \in listenFds' <=> sock[s].fd \in listenFds)
  PROVE  Stage(s)' = Stage(s) /\ (s \in Live => (Role(s)' <=> Role(s)))
<1>1. (s \in Allocated)' <=> s \in Allocated
  BY DEF Allocated
<1>2. IsClosed(s)' <=> IsClosed(s)
  BY DEF IsClosed
<1>3. s \in Live => (Role(s)' <=> Role(s))
  BY DEF Role, PollsFor
<1>4. sock'[s].opened = sock[s].opened /\ sock'[s].fd = sock[s].fd
  OBVIOUS
<1>5. s \in Allocated /\ ~IsClosed(s) => (sock'[s].fd \in listenFds' <=> sock[s].fd \in listenFds)
  BY <1>4 DEF Live
<1>6. Stage(s)' = Stage(s)
  BY <1>1, <1>2, <1>4, <1>5 DEF Stage
<1> QED
  BY <1>3, <1>6

\* A new poll is a listen socket, a connect socket or an accepted one.
LEMMA NewPollLife ==
  ASSUME IInv, RoleInv, NEW a \in Addr, NEW f \in Fd, NEW type \in Types,
         NEW events \in SUBSET Events, NEW opened \in BOOLEAN,
         CreateSocket(f), NewPoll(a, f, type, events, opened),
         \/ listenFds' = listenFds /\ (opened <=> type # "SEMI") /\ (~opened => events = {WRITABLE})
         \/ listenFds' = listenFds \cup {f} /\ type = "SEMI" /\ events = {READABLE} /\ ~opened
  PROVE  /\ RoleInv' /\ Stage(a) = "free"
         /\ Life' = [Life EXCEPT ![a] = IF opened THEN "open"
                                         ELSE IF listenFds' = listenFds THEN "connecting"
                                                                        ELSE "listening"]
<1> USE TypeParts DEF IInv
<1>1. /\ a \notin Allocated /\ f \notin openFds /\ f \notin listenFds
      /\ sock'[a] = [type |-> type, bits |-> StartBits(events), fd |-> f,
                     closed |-> FALSE, opened |-> opened]
      /\ \A b \in Addr : b # a => sock'[b] = sock[b]
  BY DEF NewPoll, CreateSocket, SockOK, HeapInv
<1>2. Live' = Live \cup {a}
  BY <1>1 DEF Live, Allocated, IsClosed, Types
<1>3. \A b \in Addr : b # a /\ b \in Live => (sock[b].fd \in listenFds' <=> sock[b].fd \in listenFds)
  BY <1>1 DEF HeapInv, FdsOwned
<1>4. \A b \in Addr : b # a => Stage(b)' = Stage(b) /\ (b \in Live => (Role(b)' <=> Role(b)))
  BY <1>1, <1>3, Untouched
<1>5. sock'[a].fd \in listenFds' <=> listenFds' # listenFds
  BY <1>1
<1>6. Role(a)'
  <2>1. PollsFor(a)' = events
    BY <1>1, StartRecords DEF PollsFor
  <2>2. sock'[a].type = type /\ (sock'[a].opened <=> opened)
    BY <1>1
  <2>3. CASE listenFds' = listenFds
    <3>1. sock'[a].fd \notin listenFds'
      BY <1>5, <2>3
    <3>2. (opened <=> type # "SEMI") /\ (~opened => events = {WRITABLE})
      BY <1>1, <2>3
    <3> QED
      BY <2>1, <2>2, <3>1, <3>2 DEF Role
  <2>4. CASE listenFds' # listenFds
    BY <1>5, <2>2, <2>4 DEF Role
  <2> QED
    BY <2>3, <2>4
<1>7. Stage(a)' = IF opened THEN "open" ELSE IF listenFds' = listenFds THEN "connecting" ELSE "listening"
  <2>1. (a \in Allocated)' /\ ~IsClosed(a)' /\ sock'[a].opened = opened
    BY <1>1 DEF Allocated, IsClosed, Types
  <2> QED
    BY <1>5, <2>1 DEF Stage
<1>8. RoleInv'
  BY <1>2, <1>4, <1>6 DEF RoleInv, Live, Allocated
<1>9. Stage(a) = "free"
  BY <1>1 DEF Stage
<1> QED
  BY <1>4, <1>7, <1>8, <1>9 DEF Life

\* A change of events or of type is for sockets that are open, and they stay so.
LEMMA PollChangeLife ==
  ASSUME IInv, RoleInv, NEW s \in Live, sock[s].fd \notin listenFds, sock[s].opened,
         NEW t \in Sock, t.type \in {"SOCKET", "SHUTDOWN"}, t.fd = sock[s].fd, ~t.closed, t.opened,
         NEW events \in SUBSET Events, PollChange(s, t, events),
         UNCHANGED <<openFds, listenFds>>
  PROVE  RoleInv' /\ Life' = Life
<1> USE TypeParts DEF IInv
<1>1. s \in Addr /\ s \in Allocated
  BY DEF Live, Allocated
<1>2. Live' = Live /\ Allocated' = Allocated /\ \A a \in Addr : a # s => sock'[a] = sock[a]
  BY PollChangeHeap, ConstantsAssumption
<1>3. \E bits \in SUBSET Bits : sock'[s] = [t EXCEPT !.bits = bits]
  <2>1. t = [t EXCEPT !.bits = t.bits] /\ t.bits \in SUBSET Bits
    BY DEF Sock
  <2> QED
    BY <1>1, <2>1, BitsType DEF PollChange, SockOK
<1>4. sock'[s].type = t.type /\ sock'[s].fd = sock[s].fd /\ sock'[s].opened /\ ~sock'[s].closed
  BY <1>3 DEF Sock
<1>5. \A a \in Addr : a # s => Stage(a)' = Stage(a) /\ (a \in Live => (Role(a)' <=> Role(a)))
  BY <1>2, Untouched
<1>6. Role(s)'
  BY <1>4 DEF Role
<1>7. Stage(s)' = "open" /\ Stage(s) = "open"
  BY <1>1, <1>2, <1>4 DEF Stage, IsClosed, Live
<1>8. RoleInv'
  BY <1>2, <1>5, <1>6 DEF RoleInv, Live, Allocated
<1> QED
  BY <1>5, <1>7, <1>8 DEF Life

\* Closing a live socket changes the stage of that one.
LEMMA CloseLife ==
  ASSUME IInv, RoleInv, NEW s \in Live, Close(s)
  PROVE  RoleInv' /\ Life' = [Life EXCEPT ![s] = "closed"]
<1> USE TypeParts DEF IInv
<1>1. /\ s \in Addr /\ s \in Allocated
      /\ \A u \in Live : u # s => sock[u].fd # sock[s].fd
  BY DEF HeapInv, FdsOwned, Live, Allocated
<1>2. /\ sock' = [sock EXCEPT ![s].closed = TRUE]
      /\ listenFds' = listenFds \ {sock[s].fd}
  BY DEF Close, Bury, CloseFd, Live
<1>3. Live' = Live \ {s} /\ Allocated' = Allocated
  BY CloseHeap, ConstantsAssumption
<1>4. \A a \in Addr : a # s => sock'[a] = sock[a]
  BY <1>2 DEF SockOK
<1>5. \A a \in Addr : a # s => Stage(a)' = Stage(a) /\ (a \in Live => (Role(a)' <=> Role(a)))
  BY <1>1, <1>2, <1>4, Untouched
<1>6. Stage(s)' = "closed"
  <2>1. IsClosed(s)'
    BY <1>1, <1>2 DEF IsClosed, SockOK, Sock
  <2> QED
    BY <1>1, <1>3, <2>1 DEF Stage
<1>7. RoleInv'
  BY <1>3, <1>5 DEF RoleInv, Live, Allocated
<1> QED
  BY <1>5, <1>6, <1>7 DEF Life

\* A step that leaves heap and kernel alone.
LEMMA LifeFrame ==
  ASSUME RoleInv, UNCHANGED <<sock, listenFds>>
  PROVE  RoleInv' /\ Life' = Life
<1>1. \A a \in Addr : Stage(a)' = Stage(a) /\ (a \in Live => (Role(a)' <=> Role(a)))
  BY Untouched
<1>2. Live' = Live
  BY DEF Live, Allocated, IsClosed
<1>3. RoleInv'
  BY <1>1, <1>2 DEF RoleInv, Live, Allocated
<1> QED
  BY <1>1, <1>3 DEF Life

\* The loop dispatches data, the end and errors to open sockets only.
LEMMA ProperIsOpen ==
  ASSUME IInv, RoleInv, NEW s \in Addr, Proper(s)
  PROVE  /\ s \in Live /\ sock[s].fd \notin listenFds /\ sock[s].opened
         /\ Stage(s) = "open" /\ cb = NoCb
<1>1. s \in Live /\ cb = NoCb
  BY DispatchesLive, ConstantsAssumption DEF Proper, IInv
<1>2. sock[s].type # "SEMI"
  BY DEF Proper
<1>3. sock[s].fd \notin listenFds
  BY <1>1, <1>2, StreamsDoNotListen DEF IInv
<1>4. sock[s].opened
  BY <1>1, <1>2, <1>3 DEF RoleInv, Role
<1> QED
  BY <1>1, <1>3, <1>4 DEF Stage, Live

-----------------------------------------------------------------------------
(***************************************************************************)
(* Every step is a step of SocketLifecycle, or none.                       *)
(***************************************************************************)
LifeStep == [Lifecycle!LifeNext]_(Lifecycle!lifeVars)

\* The mapping, for the proofs below.
LEMMA Mapping ==
  /\ (Life' = Life /\ cb' = cb => LifeStep)
  /\ (Lifecycle!LifeNext => LifeStep)
BY DEF LifeStep, Life, Lifecycle!lifeVars

\* asock_context_listen and asock_context_connect create a socket.
LEMMA CreateLife ==
  ASSUME IInv, RoleInv, NEW a \in Addr, NEW f \in Fd, ApiListen(a, f) \/ ApiConnect(a, f)
  PROVE  RoleInv' /\ LifeStep
<1>1. CASE ApiListen(a, f)
  <2>1. CreateSocket(f) /\ NewPoll(a, f, "SEMI", {READABLE}, FALSE) /\ cb' = cb
        /\ listenFds' = listenFds \cup {f}
    BY <1>1 DEF ApiListen, ListenSocket
  <2>2. f \notin listenFds
    BY <2>1 DEF CreateSocket, IInv, HeapInv
  <2>3. RoleInv' /\ Stage(a) = "free" /\ Life' = [Life EXCEPT ![a] = "listening"]
    BY <2>1, <2>2, NewPollLife DEF Types, Events
  <2>4. Lifecycle!Create(a)
    BY <2>1, <2>3 DEF Lifecycle!Create, Lifecycle!Becomes, Life
  <2> QED
    BY <2>3, <2>4, Mapping DEF Lifecycle!LifeNext
<1>2. CASE ApiConnect(a, f)
  <2>1. CreateSocket(f) /\ NewPoll(a, f, "SEMI", {WRITABLE}, FALSE) /\ cb' = cb
        /\ listenFds' = listenFds
    BY <1>2 DEF ApiConnect, ConnectSocket
  <2>2. RoleInv' /\ Stage(a) = "free" /\ Life' = [Life EXCEPT ![a] = "connecting"]
    BY <2>1, NewPollLife DEF Types, Events
  <2>3. Lifecycle!Create(a)
    BY <2>1, <2>2 DEF Lifecycle!Create, Lifecycle!Becomes, Life
  <2> QED
    BY <2>2, <2>3, Mapping DEF Lifecycle!LifeNext
<1> QED
  BY <1>1, <1>2

\* A socket closed twice is closed once.
LEMMA ApiCloseLife ==
  ASSUME IInv, RoleInv, NEW s \in Addr, ApiClose(s) \/ ApiListenClose(s)
  PROVE  RoleInv' /\ LifeStep
<1>1. cb' = cb /\ s \in Allocated /\ Close(s)
  BY DEF ApiClose, ApiListenClose, Stream, Live
<1>2. CASE IsClosed(s)
  <2>1. UNCHANGED <<sock, listenFds>>
    BY <1>1, <1>2 DEF Close
  <2> QED
    BY <1>1, <2>1, LifeFrame, Mapping
<1>3. CASE ~IsClosed(s)
  <2>1. s \in Live
    BY <1>1, <1>3 DEF Live
  <2>2. RoleInv' /\ Life' = [Life EXCEPT ![s] = "closed"]
    BY <1>1, <2>1, CloseLife
  <2>3. Stage(s) \in {"listening", "connecting", "open"}
    BY <1>1, <1>3 DEF Stage
  <2>4. Lifecycle!CloseSocket(s)
    BY <1>1, <2>2, <2>3 DEF Lifecycle!CloseSocket, Lifecycle!Becomes, Life
  <2> QED
    BY <2>2, <2>4, Mapping DEF Lifecycle!LifeNext
<1> QED
  BY <1>2, <1>3

\* Writing and shutting down are for open sockets, which they leave open.
LEMMA ApiPollChangeLife ==
  ASSUME ~EagerApp, IInv, RoleInv, NEW s \in Addr, ApiWriteShort(s) \/ ApiShutdown(s)
  PROVE  RoleInv' /\ LifeStep
<1> USE TypeParts DEF IInv
<1>1. /\ s \in Live /\ sock[s].fd \notin listenFds /\ sock[s].opened
      /\ sock[s] \in Sock /\ ~sock[s].closed
      /\ cb' = cb /\ UNCHANGED <<openFds, listenFds>>
  BY DEF ApiWriteShort, ApiShutdown, Usable, Stream, Live, Allocated, IsClosed, SockOK
<1>2. sock[s].type \in {"SOCKET", "SHUTDOWN"}
  BY <1>1 DEF RoleInv, Role, Live, Allocated, Sock, Types
<1>3. CASE ApiWriteShort(s)
  <2>1. PollChange(s, sock[s], {READABLE, WRITABLE}) /\ {READABLE, WRITABLE} \in SUBSET Events
    BY <1>3 DEF ApiWriteShort, Events
  <2>2. RoleInv' /\ Life' = Life
    BY <1>1, <1>2, <2>1, PollChangeLife
  <2> QED
    BY <1>1, <2>2, Mapping
<1>4. CASE ApiShutdown(s)
  <2> DEFINE t == [sock[s] EXCEPT !.type = "SHUTDOWN"]
  <2>1. /\ t \in Sock /\ t.type = "SHUTDOWN" /\ t.fd = sock[s].fd /\ ~t.closed /\ t.opened
        /\ PollChange(s, t, PollsFor(s) \cap {READABLE})
    BY <1>1, <1>4 DEF ApiShutdown, Sock, Types
  <2>2. PollsFor(s) \cap {READABLE} \in SUBSET Events
    BY DEF Events
  <2> HIDE DEF t
  <2>3. RoleInv' /\ Life' = Life
    BY <1>1, <2>1, <2>2, PollChangeLife
  <2> QED
    BY <1>1, <2>3, Mapping
<1> QED
  BY <1>3, <1>4

\* An adopted socket is the same one elsewhere.
LEMMA AdoptLife ==
  ASSUME Adoption # "any", IInv, RoleInv, NEW s \in Addr, NEW n \in Addr, ApiAdopt(s, n)
  PROVE  RoleInv' /\ LifeStep
<1> USE TypeParts DEF IInv
<1>1. /\ s \in Live /\ n \notin Allocated /\ s # n
      /\ Live' = (Live \ {s}) \cup {n}
      /\ sock' = [sock EXCEPT ![n] = sock[s], ![s] = Freed]
  BY AdoptHeap, ConstantsAssumption DEF Live
<1>2. /\ UNCHANGED listenFds /\ sock[s].fd \notin listenFds
      /\ cb' = IF cb.s = s THEN [cb EXCEPT !.s = n] ELSE cb
  BY <1>1 DEF ApiAdopt, Stream, Live
<1>3. /\ sock'[n] = sock[s] /\ sock'[s] = Freed
      /\ \A a \in Addr : a # s /\ a # n => sock'[a] = sock[a]
  BY <1>1 DEF SockOK
<1>4. \A a \in Addr : a # s /\ a # n => Stage(a)' = Stage(a) /\ (a \in Live => (Role(a)' <=> Role(a)))
  BY <1>2, <1>3, Untouched
<1>5. Role(n)' <=> Role(s)
  BY <1>2, <1>3 DEF Role, PollsFor
<1>6. RoleInv'
  BY <1>1, <1>4, <1>5 DEF RoleInv, Live, Allocated
<1>7. Stage(s)' = "free" /\ Stage(n) = "free"
  BY <1>1, <1>3 DEF Stage, Allocated, Freed
<1>8. Stage(n)' = Stage(s) /\ Stage(s) \in {"connecting", "open"}
  BY <1>1, <1>2, <1>3 DEF Stage, Live, Allocated, IsClosed
<1>9. Life' = [Life EXCEPT ![n] = Life[s], ![s] = "free"]
  BY <1>1, <1>4, <1>7, <1>8 DEF Life
<1>10. <<cb'.kind, cb'.s>> = IF cb.s = s THEN <<cb.kind, n>> ELSE <<cb.kind, cb.s>>
  BY <1>2 DEF ControlOK, CbOK
<1>11. Lifecycle!Move(s, n)
  BY <1>7, <1>8, <1>9, <1>10 DEF Lifecycle!Move, Life
<1> QED
  BY <1>6, <1>11, Mapping DEF Lifecycle!LifeNext

\* Returning to the loop, for an entry that called no handler too.
LEMMA AdvanceLife ==
  ASSUME RoleInv, Advance, RoleInv', Life' = Life, cb = NoCb \/ cb.kind # "none"
  PROVE  RoleInv' /\ LifeStep
<1>1. <<cb'.kind, cb'.s>> = <<"none", NULL>>
  BY DEF Advance, NoCb
<1>2. CASE cb = NoCb
  BY <1>1, <1>2, Mapping DEF Advance
<1>3. CASE cb.kind # "none"
  <2>1. Lifecycle!Return
    BY <1>1, <1>3 DEF Lifecycle!Return, Lifecycle!Idle, Life
  <2> QED
    BY <2>1, Mapping DEF Lifecycle!LifeNext
<1> QED
  BY <1>2, <1>3

\* on_open is called for a socket that was connecting.
LEMMA ConnectLife ==
  ASSUME IInv, RoleInv, NEW s \in Addr, DispatchConnect(s)
  PROVE  RoleInv' /\ LifeStep
<1> USE TypeParts DEF IInv
<1>1. s \in Live /\ s \in Allocated /\ cb = NoCb
  BY DispatchesLive, ConstantsAssumption DEF DispatchConnect, Live
<1>2. /\ sock[s].type = "SEMI" /\ sock[s].fd \notin listenFds
      /\ UNCHANGED <<openFds, listenFds, knote>>
      /\ sock' = [sock EXCEPT ![s].type = "SOCKET", ![s].opened = TRUE]
      /\ cb' = [kind |-> "open", s |-> s, ls |-> NULL]
  BY <1>1, StreamsDoNotListen DEF DispatchConnect, Call
<1>3. ~sock[s].opened
  BY <1>1, <1>2 DEF RoleInv, Role
<1>4. /\ sock'[s] = [sock[s] EXCEPT !.type = "SOCKET", !.opened = TRUE]
      /\ \A a \in Addr : a # s => sock'[a] = sock[a]
  BY <1>1, <1>2 DEF SockOK
<1>5. /\ sock'[s].type = "SOCKET" /\ sock'[s].opened
      /\ sock'[s].fd = sock[s].fd /\ sock'[s].closed = sock[s].closed
  BY <1>4 DEF SockOK, Sock
<1>6. \A a \in Addr : a # s => Stage(a)' = Stage(a) /\ (a \in Live => (Role(a)' <=> Role(a)))
  BY <1>2, <1>4, Untouched
<1>7. Stage(s) = "connecting" /\ Stage(s)' = "open"
  BY <1>1, <1>2, <1>3, <1>5 DEF Stage, Live, Allocated, IsClosed
<1>8. Role(s)'
  BY <1>2, <1>5 DEF Role
<1>9. Live' = Live
  <2>1. \A a \in Addr : (a \in Allocated)' <=> a \in Allocated
    BY <1>1, <1>4, <1>5 DEF Allocated
  <2>2. \A a \in Addr : IsClosed(a)' <=> IsClosed(a)
    BY <1>4, <1>5 DEF IsClosed
  <2> QED
    BY <2>1, <2>2 DEF Live, Allocated
<1>10. RoleInv'
  BY <1>6, <1>8, <1>9 DEF RoleInv, Live, Allocated
<1>11. Life' = [Life EXCEPT ![s] = "open"]
  BY <1>6, <1>7 DEF Life
<1>12. Lifecycle!Connected(s)
  BY <1>1, <1>2, <1>7, <1>11 DEF Lifecycle!Connected, Lifecycle!Becomes, Lifecycle!Idle, Life, NoCb
<1> QED
  BY <1>10, <1>12, Mapping DEF Lifecycle!LifeNext

\* on_open is called for an accepted socket, or the accept loop ends.
LEMMA AcceptLife ==
  ASSUME IInv, RoleInv, NEW ls \in Addr, Accept(ls), cb = NoCb \/ cb.kind = "accept"
  PROVE  RoleInv' /\ LifeStep
<1>1. CASE /\ Advance
           /\ UNCHANGED <<pc, ready, lastWriteFailed, numPolls, sock, openFds, listenFds, knote>>
  BY <1>1, LifeFrame, AdvanceLife
<1>2. CASE \E a \in Addr, f \in Fd :
             /\ AcceptSocket(ls, f)
             /\ NewPoll(a, f, "SOCKET", {READABLE}, TRUE)
             /\ cb' = [kind |-> "accept", s |-> a, ls |-> ls]
  <2>1. PICK a \in Addr, f \in Fd : /\ AcceptSocket(ls, f)
                                    /\ NewPoll(a, f, "SOCKET", {READABLE}, TRUE)
                                    /\ cb' = [kind |-> "accept", s |-> a, ls |-> ls]
    BY <1>2
  <2>2. CreateSocket(f) /\ listenFds' = listenFds
    BY <2>1 DEF AcceptSocket
  <2>3. RoleInv' /\ Stage(a) = "free" /\ Life' = [Life EXCEPT ![a] = "open"]
    BY <2>1, <2>2, NewPollLife DEF Types, Events
  <2>4. cb.kind \in {"none", "accept"}
    BY DEF NoCb
  <2>5. Lifecycle!Accepted(a)
    BY <2>1, <2>3, <2>4 DEF Lifecycle!Accepted, Lifecycle!Becomes, Life
  <2> QED
    BY <2>3, <2>5, Mapping DEF Lifecycle!LifeNext
<1> QED
  BY <1>1, <1>2 DEF Accept

\* An error, or the end of the stream after our own, closes an open socket and
\* calls on_close.
LEMMA CloseAndCallLife ==
  ASSUME IInv, RoleInv, NEW s \in Addr, DispatchError(s) \/ RecvClose(s)
  PROVE  RoleInv' /\ LifeStep
<1>1. Proper(s) /\ Close(s) /\ cb' = [kind |-> "close", s |-> s, ls |-> NULL]
  BY DEF DispatchError, RecvClose, Event, CloseAndCall, Call
<1>2. s \in Live /\ Stage(s) = "open" /\ cb = NoCb
  BY <1>1, ProperIsOpen
<1>3. RoleInv' /\ Life' = [Life EXCEPT ![s] = "closed"]
  BY <1>1, <1>2, CloseLife
<1>4. Lifecycle!CloseSocket(s)
  BY <1>1, <1>2, <1>3 DEF Lifecycle!CloseSocket, Lifecycle!Becomes, Lifecycle!Idle, Life, NoCb
<1> QED
  BY <1>3, <1>4, Mapping DEF Lifecycle!LifeNext

\* on_data, on_writable and on_end are called for open sockets.
LEMMA DeliverLife ==
  ASSUME IInv, RoleInv, NEW s \in Addr, DispatchWritable(s) \/ RecvData(s) \/ RecvEnd(s)
  PROVE  RoleInv' /\ LifeStep
<1> USE TypeParts DEF IInv
<1>1. Proper(s)
  BY DEF DispatchWritable, RecvData, RecvEnd, Event
<1>2. s \in Live /\ Stage(s) = "open" /\ cb = NoCb /\ sock[s].fd \notin listenFds /\ sock[s].opened
  BY <1>1, ProperIsOpen
<1>3. PICK kind \in {"data", "writable", "end"} : cb' = [kind |-> kind, s |-> s, ls |-> NULL]
  BY DEF DispatchWritable, RecvData, RecvEnd, Call
<1>4. RoleInv' /\ Life' = Life
  <2>1. CASE UNCHANGED <<sock, listenFds>>
    BY <2>1, LifeFrame
  <2>2. CASE RecvEnd(s)
    <3>1. /\ PollChange(s, sock[s], PollsFor(s) \cap {WRITABLE}) /\ UNCHANGED <<openFds, listenFds>>
          /\ PollsFor(s) \cap {WRITABLE} \in SUBSET Events
      BY <2>2 DEF RecvEnd, Events
    <3>2. sock[s] \in Sock /\ ~sock[s].closed /\ sock[s].type \in {"SOCKET", "SHUTDOWN"}
      BY <1>1, <1>2 DEF Proper, Live, IsClosed, SockOK
    <3> QED
      BY <1>2, <3>1, <3>2, PollChangeLife
  <2> QED
    BY <2>1, <2>2 DEF DispatchWritable, RecvData
<1>5. Lifecycle!Deliver(kind, s)
  BY <1>2, <1>3, <1>4 DEF Lifecycle!Deliver, Lifecycle!Idle, Life, NoCb
<1> QED
  BY <1>4, <1>5, Mapping DEF Lifecycle!LifeNext

\* The sweep timer's callback, and entries that are passed over.
LEMMA PassLife ==
  ASSUME IInv, RoleInv, SkipReady \/ DispatchCallback \/ \E s \in Addr : RecvWouldBlock(s)
  PROVE  RoleInv' /\ LifeStep
<1>1. cb = NoCb /\ UNCHANGED <<sock, listenFds>>
  BY DEF SkipReady, DispatchCallback, RecvWouldBlock, Event, Proper, Dispatches, Dispatching
<1>2. RoleInv' /\ Life' = Life
  BY <1>1, LifeFrame
<1>3. CASE Advance
  BY <1>1, <1>2, <1>3, AdvanceLife
<1>4. CASE Call("tick", NULL)
  <2>1. Lifecycle!Tick
    BY <1>1, <1>2, <1>4 DEF Call, Lifecycle!Tick, Lifecycle!Idle, Life, NoCb
  <2> QED
    BY <1>2, <2>1, Mapping DEF Lifecycle!LifeNext
<1> QED
  BY <1>3, <1>4 DEF SkipReady, DispatchCallback, RecvWouldBlock

\* Closed sockets are freed together, and under no handler.
LEMMA FreeClosedLife ==
  ASSUME IInv, RoleInv, FreeClosed
  PROVE  RoleInv' /\ LifeStep
<1> USE TypeParts DEF IInv
<1>1. /\ cb' = cb /\ UNCHANGED listenFds
      /\ \A a \in Addr : sock'[a] = IF IsClosed(a) THEN Freed ELSE sock[a]
  BY DEF FreeClosed, PollFree
<1>2. cb = NoCb
  <2>1. DOMAIN ready = 1..Len(ready) /\ Len(ready) \in Nat /\ cur \in Nat /\ cur > Len(ready)
    BY DEF FreeClosed, ReadyOK, CurOK
  <2> QED
    BY <2>1 DEF HandlerInv
<1>3. \A a \in Addr : IsClosed(a) => Stage(a) = "closed" /\ Stage(a)' = "free" /\ a \notin Live'
  BY <1>1 DEF Stage, Freed, Allocated, IsClosed, HeapInv, HeapClean, Live
<1>4. \A a \in Addr : ~IsClosed(a) => /\ Stage(a)' = Stage(a) /\ Stage(a) # "closed"
                                      /\ (a \in Live => (Role(a)' <=> Role(a)))
                                      /\ a \in Live' => a \in Live
  <2> SUFFICES ASSUME NEW a \in Addr, ~IsClosed(a)
               PROVE  /\ Stage(a)' = Stage(a) /\ Stage(a) # "closed"
                      /\ (a \in Live => (Role(a)' <=> Role(a)))
                      /\ a \in Live' => a \in Live
    OBVIOUS
  <2>1. sock'[a] = sock[a]
    BY <1>1
  <2>2. Stage(a)' = Stage(a) /\ (a \in Live => (Role(a)' <=> Role(a)))
    BY <1>1, <2>1, Untouched
  <2>3. Stage(a) # "closed"
    BY DEF Stage
  <2>4. a \in Live' => a \in Live
    BY <2>1 DEF Live, Allocated, IsClosed
  <2> QED
    BY <2>2, <2>3, <2>4
<1>5. RoleInv'
  BY <1>3, <1>4 DEF RoleInv, Live, Allocated
<1>6. Lifecycle!Reap
  BY <1>1, <1>2, <1>3, <1>4 DEF Lifecycle!Reap, Lifecycle!Idle, NoCb
<1> QED
  BY <1>5, <1>6, Mapping DEF Lifecycle!LifeNext

\* A handler returns; the socket on_writable was called for is open or closed.
LEMMA ReturnLife ==
  ASSUME IInv, RoleInv, ReturnWritable \/ ReturnAccept \/ ReturnOther
  PROVE  RoleInv' /\ LifeStep
<1> USE TypeParts DEF IInv
<1>1. CASE ReturnWritable
  <2>1. /\ Advance /\ cb.kind # "none" /\ UNCHANGED <<openFds, listenFds>>
        /\ cb.s \in Allocated /\ sock[cb.s].type # "SEMI"
    BY <1>1 DEF ReturnWritable, HandlerInv
  <2>2. CASE UNCHANGED <<sock, knote>>
    BY <2>1, <2>2, LifeFrame, AdvanceLife
  <2>3. CASE /\ ~IsClosed(cb.s)
             /\ PollChange(cb.s, sock[cb.s], PollsFor(cb.s) \cap {READABLE})
    <3>1. cb.s \in Live /\ sock[cb.s].fd \notin listenFds
      BY <2>1, <2>3, StreamsDoNotListen DEF Live
    <3>2. sock[cb.s].opened
      BY <2>1, <3>1 DEF RoleInv, Role
    <3>3. /\ sock[cb.s] \in Sock /\ ~sock[cb.s].closed
          /\ sock[cb.s].type \in {"SOCKET", "SHUTDOWN"}
      BY <2>1, <3>1 DEF SockOK, Sock, Types, Live, Allocated, IsClosed
    <3>4. PollsFor(cb.s) \cap {READABLE} \in SUBSET Events
      BY DEF Events
    <3>5. RoleInv' /\ Life' = Life
      BY <2>1, <2>3, <3>1, <3>2, <3>3, <3>4, PollChangeLife
    <3> QED
      BY <2>1, <3>5, AdvanceLife
  <2> QED
    BY <1>1, <2>2, <2>3 DEF ReturnWritable
<1>2. CASE ReturnAccept
  <2>1. cb.ls \in Addr /\ Accept(cb.ls) /\ cb.kind = "accept"
    BY <1>2 DEF ReturnAccept, HandlerInv, Allocated
  <2> QED
    BY <2>1, AcceptLife
<1>3. CASE ReturnOther
  <2>1. Advance /\ cb.kind # "none" /\ UNCHANGED <<sock, listenFds>>
    BY <1>3 DEF ReturnOther
  <2> QED
    BY <2>1, LifeFrame, AdvanceLife
<1> QED
  BY <1>1, <1>2, <1>3

\* The application's part.
LEMMA ApiLife ==
  ASSUME Adoption # "any", ~EagerApp, IInv, RoleInv, Api
  PROVE  RoleInv' /\ LifeStep
BY CreateLife, ApiCloseLife, ApiPollChangeLife, AdoptLife DEF Api

\* The loop's part.
LEMMA LoopLife ==
  ASSUME IInv, RoleInv, Loop
  PROVE  RoleInv' /\ LifeStep
<1>1. ASSUME NEW s \in Addr, Dispatch(s) PROVE RoleInv' /\ LifeStep
  <2>1. CASE DispatchAccept(s)
    <3>1. cb = NoCb /\ Accept(s)
      BY <2>1 DEF DispatchAccept, Dispatches, Dispatching
    <3> QED
      BY <3>1, AcceptLife
  <2>2. CASE ~DispatchAccept(s)
    BY <1>1, <2>2, ConnectLife, CloseAndCallLife, DeliverLife, PassLife DEF Dispatch
  <2> QED
    BY <2>1, <2>2
<1>2. CASE LoopCheck \/ Kevent
  <2>1. cb' = cb /\ UNCHANGED <<sock, listenFds>>
    BY <1>2 DEF LoopCheck, Kevent
  <2> QED
    BY <2>1, LifeFrame, Mapping
<1> QED
  BY <1>1, <1>2, PassLife, FreeClosedLife, ReturnLife DEF Loop

-----------------------------------------------------------------------------
(***************************************************************************)
(* The theorems.                                                           *)
(***************************************************************************)
\* Next keeps roles and is a step of SocketLifecycle or none.
LEMMA NextLife ==
  ASSUME Adoption # "any", ~EagerApp, IInv, RoleInv, [Next]_vars
  PROVE  RoleInv' /\ LifeStep
<1>1. CASE UNCHANGED vars
  <2>1. cb' = cb /\ UNCHANGED <<sock, listenFds>>
    BY <1>1 DEF vars
  <2> QED
    BY <2>1, LifeFrame, Mapping
<1> QED
  BY <1>1, ApiLife, LoopLife DEF Next, Done

\* Roles are kept as long as connecting sockets are left alone.
THEOREM RoleInvariance == Adoption # "any" /\ ~EagerApp => (Spec => []RoleInv)
<1> SUFFICES ASSUME Adoption # "any", ~EagerApp PROVE Spec => []RoleInv
  OBVIOUS
<1>1. Init => RoleInv
  BY DEF Init, RoleInv, Live, Allocated, Freed
<1>2. IInv /\ RoleInv /\ [Next]_vars => RoleInv'
  BY NextLife
<1> QED
  BY <1>1, <1>2, Invariance, PTL DEF Spec

\* Dispatch never takes a connect socket for a listen socket, or the other way.
THEOREM DispatchTellsRoles == Adoption # "any" /\ ~EagerApp => (Spec => []SemiEventsTellRole)
<1>1. IInv /\ RoleInv => SemiEventsTellRole
  <2> SUFFICES ASSUME IInv, RoleInv, NEW s \in Live, sock[s].type = "SEMI"
               PROVE  PollsFor(s) = {WRITABLE} <=> sock[s].fd \notin listenFds
    BY DEF SemiEventsTellRole
  <2>1. CASE sock[s].fd \in listenFds
    BY <2>1 DEF IInv, HeapInv, ListenersKeepPolling, READABLE, WRITABLE
  <2>2. CASE sock[s].fd \notin listenFds
    BY <2>2 DEF RoleInv, Role
  <2> QED
    BY <2>1, <2>2
<1> QED
  BY <1>1, Invariance, RoleInvariance, PTL

\* Refinement: handlers are called in a legal order on sockets that are open, and
\* no memory is freed under them.
THEOREM LifecycleRefinement == Adoption # "any" /\ ~EagerApp => (Spec => ImplementsLifecycle)
<1> SUFFICES ASSUME Adoption # "any", ~EagerApp PROVE Spec => ImplementsLifecycle
  OBVIOUS
<1>1. Init => Lifecycle!LifeInit
  <2> SUFFICES ASSUME Init PROVE Lifecycle!LifeInit
    OBVIOUS
  <2>1. \A a \in Addr : Stage(a) = "free"
    BY DEF Init, Stage, Allocated, Freed
  <2> QED
    BY <2>1 DEF Init, NoCb, Lifecycle!LifeInit, Lifecycle!Idle
<1>2. IInv /\ RoleInv /\ [Next]_vars => [Lifecycle!LifeNext]_(Lifecycle!lifeVars)
  BY NextLife DEF LifeStep
<1> QED
  BY <1>1, <1>2, Invariance, RoleInvariance, PTL
     DEF Spec, ImplementsLifecycle, Lifecycle!LifeSpec
=============================================================================
