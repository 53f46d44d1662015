----------------------------- MODULE EventLoopMC -----------------------------
(***************************************************************************)
(* EventLoop on small instances.  Addresses and descriptors are model      *)
(* values and interchangeable, so safety runs use them as symmetry sets.   *)
(***************************************************************************)
EXTENDS EventLoop, TLC

Symmetry == Permutations(Addr) \cup Permutations(Fd)

\* Entries the loop has passed are never read again: two states that differ in
\* nothing else are the same state.
View == <<pc, cb, [i \in DOMAIN ready |-> IF i < cur THEN NULL ELSE ready[i]],
          cur, lastWriteFailed, numPolls, sock, openFds, listenFds, knote>>
=============================================================================
