-------------------------------- MODULE Poll --------------------------------
(***************************************************************************)
(* The poll layer of asock (src/core/poll.c, poll.h) as pure operators:    *)
(* what a poll records about itself, what it asks of kqueue, and how the   *)
(* list of ready polls is rewritten when a poll goes away or moves.        *)
(*                                                                         *)
(* poll_type packs two disjoint bit fields: the type (mask 3) and what the *)
(* poll says it polls for (mask 12, ASOCK_POLL_IN and ASOCK_POLL_OUT). The *)
(* type is a string in the modules that use this one; the other field is   *)
(* a subset of Bits. An event mask is a subset of Events.                  *)
(***************************************************************************)
EXTENDS Naturals, Sequences

CONSTANT NULL           \* the null pointer

READABLE == "readable"  \* ASOCK_SOCKET_READABLE and EVFILT_READ
WRITABLE == "writable"  \* ASOCK_SOCKET_WRITABLE and EVFILT_WRITE
Events   == {READABLE, WRITABLE}
Bits     == {"IN", "OUT"}

(***************************************************************************)
(* What a poll records (asock_poll_start, asock_poll_change) and what it   *)
(* is taken to poll for (asock_poll_events).                               *)
(***************************************************************************)
\* Swapped, as in asock_poll_change.
MStartBits(events) ==
  {b \in Bits : \/ b = "IN"  /\ WRITABLE \in events
                \/ b = "OUT" /\ READABLE \in events}

StartBits(events) ==
  {b \in Bits : \/ b = "IN"  /\ READABLE \in events
                \/ b = "OUT" /\ WRITABLE \in events}

\* asock_poll_change pairs WRITABLE with IN and READABLE with OUT.
ChangeBits(events) ==
  {b \in Bits : \/ b = "IN"  /\ WRITABLE \in events
                \/ b = "OUT" /\ READABLE \in events}

PollEvents(bits) ==
  {e \in Events : \/ e = READABLE /\ "IN"  \in bits
                  \/ e = WRITABLE /\ "OUT" \in bits}

-----------------------------------------------------------------------------
(***************************************************************************)
(* A descriptor's kernel filters: the udata pointer of each registered     *)
(* filter, NULL where none is.  kqueue applies a change list in order and  *)
(* stops at the first change it refuses; deleting an absent filter is      *)
(* refused, and the return value that says so is ignored by every caller.  *)
(***************************************************************************)
NoFilters == [e \in Events |-> NULL]

KqueueChange(filters, old, new, udata) ==
  LET Applied(e) == IF (e \in new) # (e \in old)
                      THEN IF e \in new THEN udata ELSE NULL
                      ELSE filters[e]
      refused    == READABLE \in old \ new /\ filters[READABLE] = NULL
  IN  [e \in Events |-> IF e = WRITABLE /\ refused THEN filters[e] ELSE Applied(e)]

(***************************************************************************)
(* asock_loop_update_pending: from the current entry on, the first two     *)
(* entries that hold old_poll (one poll has at most two filters) are made  *)
(* to hold new_poll.                                                       *)
(***************************************************************************)
Pending(ready, cur, poll) == {i \in DOMAIN ready : i >= cur /\ ready[i].poll = poll}

\* Stops after one entry.
MUpdatePendingOne(ready, cur, old_poll, new_poll) ==
  LET pending == Pending(ready, cur, old_poll)
  IN  [i \in DOMAIN ready |->
         IF i \in pending /\ ~\E j \in pending : j < i
           THEN [ready[i] EXCEPT !.poll = new_poll]
           ELSE ready[i]]

UpdatePending(ready, cur, old_poll, new_poll) ==
  LET pending == Pending(ready, cur, old_poll)
  IN  [i \in DOMAIN ready |->
         IF i \in pending /\ ~\E j, k \in pending : j < k /\ k < i
           THEN [ready[i] EXCEPT !.poll = new_poll]
           ELSE ready[i]]
=============================================================================
