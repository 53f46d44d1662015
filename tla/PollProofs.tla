----------------------------- MODULE PollProofs -----------------------------
(***************************************************************************)
(* What the operators of Poll return, for the proofs of the modules that   *)
(* are built on it.                                                        *)
(***************************************************************************)
EXTENDS Poll, TLAPS

\* The bits a poll records are bits, and what they stand for are events.
LEMMA BitsType ==
  \A events, bits : /\ StartBits(events) \in SUBSET Bits
                    /\ ChangeBits(events) \in SUBSET Bits
                    /\ PollEvents(bits) \in SUBSET Events
BY DEF StartBits, ChangeBits, PollEvents

\* asock_poll_start records what it was asked for.
LEMMA StartRecords ==
  ASSUME NEW events \in SUBSET Events
  PROVE  PollEvents(StartBits(events)) = events
BY DEF StartBits, PollEvents, Bits, Events, READABLE, WRITABLE

\* The loop hears what the bits say.
LEMMA EventsOfBits ==
  \A bits : /\ READABLE \in PollEvents(bits) <=> "IN" \in bits
            /\ WRITABLE \in PollEvents(bits) <=> "OUT" \in bits
BY DEF PollEvents, Events, READABLE, WRITABLE

\* A poll that hears readable hears both once it is made to, and has both filters.
LEMMA AddsWritable ==
  ASSUME NEW filters, NEW bits \in SUBSET Bits, NEW udata, "IN" \in bits,
         NEW both, both = {READABLE, WRITABLE}
  PROVE  /\ ChangeBits(both) = Bits
         /\ PollEvents(bits) = both => bits = Bits
         /\ PollEvents(bits) # both
              => KqueueChange(filters, PollEvents(bits), both, udata)[WRITABLE] = udata
<1>1. ChangeBits(both) = Bits
  BY DEF ChangeBits, Bits
<1>2. CASE "OUT" \in bits
  BY <1>1, <1>2 DEF PollEvents, Events, Bits
<1>3. CASE "OUT" \notin bits
  <2>1. PollEvents(bits) = {READABLE} /\ READABLE # WRITABLE
    BY <1>3 DEF PollEvents, Events, READABLE, WRITABLE
  <2> QED
    BY <1>1, <2>1 DEF KqueueChange, Events
<1> QED
  BY <1>2, <1>3

\* Dropping writable drops the filter, and the poll no longer says that it polls for
\* readable.
LEMMA DropsWritable ==
  ASSUME NEW filters, NEW old \in SUBSET Events, NEW udata
  PROVE  LET new == old \cap {READABLE}
         IN  /\ "IN" \notin ChangeBits(new)
             /\ WRITABLE \in old => KqueueChange(filters, old, new, udata)[WRITABLE] = NULL
BY DEF ChangeBits, KqueueChange, Events, READABLE, WRITABLE

\* kqueue sets a filter to the given pointer, drops it or leaves it alone.
LEMMA KqueueChangeFilters ==
  ASSUME NEW S, NEW filters \in [Events -> S \cup {NULL}], NEW old, NEW new, NEW udata \in S
  PROVE  LET changed == KqueueChange(filters, old, new, udata)
         IN  /\ changed \in [Events -> S \cup {NULL}]
             /\ \A e \in Events : changed[e] \in {filters[e], udata, NULL}
BY DEF KqueueChange

\* Adding filters, old_events being 0, registers exactly those asked for.
LEMMA KqueueAddFilters ==
  ASSUME NEW filters, NEW new \in SUBSET Events, NEW udata
  PROVE  KqueueChange(filters, {}, new, udata)
           = [e \in Events |-> IF e \in new THEN udata ELSE filters[e]]
BY DEF KqueueChange
=============================================================================
