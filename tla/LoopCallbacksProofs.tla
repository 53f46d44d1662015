------------------------- MODULE LoopCallbacksProofs -------------------------
(***************************************************************************)
(* Proofs about LoopCallbacks, for any number of timers and asyncs: its    *)
(* counts (CountInv), wakeups from other threads (WakeInv), and which      *)
(* polls may still be called (LiveInv).                                    *)
(***************************************************************************)
EXTENDS LoopCallbacks, FiniteSetTheorems, TLAPS

-----------------------------------------------------------------------------
(***************************************************************************)
(* The inductive invariant.                                                *)
(***************************************************************************)

\* The loop's own timer and async stay as long as the loop.
OwnPolls ==
  /\ pc # "freed" => poll[SWEEP] = [kind |-> "timer", fallthrough |-> TRUE]
  /\ pc # "freed" => poll[WAKEUP] = [kind |-> "async", fallthrough |-> TRUE]

\* The application has no fallthrough polls.
AppCounted == \A a \in Addr : ~poll[a].fallthrough

\* Only a ready poll being dispatched has its callback run, and all of them are
\* dispatched before the loop goes on.
CallbackInv ==
  /\ pc \notin {"dispatch", "crashed"} => \A i \in DOMAIN ready : i < cur
  /\ pc = "dispatch" => cur > 0
  /\ cb # NULL => pc = "dispatch" /\ cur \in DOMAIN ready

CountInv == TypeOK /\ OwnPolls /\ AppCounted /\ CallbackInv /\ NumPollsCounts /\ LoopWaits

USE DEF Ended

-----------------------------------------------------------------------------
\* Every set of polls that is counted is finite.
LEMMA PollsFinite == IsFiniteSet(Polls) /\ IsFiniteSet(Allocated) /\ IsFiniteSet(Counted)
<1>1. IsFiniteSet(Addr \cup {SWEEP}) /\ IsFiniteSet((Addr \cup {SWEEP}) \cup {WAKEUP})
  BY CallbacksAssumption, FS_AddElement
<1>2. Polls = (Addr \cup {SWEEP}) \cup {WAKEUP}
  BY DEF Polls
<1>3. Allocated \in SUBSET Polls /\ Counted \in SUBSET Polls
  BY DEF Allocated, Counted
<1> QED
  BY <1>1, <1>2, <1>3, FS_Subset

\* asock_timer_create and asock_async_create count what they create.
LEMMA CreateCounts ==
  ASSUME CountInv, NEW a \in Addr, NEW kind \in {"timer", "async"}, Create(a, kind, FALSE)
  PROVE  CountInv'
<1> USE DEF CountInv, Create
<1>0. a \in Polls /\ a # SWEEP /\ a # WAKEUP
  BY CallbacksAssumption DEF Polls
<1>1. poll'[a] = [kind |-> kind, fallthrough |-> FALSE] /\ \A b \in Polls \ {a} : poll'[b] = poll[b]
  BY <1>0 DEF TypeOK
<1>2. Allocated' = Allocated \cup {a} /\ Counted' = Counted \cup {a} /\ a \notin Counted
  BY <1>0, <1>1 DEF Allocated, Counted
<1>3. TypeOK'
  BY <1>0 DEF TypeOK
<1>4. OwnPolls' /\ AppCounted'
  BY <1>0, <1>1 DEF OwnPolls, AppCounted, Polls
<1>5. CallbackInv'
  BY DEF CallbackInv
<1>6. NumPollsCounts'
  <2>1. Cardinality(Counted') = Cardinality(Counted) + 1
    BY <1>2, PollsFinite, FS_AddElement
  <2>2. Cardinality(Counted) \in Nat
    BY PollsFinite, FS_CardinalityType
  <2> QED
    BY <2>1, <2>2, CallbacksAssumption DEF NumPollsCounts, TypeOK
<1>7. LoopWaits'
  BY DEF LoopWaits, CallbackInv, AppRuns
<1> QED
  BY <1>3, <1>4, <1>5, <1>6, <1>7

\* asock_poll_free of a poll of the application uncounts it.
LEMMA FreeCounts ==
  ASSUME CountInv, NEW a \in Allocated \ {SWEEP, WAKEUP}, AppRuns, PollFree(a),
         user' \subseteq user, disarmed' \subseteq disarmed,
         early' \in {early, early \cup {a}},
         UNCHANGED <<pc, cb, ready, cur, sockets, timer, asked>>
  PROVE  CountInv'
<1> USE DEF CountInv, PollFree
<1>0. a \in Polls /\ a \in Addr /\ a \in Counted
  BY DEF Polls, Allocated, Counted, OwnPolls, AppCounted
<1>1. poll'[a] = Freed /\ \A b \in Polls \ {a} : poll'[b] = poll[b]
  BY <1>0 DEF TypeOK
<1>2. Allocated' = Allocated \ {a} /\ Counted' = Counted \ {a}
  BY <1>0, <1>1 DEF Allocated, Counted, Freed
<1>3. TypeOK'
  BY <1>0 DEF TypeOK, Freed
<1>4. OwnPolls' /\ AppCounted'
  BY <1>0, <1>1, CallbacksAssumption DEF OwnPolls, AppCounted, Polls, Freed
<1>5. CallbackInv'
  BY DEF CallbackInv
<1>6. NumPollsCounts'
  <2>1. Cardinality(Counted') = Cardinality(Counted) - 1
    BY <1>0, <1>2, PollsFinite, FS_RemoveElement
  <2>2. Cardinality(Counted) \in Nat
    BY PollsFinite, FS_CardinalityType
  <2> QED
    BY <2>1, <2>2, CallbacksAssumption DEF NumPollsCounts, TypeOK
<1>7. LoopWaits'
  BY DEF LoopWaits, CallbackInv, AppRuns
<1> QED
  BY <1>3, <1>4, <1>5, <1>6, <1>7

\* A step that leaves the polls and their number alone keeps the count.
LEMMA CountKept ==
  ASSUME NumPollsCounts, UNCHANGED <<numPolls, poll, sockets>>, pc = "freed" => pc' = "freed"
  PROVE  NumPollsCounts' /\ Counted' = Counted
BY DEF NumPollsCounts, Counted, Allocated

\* Whatever the application does in a callback, the count stays right.
LEMMA AppCounts ==
  ASSUME CountInv, App, Fallthrough \subseteq {FALSE}
  PROVE  CountInv'
<1>1. CASE \E a \in Addr, f \in Fallthrough : TimerCreate(a, f) \/ AsyncCreate(a, f)
  BY <1>1, CreateCounts DEF TimerCreate, AsyncCreate
<1>2. CASE \E a \in Addr : \E ms, repeat_ms \in 0..1 : TimerSet(a, ms, repeat_ms)
  <2>1. PICK a \in Addr : \E ms, repeat_ms \in 0..1 : TimerSet(a, ms, repeat_ms)
    BY <1>2
  <2>2. TypeOK'
    BY <2>1 DEF TimerSet, Armed, CountInv, TypeOK
  <2>3. NumPollsCounts' /\ Counted' = Counted /\ Allocated' = Allocated
    BY <2>1, CountKept DEF TimerSet, CountInv, Allocated
  <2> QED
    BY <2>1, <2>2, <2>3 DEF TimerSet, CountInv, OwnPolls, AppCounted, CallbackInv, LoopWaits
<1>3. CASE \E a \in Addr : TimerClose(a) \/ AsyncClose(a)
  <2>1. PICK a \in Addr : TimerClose(a) \/ AsyncClose(a)
    BY <1>3
  <2>2. a \in Allocated \ {SWEEP, WAKEUP} /\ AppRuns /\ PollFree(a)
    BY <2>1, CallbacksAssumption DEF TimerClose, AsyncClose
  <2>3. /\ user' \subseteq user /\ disarmed' \subseteq disarmed
        /\ early' \in {early, early \cup {a}}
        /\ UNCHANGED <<pc, cb, ready, cur, sockets, timer, asked>>
    BY <2>1 DEF TimerClose, AsyncClose
  <2> QED
    BY <2>2, <2>3, FreeCounts
<1>4. CASE \E n \in 0..MaxSockets : SocketsChange(n)
  <2>1. PICK n \in 0..MaxSockets : SocketsChange(n)
    BY <1>4
  <2>2. Cardinality(Counted) \in Nat /\ Counted' = Counted
    BY <2>1, PollsFinite, FS_CardinalityType DEF SocketsChange, Counted, Allocated
  <2>3. TypeOK'
    BY <2>1, CallbacksAssumption DEF SocketsChange, CountInv, TypeOK
  <2>4. NumPollsCounts'
    BY <2>1, <2>2, CallbacksAssumption DEF SocketsChange, CountInv, TypeOK, NumPollsCounts
  <2>5. LoopWaits'
    BY <2>1 DEF SocketsChange, CountInv, LoopWaits, CallbackInv, AppRuns
  <2> QED
    BY <2>1, <2>3, <2>4, <2>5 DEF SocketsChange, CountInv, OwnPolls, AppCounted, CallbackInv
<1> QED
  BY <1>1, <1>2, <1>3, <1>4 DEF App

\* kevent returns a list of polls, each of them reported by a timer or a user event,
\* and every user event it takes is in the list.
LEMMA ReportType ==
  ASSUME TypeOK, NEW timers \in SUBSET ArmedTimers, NEW users \in SUBSET user,
         Report(timers, users)
  PROVE  /\ ready' \in Seq(Polls)
         /\ \A i \in DOMAIN ready' : ready'[i] \in timers \cup users
         /\ \A a \in users : \E i \in DOMAIN ready' : ready'[i] = a
         /\ timer' \in [Polls -> {"off", "once", "repeat"}]
         /\ \A a \in Polls : timer'[a] \in {timer[a], "off"}
         /\ user' = user \ users /\ user' \subseteq Polls
<1> DEFINE events == (timers \X {"timer"}) \cup (users \X {"user"})
<1>1. timers \subseteq Polls /\ users \subseteq Polls
  BY DEF ArmedTimers, TypeOK
<1>2. Cardinality(events) \in Nat
  <2>1. IsFiniteSet(timers) /\ IsFiniteSet(users)
    BY <1>1, PollsFinite, FS_Subset
  <2>2. IsFiniteSet({"timer"}) /\ IsFiniteSet({"user"})
    BY FS_Singleton
  <2>3. IsFiniteSet(timers \X {"timer"}) /\ IsFiniteSet(users \X {"user"})
    BY <2>1, <2>2, FS_Product
  <2> QED
    BY <2>3, FS_Union, FS_CardinalityType
<1>3. PICK r \in Orders(events) : ready' = [i \in 1..Cardinality(events) |-> r[i][1]]
  BY DEF Report
<1>4. /\ r \in [1..Cardinality(events) -> events]
      /\ \A e \in events : \E i \in 1..Cardinality(events) : r[i] = e
  BY <1>3 DEF Orders
<1>5. \A e \in events : e[1] \in timers \cup users
  OBVIOUS
<1>6. /\ DOMAIN ready' = 1..Cardinality(events)
      /\ \A i \in 1..Cardinality(events) : ready'[i] = r[i][1] /\ ready'[i] \in timers \cup users
  BY <1>3, <1>4, <1>5
<1>7. ready' \in Seq(Polls)
  <2>1. \A i \in 1..Cardinality(events) : r[i][1] \in Polls
    BY <1>1, <1>4, <1>5
  <2>2. ready' \in [1..Cardinality(events) -> Polls]
    BY <1>3, <2>1
  <2> HIDE DEF events
  <2> QED
    BY <1>2, <2>2
<1>8. \A a \in users : \E i \in DOMAIN ready' : ready'[i] = a
  <2> SUFFICES ASSUME NEW a \in users PROVE \E i \in DOMAIN ready' : ready'[i] = a
    OBVIOUS
  <2>1. <<a, "user">> \in events
    OBVIOUS
  <2>2. PICK i \in 1..Cardinality(events) : r[i] = <<a, "user">>
    BY <1>4, <2>1
  <2> HIDE DEF events
  <2>3. r[i][1] = a
    BY <2>2
  <2>4. i \in DOMAIN ready' /\ ready'[i] = r[i][1]
    BY <1>6
  <2> QED
    BY <2>3, <2>4
<1>9. /\ timer' \in [Polls -> {"off", "once", "repeat"}]
      /\ \A a \in Polls : timer'[a] \in {timer[a], "off"}
      /\ user' = user \ users /\ user' \subseteq Polls
  BY DEF Report, TypeOK
<1> QED
  BY <1>6, <1>7, <1>8, <1>9

\* The loop itself creates and frees no timer, and stops only at a count of 0.
LEMMA LoopCounts ==
  ASSUME CountInv, Loop
  PROVE  CountInv'
<1> USE DEF CountInv
<1>1. CASE LoopRun
  <2>1. TypeOK'
    BY <1>1 DEF LoopRun, Integrate, TypeOK, Polls
  <2> QED
    BY <1>1, <2>1, CountKept DEF LoopRun, OwnPolls, AppCounted, CallbackInv, LoopWaits
<1>2. CASE LoopCheck
  <2>1. numPolls = 0 => sockets = 0 /\ Counted = {}
    <3>1. Cardinality(Counted) \in Nat /\ (Cardinality(Counted) = 0 => Counted = {})
      BY PollsFinite, FS_CardinalityType, FS_EmptySet
    <3> QED
      BY <1>2, <3>1, CallbacksAssumption DEF LoopCheck, NumPollsCounts, TypeOK
  <2>2. TypeOK'
    BY <1>2 DEF LoopCheck, TypeOK
  <2> QED
    BY <1>2, <2>1, <2>2, CountKept DEF LoopCheck, OwnPolls, AppCounted, CallbackInv, LoopWaits
<1>3. CASE Kevent
  <2>1. PICK timers \in SUBSET ArmedTimers, users \in SUBSET user : Report(timers, users)
    BY <1>3 DEF Kevent
  <2>2. ready' \in Seq(Polls) /\ timer' \in [Polls -> {"off", "once", "repeat"}] /\ user' \subseteq Polls
    BY <2>1, ReportType
  <2>3. TypeOK'
    BY <1>3, <2>2 DEF Kevent, TypeOK
  <2> QED
    BY <1>3, <2>3, CountKept DEF Kevent, OwnPolls, AppCounted, CallbackInv, LoopWaits
<1>4. CASE DispatchCallback
  <2>1. cur \in Nat /\ Len(ready) \in Nat /\ DOMAIN ready = 1..Len(ready)
    BY DEF TypeOK
  <2>2. cur \in DOMAIN ready
    BY <1>4, <2>1 DEF DispatchCallback, CallbackInv
  <2>3. ready[cur] \in Polls
    BY <2>2 DEF TypeOK
  <2>4. cb' = ready[cur] /\ asked' \in BOOLEAN
    BY <1>4 DEF DispatchCallback, TypeOK
  <2>5. TypeOK'
    BY <1>4, <2>3, <2>4 DEF DispatchCallback, TypeOK
  <2> QED
    BY <1>4, <2>2, <2>5, CountKept DEF DispatchCallback, OwnPolls, AppCounted, CallbackInv, LoopWaits
<1>5. CASE CallbackReturns
  <2>1. cur + 1 \in 0..Len(ready) + 1
    BY <1>5 DEF CallbackReturns, CallbackInv, TypeOK
  <2>2. TypeOK'
    BY <1>5, <2>1 DEF CallbackReturns, TypeOK
  <2>3. pc' = "dispatch" /\ cb' = NULL /\ cur' > 0
    BY <1>5 DEF CallbackReturns, CallbackInv, TypeOK
  <2>4. CallbackInv' /\ LoopWaits'
    BY <2>3 DEF CallbackInv, LoopWaits
  <2> QED
    BY <1>5, <2>2, <2>4, CountKept DEF CallbackReturns, OwnPolls, AppCounted
<1>6. CASE LoopPost
  <2>1. TypeOK'
    BY <1>6 DEF LoopPost, TypeOK
  <2>2. cb' = NULL /\ pc' = "post" /\ \A i \in DOMAIN ready' : i < cur'
    BY <1>6 DEF LoopPost, CallbackInv, TypeOK
  <2>3. CallbackInv' /\ LoopWaits'
    BY <2>2 DEF CallbackInv, LoopWaits
  <2> QED
    BY <1>6, <2>1, <2>3, CountKept DEF LoopPost, OwnPolls, AppCounted
<1>7. CASE DispatchCrashes
  <2>1. cb' = NULL /\ TypeOK'
    BY <1>7 DEF DispatchCrashes, TypeOK
  <2> QED
    BY <1>7, <2>1, CountKept DEF DispatchCrashes, OwnPolls, AppCounted, CallbackInv, LoopWaits
<1> QED
  BY <1>1, <1>2, <1>3, <1>4, <1>5, <1>6, <1>7 DEF Loop

\* asock_loop_free: the loop returned with everything dispatched and nothing left
\* but its own polls, which go with it.
LEMMA FreeEndsLoop ==
  ASSUME CountInv, LoopFree
  PROVE  /\ CountInv'
         /\ \A i \in DOMAIN ready' : i < cur'
<1>1. SWEEP \in Polls /\ WAKEUP \in Polls /\ SWEEP \notin Addr /\ WAKEUP \notin Addr
  BY CallbacksAssumption DEF Polls
<1>2. /\ poll'[SWEEP] = Freed /\ poll'[WAKEUP] = Freed
      /\ \A a \in Addr : poll'[a] = poll[a]
  BY <1>1 DEF LoopFree, CountInv, TypeOK, Polls
<1>3. TypeOK'
  <2>1. poll' \in [Polls -> [kind : {"timer", "async", "FREED"}, fallthrough : BOOLEAN]]
    BY <1>1 DEF LoopFree, CountInv, TypeOK, Freed
  <2>2. numPolls' \in Int /\ timer' \in [Polls -> {"off", "once", "repeat"}] /\ user' \subseteq Polls
    BY DEF LoopFree, CountInv, TypeOK
  <2> QED
    BY <2>1, <2>2 DEF LoopFree, CountInv, TypeOK
<1>4. Counted' = {} /\ SWEEP \notin Allocated' /\ WAKEUP \notin Allocated'
  <2>1. Counted = {} /\ \A a \in Addr : a \notin Counted
    BY DEF LoopFree, CountInv, LoopWaits
  <2>2. \A a \in Addr : a \in Polls /\ (a \in Counted' => a \in Counted)
    BY <1>2 DEF Counted, Allocated, Polls
  <2> QED
    BY <1>2, <2>1, <2>2 DEF Counted, Allocated, Polls, Freed
<1>5. LoopWaits' /\ NumPollsCounts'
  BY <1>4 DEF LoopFree, CountInv, LoopWaits, NumPollsCounts
<1>6. OwnPolls' /\ AppCounted' /\ CallbackInv' /\ \A i \in DOMAIN ready' : i < cur'
  BY <1>2 DEF LoopFree, CountInv, OwnPolls, AppCounted, CallbackInv
<1> QED
  BY <1>3, <1>5, <1>6 DEF CountInv

-----------------------------------------------------------------------------
(***************************************************************************)
(* Theorems.  Fallthrough \subseteq {FALSE} says that the application       *)
(* creates no fallthrough timer or async: asock_poll_free uncounts what    *)
(* asock_timer_create never counted (run LoopCallbacks_fallthrough).       *)
(***************************************************************************)

\* The counting invariant holds in every reachable state.
THEOREM CountInvariance == Fallthrough \subseteq {FALSE} => (Spec => []CountInv)
<1> SUFFICES ASSUME Fallthrough \subseteq {FALSE} PROVE Spec => []CountInv
  OBVIOUS
<1>1. Init => CountInv
  <2> SUFFICES ASSUME Init PROVE CountInv
    OBVIOUS
  <2>1. \A a \in Addr : poll[a] = Freed
    BY CallbacksAssumption DEF Init, Polls
  <2>2. OwnPolls /\ AppCounted
    BY <2>1, CallbacksAssumption DEF Init, OwnPolls, AppCounted, Polls, Freed
  <2>3. Counted = {}
    BY <2>1, <2>2 DEF Init, Counted, Allocated, Polls, Freed, OwnPolls, AppCounted
  <2>4. poll \in [Polls -> [kind : {"timer", "async", "FREED"}, fallthrough : BOOLEAN]]
    BY DEF Init, Freed
  <2>5. timer \in [Polls -> {"off", "once", "repeat"}] /\ ready \in Seq(Polls) /\ Len(ready) = 0
    BY DEF Init
  <2>6. TypeOK
    <3>1. cur \in 0..Len(ready) + 1 /\ sockets \in 0..MaxSockets /\ numPolls \in Int
      BY <2>5, CallbacksAssumption DEF Init
    <3> QED
      BY <2>4, <2>5, <3>1 DEF Init, TypeOK
  <2> QED
    BY <2>2, <2>3, <2>6, FS_EmptySet DEF Init, CountInv, CallbackInv, NumPollsCounts, LoopWaits
<1>2. CountInv /\ [Next]_vars => CountInv'
  <2> SUFFICES ASSUME CountInv, [Next]_vars PROVE CountInv'
    OBVIOUS
  <2>1. CASE App
    BY <2>1, AppCounts
  <2>2. CASE LoopWakeup \/ \E a \in Addr : WakeAsync(a)
    <3>1. user' \subseteq Polls /\ asked' \in BOOLEAN
      BY <2>2 DEF LoopWakeup, WakeAsync, AsyncWakeup, CountInv, TypeOK, Polls
    <3>2. UNCHANGED <<pc, cb, ready, cur, numPolls, poll, sockets, timer, disarmed, early>>
      BY <2>2 DEF LoopWakeup, WakeAsync
    <3>3. NumPollsCounts' /\ Counted' = Counted /\ Allocated' = Allocated
      BY <3>2, CountKept DEF CountInv, Allocated
    <3> QED
      BY <3>1, <3>2, <3>3 DEF CountInv, TypeOK, OwnPolls, AppCounted, CallbackInv, LoopWaits
  <2>3. CASE Loop
    BY <2>3, LoopCounts
  <2>4. CASE LoopFree
    BY <2>4, FreeEndsLoop
  <2>5. CASE UNCHANGED vars
    <3>1. NumPollsCounts' /\ Counted' = Counted /\ Allocated' = Allocated
      BY <2>5, CountKept DEF vars, CountInv, Allocated
    <3> QED
      BY <2>5, <3>1 DEF vars, CountInv, TypeOK, OwnPolls, AppCounted, CallbackInv, LoopWaits
  <2> QED
    BY <2>1, <2>2, <2>3, <2>4, <2>5 DEF Next, Done
<1> QED
  BY <1>1, <1>2, PTL DEF Spec

\* num_polls is what its comment says, as long as there is a loop.
THEOREM CallbackCounting == Fallthrough \subseteq {FALSE} => (Spec => []NumPollsCounts)
<1>1. CountInv => NumPollsCounts
  BY DEF CountInv
<1> QED
  BY <1>1, CountInvariance, PTL

\* asock_loop_run returns only when there is nothing left to wait for, and
\* asock_loop_free leaves no poll of the loop behind.
THEOREM LoopReturnsLast == Fallthrough \subseteq {FALSE} => (Spec => []LoopWaits)
<1>1. CountInv => LoopWaits
  BY DEF CountInv
<1> QED
  BY <1>1, CountInvariance, PTL

-----------------------------------------------------------------------------
(***************************************************************************)
(* Types and wakeups, whatever the application creates and closes.         *)
(***************************************************************************)
\* A callback runs only during dispatch, for the current entry.
RunInv ==
  /\ TypeOK
  /\ CallbackInv
  /\ cb # NULL => ready[cur] = cb

WakeInv == RunInv /\ WakeupNotLost

LEMMA AppWakes ==
  ASSUME WakeInv, App
  PROVE  WakeInv'
<1>1. /\ UNCHANGED <<pc, cb, ready, cur, asked>>
      /\ WAKEUP \in user => WAKEUP \in user'
  BY DEF App, TimerCreate, AsyncCreate, Create, TimerSet, TimerClose, AsyncClose, SocketsChange
<1>2. TypeOK'
  <2>1. CASE \E a \in Addr, f \in Fallthrough : TimerCreate(a, f) \/ AsyncCreate(a, f)
    BY <2>1, CallbacksAssumption DEF TimerCreate, AsyncCreate, Create, WakeInv, RunInv, TypeOK
  <2>2. CASE \E a \in Addr : \E ms, repeat_ms \in 0..1 : TimerSet(a, ms, repeat_ms)
    BY <2>2 DEF TimerSet, Armed, WakeInv, RunInv, TypeOK
  <2>3. CASE \E a \in Addr : TimerClose(a) \/ AsyncClose(a)
    <3>1. PICK a \in Addr : TimerClose(a) \/ AsyncClose(a)
      BY <2>3
    <3>2. poll' = [poll EXCEPT ![a] = Freed] /\ numPolls' = numPolls - 1
      BY <3>1 DEF TimerClose, AsyncClose, PollFree
    <3>3. poll' \in [Polls -> [kind : {"timer", "async", "FREED"}, fallthrough : BOOLEAN]]
      BY <3>2 DEF Freed, WakeInv, RunInv, TypeOK
    <3>4. disarmed' \subseteq Addr /\ user' \subseteq Polls /\ early' \subseteq Addr
      BY <3>1 DEF TimerClose, AsyncClose, WakeInv, RunInv, TypeOK
    <3>5. UNCHANGED <<pc, cb, ready, cur, sockets, timer, asked>>
      BY <3>1 DEF TimerClose, AsyncClose
    <3> QED
      BY <3>2, <3>3, <3>4, <3>5 DEF WakeInv, RunInv, TypeOK
  <2>4. CASE \E n \in 0..MaxSockets : SocketsChange(n)
    BY <2>4, CallbacksAssumption DEF SocketsChange, WakeInv, RunInv, TypeOK
  <2> QED
    BY <2>1, <2>2, <2>3, <2>4 DEF App
<1>3. CallbackInv' /\ (cb' # NULL => ready'[cur'] = cb')
  BY <1>1 DEF WakeInv, RunInv, CallbackInv
<1>4. WakeupNotLost'
  BY <1>1 DEF WakeInv, WakeupNotLost, Pending
<1> QED
  BY <1>2, <1>3, <1>4 DEF WakeInv, RunInv

\* asock_async_wakeup only adds triggers.
LEMMA WakeupWakes ==
  ASSUME WakeInv, LoopWakeup \/ \E a \in Addr : WakeAsync(a)
  PROVE  WakeInv'
<1>1. UNCHANGED <<pc, cb, ready, cur, numPolls, poll, sockets, timer, disarmed, early>>
  BY DEF LoopWakeup, WakeAsync
<1>2. user' \subseteq Polls /\ user \subseteq user' /\ asked' \in BOOLEAN
  BY DEF LoopWakeup, WakeAsync, AsyncWakeup, WakeInv, RunInv, TypeOK, Polls
<1>3. RunInv'
  BY <1>1, <1>2 DEF WakeInv, RunInv, TypeOK, CallbackInv
<1>4. asked' => asked \/ WAKEUP \in user'
  BY DEF LoopWakeup, WakeAsync, AsyncWakeup
<1>5. WakeupNotLost'
  BY <1>1, <1>2, <1>4 DEF WakeInv, WakeupNotLost, Pending
<1> QED
  BY <1>3, <1>5 DEF WakeInv

\* kevent moves triggers to the batch, where the loop passes none over.
LEMMA LoopWakes ==
  ASSUME WakeInv, Loop
  PROVE  WakeInv'
<1> USE DEF WakeInv, RunInv
<1>1. CASE LoopRun
  <2>1. TypeOK'
    BY <1>1 DEF LoopRun, Integrate, TypeOK, Polls
  <2> QED
    BY <1>1, <2>1 DEF LoopRun, CallbackInv, WakeupNotLost, Pending
<1>2. CASE LoopCheck
  <2>1. TypeOK'
    BY <1>2 DEF LoopCheck, TypeOK
  <2> QED
    BY <1>2, <2>1 DEF LoopCheck, CallbackInv, WakeupNotLost, Pending
<1>3. CASE Kevent
  <2>1. PICK timers \in SUBSET ArmedTimers, users \in SUBSET user : Report(timers, users)
    BY <1>3 DEF Kevent
  <2>2. ready' \in Seq(Polls) /\ timer' \in [Polls -> {"off", "once", "repeat"}] /\ user' \subseteq Polls
    BY <2>1, ReportType
  <2>3. cb = NULL /\ cb' = NULL /\ cur' = 1 /\ pc' = "dispatch" /\ asked' = asked
    BY <1>3 DEF Kevent, CallbackInv
  <2>4. TypeOK'
    BY <1>3, <2>2 DEF Kevent, TypeOK
  <2>5. asked => WAKEUP \in user
    BY <1>3 DEF Kevent, WakeupNotLost, Pending, CallbackInv, TypeOK
  <2>6. WAKEUP \in user => WAKEUP \in user' \/ \E i \in DOMAIN ready' : ready'[i] = WAKEUP
    BY <2>1, ReportType
  <2>7. WakeupNotLost'
    <3>1. DOMAIN ready' \subseteq Nat \ {0}
      BY <2>2
    <3> QED
      BY <2>3, <2>5, <2>6, <3>1, CallbacksAssumption DEF WakeupNotLost, Pending
  <2> QED
    BY <2>3, <2>4, <2>7 DEF CallbackInv
<1>4. CASE DispatchCallback
  <2>1. cur \in DOMAIN ready
    BY <1>4 DEF DispatchCallback, CallbackInv, TypeOK
  <2>2. ready[cur] \in Polls /\ asked' \in BOOLEAN
    <3>1. ready[cur] \in Polls
      BY <2>1 DEF TypeOK
    <3>2. asked' = FALSE \/ asked' = asked
      BY <1>4 DEF DispatchCallback
    <3> QED
      BY <3>1, <3>2 DEF TypeOK
  <2>3. TypeOK'
    BY <1>4, <2>2 DEF DispatchCallback, TypeOK
  <2>4. WakeupNotLost'
    BY <1>4 DEF DispatchCallback, WakeupNotLost, Pending
  <2> QED
    BY <1>4, <2>1, <2>3, <2>4 DEF DispatchCallback, CallbackInv
<1>5. CASE CallbackReturns
  <2>1. /\ pc = "dispatch" /\ cur \in DOMAIN ready /\ ready[cur] = cb
        /\ cur \in Nat /\ DOMAIN ready = 1..Len(ready)
    BY <1>5 DEF CallbackReturns, CallbackInv, TypeOK
  <2>2. pc' = "dispatch" /\ cb' = NULL /\ cur' = cur + 1 /\ ready' = ready
    BY <1>5, <2>1 DEF CallbackReturns
  <2>3. TypeOK'
    BY <1>5, <2>1 DEF CallbackReturns, TypeOK
  <2>4. WakeupNotLost'
    <3> SUFFICES ASSUME Pending(WAKEUP) PROVE Pending(WAKEUP)'
      BY <1>5 DEF CallbackReturns, WakeupNotLost
    <3>1. PICK i \in DOMAIN ready : i >= cur /\ ready[i] = WAKEUP /\ ~(i = cur /\ cb = WAKEUP)
      BY DEF Pending
    <3>2. i >= cur + 1
      BY <2>1, <3>1
    <3> QED
      BY <2>2, <3>1, <3>2, CallbacksAssumption DEF Pending
  <2> QED
    BY <2>1, <2>2, <2>3, <2>4 DEF CallbackInv
<1>6. CASE LoopPost
  <2>1. TypeOK'
    BY <1>6 DEF LoopPost, TypeOK
  <2>2. cb' = NULL /\ pc' = "post" /\ \A i \in DOMAIN ready' : i < cur'
    BY <1>6 DEF LoopPost, CallbackInv, TypeOK
  <2>3. WakeupNotLost'
    BY <1>6 DEF LoopPost, WakeupNotLost, Pending
  <2> QED
    BY <2>1, <2>2, <2>3 DEF CallbackInv
<1>7. CASE DispatchCrashes
  <2>1. cb' = NULL /\ TypeOK'
    BY <1>7 DEF DispatchCrashes, TypeOK
  <2> QED
    BY <1>7, <2>1 DEF DispatchCrashes, CallbackInv, WakeupNotLost
<1> QED
  BY <1>1, <1>2, <1>3, <1>4, <1>5, <1>6, <1>7 DEF Loop

\* asock_loop_free comes after the last callback.
LEMMA FreeWakes ==
  ASSUME WakeInv, LoopFree
  PROVE  WakeInv'
<1>1. poll' \in [Polls -> [kind : {"timer", "async", "FREED"}, fallthrough : BOOLEAN]]
  BY DEF LoopFree, WakeInv, RunInv, TypeOK, Freed
<1>2. TypeOK'
  BY <1>1 DEF LoopFree, WakeInv, RunInv, TypeOK
<1>3. CallbackInv' /\ cb' = NULL /\ WakeupNotLost'
  BY DEF LoopFree, WakeInv, RunInv, CallbackInv, WakeupNotLost
<1> QED
  BY <1>2, <1>3 DEF WakeInv, RunInv

LEMMA WakeInvariance == Spec => []WakeInv
<1>1. Init => WakeInv
  <2> SUFFICES ASSUME Init PROVE WakeInv
    OBVIOUS
  <2>1. poll \in [Polls -> [kind : {"timer", "async", "FREED"}, fallthrough : BOOLEAN]]
    BY DEF Init, Freed
  <2>2. timer \in [Polls -> {"off", "once", "repeat"}] /\ ready \in Seq(Polls) /\ Len(ready) = 0
    BY DEF Init
  <2>3. cur \in 0..Len(ready) + 1 /\ sockets \in 0..MaxSockets /\ numPolls \in Int
    BY <2>2, CallbacksAssumption DEF Init
  <2>4. TypeOK
    BY <2>1, <2>2, <2>3 DEF Init, TypeOK
  <2> QED
    BY <2>4 DEF Init, WakeInv, RunInv, CallbackInv, WakeupNotLost
<1>2. WakeInv /\ [Next]_vars => WakeInv'
  <2> SUFFICES ASSUME WakeInv, [Next]_vars PROVE WakeInv'
    OBVIOUS
  <2>1. CASE UNCHANGED vars
    BY <2>1 DEF vars, WakeInv, RunInv, TypeOK, CallbackInv, WakeupNotLost, Pending
  <2> QED
    BY <2>1, AppWakes, WakeupWakes, LoopWakes, FreeWakes DEF Next, Done
<1> QED
  BY <1>1, <1>2, PTL DEF Spec

\* Types: in particular the index stays in the ready list or one past it, whatever the
\* application creates, closes and wakes.
THEOREM CallbackTypes == Spec => []TypeOK
<1>1. WakeInv => TypeOK
  BY DEF WakeInv, RunInv
<1> QED
  BY <1>1, WakeInvariance, PTL

\* No wakeup is forgotten between the kernel, the batch and the handler, whichever
\* thread asks for it and wherever the loop is at that moment.
THEOREM WakeupSafety == Spec => []WakeupNotLost
<1>1. WakeInv => WakeupNotLost
  BY DEF WakeInv
<1> QED
  BY <1>1, WakeInvariance, PTL

-----------------------------------------------------------------------------
(***************************************************************************)
(* Memory: which polls the loop may yet call, whatever the application     *)
(* creates, arms, wakes and closes, and when.                              *)
(***************************************************************************)
LiveInv == OwnPolls /\ CallbacksLive

\* Creating a poll takes nothing away from those that are there.
LEMMA CreateLive ==
  ASSUME WakeInv, LiveInv, NEW a \in Addr, NEW kind \in {"timer", "async"},
         NEW f \in BOOLEAN, Create(a, kind, f)
  PROVE  LiveInv'
<1>1. a \in Polls /\ a \notin Allocated /\ a # SWEEP /\ a # WAKEUP
  BY CallbacksAssumption DEF Create, Polls
<1>2. \A b \in Polls \ {a} : poll'[b] = poll[b]
  BY DEF Create, WakeInv, RunInv, TypeOK
<1>3. Allocated \subseteq Allocated' /\ poll[a].kind = "FREED"
  BY <1>1, <1>2 DEF Allocated
<1>4. SWEEP \in Polls /\ WAKEUP \in Polls /\ user \subseteq Polls /\ ArmedTimers \subseteq Polls
  BY DEF Polls, WakeInv, RunInv, TypeOK, ArmedTimers
<1>5. OwnPolls'
  BY <1>1, <1>2, <1>4 DEF Create, LiveInv, OwnPolls
<1>6. ArmedTimers' = ArmedTimers /\ user' = user /\ early' = early
  BY DEF Create, ArmedTimers
<1>7. \A b \in ArmedTimers' : poll'[b].kind = "timer" \/ b \in early'
  BY <1>2, <1>3, <1>4, <1>6 DEF LiveInv, CallbacksLive
<1>8. \A b \in user' : poll'[b].kind = "async"
  BY <1>2, <1>3, <1>4, <1>6 DEF LiveInv, CallbacksLive
<1>9. \A i \in DOMAIN ready' :
        i >= cur' /\ ~(i = cur' /\ cb' # NULL) => ready'[i] \in Allocated' \cup early'
  BY <1>3 DEF Create, LiveInv, CallbacksLive
<1> QED
  BY <1>5, <1>7, <1>8, <1>9 DEF LiveInv, CallbacksLive

\* A poll is freed: if kqueue has its timer or the batch its report, it is on record
\* as closed early.
LEMMA CloseLive ==
  ASSUME WakeInv, LiveInv, NEW a \in Addr, PollFree(a), user' = user \ {a},
         timer[a] # "off" \/ Pending(a) => a \in early', early \subseteq early',
         UNCHANGED <<pc, cb, ready, cur, timer>>
  PROVE  LiveInv'
<1>1. a \in Polls /\ a # NULL /\ a # SWEEP /\ a # WAKEUP
  BY CallbacksAssumption DEF Polls
<1>2. \A b \in Polls \ {a} : poll'[b] = poll[b]
  BY DEF PollFree, WakeInv, RunInv, TypeOK
<1>3. Allocated \ {a} \subseteq Allocated'
  BY <1>2 DEF Allocated
<1>4. SWEEP \in Polls /\ WAKEUP \in Polls /\ user \subseteq Polls /\ ArmedTimers \subseteq Polls
  BY DEF Polls, WakeInv, RunInv, TypeOK, ArmedTimers
<1>5. OwnPolls'
  BY <1>1, <1>2, <1>4 DEF LiveInv, OwnPolls
<1>6. ArmedTimers' = ArmedTimers
  BY DEF ArmedTimers
<1>7. \A b \in ArmedTimers' : poll'[b].kind = "timer" \/ b \in early'
  <2> SUFFICES ASSUME NEW b \in ArmedTimers PROVE poll'[b].kind = "timer" \/ b \in early'
    BY <1>6
  <2>1. CASE b = a
    BY <2>1 DEF ArmedTimers
  <2>2. CASE b # a
    BY <1>2, <1>4, <2>2 DEF LiveInv, CallbacksLive
  <2> QED
    BY <2>1, <2>2
<1>8. \A b \in user' : poll'[b].kind = "async"
  BY <1>2, <1>4 DEF LiveInv, CallbacksLive
<1>9. \A i \in DOMAIN ready' :
        i >= cur' /\ ~(i = cur' /\ cb' # NULL) => ready'[i] \in Allocated' \cup early'
  <2> SUFFICES ASSUME NEW i \in DOMAIN ready, i >= cur, ~(i = cur /\ cb # NULL)
               PROVE  ready[i] \in Allocated' \cup early'
    OBVIOUS
  <2>1. ready[i] \in Allocated \cup early
    BY DEF LiveInv, CallbacksLive
  <2>2. ready[i] = a => a \in early'
    BY <1>1 DEF Pending
  <2> QED
    BY <2>1, <2>2, <1>3
<1> QED
  BY <1>5, <1>7, <1>8, <1>9 DEF LiveInv, CallbacksLive

\* The application creates, arms and closes what it likes.
LEMMA AppLive ==
  ASSUME WakeInv, LiveInv, App
  PROVE  LiveInv'
<1>1. CASE \E a \in Addr, f \in Fallthrough : TimerCreate(a, f) \/ AsyncCreate(a, f)
  BY <1>1, CreateLive, CallbacksAssumption DEF TimerCreate, AsyncCreate
<1>2. CASE \E a \in Addr : \E ms, repeat_ms \in 0..1 : TimerSet(a, ms, repeat_ms)
  <2>1. PICK a \in Addr, ms \in 0..1, repeat_ms \in 0..1 : TimerSet(a, ms, repeat_ms)
    BY <1>2
  <2>2. poll[a].kind = "timer" /\ \A b \in Polls \ {a} : timer'[b] = timer[b]
    BY <2>1 DEF TimerSet, WakeInv, RunInv, TypeOK
  <2>3. ArmedTimers' \subseteq ArmedTimers \cup {a}
    BY <2>2 DEF ArmedTimers
  <2> QED
    BY <2>1, <2>2, <2>3 DEF TimerSet, LiveInv, OwnPolls, CallbacksLive, Allocated
<1>3. CASE \E a \in Addr : TimerClose(a)
  <2>1. PICK a \in Addr : TimerClose(a)
    BY <1>3
  <2>2. a \notin user
    BY <2>1 DEF TimerClose, LiveInv, CallbacksLive
  <2>3. user' = user \ {a} /\ PollFree(a) /\ UNCHANGED <<pc, cb, ready, cur, timer>>
    BY <2>1, <2>2 DEF TimerClose
  <2>4. early \subseteq early' /\ (timer[a] # "off" \/ Pending(a) => a \in early')
    BY <2>1 DEF TimerClose
  <2> QED
    BY <2>3, <2>4, CloseLive
<1>4. CASE \E a \in Addr : AsyncClose(a)
  <2>1. PICK a \in Addr : AsyncClose(a)
    BY <1>4
  <2>2. PollFree(a) /\ user' = user \ {a} /\ UNCHANGED <<pc, cb, ready, cur, timer>>
    BY <2>1 DEF AsyncClose
  <2>3. early \subseteq early' /\ (Pending(a) => a \in early')
    BY <2>1 DEF AsyncClose
  <2>4. timer[a] # "off" => a \in early
    BY <2>1 DEF AsyncClose, LiveInv, CallbacksLive, ArmedTimers, Polls
  <2> QED
    BY <2>2, <2>3, <2>4, CloseLive
<1>5. CASE \E n \in 0..MaxSockets : SocketsChange(n)
  BY <1>5 DEF SocketsChange, LiveInv, OwnPolls, CallbacksLive, ArmedTimers, Allocated
<1> QED
  BY <1>1, <1>2, <1>3, <1>4, <1>5 DEF App

\* A wakeup from another thread triggers an async that exists.
LEMMA WakeupLive ==
  ASSUME WakeInv, LiveInv, LoopWakeup \/ \E a \in Addr : WakeAsync(a)
  PROVE  LiveInv'
<1>1. \A a \in user' : poll[a].kind = "async"
  BY DEF LoopWakeup, WakeAsync, AsyncWakeup, LiveInv, OwnPolls, CallbacksLive
<1>2. UNCHANGED <<pc, cb, ready, cur, poll, timer, early>>
  BY DEF LoopWakeup, WakeAsync
<1> QED
  BY <1>1, <1>2 DEF LiveInv, OwnPolls, CallbacksLive, ArmedTimers, Allocated

\* One pass of the loop takes its entries from the filters kqueue has.
LEMMA LoopLive ==
  ASSUME WakeInv, LiveInv, Loop
  PROVE  LiveInv'
<1>1. CASE LoopRun
  <2>1. \A b \in Polls \ {SWEEP} : timer'[b] = timer[b]
    BY <1>1 DEF LoopRun, Integrate, WakeInv, RunInv, TypeOK
  <2>2. ArmedTimers' \subseteq ArmedTimers \cup {SWEEP} /\ poll[SWEEP].kind = "timer"
    BY <1>1, <2>1 DEF ArmedTimers, LoopRun, LiveInv, OwnPolls
  <2> QED
    BY <1>1, <2>2 DEF LoopRun, LiveInv, OwnPolls, CallbacksLive, Allocated
<1>2. CASE LoopCheck
  BY <1>2 DEF LoopCheck, LiveInv, OwnPolls, CallbacksLive, ArmedTimers, Allocated
<1>3. CASE Kevent
  <2>1. PICK timers \in SUBSET ArmedTimers, users \in SUBSET user : Report(timers, users)
    BY <1>3 DEF Kevent
  <2>2. /\ \A i \in DOMAIN ready' : ready'[i] \in timers \cup users
        /\ \A a \in Polls : timer'[a] \in {timer[a], "off"}
        /\ user' \subseteq user /\ user \subseteq Polls
    BY <2>1, ReportType DEF WakeInv, RunInv, TypeOK
  <2>3. timers \cup users \subseteq Allocated \cup early
    BY <2>2 DEF LiveInv, CallbacksLive, ArmedTimers, Allocated
  <2>4. ArmedTimers' \subseteq ArmedTimers
    BY <2>2 DEF ArmedTimers
  <2>5. UNCHANGED <<poll, early>> /\ pc # "freed" /\ pc' # "freed"
    BY <1>3 DEF Kevent
  <2>6. OwnPolls'
    BY <2>5 DEF LiveInv, OwnPolls
  <2>7. Allocated' = Allocated
    BY <2>5 DEF Allocated
  <2> QED
    BY <2>2, <2>3, <2>4, <2>5, <2>6, <2>7 DEF LiveInv, CallbacksLive
<1>4. CASE DispatchCallback
  BY <1>4 DEF DispatchCallback, LiveInv, OwnPolls, CallbacksLive, ArmedTimers, Allocated
<1>5. CASE CallbackReturns
  <2>1. cur \in Nat /\ DOMAIN ready \subseteq Nat
    BY DEF WakeInv, RunInv, TypeOK
  <2> QED
    BY <1>5, <2>1 DEF CallbackReturns, LiveInv, OwnPolls, CallbacksLive, ArmedTimers, Allocated
<1>6. CASE LoopPost
  BY <1>6 DEF LoopPost, LiveInv, OwnPolls, CallbacksLive, ArmedTimers, Allocated
<1>7. CASE DispatchCrashes
  BY <1>7 DEF DispatchCrashes, LiveInv, OwnPolls, CallbacksLive, ArmedTimers, Allocated
<1> QED
  BY <1>1, <1>2, <1>3, <1>4, <1>5, <1>6, <1>7 DEF Loop

\* Every callback the loop is about to run, and every one kqueue may ask for, is that
\* of a poll in memory, or of one the application closed while kqueue could still
\* report it; no trigger outlives its async.  This is of any application: it says
\* exactly which closes leave a pointer behind (asock_timer_close of an armed timer,
\* and either close between kevent and the dispatch of the poll's report).
THEOREM CallbackSafety == Spec => []CallbacksLive
<1>1. Init => LiveInv
  BY CallbacksAssumption DEF Init, LiveInv, OwnPolls, CallbacksLive, ArmedTimers, Polls
<1>2. WakeInv /\ LiveInv /\ [Next]_vars => LiveInv'
  <2> SUFFICES ASSUME WakeInv, LiveInv, [Next]_vars PROVE LiveInv'
    OBVIOUS
  <2>1. CASE UNCHANGED vars
    BY <2>1 DEF vars, LiveInv, OwnPolls, CallbacksLive, ArmedTimers, Allocated
  <2>2. CASE LoopFree
    <3>1. \A i \in DOMAIN ready : i < cur
      BY <2>2 DEF LoopFree, WakeInv, RunInv, CallbackInv
    <3>2. ready' = ready /\ cur' = cur /\ cur \in Nat /\ DOMAIN ready \subseteq Nat
      BY <2>2 DEF LoopFree, WakeInv, RunInv, TypeOK
    <3>3. ArmedTimers' = {} /\ user' = {} /\ pc' = "freed"
      BY <2>2 DEF LoopFree, ArmedTimers
    <3> QED
      BY <3>1, <3>2, <3>3 DEF LiveInv, OwnPolls, CallbacksLive
  <2> QED
    BY <2>1, <2>2, AppLive, WakeupLive, LoopLive DEF Next, Done
<1>3. LiveInv => CallbacksLive
  BY DEF LiveInv
<1> QED
  BY <1>1, <1>2, <1>3, WakeInvariance, PTL DEF Spec
=============================================================================
