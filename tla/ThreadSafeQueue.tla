-------------------------- MODULE ThreadSafeQueue ---------------------------
(***************************************************************************)
(* solar::ThreadSafeQueue<T> (src/src/common/ThreadSafeQueue.hpp): a deque *)
(* guarded by a mutex, with a condition variable for its consumers.        *)
(*                                                                         *)
(* Every critical section of the class is one atomic step: nothing it      *)
(* reads or writes is touched outside the mutex.  The notification comes   *)
(* after the lock_guard's scope, so it is a step of its own, and between   *)
(* the two any other thread may run.  A thread in cv_.wait is "blocked"    *)
(* until a notification or a spurious wakeup makes it "woken"; a woken     *)
(* thread takes the mutex again and evaluates the predicate again.         *)
(*                                                                         *)
(* Items are numbered in the order in which they are accepted.  `accepted` *)
(* and `taken` are history variables: the newest number accepted and the   *)
(* newest one handed to a thread.                                          *)
(***************************************************************************)
EXTENDS QueueOps, FiniteSets

CONSTANTS
  Threads,    (* the threads that call the queue                *)
  Capacity,   (* the bound given to the constructor, 0 for none *)
  MaxItems    (* bound on the items accepted                    *)

ASSUME ThreadsAssumption == IsFiniteSet(Threads)
ASSUME CapacityAssumption == Capacity \in Nat
ASSUME MaxItemsAssumption == MaxItems \in Nat

VARIABLES
  q,          (* q_: the items, oldest first *)
  stopped,    (* stopped_                    *)
  pc,         (* where each thread is        *)
  accepted,
  taken

vars == <<q, stopped, pc, accepted, taken>>

(* "outside": not in the class.  "notify_one", "notify_all": the mutex is  *)
(* released and the notification is still to come.  "blocked", "woken":    *)
(* inside cv_.wait.                                                        *)
Places == {"outside", "notify_one", "notify_all", "blocked", "woken"}

At(place) == {t \in Threads : pc[t] = place}

Goto(t, place) == pc' = [pc EXCEPT ![t] = place]

Init ==
  /\ q = <<>>
  /\ stopped = FALSE
  /\ pc = [t \in Threads |-> "outside"]
  /\ accepted = 0
  /\ taken = 0

-----------------------------------------------------------------------------
(* Producers.  A call that returns false changes nothing.                  *)

(* push: refused by a stopped queue and by a full one. *)
Push(t) ==
  /\ pc[t] = "outside"
  /\ accepted < MaxItems
  /\ ~stopped
  /\ ~IsFull(q, Capacity)
  /\ accepted' = accepted + 1
  /\ q' = Append(q, accepted')
  /\ Goto(t, "notify_one")
  /\ UNCHANGED <<stopped, taken>>

\* Fault variant: push_latest without its cv_.notify_one().
PushLatestSilently(t) ==
  /\ pc[t] = "outside"
  /\ accepted < MaxItems
  /\ ~stopped
  /\ accepted' = accepted + 1
  /\ q' = PushedLatest(q, Capacity, accepted')
  /\ UNCHANGED <<stopped, taken, pc>>

(* push_latest: refused by a stopped queue only. *)
PushLatest(t) ==
  /\ pc[t] = "outside"
  /\ accepted < MaxItems
  /\ ~stopped
  /\ accepted' = accepted + 1
  /\ q' = PushedLatest(q, Capacity, accepted')
  /\ Goto(t, "notify_one")
  /\ UNCHANGED <<stopped, taken>>

(* cv_.notify_one(): one blocked thread wakes, if there is one. *)
NotifyOne(t) ==
  /\ pc[t] = "notify_one"
  /\ \/ /\ At("blocked") = {}
        /\ Goto(t, "outside")
     \/ \E b \in At("blocked") :
          pc' = [pc EXCEPT ![t] = "outside", ![b] = "woken"]
  /\ UNCHANGED <<q, stopped, accepted, taken>>

-----------------------------------------------------------------------------
(* Consumers.                                                              *)

(* The oldest item leaves the queue with thread t. *)
PopFront(t) ==
  /\ q # <<>>
  /\ taken' = Head(q)
  /\ q' = Tail(q)
  /\ Goto(t, "outside")
  /\ UNCHANGED <<stopped, accepted>>

\* Fault variant: cv_.wait without a predicate, so a wakeup is believed.
WaitPopUnchecked(t) ==
  \/ pc[t] \in {"outside", "woken"} /\ PopFront(t)
  \/ /\ \/ pc[t] = "woken" /\ q = <<>> /\ Goto(t, "outside")
        \/ pc[t] = "outside" /\ q = <<>> /\ ~stopped /\ Goto(t, "blocked")
     /\ UNCHANGED <<q, stopped, accepted, taken>>

(* wait_pop: evaluated on entry and after every wakeup.  An item is taken; *)
(* a stopped and empty queue gives nullopt; otherwise the thread waits.    *)
WaitPop(t) ==
  /\ pc[t] \in {"outside", "woken"}
  /\ \/ PopFront(t)
     \/ /\ q = <<>>
        /\ Goto(t, IF stopped THEN "outside" ELSE "blocked")
        /\ UNCHANGED <<q, stopped, accepted, taken>>

(* A condition variable may wake a thread that nobody notified. *)
SpuriousWakeup(t) ==
  /\ pc[t] = "blocked"
  /\ Goto(t, "woken")
  /\ UNCHANGED <<q, stopped, accepted, taken>>

TryPop(t) == pc[t] = "outside" /\ PopFront(t)

-----------------------------------------------------------------------------
(* Lifecycle.                                                              *)

Stop(t) ==
  /\ pc[t] = "outside"
  /\ stopped' = TRUE
  /\ Goto(t, "notify_all")
  /\ UNCHANGED <<q, accepted, taken>>

\* Fault variant: stop() wakes a single thread, notify_one for notify_all.
NotifyAllWakesOne(t) ==
  /\ pc[t] = "notify_all"
  /\ \/ /\ At("blocked") = {}
        /\ Goto(t, "outside")
     \/ \E b \in At("blocked") :
          pc' = [pc EXCEPT ![t] = "outside", ![b] = "woken"]
  /\ UNCHANGED <<q, stopped, accepted, taken>>

(* cv_.notify_all(), the second half of stop(). *)
NotifyAll(t) ==
  /\ pc[t] = "notify_all"
  /\ pc' = [u \in Threads |-> IF u = t THEN "outside"
                              ELSE IF pc[u] = "blocked" THEN "woken"
                              ELSE pc[u]]
  /\ UNCHANGED <<q, stopped, accepted, taken>>

Reset(t) ==
  /\ pc[t] = "outside"
  /\ stopped' = FALSE
  /\ UNCHANGED <<q, pc, accepted, taken>>

Clear(t) ==
  /\ pc[t] = "outside"
  /\ q' = <<>>
  /\ UNCHANGED <<stopped, pc, accepted, taken>>

-----------------------------------------------------------------------------
Next ==
  \E t \in Threads :
    \/ Push(t) \/ PushLatest(t) \/ NotifyOne(t)
    \/ WaitPop(t) \/ SpuriousWakeup(t) \/ TryPop(t)
    \/ Stop(t) \/ NotifyAll(t) \/ Reset(t) \/ Clear(t)

Spec == Init /\ [][Next]_vars

(* A thread inside the class runs on: it is past its last condition, or it *)
(* was woken and the mutex is never held for long.  Nothing is assumed of  *)
(* the calls threads choose to make, nor of spurious wakeups.              *)
Fairness ==
  \A t \in Threads :
    WF_vars(NotifyOne(t) \/ NotifyAll(t) \/ (pc[t] = "woken" /\ WaitPop(t)))

FairSpec == Spec /\ Fairness

-----------------------------------------------------------------------------
(* Properties.                                                             *)

(* Types; a bounded queue never holds more than its capacity, whichever    *)
(* mix of push and push_latest fills it.                                   *)
TypeOK ==
  /\ q \in Seq(Nat)
  /\ Capacity > 0 => Len(q) <= Capacity
  /\ stopped \in BOOLEAN
  /\ pc \in [Threads -> Places]
  /\ accepted \in Nat
  /\ taken \in Nat

(* The queue always holds exactly the newest items accepted, in order and  *)
(* without a gap: what push_latest gives up is the oldest, never a fresher *)
(* item than one it keeps; and everything handed out is older than         *)
(* everything still queued, so no consumer sees time run backwards.        *)
NewestInOrder ==
  /\ \A i \in 1 .. Len(q) : q[i] = accepted - Len(q) + i
  /\ taken + Len(q) <= accepted

(* No wakeup is lost: while threads are blocked, every queued item has a   *)
(* notification still to come or a thread already woken for it.            *)
NoLostWakeup ==
  At("blocked") # {} =>
    Len(q) <= Cardinality(At("notify_one")) + Cardinality(At("woken"))

(* stop() is not missed: if a thread is blocked on a stopped queue, the    *)
(* notify_all of a stop() is still to come.                                *)
NoMissedStop ==
  stopped /\ At("blocked") # {} => At("notify_all") # {}

(* The class implements the abstract buffer, its liveness included: an     *)
(* item reaches a waiting consumer and stop() releases all of them.        *)
Buffer == INSTANCE LatestBuffer
            WITH buf <- q, closed <- stopped,
                 waiting <- At("blocked") \cup At("woken")

ImplementsBuffer == Buffer!Spec
=============================================================================
