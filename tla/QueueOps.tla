------------------------------ MODULE QueueOps ------------------------------
(***************************************************************************)
(* The bounded buffer behind solar::ThreadSafeQueue (ThreadSafeQueue.hpp), *)
(* as operators on sequences: the head is the oldest item.  A capacity of  *)
(* 0 means unbounded, as in the class.  ThreadSafeQueue models the class   *)
(* with its mutex and condition variable; SystemManager uses these         *)
(* operators for its two queues.                                           *)
(***************************************************************************)
EXTENDS Naturals, Sequences

\* Fault variant: the capacity test lets one item too many in.
IsFullOffByOne(s, cap) == cap > 0 /\ Len(s) > cap

(* capacity_ > 0 && q_.size() >= capacity_ *)
IsFull(s, cap) == cap > 0 /\ Len(s) >= cap

\* Fault variant: a full queue drops its newest item, pop_back for pop_front.
PushedLatestDropsNewest(s, cap, item) ==
  IF IsFull(s, cap) THEN Append(SubSeq(s, 1, Len(s) - 1), item)
                    ELSE Append(s, item)

(* What push_latest leaves in the queue: the oldest item makes room. *)
PushedLatest(s, cap, item) ==
  Append(IF IsFull(s, cap) THEN Tail(s) ELSE s, item)
=============================================================================
