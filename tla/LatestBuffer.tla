---------------------------- MODULE LatestBuffer ----------------------------
(***************************************************************************)
(* What a ThreadSafeQueue promises to the threads that use it: a bounded   *)
(* buffer whose operations are atomic, with no mutex, no condition         *)
(* variable and no notification that could be missed.  A thread that finds *)
(* the buffer empty joins `waiting` and leaves it with an item, or empty   *)
(* handed once the buffer is closed.  The fairness is the promise that     *)
(* matters: an item that stays in the buffer while somebody waits is       *)
(* handed over, and closing the buffer releases everybody who waits.       *)
(*                                                                         *)
(* ThreadSafeQueue implements this specification.  `accepted` counts the   *)
(* items accepted so far and numbers them.                                 *)
(***************************************************************************)
EXTENDS QueueOps

CONSTANTS
  Threads,   (* the threads that call the queue                *)
  Capacity   (* the bound given to the constructor, 0 for none *)

VARIABLES
  buf,       (* the items, oldest first        *)
  closed,    (* stop() was called              *)
  waiting,   (* the threads inside wait_pop    *)
  accepted   (* the number of the newest item  *)

vars == <<buf, closed, waiting, accepted>>

Init ==
  /\ buf = <<>>
  /\ closed = FALSE
  /\ waiting = {}
  /\ accepted = 0

(* An open buffer accepts an item: if it is full it either refuses (push)  *)
(* or lets the oldest item go (push_latest).                               *)
Accept ==
  /\ ~closed
  /\ accepted' = accepted + 1
  /\ buf' = PushedLatest(buf, Capacity, accepted')
  /\ UNCHANGED <<closed, waiting>>

Take(t) ==
  /\ buf # <<>>
  /\ buf' = Tail(buf)
  /\ waiting' = waiting \ {t}
  /\ UNCHANGED <<closed, accepted>>

Wait(t) ==
  /\ buf = <<>> /\ ~closed
  /\ waiting' = waiting \cup {t}
  /\ UNCHANGED <<buf, closed, accepted>>

Quit(t) ==
  /\ t \in waiting
  /\ buf = <<>> /\ closed
  /\ waiting' = waiting \ {t}
  /\ UNCHANGED <<buf, closed, accepted>>

Close  == closed' = TRUE  /\ UNCHANGED <<buf, waiting, accepted>>
Reopen == closed' = FALSE /\ UNCHANGED <<buf, waiting, accepted>>
Empty  == buf' = <<>>     /\ UNCHANGED <<closed, waiting, accepted>>

Next ==
  \/ Accept \/ Close \/ Reopen \/ Empty
  \/ \E t \in Threads : Take(t) \/ Wait(t) \/ Quit(t)

Fairness ==
  /\ WF_vars(\E t \in waiting : Take(t))
  /\ \A t \in Threads : WF_vars(Quit(t))

Safe == Init /\ [][Next]_vars

Spec == Safe /\ Fairness
=============================================================================
