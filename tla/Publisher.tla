----------------------------- MODULE Publisher -----------------------------
(***************************************************************************)
(* What SimulatedPublisher and LibcameraPublisher share: one client that   *)
(* calls start(), stop() and the destructor, and one std::thread member    *)
(* that runs run_().  Assigning to a joinable thread, or destroying one,   *)
(* terminates the process.                                                 *)
(***************************************************************************)
EXTENDS Naturals

CONSTANTS MaxStarts,    \* bound: calls of start()
          MaxFrames     \* bound: frames taken

ASSUME PublisherAssumption == MaxStarts \in Nat /\ MaxFrames \in Nat

VARIABLES backend,      \* which of the two classes this is
          running,      \* running_
          thread,       \* worker_, thread_: "none" is not joinable
          client,       \* where the client is
          dying,        \* the client is in the destructor
          worker,       \* where run_() is
          ids,          \* frameId_, and the last id handed out
          starts        \* bound: start() calls so far

publisherVars == <<backend, running, thread, client, dying, worker, ids,
                   starts>>

PublisherTypeOK ==
  /\ backend \in {"simulated", "libcamera"}
  /\ running \in BOOLEAN
  /\ thread \in {"none", "live", "ended"}
  /\ dying \in BOOLEAN
  /\ ids \in [taken : 0 .. MaxFrames, given : 0 .. MaxFrames]
  /\ starts \in 0 .. MaxStarts

PublisherInit ==
  /\ backend \in {"simulated", "libcamera"}
  /\ running = FALSE
  /\ thread = "none"
  /\ client = "idle"
  /\ dying = FALSE
  /\ worker = "none"
  /\ ids = [taken |-> 0, given |-> 0]
  /\ starts = 0

(* start(): true at once when it runs, else running_ and a new thread.     *)
Start ==
  /\ client = "idle"
  /\ ~dying
  /\ ~running
  /\ starts < MaxStarts
  /\ starts' = starts + 1
  /\ running' = TRUE
  /\ IF thread = "none"
     THEN thread' = "live" /\ worker' = "setup" /\ UNCHANGED client
     ELSE client' = "terminated" /\ UNCHANGED <<thread, worker>>
  /\ UNCHANGED <<backend, dying, ids>>

(* Where a call of stop() returns to: a destructor goes on to destroy the  *)
(* thread member.                                                          *)
Returned == IF dying THEN "gone" ELSE "idle"

(* The destructor calls stop().                                            *)
Destroy ==
  /\ client = "idle"
  /\ ~dying
  /\ dying' = TRUE
  /\ UNCHANGED <<backend, running, thread, client, worker, ids, starts>>

(* worker_.join(), if it is joinable.                                      *)
Join ==
  /\ client = "join"
  /\ thread \in {"none", "ended"}
  /\ thread' = "none"
  /\ client' = Returned
  /\ UNCHANGED <<backend, running, dying, worker, ids, starts>>

(* run_() returns.                                                         *)
WorkerEnds ==
  /\ worker = "end"
  /\ worker' = "none"
  /\ thread' = "ended"
  /\ UNCHANGED <<backend, running, client, dying, ids, starts>>

(* A frame takes the next id and is handed out, unless something throws.   *)
TakeId(handedOut) ==
  LET id == ids.taken + 1
  IN ids' = [taken |-> id, given |-> IF handedOut THEN id ELSE ids.given]

(* run_() gives up during its setup: nobody is told but running_.          *)
SetupFails ==
  /\ worker' = "end"
  /\ running' = FALSE
  /\ UNCHANGED <<backend, thread, client, dying, ids, starts>>

WorkerMoves(from, to) ==
  /\ worker = from
  /\ worker' = to
  /\ UNCHANGED <<backend, running, thread, client, dying, ids, starts>>
=============================================================================
