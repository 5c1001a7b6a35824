------------------------- MODULE SimulatedPublisher -------------------------
(***************************************************************************)
(* sensors/SimulatedPublisher (Linux): the worker polls a timer and an     *)
(* eventfd.  stop() writes to the eventfd through the member stopFd_,      *)
(* which the worker sets and closes by itself; the mutexes do not cover it.*)
(***************************************************************************)
EXTENDS Publisher

VARIABLES stopFd,       \* stopFd_: "none" (-1), "open", or "closed" but not
                        \* yet reset
          signalled     \* the eventfd counts a write

fdVars == <<stopFd, signalled>>

IsSimulated == backend = "simulated"

SimTypeOK ==
  /\ stopFd \in {"none", "open", "closed"}
  /\ signalled \in BOOLEAN

SimInit == stopFd = "none" /\ signalled = FALSE

-----------------------------------------------------------------------------
(* stop(): running_.exchange(false), and done if it was false already.     *)
SimStopCall ==
  /\ IsSimulated
  /\ client = "idle"
  /\ running \/ dying
  /\ client' = IF running THEN "look" ELSE Returned
  /\ running' = FALSE
  /\ UNCHANGED <<backend, thread, dying, worker, ids, starts, fdVars>>

(* stopFd_ >= 0?                                                           *)
SimStopLooks ==
  /\ IsSimulated
  /\ client = "look"
  /\ client' = IF stopFd = "none" THEN "join" ELSE "write"
  /\ UNCHANGED <<backend, running, thread, dying, worker, ids, starts,
                 fdVars>>

(* Mutant: the eventfd is not written.                                     *)
SimStopWritesNothing ==
  /\ IsSimulated
  /\ client = "write"
  /\ client' = "join"
  /\ UNCHANGED <<backend, running, thread, dying, worker, ids, starts,
                 fdVars>>

(* write(stopFd_): without effect when it was closed meanwhile.            *)
SimStopWrites ==
  /\ IsSimulated
  /\ client = "write"
  /\ client' = "join"
  /\ signalled' = (signalled \/ stopFd = "open")
  /\ UNCHANGED <<backend, running, thread, dying, worker, ids, starts,
                 stopFd>>

-----------------------------------------------------------------------------
(* run_(): timerfd_create and eventfd, either of which may fail.           *)
SimSetup ==
  /\ IsSimulated
  /\ worker = "setup"
  /\ \/ SetupFails /\ UNCHANGED fdVars
     \/ /\ WorkerMoves("setup", "arm")
        /\ stopFd' = "open"
        /\ signalled' = FALSE

(* Mutant: the failure of timerfd_settime leaves the eventfd open.         *)
SimArmLeaks ==
  /\ IsSimulated
  /\ worker = "arm"
  /\ \/ SetupFails /\ UNCHANGED fdVars
     \/ WorkerMoves("arm", "check") /\ UNCHANGED fdVars

(* timerfd_settime; when it fails both descriptors are closed.             *)
SimArm ==
  /\ IsSimulated
  /\ worker = "arm"
  /\ \/ SetupFails /\ stopFd' = "none" /\ UNCHANGED signalled
     \/ WorkerMoves("arm", "check") /\ UNCHANGED fdVars

(* while (running_.load())                                                 *)
SimChecks ==
  /\ IsSimulated
  /\ WorkerMoves("check", IF running THEN "poll" ELSE "close")
  /\ UNCHANGED fdVars

(* poll returns for the eventfd, which comes first, or for an error.       *)
SimPollStops ==
  /\ IsSimulated
  /\ signalled
  /\ WorkerMoves("poll", "close")
  /\ UNCHANGED fdVars

SimPollFails ==
  /\ IsSimulated
  /\ WorkerMoves("poll", "close")
  /\ UNCHANGED fdVars

(* poll is interrupted, or the timer has nothing to read after all.        *)
SimPollNothing ==
  /\ IsSimulated
  /\ ~signalled
  /\ WorkerMoves("poll", "check")
  /\ UNCHANGED fdVars

(* poll returns for the timer.                                             *)
SimPollTimer ==
  /\ IsSimulated
  /\ ~signalled
  /\ ids.taken < MaxFrames
  /\ WorkerMoves("poll", "deliver")
  /\ UNCHANGED fdVars

SimDelivers ==
  /\ IsSimulated
  /\ worker = "deliver"
  /\ TakeId(TRUE)
  /\ worker' = "check"
  /\ UNCHANGED <<backend, running, thread, client, dying, starts, fdVars>>

(* The descriptors are closed, then forgotten.                             *)
SimCloses ==
  /\ IsSimulated
  /\ WorkerMoves("close", "reset")
  /\ stopFd' = "closed"
  /\ UNCHANGED signalled

SimResets ==
  /\ IsSimulated
  /\ WorkerMoves("reset", "end")
  /\ stopFd' = "none"
  /\ UNCHANGED signalled

SimClientSteps == SimStopLooks \/ SimStopWrites
SimWorkerSteps == SimSetup \/ SimArm \/ SimChecks \/ SimDelivers \/ SimPollStops
                  \/ SimCloses \/ SimResets

SimNext ==
  \/ SimStopCall
  \/ SimStopLooks
  \/ SimStopWrites
  \/ SimSetup
  \/ SimArm
  \/ SimChecks
  \/ SimPollStops
  \/ SimPollFails
  \/ SimPollNothing
  \/ SimPollTimer
  \/ SimDelivers
  \/ SimCloses
  \/ SimResets
=============================================================================
