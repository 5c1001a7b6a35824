------------------------ MODULE SystemManagerClaims -------------------------
(***************************************************************************)
(* What the repository says of SystemManager and the code does not do.     *)
(* Each of these is checked by a run of its own that finds a behaviour of  *)
(* the code against it; the README tells the behaviours.                   *)
(***************************************************************************)
EXTENDS SystemManager

(* state_machine.md, Transition Rules: MANUAL is left by exitManual(), by  *)
(* stop() or for FAULT.  In the code the estimate callback writes TRACKING *)
(* or SEARCHING after it has looked at the state, so an estimate that was  *)
(* in flight when enterManual() returned takes the tracker out of MANUAL.  *)
(* The same write overwrites STOPPING and FAULT.                           *)
ManualLeftOnRequest ==
  [][state = "MANUAL" /\ state' # "MANUAL" =>
       client \in {"exit_manual", "stopping"} \/ state' = "FAULT"]_vars
=============================================================================
