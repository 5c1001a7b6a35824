------------------------------ MODULE Display ------------------------------
(***************************************************************************)
(* What a live picture of the camera promises whoever looks at it: frames  *)
(* may be left out, but what is shown is never older than what was, and    *)
(* while the picture is up and a newer frame is there it moves on.         *)
(***************************************************************************)
EXTENDS Naturals

VARIABLES offered,      \* the number of the last frame offered
          shown,        \* the number of the frame shown, 0 for none
          up            \* the picture is up

displayVars == <<offered, shown, up>>

Offer == offered' = offered + 1 /\ UNCHANGED <<shown, up>>
Close == up = TRUE /\ up' = FALSE /\ UNCHANGED <<offered, shown>>

Show ==
  /\ up = TRUE
  /\ shown' \in shown + 1 .. offered
  /\ UNCHANGED <<offered, up>>

Init == offered = 0 /\ shown = 0 /\ up = TRUE

Next == Offer \/ Show \/ Close

Safe == Init /\ [][Next]_displayVars

Spec == Safe /\ WF_displayVars(Show)
=============================================================================
