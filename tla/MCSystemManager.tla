-------------------------- MODULE MCSystemManager ---------------------------
(* SystemManager for TLC, with what the documentation claims of it and the *)
(* inductive invariant of its proofs; the .cfg files give the bounds.      *)
EXTENDS SystemManagerClaims, SystemManagerProofs
=============================================================================
