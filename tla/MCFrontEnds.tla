---------------------------- MODULE MCFrontEnds ----------------------------
(***************************************************************************)
(* FrontEnds for the model checker.                                        *)
(***************************************************************************)
EXTENDS FrontEnds

OneSetpoint == {<<7, 7>>}
=============================================================================
