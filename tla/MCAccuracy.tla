------------------------------ MODULE MCAccuracy ------------------------------
(***************************************************************************)
(* Accuracy with three test pictures.                                      *)
(***************************************************************************)
EXTENDS Accuracy

MCAccTestFrames == <<2, 3, 5>>
=============================================================================
