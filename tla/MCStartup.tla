------------------------------ MODULE MCStartup ------------------------------
(***************************************************************************)
(* Startup with people numbered in the order in which directories list     *)
(* them.                                                                   *)
(***************************************************************************)
EXTENDS Startup, SequencesExt

MCPerson == 1 .. 3
MCListDir == [S \in SUBSET MCPerson |-> SetToSortSeq(S, <)]
=============================================================================
