---------------------------- MODULE MCConnection ----------------------------
(* Connections are interchangeable, and so are descriptors.                *)
EXTENDS Connection, TLC

Same == Permutations(Conns) \cup Permutations(Fds)
=============================================================================
