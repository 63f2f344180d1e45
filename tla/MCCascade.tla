------------------------------ MODULE MCCascade ------------------------------
(***************************************************************************)
(* Cascade for a picture of 26 by 26 pixels and two scales.                *)
(***************************************************************************)
EXTENDS Cascade

MCScales == <<1, 2>>
\* At full size two cells that do not overlap too much unless P-net moves the
\* right one left; at half size the only cell there is, across them.
MCCells == <<<<<<0, 0>>, <<0, 3>>>>, <<<<0, 0>>>>>>
\* Regressions; one moves the largest of the boxes out of the picture, the
\* last turns a box inside out.
Still  == <<0, 0, 0, 0>>
Aside  == <<-1, 0, -1, 0>>
Down   == <<0, 1, 0, 1>>
Up     == <<0, -1, 0, -1>>
Out    == <<4, 4, 4, 4>>
Turned == <<2, 2, -4, -4>>
MCPnetVerdicts == {[score |-> 6, reg |-> Still], [score |-> 7, reg |-> Still],
                   [score |-> 8, reg |-> Aside]}
MCRnetVerdicts == {[score |-> 7, reg |-> Still], [score |-> 8, reg |-> Down],
                   [score |-> 10, reg |-> Out]}
MCOnetVerdicts == {[score |-> 9, reg |-> Still], [score |-> 10, reg |-> Up],
                   [score |-> 10, reg |-> Turned]}
=============================================================================
