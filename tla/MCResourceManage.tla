------------------------- MODULE MCResourceManage -------------------------
(* Model values and symmetry for the run of ResourceManage.                *)
EXTENDS ResourceManage, TLC

CONSTANTS p1, p2, p3, p4

Symmetric == Permutations(Objects)
===========================================================================
