--------------------------- MODULE MCUserSessions ---------------------------
(* Model values and symmetry for the runs of UserSessions.                 *)
EXTENDS UserSessions, TLC

CONSTANTS h1, h2, w1, heart, i1, i2, i3

Symmetric == Permutations(Handlers) \cup Permutations(Infos)
=============================================================================
