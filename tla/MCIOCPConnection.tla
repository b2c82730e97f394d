------------------------- MODULE MCIOCPConnection -------------------------
(* Model values and symmetry for the runs of IOCPConnection.               *)
EXTENDS IOCPConnection, TLC

CONSTANTS w1, w2, app, app2, s1, s2, s3

\* Contexts in the pool differ by nothing but their address.
Symmetric == Permutations(Contexts) \cup Permutations(Workers)
===========================================================================
