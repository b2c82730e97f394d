--------------------------- MODULE MCClientLogin ----------------------------
(* Model values for the run of ClientLogin.                                *)
EXTENDS ClientLogin, TLC

CONSTANTS w1, app, daemon, s1, s2

=============================================================================
