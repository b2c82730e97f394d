---------------------------- MODULE MCClientStop ----------------------------
(* Model values for the run of ClientStop.                                 *)
EXTENDS ClientStop, TLC

CONSTANTS w1, w2, app, daemon, s1, s2
=============================================================================
