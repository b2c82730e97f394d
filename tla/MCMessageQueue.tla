--------------------------- MODULE MCMessageQueue ---------------------------
(* Model values for the run of MessageQueue.                               *)
EXTENDS MessageQueue, TLC

CONSTANTS c1, c2, p1, p2, b1, b2, b3

=============================================================================
