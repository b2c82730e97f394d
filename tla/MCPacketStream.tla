--------------------------- MODULE MCPacketStream ---------------------------
(* Model values for the run of PacketStream.                               *)
EXTENDS PacketStream, TLC

CONSTANTS w1, w2, app1, app2

=============================================================================
