--------------------------- MODULE MessageChannel ---------------------------
(***************************************************************************)
(* What the application expects of Send on one end of a connection and     *)
(* HandData on the other: messages arrive in the order they were sent,     *)
(* each once, as long as nothing has overtaken anything on the way.        *)
(***************************************************************************)
EXTENDS Naturals, Sequences

VARIABLES accepted,   \* how many messages Send took; message i is the i-th
          delivered,  \* the messages HandData got, in order
          broken      \* the order on the wire is lost, nothing is promised

channelVars == <<accepted, delivered, broken>>

ChannelInit == accepted = 0 /\ delivered = <<>> /\ broken = FALSE

Accept ==
  /\ accepted' = accepted + 1
  /\ UNCHANGED <<delivered, broken>>

Deliver ==
  /\ ~broken
  /\ Len(delivered) < accepted
  /\ delivered' = Append(delivered, Len(delivered) + 1)
  /\ UNCHANGED <<accepted, broken>>

Break == broken' = TRUE /\ UNCHANGED <<accepted, delivered>>

Unordered == broken /\ broken' /\ accepted' >= accepted

Channel == ChannelInit /\ [][Accept \/ Deliver \/ Break \/ Unordered]_channelVars
=============================================================================
