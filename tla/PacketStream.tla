---------------------------- MODULE PacketStream ----------------------------
(***************************************************************************)
(* One direction of a connection: how IOCPBase cuts messages into IO       *)
(* contexts (PackSendData), hands them to the socket from several threads  *)
(* (PostSend, HandSend), and how the other end puts messages together      *)
(* again from whatever fragments TCP delivers (UnpackReceivedData).        *)
(*                                                                         *)
(* Byte i of the packet of message m is <<m, i>>; the first HeaderLen      *)
(* bytes of a packet are its PackHeader.                                   *)
(***************************************************************************)
EXTENDS Integers, Sequences

CONSTANTS Workers,    \* completion-port threads of the sending end
          Apps,       \* its threads that call Send
          HeaderLen,  \* sizeof(PackHeader)
          SendBuf,    \* MAX_BUF_LEN, one IO context's buffer
          RcvBuf,     \* MAX_RCV_BUF_LEN, the receive context's buffer
          Bodies,     \* the body lengths the application sends
          MaxMsgs     \* bound: messages sent

ASSUME StreamThreads == Workers \cap Apps = {}
ASSUME BufferAssumption ==
  /\ HeaderLen \in Nat \ {0}
  /\ SendBuf \in Nat /\ HeaderLen < SendBuf
  /\ RcvBuf \in Nat /\ HeaderLen < RcvBuf
  /\ Bodies \subseteq Nat
  /\ MaxMsgs \in Nat

Threads == Workers \cup Apps

VARIABLES
  sent,       \* body lengths of the messages packed so far
  queue,      \* m_queueIoContext: the pieces waiting to be sent
  packed,     \* pieces packed so far; they are numbered
  thr,        \* what the sending threads do
  sends,      \* WSASend operations whose completion is not handled yet
  wire,       \* bytes the socket took and the other end has not read
  onWire,     \* the number of the last piece the socket took
  overtaken,  \* a piece reached the socket before an earlier one
  mem,        \* m_szBuffer, as far as received bytes go
  pos,        \* where buf points: bytes of mem already consumed
  window,     \* m_wsaBuf.len of the posted receive
  rcv,        \* the receiving end: a receive posted, unpacking, or closed
  delivered,  \* messages handed to HandData
  garbled     \* HandData got bytes that are no message of the sender

sender   == <<sent, queue, packed, thr, sends, onWire, overtaken>>
receiver == <<mem, pos, window, rcv, delivered, garbled>>
vars     == <<sender, wire, receiver>>

Byte  == Nat \X Nat
Piece == [no: Nat, bytes: Seq(Byte)]
NoPiece == [no |-> 0, bytes |-> <<>>]

min(a, b) == IF a < b THEN a ELSE b

-----------------------------------------------------------------------------
\* Packing

\* The pieces of message m: the first holds the header and as much of the body
\* as fits, the others a buffer of body each.
Cut(m, length) ==
  LET first == min(length, SendBuf - HeaderLen)
      rest  == length - first
      n     == 1 + (rest + SendBuf - 1) \div SendBuf
      start(k) == IF k = 1 THEN 0 ELSE HeaderLen + first + (k - 2) * SendBuf
      size(k)  == IF k = 1 THEN HeaderLen + first
                  ELSE min(rest - (k - 2) * SendBuf, SendBuf)
  IN [k \in 1..n |-> [no |-> packed + k,
                      bytes |-> [i \in 1..size(k) |-> <<m, start(k) + i>>]]]

Init ==
  /\ sent = <<>>
  /\ queue = <<>>
  /\ packed = 0
  /\ thr = [t \in Threads |-> [pc |-> "idle", piece |-> NoPiece]]
  /\ sends = 0
  /\ wire = <<>>
  /\ onWire = 0
  /\ overtaken = FALSE
  /\ mem = <<>>
  /\ pos = 0
  /\ window = RcvBuf
  /\ rcv = "posted"
  /\ delivered = <<>>
  /\ garbled = FALSE

Goto(t, pc) == thr' = [thr EXCEPT ![t] = [pc |-> pc, piece |-> NoPiece]]

\* Send: empty and oversized messages are refused, the others are packed in
\* one critical section of the socket context's lock.
Send(t, length) ==
  /\ t \in Apps
  /\ thr[t].pc = "idle"
  /\ Len(sent) < MaxMsgs
  /\ length > 0
  /\ HeaderLen + length <= RcvBuf
  /\ LET pieces == Cut(Len(sent) + 1, length)
     IN /\ queue' = queue \o pieces
        /\ packed' = packed + Len(pieces)
  /\ sent' = Append(sent, length)
  /\ Goto(t, "PostSend")
  /\ UNCHANGED <<sends, onWire, overtaken, wire, receiver>>

\* PostSend, inside the lock: the front of the queue, if there is one.
PostSend(t) ==
  /\ thr[t].pc = "PostSend"
  /\ IF queue = <<>>
     THEN Goto(t, "idle") /\ UNCHANGED queue
     ELSE /\ thr' = [thr EXCEPT ![t] = [pc |-> "WSASend", piece |-> Head(queue)]]
          /\ queue' = Tail(queue)
  /\ UNCHANGED <<sent, packed, sends, onWire, overtaken, wire, receiver>>

\* PostSend, outside the lock: the piece goes to the socket.
WSASend(t) ==
  /\ thr[t].pc = "WSASend"
  /\ wire' = wire \o thr[t].piece.bytes
  /\ onWire' = thr[t].piece.no
  /\ overtaken' = (overtaken \/ thr[t].piece.no # onWire + 1)
  /\ sends' = sends + 1
  /\ Goto(t, "idle")
  /\ UNCHANGED <<sent, queue, packed, receiver>>

\* Mutant: the completed send is not followed by the next one.
HandSend_Stops(t) ==
  /\ t \in Workers
  /\ thr[t].pc = "idle"
  /\ sends > 0
  /\ sends' = sends - 1
  /\ UNCHANGED <<sent, queue, packed, thr, onWire, overtaken, wire, receiver>>

HandSend(t) ==
  /\ t \in Workers
  /\ thr[t].pc = "idle"
  /\ sends > 0
  /\ sends' = sends - 1
  /\ Goto(t, "PostSend")
  /\ UNCHANGED <<sent, queue, packed, onWire, overtaken, wire, receiver>>

-----------------------------------------------------------------------------
\* Receiving

\* The posted receive completes with some of the bytes on the wire.
HandReceive ==
  /\ rcv = "posted"
  /\ \E n \in 1..min(window, Len(wire)) :
       /\ mem' = mem \o SubSeq(wire, 1, n)
       /\ wire' = SubSeq(wire, n + 1, Len(wire))
  /\ rcv' = "unpack"
  /\ UNCHANGED <<pos, window, delivered, garbled, sender>>

uDataLength == Len(mem) - pos

\* What buf points at is the header of message m.
HeaderOf(m) == /\ uDataLength >= HeaderLen
               /\ \A i \in 1..HeaderLen : mem[pos + i] = <<m, i>>

\* uPackLength is 32 bits wide: bytes that are no header give any length, zero
\* included, and RcvBuf + 1 stands for all that are too large.
uPackLengths ==
  IF \E m \in DOMAIN sent : HeaderOf(m)
  THEN {HeaderLen + sent[m] : m \in {k \in DOMAIN sent : HeaderOf(k)}}
  ELSE 0..RcvBuf + 1

\* The loop of UnpackReceivedData, one branch an action.

TooLarge ==
  /\ rcv = "unpack"
  /\ \E uPackLength \in uPackLengths :
       uDataLength >= HeaderLen /\ uPackLength > RcvBuf
  /\ rcv' = "closed"
  /\ UNCHANGED <<mem, pos, window, delivered, garbled, wire, sender>>

\* Mutants: the window is not reduced, the bytes are not moved to the front.
Incomplete_FullWindow ==
  /\ rcv = "unpack"
  /\ \E uPackLength \in uPackLengths :
       \/ uDataLength < HeaderLen
       \/ uPackLength <= RcvBuf /\ uDataLength < uPackLength
  /\ mem' = SubSeq(mem, pos + 1, Len(mem))
  /\ pos' = 0
  /\ window' = RcvBuf
  /\ rcv' = "posted"
  /\ UNCHANGED <<delivered, garbled, wire, sender>>

Incomplete_NotMoved ==
  /\ rcv = "unpack"
  /\ \E uPackLength \in uPackLengths :
       \/ uDataLength < HeaderLen
       \/ uPackLength <= RcvBuf /\ uDataLength < uPackLength
  /\ mem' = SubSeq(mem, 1, uDataLength)
  /\ pos' = 0
  /\ window' = RcvBuf - uDataLength
  /\ rcv' = "posted"
  /\ UNCHANGED <<delivered, garbled, wire, sender>>

\* What is left moves to the front and the next receive fills the rest.
Incomplete ==
  /\ rcv = "unpack"
  /\ \E uPackLength \in uPackLengths :
       \/ uDataLength < HeaderLen
       \/ uPackLength <= RcvBuf /\ uDataLength < uPackLength
  /\ mem' = SubSeq(mem, pos + 1, Len(mem))
  /\ pos' = 0
  /\ window' = RcvBuf - uDataLength
  /\ rcv' = "posted"
  /\ UNCHANGED <<delivered, garbled, wire, sender>>

Complete(uPackLength) ==
  /\ rcv = "unpack"
  /\ uPackLength \in uPackLengths
  /\ uDataLength >= HeaderLen
  /\ uPackLength <= uDataLength
  /\ uPackLength <= RcvBuf

WrongCheck ==
  /\ \E uPackLength \in uPackLengths : Complete(uPackLength)
  /\ \A m \in DOMAIN sent : ~HeaderOf(m)
  /\ rcv' = "closed"
  /\ UNCHANGED <<mem, pos, window, delivered, garbled, wire, sender>>

\* buf holds exactly the packet of message m.
Holds(m, uPackLength) ==
  /\ uPackLength = HeaderLen + sent[m]
  /\ \A i \in 1..uPackLength : mem[pos + i] = <<m, i>>

HandData(uPackLength) ==
  /\ Complete(uPackLength)
  /\ LET whole == {m \in DOMAIN sent : Holds(m, uPackLength)}
     IN IF whole = {}
        THEN garbled' = TRUE /\ UNCHANGED delivered
        ELSE \E m \in whole : /\ delivered' = Append(delivered, m)
                              /\ UNCHANGED garbled
  /\ pos' = pos + uPackLength
  /\ UNCHANGED <<mem, window, rcv, wire, sender>>

Unpack ==
  \/ TooLarge
  \/ Incomplete
  \/ WrongCheck
  \/ \E uPackLength \in 0..RcvBuf : HandData(uPackLength)

-----------------------------------------------------------------------------
Step(t) == PostSend(t) \/ WSASend(t)

Next ==
  \/ \E t \in Threads, length \in Bodies : Send(t, length)
  \/ \E t \in Threads : Step(t) \/ HandSend(t)
  \/ HandReceive
  \/ Unpack

Spec == Init /\ [][Next]_vars

\* A thread goes on, a completion is taken in the end, and the receiving end
\* reads what the wire holds.
FairSpec ==
  /\ Spec
  /\ \A t \in Threads : WF_vars(Step(t))
  /\ WF_vars(\E t \in Workers : HandSend(t))
  /\ WF_vars(HandReceive)
  /\ WF_vars(Unpack)

-----------------------------------------------------------------------------
\* Every variable has its type, and a piece fits the buffer of an IO context.
TypeOK ==
  /\ sent \in Seq(Nat)
  /\ queue \in Seq(Piece)
  /\ packed \in Nat
  /\ thr \in [Threads -> [pc: {"idle", "PostSend", "WSASend"}, piece: Piece]]
  /\ sends \in Nat
  /\ wire \in Seq(Byte)
  /\ onWire \in Nat
  /\ overtaken \in BOOLEAN
  /\ mem \in Seq(Byte)
  /\ pos \in 0..Len(mem)
  /\ window \in Nat
  /\ rcv \in {"posted", "unpack", "closed"}
  /\ delivered \in Seq(Nat)
  /\ garbled \in BOOLEAN
  /\ \A i \in 1..Len(queue) : Len(queue[i].bytes) <= SendBuf

\* The receive UnpackReceivedData posts neither runs over m_szBuffer nor asks
\* for zero bytes, whose completion would be taken for the peer's close,
\* whatever lengths the headers carry.
WindowSound ==
  /\ Len(mem) <= RcvBuf
  /\ rcv = "posted" => window > 0 /\ Len(mem) + window <= RcvBuf

\* HandData never gets bytes that are no message of the sender while the pieces
\* reach the socket in the order PackSendData cut them, wherever TCP cuts the
\* stream and however many times what is left has moved to the front.
WholeMessages == ~overtaken => ~garbled

\* However TCP cuts the stream, the two ends implement a FIFO channel until one
\* piece overtakes another on the way from the queue to the socket.
FifoChannel ==
  INSTANCE MessageChannel WITH accepted <- Len(sent), broken <- overtaken
ImplementsChannel == FifoChannel!Channel

\* Every message is handed to the application in the end: the completion of
\* one send is what sends the next piece, and nothing stays behind in the
\* queue or in the receive buffer.
AllDelivered ==
  \A n \in 1..MaxMsgs :
    Len(sent) = n ~> (Len(delivered) >= n \/ overtaken)
=============================================================================
