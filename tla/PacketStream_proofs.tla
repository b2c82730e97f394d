------------------------- MODULE PacketStream_proofs -------------------------
(***************************************************************************)
(* Proofs about PacketStream, for every header length, every buffer size   *)
(* and every message: the types, that no receive overruns its buffer or    *)
(* asks for zero bytes, and that the two ends implement MessageChannel.    *)
(***************************************************************************)
EXTENDS PacketStream, TLAPS

LEMMA TimesMonotone ==
  ASSUME NEW a \in Int, NEW b \in Int, NEW c \in Nat, a <= b
  PROVE  a * c <= b * c
<1>1. b * c = a * c + (b - a) * c
  BY SMT
<1>2. (b - a) * c >= 0
  BY SMT
<1> QED
  BY <1>1, <1>2

LEMMA CutType ==
  ASSUME NEW m \in Nat, NEW length \in Nat \ {0}, packed \in Nat
  PROVE  /\ Cut(m, length) \in Seq(Piece)
         /\ \A k \in 1..Len(Cut(m, length)) :
              Len(Cut(m, length)[k].bytes) <= SendBuf
<1> DEFINE first == min(length, SendBuf - HeaderLen)
           rest  == length - first
           more  == (rest + SendBuf - 1) \div SendBuf
           n     == 1 + more
           start(k) == IF k = 1 THEN 0 ELSE HeaderLen + first + (k - 2) * SendBuf
           size(k)  == IF k = 1 THEN HeaderLen + first
                       ELSE min(rest - (k - 2) * SendBuf, SendBuf)
           piece(k) == [no |-> packed + k,
                        bytes |-> [i \in 1..size(k) |-> <<m, start(k) + i>>]]
<1>1. /\ HeaderLen \in Nat /\ SendBuf \in Nat /\ SendBuf > 0
      /\ first \in Nat /\ rest \in Nat /\ HeaderLen + first <= SendBuf
  BY BufferAssumption DEF min
<1>2. more \in Nat /\ more * SendBuf <= rest + SendBuf - 1
  BY <1>1, SMT
<1> HIDE DEF first, rest, more
<1>3. ASSUME NEW k \in 1..n
      PROVE  /\ size(k) \in Nat /\ size(k) <= SendBuf
             /\ start(k) \in Nat
  <2>1. CASE k = 1
    BY <1>1, <2>1
  <2>2. CASE k # 1
    <3>1. k - 1 \in Int /\ k - 2 \in Nat /\ k - 1 <= more
      BY <1>2, <2>2
    <3>2. (k - 1) * SendBuf <= more * SendBuf
      BY <1>1, <1>2, <3>1, TimesMonotone
    <3>3. (k - 1) * SendBuf = (k - 2) * SendBuf + SendBuf
      BY <1>1, <3>1, SMT
    <3>4. (k - 2) * SendBuf \in Nat
      BY <1>1, <3>1, SMT
    <3>5. (k - 2) * SendBuf <= rest
      BY <1>1, <1>2, <3>1, <3>2, <3>3, <3>4
    <3>6. (rest - (k - 2) * SendBuf) \in Nat
      BY <1>1, <3>4, <3>5
    <3>7. size(k) = min(rest - (k - 2) * SendBuf, SendBuf)
      BY <2>2
    <3>8. size(k) \in Nat /\ size(k) <= SendBuf
      BY <1>1, <3>6, <3>7 DEF min
    <3>9. start(k) \in Nat
      BY <1>1, <2>2, <3>4
    <3> QED
      BY <3>8, <3>9
  <2> QED
    BY <2>1, <2>2
<1> HIDE DEF size, start
<1>4. ASSUME NEW k \in 1..n
      PROVE  piece(k) \in Piece /\ Len(piece(k).bytes) = size(k)
  <2>1. [i \in 1..size(k) |-> <<m, start(k) + i>>] \in Seq(Byte)
    BY <1>3 DEF Byte
  <2>2. packed + k \in Nat
    BY <1>2
  <2> QED
    BY <1>3, <2>1, <2>2 DEF Piece
<1> HIDE DEF piece
<1>5. Cut(m, length) = [k \in 1..n |-> piece(k)]
  BY DEF Cut, piece, size, start, first, rest, more
<1>6. n \in Nat
  BY <1>2
<1>7. [k \in 1..n |-> piece(k)] \in Seq(Piece)
  BY <1>4, <1>6
<1> QED
  BY <1>3, <1>4, <1>5, <1>6, <1>7

\* The invariant is inductive as it stands: the bound on mem in one state is
\* what the window of the next receive is computed from.
IInv == TypeOK /\ WindowSound

LEMMA InitIInv == Init => IInv
<1> SUFFICES ASSUME Init PROVE IInv
  OBVIOUS
<1>1. NoPiece \in Piece
  BY DEF NoPiece, Piece
<1>2. RcvBuf \in Nat /\ RcvBuf > 0
  BY BufferAssumption
<1>3. /\ Len(queue) = 0 /\ Len(mem) = 0
      /\ queue \in Seq(Piece) /\ wire \in Seq(Byte) /\ mem \in Seq(Byte)
      /\ sent \in Seq(Nat) /\ delivered \in Seq(Nat)
  BY DEF Init
<1>4. thr \in [Threads -> [pc: {"idle", "PostSend", "WSASend"}, piece: Piece]]
  BY <1>1 DEF Init
<1>5. TypeOK
  <2>1. /\ packed \in Nat /\ sends \in Nat /\ onWire \in Nat /\ window \in Nat
        /\ overtaken \in BOOLEAN /\ garbled \in BOOLEAN
        /\ rcv \in {"posted", "unpack", "closed"}
    BY <1>2 DEF Init
  <2>2. pos \in 0..Len(mem)
    BY <1>3 DEF Init
  <2>3. \A i \in 1..Len(queue) : Len(queue[i].bytes) <= SendBuf
    BY <1>3
  <2> QED
    BY <1>3, <1>4, <2>1, <2>2, <2>3 DEF TypeOK
<1>6. WindowSound
  BY <1>2, <1>3 DEF Init, WindowSound
<1> QED
  BY <1>5, <1>6 DEF IInv

LEMMA GotoType ==
  ASSUME NEW t \in Threads, NEW pc \in {"idle", "PostSend"}, TypeOK, Goto(t, pc)
  PROVE  thr' \in [Threads -> [pc: {"idle", "PostSend", "WSASend"}, piece: Piece]]
<1>1. NoPiece \in Piece
  BY DEF NoPiece, Piece
<1> QED
  BY <1>1 DEF TypeOK, Goto

LEMMA SendIInv ==
  ASSUME IInv, NEW t \in Threads, NEW length \in Bodies, Send(t, length)
  PROVE  IInv'
<1> USE DEF IInv
<1> DEFINE pieces == Cut(Len(sent) + 1, length)
<1>1. length \in Nat \ {0} /\ Len(sent) + 1 \in Nat
  BY BufferAssumption DEF Send, TypeOK
<1>2. /\ pieces \in Seq(Piece)
      /\ \A k \in 1..Len(pieces) : Len(pieces[k].bytes) <= SendBuf
  BY <1>1, CutType DEF TypeOK
<1> HIDE DEF pieces
<1>3. queue' = queue \o pieces /\ packed' = packed + Len(pieces)
  BY DEF Send, pieces
<1>4. queue' \in Seq(Piece) /\ packed' \in Nat
  BY <1>2, <1>3 DEF TypeOK
<1>5. \A i \in 1..Len(queue') : Len(queue'[i].bytes) <= SendBuf
  <2> SUFFICES ASSUME NEW i \in 1..Len(queue')
               PROVE  Len(queue'[i].bytes) <= SendBuf
    OBVIOUS
  <2>1. CASE i <= Len(queue)
    BY <1>2, <1>3, <2>1 DEF TypeOK
  <2>2. CASE i > Len(queue)
    <3>1. i - Len(queue) \in 1..Len(pieces) /\ queue'[i] = pieces[i - Len(queue)]
      BY <1>2, <1>3, <2>2 DEF TypeOK
    <3> QED
      BY <1>2, <3>1
  <2> QED
    BY <2>1, <2>2 DEF TypeOK
<1>6. sent' \in Seq(Nat)
  BY <1>1 DEF Send, TypeOK
<1>7. thr' \in [Threads -> [pc: {"idle", "PostSend", "WSASend"}, piece: Piece]]
  BY GotoType DEF Send
<1>8. UNCHANGED <<sends, onWire, overtaken, wire, receiver>>
  BY DEF Send
<1>9. TypeOK'
  BY <1>4, <1>5, <1>6, <1>7, <1>8 DEF TypeOK, receiver
<1> QED
  BY <1>8, <1>9 DEF WindowSound, receiver

LEMMA PostSendIInv ==
  ASSUME IInv, NEW t \in Threads, PostSend(t)
  PROVE  IInv'
<1> USE DEF IInv
<1>1. UNCHANGED <<sent, packed, sends, onWire, overtaken, wire, receiver>>
  BY DEF PostSend
<1>2. CASE queue = <<>>
  <2>1. Goto(t, "idle") /\ queue' = queue
    BY <1>2 DEF PostSend
  <2>2. thr' \in [Threads -> [pc: {"idle", "PostSend", "WSASend"}, piece: Piece]]
    BY <2>1, GotoType
  <2> QED
    BY <1>1, <2>1, <2>2 DEF TypeOK, WindowSound, receiver
<1>3. CASE queue # <<>>
  <2>1. /\ thr' = [thr EXCEPT ![t] = [pc |-> "WSASend", piece |-> Head(queue)]]
        /\ queue' = Tail(queue)
    BY <1>3 DEF PostSend
  <2>2. Head(queue) \in Piece /\ Tail(queue) \in Seq(Piece)
    BY <1>3 DEF TypeOK
  <2>3. \A i \in 1..Len(queue') : Len(queue'[i].bytes) <= SendBuf
    BY <1>3, <2>1 DEF TypeOK
  <2>4. thr' \in [Threads -> [pc: {"idle", "PostSend", "WSASend"}, piece: Piece]]
    BY <2>1, <2>2 DEF TypeOK
  <2> QED
    BY <1>1, <2>1, <2>2, <2>3, <2>4 DEF TypeOK, WindowSound, receiver
<1> QED
  BY <1>2, <1>3

LEMMA WSASendIInv ==
  ASSUME IInv, NEW t \in Threads, WSASend(t)
  PROVE  IInv'
<1> USE DEF IInv
<1>1. thr[t].piece.bytes \in Seq(Byte) /\ thr[t].piece.no \in Nat
  BY DEF TypeOK, Piece
<1>2. wire' \in Seq(Byte) /\ onWire' \in Nat /\ sends' \in Nat
  BY <1>1 DEF WSASend, TypeOK
<1>3. overtaken' \in BOOLEAN
  BY DEF WSASend
<1>4. thr' \in [Threads -> [pc: {"idle", "PostSend", "WSASend"}, piece: Piece]]
  BY GotoType DEF WSASend
<1>5. UNCHANGED <<sent, queue, packed, receiver>>
  BY DEF WSASend
<1> QED
  BY <1>2, <1>3, <1>4, <1>5 DEF TypeOK, WindowSound, receiver

LEMMA HandSendIInv ==
  ASSUME IInv, NEW t \in Threads, HandSend(t)
  PROVE  IInv'
<1> USE DEF IInv
<1>1. sends' \in Nat
  BY DEF HandSend, TypeOK
<1>2. thr' \in [Threads -> [pc: {"idle", "PostSend", "WSASend"}, piece: Piece]]
  BY GotoType DEF HandSend
<1>3. UNCHANGED <<sent, queue, packed, onWire, overtaken, wire, receiver>>
  BY DEF HandSend
<1> QED
  BY <1>1, <1>2, <1>3 DEF TypeOK, WindowSound, receiver

LEMMA HandReceiveIInv ==
  ASSUME IInv, HandReceive
  PROVE  IInv'
<1> USE DEF IInv
<1>1. PICK n \in 1..min(window, Len(wire)) :
        /\ mem' = mem \o SubSeq(wire, 1, n)
        /\ wire' = SubSeq(wire, n + 1, Len(wire))
  BY DEF HandReceive
<1>2. n \in Nat /\ n <= window /\ n <= Len(wire)
  BY <1>1 DEF min, TypeOK
<1>3. /\ SubSeq(wire, 1, n) \in Seq(Byte) /\ Len(SubSeq(wire, 1, n)) = n
      /\ SubSeq(wire, n + 1, Len(wire)) \in Seq(Byte)
  BY <1>2 DEF TypeOK
<1>4. mem' \in Seq(Byte) /\ wire' \in Seq(Byte) /\ Len(mem') = Len(mem) + n
  BY <1>1, <1>2, <1>3 DEF TypeOK
<1>5. rcv = "posted" /\ rcv' = "unpack"
  BY DEF HandReceive
<1>6. UNCHANGED <<pos, window, delivered, garbled, sender>>
  BY DEF HandReceive
<1>7. Len(mem') <= RcvBuf
  BY <1>2, <1>4, <1>5, BufferAssumption DEF WindowSound, TypeOK
<1>8. pos' \in 0..Len(mem')
  BY <1>2, <1>4, <1>6 DEF TypeOK
<1>9. TypeOK'
  BY <1>4, <1>5, <1>6, <1>8 DEF TypeOK, sender
<1> QED
  BY <1>5, <1>7, <1>9 DEF WindowSound

\* The window the code posts: what is left after the bytes kept, and those are
\* fewer than a header or than a packet that fits the buffer.
LEMMA IncompleteIInv ==
  ASSUME IInv, Incomplete
  PROVE  IInv'
<1> USE DEF IInv
<1>1. /\ rcv = "unpack" /\ rcv' = "posted"
      /\ mem' = SubSeq(mem, pos + 1, Len(mem))
      /\ pos' = 0
      /\ window' = RcvBuf - uDataLength
      /\ UNCHANGED <<delivered, garbled, wire, sender>>
  BY DEF Incomplete
<1>2. uDataLength \in Nat /\ uDataLength < RcvBuf
  <2>1. PICK uPackLength \in uPackLengths :
          \/ uDataLength < HeaderLen
          \/ uPackLength <= RcvBuf /\ uDataLength < uPackLength
    BY Zenon DEF Incomplete
  <2>2. uPackLength \in Nat
    BY BufferAssumption DEF uPackLengths, TypeOK
  <2>3. uDataLength \in Nat
    BY DEF uDataLength, TypeOK
  <2> QED
    BY <2>1, <2>2, <2>3, BufferAssumption
<1>3. mem' \in Seq(Byte) /\ Len(mem') = uDataLength
  BY <1>1 DEF TypeOK, uDataLength
<1>4. window' \in Nat /\ window' > 0 /\ Len(mem') + window' <= RcvBuf
  BY <1>1, <1>2, <1>3, BufferAssumption
<1>5. TypeOK'
  BY <1>1, <1>2, <1>3, <1>4 DEF TypeOK, sender
<1>6. Len(mem') <= RcvBuf
  BY <1>2, <1>3, BufferAssumption
<1>7. WindowSound'
  BY <1>4, <1>6 DEF WindowSound
<1> QED
  BY <1>5, <1>7

LEMMA HandDataIInv ==
  ASSUME IInv, NEW uPackLength \in 0..RcvBuf, HandData(uPackLength)
  PROVE  IInv'
<1> USE DEF IInv
<1>1. /\ rcv = "unpack"
      /\ uPackLength <= uDataLength
      /\ pos' = pos + uPackLength
      /\ UNCHANGED <<mem, window, rcv, wire, sender>>
  BY DEF HandData, Complete
<1>2. uPackLength \in Nat
  BY BufferAssumption
<1>3. pos' \in 0..Len(mem')
  BY <1>1, <1>2 DEF TypeOK, uDataLength
<1>4. delivered' \in Seq(Nat) /\ garbled' \in BOOLEAN
  <2> DEFINE whole == {m \in DOMAIN sent : Holds(m, uPackLength)}
  <2>1. CASE whole = {}
    BY <2>1 DEF HandData, TypeOK
  <2>2. CASE whole # {}
    <3>1. PICK m \in whole : delivered' = Append(delivered, m) /\ garbled' = garbled
      BY <2>2 DEF HandData
    <3>2. m \in Nat
      BY DEF TypeOK
    <3> QED
      BY <3>1, <3>2 DEF TypeOK
  <2> QED
    BY <2>1, <2>2
<1>5. TypeOK'
  BY <1>1, <1>3, <1>4 DEF TypeOK, sender
<1> QED
  BY <1>1, <1>5 DEF WindowSound

LEMMA CloseIInv ==
  ASSUME IInv, TooLarge \/ WrongCheck
  PROVE  IInv'
<1> USE DEF IInv
<1>1. rcv' = "closed" /\ UNCHANGED <<mem, pos, window, delivered, garbled, wire, sender>>
  BY DEF TooLarge, WrongCheck
<1> QED
  BY <1>1 DEF TypeOK, WindowSound, sender

LEMMA NextIInv == IInv /\ [Next]_vars => IInv'
<1> SUFFICES ASSUME IInv, [Next]_vars PROVE IInv'
  OBVIOUS
<1>1. ASSUME NEW t \in Threads, NEW length \in Bodies, Send(t, length)
      PROVE  IInv'
  BY <1>1, SendIInv
<1>2. ASSUME NEW t \in Threads, Step(t) \/ HandSend(t)
      PROVE  IInv'
  BY <1>2, PostSendIInv, WSASendIInv, HandSendIInv DEF Step
<1>3. CASE HandReceive
  BY <1>3, HandReceiveIInv
<1>4. CASE Unpack
  BY <1>4, IncompleteIInv, HandDataIInv, CloseIInv DEF Unpack
<1>5. CASE UNCHANGED vars
  BY <1>5 DEF IInv, TypeOK, WindowSound, vars, sender, receiver
<1> QED
  BY <1>1, <1>2, <1>3, <1>4, <1>5 DEF Next

LEMMA StreamInvariant == Spec => []IInv
BY InitIInv, NextIInv, PTL DEF Spec

\* TypeOK for every buffer size: PackSendData never fills an IO context beyond
\* its buffer.
THEOREM StreamTypes == Spec => []TypeOK
<1>1. IInv => TypeOK
  BY DEF IInv
<1> QED
  BY <1>1, StreamInvariant, PTL

\* WindowSound for every header length and buffer size: UnpackReceivedData never
\* posts a receive beyond its buffer nor one of zero bytes.
THEOREM ReceiveWindow == Spec => []WindowSound
<1>1. IInv => WindowSound
  BY DEF IInv
<1> QED
  BY <1>1, StreamInvariant, PTL
-----------------------------------------------------------------------------
\* The FIFO channel. The bytes of all messages sent, one packet after another,
\* are one stream: the packet of message m begins after off[m] bytes of it and
\* piece number p after start[p] bytes. As long as no piece has overtaken
\* another, every byte stands where the stream has it, in the queue, in a
\* thread's hands, on the wire and in the receive buffer.

\* With N messages of lengths snt sent, b is byte number z of the stream.
OnStream(N, snt, off, b, z) ==
  /\ b[1] \in 1..N
  /\ b[2] \in 1..HeaderLen + snt[b[1]]
  /\ off[b[1]] + b[2] = z

\* s holds the bytes of the stream after the first x, up to the first y.
Placed(N, snt, off, s, x, y) ==
  /\ x + Len(s) = y
  /\ \A i \in 1..Len(s) : OnStream(N, snt, off, s[i], x + i)

\* Where the packets begin. The second part would follow from the first by
\* induction over m; it is carried along instead.
Offsets(N, snt, off) ==
  /\ \A m \in 1..N : off[m + 1] = off[m] + HeaderLen + snt[m]
  /\ \A m \in 1..N, n \in 1..N + 1 :
       m < n => off[m] + HeaderLen + snt[m] <= off[n]

\* Of pk pieces packed, p holds the part of the stream its number stands for.
PieceAt(N, snt, off, start, pk, p) ==
  /\ p.no \in 1..pk
  /\ Placed(N, snt, off, p.bytes, start[p.no], start[p.no + 1])

PiecesPlaced(off, start) ==
  /\ onWire <= packed
  /\ start[packed + 1] = off[Len(sent) + 1]
  /\ \A i \in 1..Len(queue) :
       PieceAt(Len(sent), sent, off, start, packed, queue[i])
  /\ \A t \in Threads :
       thr[t].pc = "WSASend" =>
         PieceAt(Len(sent), sent, off, start, packed, thr[t].piece)

\* buf points at the first byte of the next message to deliver.
ReceivedPlaced(off, start) ==
  /\ Len(delivered) <= Len(sent)
  /\ \A j \in pos + 1..Len(mem) :
       OnStream(Len(sent), sent, off, mem[j],
                off[Len(delivered) + 1] + (j - pos))
  /\ Placed(Len(sent), sent, off, wire,
            off[Len(delivered) + 1] + uDataLength, start[onWire + 1])

Laid(off, start) ==
  /\ Offsets(Len(sent), sent, off)
  /\ PiecesPlaced(off, start)
  /\ ReceivedPlaced(off, start)

Ordered ==
  ~overtaken =>
    /\ ~garbled
    /\ \E off \in [Nat -> Nat], start \in [Nat -> Nat] : Laid(off, start)

\* Each of the pieces of a message, pk having been packed before, starts where
\* the one before it ends, and together they are the message's packet.
CutAt(S, m, length, pk, pieces) ==
  /\ S[1] = 0
  /\ S[Len(pieces) + 1] = HeaderLen + length
  /\ \A k \in 1..Len(pieces) :
       /\ pieces[k].no = pk + k
       /\ S[k] + Len(pieces[k].bytes) = S[k + 1]
       /\ S[k + 1] <= HeaderLen + length
       /\ \A i \in 1..Len(pieces[k].bytes) : pieces[k].bytes[i] = <<m, S[k] + i>>

LEMMA CutPlaces ==
  ASSUME NEW m \in Nat, NEW length \in Nat \ {0}, packed \in Nat,
         NEW pieces, pieces = Cut(m, length)
  PROVE  \E S \in [Nat -> Nat] : CutAt(S, m, length, packed, pieces)
<1> DEFINE first == min(length, SendBuf - HeaderLen)
           rest  == length - first
           more  == (rest + SendBuf - 1) \div SendBuf
           n     == 1 + more
           begin(k) == IF k = 1 THEN 0 ELSE HeaderLen + first + (k - 2) * SendBuf
           size(k)  == IF k = 1 THEN HeaderLen + first
                       ELSE min(rest - (k - 2) * SendBuf, SendBuf)
           bytes(k) == [i \in 1..size(k) |-> <<m, begin(k) + i>>]
           S == [k \in Nat |-> IF k <= 1 THEN 0
                               ELSE min(HeaderLen + length, begin(k))]
<1>1. /\ HeaderLen \in Nat /\ SendBuf \in Nat /\ SendBuf > 0
      /\ first \in Nat /\ rest \in Nat /\ first + rest = length
  BY BufferAssumption DEF min
<1>2. /\ more \in Nat /\ more * SendBuf \in Nat
      /\ more * SendBuf <= rest + SendBuf - 1 /\ rest <= more * SendBuf
  BY <1>1, SMT
<1>3. pieces = [k \in 1..n |-> [no |-> packed + k, bytes |-> bytes(k)]]
  BY DEF Cut
<1> HIDE DEF first, rest, more
<1>4. ASSUME NEW k \in Nat, k > 1
      PROVE  (k - 2) * SendBuf \in Nat /\ begin(k) \in Nat
  <2>1. k - 2 \in Nat
    BY <1>4
  <2>2. (k - 2) * SendBuf \in Nat
    BY <1>1, <2>1, SMT
  <2> QED
    BY <1>1, <1>4, <2>2
<1>5. S \in [Nat -> Nat]
  <2>1. ASSUME NEW k \in Nat, k > 1
        PROVE  min(HeaderLen + length, begin(k)) \in Nat
    <3> HIDE DEF begin
    <3> QED
      BY <1>1, <1>4, <2>1 DEF min
  <2> HIDE DEF begin
  <2> QED
    BY <2>1
<1>6. ASSUME NEW k \in 1..n
      PROVE  /\ size(k) \in Nat /\ S[k] = begin(k) /\ S[k] + size(k) = S[k + 1]
             /\ S[k + 1] <= HeaderLen + length
  <2>1. CASE k = 1
    <3>1. S[1] = 0 /\ begin(1) = 0 /\ size(1) = HeaderLen + first
      OBVIOUS
    <3>2. begin(2) = HeaderLen + first
      BY <1>1
    <3>3. S[2] = min(HeaderLen + length, begin(2))
      OBVIOUS
    <3>4. S[2] = HeaderLen + first
      BY <1>1, <3>2, <3>3 DEF min
    <3> QED
      BY <1>1, <2>1, <3>1, <3>4
  <2>2. CASE k # 1
    <3>1. k \in Nat /\ k > 1 /\ k - 1 \in Int /\ k - 2 \in Nat /\ k - 1 <= more
      BY <1>2, <2>2
    <3>2. (k - 1) * SendBuf <= more * SendBuf
      BY <1>1, <1>2, <3>1, TimesMonotone
    <3>3. (k - 1) * SendBuf = (k - 2) * SendBuf + SendBuf
      BY <1>1, <3>1, SMT
    <3>4. (k - 2) * SendBuf \in Nat
      BY <1>4, <3>1
    <3> DEFINE a == (k - 2) * SendBuf
    <3>5. begin(k) = HeaderLen + first + a
      BY <2>2
    <3>6. begin(k + 1) = HeaderLen + first + (k - 1) * SendBuf
      BY <3>1
    <3>7. begin(k + 1) = HeaderLen + first + a + SendBuf
      BY <1>1, <3>3, <3>4, <3>6
    <3>8. size(k) = min(rest - a, SendBuf)
      BY <2>2
    <3>9. /\ S[k] = min(HeaderLen + length, begin(k))
          /\ S[k + 1] = min(HeaderLen + length, begin(k + 1))
      <4> HIDE DEF begin
      <4> QED
        BY <3>1
    <3>10. a \in Nat /\ a <= rest
      BY <1>1, <1>2, <3>2, <3>3, <3>4
    <3> HIDE DEF a, begin, size, S
    <3> QED
      BY <1>1, <3>5, <3>7, <3>8, <3>9, <3>10 DEF min
  <2> QED
    BY <2>1, <2>2
<1>7. S[n + 1] = HeaderLen + length
  <2>1. n + 1 \in Nat /\ ~(n + 1 <= 1) /\ n + 1 # 1 /\ (n + 1) - 2 = more
    BY <1>2
  <2>2. begin(n + 1) = HeaderLen + first + more * SendBuf
    BY <2>1
  <2>3. S[n + 1] = min(HeaderLen + length, begin(n + 1))
    <3> HIDE DEF begin
    <3> QED
      BY <2>1
  <2> HIDE DEF begin, S
  <2> QED
    BY <1>1, <1>2, <2>2, <2>3 DEF min
<1>8. ASSUME NEW k \in 1..n
      PROVE  /\ Len(bytes(k)) = size(k)
             /\ \A i \in 1..Len(bytes(k)) : bytes(k)[i] = <<m, begin(k) + i>>
  <2>1. size(k) \in Nat
    BY <1>6
  <2> HIDE DEF size, begin
  <2> QED
    BY <2>1
<1>9. n \in Nat /\ Len(pieces) = n
  <2>1. n \in Nat
    BY <1>2
  <2> HIDE DEF bytes, n
  <2> QED
    BY <1>3, <2>1
<1>10. ASSUME NEW k \in 1..Len(pieces)
       PROVE  /\ pieces[k].no = packed + k
              /\ S[k] + Len(pieces[k].bytes) = S[k + 1]
              /\ S[k + 1] <= HeaderLen + length
              /\ \A i \in 1..Len(pieces[k].bytes) :
                   pieces[k].bytes[i] = <<m, S[k] + i>>
  <2>1. k \in 1..n
    BY <1>9
  <2>2. pieces[k] = [no |-> packed + k, bytes |-> bytes(k)]
    <3> HIDE DEF bytes, n
    <3> QED
      BY <1>3, <2>1
  <2>3. /\ Len(bytes(k)) = size(k)
        /\ \A i \in 1..Len(bytes(k)) : bytes(k)[i] = <<m, begin(k) + i>>
    BY <1>8, <2>1
  <2>4. /\ size(k) \in Nat /\ S[k] = begin(k) /\ S[k] + size(k) = S[k + 1]
        /\ S[k + 1] <= HeaderLen + length
    BY <1>6, <2>1
  <2> HIDE DEF bytes, n, size, begin, S
  <2> QED
    BY <2>2, <2>3, <2>4
<1>11. S[1] = 0
  OBVIOUS
<1>12. S[Len(pieces) + 1] = HeaderLen + length
  BY <1>7, <1>9
<1> HIDE DEF S
<1>13. CutAt(S, m, length, packed, pieces)
  BY <1>10, <1>11, <1>12 DEF CutAt
<1> QED
  BY <1>5, <1>13

LEMMA InitOrdered == Init => Ordered
<1> SUFFICES ASSUME Init PROVE Ordered
  OBVIOUS
<1> DEFINE zero == [n \in Nat |-> 0]
<1>1. zero \in [Nat -> Nat] /\ zero[1] = 0
  OBVIOUS
<1>2. /\ Len(sent) = 0 /\ Len(queue) = 0 /\ Len(wire) = 0 /\ Len(mem) = 0
      /\ Len(delivered) = 0 /\ pos = 0 /\ packed = 0 /\ onWire = 0
      /\ ~garbled /\ \A t \in Threads : thr[t].pc = "idle"
  BY DEF Init
<1> HIDE DEF zero
<1>3. Offsets(Len(sent), sent, zero)
  BY <1>2 DEF Offsets
<1>4. PiecesPlaced(zero, zero)
  BY <1>1, <1>2 DEF PiecesPlaced
<1>5. ReceivedPlaced(zero, zero)
  BY <1>1, <1>2 DEF ReceivedPlaced, Placed, uDataLength
<1> QED
  BY <1>1, <1>2, <1>3, <1>4, <1>5 DEF Ordered, Laid

\* A message more begins where the stream ended and leaves every byte where
\* it is.
GrownBy(length, N, snt, off, more, off2) ==
  /\ \A n \in 1..N + 1 : off2[n] = off[n]
  /\ off2[N + 2] = off[N + 1] + HeaderLen + length
  /\ Offsets(N + 1, more, off2)
  /\ \A b, z : OnStream(N, snt, off, b, z) => OnStream(N + 1, more, off2, b, z)
  /\ \A s, x, y : Placed(N, snt, off, s, x, y) =>
                  Placed(N + 1, more, off2, s, x, y)

LEMMA StreamGrows ==
  ASSUME NEW N \in Nat, NEW length \in Nat, NEW snt, NEW more,
         more[N + 1] = length,
         \A m \in 1..N : snt[m] \in Nat /\ more[m] = snt[m],
         NEW off \in [Nat -> Nat], Offsets(N, snt, off)
  PROVE  \E off2 \in [Nat -> Nat] : GrownBy(length, N, snt, off, more, off2)
<1>4. HeaderLen \in Nat
  BY BufferAssumption
<1> DEFINE off2 == [n \in Nat |-> IF n = N + 2 THEN off[N + 1] + HeaderLen + length
                                  ELSE off[n]]
<1>5. off2 \in [Nat -> Nat]
  <2>1. off[N + 1] + HeaderLen + length \in Nat
    BY <1>4
  <2> QED
    BY <2>1
<1>6. off2[N + 2] = off[N + 1] + HeaderLen + length
  OBVIOUS
<1>7. \A n \in 1..N + 1 : off2[n] = off[n]
  OBVIOUS
<1> HIDE DEF off2
<1>8. /\ \A m \in 1..N : off[m + 1] = off[m] + HeaderLen + snt[m]
      /\ \A m \in 1..N, n \in 1..N + 1 :
           m < n => off[m] + HeaderLen + snt[m] <= off[n]
  BY DEF Offsets
<1>9. Offsets(N + 1, more, off2)
  <2>1. ASSUME NEW m \in 1..N + 1
        PROVE  off2[m + 1] = off2[m] + HeaderLen + more[m]
    <3>1. CASE m = N + 1
      BY <1>6, <1>7, <3>1
    <3>2. CASE m # N + 1
      BY <1>7, <1>8, <3>2
    <3> QED
      BY <3>1, <3>2
  <2>2. ASSUME NEW m \in 1..N + 1, NEW n \in 1..N + 2, m < n
        PROVE  off2[m] + HeaderLen + more[m] <= off2[n]
    <3>1. CASE n <= N + 1
      BY <1>7, <1>8, <2>2, <3>1
    <3>2. CASE n = N + 2 /\ m = N + 1
      BY <1>4, <1>5, <2>1, <3>2
    <3>3. CASE n = N + 2 /\ m <= N
      <4>1. off[m] + HeaderLen + snt[m] <= off[N + 1]
        BY <1>8, <3>3
      <4>2. off2[m] = off[m] /\ more[m] = snt[m] /\ snt[m] \in Nat
        BY <1>7, <3>3
      <4>3. off[m] \in Nat /\ off[N + 1] \in Nat
        OBVIOUS
      <4> QED
        BY <1>4, <1>6, <3>3, <4>1, <4>2, <4>3
    <3> QED
      BY <2>2, <3>1, <3>2, <3>3
  <2> QED
    BY <2>1, <2>2 DEF Offsets
<1>10. ASSUME NEW b, NEW z, OnStream(N, snt, off, b, z)
       PROVE  OnStream(N + 1, more, off2, b, z)
  <2>1. b[1] \in 1..N /\ b[2] \in 1..HeaderLen + snt[b[1]] /\ off[b[1]] + b[2] = z
    BY <1>10 DEF OnStream
  <2>2. b[1] \in 1..N + 1
    BY <2>1
  <2>3. more[b[1]] = snt[b[1]] /\ off2[b[1]] = off[b[1]]
    BY <1>7, <2>1
  <2> QED
    BY <2>1, <2>2, <2>3 DEF OnStream
<1>11. ASSUME NEW s, NEW x, NEW y, Placed(N, snt, off, s, x, y)
       PROVE  Placed(N + 1, more, off2, s, x, y)
  BY <1>10, <1>11 DEF Placed
<1>12. GrownBy(length, N, snt, off, more, off2)
  BY <1>6, <1>7, <1>9, <1>10, <1>11 DEF GrownBy
<1> QED
  BY <1>5, <1>12

\* The pieces of the new message are numbered on.
NumberedOn(start2, start, pk, S) ==
  /\ \A p \in 1..pk + 1 : start2[p] = start[p]
  /\ \A k \in Nat \ {0} : start2[pk + k] = start[pk + 1] + S[k]

LEMMA PiecesGrow ==
  ASSUME NEW pk \in Nat, NEW start \in [Nat -> Nat],
         NEW S \in [Nat -> Nat], S[1] = 0
  PROVE  \E start2 \in [Nat -> Nat] : NumberedOn(start2, start, pk, S)
<1> DEFINE start2 == [p \in Nat |-> IF p <= pk + 1 THEN start[p]
                                    ELSE start[pk + 1] + S[p - pk]]
<1>1. start2 \in [Nat -> Nat]
  <2>1. ASSUME NEW p \in Nat, ~(p <= pk + 1)
        PROVE  start[pk + 1] + S[p - pk] \in Nat
    <3>1. p - pk \in Nat
      BY <2>1
    <3> QED
      BY <3>1
  <2> QED
    BY <2>1
<1>2. \A p \in 1..pk + 1 : start2[p] = start[p]
  OBVIOUS
<1>3. ASSUME NEW k \in Nat \ {0}
      PROVE  start2[pk + k] = start[pk + 1] + S[k]
  <2>1. CASE k = 1
    BY <1>2, <2>1
  <2>2. CASE k # 1
    <3>1. pk + k \in Nat /\ ~(pk + k <= pk + 1) /\ (pk + k) - pk = k
      BY <2>2
    <3> QED
      BY <3>1
  <2> QED
    BY <2>1, <2>2
<1> HIDE DEF start2
<1>4. NumberedOn(start2, start, pk, S)
  BY <1>2, <1>3 DEF NumberedOn
<1> QED
  BY <1>1, <1>4

\* Byte a + i of message m's packet stands where the stream has it.
LEMMA BytePlaced ==
  ASSUME NEW snt, NEW off \in [Nat -> Nat], NEW N \in Nat, NEW m \in 1..N,
         snt[m] \in Nat, NEW a \in Nat, NEW i \in Nat \ {0},
         a + i <= HeaderLen + snt[m]
  PROVE  OnStream(N, snt, off, <<m, a + i>>, (off[m] + a) + i)
<1>1. HeaderLen \in Nat
  BY BufferAssumption
<1>2. <<m, a + i>>[1] = m /\ <<m, a + i>>[2] = a + i
  OBVIOUS
<1>3. a + i \in 1..HeaderLen + snt[m]
  BY <1>1
<1>4. off[m] + (a + i) = (off[m] + a) + i
  OBVIOUS
<1> QED
  BY <1>2, <1>3, <1>4 DEF OnStream

LEMMA BytesPlaced ==
  ASSUME NEW snt, NEW off \in [Nat -> Nat], NEW N \in Nat, NEW m \in 1..N,
         snt[m] \in Nat, NEW a \in Nat, NEW s, NEW n \in Nat,
         a + n <= HeaderLen + snt[m],
         \A i \in 1..n : s[i] = <<m, a + i>>
  PROVE  \A i \in 1..n : OnStream(N, snt, off, s[i], (off[m] + a) + i)
<1>1. ASSUME NEW i \in 1..n
      PROVE  i \in Nat \ {0} /\ a + i <= HeaderLen + snt[m]
  BY BufferAssumption
<1>2. ASSUME NEW i \in 1..n
      PROVE  OnStream(N, snt, off, s[i], (off[m] + a) + i)
  <2>1. i \in Nat \ {0} /\ a + i <= HeaderLen + snt[m]
    BY <1>1
  <2>2. s[i] = <<m, a + i>>
    OBVIOUS
  <2> QED
    BY <2>1, <2>2, BytePlaced
<1> QED
  BY <1>2

\* A piece packed before is where it was, and counts as packed.
LEMMA OldPiece ==
  ASSUME NEW N, NEW snt, NEW off, NEW M, NEW more, NEW off2,
         \A s, x, y : Placed(N, snt, off, s, x, y) => Placed(M, more, off2, s, x, y),
         NEW start, NEW start2, NEW pk \in Nat, NEW L \in Nat,
         \A q \in 1..pk + 1 : start2[q] = start[q],
         NEW p, PieceAt(N, snt, off, start, pk, p)
  PROVE  PieceAt(M, more, off2, start2, pk + L, p)
<1>1. p.no \in 1..pk /\ Placed(N, snt, off, p.bytes, start[p.no], start[p.no + 1])
  BY DEF PieceAt
<1>2. p.no \in 1..pk + 1 /\ p.no + 1 \in 1..pk + 1 /\ p.no \in 1..pk + L
  BY <1>1
<1>3. start2[p.no] = start[p.no] /\ start2[p.no + 1] = start[p.no + 1]
  BY <1>2
<1>4. Placed(M, more, off2, p.bytes, start[p.no], start[p.no + 1])
  BY <1>1
<1> QED
  BY <1>2, <1>3, <1>4 DEF PieceAt

LEMMA SendOrdered ==
  ASSUME IInv, Ordered, NEW t \in Threads, NEW length \in Bodies, Send(t, length)
  PROVE  Ordered'
<1> SUFFICES ASSUME ~overtaken' PROVE Ordered'
  BY DEF Ordered
<1>1. /\ overtaken' = overtaken /\ garbled' = garbled
      /\ onWire' = onWire /\ wire' = wire /\ mem' = mem /\ pos' = pos
      /\ delivered' = delivered
  BY DEF Send, receiver
<1>2. ~garbled
  BY <1>1 DEF Ordered
<1>3. sent \in Seq(Nat)
  BY DEF IInv, TypeOK
<1>4. packed \in Nat /\ onWire \in Nat
  BY DEF IInv, TypeOK
<1>5. length \in Nat \ {0} /\ length \in Nat
  BY BufferAssumption DEF Send
<1>6. PICK N \in Nat : N = Len(sent)
  BY <1>3
<1>7. PICK pk \in Nat : pk = packed
  BY <1>4
<1>8. sent' = Append(sent, length)
  BY DEF Send
<1>9. /\ Len(sent') = N + 1 /\ sent'[N + 1] = length
      /\ \A m \in 1..N : sent[m] \in Nat /\ sent'[m] = sent[m]
  <2>1. Len(sent') = N + 1 /\ sent'[N + 1] = length
    BY <1>3, <1>5, <1>6, <1>8
  <2>2. \A m \in 1..N : sent'[m] = sent[m]
    BY <1>3, <1>5, <1>6, <1>8
  <2>3. \A m \in 1..N : sent[m] \in Nat
    BY <1>3, <1>6
  <2> QED
    BY <2>1, <2>2, <2>3
<1>10. PICK pieces : pieces = Cut(N + 1, length)
  OBVIOUS
<1>11. /\ queue' = queue \o pieces /\ packed' = pk + Len(pieces)
       /\ Goto(t, "PostSend")
  BY <1>6, <1>7, <1>10 DEF Send
<1>12. pieces \in Seq(Piece)
  <2>1. N + 1 \in Nat
    OBVIOUS
  <2> QED
    BY <1>4, <1>5, <1>10, <2>1, CutType
<1>13. PICK L \in Nat : L = Len(pieces)
  BY <1>12
<1>14. ASSUME NEW k \in 1..L
       PROVE  Len(pieces[k].bytes) \in Nat
  <2>1. pieces[k] \in Piece
    BY <1>12, <1>13
  <2>2. pieces[k].bytes \in Seq(Byte)
    BY <2>1 DEF Piece
  <2> QED
    BY <2>2
<1>15. ASSUME NEW i \in 1..Len(queue')
       PROVE  \/ \E j \in 1..Len(queue) : queue'[i] = queue[j]
              \/ \E j \in 1..L : queue'[i] = pieces[j]
  <2>1. queue \in Seq(Piece)
    BY DEF IInv, TypeOK
  <2>2. CASE i <= Len(queue)
    <3>1. i \in 1..Len(queue) /\ queue'[i] = queue[i]
      BY <1>11, <1>12, <2>1, <2>2
    <3> QED
      BY <3>1
  <2>3. CASE i > Len(queue)
    <3>1. i - Len(queue) \in 1..L
      BY <1>11, <1>12, <1>13, <2>1, <2>3
    <3>2. queue'[i] = pieces[i - Len(queue)]
      BY <1>11, <1>12, <2>1, <2>3
    <3> QED
      BY <3>1, <3>2
  <2> QED
    BY <2>1, <2>2, <2>3
<1>16. PICK S \in [Nat -> Nat] : CutAt(S, N + 1, length, packed, pieces)
  <2>1. N + 1 \in Nat
    OBVIOUS
  <2> QED
    BY <1>4, <1>5, <1>10, <2>1, CutPlaces
<1>17. /\ S[1] = 0 /\ S[L + 1] = HeaderLen + length
       /\ \A k \in 1..L :
            /\ pieces[k].no = pk + k
            /\ S[k] + Len(pieces[k].bytes) = S[k + 1]
            /\ S[k + 1] <= HeaderLen + length
            /\ \A i \in 1..Len(pieces[k].bytes) :
                 pieces[k].bytes[i] = <<N + 1, S[k] + i>>
  BY <1>7, <1>13, <1>16 DEF CutAt
<1>18. PICK off \in [Nat -> Nat], start \in [Nat -> Nat] : Laid(off, start)
  BY <1>1 DEF Ordered
<1>19. /\ Offsets(N, sent, off)
       /\ onWire <= pk /\ start[pk + 1] = off[N + 1]
       /\ \A i \in 1..Len(queue) : PieceAt(N, sent, off, start, pk, queue[i])
       /\ \A u \in Threads :
            thr[u].pc = "WSASend" => PieceAt(N, sent, off, start, pk, thr[u].piece)
       /\ Len(delivered) <= N
       /\ \A j \in pos + 1..Len(mem) :
            OnStream(N, sent, off, mem[j], off[Len(delivered) + 1] + (j - pos))
       /\ Placed(N, sent, off, wire,
                 off[Len(delivered) + 1] + uDataLength, start[onWire + 1])
  BY <1>6, <1>7, <1>18 DEF Laid, PiecesPlaced, ReceivedPlaced
<1>20. PICK off2 \in [Nat -> Nat] : GrownBy(length, N, sent, off, sent', off2)
  <2>1. Offsets(N, sent, off)
    BY <1>19
  <2>2. sent'[N + 1] = length /\ \A m \in 1..N : sent[m] \in Nat /\ sent'[m] = sent[m]
    BY <1>9
  <2> QED
    BY <1>5, <2>1, <2>2, StreamGrows
<1>21. /\ \A n \in 1..N + 1 : off2[n] = off[n]
       /\ off2[N + 2] = off[N + 1] + HeaderLen + length
       /\ Offsets(N + 1, sent', off2)
       /\ \A b, z : OnStream(N, sent, off, b, z) =>
                    OnStream(N + 1, sent', off2, b, z)
       /\ \A s, x, y : Placed(N, sent, off, s, x, y) =>
                       Placed(N + 1, sent', off2, s, x, y)
  BY <1>20 DEF GrownBy
<1>22. PICK start2 \in [Nat -> Nat] : NumberedOn(start2, start, pk, S)
  <2>1. S[1] = 0
    BY <1>17
  <2> QED
    BY <2>1, PiecesGrow
<1>23. /\ \A p \in 1..pk + 1 : start2[p] = start[p]
       /\ \A k \in Nat \ {0} : start2[pk + k] = start[pk + 1] + S[k]
  BY <1>22 DEF NumberedOn
<1>24. ASSUME NEW p, PieceAt(N, sent, off, start, pk, p)
       PROVE  PieceAt(N + 1, sent', off2, start2, pk + L, p)
  BY <1>21, <1>23, <1>24, OldPiece
<1>25. off2[N + 1] = off[N + 1] /\ N + 1 \in Nat
  BY <1>21
<1>26. ASSUME NEW k \in 1..L
       PROVE  PieceAt(N + 1, sent', off2, start2, pk + L, pieces[k])
  <2>1. PICK a \in Nat, n \in Nat : a = S[k] /\ n = Len(pieces[k].bytes)
    <3>1. Len(pieces[k].bytes) \in Nat
      BY <1>14
    <3>2. S[k] \in Nat
      OBVIOUS
    <3> QED
      BY <3>1, <3>2
  <2>2. S[k + 1] = a + n /\ a + n <= HeaderLen + length
    BY <1>17, <2>1
  <2>3. start2[pk + k] = off2[N + 1] + a
    BY <1>19, <1>23, <1>25, <2>1
  <2>4. start2[(pk + k) + 1] = off2[N + 1] + (a + n)
    <3>1. k + 1 \in Nat \ {0} /\ pk + (k + 1) = (pk + k) + 1
      OBVIOUS
    <3>2. start2[pk + (k + 1)] = start[pk + 1] + S[k + 1]
      BY <1>23, <3>1
    <3> QED
      BY <1>19, <1>25, <2>2, <3>1, <3>2
  <2>5. pieces[k].no = pk + k /\ \A i \in 1..n : pieces[k].bytes[i] = <<N + 1, a + i>>
    BY <1>17, <2>1
  <2>6. N + 1 \in 1..N + 1 /\ sent'[N + 1] \in Nat /\ sent'[N + 1] = length
    BY <1>5, <1>9
  <2>7. a + n <= HeaderLen + sent'[N + 1]
    BY <2>2, <2>6
  <2>8. Len(pieces[k].bytes) = n /\ N + 1 \in Nat
    BY <1>25, <2>1
  <2>9. \A i \in 1..n : OnStream(N + 1, sent', off2, pieces[k].bytes[i],
                                 (off2[N + 1] + a) + i)
    BY <2>5, <2>6, <2>7, <2>8, BytesPlaced
  <2>10. (off2[N + 1] + a) + n = off2[N + 1] + (a + n)
    OBVIOUS
  <2>11. Placed(N + 1, sent', off2, pieces[k].bytes,
                start2[pk + k], start2[(pk + k) + 1])
    BY <2>3, <2>4, <2>8, <2>9, <2>10 DEF Placed
  <2>12. pk + k \in 1..pk + L
    OBVIOUS
  <2> QED
    BY <2>5, <2>11, <2>12 DEF PieceAt
<1>27. ASSUME NEW i \in 1..Len(queue')
       PROVE  PieceAt(N + 1, sent', off2, start2, pk + L, queue'[i])
  BY <1>19, <1>24, <1>26, <1>15
<1>28. ASSUME NEW u \in Threads, thr'[u].pc = "WSASend"
       PROVE  PieceAt(N + 1, sent', off2, start2, pk + L, thr'[u].piece)
  <2>1. thr' = [thr EXCEPT ![t] = [pc |-> "PostSend", piece |-> NoPiece]]
    BY <1>11 DEF Goto
  <2>2. thr \in [Threads -> [pc: {"idle", "PostSend", "WSASend"}, piece: Piece]]
    BY DEF IInv, TypeOK
  <2>3. thr'[u] = thr[u]
    BY <1>28, <2>1, <2>2
  <2> QED
    BY <1>19, <1>24, <1>28, <2>3
<1>29. start2[packed' + 1] = off2[Len(sent') + 1]
  <2>1. L + 1 \in Nat \ {0} /\ pk + (L + 1) = (pk + L) + 1
    OBVIOUS
  <2>2. start2[pk + (L + 1)] = start[pk + 1] + S[L + 1]
    BY <1>23, <2>1
  <2>3. off[N + 1] + HeaderLen + length = off[N + 1] + (HeaderLen + length)
    BY <1>5, <1>25, BufferAssumption
  <2>4. (N + 1) + 1 = N + 2
    OBVIOUS
  <2> QED
    BY <1>9, <1>19, <1>21, <1>11, <1>13, <1>17, <2>1, <2>2, <2>3, <2>4
<1>30. PiecesPlaced(off2, start2)'
  <2>1. onWire' <= packed'
    BY <1>1, <1>4, <1>19, <1>11, <1>13
  <2> QED
    BY <1>9, <1>11, <1>13, <1>27, <1>28, <1>29, <2>1 DEF PiecesPlaced
<1>31. ReceivedPlaced(off2, start2)'
  <2>1. Len(delivered) \in Nat
    BY DEF IInv, TypeOK
  <2>2. off2[Len(delivered) + 1] = off[Len(delivered) + 1]
    BY <1>19, <1>21, <2>1
  <2>3. start2[onWire + 1] = start[onWire + 1]
    <3>1. onWire + 1 \in 1..pk + 1
      BY <1>4, <1>19
    <3> QED
      BY <1>23, <3>1
  <2>4. Len(delivered) <= N + 1
    BY <1>19, <2>1
  <2>5. \A j \in pos + 1..Len(mem) :
          OnStream(N + 1, sent', off2, mem[j], off2[Len(delivered) + 1] + (j - pos))
    BY <1>19, <1>21, <2>2
  <2>6. Placed(N + 1, sent', off2, wire,
               off2[Len(delivered) + 1] + uDataLength, start2[onWire + 1])
    BY <1>19, <1>21, <2>2, <2>3
  <2>7. uDataLength' = uDataLength
    BY <1>1 DEF uDataLength
  <2> QED
    BY <1>1, <1>9, <2>4, <2>5, <2>6, <2>7 DEF ReceivedPlaced
<1> QED
  BY <1>1, <1>2, <1>9, <1>21, <1>30, <1>31 DEF Ordered, Laid

LEMMA PostSendOrdered ==
  ASSUME IInv, Ordered, NEW t \in Threads, PostSend(t)
  PROVE  Ordered'
<1> SUFFICES ASSUME ~overtaken' PROVE Ordered'
  BY DEF Ordered
<1>1. UNCHANGED <<sent, packed, sends, onWire, overtaken, wire, receiver>>
  BY DEF PostSend
<1>2. ~garbled'
  BY <1>1 DEF Ordered, receiver
<1>3. queue \in Seq(Piece)
  BY DEF IInv, TypeOK
<1>4. thr \in [Threads -> [pc: {"idle", "PostSend", "WSASend"}, piece: Piece]]
  BY DEF IInv, TypeOK
<1>5. PICK next : next = thr'[t]
  OBVIOUS
<1>6. /\ \A u \in Threads : u # t => thr'[u] = thr[u]
      /\ next.pc = "WSASend" =>
           \E i \in 1..Len(queue) : next.piece = queue[i]
      /\ \A i \in 1..Len(queue') : \E j \in 1..Len(queue) : queue'[i] = queue[j]
  <2>1. CASE queue = <<>>
    <3>1. queue' = queue
      BY <2>1 DEF PostSend
    <3>2. thr' = [thr EXCEPT ![t] = [pc |-> "idle", piece |-> NoPiece]]
      BY <2>1 DEF PostSend, Goto
    <3>3. next.pc = "idle" /\ \A u \in Threads : u # t => thr'[u] = thr[u]
      BY <1>4, <1>5, <3>2
    <3> QED
      BY <3>1, <3>3
  <2>2. CASE queue # <<>>
    <3>1. queue' = Tail(queue)
      BY <2>2 DEF PostSend
    <3>2. thr' = [thr EXCEPT ![t] = [pc |-> "WSASend", piece |-> Head(queue)]]
      BY <2>2 DEF PostSend
    <3>3. next.piece = Head(queue) /\ \A u \in Threads : u # t => thr'[u] = thr[u]
      BY <1>4, <1>5, <3>2
    <3>4. Head(queue) = queue[1] /\ 1 \in 1..Len(queue)
      BY <1>3, <2>2
    <3>5. ASSUME NEW i \in 1..Len(queue')
          PROVE  \E j \in 1..Len(queue) : queue'[i] = queue[j]
      <4>1. i + 1 \in 1..Len(queue) /\ queue'[i] = queue[i + 1]
        BY <1>3, <2>2, <3>1
      <4> QED
        BY <4>1
    <3> QED
      BY <3>3, <3>4, <3>5
  <2> QED
    BY <2>1, <2>2
<1>7. PICK off \in [Nat -> Nat], start \in [Nat -> Nat] : Laid(off, start)
  BY <1>1 DEF Ordered
<1>8. \A i \in 1..Len(queue) : PieceAt(Len(sent), sent, off, start, packed, queue[i])
  BY <1>7 DEF Laid, PiecesPlaced
<1>9. ASSUME NEW i \in 1..Len(queue')
      PROVE  PieceAt(Len(sent), sent, off, start, packed, queue'[i])
  BY <1>6, <1>8
<1>10. ASSUME NEW u \in Threads, thr'[u].pc = "WSASend"
       PROVE  PieceAt(Len(sent), sent, off, start, packed, thr'[u].piece)
  <2>1. CASE u = t
    BY <1>5, <1>6, <1>8, <1>10, <2>1
  <2>2. CASE u # t
    <3>1. thr'[u] = thr[u]
      BY <1>6, <2>2
    <3> QED
      BY <1>7, <1>10, <3>1 DEF Laid, PiecesPlaced
  <2> QED
    BY <2>1, <2>2
<1>11. PiecesPlaced(off, start)'
  BY <1>1, <1>7, <1>9, <1>10 DEF Laid, PiecesPlaced
<1>12. ReceivedPlaced(off, start)'
  BY <1>1, <1>7 DEF Laid, ReceivedPlaced, uDataLength, receiver
<1>13. Offsets(Len(sent), sent, off)'
  BY <1>1, <1>7 DEF Laid
<1> QED
  BY <1>2, <1>11, <1>12, <1>13 DEF Ordered, Laid

\* What the socket takes goes to the end of the stream's bytes on the wire.
LEMMA PlacedConcat ==
  ASSUME NEW N, NEW snt, NEW off, NEW s \in Seq(Byte), NEW r \in Seq(Byte),
         NEW x \in Int, NEW y, NEW z,
         Placed(N, snt, off, s, x, y), Placed(N, snt, off, r, y, z)
  PROVE  Placed(N, snt, off, s \o r, x, z)
<1>1. PICK q : q = s \o r
  OBVIOUS
<1>2. Len(s) \in Nat /\ Len(r) \in Nat /\ Len(q) = Len(s) + Len(r)
  BY <1>1
<1>3. x + Len(s) = y /\ y + Len(r) = z
  BY DEF Placed
<1>4. x + Len(q) = z
  BY <1>2, <1>3
<1>5. ASSUME NEW i \in 1..Len(q)
      PROVE  OnStream(N, snt, off, q[i], x + i)
  <2>1. CASE i <= Len(s)
    <3>1. i \in 1..Len(s) /\ q[i] = s[i]
      BY <1>1, <1>2, <2>1
    <3> QED
      BY <3>1 DEF Placed
  <2>2. CASE i > Len(s)
    <3>1. i - Len(s) \in 1..Len(r)
      BY <1>2, <2>2
    <3>2. q[i] = r[i - Len(s)]
      BY <1>1, <1>2, <2>2
    <3>3. y + (i - Len(s)) = x + i
      BY <1>2, <1>3
    <3>4. OnStream(N, snt, off, r[i - Len(s)], y + (i - Len(s)))
      BY <3>1 DEF Placed
    <3> QED
      BY <3>2, <3>3, <3>4
  <2> QED
    BY <1>2, <2>1, <2>2
<1> QED
  BY <1>1, <1>4, <1>5 DEF Placed

LEMMA WSASendOrdered ==
  ASSUME IInv, Ordered, NEW t \in Threads, WSASend(t)
  PROVE  Ordered'
<1> SUFFICES ASSUME ~overtaken' PROVE Ordered'
  BY DEF Ordered
<1>1. /\ wire' = wire \o thr[t].piece.bytes
      /\ onWire' = thr[t].piece.no
      /\ thr[t].pc = "WSASend"
      /\ Goto(t, "idle")
      /\ UNCHANGED <<sent, queue, packed, receiver>>
  BY DEF WSASend
<1>2. ~overtaken /\ thr[t].piece.no = onWire + 1
  BY DEF WSASend
<1>3. ~garbled'
  BY <1>1, <1>2 DEF Ordered, receiver
<1>4. thr \in [Threads -> [pc: {"idle", "PostSend", "WSASend"}, piece: Piece]]
  BY DEF IInv, TypeOK
<1>5. wire \in Seq(Byte) /\ thr[t].piece.bytes \in Seq(Byte)
  <2>1. thr[t].piece \in Piece
    BY <1>4
  <2>2. thr[t].piece.bytes \in Seq(Byte)
    BY <2>1 DEF Piece
  <2> QED
    BY <2>2 DEF IInv, TypeOK
<1>6. PICK off \in [Nat -> Nat], start \in [Nat -> Nat] : Laid(off, start)
  BY <1>2 DEF Ordered
<1>7. PieceAt(Len(sent), sent, off, start, packed, thr[t].piece)
  BY <1>1, <1>6 DEF Laid, PiecesPlaced
<1>8. /\ thr[t].piece.no \in 1..packed
      /\ Placed(Len(sent), sent, off, thr[t].piece.bytes,
                start[onWire + 1], start[onWire' + 1])
  BY <1>1, <1>2, <1>7 DEF PieceAt
<1>9. packed \in Nat
  BY DEF IInv, TypeOK
<1>10. \A u \in Threads : thr'[u].pc = "WSASend" => thr'[u] = thr[u]
  BY <1>1, <1>4 DEF Goto
<1>11. PiecesPlaced(off, start)'
  <2>1. onWire' <= packed'
    <3>1. onWire' \in 1..packed /\ packed' = packed
      BY <1>1, <1>8, Zenon
    <3> QED
      BY <1>9, <3>1
  <2> QED
    BY <1>1, <1>6, <1>10, <2>1 DEF Laid, PiecesPlaced
<1>12. PICK x \in Int : x = off[Len(delivered) + 1] + uDataLength
  <2>1. Len(delivered) \in Nat /\ uDataLength \in Int
    BY DEF IInv, TypeOK, uDataLength
  <2>2. off[Len(delivered) + 1] \in Nat
    BY <2>1
  <2> QED
    BY <2>1, <2>2
<1>13. Placed(Len(sent), sent, off, wire, x, start[onWire + 1])
  BY <1>6, <1>12 DEF Laid, ReceivedPlaced
<1>14. Placed(Len(sent), sent, off, wire', x, start[onWire' + 1])
  BY <1>1, <1>5, <1>8, <1>13, PlacedConcat
<1>15. ReceivedPlaced(off, start)'
  BY <1>1, <1>6, <1>12, <1>14 DEF Laid, ReceivedPlaced, uDataLength, receiver
<1>16. Offsets(Len(sent), sent, off)'
  BY <1>1, <1>6 DEF Laid
<1> QED
  BY <1>3, <1>11, <1>15, <1>16 DEF Ordered, Laid

LEMMA HandSendOrdered ==
  ASSUME IInv, Ordered, NEW t \in Threads, HandSend(t)
  PROVE  Ordered'
<1> SUFFICES ASSUME ~overtaken' PROVE Ordered'
  BY DEF Ordered
<1>1. /\ UNCHANGED <<sent, queue, packed, onWire, overtaken, wire, receiver>>
      /\ Goto(t, "PostSend")
  BY DEF HandSend
<1>2. ~garbled'
  BY <1>1 DEF Ordered, receiver
<1>3. thr \in [Threads -> [pc: {"idle", "PostSend", "WSASend"}, piece: Piece]]
  BY DEF IInv, TypeOK
<1>4. \A u \in Threads : thr'[u].pc = "WSASend" => thr'[u] = thr[u]
  BY <1>1, <1>3 DEF Goto
<1>5. PICK off \in [Nat -> Nat], start \in [Nat -> Nat] : Laid(off, start)
  BY <1>1 DEF Ordered
<1>6. PiecesPlaced(off, start)'
  BY <1>1, <1>4, <1>5 DEF Laid, PiecesPlaced
<1>7. ReceivedPlaced(off, start)'
  BY <1>1, <1>5 DEF Laid, ReceivedPlaced, uDataLength, receiver
<1>8. Offsets(Len(sent), sent, off)'
  BY <1>1, <1>5 DEF Laid
<1> QED
  BY <1>2, <1>6, <1>7, <1>8 DEF Ordered, Laid

LEMMA HandReceiveOrdered ==
  ASSUME IInv, Ordered, HandReceive
  PROVE  Ordered'
<1> SUFFICES ASSUME ~overtaken' PROVE Ordered'
  BY DEF Ordered
<1>1. UNCHANGED <<pos, window, delivered, garbled, sender>>
  BY DEF HandReceive
<1>2. ~garbled'
  BY <1>1 DEF Ordered, sender
<1>3. /\ mem \in Seq(Byte) /\ wire \in Seq(Byte) /\ pos \in 0..Len(mem)
      /\ window \in Nat /\ delivered \in Seq(Nat)
  BY DEF IInv, TypeOK
<1>4. PICK n \in 1..min(window, Len(wire)) :
        /\ mem' = mem \o SubSeq(wire, 1, n)
        /\ wire' = SubSeq(wire, n + 1, Len(wire))
  BY DEF HandReceive
<1>5. n \in Nat /\ n <= Len(wire) /\ Len(wire) \in Nat
  BY <1>3 DEF min
<1>6. /\ Len(mem') = Len(mem) + n /\ Len(wire') = Len(wire) - n
      /\ \A j \in 1..Len(mem) : mem'[j] = mem[j]
      /\ \A j \in 1..n : mem'[Len(mem) + j] = wire[j]
      /\ \A j \in 1..Len(wire) - n : wire'[j] = wire[n + j]
  <2>1. PICK front : front = SubSeq(wire, 1, n)
    OBVIOUS
  <2>2. /\ front \in Seq(Byte) /\ Len(front) = n
        /\ \A j \in 1..n : front[j] = wire[j]
    BY <1>3, <1>5, <2>1
  <2>3. mem \in Seq(Byte) /\ wire \in Seq(Byte) /\ mem' = mem \o front
    BY <1>3, <1>4, <2>1
  <2>4. Len(mem') = Len(mem) + n
    BY <1>3, <1>4, <2>1, <2>2
  <2>5. \A j \in 1..Len(mem) : mem'[j] = mem[j]
    BY <2>2, <2>3
  <2>6. \A j \in 1..n : mem'[Len(mem) + j] = front[j]
    BY <1>5, <2>2, <2>3
  <2>7. Len(wire') = Len(wire) - n
    BY <1>3, <1>4, <1>5
  <2>8. \A j \in 1..Len(wire) - n : wire'[j] = wire[n + j]
    BY <1>3, <1>4, <1>5
  <2> QED
    BY <2>2, <2>4, <2>5, <2>6, <2>7, <2>8
<1>7. PICK M \in Nat, W \in Nat, p \in Nat :
        M = Len(mem) /\ W = Len(wire) /\ p = pos /\ p <= M
  BY <1>3
<1>8. PICK off \in [Nat -> Nat], start \in [Nat -> Nat] : Laid(off, start)
  BY <1>1 DEF Ordered, sender
<1>9. PICK base \in Nat : base = off[Len(delivered) + 1]
  <2>1. Len(delivered) + 1 \in Nat
    BY <1>3
  <2> QED
    BY <2>1
<1>10. /\ Len(delivered) <= Len(sent)
       /\ \A j \in p + 1..M : OnStream(Len(sent), sent, off, mem[j], base + (j - p))
       /\ (base + (M - p)) + W = start[onWire + 1]
       /\ \A j \in 1..W :
            OnStream(Len(sent), sent, off, wire[j], (base + (M - p)) + j)
  BY <1>7, <1>8, <1>9 DEF Laid, ReceivedPlaced, Placed, uDataLength
<1>11. ASSUME NEW j \in p + 1..M + n
       PROVE  OnStream(Len(sent), sent, off, mem'[j], base + (j - p))
  <2>1. CASE j <= M
    <3>1. j \in p + 1..M /\ j \in 1..M
      BY <1>5, <2>1
    <3>2. mem'[j] = mem[j]
      BY <1>6, <1>7, <3>1
    <3> QED
      BY <1>10, <3>1, <3>2
  <2>2. CASE j > M
    <3>1. PICK i \in 1..n : j = M + i
      <4>1. j - M \in 1..n /\ j = M + (j - M)
        BY <1>5, <2>2
      <4> QED
        BY <4>1
    <3>2. mem'[j] = wire[i]
      BY <1>6, <1>7, <3>1
    <3>3. i \in 1..W
      BY <1>5, <1>7
    <3>4. (base + (M - p)) + i = base + (j - p)
      BY <3>1
    <3> QED
      BY <1>10, <3>2, <3>3, <3>4
  <2> QED
    BY <1>5, <2>1, <2>2
<1>12. ASSUME NEW j \in 1..W - n
       PROVE  OnStream(Len(sent), sent, off, wire'[j], (base + ((M + n) - p)) + j)
  <2>1. n + j \in 1..W
    BY <1>5
  <2>2. wire'[j] = wire[n + j]
    BY <1>6, <1>7
  <2>3. (base + ((M + n) - p)) + j = (base + (M - p)) + (n + j)
    BY <1>5
  <2> QED
    BY <1>10, <2>1, <2>2, <2>3
<1>13. (base + ((M + n) - p)) + (W - n) = start[onWire + 1]
  <2>1. (base + ((M + n) - p)) + (W - n) = (base + (M - p)) + W
    BY <1>5
  <2> QED
    BY <1>10, <2>1
<1>14. Len(mem') = M + n /\ Len(wire') = W - n
  BY <1>6, <1>7
<1>15. ReceivedPlaced(off, start)'
  BY <1>1, <1>7, <1>9, <1>10, <1>11, <1>12, <1>13, <1>14
  DEF ReceivedPlaced, Placed, uDataLength, sender
<1>16. PiecesPlaced(off, start)'
  BY <1>1, <1>8 DEF Laid, PiecesPlaced, sender
<1>17. Offsets(Len(sent), sent, off)'
  BY <1>1, <1>8 DEF Laid, sender
<1> QED
  BY <1>2, <1>15, <1>16, <1>17 DEF Ordered, Laid

LEMMA IncompleteOrdered ==
  ASSUME IInv, Ordered, Incomplete
  PROVE  Ordered'
<1> SUFFICES ASSUME ~overtaken' PROVE Ordered'
  BY DEF Ordered
<1>1. /\ mem' = SubSeq(mem, pos + 1, Len(mem))
      /\ pos' = 0
      /\ UNCHANGED <<delivered, garbled, wire, sender>>
  BY DEF Incomplete
<1>2. ~garbled'
  BY <1>1 DEF Ordered, sender
<1>3. mem \in Seq(Byte) /\ pos \in 0..Len(mem)
  BY DEF IInv, TypeOK
<1>4. /\ Len(mem') = Len(mem) - pos
      /\ \A j \in 1..Len(mem) - pos : mem'[j] = mem[pos + j]
  BY <1>1, <1>3
<1>5. PICK M \in Nat, p \in Nat : M = Len(mem) /\ p = pos /\ p <= M
  BY <1>3
<1>6. PICK off \in [Nat -> Nat], start \in [Nat -> Nat] : Laid(off, start)
  BY <1>1 DEF Ordered, sender
<1>7. PICK base : base = off[Len(delivered) + 1]
  OBVIOUS
<1>8. /\ Len(delivered) <= Len(sent)
      /\ \A j \in p + 1..M : OnStream(Len(sent), sent, off, mem[j], base + (j - p))
      /\ Placed(Len(sent), sent, off, wire, base + (M - p), start[onWire + 1])
  BY <1>5, <1>6, <1>7 DEF Laid, ReceivedPlaced, uDataLength
<1>9. ASSUME NEW j \in 1..M - p
      PROVE  OnStream(Len(sent), sent, off, mem'[j], base + j)
  <2>1. p + j \in p + 1..M /\ (p + j) - p = j
    OBVIOUS
  <2>2. mem'[j] = mem[p + j]
    BY <1>4, <1>5
  <2>3. OnStream(Len(sent), sent, off, mem[p + j], base + ((p + j) - p))
    BY <1>8, <2>1
  <2> QED
    BY <2>1, <2>2, <2>3
<1>10. ReceivedPlaced(off, start)'
  <2>1. /\ delivered' = delivered /\ wire' = wire /\ sent' = sent
        /\ onWire' = onWire /\ pos' = 0
    BY <1>1 DEF sender
  <2>2. Len(mem') = M - p /\ uDataLength' = M - p
    BY <1>4, <1>5, <2>1 DEF uDataLength
  <2>3. ASSUME NEW j \in 0 + 1..Len(mem')
        PROVE  OnStream(Len(sent), sent, off, mem'[j], base + (j - 0))
    <3>1. j \in 1..M - p /\ j - 0 = j
      BY <2>2
    <3> QED
      BY <1>9, <3>1
  <2> QED
    BY <1>7, <1>8, <2>1, <2>2, <2>3 DEF ReceivedPlaced
<1>11. PiecesPlaced(off, start)'
  BY <1>1, <1>6 DEF Laid, PiecesPlaced, sender
<1>12. Offsets(Len(sent), sent, off)'
  BY <1>1, <1>6 DEF Laid, sender
<1> QED
  BY <1>2, <1>10, <1>11, <1>12 DEF Ordered, Laid

\* b is byte j of the message after the first d, if its packet has that many.
IsByte(N, snt, d, b, j) ==
  /\ d + 1 \in 1..N
  /\ j <= HeaderLen + snt[d + 1] => b = <<d + 1, j>>

\* The stream's next bytes after d messages belong to message d + 1, up to the
\* end of its packet: this is why UnpackReceivedData, which counts bytes, cuts
\* the stream where PackSendData joined it.
LEMMA NextByte ==
  ASSUME NEW N \in Nat, NEW snt, \A m \in 1..N : snt[m] \in Nat,
         NEW off \in [Nat -> Nat], Offsets(N, snt, off),
         NEW d \in Nat, d <= N, NEW b \in Byte, NEW j \in Nat \ {0},
         NEW z, z = off[d + 1] + j, OnStream(N, snt, off, b, z)
  PROVE  IsByte(N, snt, d, b, j)
<1>1. HeaderLen \in Nat
  BY BufferAssumption
<1>2. PICK m \in 1..N, i \in Nat : b = <<m, i>> /\ b[1] = m /\ b[2] = i
  <2>1. PICK x \in Nat, y \in Nat : b = <<x, y>>
    BY DEF Byte
  <2>2. b[1] = x /\ b[2] = y
    BY <2>1
  <2>3. x \in 1..N
    BY <2>2 DEF OnStream
  <2> QED
    BY <2>1, <2>2, <2>3
<1>3. i \in 1..HeaderLen + snt[m] /\ off[m] + i = off[d + 1] + j
  BY <1>2 DEF OnStream
<1>4. PICK l \in Nat : l = snt[m]
  OBVIOUS
<1>5. i <= HeaderLen + l
  BY <1>1, <1>3, <1>4
<1>6. \A n \in 1..N + 1 : m < n => (off[m] + HeaderLen) + l <= off[n]
  BY <1>4 DEF Offsets
<1>7. off[m] \in Nat /\ off[d + 1] \in Nat
  OBVIOUS
<1>8. ~(m < d + 1)
  <2> SUFFICES ASSUME m < d + 1 PROVE FALSE
    OBVIOUS
  <2>1. d + 1 \in 1..N + 1
    OBVIOUS
  <2>2. (off[m] + HeaderLen) + l <= off[d + 1]
    BY <1>6, <2>1
  <2> QED
    BY <1>1, <1>3, <1>5, <1>7, <2>2
<1>9. d + 1 \in 1..N
  BY <1>8
<1>10. ASSUME j <= HeaderLen + snt[d + 1]
       PROVE  b = <<d + 1, j>>
  <2>1. PICK h \in Nat : h = snt[d + 1]
    BY <1>9
  <2>2. j <= HeaderLen + h
    BY <1>10, <2>1
  <2>3. ~(d + 1 < m)
    <3> SUFFICES ASSUME d + 1 < m PROVE FALSE
      OBVIOUS
    <3>1. m \in 1..N + 1
      OBVIOUS
    <3>2. (off[d + 1] + HeaderLen) + h <= off[m]
      BY <1>9, <2>1, <3>1 DEF Offsets
    <3>3. i >= 1
      BY <1>3
    <3> QED
      BY <1>1, <1>3, <1>7, <2>2, <3>2, <3>3
  <2>4. m = d + 1
    BY <1>8, <2>3
  <2>5. i = j
    BY <1>3, <1>7, <2>4
  <2> QED
    BY <1>2, <2>4, <2>5
<1> QED
  BY <1>9, <1>10 DEF IsByte

LEMMA HandDataOrdered ==
  ASSUME IInv, Ordered, NEW uPackLength \in 0..RcvBuf, HandData(uPackLength)
  PROVE  /\ Ordered'
         /\ ~overtaken => /\ Len(delivered) < Len(sent)
                          /\ delivered' = Append(delivered, Len(delivered) + 1)
<1>1. /\ uPackLength \in uPackLengths
      /\ uDataLength >= HeaderLen
      /\ uPackLength <= uDataLength
      /\ pos' = pos + uPackLength
      /\ UNCHANGED <<mem, window, rcv, wire, sender>>
  BY DEF HandData, Complete
<1> SUFFICES ASSUME ~overtaken
             PROVE  /\ Ordered'
                    /\ Len(delivered) < Len(sent)
                    /\ delivered' = Append(delivered, Len(delivered) + 1)
  BY <1>1 DEF Ordered, sender
<1>2. mem \in Seq(Byte) /\ pos \in 0..Len(mem)
  BY DEF IInv, TypeOK
<1>3. sent \in Seq(Nat) /\ delivered \in Seq(Nat)
  BY DEF IInv, TypeOK
<1>4. PICK N \in Nat : N = Len(sent) /\ DOMAIN sent = 1..N
  BY <1>3
<1>5. \A m \in 1..N : sent[m] \in Nat
  BY <1>3, <1>4
<1>6. PICK d \in Nat : d = Len(delivered)
  BY <1>3
<1>7. PICK M \in Nat, p \in Nat : M = Len(mem) /\ p = pos /\ p <= M
  BY <1>2
<1>8. uDataLength = M - p
  BY <1>7 DEF uDataLength
<1>9. HeaderLen \in Nat /\ HeaderLen >= 1 /\ uPackLength \in Nat
  BY BufferAssumption
<1>10. \A j \in p + 1..M : mem[j] \in Byte
  <2>1. \A j \in 1..M : mem[j] \in Byte
    BY <1>2, <1>7
  <2>2. \A j \in p + 1..M : j \in 1..M
    OBVIOUS
  <2> QED
    BY <2>1, <2>2
<1>11. PICK off \in [Nat -> Nat], start \in [Nat -> Nat] : Laid(off, start)
  BY DEF Ordered
<1>12. /\ Offsets(N, sent, off)
       /\ d <= N
       /\ \A j \in p + 1..M : OnStream(N, sent, off, mem[j], off[d + 1] + (j - p))
       /\ Placed(N, sent, off, wire, off[d + 1] + (M - p), start[onWire + 1])
  BY <1>4, <1>6, <1>7, <1>8, <1>11 DEF Laid, ReceivedPlaced
<1>13. ASSUME NEW j \in 1..M - p
       PROVE  /\ d + 1 \in 1..N
              /\ j <= HeaderLen + sent[d + 1] => mem[p + j] = <<d + 1, j>>
  <2>1. p + j \in p + 1..M /\ (p + j) - p = j /\ j \in Nat \ {0}
    OBVIOUS
  <2>2. PICK b \in Byte : b = mem[p + j]
    BY <1>10, <2>1
  <2>3. PICK z : z = off[d + 1] + j
    OBVIOUS
  <2>6. OnStream(N, sent, off, b, z)
    BY <1>12, <2>1, <2>2, <2>3
  <2>4. Offsets(N, sent, off) /\ d <= N /\ j \in Nat \ {0}
    BY <1>12, <2>1
  <2>5. IsByte(N, sent, d, b, j)
    BY <1>5, <2>3, <2>4, <2>6, NextByte
  <2> QED
    BY <2>2, <2>5 DEF IsByte
<1>14. HeaderLen <= M - p /\ uPackLength <= M - p /\ 1 \in 1..M - p
  BY <1>1, <1>8, <1>9
<1>15. d + 1 \in 1..N
  BY <1>13, <1>14
<1>16. PICK length \in Nat : length = sent[d + 1]
  BY <1>5, <1>15
<1>17. mem[p + 1] = <<d + 1, 1>>
  BY <1>9, <1>13, <1>14, <1>16
<1>18. HeaderOf(d + 1)
  <2>1. ASSUME NEW i \in 1..HeaderLen
        PROVE  mem[pos + i] = <<d + 1, i>>
    <3>1. i \in 1..M - p /\ i <= HeaderLen + length
      BY <1>9, <1>14
    <3> QED
      BY <1>7, <1>13, <1>16, <3>1
  <2> QED
    BY <1>1, <2>1 DEF HeaderOf
<1>19. ASSUME NEW m, mem[p + 1] = <<m, 1>>
       PROVE  m = d + 1
  BY <1>17, <1>19
<1>20. ASSUME NEW m, HeaderOf(m)
       PROVE  m = d + 1
  <2>1. 1 \in 1..HeaderLen
    BY <1>9
  <2>2. mem[p + 1] = <<m, 1>>
    BY <1>7, <1>20, <2>1 DEF HeaderOf
  <2> QED
    BY <1>19, <2>2
<1>21. uPackLength = HeaderLen + length
  <2>1. d + 1 \in DOMAIN sent
    BY <1>4, <1>15
  <2>2. uPackLength \in {HeaderLen + sent[m] : m \in {k \in DOMAIN sent : HeaderOf(k)}}
    BY <1>1, <1>18, <2>1 DEF uPackLengths
  <2>3. PICK m \in DOMAIN sent : HeaderOf(m) /\ uPackLength = HeaderLen + sent[m]
    BY <2>2
  <2> QED
    BY <1>16, <1>20, <2>3
<1>22. Holds(d + 1, uPackLength)
  <2>1. ASSUME NEW i \in 1..uPackLength
        PROVE  mem[pos + i] = <<d + 1, i>>
    <3>1. i \in 1..M - p /\ i <= HeaderLen + length
      BY <1>9, <1>14, <1>21
    <3> QED
      BY <1>7, <1>13, <1>16, <3>1
  <2> QED
    BY <1>16, <1>21, <2>1 DEF Holds
<1>23. ASSUME NEW m, Holds(m, uPackLength)
       PROVE  m = d + 1
  <2>1. 1 \in 1..uPackLength
    BY <1>9, <1>21
  <2>2. mem[p + 1] = <<m, 1>>
    BY <1>7, <1>23, <2>1 DEF Holds
  <2> QED
    BY <1>19, <2>2
<1>24. delivered' = Append(delivered, d + 1) /\ garbled' = garbled
  <2> DEFINE whole == {m \in DOMAIN sent : Holds(m, uPackLength)}
  <2>1. d + 1 \in whole
    BY <1>4, <1>15, <1>22
  <2>2. PICK m \in whole : delivered' = Append(delivered, m) /\ garbled' = garbled
    BY <2>1 DEF HandData
  <2>3. m = d + 1
    BY <1>23, <2>2
  <2> QED
    BY <2>2, <2>3
<1>25. Len(delivered') = d + 1
  BY <1>3, <1>6, <1>24
<1>26. off[(d + 1) + 1] = off[d + 1] + uPackLength
  <2>1. off[(d + 1) + 1] = (off[d + 1] + HeaderLen) + length
    BY <1>12, <1>15, <1>16 DEF Offsets
  <2>2. off[d + 1] \in Nat
    OBVIOUS
  <2> QED
    BY <1>9, <1>21, <2>1, <2>2
<1>27. ReceivedPlaced(off, start)'
  <2>1. /\ mem' = mem /\ wire' = wire /\ sent' = sent /\ onWire' = onWire
        /\ pos' = p + uPackLength
    BY <1>1, <1>7 DEF sender
  <2>2. off[d + 1] \in Nat
    OBVIOUS
  <2>3. ASSUME NEW j \in (p + uPackLength) + 1..M
        PROVE  OnStream(N, sent, off, mem[j],
                        off[(d + 1) + 1] + (j - (p + uPackLength)))
    <3>1. j \in p + 1..M
      BY <1>9
    <3>2. off[(d + 1) + 1] + (j - (p + uPackLength)) = off[d + 1] + (j - p)
      BY <1>9, <1>26, <2>2
    <3> QED
      BY <1>12, <3>1, <3>2
  <2>4. off[(d + 1) + 1] + (M - (p + uPackLength)) = off[d + 1] + (M - p)
    BY <1>9, <1>26, <2>2
  <2>5. uDataLength' = M - (p + uPackLength)
    BY <1>7, <2>1 DEF uDataLength
  <2>6. d + 1 <= N
    BY <1>15
  <2>7. Placed(N, sent, off, wire,
               off[(d + 1) + 1] + (M - (p + uPackLength)), start[onWire + 1])
    BY <1>12, <2>4
  <2> QED
    BY <1>4, <1>7, <1>25, <2>1, <2>3, <2>5, <2>6, <2>7 DEF ReceivedPlaced
<1>28. PiecesPlaced(off, start)'
  BY <1>1, <1>11 DEF Laid, PiecesPlaced, sender
<1>29. Offsets(Len(sent), sent, off)'
  BY <1>1, <1>11 DEF Laid, sender
<1>30. ~garbled'
  BY <1>24 DEF Ordered
<1>31. Ordered'
  BY <1>27, <1>28, <1>29, <1>30 DEF Ordered, Laid
<1>32. Len(delivered) < Len(sent)
  BY <1>4, <1>6, <1>15
<1> QED
  BY <1>6, <1>24, <1>31, <1>32

LEMMA CloseOrdered ==
  ASSUME Ordered, TooLarge \/ WrongCheck \/ UNCHANGED vars
  PROVE  Ordered'
<1>1. UNCHANGED <<mem, pos, delivered, garbled, wire, sender>>
  BY DEF TooLarge, WrongCheck, vars, receiver
<1> SUFFICES ASSUME ~overtaken' PROVE Ordered'
  BY DEF Ordered
<1>2. ~garbled'
  BY <1>1 DEF Ordered, sender
<1>3. PICK off \in [Nat -> Nat], start \in [Nat -> Nat] : Laid(off, start)
  BY <1>1 DEF Ordered, sender
<1>4. PiecesPlaced(off, start)'
  BY <1>1, <1>3 DEF Laid, PiecesPlaced, sender
<1>5. ReceivedPlaced(off, start)'
  BY <1>1, <1>3 DEF Laid, ReceivedPlaced, uDataLength, sender
<1>6. Offsets(Len(sent), sent, off)'
  BY <1>1, <1>3 DEF Laid, sender
<1> QED
  BY <1>2, <1>4, <1>5, <1>6 DEF Ordered, Laid

LEMMA NextOrdered ==
  ASSUME IInv, Ordered, [Next]_vars
  PROVE  Ordered'
<1>1. ASSUME NEW t \in Threads, NEW length \in Bodies, Send(t, length)
      PROVE  Ordered'
  BY <1>1, SendOrdered
<1>2. ASSUME NEW t \in Threads, Step(t) \/ HandSend(t)
      PROVE  Ordered'
  BY <1>2, PostSendOrdered, WSASendOrdered, HandSendOrdered DEF Step
<1>3. CASE HandReceive
  BY <1>3, HandReceiveOrdered
<1>4. CASE Unpack
  <2>1. CASE Incomplete
    BY <2>1, IncompleteOrdered
  <2>2. CASE TooLarge \/ WrongCheck
    BY <2>2, CloseOrdered
  <2>3. ASSUME NEW uPackLength \in 0..RcvBuf, HandData(uPackLength)
        PROVE  Ordered'
    BY <2>3, HandDataOrdered
  <2> QED
    BY <1>4, <2>1, <2>2, <2>3 DEF Unpack
<1>5. CASE UNCHANGED vars
  BY <1>5, CloseOrdered
<1> QED
  BY <1>1, <1>2, <1>3, <1>4, <1>5 DEF Next

\* The step of the channel that a step of the two ends implements: Send accepts
\* a message, handing a piece to the socket out of turn breaks the channel,
\* HandData delivers, and everything else it does not see.
ChannelNext ==
  [FifoChannel!Accept \/ FifoChannel!Deliver \/ FifoChannel!Break
     \/ FifoChannel!Unordered]_(FifoChannel!channelVars)

LEMMA ChannelStep ==
  ASSUME IInv, Ordered, [Next]_vars
  PROVE  ChannelNext
<1>1. sent \in Seq(Nat) /\ delivered \in Seq(Nat) /\ overtaken \in BOOLEAN
  BY DEF IInv, TypeOK
<1>2. ASSUME NEW t \in Threads, NEW length \in Bodies, Send(t, length)
      PROVE  FifoChannel!Accept
  <2>1. length \in Nat
    BY BufferAssumption
  <2>2. sent' = Append(sent, length)
    BY <1>2 DEF Send
  <2>3. Len(sent') = Len(sent) + 1
    BY <1>1, <2>1, <2>2
  <2>4. delivered' = delivered /\ overtaken' = overtaken
    BY <1>2 DEF Send, receiver
  <2> QED
    BY <2>3, <2>4 DEF FifoChannel!Accept
<1>3. ASSUME NEW t \in Threads, WSASend(t)
      PROVE  ChannelNext
  <2>1. sent' = sent /\ delivered' = delivered
    BY <1>3 DEF WSASend, receiver
  <2>2. overtaken' = overtaken \/ overtaken' = TRUE
    BY <1>1, <1>3 DEF WSASend
  <2> QED
    BY <2>1, <2>2 DEF ChannelNext, FifoChannel!Break, FifoChannel!channelVars
<1>4. ASSUME NEW uPackLength \in 0..RcvBuf, HandData(uPackLength)
      PROVE  ChannelNext
  <2>1. sent' = sent /\ overtaken' = overtaken
    BY <1>4 DEF HandData, sender
  <2>2. CASE ~overtaken
    <3>1. /\ Len(delivered) < Len(sent)
          /\ delivered' = Append(delivered, Len(delivered) + 1)
      BY <1>4, <2>2, HandDataOrdered
    <3> QED
      BY <2>1, <2>2, <3>1 DEF ChannelNext, FifoChannel!Deliver
  <2>3. CASE overtaken
    <3>1. Len(sent') >= Len(sent)
      BY <1>1, <2>1
    <3> QED
      BY <2>1, <2>3, <3>1 DEF ChannelNext, FifoChannel!Unordered
  <2> QED
    BY <2>2, <2>3
<1>5. ASSUME UNCHANGED <<sent, delivered, overtaken>>
      PROVE  ChannelNext
  BY <1>5 DEF ChannelNext, FifoChannel!channelVars
<1>6. ASSUME NEW t \in Threads, PostSend(t) \/ HandSend(t)
      PROVE  ChannelNext
  <2>1. UNCHANGED <<sent, delivered, overtaken>>
    BY <1>6 DEF PostSend, HandSend, receiver
  <2> QED
    BY <1>5, <2>1
<1>7. CASE HandReceive
  <2>1. UNCHANGED <<sent, delivered, overtaken>>
    BY <1>7 DEF HandReceive, sender
  <2> QED
    BY <1>5, <2>1
<1>8. CASE TooLarge \/ Incomplete \/ WrongCheck
  <2>1. UNCHANGED <<sent, delivered, overtaken>>
    BY <1>8 DEF TooLarge, Incomplete, WrongCheck, sender
  <2> QED
    BY <1>5, <2>1
<1>9. CASE UNCHANGED vars
  <2>1. UNCHANGED <<sent, delivered, overtaken>>
    BY <1>9 DEF vars, sender, receiver
  <2> QED
    BY <1>5, <2>1
<1>10. CASE Unpack
  BY <1>4, <1>8, <1>10 DEF Unpack
<1>11. ASSUME NEW t \in Threads, NEW length \in Bodies, Send(t, length)
       PROVE  ChannelNext
  BY <1>2, <1>11 DEF ChannelNext
<1> QED
  BY <1>3, <1>6, <1>7, <1>9, <1>10, <1>11 DEF Next, Step

LEMMA OrderedInvariant == Spec => []Ordered
<1>1. IInv /\ Ordered /\ [Next]_vars => Ordered'
  BY NextOrdered
<1> QED
  BY <1>1, InitOrdered, StreamInvariant, PTL DEF Spec

\* However many threads pack and send, and however TCP cuts the stream, the
\* two ends are a FIFO channel: what HandData gets is the messages of Send, in
\* order, each once and whole, until one piece overtakes another between the
\* queue and the socket.
THEOREM StreamImplementsChannel == Spec => ImplementsChannel
<1>1. Init => FifoChannel!ChannelInit
  BY DEF Init, FifoChannel!ChannelInit
<1>2. IInv /\ Ordered /\ [Next]_vars => ChannelNext
  BY ChannelStep
<1> QED
  BY <1>1, <1>2, StreamInvariant, OrderedInvariant, PTL
  DEF Spec, ImplementsChannel, FifoChannel!Channel, ChannelNext

\* WholeMessages for every buffer size: as long as the pieces reach the socket
\* in the order they were packed, no packet is cut in the wrong place.
THEOREM PacketsWhole == Spec => []WholeMessages
<1>1. Ordered => WholeMessages
  BY DEF Ordered, WholeMessages
<1> QED
  BY <1>1, OrderedInvariant, PTL

=============================================================================
