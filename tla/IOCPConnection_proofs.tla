------------------------ MODULE IOCPConnection_proofs ------------------------
(***************************************************************************)
(* Theorems about the connection life cycle, for any number of workers,    *)
(* application threads, contexts, clients and calls.                       *)
(***************************************************************************)
EXTENDS IOCPConnection, FiniteSetTheorems, TLAPS

-----------------------------------------------------------------------------
\* Types.  One part per structured variable, one lemma per helper.

CtxOK == ctx \in [Contexts -> SocketContext]
OpsOK == ops \in [Contexts -> [OpKinds -> Nat]]
ThrOK == /\ thr \in [Threads -> Thread]
         /\ \A t \in Threads :
              thr[t].pc \notin {"idle", "PostAcceptEx"} => thr[t].c \in Contexts
RestOK == /\ fresh \subseteq Contexts
          /\ returned \in Seq(Contexts)
          /\ listing \in [Keys -> Contexts \cup {NoCtx}]
          /\ uUserNum \in Nat \ {0}
          /\ added \subseteq Nat
          /\ deleted \subseteq Nat
          /\ arrivals \in 0..MaxClients
          /\ calls \in 0..MaxCalls
          /\ lostSlots \in Nat
          /\ reused \in BOOLEAN

LEMMA TypeParts == TypeOK <=> CtxOK /\ OpsOK /\ ThrOK /\ RestOK
BY DEF TypeOK, CtxOK, OpsOK, ThrOK, RestOK

LEMMA TypePartsNext == TypeOK' <=> CtxOK' /\ OpsOK' /\ ThrOK' /\ RestOK'
BY DEF TypeOK, CtxOK, OpsOK, ThrOK, RestOK

\* Reset and the new key, as PostAcceptEx writes them.
LEMMA ResetType ==
  ASSUME NEW r \in SocketContext, NEW k \in Nat, NEW q \in Nat,
         NEW s \in {"invalid", "idle", "conn"}
  PROVE  [r EXCEPT !.key = k, !.sock = s, !.q = q, !.inUse = TRUE] \in SocketContext
BY DEF SocketContext

LEMMA GotoType ==
  ASSUME NEW t \in Threads, NEW pc \in Steps, ThrOK, Goto(t, pc),
         thr[t].c \in Contexts
  PROVE  ThrOK'
<1>1. [thr[t] EXCEPT !.pc = pc] \in Thread
  BY DEF ThrOK, Thread
<1> QED BY <1>1 DEF ThrOK, Goto, Thread

LEMMA ReturnType ==
  ASSUME NEW t \in Threads, ThrOK, Return(t)
  PROVE  ThrOK'
<1>1. thr[t].next \in {"idle", "PostAcceptEx"}
  BY DEF ThrOK, Thread
<1>2. /\ [Idle EXCEPT !.pc = thr[t].next] \in Thread
      /\ [Idle EXCEPT !.pc = thr[t].next].pc = thr[t].next
  BY <1>1 DEF Thread, Idle, Steps
<1> QED BY <1>1, <1>2 DEF ThrOK, Return

LEMMA EnterType ==
  ASSUME NEW t \in Threads, NEW c \in Contexts, NEW pc \in Steps,
         NEW next \in {"idle", "PostAcceptEx"}, ThrOK, Enter(t, c, pc, next)
  PROVE  ThrOK'
BY DEF ThrOK, Enter, Thread

LEMMA AfterReCycleType ==
  ASSUME NEW t \in Threads, ThrOK, AfterReCycle(t), thr[t].c \in Contexts
  PROVE  ThrOK'
BY GotoType, ReturnType DEF AfterReCycle, Steps

LEMMA PostType ==
  ASSUME NEW c \in Contexts, NEW kind \in OpKinds, OpsOK, Post(c, kind)
  PROVE  OpsOK'
<1>1. [ops[c] EXCEPT ![kind] = @ + 1] \in [OpKinds -> Nat]
  BY DEF OpsOK
<1> QED BY <1>1 DEF OpsOK, Post

LEMMA UnpostType ==
  ASSUME NEW c \in Contexts, NEW kind \in OpKinds, OpsOK, ops[c][kind] > 0,
         Unpost(c, kind)
  PROVE  OpsOK'
<1>1. [ops[c] EXCEPT ![kind] = @ - 1] \in [OpKinds -> Nat]
  BY DEF OpsOK
<1> QED BY <1>1 DEF OpsOK, Unpost

LEMMA FlagType ==
  ASSUME NEW c \in Contexts, NEW v \in 0..2, CtxOK, SetFlag(c, v)
  PROVE  CtxOK'
<1>1. [ctx[c] EXCEPT !.flag = v] \in SocketContext
  BY DEF CtxOK, SocketContext
<1> QED BY <1>1 DEF CtxOK, SetFlag

LEMMA PutType ==
  ASSUME NEW c \in Contexts, NEW s \in {"invalid", "idle", "conn"}, CtxOK,
         returned \in Seq(Contexts), Put(c, s)
  PROVE  CtxOK' /\ returned' \in Seq(Contexts)
<1>1. [ctx[c] EXCEPT !.sock = s, !.inUse = FALSE] \in SocketContext
  BY DEF CtxOK, SocketContext
<1> QED BY <1>1 DEF CtxOK, Put

LEMMA UnlistType ==
  ASSUME NEW k, listing \in [Keys -> Contexts \cup {NoCtx}], Unlist(k)
  PROVE  listing' \in [Keys -> Contexts \cup {NoCtx}]
BY DEF Unlist

LEMMA InitType == Init => TypeOK
<1> SUFFICES ASSUME Init PROVE TypeOK
  OBVIOUS
<1>1. CtxOK
  <2>1. NewContext \in SocketContext
    BY DEF NewContext, SocketContext
  <2>2. \A k \in Nat : Accepting(k) \in SocketContext
    BY DEF Accepting, SocketContext
  <2>3. PICK first \in [1..MaxAccept -> Contexts] :
          ctx = [c \in Contexts |->
                   IF c \in {first[k] : k \in 1..MaxAccept}
                   THEN Accepting(CHOOSE k \in 1..MaxAccept : first[k] = c)
                   ELSE NewContext]
    BY DEF Init
  <2>4. \A c \in {first[k] : k \in 1..MaxAccept} :
          (CHOOSE k \in 1..MaxAccept : first[k] = c) \in Nat
    BY BoundAssumption
  <2> QED BY <2>1, <2>2, <2>3, <2>4 DEF CtxOK
<1>2. OpsOK
  <2>1. PICK first \in [1..MaxAccept -> Contexts] :
          ops = [c \in Contexts |->
                   [NoOps EXCEPT !.accept =
                      IF c \in {first[k] : k \in 1..MaxAccept} THEN 1 ELSE 0]]
    BY DEF Init
  <2>2. \A n \in Nat : [NoOps EXCEPT !.accept = n] \in [OpKinds -> Nat]
    BY DEF NoOps, OpKinds
  <2> QED BY <2>1, <2>2 DEF OpsOK
<1>3. ThrOK
  <2>1. thr = [t \in Threads |-> Idle]
    BY DEF Init
  <2> QED BY <2>1 DEF ThrOK, Thread, Idle, Steps
<1>4. RestOK
  <2>1. PICK first \in [1..MaxAccept -> Contexts] :
          /\ fresh = Contexts \ {first[k] : k \in 1..MaxAccept}
          /\ listing = [k \in Keys |->
                          IF k <= MaxAccept THEN first[k] ELSE NoCtx]
    BY DEF Init
  <2>2. /\ returned = <<>> /\ uUserNum = MaxAccept + 1
        /\ added = {} /\ deleted = {} /\ arrivals = 0 /\ calls = 0
        /\ lostSlots = 0 /\ reused = FALSE
    BY DEF Init
  <2>3. listing \in [Keys -> Contexts \cup {NoCtx}]
    BY <2>1, BoundAssumption DEF Keys
  <2>4. uUserNum \in Nat \ {0} /\ arrivals \in 0..MaxClients /\ calls \in 0..MaxCalls
    BY <2>2, BoundAssumption
  <2>5. fresh \subseteq Contexts
    BY <2>1
  <2>6. returned \in Seq(Contexts)
    BY <2>2
  <2> QED BY <2>2, <2>3, <2>4, <2>5, <2>6 DEF RestOK
<1> QED BY <1>1, <1>2, <1>3, <1>4, TypeParts

\* The steps of a thread inside a call.
LEMMA StepType ==
  ASSUME TypeOK, NEW t \in Threads, Step(t)
  PROVE  TypeOK'
<1> DEFINE c == thr[t].c
<1>0. CtxOK /\ OpsOK /\ ThrOK /\ RestOK
  BY TypeParts
<1>1. ~At(t, "idle") /\ ~At(t, "PostAcceptEx") => c \in Contexts
  BY <1>0 DEF ThrOK, At
<1>2. c \in Contexts => ctx[c] \in SocketContext
  BY <1>0 DEF CtxOK
<1>3. CASE AddUser(t)
  <2>1. c \in Contexts /\ Ctx(t).key \in Nat
    BY <1>1, <1>2, <1>3 DEF AddUser, At, Ctx, SocketContext
  <2>2. ThrOK'
    BY <1>0, <1>3, <2>1, GotoType DEF AddUser, Steps
  <2>3. CtxOK' /\ OpsOK' /\ RestOK'
    BY <1>0, <1>3, <2>1
    DEF AddUser, CtxOK, OpsOK, RestOK, pools, bounds
  <2> QED BY <2>2, <2>3, TypePartsNext
<1>4. CASE PostAcceptEx(t)
  <2>1. PICK n \in Contexts :
          /\ \/ fresh' = fresh \ {n} /\ UNCHANGED <<returned, reused>>
             \/ /\ returned # <<>> /\ returned' = Tail(returned)
                /\ reused' = TRUE /\ UNCHANGED fresh
          /\ ctx' = [ctx EXCEPT ![n] = [NewContext EXCEPT !.key = uUserNum,
                       !.sock = ctx[n].sock, !.q = ctx[n].q, !.inUse = TRUE]]
          /\ listing' = [listing EXCEPT ![uUserNum] = n]
          /\ Enter(t, n, "AcceptEx", "idle")
    BY <1>4 DEF PostAcceptEx
  <2>2. [NewContext EXCEPT !.key = uUserNum, !.sock = ctx[n].sock,
           !.q = ctx[n].q, !.inUse = TRUE] \in SocketContext
    <3>1. /\ uUserNum \in Nat /\ ctx[n].q \in Nat
          /\ ctx[n].sock \in {"invalid", "idle", "conn"}
      BY <1>0 DEF CtxOK, RestOK, SocketContext
    <3>2. NewContext \in SocketContext
      BY DEF NewContext, SocketContext
    <3> QED BY <3>1, <3>2, ResetType
  <2>3. CtxOK'
    BY <1>0, <2>1, <2>2 DEF CtxOK
  <2>4. ThrOK'
    BY <1>0, <2>1, EnterType DEF Steps
  <2>5. /\ returned' \in Seq(Contexts)
        /\ fresh' \subseteq Contexts
        /\ reused' \in BOOLEAN
    <3>1. returned \in Seq(Contexts) /\ fresh \subseteq Contexts /\ reused \in BOOLEAN
      BY <1>0 DEF RestOK
    <3>2. CASE fresh' = fresh \ {n} /\ UNCHANGED <<returned, reused>>
      BY <3>1, <3>2
    <3>3. CASE /\ returned # <<>> /\ returned' = Tail(returned)
               /\ reused' = TRUE /\ UNCHANGED fresh
      <4>1. Tail(returned) \in Seq(Contexts)
        BY <3>1, <3>3
      <4> QED BY <3>1, <3>3, <4>1
    <3> QED BY <2>1, <3>2, <3>3
  <2>6. listing' \in [Keys -> Contexts \cup {NoCtx}]
    BY <1>0, <2>1 DEF RestOK
  <2>7. /\ uUserNum' \in Nat \ {0}
        /\ UNCHANGED <<ops, users, bounds, lostSlots>>
    BY <1>0, <1>4 DEF PostAcceptEx, RestOK
  <2>8. OpsOK' /\ RestOK'
    BY <1>0, <2>5, <2>6, <2>7 DEF OpsOK, RestOK, users, bounds
  <2> QED BY <2>3, <2>4, <2>8, TypePartsNext
<1>5. CASE AcceptEx(t)
  <2>1. c \in Contexts
    BY <1>1, <1>5 DEF AcceptEx, At
  <2>2. CtxOK'
    <3>1. /\ [ctx[c] EXCEPT !.sock = "idle", !.op = "accept"] \in SocketContext
          /\ [ctx[c] EXCEPT !.sock = "invalid"] \in SocketContext
      BY <1>2, <2>1 DEF SocketContext
    <3>2. \/ ctx' = [ctx EXCEPT ![c] = [ctx[c] EXCEPT !.sock = "idle", !.op = "accept"]]
          \/ ctx' = [ctx EXCEPT ![c] = [ctx[c] EXCEPT !.sock = "invalid"]]
      BY <1>5 DEF AcceptEx
    <3> QED BY <1>0, <2>1, <3>1, <3>2 DEF CtxOK
  <2>3. ThrOK'
    BY <1>0, <1>5, <2>1, GotoType, ReturnType DEF AcceptEx, Steps
  <2>4. OpsOK'
    <3>1. Post(c, "accept") \/ UNCHANGED ops
      BY <1>5 DEF AcceptEx
    <3> QED BY <1>0, <2>1, <3>1, PostType DEF OpKinds, OpsOK
  <2>5. RestOK'
    BY <1>0, <1>5 DEF AcceptEx, RestOK, pools, users, bounds
  <2> QED BY <2>2, <2>3, <2>4, <2>5, TypePartsNext
<1>6. CASE AcceptFailed(t)
  <2>1. c \in Contexts /\ Ctx(t).sock \in {"invalid", "idle", "conn"}
    BY <1>1, <1>2, <1>6 DEF AcceptFailed, At, Ctx, SocketContext
  <2>2. CtxOK' /\ returned' \in Seq(Contexts)
    BY <1>0, <1>6, <2>1, PutType DEF AcceptFailed, RestOK
  <2>3. ThrOK'
    BY <1>0, <1>6, ReturnType DEF AcceptFailed
  <2>4. OpsOK' /\ RestOK'
    BY <1>0, <1>6, <2>2, UnlistType
    DEF AcceptFailed, OpsOK, RestOK, users, bounds
  <2> QED BY <2>2, <2>3, <2>4, TypePartsNext
<1>7. CASE Receive(t)
  <2>1. c \in Contexts
    BY <1>1, <1>7 DEF Receive, At
  <2>2. CtxOK'
    <3>1. [ctx[c] EXCEPT !.op = "recv"] \in SocketContext
      BY <1>2, <2>1 DEF SocketContext
    <3> QED BY <1>0, <1>7, <2>1, <3>1 DEF CtxOK, Receive
  <2>3. ThrOK'
    BY <1>0, <1>7, <2>1, GotoType, ReturnType DEF Receive, Steps
  <2>4. OpsOK'
    <3>1. Post(c, "recv") \/ UNCHANGED ops
      BY <1>7 DEF Receive
    <3> QED BY <1>0, <2>1, <3>1, PostType DEF OpKinds, OpsOK
  <2>5. RestOK'
    BY <1>0, <1>7 DEF Receive, RestOK, pools, users, bounds
  <2> QED BY <2>2, <2>3, <2>4, <2>5, TypePartsNext
<1>8. CASE WSASend(t)
  <2>1. c \in Contexts
    BY <1>1, <1>8 DEF WSASend, At
  <2>2. ThrOK'
    BY <1>0, <1>8, <2>1, GotoType, ReturnType DEF WSASend, Steps
  <2>3. OpsOK'
    <3>1. Post(c, "send") \/ UNCHANGED ops
      BY <1>8 DEF WSASend
    <3> QED BY <1>0, <2>1, <3>1, PostType DEF OpKinds, OpsOK
  <2>4. CtxOK' /\ RestOK'
    BY <1>0, <1>8 DEF WSASend, CtxOK, RestOK, pools, users, bounds
  <2> QED BY <2>2, <2>3, <2>4, TypePartsNext
<1>9. CASE PackSendData(t) \/ PostSend(t) \/ CleanQueue(t)
  <2>1. c \in Contexts /\ Ctx(t).q \in Nat
    BY <1>1, <1>2, <1>9 DEF PackSendData, PostSend, CleanQueue, At, Ctx, SocketContext
  <2>2. \A n \in Nat : [ctx[c] EXCEPT !.q = n] \in SocketContext
    BY <1>2, <2>1 DEF SocketContext
  <2>3. ctx' = ctx \/ \E n \in Nat : ctx' = [ctx EXCEPT ![c].q = n]
    <3>1. CASE PackSendData(t)
      <4>1. ctx' = ctx \/ ctx' = [ctx EXCEPT ![c].q = ctx[c].q + Pieces]
        BY <3>1 DEF PackSendData
      <4>2. ctx[c].q + Pieces \in Nat
        BY <2>1, BoundAssumption DEF Ctx
      <4> QED BY <4>1, <4>2
    <3>2. CASE PostSend(t)
      <4>1. ctx' = ctx \/ (ctx[c].q # 0 /\ ctx' = [ctx EXCEPT ![c].q = ctx[c].q - 1])
        BY <3>2 DEF PostSend, Ctx
      <4>2. ctx[c].q # 0 => ctx[c].q - 1 \in Nat
        BY <2>1 DEF Ctx
      <4> QED BY <4>1, <4>2
    <3>3. CASE CleanQueue(t)
      BY <3>3 DEF CleanQueue
    <3> QED BY <1>9, <3>1, <3>2, <3>3
  <2>4. CtxOK'
    BY <1>0, <2>1, <2>2, <2>3 DEF CtxOK
  <2>5. ThrOK'
    BY <1>0, <1>9, <2>1, GotoType, ReturnType
    DEF PackSendData, PostSend, CleanQueue, Steps
  <2>6. OpsOK' /\ RestOK'
    BY <1>0, <1>9
    DEF PackSendData, PostSend, CleanQueue, OpsOK, RestOK, pools, users, bounds
  <2> QED BY <2>4, <2>5, <2>6, TypePartsNext
<1>10. CASE SetOne(t) \/ SetTwo(t)
  <2>1. c \in Contexts
    BY <1>1, <1>10 DEF SetOne, SetTwo, At
  <2>2. CtxOK'
    BY <1>0, <1>10, <2>1, FlagType DEF SetOne, SetTwo
  <2>3. ThrOK'
    BY <1>0, <1>10, <2>1, GotoType, AfterReCycleType DEF SetOne, SetTwo, Steps
  <2>4. OpsOK' /\ RestOK'
    BY <1>0, <1>10 DEF SetOne, SetTwo, OpsOK, RestOK, pools, users, bounds
  <2> QED BY <2>2, <2>3, <2>4, TypePartsNext
<1>11. CASE DeleteUser(t)
  <2>1. c \in Contexts /\ Ctx(t).key \in Nat
    BY <1>1, <1>2, <1>11 DEF DeleteUser, At, Ctx, SocketContext
  <2>2. ThrOK'
    BY <1>0, <1>11, <2>1, AfterReCycleType DEF DeleteUser
  <2>3. CtxOK' /\ OpsOK' /\ RestOK'
    BY <1>0, <1>11, <2>1
    DEF DeleteUser, CtxOK, OpsOK, RestOK, pools, bounds
  <2> QED BY <2>2, <2>3, TypePartsNext
<1>12. CASE Erase(t)
  <2>1. c \in Contexts
    BY <1>1, <1>12 DEF Erase, At
  <2>2. ThrOK'
    BY <1>0, <1>12, <2>1, GotoType DEF Erase, Steps
  <2>3. CtxOK' /\ OpsOK' /\ RestOK'
    BY <1>0, <1>12, UnlistType
    DEF Erase, CtxOK, OpsOK, RestOK, pools, users, bounds
  <2> QED BY <2>2, <2>3, TypePartsNext
<1>13. CASE DisconnectEx(t)
  <2>1. c \in Contexts
    BY <1>1, <1>13 DEF DisconnectEx, At
  <2>2. CtxOK' /\ returned' \in Seq(Contexts)
    <3>1. CASE ctx' = [ctx EXCEPT ![c].sock = "idle"] /\ UNCHANGED returned
      <4>1. [ctx[c] EXCEPT !.sock = "idle"] \in SocketContext
        BY <1>2, <2>1 DEF SocketContext
      <4> QED BY <1>0, <2>1, <3>1, <4>1 DEF CtxOK, RestOK
    <3>2. CASE Put(c, "invalid")
      BY <1>0, <2>1, <3>2, PutType DEF RestOK
    <3> QED BY <1>13, <3>1, <3>2 DEF DisconnectEx
  <2>3. OpsOK'
    <3>1. Post(c, "disc") \/ UNCHANGED ops
      BY <1>13 DEF DisconnectEx
    <3> QED BY <1>0, <2>1, <3>1, PostType DEF OpKinds, OpsOK
  <2>4. ThrOK'
    BY <1>0, <1>13, ReturnType DEF DisconnectEx
  <2>5. RestOK'
    BY <1>0, <1>13, <2>2 DEF DisconnectEx, RestOK, users, bounds
  <2> QED BY <2>2, <2>3, <2>4, <2>5, TypePartsNext
<1>14. CASE PostReceive(t) \/ HandData(t) \/ ReCycle(t) \/ CheckFlag(t)
  <2>1. c \in Contexts
    BY <1>1, <1>14 DEF PostReceive, HandData, ReCycle, CheckFlag, At
  <2>2. \/ thr' = [thr EXCEPT ![t].pc = "ReCycle", ![t].full = FALSE]
        \/ \E pc \in Steps : Goto(t, pc)
        \/ Return(t)
    BY <1>14 DEF PostReceive, HandData, ReCycle, CheckFlag, AfterReCycle, Steps
  <2>3. [thr[t] EXCEPT !.pc = "ReCycle", !.full = FALSE] \in Thread
    BY <1>0 DEF ThrOK, Thread, Steps
  <2>4. ThrOK'
    <3>1. CASE thr' = [thr EXCEPT ![t].pc = "ReCycle", ![t].full = FALSE]
      BY <1>0, <2>1, <2>3, <3>1 DEF ThrOK, Thread
    <3> QED BY <1>0, <2>1, <2>2, <3>1, GotoType, ReturnType
  <2>5. CtxOK' /\ OpsOK' /\ RestOK'
    BY <1>0, <1>14
    DEF PostReceive, HandData, ReCycle, CheckFlag, CtxOK, OpsOK, RestOK,
        pools, users, bounds
  <2> QED BY <2>4, <2>5, TypePartsNext
<1> QED
  BY <1>3, <1>4, <1>5, <1>6, <1>7, <1>8, <1>9, <1>10, <1>11, <1>12, <1>13, <1>14
  DEF Step

\* A worker takes a completion.
LEMMA DispatchType ==
  ASSUME TypeOK, NEW t \in Workers, NEW c \in Contexts, Dispatch(t, c)
  PROVE  TypeOK'
<1>0. CtxOK /\ OpsOK /\ ThrOK /\ RestOK /\ t \in Threads
  BY TypeParts DEF Threads
<1>1. ctx[c] \in SocketContext
  BY <1>0 DEF CtxOK
<1>2. \A k : Find(k) # NoCtx => Find(k) \in Contexts
  BY <1>0 DEF RestOK, Find
<1>3. ASSUME NEW kind \in Embedded, HandAccept(t, c, kind) PROVE TypeOK'
  <2>1. kind \in OpKinds /\ ops[c][kind] > 0 /\ Unpost(c, kind)
    BY <1>3 DEF HandAccept, Dispatched, Embedded, OpKinds
  <2>2. CtxOK'
    <3>1. [ctx[c] EXCEPT !.sock = "conn"] \in SocketContext
      BY <1>1 DEF SocketContext
    <3> QED BY <1>0, <1>3, <3>1 DEF CtxOK, HandAccept
  <2>3. OpsOK'
    BY <1>0, <2>1, UnpostType
  <2>4. ThrOK'
    <3>1. \/ UNCHANGED thr
          \/ /\ Find(ctx[c].key) # NoCtx
             /\ Enter(t, Find(ctx[c].key), "AddUser", "PostAcceptEx")
      BY <1>3 DEF HandAccept
    <3>2. UNCHANGED thr => ThrOK'
      BY <1>0 DEF ThrOK
    <3> QED BY <1>0, <1>2, <3>1, <3>2, EnterType DEF Steps
  <2>5. arrivals' \in 0..MaxClients /\ lostSlots' \in Nat
    BY <1>0, <1>3, BoundAssumption DEF HandAccept, RestOK
  <2>6. RestOK'
    BY <1>0, <1>3, <2>5 DEF HandAccept, RestOK, pools, users
  <2> QED BY <2>2, <2>3, <2>4, <2>6, TypePartsNext
<1>4. ASSUME NEW kind \in Embedded, HandAcceptError(t, c, kind) PROVE TypeOK'
  <2>1. kind \in OpKinds /\ ops[c][kind] > 0 /\ Unpost(c, kind)
    BY <1>4 DEF HandAcceptError, Dispatched, Embedded, OpKinds
  <2>2. OpsOK'
    BY <1>0, <2>1, UnpostType
  <2>3. ThrOK'
    <3>1. \/ UNCHANGED thr
          \/ /\ Find(ctx[c].key) # NoCtx
             /\ Enter(t, Find(ctx[c].key), "AcceptFailed", "idle")
      BY <1>4 DEF HandAcceptError
    <3>2. UNCHANGED thr => ThrOK'
      BY <1>0 DEF ThrOK
    <3> QED BY <1>0, <1>2, <3>1, <3>2, EnterType DEF Steps
  <2>4. CtxOK' /\ RestOK'
    BY <1>0, <1>4 DEF HandAcceptError, CtxOK, RestOK, pools, users, bounds
  <2> QED BY <2>2, <2>3, <2>4, TypePartsNext
<1>5. CASE HandReceiveData(t, c) \/ HandReceiveEnd(t, c) \/ HandSend(t, c)
  <2>1. \E kind \in OpKinds : ops[c][kind] > 0 /\ Unpost(c, kind)
    BY <1>5
    DEF HandReceiveData, HandReceiveEnd, HandSend, Dispatched, OpKinds
  <2>2. OpsOK'
    BY <1>0, <2>1, UnpostType
  <2>3. ThrOK'
    BY <1>0, <1>5, EnterType
    DEF HandReceiveData, HandReceiveEnd, HandSend, Steps
  <2>4. CtxOK' /\ RestOK'
    BY <1>0, <1>5
    DEF HandReceiveData, HandReceiveEnd, HandSend, CtxOK, RestOK,
        pools, users, bounds
  <2> QED BY <2>2, <2>3, <2>4, TypePartsNext
<1>6. CASE HandDisconnect(t, c)
  <2>1. OpsOK'
    BY <1>0, <1>6, UnpostType DEF HandDisconnect, OpKinds
  <2>2. CtxOK' /\ returned' \in Seq(Contexts)
    <3>1. PICK s \in {ctx[c].sock, "invalid"} : Put(c, s)
      BY <1>6 DEF HandDisconnect
    <3>2. s \in {"invalid", "idle", "conn"}
      BY <1>1, <3>1 DEF SocketContext
    <3> QED BY <1>0, <3>1, <3>2, PutType DEF RestOK
  <2>3. ThrOK' /\ RestOK'
    BY <1>0, <1>6, <2>2
    DEF HandDisconnect, ThrOK, RestOK, users, bounds
  <2> QED BY <2>1, <2>2, <2>3, TypePartsNext
<1> QED BY <1>3, <1>4, <1>5, <1>6 DEF Dispatch

\* An application thread calls, or a peer closes its end.
LEMMA EnvironmentType ==
  ASSUME TypeOK,
         \/ \E t \in Apps, k \in Keys : Send(t, k) \/ Disconnect(t, k)
         \/ \E c \in Contexts : PeerCloses(c)
  PROVE  TypeOK'
<1>0. CtxOK /\ OpsOK /\ ThrOK /\ RestOK
  BY TypeParts
<1>1. ASSUME NEW t \in Apps, NEW k \in Keys, NEW pc \in {"PackSendData", "ReCycle"},
             Call(t, k, pc)
      PROVE  TypeOK'
  <2>1. ThrOK'
    <3>1. \/ UNCHANGED thr
          \/ Find(k) # NoCtx /\ Enter(t, Find(k), pc, "idle")
      BY <1>1 DEF Call
    <3>2. UNCHANGED thr => ThrOK'
      BY <1>0 DEF ThrOK
    <3>3. Find(k) # NoCtx => Find(k) \in Contexts
      BY <1>0 DEF RestOK, Find
    <3> QED BY <1>0, <3>1, <3>2, <3>3, EnterType DEF Steps, Threads
  <2>2. calls' \in 0..MaxCalls
    BY <1>0, <1>1, BoundAssumption DEF Call, RestOK
  <2>3. CtxOK' /\ OpsOK' /\ RestOK'
    BY <1>0, <1>1, <2>2 DEF Call, CtxOK, OpsOK, RestOK, pools, users
  <2> QED BY <2>1, <2>3, TypePartsNext
<1>2. ASSUME NEW c \in Contexts, PeerCloses(c) PROVE TypeOK'
  <2>1. [ctx[c] EXCEPT !.gone = TRUE] \in SocketContext
    BY <1>0 DEF CtxOK, SocketContext
  <2>2. CtxOK'
    BY <1>0, <1>2, <2>1 DEF PeerCloses, CtxOK
  <2>3. OpsOK' /\ ThrOK' /\ RestOK'
    BY <1>0, <1>2
    DEF PeerCloses, OpsOK, ThrOK, RestOK, pools, users, bounds
  <2> QED BY <2>2, <2>3, TypePartsNext
<1> QED BY <1>1, <1>2 DEF Send, Disconnect

LEMMA StutterType == TypeOK /\ UNCHANGED vars => TypeOK'
BY TypeParts, TypePartsNext DEF vars, CtxOK, OpsOK, ThrOK, RestOK

\* TypeOK is an invariant: in particular no thread ever works on a null context.
THEOREM TypeCorrect == Spec => []TypeOK
<1>1. TypeOK /\ [Next]_vars => TypeOK'
  BY StepType, DispatchType, EnvironmentType, StutterType DEF Next
<1> QED BY <1>1, InitType, PTL DEF Spec

-----------------------------------------------------------------------------
\* The pool.  The strengthening: the two parts of unused_list_ are disjoint.

PoolInv ==
  /\ PoolExact
  /\ \A i \in 1..Len(returned) : returned[i] \notin fresh

\* Most steps leave the pool and the using_list_ alone.
LEMMA PoolSame ==
  ASSUME PoolInv, UNCHANGED <<fresh, returned>>,
         \A c \in Contexts : ctx'[c].inUse = ctx[c].inUse
  PROVE  PoolInv'
BY DEF PoolInv, PoolExact

\* put: a context in use goes to the end, any other is refused.
LEMMA PutPool ==
  ASSUME TypeOK, PoolInv, NEW c \in Contexts, NEW s, Put(c, s), fresh' = fresh
  PROVE  PoolInv'
<1>1. /\ ctx' = [ctx EXCEPT ![c].sock = s, ![c].inUse = FALSE]
      /\ returned' = IF ctx[c].inUse THEN Append(returned, c) ELSE returned
  BY DEF Put
<1>2. /\ ctx \in [Contexts -> SocketContext] /\ returned \in Seq(Contexts)
  BY DEF TypeOK
<1>3. \A d \in Contexts : ctx'[d].inUse = IF d = c THEN FALSE ELSE ctx[d].inUse
  BY <1>1, <1>2 DEF SocketContext
<1>4. CASE ~ctx[c].inUse
  <2>1. \A d \in Contexts : ctx'[d].inUse <=> ctx[d].inUse
    BY <1>3, <1>4
  <2>2. returned' = returned
    BY <1>1, <1>4
  <2> QED
    BY <2>1, <2>2 DEF PoolInv, PoolExact
<1>5. CASE ctx[c].inUse
  <2>1. returned' = Append(returned, c)
    BY <1>1, <1>5
  <2>2. /\ Len(returned) \in Nat /\ Len(returned') = Len(returned) + 1
        /\ \A i \in 1..Len(returned) : returned'[i] = returned[i]
        /\ returned'[Len(returned) + 1] = c
    BY <1>2, <2>1
  <2>3. c \notin fresh /\ \A i \in 1..Len(returned) : returned[i] # c
    BY <1>5 DEF PoolInv, PoolExact
  <2>4. \A i, j \in 1..Len(returned') : returned'[i] = returned'[j] => i = j
    BY <2>2, <2>3 DEF PoolInv, PoolExact
  <2>5. \A i \in 1..Len(returned') : returned'[i] \notin fresh'
    BY <2>2, <2>3 DEF PoolInv
  <2>6. \A d \in Contexts :
          ctx'[d].inUse <=> /\ d \notin fresh'
                            /\ \A i \in 1..Len(returned') : returned'[i] # d
    <3> SUFFICES ASSUME NEW d \in Contexts
                 PROVE  ctx'[d].inUse <=>
                          /\ d \notin fresh'
                          /\ \A i \in 1..Len(returned') : returned'[i] # d
      OBVIOUS
    <3>1. CASE d = c
      <4>1. Len(returned) + 1 \in 1..Len(returned')
        BY <2>2
      <4> QED
        BY <1>3, <2>2, <3>1, <4>1
    <3>2. CASE d # c
      <4>1. (\A i \in 1..Len(returned') : returned'[i] # d)
              <=> \A i \in 1..Len(returned) : returned[i] # d
        BY <2>2, <3>2
      <4> QED
        BY <1>3, <3>2, <4>1 DEF PoolInv, PoolExact
    <3> QED
      BY <3>1, <3>2
  <2> QED
    BY <2>4, <2>5, <2>6 DEF PoolInv, PoolExact
<1> QED
  BY <1>4, <1>5

\* get: the context taken leaves the pool and is in use.
LEMMA GetPool ==
  ASSUME TypeOK, PoolInv, NEW c \in Contexts, NEW r,
         ctx' = [ctx EXCEPT ![c] = r], r.inUse = TRUE,
         \/ /\ c \in fresh /\ fresh' = fresh \ {c}
            /\ returned' = returned
         \/ /\ fresh = {} /\ fresh' = fresh
            /\ returned # <<>> /\ c = Head(returned) /\ returned' = Tail(returned)
  PROVE  PoolInv'
<1>1. \A d \in Contexts : ctx'[d].inUse = IF d = c THEN TRUE ELSE ctx[d].inUse
  BY DEF TypeOK
<1>2. returned \in Seq(Contexts) /\ Len(returned) \in Nat
  BY DEF TypeOK
<1>3. CASE c \in fresh /\ fresh' = fresh \ {c} /\ returned' = returned
  <2>1. \A i \in 1..Len(returned) : returned[i] # c
    BY <1>3 DEF PoolInv
  <2>2. \A d \in Contexts :
          ctx'[d].inUse <=> /\ d \notin fresh'
                            /\ \A i \in 1..Len(returned) : returned[i] # d
    BY <1>1, <1>3, <2>1 DEF PoolInv, PoolExact
  <2> QED
    BY <1>3, <2>2 DEF PoolInv, PoolExact
<1>4. CASE /\ fresh = {} /\ fresh' = fresh
           /\ returned # <<>> /\ c = Head(returned) /\ returned' = Tail(returned)
  <2>1. /\ c = returned[1] /\ 1 \in 1..Len(returned)
        /\ Len(returned') = Len(returned) - 1
        /\ \A i \in 1..Len(returned') : returned'[i] = returned[i + 1]
    BY <1>2, <1>4
  <2>2. \A i \in 1..Len(returned') : i + 1 \in 1..Len(returned) /\ i + 1 # 1
    BY <1>2, <2>1
  <2>3. \A i, j \in 1..Len(returned') : returned'[i] = returned'[j] => i = j
    BY <2>1, <2>2 DEF PoolInv, PoolExact
  <2>4. \A i \in 1..Len(returned') : returned'[i] # c
    BY <2>1, <2>2 DEF PoolInv, PoolExact
  <2>5. \A d \in Contexts : d # c =>
          ((\A i \in 1..Len(returned') : returned'[i] # d)
             <=> \A i \in 1..Len(returned) : returned[i] # d)
    <3> SUFFICES ASSUME NEW d \in Contexts, d # c
                 PROVE  (\A i \in 1..Len(returned') : returned'[i] # d)
                          <=> \A i \in 1..Len(returned) : returned[i] # d
      OBVIOUS
    <3>1. ASSUME NEW i \in 1..Len(returned), i # 1
          PROVE  i - 1 \in 1..Len(returned') /\ returned'[i - 1] = returned[i]
      BY <1>2, <2>1, <3>1
    <3>2. ASSUME \A i \in 1..Len(returned) : returned[i] # d
          PROVE  \A i \in 1..Len(returned') : returned'[i] # d
      BY <2>1, <2>2, <3>2
    <3>3. ASSUME \A i \in 1..Len(returned') : returned'[i] # d,
                 NEW i \in 1..Len(returned)
          PROVE  returned[i] # d
      <4>1. CASE i = 1
        BY <2>1, <4>1
      <4>2. CASE i # 1
        BY <3>1, <3>3, <4>2
      <4> QED BY <4>1, <4>2
    <3> QED
      BY <3>2, <3>3
  <2> QED
    BY <1>1, <1>4, <2>3, <2>4, <2>5 DEF PoolInv, PoolExact
<1> QED
  BY <1>3, <1>4

LEMMA InitPool == Init => PoolInv
<1> SUFFICES ASSUME Init PROVE PoolInv
  OBVIOUS
<1>1. PICK posted \in SUBSET Contexts :
        /\ fresh = Contexts \ posted
        /\ \A c \in Contexts : ctx[c].inUse <=> c \in posted
  <2>1. PICK first \in [1..MaxAccept -> Contexts] :
          LET key(c) == CHOOSE k \in 1..MaxAccept : first[k] = c
              posted == {first[k] : k \in 1..MaxAccept}
          IN /\ ctx = [c \in Contexts |->
                         IF c \in posted
                         THEN Accepting(key(c)) ELSE NewContext]
             /\ fresh = Contexts \ posted
    BY DEF Init
  <2> DEFINE posted == {first[k] : k \in 1..MaxAccept}
             key(c) == CHOOSE k \in 1..MaxAccept : first[k] = c
  <2>2. posted \in SUBSET Contexts
    OBVIOUS
  <2>3. /\ \A c \in Contexts : ctx[c] = IF c \in posted
                                       THEN Accepting(key(c)) ELSE NewContext
        /\ fresh = Contexts \ posted
    BY <2>1
  <2>4. \A c \in Contexts : Accepting(key(c)).inUse = TRUE
    BY DEF Accepting
  <2>5. NewContext.inUse = FALSE
    BY DEF NewContext
  <2> HIDE DEF posted, key
  <2> QED
    BY <2>2, <2>3, <2>4, <2>5
<1>2. returned = <<>> /\ 1..Len(returned) = {}
  BY DEF Init
<1> QED
  BY <1>1, <1>2 DEF PoolInv, PoolExact

\* A store to any field but the pool's own.
LEMMA KeepInUse ==
  ASSUME ctx \in [Contexts -> SocketContext], NEW x \in Contexts, NEW v, NEW w,
         \/ ctx' = ctx
         \/ ctx' = [ctx EXCEPT ![x].sock = v]
         \/ ctx' = [ctx EXCEPT ![x].op = v]
         \/ ctx' = [ctx EXCEPT ![x].q = v]
         \/ ctx' = [ctx EXCEPT ![x].flag = v]
         \/ ctx' = [ctx EXCEPT ![x].gone = v]
         \/ ctx' = [ctx EXCEPT ![x].sock = v, ![x].op = w]
  PROVE  \A c \in Contexts : ctx'[c].inUse = ctx[c].inUse
<1>1. ctx[x] \in SocketContext
  OBVIOUS
<1>2. /\ [ctx[x] EXCEPT !.sock = v].inUse = ctx[x].inUse
      /\ [ctx[x] EXCEPT !.op = v].inUse = ctx[x].inUse
      /\ [ctx[x] EXCEPT !.q = v].inUse = ctx[x].inUse
      /\ [ctx[x] EXCEPT !.flag = v].inUse = ctx[x].inUse
      /\ [ctx[x] EXCEPT !.gone = v].inUse = ctx[x].inUse
      /\ [ctx[x] EXCEPT !.sock = v, !.op = w].inUse = ctx[x].inUse
  BY <1>1 DEF SocketContext
<1>3. ctx'[x].inUse = ctx[x].inUse
  <2>1. CASE ctx' = ctx
    BY <2>1
  <2>2. CASE ctx' = [ctx EXCEPT ![x].sock = v]
    BY <1>2, <2>2
  <2>3. CASE ctx' = [ctx EXCEPT ![x].op = v]
    BY <1>2, <2>3
  <2>4. CASE ctx' = [ctx EXCEPT ![x].q = v]
    BY <1>2, <2>4
  <2>5. CASE ctx' = [ctx EXCEPT ![x].flag = v]
    BY <1>2, <2>5
  <2>6. CASE ctx' = [ctx EXCEPT ![x].gone = v]
    BY <1>2, <2>6
  <2>7. CASE ctx' = [ctx EXCEPT ![x].sock = v, ![x].op = w]
    BY <1>2, <2>7
  <2> QED
    BY <2>1, <2>2, <2>3, <2>4, <2>5, <2>6, <2>7
<1>4. \A c \in Contexts \ {x} : ctx'[c] = ctx[c]
  OBVIOUS
<1> QED BY <1>3, <1>4

LEMMA StepPool ==
  ASSUME TypeOK, PoolInv, NEW t \in Threads, Step(t)
  PROVE  PoolInv'
<1>1. CASE \/ AddUser(t) \/ PostReceive(t) \/ HandData(t) \/ WSASend(t)
           \/ ReCycle(t) \/ DeleteUser(t) \/ CheckFlag(t) \/ Erase(t)
  <2>1. UNCHANGED <<ctx, fresh, returned>>
    BY <1>1 DEF AddUser, PostReceive, HandData, WSASend, ReCycle, DeleteUser,
                CheckFlag, Erase, pools
  <2> QED BY <2>1, PoolSame
<1>2. CASE \/ AcceptEx(t) \/ Receive(t) \/ PackSendData(t) \/ PostSend(t)
           \/ SetOne(t) \/ CleanQueue(t) \/ SetTwo(t)
  <2>1. UNCHANGED <<fresh, returned>>
    BY <1>2 DEF AcceptEx, Receive, PackSendData, PostSend, SetOne, CleanQueue,
                SetTwo, pools
  <2>2. thr[t].c \in Contexts
    BY <1>2 DEF AcceptEx, Receive, PackSendData, PostSend, SetOne, CleanQueue,
                SetTwo, At, TypeOK
  <2> DEFINE x == thr[t].c
             Same == \A c \in Contexts : ctx'[c].inUse = ctx[c].inUse
  <2>3. ctx \in [Contexts -> SocketContext]
    BY DEF TypeOK
  <2>4. AcceptEx(t) => Same
    <3> SUFFICES ASSUME AcceptEx(t) PROVE Same
      OBVIOUS
    <3>1. \/ ctx' = [ctx EXCEPT ![x].sock = "idle", ![x].op = "accept"]
          \/ ctx' = [ctx EXCEPT ![x].sock = "invalid"]
      BY DEF AcceptEx
    <3> QED BY <2>2, <2>3, <3>1, KeepInUse
  <2>5. Receive(t) => Same
    <3> SUFFICES ASSUME Receive(t) PROVE Same
      OBVIOUS
    <3>1. ctx' = [ctx EXCEPT ![x].op = "recv"]
      BY DEF Receive
    <3> QED BY <2>2, <2>3, <3>1, KeepInUse
  <2>6. PackSendData(t) \/ PostSend(t) \/ CleanQueue(t) => Same
    <3> SUFFICES ASSUME PackSendData(t) \/ PostSend(t) \/ CleanQueue(t) PROVE Same
      OBVIOUS
    <3>1. \/ ctx' = ctx
          \/ ctx' = [ctx EXCEPT ![x].q = ctx[x].q + Pieces]
          \/ ctx' = [ctx EXCEPT ![x].q = ctx[x].q - 1]
          \/ ctx' = [ctx EXCEPT ![x].q = 0]
      BY DEF PackSendData, PostSend, CleanQueue
    <3> QED BY <2>2, <2>3, <3>1, KeepInUse
  <2>7. SetOne(t) \/ SetTwo(t) => Same
    <3> SUFFICES ASSUME SetOne(t) \/ SetTwo(t) PROVE Same
      OBVIOUS
    <3>1. \/ ctx' = [ctx EXCEPT ![x].flag = 1]
          \/ ctx' = [ctx EXCEPT ![x].flag = 2]
      BY DEF SetOne, SetTwo, SetFlag
    <3> QED BY <2>2, <2>3, <3>1, KeepInUse
  <2>10. \A c \in Contexts : ctx'[c].inUse = ctx[c].inUse
    BY <1>2, <2>4, <2>5, <2>6, <2>7
  <2> QED BY <2>1, <2>10, PoolSame
<1>3. CASE PostAcceptEx(t)
  <2>1. PICK c \in Contexts :
          /\ \/ /\ c \in fresh
                /\ fresh' = fresh \ {c}
                /\ UNCHANGED <<returned, reused>>
             \/ /\ fresh = {}
                /\ returned # <<>>
                /\ c = Head(returned)
                /\ returned' = Tail(returned)
                /\ reused' = TRUE
                /\ UNCHANGED fresh
          /\ ctx' = [ctx EXCEPT ![c] = [NewContext EXCEPT !.key = uUserNum,
                       !.sock = ctx[c].sock, !.q = ctx[c].q, !.inUse = TRUE]]
    BY <1>3 DEF PostAcceptEx
  <2>2. [NewContext EXCEPT !.key = uUserNum, !.sock = ctx[c].sock,
                           !.q = ctx[c].q, !.inUse = TRUE].inUse = TRUE
    BY DEF NewContext
  <2> QED BY <2>1, <2>2, GetPool
<1>4. CASE AcceptFailed(t)
  <2>1. Put(thr[t].c, Ctx(t).sock) /\ fresh' = fresh
    BY <1>4 DEF AcceptFailed
  <2>2. thr[t].c \in Contexts
    BY <1>4 DEF AcceptFailed, At, TypeOK
  <2> QED BY <2>1, <2>2, PutPool
<1>5. CASE DisconnectEx(t)
  <2>1. thr[t].c \in Contexts /\ fresh' = fresh
    BY <1>5 DEF DisconnectEx, At, TypeOK
  <2>2. CASE Put(thr[t].c, "invalid")
    BY <2>1, <2>2, PutPool
  <2>3. CASE /\ ctx' = [ctx EXCEPT ![thr[t].c].sock = "idle"]
             /\ UNCHANGED returned
    <3>1. \A c \in Contexts : ctx'[c].inUse = ctx[c].inUse
      BY <2>1, <2>3 DEF TypeOK, SocketContext
    <3> QED BY <2>1, <2>3, <3>1, PoolSame
  <2> QED BY <1>5, <2>2, <2>3 DEF DisconnectEx
<1> QED BY <1>1, <1>2, <1>3, <1>4, <1>5 DEF Step

LEMMA OtherPool ==
  ASSUME TypeOK, PoolInv,
         \/ \E t \in Workers, c \in Contexts : Dispatch(t, c)
         \/ \E t \in Apps, k \in Keys : Send(t, k) \/ Disconnect(t, k)
         \/ \E c \in Contexts : PeerCloses(c)
  PROVE  PoolInv'
<1>1. ASSUME NEW t \in Workers, NEW c \in Contexts, Dispatch(t, c)
      PROVE  PoolInv'
  <2>1. ASSUME NEW kind \in Embedded,
               HandAccept(t, c, kind) \/ HandAcceptError(t, c, kind)
        PROVE  PoolInv'
    <3>1. UNCHANGED <<fresh, returned>>
      BY <2>1 DEF HandAccept, HandAcceptError, pools
    <3>2. ctx' = ctx \/ ctx' = [ctx EXCEPT ![c].sock = "conn"]
      BY <2>1 DEF HandAccept, HandAcceptError
    <3>3. \A d \in Contexts : ctx'[d].inUse = ctx[d].inUse
      BY <3>2, KeepInUse DEF TypeOK
    <3> QED BY <3>1, <3>3, PoolSame
  <2>2. CASE HandReceiveData(t, c) \/ HandReceiveEnd(t, c) \/ HandSend(t, c)
    <3>1. UNCHANGED <<ctx, fresh, returned>>
      BY <2>2 DEF HandReceiveData, HandReceiveEnd, HandSend, pools
    <3> QED BY <3>1, PoolSame
  <2>3. CASE HandDisconnect(t, c)
    BY <2>3, PutPool DEF HandDisconnect
  <2> QED BY <1>1, <2>1, <2>2, <2>3 DEF Dispatch
<1>2. ASSUME NEW t \in Apps, NEW k \in Keys, Send(t, k) \/ Disconnect(t, k)
      PROVE  PoolInv'
  BY <1>2, PoolSame DEF Send, Disconnect, Call, pools
<1>3. ASSUME NEW c \in Contexts, PeerCloses(c)
      PROVE  PoolInv'
  <2>1. \A d \in Contexts : ctx'[d].inUse = ctx[d].inUse
    BY <1>3, KeepInUse DEF PeerCloses, TypeOK
  <2> QED BY <1>3, <2>1, PoolSame DEF PeerCloses, pools
<1> QED BY <1>1, <1>2, <1>3

\* PoolExact is an invariant, reuse or not: teardowns that overtake each other
\* never put one context into the pool twice.
THEOREM PoolStaysExact == Spec => []PoolExact
<1>1. TypeOK /\ PoolInv /\ [Next]_vars => PoolInv'
  <2>1. TypeOK /\ PoolInv /\ UNCHANGED vars => PoolInv'
    BY PoolSame DEF vars
  <2> QED BY <2>1, StepPool, OtherPool DEF Next
<1>2. PoolInv => PoolExact
  BY DEF PoolInv
<1> QED BY <1>1, <1>2, InitPool, TypeCorrect, PTL DEF Spec-----------------------------------------------------------------------------
\* The first life of every context: what holds until a context is handed out a
\* second time.

\* A context that was never handed out has nothing on it; one that was has a
\* key of its own, and is listed under no other.
FirstLife ==
  /\ \A c \in fresh :
       /\ ctx[c] = NewContext
       /\ \A kind \in OpKinds : ops[c][kind] = 0
       /\ \A t \in Threads : thr[t].c # c
  /\ \A c \in Contexts \ fresh : ctx[c].key > 0 /\ ctx[c].key < uUserNum
  /\ \A c, d \in Contexts \ fresh : ctx[c].key = ctx[d].key => c = d
  /\ \A k \in Keys : listing[k] # NoCtx =>
       listing[k] \notin fresh /\ ctx[listing[k]].key = k
  /\ \A k \in added : k > 0 /\ k < uUserNum

\* A thread outside a call holds nothing; one that posts an accept goes on
\* with nothing else.
Positions ==
  /\ \A t \in Threads : thr[t].pc \in {"idle", "PostAcceptEx"} =>
       thr[t].c = NoCtx /\ thr[t].next = "idle"
  /\ \A t \in Threads : thr[t].pc = "AcceptEx" => thr[t].next = "idle"

\* The application is told of a connection after its accept and before
\* anything else is done with it.
Told ==
  /\ \A c \in Contexts : ops[c].accept > 0 => ctx[c].op = "accept" /\ ctx[c].key \notin added
  /\ \A c \in Contexts : ops[c].recv > 0 => ctx[c].op = "recv" /\ ctx[c].key \in added
  /\ \A c \in Contexts : ops[c].send > 0 => ctx[c].key \in added
  /\ \A t \in Threads : thr[t].pc \in {"AcceptEx", "AddUser"} => ctx[thr[t].c].key \notin added
  /\ \A t \in Threads :
       thr[t].pc \notin {"idle", "PostAcceptEx", "AcceptEx", "AcceptFailed", "AddUser"} =>
         ctx[thr[t].c].key \in added
  /\ deleted \subseteq added

\* ReceiveExclusive, ReceiveAlive and AcceptSlots of a first life.
Exclusive ==
  \A c \in Contexts :
    /\ PostedReceives(c) <= 1
    /\ PostedReceives(c) = 1 => Receivers(c) = {}
    /\ \A t, u \in Receivers(c) : t = u

Closers(c) == {t \in Threads : thr[t].c = c /\ thr[t].pc \in {"ReCycle", "SetOne"}}

Alive ==
  \A c \in Contexts : ctx[c].key \in added /\ ctx[c].flag = 0 =>
    PostedReceives(c) > 0 \/ Receivers(c) # {} \/ Closers(c) # {}

Accepts == {c \in Contexts : ops[c].accept > 0}
Posters == {t \in Threads : \/ thr[t].next = "PostAcceptEx"
                            \/ thr[t].pc \in {"PostAcceptEx", "AcceptEx"}}

Slots ==
  /\ IsFiniteSet(Accepts) /\ IsFiniteSet(Posters)
  /\ Cardinality(Accepts) + Cardinality(Posters) + lostSlots = MaxAccept

LifeInv == FirstLife /\ Positions /\ Told /\ Exclusive /\ Alive /\ Slots

-----------------------------------------------------------------------------
\* What a step does to its own thread, field by field.

LEMMA GotoFields ==
  ASSUME thr \in [Threads -> Thread], NEW t \in Threads, NEW pc, Goto(t, pc)
  PROVE  /\ thr'[t].pc = pc /\ thr'[t].c = thr[t].c /\ thr'[t].next = thr[t].next
         /\ \A u \in Threads \ {t} : thr'[u] = thr[u]
<1>1. thr[t] \in Thread
  OBVIOUS
<1>2. thr'[t] = [thr[t] EXCEPT !.pc = pc]
  BY DEF Goto
<1> QED
  BY <1>1, <1>2 DEF Goto, Thread

LEMMA ReturnFields ==
  ASSUME thr \in [Threads -> Thread], NEW t \in Threads, Return(t)
  PROVE  /\ thr'[t].pc = thr[t].next /\ thr'[t].c = NoCtx /\ thr'[t].next = "idle"
         /\ thr'[t].pc \in {"idle", "PostAcceptEx"}
         /\ \A u \in Threads \ {t} : thr'[u] = thr[u]
<1>1. thr[t] \in Thread
  OBVIOUS
<1>2. thr'[t] = [Idle EXCEPT !.pc = thr[t].next]
  BY DEF Return
<1>3. thr[t].next \in {"idle", "PostAcceptEx"}
  BY <1>1 DEF Thread
<1> QED
  BY <1>2, <1>3 DEF Return, Idle

LEMMA EnterFields ==
  ASSUME thr \in [Threads -> Thread], NEW t \in Threads, NEW c, NEW pc, NEW next,
         Enter(t, c, pc, next)
  PROVE  /\ thr'[t].pc = pc /\ thr'[t].c = c /\ thr'[t].next = next
         /\ \A u \in Threads \ {t} : thr'[u] = thr[u]
BY DEF Enter

\* A thread outside a call is at one of two steps.
LEMMA InsideCall ==
  ASSUME TypeOK, NEW t \in Threads, thr[t].pc \notin {"idle", "PostAcceptEx"}
  PROVE  thr[t].c \in Contexts /\ thr[t].c # NoCtx /\ ctx[thr[t].c] \in SocketContext
BY NoCtxAssumption DEF TypeOK

LEMMA OpsFields ==
  ASSUME TypeOK, NEW c \in Contexts
  PROVE  ops[c].accept \in Nat /\ ops[c].recv \in Nat /\ ops[c].send \in Nat /\ ops[c].disc \in Nat
<1>1. ops[c] \in [OpKinds -> Nat]
  BY DEF TypeOK
<1> QED
  BY <1>1 DEF OpKinds

LEMMA PostFields ==
  ASSUME TypeOK, NEW c \in Contexts, NEW kind \in OpKinds, Post(c, kind)
  PROVE  /\ \A d \in Contexts \ {c} : ops'[d] = ops[d]
         /\ \A k \in OpKinds : ops'[c][k] = IF k = kind THEN ops[c][k] + 1 ELSE ops[c][k]
<1>1. ops[c] \in [OpKinds -> Nat] /\ ops \in [Contexts -> [OpKinds -> Nat]]
  BY DEF TypeOK
<1>2. ops'[c] = [ops[c] EXCEPT ![kind] = @ + 1]
  BY <1>1 DEF Post
<1> QED
  BY <1>1, <1>2 DEF Post

LEMMA UnpostFields ==
  ASSUME TypeOK, NEW c \in Contexts, NEW kind \in OpKinds, Unpost(c, kind)
  PROVE  /\ \A d \in Contexts \ {c} : ops'[d] = ops[d]
         /\ \A k \in OpKinds : ops'[c][k] = IF k = kind THEN ops[c][k] - 1 ELSE ops[c][k]
<1>1. ops[c] \in [OpKinds -> Nat] /\ ops \in [Contexts -> [OpKinds -> Nat]]
  BY DEF TypeOK
<1>2. ops'[c] = [ops[c] EXCEPT ![kind] = @ - 1]
  BY <1>1 DEF Unpost
<1> QED
  BY <1>1, <1>2 DEF Unpost

\* A slot is an accept that is posted, or a thread that will post one.
LEMMA SlotMoves ==
  ASSUME Slots, lostSlots \in Nat,
         \/ /\ Accepts' = Accepts /\ Posters' = Posters /\ lostSlots' = lostSlots
         \/ \E c, t : /\ c \in Accepts /\ Accepts' = Accepts \ {c}
                      /\ t \notin Posters /\ Posters' = Posters \cup {t}
                      /\ lostSlots' = lostSlots
         \/ \E c : /\ c \in Accepts /\ Accepts' = Accepts \ {c}
                   /\ Posters' = Posters
                   /\ lostSlots' = lostSlots + 1
         \/ \E c, t : /\ c \notin Accepts /\ Accepts' = Accepts \cup {c}
                      /\ t \in Posters /\ Posters' = Posters \ {t}
                      /\ lostSlots' = lostSlots
         \/ \E t : /\ Accepts' = Accepts
                   /\ t \in Posters /\ Posters' = Posters \ {t}
                   /\ lostSlots' = lostSlots + 1
  PROVE  Slots'
<1> DEFINE Sum(A, P, n) == /\ IsFiniteSet(A) /\ IsFiniteSet(P)
                           /\ Cardinality(A) + Cardinality(P) + n = MaxAccept
<1>1. Sum(Accepts, Posters, lostSlots)
  BY DEF Slots
<1>2. Cardinality(Accepts) \in Nat /\ Cardinality(Posters) \in Nat
  BY <1>1, FS_CardinalityType
<1>3. \A c \in Accepts : /\ IsFiniteSet(Accepts \ {c})
                         /\ Cardinality(Accepts \ {c}) = Cardinality(Accepts) - 1
  BY <1>1, FS_RemoveElement
<1>4. \A c : c \notin Accepts => /\ IsFiniteSet(Accepts \cup {c})
                                 /\ Cardinality(Accepts \cup {c}) = Cardinality(Accepts) + 1
  BY <1>1, FS_AddElement
<1>5. \A t \in Posters : /\ IsFiniteSet(Posters \ {t})
                         /\ Cardinality(Posters \ {t}) = Cardinality(Posters) - 1
  BY <1>1, FS_RemoveElement
<1>6. \A t : t \notin Posters => /\ IsFiniteSet(Posters \cup {t})
                                 /\ Cardinality(Posters \cup {t}) = Cardinality(Posters) + 1
  BY <1>1, FS_AddElement
<1> SUFFICES Sum(Accepts', Posters', lostSlots')
  BY DEF Slots
<1>7. CASE /\ Accepts' = Accepts /\ Posters' = Posters /\ lostSlots' = lostSlots
  BY <1>1, <1>7
<1>8. CASE \E c, t : /\ c \in Accepts /\ Accepts' = Accepts \ {c}
                     /\ t \notin Posters /\ Posters' = Posters \cup {t}
                     /\ lostSlots' = lostSlots
  <2>1. PICK c, t : /\ c \in Accepts /\ Accepts' = Accepts \ {c}
                    /\ t \notin Posters /\ Posters' = Posters \cup {t}
    BY <1>8
  <2>2. IsFiniteSet(Accepts') /\ Cardinality(Accepts') = Cardinality(Accepts) - 1
    BY <1>3, <2>1
  <2>3. IsFiniteSet(Posters') /\ Cardinality(Posters') = Cardinality(Posters) + 1
    BY <1>6, <2>1
  <2>4. lostSlots' = lostSlots
    BY <1>8
  <2> QED
    BY <1>1, <1>2, <2>2, <2>3, <2>4
<1>9. CASE \E c : /\ c \in Accepts /\ Accepts' = Accepts \ {c}
                  /\ Posters' = Posters
                  /\ lostSlots' = lostSlots + 1
  <2>1. PICK c \in Accepts : Accepts' = Accepts \ {c}
    BY <1>9
  <2>2. IsFiniteSet(Accepts') /\ Cardinality(Accepts') = Cardinality(Accepts) - 1
    BY <1>3, <2>1
  <2>3. Posters' = Posters /\ lostSlots' = lostSlots + 1
    BY <1>9
  <2> QED
    BY <1>1, <1>2, <2>2, <2>3
<1>10. CASE \E c, t : /\ c \notin Accepts /\ Accepts' = Accepts \cup {c}
                      /\ t \in Posters /\ Posters' = Posters \ {t}
                      /\ lostSlots' = lostSlots
  <2>1. PICK c, t : /\ c \notin Accepts /\ Accepts' = Accepts \cup {c}
                    /\ t \in Posters /\ Posters' = Posters \ {t}
    BY <1>10
  <2>2. IsFiniteSet(Accepts') /\ Cardinality(Accepts') = Cardinality(Accepts) + 1
    BY <1>4, <2>1
  <2>3. IsFiniteSet(Posters') /\ Cardinality(Posters') = Cardinality(Posters) - 1
    BY <1>5, <2>1
  <2>4. lostSlots' = lostSlots
    BY <1>10
  <2> QED
    BY <1>1, <1>2, <2>2, <2>3, <2>4
<1>11. CASE \E t : /\ Accepts' = Accepts
                   /\ t \in Posters /\ Posters' = Posters \ {t}
                   /\ lostSlots' = lostSlots + 1
  <2>1. PICK t \in Posters : Posters' = Posters \ {t}
    BY <1>11
  <2>2. IsFiniteSet(Posters') /\ Cardinality(Posters') = Cardinality(Posters) - 1
    BY <1>5, <2>1
  <2>3. Accepts' = Accepts /\ lostSlots' = lostSlots + 1
    BY <1>11
  <2> QED
    BY <1>1, <1>2, <2>2, <2>3
<1> QED
  BY <1>7, <1>8, <1>9, <1>10, <1>11

-----------------------------------------------------------------------------
\* The steps of a thread on the context of its call, once the application has
\* been told of it, or after its accept has failed.
LEMMA InnerStep ==
  ASSUME TypeOK, TypeOK', LifeInv, NEW t \in Threads, NEW c \in Contexts, thr[t].c = c,
         thr[t].pc \notin {"idle", "PostAcceptEx", "AcceptEx", "AddUser"},
         UNCHANGED <<fresh, uUserNum, added, lostSlots>>,
         deleted' \subseteq added,
         \A u \in Threads \ {t} : thr'[u] = thr[u],
         \/ /\ thr[t].pc # "AcceptFailed"
            /\ thr'[t].pc \notin {"idle", "PostAcceptEx", "AcceptEx", "AcceptFailed", "AddUser"}
            /\ thr'[t].c = c /\ thr'[t].next = thr[t].next
         \/ /\ thr'[t].pc = thr[t].next /\ thr'[t].pc \in {"idle", "PostAcceptEx"}
            /\ thr'[t].c = NoCtx /\ thr'[t].next = "idle",
         \A k \in Keys : listing'[k] \in {listing[k], NoCtx},
         \A d \in Contexts \ {c} : ctx'[d] = ctx[d] /\ ops'[d] = ops[d],
         ctx'[c].key = ctx[c].key,
         ctx'[c].flag = 0 => ctx[c].flag = 0,
         ops'[c].accept = ops[c].accept,
         ops'[c].send = ops[c].send \/ thr[t].pc # "AcceptFailed",
         \/ /\ ctx'[c].op = ctx[c].op /\ ops'[c].recv = ops[c].recv
            /\ thr'[t].pc \in ReceivePath => thr[t].pc \in ReceivePath
         \/ /\ thr[t].pc = "Receive" /\ ctx'[c].op = "recv"
            /\ ops'[c].recv = ops[c].recv + 1 /\ thr'[t].c = NoCtx
         \/ /\ thr[t].pc = "Receive" /\ ctx'[c].op = "recv"
            /\ ops'[c].recv = ops[c].recv /\ thr'[t].pc = "ReCycle",
         thr[t].pc \in ReceivePath \cup {"ReCycle", "SetOne"} =>
           \/ ctx'[c].flag # 0
           \/ ops'[c].recv > 0
           \/ thr'[t].pc \in ReceivePath \cup {"ReCycle", "SetOne"}
  PROVE  LifeInv'
<1> USE DEF LifeInv
<1>0. /\ fresh \subseteq Contexts
      /\ listing \in [Keys -> Contexts \cup {NoCtx}]
      /\ \A u \in Threads : thr[u].pc \notin {"idle", "PostAcceptEx"} => thr[u].c \in Contexts
  BY DEF TypeOK
<1>1. c # NoCtx /\ c \notin fresh /\ NoCtx \notin Contexts
  BY NoCtxAssumption DEF FirstLife
<1>2. \A d \in Contexts : ctx'[d].key = ctx[d].key /\ ops'[d].accept = ops[d].accept
  OBVIOUS
<1>3. ops[c].accept \in Nat /\ ops[c].recv \in Nat
  BY OpsFields
<1>4. "Receive" \in ReceivePath /\ "ReCycle" \notin ReceivePath
      /\ {"idle", "PostAcceptEx"} \cap ReceivePath = {}
  BY DEF ReceivePath
<1>5. thr[t].pc = "Receive" => ops[c].accept = 0 /\ ops[c].recv = 0 /\ Receivers(c) = {t}
  <2>1. thr[t].pc = "Receive" => t \in Receivers(c)
    BY <1>4 DEF Receivers
  <2> QED
    BY <1>3, <2>1 DEF Exclusive, PostedReceives
<1>6. FirstLife'
  <2>1. \A d \in fresh' : /\ ctx'[d] = NewContext
                          /\ \A kind \in OpKinds : ops'[d][kind] = 0
                          /\ \A u \in Threads : thr'[u].c # d
    BY <1>0, <1>1 DEF FirstLife
  <2>2. \A k \in Keys : listing'[k] # NoCtx =>
          listing'[k] \notin fresh' /\ ctx'[listing'[k]].key = k
    BY <1>0, <1>2 DEF FirstLife
  <2> QED
    BY <1>2, <2>1, <2>2 DEF FirstLife
<1>7. Positions'
  BY DEF Positions
<1>8. Told'
  <2>1. \A d \in Contexts : ops'[d].accept > 0 => ctx'[d].op = "accept" /\ ctx'[d].key \notin added'
    BY <1>2, <1>5 DEF Told
  <2>2. thr[t].pc # "AcceptFailed" => ctx[c].key \in added
    BY DEF Told
  <2>3. \A d \in Contexts : ops'[d].recv > 0 => ctx'[d].op = "recv" /\ ctx'[d].key \in added'
    BY <1>2, <2>2 DEF Told
  <2>4. \A d \in Contexts : ops'[d].send > 0 => ctx'[d].key \in added'
    BY <1>2, <2>2 DEF Told
  <2>5. \A u \in Threads : thr'[u].pc \notin {"idle", "PostAcceptEx"} => thr'[u].c \in Contexts
    BY DEF TypeOK
  <2>6. \A u \in Threads : thr'[u].pc \in {"AcceptEx", "AddUser"} => ctx'[thr'[u].c].key \notin added'
    BY <1>2, <2>5 DEF Told
  <2>7. \A u \in Threads :
          thr'[u].pc \notin {"idle", "PostAcceptEx", "AcceptEx", "AcceptFailed", "AddUser"} =>
            ctx'[thr'[u].c].key \in added'
    BY <1>2, <2>2, <2>5 DEF Told
  <2> QED
    BY <2>1, <2>3, <2>4, <2>6, <2>7 DEF Told
<1>9. Exclusive'
  <2> SUFFICES ASSUME NEW d \in Contexts
               PROVE  /\ PostedReceives(d)' <= 1
                      /\ PostedReceives(d)' = 1 => Receivers(d)' = {}
                      /\ \A u, v \in Receivers(d)' : u = v
    BY DEF Exclusive
  <2>1. Receivers(d)' = {u \in Threads : thr'[u].c = d /\ thr'[u].pc \in ReceivePath}
    BY DEF Receivers
  <2>2. PostedReceives(d)' = ops'[d].accept + ops'[d].recv
    BY DEF PostedReceives
  <2>3. Receivers(d)' \subseteq Receivers(d)
    BY <1>1, <1>4, <2>1 DEF Receivers
  <2>4. CASE ops'[d].recv = ops[d].recv
    BY <1>2, <2>2, <2>3, <2>4 DEF Exclusive, PostedReceives
  <2>5. CASE ops'[d].recv # ops[d].recv
    <3>1. d = c /\ thr[t].pc = "Receive" /\ ops'[c].recv = ops[c].recv + 1 /\ thr'[t].c = NoCtx
      BY <2>5
    <3>2. Receivers(d)' = {}
      BY <1>1, <1>5, <2>1, <2>3, <3>1
    <3> QED
      BY <1>2, <1>5, <2>2, <3>1, <3>2
  <2> QED
    BY <2>4, <2>5
<1>10. Alive'
  <2> SUFFICES ASSUME NEW d \in Contexts, ctx[d].key \in added, ctx'[d].flag = 0
               PROVE  PostedReceives(d)' > 0 \/ Receivers(d)' # {} \/ Closers(d)' # {}
    BY <1>2 DEF Alive
  <2>1. /\ Receivers(d)' = {u \in Threads : thr'[u].c = d /\ thr'[u].pc \in ReceivePath}
        /\ Closers(d)' = {u \in Threads : thr'[u].c = d /\ thr'[u].pc \in {"ReCycle", "SetOne"}}
        /\ PostedReceives(d)' = ops'[d].accept + ops'[d].recv
    BY DEF Receivers, Closers, PostedReceives
  <2>2. ops[d].accept \in Nat /\ ops[d].recv \in Nat
    BY OpsFields
  <2>3. ctx[d].flag = 0
    OBVIOUS
  <2>4. CASE PostedReceives(d) > 0
    <3>1. ops'[d].recv = ops[d].recv \/ ops'[d].recv = ops[d].recv + 1
      OBVIOUS
    <3> QED
      BY <1>2, <2>1, <2>2, <2>4, <3>1 DEF PostedReceives
  <2>5. ASSUME NEW u \in Threads, thr[u].c = d, thr[u].pc \in ReceivePath \cup {"ReCycle", "SetOne"}
        PROVE  PostedReceives(d)' > 0 \/ Receivers(d)' # {} \/ Closers(d)' # {}
    <3>1. CASE u # t
      BY <2>1, <2>5, <3>1
    <3>2. CASE u = t
      <4>1. d = c
        BY <2>5, <3>2
      <4>2. ops'[c].recv > 0 \/ thr'[t].pc \in ReceivePath \cup {"ReCycle", "SetOne"}
        BY <2>5, <3>2, <4>1
      <4>3. CASE ops'[c].recv > 0
        BY <1>2, <1>3, <2>1, <4>1, <4>3
      <4>4. CASE thr'[t].pc \in ReceivePath \cup {"ReCycle", "SetOne"}
        <5>1. thr'[t].c = c
          BY <1>4, <4>4
        <5> QED
          BY <2>1, <4>1, <4>4, <5>1
      <4> QED
        BY <4>2, <4>3, <4>4
    <3> QED
      BY <3>1, <3>2
  <2> QED
    BY <2>3, <2>4, <2>5 DEF Alive, Receivers, Closers
<1>11. Slots'
  <2>1. Accepts' = Accepts
    BY <1>2 DEF Accepts
  <2>2. Posters' = Posters
    <3>1. \A u \in Threads : u \in Posters' <=> u \in Posters
      BY DEF Posters
    <3> QED
      BY <3>1 DEF Posters
  <2>3. lostSlots \in Nat
    BY DEF TypeOK
  <2> QED
    BY <2>1, <2>2, <2>3, SlotMoves
<1> QED
  BY <1>6, <1>7, <1>8, <1>9, <1>10, <1>11

\* A thread takes up a connection the application has been told of.
LEMMA EnterStep ==
  ASSUME TypeOK, TypeOK', LifeInv, NEW t \in Threads, NEW c \in Contexts,
         thr[t].pc = "idle", ctx[c].key \in added,
         UNCHANGED <<ctx, fresh, listing, uUserNum, added, deleted, lostSlots>>,
         \A u \in Threads \ {t} : thr'[u] = thr[u],
         thr'[t].c = c /\ thr'[t].next = "idle",
         \A d \in Contexts \ {c} : ops'[d] = ops[d],
         ops'[c].accept = ops[c].accept,
         ops'[c].send > 0 => ops[c].send > 0,
         \/ /\ thr'[t].pc \in {"PackSendData", "PostSend", "ReCycle"}
            /\ ops'[c].recv = ops[c].recv
         \/ /\ thr'[t].pc \in {"HandData", "ReCycle"}
            /\ ops[c].recv > 0 /\ ops'[c].recv = ops[c].recv - 1
  PROVE  LifeInv'
<1> USE DEF LifeInv
<1>0. /\ fresh \subseteq Contexts
      /\ listing \in [Keys -> Contexts \cup {NoCtx}]
      /\ \A u \in Threads : thr[u].pc \notin {"idle", "PostAcceptEx"} => thr[u].c \in Contexts
  BY DEF TypeOK
<1>1. c # NoCtx /\ c \notin fresh /\ thr[t].c = NoCtx /\ thr[t].next = "idle"
  <2>1. NewContext.key = 0
    BY DEF NewContext
  <2> QED
    BY <2>1, NoCtxAssumption DEF FirstLife, Positions
<1>2. \A d \in Contexts : ops'[d].accept = ops[d].accept
  OBVIOUS
<1>3. ops[c].accept \in Nat /\ ops[c].recv \in Nat
  BY OpsFields
<1>4. FirstLife'
  <2>1. \A d \in fresh' : /\ ctx'[d] = NewContext
                          /\ \A kind \in OpKinds : ops'[d][kind] = 0
                          /\ \A u \in Threads : thr'[u].c # d
    BY <1>0, <1>1 DEF FirstLife
  <2> QED
    BY <2>1 DEF FirstLife
<1>5. Positions'
  BY DEF Positions
<1>6. Told'
  BY <1>2, <1>3 DEF Told
<1>7. Exclusive'
  <2> SUFFICES ASSUME NEW d \in Contexts
               PROVE  /\ PostedReceives(d)' <= 1
                      /\ PostedReceives(d)' = 1 => Receivers(d)' = {}
                      /\ \A u, v \in Receivers(d)' : u = v
    BY DEF Exclusive
  <2>1. Receivers(d)' = {u \in Threads : thr'[u].c = d /\ thr'[u].pc \in ReceivePath}
    BY DEF Receivers
  <2>2. PostedReceives(d)' = ops'[d].accept + ops'[d].recv
    BY DEF PostedReceives
  <2>3. CASE ops'[d].recv = ops[d].recv
    <3>1. Receivers(d)' \subseteq Receivers(d)
      BY <1>3, <2>1, <2>3 DEF Receivers, ReceivePath
    <3> QED
      BY <1>2, <2>2, <2>3, <3>1 DEF Exclusive, PostedReceives
  <2>4. CASE ops'[d].recv # ops[d].recv
    <3>1. d = c /\ ops[c].recv > 0 /\ ops'[c].recv = ops[c].recv - 1
      BY <2>4
    <3>2. ops[c].accept = 0 /\ ops[c].recv = 1 /\ Receivers(c) = {}
      BY <1>3, <3>1 DEF Exclusive, PostedReceives
    <3>3. Receivers(d)' \subseteq {t}
      BY <2>1, <3>1, <3>2 DEF Receivers
    <3> QED
      BY <1>2, <2>2, <3>1, <3>2, <3>3
  <2> QED
    BY <2>3, <2>4
<1>8. Alive'
  <2> SUFFICES ASSUME NEW d \in Contexts, ctx[d].key \in added, ctx[d].flag = 0
               PROVE  PostedReceives(d)' > 0 \/ Receivers(d)' # {} \/ Closers(d)' # {}
    BY DEF Alive
  <2>1. /\ Receivers(d)' = {u \in Threads : thr'[u].c = d /\ thr'[u].pc \in ReceivePath}
        /\ Closers(d)' = {u \in Threads : thr'[u].c = d /\ thr'[u].pc \in {"ReCycle", "SetOne"}}
        /\ PostedReceives(d)' = ops'[d].accept + ops'[d].recv
    BY DEF Receivers, Closers, PostedReceives
  <2>2. Receivers(d) \subseteq Receivers(d)' /\ Closers(d) \subseteq Closers(d)'
    BY <1>1, <2>1 DEF Receivers, Closers, ReceivePath
  <2>3. CASE ops'[d].recv = ops[d].recv
    BY <1>2, <2>1, <2>2, <2>3 DEF Alive, PostedReceives
  <2>4. CASE ops'[d].recv # ops[d].recv
    <3>1. d = c /\ thr'[t].pc \in {"HandData", "ReCycle"}
      BY <2>4
    <3> QED
      BY <2>1, <3>1 DEF ReceivePath
  <2> QED
    BY <2>3, <2>4
<1>9. Slots'
  <2>1. Accepts' = Accepts
    BY <1>2 DEF Accepts
  <2>2. Posters' = Posters
    <3>1. \A u \in Threads : u \in Posters' <=> u \in Posters
      BY <1>1 DEF Posters
    <3> QED
      BY <3>1 DEF Posters
  <2>3. lostSlots \in Nat
    BY DEF TypeOK
  <2> QED
    BY <2>1, <2>2, <2>3, SlotMoves
<1> QED
  BY <1>4, <1>5, <1>6, <1>7, <1>8, <1>9

\* What only touches the socket, the pool or a posted disconnect of a context.
LEMMA FieldStep ==
  ASSUME TypeOK, LifeInv, NEW c \in Contexts \ fresh,
         UNCHANGED <<thr, fresh, listing, uUserNum, added, deleted, lostSlots>>,
         \A d \in Contexts \ {c} : ctx'[d] = ctx[d] /\ ops'[d] = ops[d],
         ctx'[c].key = ctx[c].key /\ ctx'[c].flag = ctx[c].flag /\ ctx'[c].op = ctx[c].op,
         ops'[c].accept = ops[c].accept /\ ops'[c].recv = ops[c].recv
           /\ ops'[c].send = ops[c].send
  PROVE  LifeInv'
<1> USE DEF LifeInv
<1>0. /\ fresh \subseteq Contexts
      /\ listing \in [Keys -> Contexts \cup {NoCtx}]
      /\ \A u \in Threads : thr[u].pc \notin {"idle", "PostAcceptEx"} => thr[u].c \in Contexts
  BY DEF TypeOK
<1>1. \A d \in Contexts : /\ ctx'[d].key = ctx[d].key /\ ctx'[d].flag = ctx[d].flag
                          /\ ctx'[d].op = ctx[d].op /\ ops'[d].accept = ops[d].accept
                          /\ ops'[d].recv = ops[d].recv /\ ops'[d].send = ops[d].send
  OBVIOUS
<1>2. FirstLife'
  <2>1. c \notin fresh /\ \A d \in fresh : d \in Contexts \ {c}
    BY <1>0
  <2>2. \A k \in Keys : listing[k] # NoCtx => ctx'[listing[k]].key = ctx[listing[k]].key
    BY <1>0, <1>1
  <2> QED
    BY <1>1, <2>1, <2>2 DEF FirstLife
<1>3. Positions'
  BY DEF Positions
<1>4. Told'
  <2>1. \A u \in Threads : thr[u].pc \notin {"idle", "PostAcceptEx"} =>
          ctx'[thr[u].c].key = ctx[thr[u].c].key
    BY <1>0, <1>1
  <2> QED
    BY <1>1, <2>1 DEF Told
<1>5. \A d \in Contexts : /\ PostedReceives(d)' = PostedReceives(d)
                          /\ Receivers(d)' = Receivers(d) /\ Closers(d)' = Closers(d)
  BY <1>1 DEF PostedReceives, Receivers, Closers
<1>6. Exclusive'
  BY <1>5 DEF Exclusive
<1>7. Alive'
  BY <1>1, <1>5 DEF Alive
<1>8. Accepts' = Accepts /\ Posters' = Posters
  BY <1>1 DEF Accepts, Posters
<1>9. Slots'
  BY <1>8 DEF Slots
<1> QED
  BY <1>2, <1>3, <1>4, <1>6, <1>7, <1>9

\* The context that HandAccept finds under its key is the one accepted on.
LEMMA FoundItself ==
  ASSUME TypeOK, LifeInv, NEW c \in Contexts \ fresh, Find(ctx[c].key) # NoCtx
  PROVE  Find(ctx[c].key) = c
<1>1. ctx[c].key \in Keys /\ Find(ctx[c].key) = listing[ctx[c].key]
  BY DEF Find
<1>2. listing[ctx[c].key] \in Contexts
  BY <1>1 DEF TypeOK
<1> QED
  BY <1>1, <1>2 DEF LifeInv, FirstLife

\* An accept that completes is posted no longer: its slot passes to the thread
\* that will post the next one, or is lost.
LEMMA TakeAccept ==
  ASSUME TypeOK, TypeOK', LifeInv, NEW t \in Threads, NEW c \in Contexts,
         thr[t].pc = "idle", ops[c].accept > 0,
         UNCHANGED <<fresh, listing, uUserNum, added, deleted>>,
         \A d \in Contexts \ {c} : ctx'[d] = ctx[d] /\ ops'[d] = ops[d],
         ctx'[c].key = ctx[c].key /\ ctx'[c].flag = ctx[c].flag /\ ctx'[c].op = ctx[c].op,
         ops'[c].accept = ops[c].accept - 1,
         ops'[c].recv = ops[c].recv /\ ops'[c].send = ops[c].send,
         \A u \in Threads \ {t} : thr'[u] = thr[u],
         \/ /\ thr'[t].pc = "AddUser" /\ thr'[t].c = c /\ thr'[t].next = "PostAcceptEx"
            /\ lostSlots' = lostSlots
         \/ /\ thr'[t].pc = "AcceptFailed" /\ thr'[t].c = c /\ thr'[t].next = "idle"
            /\ lostSlots' = lostSlots + 1
         \/ thr'[t] = thr[t] /\ lostSlots' = lostSlots + 1
  PROVE  LifeInv'
<1> USE DEF LifeInv
<1>0. /\ fresh \subseteq Contexts
      /\ listing \in [Keys -> Contexts \cup {NoCtx}]
      /\ \A u \in Threads : thr[u].pc \notin {"idle", "PostAcceptEx"} => thr[u].c \in Contexts
      /\ \A u \in Threads : thr'[u].pc \notin {"idle", "PostAcceptEx"} => thr'[u].c \in Contexts
  BY DEF TypeOK
<1>1. c # NoCtx /\ c \notin fresh /\ thr[t].c = NoCtx /\ thr[t].next = "idle"
  BY NoCtxAssumption DEF FirstLife, Positions, OpKinds
<1>2. \A d \in Contexts : /\ ctx'[d].key = ctx[d].key /\ ctx'[d].flag = ctx[d].flag
                          /\ ctx'[d].op = ctx[d].op
                          /\ ops'[d].recv = ops[d].recv /\ ops'[d].send = ops[d].send
  OBVIOUS
<1>3. /\ ops[c].accept = 1 /\ ops[c].recv = 0 /\ ops'[c].accept = 0
      /\ Receivers(c) = {} /\ ctx[c].key \notin added
  BY OpsFields DEF Exclusive, PostedReceives, Told
<1>4. FirstLife'
  <2>1. \A d \in fresh' : /\ ctx'[d] = NewContext
                          /\ \A kind \in OpKinds : ops'[d][kind] = 0
                          /\ \A u \in Threads : thr'[u].c # d
    BY <1>0, <1>1 DEF FirstLife
  <2>2. \A k \in Keys : listing[k] # NoCtx => ctx'[listing[k]].key = ctx[listing[k]].key
    BY <1>0, <1>2
  <2> QED
    BY <1>2, <2>1, <2>2 DEF FirstLife
<1>5. Positions'
  BY DEF Positions
<1>6. Told'
  <2>1. \A d \in Contexts : ops'[d].accept > 0 => ctx'[d].op = "accept" /\ ctx'[d].key \notin added'
    BY <1>2, <1>3 DEF Told
  <2>2. \A u \in Threads : thr'[u].pc \in {"AcceptEx", "AddUser"} => ctx'[thr'[u].c].key \notin added'
    BY <1>0, <1>2, <1>3 DEF Told
  <2>3. \A u \in Threads :
          thr'[u].pc \notin {"idle", "PostAcceptEx", "AcceptEx", "AcceptFailed", "AddUser"} =>
            ctx'[thr'[u].c].key \in added'
    BY <1>0, <1>2 DEF Told
  <2> QED
    BY <1>2, <2>1, <2>2, <2>3 DEF Told
<1>7. \A d \in Contexts \ {c} : /\ PostedReceives(d)' = PostedReceives(d)
                                /\ Receivers(d)' = Receivers(d) /\ Closers(d)' = Closers(d)
  BY <1>1 DEF PostedReceives, Receivers, Closers, ReceivePath
<1>8. Exclusive'
  <2>1. PostedReceives(c)' = 0
    BY <1>2, <1>3 DEF PostedReceives
  <2>2. Receivers(c)' \subseteq {t}
    BY <1>3 DEF Receivers
  <2> QED
    BY <1>7, <2>1, <2>2 DEF Exclusive
<1>9. Alive'
  BY <1>2, <1>3, <1>7 DEF Alive
<1>10. Slots'
  <2>1. c \in Accepts /\ Accepts' = Accepts \ {c}
    <3>1. \A d \in Contexts : d \in Accepts' <=> d \in Accepts /\ d # c
      BY <1>3 DEF Accepts
    <3> QED
      BY <3>1 DEF Accepts
  <2>2. lostSlots \in Nat
    BY DEF TypeOK
  <2>3. t \notin Posters
    BY <1>1 DEF Posters
  <2>4. CASE thr'[t].next = "PostAcceptEx" /\ lostSlots' = lostSlots
    <3>1. \A u \in Threads : u \in Posters' <=> u \in Posters \/ u = t
      BY <2>4 DEF Posters
    <3>2. Posters' = Posters \cup {t}
      BY <3>1 DEF Posters
    <3> QED
      BY <2>1, <2>2, <2>3, <2>4, <3>2, SlotMoves
  <2>5. CASE /\ thr'[t].pc \in {"AcceptFailed", "idle"} /\ thr'[t].next = "idle"
             /\ lostSlots' = lostSlots + 1
    <3>1. \A u \in Threads : u \in Posters' <=> u \in Posters
      BY <2>3, <2>5 DEF Posters
    <3>2. Posters' = Posters
      BY <3>1 DEF Posters
    <3> QED
      BY <2>1, <2>2, <2>5, <3>2, SlotMoves
  <2> QED
    BY <1>1, <2>4, <2>5
<1> QED
  BY <1>4, <1>5, <1>6, <1>8, <1>9, <1>10

LEMMA AddUserLife ==
  ASSUME TypeOK, TypeOK', LifeInv, NEW t \in Threads, AddUser(t)
  PROVE  LifeInv'
<1> USE DEF LifeInv
<1> DEFINE c == thr[t].c
<1>0. /\ fresh \subseteq Contexts
      /\ listing \in [Keys -> Contexts \cup {NoCtx}]
      /\ thr \in [Threads -> Thread]
      /\ \A u \in Threads : thr[u].pc \notin {"idle", "PostAcceptEx"} => thr[u].c \in Contexts
  BY DEF TypeOK
<1>1. /\ thr[t].pc = "AddUser" /\ Goto(t, "PostReceive")
      /\ added' = added \cup {ctx[c].key}
      /\ UNCHANGED <<ctx, fresh, listing, uUserNum, ops, deleted, lostSlots>>
  BY DEF AddUser, At, Ctx, pools
<1>2. c \in Contexts /\ c # NoCtx /\ c \notin fresh
  BY <1>1, InsideCall DEF FirstLife
<1>3. /\ thr'[t].pc = "PostReceive" /\ thr'[t].c = c /\ thr'[t].next = thr[t].next
      /\ \A u \in Threads \ {t} : thr'[u] = thr[u]
  BY <1>0, <1>1, GotoFields
<1>4. /\ t \in Receivers(c) /\ Receivers(c) = {t}
      /\ ops[c].accept = 0 /\ ops[c].recv = 0
  <2>1. t \in Receivers(c)
    BY <1>1 DEF Receivers, ReceivePath
  <2> QED
    BY <1>2, <2>1, OpsFields DEF Exclusive, PostedReceives
<1>5. \A d \in Contexts : ctx[d].key = ctx[c].key => d = c
  <2>1. NewContext.key = 0
    BY DEF NewContext
  <2> QED
    BY <1>2, <2>1 DEF FirstLife
<1> HIDE DEF c
<1>6. FirstLife'
  BY <1>1, <1>2, <1>3 DEF FirstLife
<1>7. Positions'
  BY <1>3 DEF Positions
<1>8. \A d \in Contexts : PostedReceives(d)' = PostedReceives(d) /\ Receivers(d)' = Receivers(d)
  BY <1>1, <1>3 DEF PostedReceives, Receivers, ReceivePath, c
<1>9. Exclusive'
  BY <1>8 DEF Exclusive
<1>10. Told'
  <2>1. \A d \in Contexts : ops[d].accept > 0 => ctx[d].key \notin added'
    BY <1>1, <1>4, <1>5 DEF Told
  <2>2. ASSUME NEW u \in Threads, thr'[u].pc \in {"AcceptEx", "AddUser"}
        PROVE  ctx[thr'[u].c].key \notin added'
    <3>1. u # t /\ thr[u].pc \in {"AcceptEx", "AddUser"} /\ thr'[u] = thr[u]
      BY <1>3, <2>2
    <3>2. thr[u].c \in Contexts /\ thr[u].c # c
      BY <1>0, <1>4, <3>1 DEF Receivers, ReceivePath
    <3> QED
      BY <1>1, <1>5, <3>1, <3>2 DEF Told
  <2>3. \A u \in Threads :
          thr'[u].pc \notin {"idle", "PostAcceptEx", "AcceptEx", "AcceptFailed", "AddUser"} =>
            ctx[thr'[u].c].key \in added'
    BY <1>1, <1>3 DEF Told
  <2> QED
    BY <1>1, <2>1, <2>2, <2>3 DEF Told
<1>11. Alive'
  <2> SUFFICES ASSUME NEW d \in Contexts, ctx[d].key \in added', ctx[d].flag = 0
               PROVE  PostedReceives(d)' > 0 \/ Receivers(d)' # {} \/ Closers(d)' # {}
    BY <1>1 DEF Alive
  <2>1. CASE d = c
    BY <1>4, <1>8, <2>1
  <2>2. CASE d # c
    <3>1. ctx[d].key \in added
      BY <1>1, <1>5, <2>2
    <3>2. Closers(d)' = Closers(d)
      BY <1>1, <1>3 DEF Closers
    <3> QED
      BY <1>8, <3>1, <3>2 DEF Alive
  <2> QED
    BY <2>1, <2>2
<1>12. Slots'
  <2>1. Accepts' = Accepts
    BY <1>1 DEF Accepts
  <2>2. \A u \in Threads : u \in Posters' <=> u \in Posters
    BY <1>1, <1>3 DEF Posters
  <2>3. Posters' = Posters
    BY <2>2 DEF Posters
  <2> QED
    BY <1>1, <2>1, <2>3 DEF Slots
<1> QED
  BY <1>6, <1>7, <1>9, <1>10, <1>11, <1>12

LEMMA AcceptExLife ==
  ASSUME TypeOK, TypeOK', LifeInv, NEW t \in Threads, AcceptEx(t)
  PROVE  LifeInv'
<1> USE DEF LifeInv
<1>0. /\ fresh \subseteq Contexts
      /\ listing \in [Keys -> Contexts \cup {NoCtx}]
      /\ thr \in [Threads -> Thread]
      /\ \A u \in Threads : thr[u].pc \notin {"idle", "PostAcceptEx"} => thr[u].c \in Contexts
      /\ lostSlots \in Nat
  BY DEF TypeOK
<1>1. /\ thr[t].pc = "AcceptEx"
      /\ UNCHANGED <<fresh, listing, uUserNum, added, deleted>>
  BY DEF AcceptEx, At, pools, users
<1>2. PICK c \in Contexts : c = thr[t].c /\ c # NoCtx /\ c \notin fresh /\ ctx[c] \in SocketContext
  BY <1>1, InsideCall DEF FirstLife
<1>3. thr[t].next = "idle" /\ ctx[c].key \notin added
  BY <1>1, <1>2 DEF Positions, Told
<1>4. /\ Receivers(c) = {t} /\ ops[c].accept = 0 /\ ops[c].recv = 0
  <2>1. t \in Receivers(c)
    BY <1>1, <1>2 DEF Receivers, ReceivePath
  <2> QED
    BY <1>2, <2>1, OpsFields DEF Exclusive, PostedReceives
<1>5. /\ \A d \in Contexts \ {c} : ctx'[d] = ctx[d] /\ ops'[d] = ops[d]
      /\ ctx'[c].key = ctx[c].key /\ ctx'[c].flag = ctx[c].flag
      /\ ops'[c].recv = 0 /\ ops'[c].send = ops[c].send
      /\ \A u \in Threads \ {t} : thr'[u] = thr[u]
      /\ \/ /\ ctx'[c].op = "accept" /\ ops'[c].accept = 1 /\ lostSlots' = lostSlots
            /\ thr'[t].pc = "idle" /\ thr'[t].c = NoCtx /\ thr'[t].next = "idle"
         \/ /\ ops'[c].accept = 0 /\ lostSlots' = lostSlots + 1
            /\ \/ thr'[t].pc = "idle" /\ thr'[t].c = NoCtx /\ thr'[t].next = "idle"
               \/ thr'[t].pc = "AcceptFailed" /\ thr'[t].c = c /\ thr'[t].next = "idle"
  <2>1. ctx \in [Contexts -> SocketContext]
    BY DEF TypeOK
  <2>2. CASE /\ ctx' = [ctx EXCEPT ![c].sock = "idle", ![c].op = "accept"]
             /\ Post(c, "accept")
             /\ Return(t)
             /\ UNCHANGED lostSlots
    <3>1. /\ \A d \in Contexts \ {c} : ctx'[d] = ctx[d]
          /\ ctx'[c].key = ctx[c].key /\ ctx'[c].flag = ctx[c].flag /\ ctx'[c].op = "accept"
      BY <1>2, <2>1, <2>2 DEF SocketContext
    <3>2. /\ \A d \in Contexts \ {c} : ops'[d] = ops[d]
          /\ ops'[c].accept = 1 /\ ops'[c].recv = 0 /\ ops'[c].send = ops[c].send
      BY <1>2, <1>4, <2>2, PostFields DEF OpKinds
    <3> QED
      BY <1>0, <1>3, <2>2, <3>1, <3>2, ReturnFields
  <2>3. CASE /\ ctx' = [ctx EXCEPT ![c].sock = "invalid"]
             /\ Goto(t, "AcceptFailed") \/ Return(t)
             /\ lostSlots' = lostSlots + 1
             /\ UNCHANGED ops
    <3>1. /\ \A d \in Contexts \ {c} : ctx'[d] = ctx[d]
          /\ ctx'[c].key = ctx[c].key /\ ctx'[c].flag = ctx[c].flag
      BY <1>2, <2>1, <2>3 DEF SocketContext
    <3>2. /\ \A u \in Threads \ {t} : thr'[u] = thr[u]
          /\ \/ thr'[t].pc = "idle" /\ thr'[t].c = NoCtx /\ thr'[t].next = "idle"
             \/ thr'[t].pc = "AcceptFailed" /\ thr'[t].c = c /\ thr'[t].next = "idle"
      <4>1. CASE Goto(t, "AcceptFailed")
        BY <1>0, <1>2, <1>3, <4>1, GotoFields
      <4>2. CASE Return(t)
        BY <1>0, <1>3, <4>2, ReturnFields
      <4> QED
        BY <2>3, <4>1, <4>2
    <3> QED
      BY <1>4, <2>3, <3>1, <3>2
  <2> QED
    BY <1>2, <2>2, <2>3 DEF AcceptEx
<1>6. \A d \in Contexts : ctx'[d].key = ctx[d].key /\ ctx'[d].flag = ctx[d].flag
  BY <1>5
<1>7. FirstLife'
  <2>1. \A d \in fresh' : /\ ctx'[d] = NewContext
                          /\ \A kind \in OpKinds : ops'[d][kind] = 0
                          /\ \A u \in Threads : thr'[u].c # d
    BY <1>0, <1>1, <1>2, <1>5, NoCtxAssumption DEF FirstLife
  <2>2. \A k \in Keys : listing[k] # NoCtx => ctx'[listing[k]].key = ctx[listing[k]].key
    BY <1>0, <1>6
  <2> QED
    BY <1>1, <1>6, <2>1, <2>2 DEF FirstLife
<1>8. Positions'
  BY <1>5 DEF Positions
<1>9. Told'
  <2>1. \A d \in Contexts : /\ ops'[d].accept > 0 => ctx'[d].op = "accept" /\ ctx'[d].key \notin added
                            /\ ops'[d].recv > 0 => ctx'[d].op = "recv" /\ ctx'[d].key \in added
                            /\ ops'[d].send > 0 => ctx'[d].key \in added
    BY <1>3, <1>5 DEF Told
  <2>2. \A u \in Threads : u # t /\ thr[u].pc \notin {"idle", "PostAcceptEx"} =>
          ctx'[thr[u].c].key = ctx[thr[u].c].key
    BY <1>0, <1>6
  <2>3. \A u \in Threads : /\ thr'[u].pc \in {"AcceptEx", "AddUser"} => ctx'[thr'[u].c].key \notin added
                           /\ thr'[u].pc \notin {"idle", "PostAcceptEx", "AcceptEx", "AcceptFailed", "AddUser"} =>
                                ctx'[thr'[u].c].key \in added
    BY <1>5, <2>2 DEF Told
  <2> QED
    BY <1>1, <2>1, <2>3 DEF Told
<1>10. \A d \in Contexts \ {c} : /\ PostedReceives(d)' = PostedReceives(d)
                                 /\ Receivers(d)' = Receivers(d) /\ Closers(d)' = Closers(d)
  <2>1. thr[t].c = c
    BY <1>2
  <2> QED
    BY <1>2, <1>5, <2>1, NoCtxAssumption DEF PostedReceives, Receivers, Closers
<1>11. Exclusive'
  <2>1. PostedReceives(c)' \in 0..1
    BY <1>5 DEF PostedReceives
  <2>2. Receivers(c)' = {}
    BY <1>2, <1>4, <1>5 DEF Receivers, ReceivePath
  <2> QED
    BY <1>10, <2>1, <2>2 DEF Exclusive
<1>12. Alive'
  BY <1>1, <1>3, <1>6, <1>10 DEF Alive
<1>13. Slots'
  <2>1. t \in Posters /\ c \notin Accepts
    BY <1>1, <1>4 DEF Posters, Accepts
  <2>2. Posters' = Posters \ {t}
    <3>1. \A u \in Threads : u \in Posters' <=> u \in Posters /\ u # t
      BY <1>5 DEF Posters
    <3> QED
      BY <3>1 DEF Posters
  <2>3. CASE ops'[c].accept = 1 /\ lostSlots' = lostSlots
    <3>1. \A d \in Contexts : d \in Accepts' <=> d \in Accepts \/ d = c
      BY <1>5, <2>3 DEF Accepts
    <3>2. Accepts' = Accepts \cup {c}
      BY <1>2, <3>1 DEF Accepts
    <3> QED
      BY <1>0, <2>1, <2>2, <2>3, <3>2, SlotMoves
  <2>4. CASE ops'[c].accept = 0 /\ lostSlots' = lostSlots + 1
    <3>1. \A d \in Contexts : d \in Accepts' <=> d \in Accepts
      BY <1>4, <1>5, <2>4 DEF Accepts
    <3>2. Accepts' = Accepts
      BY <3>1 DEF Accepts
    <3> QED
      BY <1>0, <2>1, <2>2, <2>4, <3>2, SlotMoves
  <2> QED
    BY <1>5, <2>3, <2>4
<1> QED
  BY <1>7, <1>8, <1>9, <1>11, <1>12, <1>13

\* The next accept gets a context nobody has used, and a key nobody has.
LEMMA PostAcceptExLife ==
  ASSUME TypeOK, TypeOK', LifeInv, ~reused', NEW t \in Threads, PostAcceptEx(t)
  PROVE  LifeInv'
<1> USE DEF LifeInv
<1>0. /\ fresh \subseteq Contexts
      /\ listing \in [Keys -> Contexts \cup {NoCtx}]
      /\ ctx \in [Contexts -> SocketContext]
      /\ thr \in [Threads -> Thread]
      /\ \A u \in Threads : thr[u].pc \notin {"idle", "PostAcceptEx"} => thr[u].c \in Contexts
      /\ uUserNum \in Nat \ {0}
  BY DEF TypeOK
<1>1. PICK c \in Contexts :
        /\ \/ /\ c \in fresh
              /\ fresh' = fresh \ {c}
              /\ UNCHANGED <<returned, reused>>
           \/ /\ fresh = {}
              /\ returned # <<>>
              /\ c = Head(returned)
              /\ returned' = Tail(returned)
              /\ reused' = TRUE
              /\ UNCHANGED fresh
        /\ ctx' = [ctx EXCEPT ![c] = [NewContext EXCEPT !.key = uUserNum,
                     !.sock = ctx[c].sock, !.q = ctx[c].q, !.inUse = TRUE]]
        /\ listing' = [listing EXCEPT ![uUserNum] = c]
        /\ Enter(t, c, "AcceptEx", "idle")
  BY DEF PostAcceptEx
<1>2. /\ thr[t].pc = "PostAcceptEx" /\ uUserNum' = uUserNum + 1
      /\ UNCHANGED <<ops, added, deleted, lostSlots>>
  BY DEF PostAcceptEx, At, users
<1>3. /\ thr[t].c = NoCtx /\ thr[t].next = "idle"
  BY <1>2 DEF Positions
<1>4. /\ thr'[t].pc = "AcceptEx" /\ thr'[t].c = c /\ thr'[t].next = "idle"
      /\ \A u \in Threads \ {t} : thr'[u] = thr[u]
  BY <1>0, <1>1, EnterFields
<1>5. /\ ctx'[c].key = uUserNum
      /\ \A d \in Contexts \ {c} : ctx'[d] = ctx[d]
  BY <1>0, <1>1 DEF NewContext
<1>6. /\ \A u \in Threads : thr[u].c # c
      /\ ops[c].accept = 0 /\ ops[c].recv = 0 /\ ops[c].send = 0
      /\ c # NoCtx /\ uUserNum \notin added
  BY <1>0, <1>1, NoCtxAssumption DEF FirstLife, OpKinds
<1>7. FirstLife'
  <2>1. \A d \in fresh' : /\ ctx'[d] = NewContext
                          /\ \A kind \in OpKinds : ops'[d][kind] = 0
                          /\ \A u \in Threads : thr'[u].c # d
    BY <1>0, <1>1, <1>2, <1>4, <1>5 DEF FirstLife
  <2>2. Contexts \ fresh' = (Contexts \ fresh) \cup {c} /\ c \notin Contexts \ fresh
    BY <1>1
  <2>3. \A d \in Contexts \ fresh : ctx'[d].key = ctx[d].key /\ ctx[d].key > 0 /\ ctx[d].key < uUserNum
    BY <1>5, <2>2 DEF FirstLife
  <2>4. \A d \in Contexts \ fresh : ctx[d].key \in Nat
    BY <1>0 DEF SocketContext
  <2>5. \A d \in Contexts \ fresh' : ctx'[d].key > 0 /\ ctx'[d].key < uUserNum'
    BY <1>0, <1>2, <1>5, <2>2, <2>3, <2>4
  <2>6. \A d \in Contexts \ fresh : ctx'[d].key # uUserNum
    BY <1>0, <2>3, <2>4
  <2>7. \A d, e \in Contexts \ fresh' : ctx'[d].key = ctx'[e].key => d = e
    BY <1>5, <2>2, <2>3, <2>6 DEF FirstLife
  <2>8. \A k \in Keys : listing'[k] # NoCtx =>
          listing'[k] \notin fresh' /\ ctx'[listing'[k]].key = k
    <3> SUFFICES ASSUME NEW k \in Keys, listing'[k] # NoCtx
                 PROVE  listing'[k] \notin fresh' /\ ctx'[listing'[k]].key = k
      OBVIOUS
    <3>1. CASE k = uUserNum
      BY <1>0, <1>1, <1>5, <3>1
    <3>2. CASE k # uUserNum
      <4>1. listing'[k] = listing[k] /\ listing[k] \in Contexts
        BY <1>0, <1>1, <3>2
      <4> QED
        BY <1>1, <1>5, <4>1 DEF FirstLife
    <3> QED
      BY <3>1, <3>2
  <2>9. \A k \in added' : k > 0 /\ k < uUserNum'
    <3>1. added \subseteq Nat
      BY DEF TypeOK
    <3> QED
      BY <1>0, <1>2, <3>1 DEF FirstLife
  <2> QED
    BY <2>1, <2>5, <2>7, <2>8, <2>9 DEF FirstLife
<1>8. Positions'
  BY <1>4 DEF Positions
<1>9. Told'
  <2>1. \A d \in Contexts : /\ ops'[d].accept > 0 => ctx'[d].op = "accept" /\ ctx'[d].key \notin added
                            /\ ops'[d].recv > 0 => ctx'[d].op = "recv" /\ ctx'[d].key \in added
                            /\ ops'[d].send > 0 => ctx'[d].key \in added
    BY <1>2, <1>5, <1>6 DEF Told
  <2>2. \A u \in Threads : u # t /\ thr[u].pc \notin {"idle", "PostAcceptEx"} =>
          ctx'[thr[u].c] = ctx[thr[u].c]
    BY <1>0, <1>5, <1>6
  <2>3. \A u \in Threads : /\ thr'[u].pc \in {"AcceptEx", "AddUser"} => ctx'[thr'[u].c].key \notin added
                           /\ thr'[u].pc \notin {"idle", "PostAcceptEx", "AcceptEx", "AcceptFailed", "AddUser"} =>
                                ctx'[thr'[u].c].key \in added
    BY <1>4, <1>5, <1>6, <2>2 DEF Told
  <2> QED
    BY <1>2, <2>1, <2>3 DEF Told
<1>10. \A d \in Contexts \ {c} : /\ PostedReceives(d)' = PostedReceives(d)
                                 /\ Receivers(d)' = Receivers(d) /\ Closers(d)' = Closers(d)
  BY <1>2, <1>3, <1>4, NoCtxAssumption DEF PostedReceives, Receivers, Closers
<1>11. Exclusive'
  <2>1. PostedReceives(c)' = 0
    BY <1>2, <1>6 DEF PostedReceives
  <2>2. Receivers(c)' \subseteq {t}
    BY <1>4, <1>6 DEF Receivers
  <2> QED
    BY <1>10, <2>1, <2>2 DEF Exclusive
<1>12. Alive'
  BY <1>2, <1>5, <1>6, <1>10 DEF Alive
<1>13. Slots'
  <2>1. Accepts' = Accepts
    BY <1>2 DEF Accepts
  <2>2. \A u \in Threads : u \in Posters' <=> u \in Posters
    BY <1>2, <1>4 DEF Posters
  <2>3. Posters' = Posters
    BY <2>2 DEF Posters
  <2> QED
    BY <1>2, <2>1, <2>3 DEF Slots
<1> QED
  BY <1>7, <1>8, <1>9, <1>11, <1>12, <1>13

\* The actions that InnerStep stands for, by what they touch.

LEMMA AfterReCycleFields ==
  ASSUME thr \in [Threads -> Thread], NEW t \in Threads, AfterReCycle(t)
  PROVE  /\ \A u \in Threads \ {t} : thr'[u] = thr[u]
         /\ \/ thr'[t].pc = "CheckFlag" /\ thr'[t].c = thr[t].c /\ thr'[t].next = thr[t].next
            \/ /\ thr'[t].pc = thr[t].next /\ thr'[t].pc \in {"idle", "PostAcceptEx"}
               /\ thr'[t].c = NoCtx /\ thr'[t].next = "idle"
BY GotoFields, ReturnFields DEF AfterReCycle

\* nothing but their thread,
LEMMA ThreadOnlyLife ==
  ASSUME TypeOK, TypeOK', LifeInv, NEW t \in Threads,
         PostReceive(t) \/ HandData(t) \/ ReCycle(t) \/ CheckFlag(t)
  PROVE  LifeInv'
<1>0. thr \in [Threads -> Thread] /\ ctx \in [Contexts -> SocketContext]
  BY DEF TypeOK
<1>1. /\ thr[t].pc \in {"PostReceive", "HandData", "ReCycle", "CheckFlag"}
      /\ UNCHANGED <<ctx, fresh, listing, uUserNum, ops, added, deleted, lostSlots>>
  BY DEF PostReceive, HandData, ReCycle, CheckFlag, At, pools, users
<1>2. PICK c \in Contexts : c = thr[t].c /\ ctx[c] \in SocketContext
  BY <1>1, InsideCall
<1>3. deleted' \subseteq added
  BY <1>1 DEF LifeInv, Told
<1>4. ctx[c].flag \in 0..2
  BY <1>2 DEF SocketContext
<1>5. /\ \A u \in Threads \ {t} : thr'[u] = thr[u]
      /\ \/ /\ thr'[t].pc \in {"ReCycle", "Receive", "PostReceive", "SetOne", "SetTwo", "CheckFlag", "Erase"}
            /\ thr'[t].c = c /\ thr'[t].next = thr[t].next
         \/ /\ thr'[t].pc = thr[t].next /\ thr'[t].pc \in {"idle", "PostAcceptEx"}
            /\ thr'[t].c = NoCtx /\ thr'[t].next = "idle"
      /\ thr'[t].pc \in {"Receive", "PostReceive"} => thr[t].pc \in {"PostReceive", "HandData"}
      /\ \/ thr[t].pc = "CheckFlag"
         \/ ctx[c].flag # 0
         \/ thr'[t].pc \in {"ReCycle", "Receive", "PostReceive", "SetOne"}
  <2>1. CASE PostReceive(t)
    <3>1. CASE thr' = [thr EXCEPT ![t].pc = "ReCycle", ![t].full = FALSE]
      <4>1. thr[t] \in Thread
        BY <1>0
      <4> QED
        BY <1>0, <1>2, <3>1, <4>1 DEF Thread
    <3>2. CASE Goto(t, "Receive")
      BY <1>0, <1>2, <2>1, <3>2, GotoFields DEF PostReceive, At
    <3> QED
      BY <2>1, <3>1, <3>2 DEF PostReceive
  <2>2. CASE HandData(t)
    BY <1>0, <1>2, <2>2, GotoFields DEF HandData, At
  <2>3. CASE ReCycle(t)
    <3>1. CASE ctx[c].flag = 0
      BY <1>0, <1>2, <2>3, <3>1, GotoFields DEF ReCycle, At, Ctx
    <3>2. CASE ctx[c].flag = 1
      BY <1>0, <1>2, <2>3, <3>2, GotoFields DEF ReCycle, At, Ctx
    <3>3. CASE ctx[c].flag \notin {0, 1}
      <4>1. AfterReCycle(t)
        BY <1>2, <2>3, <3>3 DEF ReCycle, Ctx
      <4> QED
        BY <1>0, <1>2, <2>3, <3>3, <4>1, AfterReCycleFields DEF ReCycle, At
    <3> QED
      BY <3>1, <3>2, <3>3
  <2>4. CASE CheckFlag(t)
    BY <1>0, <1>2, <2>4, GotoFields, ReturnFields DEF CheckFlag, At
  <2> QED
    BY <2>1, <2>2, <2>3, <2>4
<1> QED
  BY <1>1, <1>2, <1>3, <1>5, InnerStep DEF ReceivePath

\* a field of their context,
LEMMA ContextOnlyLife ==
  ASSUME TypeOK, TypeOK', LifeInv, NEW t \in Threads,
         PackSendData(t) \/ PostSend(t) \/ SetOne(t) \/ CleanQueue(t) \/ SetTwo(t)
  PROVE  LifeInv'
<1>0. thr \in [Threads -> Thread] /\ ctx \in [Contexts -> SocketContext]
  BY DEF TypeOK
<1>1. /\ thr[t].pc \in {"PackSendData", "PostSend", "SetOne", "CleanQueue", "SetTwo"}
      /\ UNCHANGED <<fresh, listing, uUserNum, ops, added, deleted, lostSlots>>
  BY DEF PackSendData, PostSend, SetOne, CleanQueue, SetTwo, At, pools, users
<1>2. PICK c \in Contexts : c = thr[t].c /\ ctx[c] \in SocketContext
  BY <1>1, InsideCall
<1>3. deleted' \subseteq added
  BY <1>1 DEF LifeInv, Told
<1>4. /\ \A u \in Threads \ {t} : thr'[u] = thr[u]
      /\ \/ /\ thr'[t].pc \in {"PostSend", "WSASend", "CleanQueue", "DeleteUser", "CheckFlag"}
            /\ thr'[t].c = c /\ thr'[t].next = thr[t].next
         \/ /\ thr'[t].pc = thr[t].next /\ thr'[t].pc \in {"idle", "PostAcceptEx"}
            /\ thr'[t].c = NoCtx /\ thr'[t].next = "idle"
  <2>1. \/ \E pc \in {"PostSend", "WSASend", "CleanQueue", "DeleteUser"} : Goto(t, pc)
        \/ Return(t) \/ AfterReCycle(t)
    BY DEF PackSendData, PostSend, SetOne, CleanQueue, SetTwo
  <2>2. CASE \E pc \in {"PostSend", "WSASend", "CleanQueue", "DeleteUser"} : Goto(t, pc)
    BY <1>0, <1>2, <2>2, GotoFields
  <2>3. CASE Return(t)
    BY <1>0, <2>3, ReturnFields
  <2>4. CASE AfterReCycle(t)
    BY <1>0, <1>2, <2>4, AfterReCycleFields
  <2> QED
    BY <2>1, <2>2, <2>3, <2>4
<1>5. /\ \A d \in Contexts \ {c} : ctx'[d] = ctx[d]
      /\ ctx'[c].key = ctx[c].key /\ ctx'[c].op = ctx[c].op
      /\ ctx'[c].flag = 0 => ctx[c].flag = 0 /\ thr[t].pc # "SetOne"
  <2>1. CASE SetOne(t) \/ SetTwo(t)
    <3>1. ctx' = [ctx EXCEPT ![c].flag = 1] \/ ctx' = [ctx EXCEPT ![c].flag = 2]
      BY <1>2, <2>1 DEF SetOne, SetTwo, SetFlag
    <3> QED
      BY <1>0, <1>2, <3>1 DEF SocketContext
  <2>2. CASE PackSendData(t) \/ PostSend(t) \/ CleanQueue(t)
    <3>1. ctx' = ctx \/ \E n : ctx' = [ctx EXCEPT ![c].q = n]
      BY <1>2, <2>2 DEF PackSendData, PostSend, CleanQueue
    <3>2. thr[t].pc # "SetOne"
      BY <2>2 DEF PackSendData, PostSend, CleanQueue, At
    <3>3. CASE ctx' = ctx
      BY <3>2, <3>3
    <3>4. CASE \E n : ctx' = [ctx EXCEPT ![c].q = n]
      <4>1. PICK n : ctx' = [ctx EXCEPT ![c].q = n]
        BY <3>4
      <4>2. ctx'[c] = [ctx[c] EXCEPT !.q = n]
        BY <1>0, <4>1
      <4>3. \A d \in Contexts \ {c} : ctx'[d] = ctx[d]
        BY <1>0, <4>1
      <4>4. ctx'[c].key = ctx[c].key /\ ctx'[c].op = ctx[c].op /\ ctx'[c].flag = ctx[c].flag
        BY <1>2, <4>2 DEF SocketContext
      <4> QED
        BY <3>2, <4>3, <4>4
    <3> QED
      BY <3>1, <3>3, <3>4
  <2> QED
    BY <2>1, <2>2
<1> QED
  BY <1>1, <1>2, <1>3, <1>4, <1>5, InnerStep DEF ReceivePath

\* the posted operations,
LEMMA WSASendLife ==
  ASSUME TypeOK, TypeOK', LifeInv, NEW t \in Threads, WSASend(t)
  PROVE  LifeInv'
<1>0. thr \in [Threads -> Thread]
  BY DEF TypeOK
<1>1. /\ thr[t].pc = "WSASend"
      /\ UNCHANGED <<ctx, fresh, listing, uUserNum, added, deleted, lostSlots>>
  BY DEF WSASend, At, pools, users
<1>2. PICK c \in Contexts : c = thr[t].c
  BY <1>1, InsideCall
<1>3. deleted' \subseteq added
  BY <1>1 DEF LifeInv, Told
<1>4. /\ \A u \in Threads \ {t} : thr'[u] = thr[u]
      /\ \/ /\ thr'[t].pc = "ReCycle" /\ thr'[t].c = c /\ thr'[t].next = thr[t].next
         \/ /\ thr'[t].pc = thr[t].next /\ thr'[t].pc \in {"idle", "PostAcceptEx"}
            /\ thr'[t].c = NoCtx /\ thr'[t].next = "idle"
  <2>1. CASE Goto(t, "ReCycle")
    BY <1>0, <1>2, <2>1, GotoFields
  <2>2. CASE Return(t)
    BY <1>0, <2>2, ReturnFields
  <2> QED
    BY <2>1, <2>2 DEF WSASend
<1>5. /\ \A d \in Contexts \ {c} : ops'[d] = ops[d]
      /\ ops'[c].accept = ops[c].accept /\ ops'[c].recv = ops[c].recv
  <2>1. CASE Post(c, "send")
    BY <2>1, PostFields DEF OpKinds
  <2> QED
    BY <1>2, <2>1 DEF WSASend
<1> QED
  BY <1>1, <1>2, <1>3, <1>4, <1>5, InnerStep DEF ReceivePath

LEMMA ReceiveLife ==
  ASSUME TypeOK, TypeOK', LifeInv, NEW t \in Threads, Receive(t)
  PROVE  LifeInv'
<1>0. thr \in [Threads -> Thread] /\ ctx \in [Contexts -> SocketContext]
  BY DEF TypeOK
<1>1. /\ thr[t].pc = "Receive"
      /\ UNCHANGED <<fresh, listing, uUserNum, added, deleted, lostSlots>>
  BY DEF Receive, At, pools, users
<1>2. PICK c \in Contexts : c = thr[t].c /\ ctx[c] \in SocketContext
  BY <1>1, InsideCall
<1>3. deleted' \subseteq added
  BY <1>1 DEF LifeInv, Told
<1>4. /\ \A d \in Contexts \ {c} : ctx'[d] = ctx[d]
      /\ ctx'[c].key = ctx[c].key /\ ctx'[c].flag = ctx[c].flag /\ ctx'[c].op = "recv"
  <2>1. ctx' = [ctx EXCEPT ![c].op = "recv"]
    BY <1>2 DEF Receive
  <2> QED
    BY <1>0, <1>2, <2>1 DEF SocketContext
<1>5. CASE Post(c, "recv") /\ Return(t)
  <2>1. /\ \A d \in Contexts \ {c} : ops'[d] = ops[d]
        /\ ops'[c].accept = ops[c].accept /\ ops'[c].recv = ops[c].recv + 1
    BY <1>5, PostFields DEF OpKinds
  <2>2. ops'[c].recv > 0
    BY <2>1, OpsFields
  <2>3. /\ \A u \in Threads \ {t} : thr'[u] = thr[u]
        /\ thr'[t].pc = thr[t].next /\ thr'[t].pc \in {"idle", "PostAcceptEx"}
        /\ thr'[t].c = NoCtx /\ thr'[t].next = "idle"
    BY <1>0, <1>5, ReturnFields
  <2> QED
    BY <1>1, <1>2, <1>3, <1>4, <2>1, <2>2, <2>3, InnerStep DEF ReceivePath
<1>6. CASE Goto(t, "ReCycle") /\ UNCHANGED ops
  <2>1. /\ \A u \in Threads \ {t} : thr'[u] = thr[u]
        /\ thr'[t].pc = "ReCycle" /\ thr'[t].c = c /\ thr'[t].next = thr[t].next
    BY <1>0, <1>2, <1>6, GotoFields
  <2> QED
    BY <1>1, <1>2, <1>3, <1>4, <1>6, <2>1, InnerStep DEF ReceivePath
<1> QED
  BY <1>2, <1>5, <1>6 DEF Receive

\* the list, the pool, or what the application was told.
LEMMA TeardownLife ==
  ASSUME TypeOK, TypeOK', LifeInv, NEW t \in Threads,
         AcceptFailed(t) \/ DeleteUser(t) \/ Erase(t) \/ DisconnectEx(t)
  PROVE  LifeInv'
<1>0. /\ thr \in [Threads -> Thread] /\ ctx \in [Contexts -> SocketContext]
      /\ listing \in [Keys -> Contexts \cup {NoCtx}]
  BY DEF TypeOK
<1>1. /\ thr[t].pc \in {"AcceptFailed", "DeleteUser", "Erase", "DisconnectEx"}
      /\ UNCHANGED <<fresh, uUserNum, added, lostSlots>>
  BY DEF AcceptFailed, DeleteUser, Erase, DisconnectEx, At, pools, users
<1>2. PICK c \in Contexts : c = thr[t].c /\ ctx[c] \in SocketContext
  BY <1>1, InsideCall
<1>3. deleted' \subseteq added
  <2>1. thr[t].pc # "AcceptFailed" => ctx[c].key \in added
    BY <1>1, <1>2 DEF LifeInv, Told
  <2>2. deleted \subseteq added
    BY DEF LifeInv, Told
  <2>3. CASE DeleteUser(t)
    BY <1>2, <2>1, <2>2, <2>3 DEF DeleteUser, At, Ctx
  <2>4. CASE AcceptFailed(t) \/ Erase(t) \/ DisconnectEx(t)
    BY <2>2, <2>4 DEF AcceptFailed, Erase, DisconnectEx, users
  <2> QED
    BY <2>3, <2>4
<1>4. /\ \A u \in Threads \ {t} : thr'[u] = thr[u]
      /\ \/ /\ thr[t].pc # "AcceptFailed"
            /\ thr'[t].pc \in {"CheckFlag", "DisconnectEx"}
            /\ thr'[t].c = c /\ thr'[t].next = thr[t].next
         \/ /\ thr'[t].pc = thr[t].next /\ thr'[t].pc \in {"idle", "PostAcceptEx"}
            /\ thr'[t].c = NoCtx /\ thr'[t].next = "idle"
  <2>1. CASE AcceptFailed(t) \/ DisconnectEx(t)
    <3>1. Return(t)
      BY <2>1 DEF AcceptFailed, DisconnectEx
    <3> QED
      BY <1>0, <3>1, ReturnFields
  <2>2. CASE DeleteUser(t)
    <3>1. AfterReCycle(t) /\ thr[t].pc = "DeleteUser"
      BY <2>2 DEF DeleteUser, At
    <3> QED
      BY <1>0, <1>2, <3>1, AfterReCycleFields
  <2>3. CASE Erase(t)
    <3>1. Goto(t, "DisconnectEx") /\ thr[t].pc = "Erase"
      BY <2>3 DEF Erase, At
    <3> QED
      BY <1>0, <1>2, <3>1, GotoFields
  <2> QED
    BY <2>1, <2>2, <2>3
<1>5. \A k \in Keys : listing'[k] \in {listing[k], NoCtx}
  <2>1. listing' = listing \/ \E k : listing' = [listing EXCEPT ![k] = NoCtx]
    BY DEF AcceptFailed, DeleteUser, Erase, DisconnectEx, Unlist
  <2> QED
    BY <1>0, <2>1
<1>6. /\ \A d \in Contexts \ {c} : ctx'[d] = ctx[d]
      /\ ctx'[c].key = ctx[c].key /\ ctx'[c].flag = ctx[c].flag /\ ctx'[c].op = ctx[c].op
  <2>1. \/ ctx' = ctx
        \/ \E s : ctx' = [ctx EXCEPT ![c].sock = s, ![c].inUse = FALSE]
        \/ ctx' = [ctx EXCEPT ![c].sock = "idle"]
    BY <1>2 DEF AcceptFailed, DeleteUser, Erase, DisconnectEx, Put
  <2>2. CASE ctx' = ctx
    BY <2>2
  <2>3. CASE \E s : ctx' = [ctx EXCEPT ![c].sock = s, ![c].inUse = FALSE]
    BY <1>0, <1>2, <2>3 DEF SocketContext
  <2>4. CASE ctx' = [ctx EXCEPT ![c].sock = "idle"]
    BY <1>0, <1>2, <2>4 DEF SocketContext
  <2> QED
    BY <2>1, <2>2, <2>3, <2>4
<1>7. /\ \A d \in Contexts \ {c} : ops'[d] = ops[d]
      /\ ops'[c].accept = ops[c].accept /\ ops'[c].recv = ops[c].recv
      /\ ops'[c].send = ops[c].send
  <2>1. UNCHANGED ops \/ Post(c, "disc")
    BY <1>2 DEF AcceptFailed, DeleteUser, Erase, DisconnectEx
  <2>2. CASE Post(c, "disc")
    BY <2>2, PostFields DEF OpKinds
  <2> QED
    BY <2>1, <2>2
<1> QED
  BY <1>1, <1>2, <1>3, <1>4, <1>5, <1>6, <1>7, InnerStep DEF ReceivePath

LEMMA StepLife ==
  ASSUME TypeOK, TypeOK', LifeInv, ~reused', NEW t \in Threads, Step(t)
  PROVE  LifeInv'
BY AddUserLife, PostAcceptExLife, AcceptExLife, ThreadOnlyLife, ContextOnlyLife,
   WSASendLife, ReceiveLife, TeardownLife DEF Step

-----------------------------------------------------------------------------
\* Completions, calls of the application, and the peer.

LEMMA HandAcceptLife ==
  ASSUME TypeOK, TypeOK', LifeInv, NEW t \in Threads, NEW c \in Contexts, NEW kind \in Embedded,
         HandAccept(t, c, kind) \/ HandAcceptError(t, c, kind)
  PROVE  LifeInv'
<1>0. thr \in [Threads -> Thread] /\ ctx \in [Contexts -> SocketContext] /\ fresh \subseteq Contexts
  BY DEF TypeOK
<1>1. /\ thr[t].pc = "idle" /\ ops[c][kind] > 0 /\ ctx[c].op = "accept" /\ Unpost(c, kind)
      /\ UNCHANGED <<fresh, listing, uUserNum, added, deleted>>
  BY DEF HandAccept, HandAcceptError, Dispatched, At, pools, users
<1>2. kind = "accept"
  <2>1. kind = "recv" => FALSE
    BY <1>1 DEF LifeInv, Told
  <2> QED
    BY <2>1 DEF Embedded
<1>3. c \notin fresh
  BY <1>1, <1>2 DEF LifeInv, FirstLife, OpKinds
<1>4. Find(ctx[c].key) # NoCtx => Find(ctx[c].key) = c
  BY <1>3, FoundItself
<1>5. /\ \A d \in Contexts \ {c} : ops'[d] = ops[d]
      /\ ops'[c].accept = ops[c].accept - 1
      /\ ops'[c].recv = ops[c].recv /\ ops'[c].send = ops[c].send
  BY <1>1, <1>2, UnpostFields DEF OpKinds
<1>6. /\ \A d \in Contexts \ {c} : ctx'[d] = ctx[d]
      /\ ctx'[c].key = ctx[c].key /\ ctx'[c].flag = ctx[c].flag /\ ctx'[c].op = ctx[c].op
  <2>1. ctx' = ctx \/ ctx' = [ctx EXCEPT ![c].sock = "conn"]
    BY DEF HandAccept, HandAcceptError
  <2>2. ctx[c] \in SocketContext
    BY <1>0
  <2> QED
    BY <1>0, <2>1, <2>2 DEF SocketContext
<1>7. /\ \A u \in Threads \ {t} : thr'[u] = thr[u]
      /\ \/ /\ thr'[t].pc = "AddUser" /\ thr'[t].c = c /\ thr'[t].next = "PostAcceptEx"
            /\ lostSlots' = lostSlots
         \/ /\ thr'[t].pc = "AcceptFailed" /\ thr'[t].c = c /\ thr'[t].next = "idle"
            /\ lostSlots' = lostSlots + 1
         \/ thr'[t] = thr[t] /\ lostSlots' = lostSlots + 1
  <2>1. \/ Enter(t, c, "AddUser", "PostAcceptEx") /\ lostSlots' = lostSlots
        \/ Enter(t, c, "AcceptFailed", "idle") /\ lostSlots' = lostSlots + 1
        \/ thr' = thr /\ lostSlots' = lostSlots + 1
    BY <1>4 DEF HandAccept, HandAcceptError
  <2>2. CASE Enter(t, c, "AddUser", "PostAcceptEx") /\ lostSlots' = lostSlots
    BY <1>0, <2>2, EnterFields
  <2>3. CASE Enter(t, c, "AcceptFailed", "idle") /\ lostSlots' = lostSlots + 1
    BY <1>0, <2>3, EnterFields
  <2>4. CASE thr' = thr /\ lostSlots' = lostSlots + 1
    BY <2>4
  <2> QED
    BY <2>1, <2>2, <2>3, <2>4
<1>8. ops[c].accept > 0
  BY <1>1, <1>2
<1> QED
  BY <1>1, <1>5, <1>6, <1>7, <1>8, TakeAccept

LEMMA HandReceiveLife ==
  ASSUME TypeOK, TypeOK', LifeInv, NEW t \in Threads, NEW c \in Contexts,
         HandReceiveData(t, c) \/ HandReceiveEnd(t, c)
  PROVE  LifeInv'
<1>0. thr \in [Threads -> Thread]
  BY DEF TypeOK
<1>1. /\ thr[t].pc = "idle" /\ ops[c].recv > 0 /\ Unpost(c, "recv")
      /\ UNCHANGED <<ctx, fresh, listing, uUserNum, added, deleted, lostSlots>>
      /\ Enter(t, c, "HandData", "idle") \/ Enter(t, c, "ReCycle", "idle")
  BY DEF HandReceiveData, HandReceiveEnd, Dispatched, At, pools, users
<1>2. ctx[c].key \in added
  BY <1>1 DEF LifeInv, Told
<1>3. /\ \A d \in Contexts \ {c} : ops'[d] = ops[d]
      /\ ops'[c].accept = ops[c].accept /\ ops'[c].recv = ops[c].recv - 1
      /\ ops'[c].send = ops[c].send
  BY <1>1, UnpostFields DEF OpKinds
<1>4. /\ \A u \in Threads \ {t} : thr'[u] = thr[u]
      /\ thr'[t].pc \in {"HandData", "ReCycle"} /\ thr'[t].c = c /\ thr'[t].next = "idle"
  BY <1>0, <1>1, EnterFields
<1> QED
  BY <1>1, <1>2, <1>3, <1>4, EnterStep

LEMMA HandSendLife ==
  ASSUME TypeOK, TypeOK', LifeInv, NEW t \in Threads, NEW c \in Contexts, HandSend(t, c)
  PROVE  LifeInv'
<1>0. thr \in [Threads -> Thread]
  BY DEF TypeOK
<1>1. /\ thr[t].pc = "idle" /\ ops[c].send > 0 /\ Unpost(c, "send")
      /\ UNCHANGED <<ctx, fresh, listing, uUserNum, added, deleted, lostSlots>>
      /\ Enter(t, c, "PostSend", "idle") \/ Enter(t, c, "ReCycle", "idle")
  BY DEF HandSend, At, pools, users
<1>2. ctx[c].key \in added
  BY <1>1 DEF LifeInv, Told
<1>3. /\ \A d \in Contexts \ {c} : ops'[d] = ops[d]
      /\ ops'[c].accept = ops[c].accept /\ ops'[c].recv = ops[c].recv
  BY <1>1, UnpostFields DEF OpKinds
<1>4. /\ \A u \in Threads \ {t} : thr'[u] = thr[u]
      /\ thr'[t].pc \in {"PostSend", "ReCycle"} /\ thr'[t].c = c /\ thr'[t].next = "idle"
  BY <1>0, <1>1, EnterFields
<1> QED
  BY <1>1, <1>2, <1>3, <1>4, EnterStep

LEMMA HandDisconnectLife ==
  ASSUME TypeOK, LifeInv, NEW t \in Threads, NEW c \in Contexts, HandDisconnect(t, c)
  PROVE  LifeInv'
<1>0. ctx \in [Contexts -> SocketContext] /\ ctx[c] \in SocketContext
  BY DEF TypeOK
<1>1. /\ ops[c].disc > 0 /\ Unpost(c, "disc")
      /\ UNCHANGED <<thr, fresh, listing, uUserNum, added, deleted, lostSlots>>
      /\ \E s : ctx' = [ctx EXCEPT ![c].sock = s, ![c].inUse = FALSE]
  BY DEF HandDisconnect, Put, users
<1>2. c \notin fresh
  BY <1>1 DEF LifeInv, FirstLife, OpKinds
<1>3. /\ \A d \in Contexts \ {c} : ops'[d] = ops[d]
      /\ ops'[c].accept = ops[c].accept /\ ops'[c].recv = ops[c].recv
      /\ ops'[c].send = ops[c].send
  BY <1>1, UnpostFields DEF OpKinds
<1>4. /\ \A d \in Contexts \ {c} : ctx'[d] = ctx[d]
      /\ ctx'[c].key = ctx[c].key /\ ctx'[c].flag = ctx[c].flag /\ ctx'[c].op = ctx[c].op
  BY <1>0, <1>1 DEF SocketContext
<1> QED
  BY <1>1, <1>2, <1>3, <1>4, FieldStep

LEMMA PeerClosesLife ==
  ASSUME TypeOK, LifeInv, NEW c \in Contexts, PeerCloses(c)
  PROVE  LifeInv'
<1>0. ctx \in [Contexts -> SocketContext] /\ ctx[c] \in SocketContext
  BY DEF TypeOK
<1>1. /\ ctx[c].sock = "conn" /\ ctx' = [ctx EXCEPT ![c].gone = TRUE]
      /\ UNCHANGED <<thr, ops, fresh, listing, uUserNum, added, deleted, lostSlots>>
  BY DEF PeerCloses, pools, users
<1>2. c \notin fresh
  BY <1>1 DEF LifeInv, FirstLife, NewContext
<1>3. /\ \A d \in Contexts \ {c} : ctx'[d] = ctx[d]
      /\ ctx'[c].key = ctx[c].key /\ ctx'[c].flag = ctx[c].flag /\ ctx'[c].op = ctx[c].op
  BY <1>0, <1>1 DEF SocketContext
<1> QED
  BY <1>1, <1>2, <1>3, FieldStep

LEMMA CallLife ==
  ASSUME TypeOK, TypeOK', LifeInv, NEW t \in Threads, NEW k \in Keys,
         Send(t, k) \/ Disconnect(t, k)
  PROVE  LifeInv'
<1>0. thr \in [Threads -> Thread] /\ listing \in [Keys -> Contexts \cup {NoCtx}]
  BY DEF TypeOK
<1>1. /\ thr[t].pc = "idle" /\ k \in added
      /\ UNCHANGED <<ctx, ops, fresh, listing, uUserNum, added, deleted, lostSlots>>
      /\ \/ UNCHANGED thr
         \/ /\ listing[k] # NoCtx
            /\ \/ Enter(t, listing[k], "PackSendData", "idle")
               \/ Enter(t, listing[k], "ReCycle", "idle")
  BY DEF Send, Disconnect, Call, Find, At, pools, users
<1>2. CASE UNCHANGED thr
  BY <1>1, <1>2 DEF LifeInv, FirstLife, Positions, Told, Exclusive, Alive, Slots,
     PostedReceives, Receivers, Closers, Accepts, Posters
<1>3. CASE listing[k] # NoCtx /\ \/ Enter(t, listing[k], "PackSendData", "idle")
                                 \/ Enter(t, listing[k], "ReCycle", "idle")
  <2>1. PICK c \in Contexts : c = listing[k]
    BY <1>0, <1>3
  <2>2. ctx[c].key \in added
    BY <1>1, <1>3, <2>1 DEF LifeInv, FirstLife
  <2>3. /\ \A u \in Threads \ {t} : thr'[u] = thr[u]
        /\ thr'[t].pc \in {"PackSendData", "ReCycle"} /\ thr'[t].c = c /\ thr'[t].next = "idle"
    BY <1>0, <1>3, <2>1, EnterFields
  <2> QED
    BY <1>1, <2>2, <2>3, EnterStep
<1> QED
  BY <1>1, <1>2, <1>3

LEMMA InitLife == Init => LifeInv
<1> SUFFICES ASSUME Init PROVE LifeInv
  OBVIOUS
<1>1. PICK first \in [1..MaxAccept -> Contexts] :
        /\ \A i, j \in 1..MaxAccept : first[i] = first[j] => i = j
        /\ ctx = [c \in Contexts |->
                    IF c \in {first[k] : k \in 1..MaxAccept}
                    THEN Accepting(CHOOSE k \in 1..MaxAccept : first[k] = c)
                    ELSE NewContext]
        /\ fresh = Contexts \ {first[k] : k \in 1..MaxAccept}
        /\ listing = [k \in Keys |-> IF k <= MaxAccept THEN first[k] ELSE NoCtx]
        /\ ops = [c \in Contexts |->
                    [NoOps EXCEPT !.accept =
                       IF c \in {first[k] : k \in 1..MaxAccept} THEN 1 ELSE 0]]
  BY DEF Init
<1>2. /\ uUserNum = MaxAccept + 1 /\ thr = [t \in Threads |-> Idle]
      /\ added = {} /\ deleted = {} /\ lostSlots = 0
  BY DEF Init
<1>3. MaxAccept \in Nat
  BY BoundAssumption
<1>4. \A t \in Threads : thr[t].pc = "idle" /\ thr[t].c = NoCtx /\ thr[t].next = "idle"
  BY <1>2 DEF Idle
<1> DEFINE Posted == {first[k] : k \in 1..MaxAccept}
           KeyOf(c) == CHOOSE k \in 1..MaxAccept : first[k] = c
<1>5. \A k \in 1..MaxAccept : first[k] \in Posted /\ KeyOf(first[k]) = k
  BY <1>1
<1>6. \A c \in Posted : c \in Contexts /\ KeyOf(c) \in 1..MaxAccept /\ first[KeyOf(c)] = c
  BY <1>1
<1>7. \A c \in Contexts : ctx[c] = IF c \in Posted THEN Accepting(KeyOf(c)) ELSE NewContext
  BY <1>1
<1>8. \A c \in Contexts : /\ ops[c].accept = IF c \in Posted THEN 1 ELSE 0
                          /\ ops[c].recv = 0 /\ ops[c].send = 0 /\ ops[c].disc = 0
  BY <1>1 DEF NoOps, OpKinds
<1>9. fresh = Contexts \ Posted
  BY <1>1
<1>10. \A k \in Keys : listing[k] = IF k <= MaxAccept THEN first[k] ELSE NoCtx
  BY <1>1
<1>11. \A k : Accepting(k).key = k /\ Accepting(k).op = "accept"
  BY DEF Accepting
<1> HIDE DEF Posted, KeyOf
<1>12. FirstLife
  <2>1. \A c \in fresh : /\ ctx[c] = NewContext
                         /\ \A kind \in OpKinds : ops[c][kind] = 0
                         /\ \A t \in Threads : thr[t].c # c
    BY <1>4, <1>7, <1>8, <1>9, NoCtxAssumption DEF OpKinds
  <2>2. \A c \in Contexts \ fresh : c \in Posted /\ ctx[c].key = KeyOf(c)
    BY <1>7, <1>9, <1>11
  <2>3. \A c \in Contexts \ fresh : ctx[c].key > 0 /\ ctx[c].key < uUserNum
    BY <1>2, <1>3, <1>6, <2>2
  <2>4. \A c, d \in Contexts \ fresh : ctx[c].key = ctx[d].key => c = d
    BY <1>6, <2>2
  <2>5. ASSUME NEW k \in Keys, listing[k] # NoCtx
        PROVE  listing[k] \notin fresh /\ ctx[listing[k]].key = k
    <3>1. k \in 1..MaxAccept /\ listing[k] = first[k]
      BY <1>3, <1>10, <2>5 DEF Keys
    <3>2. first[k] \in Posted /\ KeyOf(first[k]) = k /\ first[k] \in Contexts
      BY <1>5, <1>6, <3>1
    <3> QED
      BY <1>7, <1>9, <1>11, <3>1, <3>2
  <2> QED
    BY <1>2, <2>1, <2>3, <2>4, <2>5 DEF FirstLife
<1>13. Positions
  BY <1>4 DEF Positions
<1>14. Told
  BY <1>2, <1>4, <1>7, <1>8, <1>11 DEF Told
<1>15. Exclusive
  BY <1>4, <1>8 DEF Exclusive, PostedReceives, Receivers, ReceivePath
<1>16. Alive
  BY <1>2 DEF Alive
<1>17. Slots
  <2>1. Posters = {}
    BY <1>4 DEF Posters
  <2>2. Accepts = Posted
    BY <1>6, <1>8 DEF Accepts
  <2>3. IsFiniteSet(1..MaxAccept) /\ Cardinality(1..MaxAccept) = MaxAccept
    BY <1>3, BoundAssumption, FS_Interval
  <2>4. ExistsBijection(1..MaxAccept, Posted)
    <3>1. first \in [1..MaxAccept -> Posted]
      BY <1>5
    <3>2. first \in Bijection(1..MaxAccept, Posted)
      BY <1>1, <1>5, <1>6, <3>1 DEF Bijection, Injection, Surjection, IsInjective
    <3> QED
      BY <3>2 DEF ExistsBijection
  <2>5. IsFiniteSet(Posted) /\ Cardinality(Posted) = MaxAccept
    BY <2>3, <2>4, FS_Bijection
  <2> QED
    BY <1>2, <1>3, <2>1, <2>2, <2>5, FS_EmptySet DEF Slots
<1> QED
  BY <1>12, <1>13, <1>14, <1>15, <1>16, <1>17 DEF LifeInv

\* Within a first life every step keeps the invariant; a step that hands a
\* context out again says so, and nothing undoes that.
LEMMA NextLife ==
  ASSUME TypeOK, TypeOK', ~reused => LifeInv, [Next]_vars
  PROVE  ~reused' => LifeInv'
<1> SUFFICES ASSUME ~reused' PROVE LifeInv'
  OBVIOUS
<1>1. CASE UNCHANGED vars
  BY <1>1 DEF vars, LifeInv, FirstLife, Positions, Told, Exclusive, Alive, Slots,
     PostedReceives, Receivers, Closers, Accepts, Posters
<1>2. ASSUME NEW t \in Threads, Step(t) PROVE LifeInv'
  <2>1. ~reused
    <3>1. reused' = reused \/ reused' = TRUE
      BY <1>2
      DEF Step, AddUser, PostAcceptEx, AcceptEx, AcceptFailed, PostReceive, Receive, HandData,
          PackSendData, PostSend, WSASend, ReCycle, SetOne, CleanQueue, DeleteUser, SetTwo,
          CheckFlag, Erase, DisconnectEx, pools
    <3> QED
      BY <3>1 DEF TypeOK
  <2> QED
    BY <1>2, <2>1, StepLife
<1>3. ASSUME NEW t \in Workers, NEW c \in Contexts, Dispatch(t, c) PROVE LifeInv'
  <2>1. ~reused /\ t \in Threads
    BY <1>3
    DEF Dispatch, HandAccept, HandAcceptError, HandReceiveData, HandReceiveEnd, HandSend,
        HandDisconnect, pools, Threads
  <2> QED
    BY <1>3, <2>1, HandAcceptLife, HandReceiveLife, HandSendLife, HandDisconnectLife DEF Dispatch
<1>4. ASSUME NEW t \in Apps, NEW k \in Keys, Send(t, k) \/ Disconnect(t, k) PROVE LifeInv'
  <2>1. ~reused /\ t \in Threads
    BY <1>4 DEF Send, Disconnect, Call, pools, Threads
  <2> QED
    BY <1>4, <2>1, CallLife
<1>5. ASSUME NEW c \in Contexts, PeerCloses(c) PROVE LifeInv'
  <2>1. ~reused
    BY <1>5 DEF PeerCloses, pools
  <2> QED
    BY <1>5, <2>1, PeerClosesLife
<1> QED
  BY <1>1, <1>2, <1>3, <1>4, <1>5 DEF Next

LEMMA FirstLives == Spec => [](~reused => LifeInv)
<1>1. Init => (~reused => LifeInv)
  BY InitLife
<1>2. TypeOK /\ TypeOK' /\ (~reused => LifeInv) /\ [Next]_vars => (~reused => LifeInv)'
  BY NextLife
<1> QED
  BY <1>1, <1>2, TypeCorrect, PTL DEF Spec

\* The receive buffer of a context is in the hand of one operation or one
\* thread at a time, in the context's first life (IOCPBase.cpp, PostReceive).
THEOREM ReceivesExclusive == Spec => []ReceiveExclusive
<1>1. (~reused => LifeInv) => ReceiveExclusive
  BY DEF LifeInv, Exclusive, ReceiveExclusive
<1> QED
  BY <1>1, FirstLives, PTL

\* A connection the application was told of is listened to until somebody
\* closes it, in the context's first life (IOCPBase.cpp, HandReceive).
THEOREM ReceivesAlive == Spec => []ReceiveAlive
<1>1. (~reused => LifeInv) => ReceiveAlive
  BY DEF LifeInv, Alive, Closers, ReceiveAlive
<1> QED
  BY <1>1, FirstLives, PTL

\* The server keeps MaxAccept accepts open or on their way, less those that
\* failed (IOCPServer.cpp, HandAccept).
THEOREM SlotsKept == Spec => []AcceptSlots
<1>1. (~reused => LifeInv) => AcceptSlots
  BY DEF LifeInv, Slots, Accepts, Posters, OpenSlots, AcceptSlots
<1> QED
  BY <1>1, FirstLives, PTL

\* The application hears of a user first, then of its data and its end,
\* whichever threads tell it (TCPServer.cpp, AddUser and DeleteUser).
THEOREM CallbacksOrdered == Spec => []CallbackOrder
<1>1. (~reused => LifeInv) => CallbackOrder
  BY DEF LifeInv, Told, At, Ctx, CallbackOrder
<1> QED
  BY <1>1, FirstLives, PTL

=============================================================================
