--------------------------- MODULE IOCPConnection ---------------------------
(***************************************************************************)
(* The life of a server connection in IOCPCommunication: AcceptEx, user    *)
(* notification, the receive chain, the send chain and the teardown, as    *)
(* run by the completion-port workers (IOCPBase::WorkThread) and by the    *)
(* application threads that call Send and Disconnect at any moment.        *)
(*                                                                         *)
(* A step is one access to shared state: a load or a store of the atomic   *)
(* m_iDisconnectFlag, one critical section of lckConnectList,              *)
(* aLckSocketContext or a resource pool, one Winsock call, or one call     *)
(* into the application.                                                   *)
(***************************************************************************)
EXTENDS Naturals, Sequences, FiniteSets

CONSTANTS Workers,     \* completion-port threads, d->aThreadList
          Apps,        \* application threads calling Send and Disconnect
          Contexts,    \* PER_SOCKET_CONTEXT objects, a new block included
          NoCtx,       \* the null PER_SOCKET_CONTEXT pointer
          MaxAccept,   \* iMaxConnectCount, the number of posted AcceptEx
          Pieces,      \* IO contexts that PackSendData cuts a message into
          MaxClients,  \* bound: clients that connect
          MaxCalls     \* bound: calls of the application threads

ASSUME ThreadAssumption == Workers \cap Apps = {}
ASSUME NoCtxAssumption  == NoCtx \notin Contexts
ASSUME BoundAssumption  == /\ MaxAccept \in Nat \ {0}
                           /\ Pieces \in Nat \ {0}
                           /\ MaxClients \in Nat
                           /\ MaxCalls \in Nat

Threads == Workers \cup Apps

\* uUserNum hands out one key per posted accept and never takes one back.
Keys == 1..(MaxAccept + MaxClients)

VARIABLES
  ctx,        \* the socket contexts; inUse is membership of using_list_
  fresh,      \* unused_list_: contexts never handed out, all at its front
  returned,   \* unused_list_: contexts put back, oldest first
  listing,    \* mapConnectList: the context listed under a key
  uUserNum,   \* the key the next accept gets
  ops,        \* overlapped operations posted and not yet dispatched
  thr,        \* what every thread is doing
  added,      \* keys INetInterface::AddUser was called with
  deleted,    \* keys INetInterface::DeleteUser was called with
  arrivals,   \* clients that connected
  calls,      \* application calls made
  \* History, read by properties only.
  lostSlots,  \* accepts that ended without posting the next one
  reused      \* some context was handed out a second time

vars == <<ctx, fresh, returned, listing, uUserNum, ops, thr, added, deleted,
          arrivals, calls, lostSlots, reused>>

-----------------------------------------------------------------------------
\* State spaces

OpKinds == {"accept", "recv", "send", "disc"}
Embedded == {"accept", "recv"}     \* these use the context's m_ReceiveContext

SocketContext ==
  [key: Nat,                               \* m_uUserKey, 0 before first use
   sock: {"invalid", "idle", "conn"},      \* m_socket
   gone: BOOLEAN,                          \* the peer closed its end
   flag: 0..2,                             \* m_iDisconnectFlag
   op: {"unknown", "accept", "recv"},      \* m_ReceiveContext.m_oprateType
   q: Nat,                                 \* length of m_queueIoContext
   inUse: BOOLEAN]

Steps == {"idle",
          "AddUser", "PostAcceptEx", "AcceptEx", "AcceptFailed",
          "PostReceive", "Receive", "HandData",
          "PackSendData", "PostSend", "WSASend",
          "ReCycle", "SetOne", "CleanQueue", "DeleteUser", "SetTwo",
          "CheckFlag", "Erase", "DisconnectEx"}

Thread ==
  [pc: Steps,
   c: Contexts \cup {NoCtx},          \* pSkContext
   full: BOOLEAN,                     \* PostDisconnectEx, not only ReCycle
   next: {"idle", "PostAcceptEx"}]    \* what follows the current call

Idle == [pc |-> "idle", c |-> NoCtx, full |-> FALSE, next |-> "idle"]

NewContext == [key |-> 0, sock |-> "invalid", gone |-> FALSE, flag |-> 0,
               op |-> "unknown", q |-> 0, inUse |-> FALSE]

\* A context whose accept was posted under key k.
Accepting(k) == [key |-> k, sock |-> "idle", gone |-> FALSE, flag |-> 0,
                 op |-> "accept", q |-> 0, inUse |-> TRUE]

NoOps == [k \in OpKinds |-> 0]

-----------------------------------------------------------------------------
\* Helpers

At(t, pc) == thr[t].pc = pc
Ctx(t) == ctx[thr[t].c]

\* Thread t goes on inside the same call, to step pc.
Goto(t, pc) == thr' = [thr EXCEPT ![t].pc = pc]

\* The call is over: back to the caller's next step.
Return(t) == thr' = [thr EXCEPT ![t] = [Idle EXCEPT !.pc = thr[t].next]]

\* Thread t starts working on context c at step pc.
Enter(t, c, pc, next) ==
  thr' = [thr EXCEPT ![t] = [pc |-> pc, c |-> c, full |-> TRUE, next |-> next]]

Post(c, kind)   == ops' = [ops EXCEPT ![c][kind] = @ + 1]
Unpost(c, kind) == ops' = [ops EXCEPT ![c][kind] = @ - 1]

SetFlag(c, v) == ctx' = [ctx EXCEPT ![c].flag = v]

\* Mutant: put without the using_list_ test.
Put_Unchecked(c, s) ==
  /\ ctx' = [ctx EXCEPT ![c].sock = s, ![c].inUse = FALSE]
  /\ returned' = Append(returned, c)

\* ResourceManage::put after the socket field was left as s: a context that
\* is not in using_list_ is refused, so it never enters the list twice.
Put(c, s) ==
  /\ ctx' = [ctx EXCEPT ![c].sock = s, ![c].inUse = FALSE]
  /\ returned' = IF ctx[c].inUse THEN Append(returned, c) ELSE returned

\* mapConnectList.find(k), NoCtx for end().
Find(k) == IF k \in Keys THEN listing[k] ELSE NoCtx

Unlist(k) == listing' = [listing EXCEPT ![k] = NoCtx]

\* A completion with an error or with zero bytes: the peer closed its end, or
\* the socket was disconnected or closed here.
Broken(c) == ctx[c].sock # "conn" \/ ctx[c].gone

-----------------------------------------------------------------------------
\* The server has just started: StartServerListen posted MaxAccept accepts.

Init ==
  \E first \in [1..MaxAccept -> Contexts] :
    /\ \A i, j \in 1..MaxAccept : first[i] = first[j] => i = j
    /\ LET key(c) == CHOOSE k \in 1..MaxAccept : first[k] = c
           posted == {first[k] : k \in 1..MaxAccept}
       IN /\ ctx = [c \in Contexts |->
                      IF c \in posted
                      THEN Accepting(key(c)) ELSE NewContext]
          /\ fresh = Contexts \ posted
          /\ listing = [k \in Keys |->
                          IF k <= MaxAccept THEN first[k] ELSE NoCtx]
          /\ ops = [c \in Contexts |->
                      [NoOps EXCEPT !.accept = IF c \in posted THEN 1 ELSE 0]]
    /\ returned = <<>>
    /\ uUserNum = MaxAccept + 1
    /\ thr = [t \in Threads |-> Idle]
    /\ added = {}
    /\ deleted = {}
    /\ arrivals = 0
    /\ calls = 0
    /\ lostSlots = 0
    /\ reused = FALSE

pools   == <<fresh, returned, reused>>
users   == <<added, deleted>>
bounds  == <<arrivals, calls>>

-----------------------------------------------------------------------------
\* The completion port: WorkThread takes a completion and dispatches it on the
\* m_oprateType it finds in the IO context at that moment.

Dispatched(t, c, kind, op) ==
  /\ t \in Workers
  /\ At(t, "idle")
  /\ ops[c][kind] > 0
  /\ ctx[c].op = op
  /\ Unpost(c, kind)

\* Mutant: no PostAcceptEx after the connection is set up.
HandAccept_NoRepost(t, c, kind) ==
  /\ Dispatched(t, c, kind, "accept")
  /\ arrivals < MaxClients
  /\ kind = "accept" => ctx[c].sock = "idle"
  /\ arrivals' = arrivals + 1
  /\ ctx' = IF kind = "accept" THEN [ctx EXCEPT ![c].sock = "conn"] ELSE ctx
  /\ Enter(t, c, "AddUser", "idle")
  /\ UNCHANGED <<pools, listing, uUserNum, users, calls, lostSlots>>

\* HandAccept, a client connected. The context is the one listed under the
\* key stored in the IO context; without it the completion is dropped.
HandAccept(t, c, kind) ==
  /\ Dispatched(t, c, kind, "accept")
  /\ arrivals < MaxClients
  /\ kind = "accept" => ctx[c].sock = "idle"
  /\ arrivals' = arrivals + 1
  /\ ctx' = IF kind = "accept" THEN [ctx EXCEPT ![c].sock = "conn"] ELSE ctx
  /\ IF Find(ctx[c].key) # NoCtx
     THEN /\ Enter(t, Find(ctx[c].key), "AddUser", "PostAcceptEx")
          /\ UNCHANGED lostSlots
     ELSE /\ lostSlots' = lostSlots + 1
          /\ UNCHANGED thr
  /\ UNCHANGED <<pools, listing, uUserNum, users, calls>>

\* HandAccept, the accept failed: the client reset it, or the socket is gone.
HandAcceptError(t, c, kind) ==
  /\ Dispatched(t, c, kind, "accept")
  /\ kind = "recv" => Broken(c)
  /\ lostSlots' = lostSlots + 1
  /\ IF Find(ctx[c].key) # NoCtx
     THEN Enter(t, Find(ctx[c].key), "AcceptFailed", "idle")
     ELSE UNCHANGED thr
  /\ UNCHANGED <<ctx, pools, listing, uUserNum, users, bounds>>

\* HandReceive with data.
HandReceiveData(t, c) ==
  /\ Dispatched(t, c, "recv", "recv")
  /\ Enter(t, c, "HandData", "idle")
  /\ UNCHANGED <<ctx, pools, listing, uUserNum, users, bounds, lostSlots>>

\* Mutant: the end of the stream is logged and nothing else.
HandReceiveEnd_Ignored(t, c) ==
  /\ Dispatched(t, c, "recv", "recv")
  /\ Broken(c)
  /\ UNCHANGED <<ctx, pools, listing, uUserNum, thr, users, bounds, lostSlots>>

\* HandReceive with an error or zero bytes.
HandReceiveEnd(t, c) ==
  /\ Dispatched(t, c, "recv", "recv")
  /\ Broken(c)
  /\ Enter(t, c, "ReCycle", "idle")
  /\ UNCHANGED <<ctx, pools, listing, uUserNum, users, bounds, lostSlots>>

\* Mutant: the completed send goes on with a receive.
HandSend_PostsReceive(t, c) ==
  /\ t \in Workers
  /\ At(t, "idle")
  /\ ops[c].send > 0
  /\ Unpost(c, "send")
  /\ Enter(t, c, "PostReceive", "idle")
  /\ UNCHANGED <<ctx, pools, listing, uUserNum, users, bounds, lostSlots>>

\* HandSend: a sent piece makes room for the next one, a failure tears down.
HandSend(t, c) ==
  /\ t \in Workers
  /\ At(t, "idle")
  /\ ops[c].send > 0
  /\ Unpost(c, "send")
  /\ \/ Enter(t, c, "PostSend", "idle")
     \/ Broken(c) /\ Enter(t, c, "ReCycle", "idle")
  /\ UNCHANGED <<ctx, pools, listing, uUserNum, users, bounds, lostSlots>>

\* HandDisconnect: the context goes back to its pool, its socket is kept for
\* reuse when the disconnect succeeded.
HandDisconnect(t, c) ==
  /\ t \in Workers
  /\ At(t, "idle")
  /\ ops[c].disc > 0
  /\ Unpost(c, "disc")
  /\ \E s \in {ctx[c].sock, "invalid"} : Put(c, s)
  /\ UNCHANGED <<fresh, reused, listing, uUserNum, thr, users, bounds, lostSlots>>

-----------------------------------------------------------------------------
\* Accepting: the rest of HandAccept and PostAcceptEx

\* Mutant: the application is not told of the new user.
AddUser_NotCalled(t) ==
  /\ At(t, "AddUser")
  /\ Goto(t, "PostReceive")
  /\ UNCHANGED <<ctx, pools, listing, uUserNum, ops, users, bounds, lostSlots>>

AddUser(t) ==
  /\ At(t, "AddUser")
  /\ added' = added \cup {Ctx(t).key}
  /\ Goto(t, "PostReceive")
  /\ UNCHANGED <<ctx, pools, listing, uUserNum, ops, deleted, bounds, lostSlots>>

\* get() takes the front of the list; Reset leaves the socket and the queue.
PostAcceptEx(t) ==
  /\ At(t, "PostAcceptEx")
  /\ \E c \in Contexts :
       /\ \/ /\ c \in fresh
             /\ fresh' = fresh \ {c}
             /\ UNCHANGED <<returned, reused>>
          \/ /\ fresh = {}
             /\ returned # <<>>
             /\ c = Head(returned)
             /\ returned' = Tail(returned)
             /\ reused' = TRUE
             /\ UNCHANGED fresh
       /\ ctx' = [ctx EXCEPT ![c] = [NewContext EXCEPT !.key = uUserNum,
                    !.sock = ctx[c].sock, !.q = ctx[c].q, !.inUse = TRUE]]
       /\ listing' = [listing EXCEPT ![uUserNum] = c]
       /\ Enter(t, c, "AcceptEx", "idle")
  /\ uUserNum' = uUserNum + 1
  /\ UNCHANGED <<ops, users, bounds, lostSlots>>

\* The five attempts of PostAcceptEx: one succeeds, Socket() fails in one of
\* them, or all of them are refused.
AcceptEx(t) ==
  /\ At(t, "AcceptEx")
  /\ \/ /\ ctx' = [ctx EXCEPT ![thr[t].c].sock = "idle",
                              ![thr[t].c].op = "accept"]
        /\ Post(thr[t].c, "accept")
        /\ Return(t)
        /\ UNCHANGED lostSlots
     \/ /\ ctx' = [ctx EXCEPT ![thr[t].c].sock = "invalid"]
        /\ Goto(t, "AcceptFailed") \/ Return(t)
        /\ lostSlots' = lostSlots + 1
        /\ UNCHANGED ops
  /\ UNCHANGED <<pools, listing, uUserNum, users, bounds>>

\* The end of a failed PostAcceptEx or HandAccept; nobody else can reach the
\* context once it is off the list, so erase and put are one step.
AcceptFailed(t) ==
  /\ At(t, "AcceptFailed")
  /\ Unlist(Ctx(t).key)
  /\ Put(thr[t].c, Ctx(t).sock)
  /\ Return(t)
  /\ UNCHANGED <<fresh, reused, uUserNum, ops, users, bounds, lostSlots>>

-----------------------------------------------------------------------------
\* The receive chain

PostReceive(t) ==
  /\ At(t, "PostReceive")
  /\ IF Ctx(t).flag > 0
     THEN thr' = [thr EXCEPT ![t].pc = "ReCycle", ![t].full = FALSE]
     ELSE Goto(t, "Receive")
  /\ UNCHANGED <<ctx, pools, listing, uUserNum, ops, users, bounds, lostSlots>>

\* WSARecv; the operation type is stored before the call.
Receive(t) ==
  /\ At(t, "Receive")
  /\ ctx' = [ctx EXCEPT ![thr[t].c].op = "recv"]
  /\ \/ /\ Ctx(t).sock = "conn"
        /\ Post(thr[t].c, "recv")
        /\ Return(t)
     \/ Goto(t, "ReCycle") /\ UNCHANGED ops
  /\ UNCHANGED <<pools, listing, uUserNum, users, bounds, lostSlots>>

\* Mutant: an incomplete packet leaves the loop without the next receive.
HandData_DropsPartial(t) ==
  /\ At(t, "HandData")
  /\ Return(t) \/ Goto(t, "PostReceive") \/ Goto(t, "ReCycle")
  /\ UNCHANGED <<ctx, pools, listing, uUserNum, ops, users, bounds, lostSlots>>

\* UnpackReceivedData: messages go to the application, then the next receive
\* is posted, or a malformed packet ends the connection.
HandData(t) ==
  /\ At(t, "HandData")
  /\ Goto(t, "PostReceive") \/ Goto(t, "ReCycle")
  /\ UNCHANGED <<ctx, pools, listing, uUserNum, ops, users, bounds, lostSlots>>

-----------------------------------------------------------------------------
\* The send chain

Call(t, k, pc) ==
  /\ t \in Apps
  /\ At(t, "idle")
  /\ k \in added
  /\ calls < MaxCalls
  /\ calls' = calls + 1
  /\ IF Find(k) = NoCtx
     THEN UNCHANGED thr
     ELSE Enter(t, Find(k), pc, "idle")
  /\ UNCHANGED <<ctx, pools, listing, uUserNum, ops, users, arrivals, lostSlots>>

Send(t, k)       == Call(t, k, "PackSendData")
Disconnect(t, k) == Call(t, k, "ReCycle")

PackSendData(t) ==
  /\ At(t, "PackSendData")
  /\ ctx' = IF Ctx(t).flag = 1 THEN ctx
            ELSE [ctx EXCEPT ![thr[t].c].q = @ + Pieces]
  /\ Goto(t, "PostSend")
  /\ UNCHANGED <<pools, listing, uUserNum, ops, users, bounds, lostSlots>>

\* Mutant: pops without testing for an empty queue.
PostSend_NoEmptyTest(t) ==
  /\ At(t, "PostSend")
  /\ ctx' = [ctx EXCEPT ![thr[t].c].q = @ - 1]
  /\ Goto(t, "WSASend")
  /\ UNCHANGED <<pools, listing, uUserNum, ops, users, bounds, lostSlots>>

PostSend(t) ==
  /\ At(t, "PostSend")
  /\ IF Ctx(t).q = 0
     THEN Return(t) /\ UNCHANGED ctx
     ELSE /\ ctx' = [ctx EXCEPT ![thr[t].c].q = @ - 1]
          /\ Goto(t, "WSASend")
  /\ UNCHANGED <<pools, listing, uUserNum, ops, users, bounds, lostSlots>>

WSASend(t) ==
  /\ At(t, "WSASend")
  /\ \/ /\ Ctx(t).sock = "conn"
        /\ Post(thr[t].c, "send")
        /\ Return(t)
     \/ Goto(t, "ReCycle") /\ UNCHANGED ops
  /\ UNCHANGED <<ctx, pools, listing, uUserNum, users, bounds, lostSlots>>

-----------------------------------------------------------------------------
\* Teardown: ReCycleSocketRsc and the rest of PostDisconnectEx

AfterReCycle(t) == IF thr[t].full THEN Goto(t, "CheckFlag") ELSE Return(t)

ReCycle(t) ==
  /\ At(t, "ReCycle")
  /\ CASE Ctx(t).flag = 0 -> Goto(t, "SetOne")
       [] Ctx(t).flag = 1 -> Goto(t, "SetTwo")
       [] OTHER           -> AfterReCycle(t)
  /\ UNCHANGED <<ctx, pools, listing, uUserNum, ops, users, bounds, lostSlots>>

SetOne(t) ==
  /\ At(t, "SetOne")
  /\ SetFlag(thr[t].c, 1)
  /\ Goto(t, "CleanQueue")
  /\ UNCHANGED <<pools, listing, uUserNum, ops, users, bounds, lostSlots>>

CleanQueue(t) ==
  /\ At(t, "CleanQueue")
  /\ ctx' = [ctx EXCEPT ![thr[t].c].q = 0]
  /\ Goto(t, "DeleteUser")
  /\ UNCHANGED <<pools, listing, uUserNum, ops, users, bounds, lostSlots>>

DeleteUser(t) ==
  /\ At(t, "DeleteUser")
  /\ deleted' = deleted \cup {Ctx(t).key}
  /\ AfterReCycle(t)
  /\ UNCHANGED <<ctx, pools, listing, uUserNum, ops, added, bounds, lostSlots>>

SetTwo(t) ==
  /\ At(t, "SetTwo")
  /\ SetFlag(thr[t].c, 2)
  /\ AfterReCycle(t)
  /\ UNCHANGED <<pools, listing, uUserNum, ops, users, bounds, lostSlots>>

\* if (1 != pSkContext->m_iDisconnectFlag) return;
CheckFlag(t) ==
  /\ At(t, "CheckFlag")
  /\ IF Ctx(t).flag = 1 THEN Goto(t, "Erase") ELSE Return(t)
  /\ UNCHANGED <<ctx, pools, listing, uUserNum, ops, users, bounds, lostSlots>>

Erase(t) ==
  /\ At(t, "Erase")
  /\ Unlist(Ctx(t).key)
  /\ Goto(t, "DisconnectEx")
  /\ UNCHANGED <<ctx, pools, uUserNum, ops, users, bounds, lostSlots>>

\* A posted disconnect takes the connection down; a refused one closes the
\* socket and puts the context back at once.
DisconnectEx(t) ==
  /\ At(t, "DisconnectEx")
  /\ \/ /\ Ctx(t).sock = "conn"
        /\ Post(thr[t].c, "disc")
        /\ ctx' = [ctx EXCEPT ![thr[t].c].sock = "idle"]
        /\ UNCHANGED returned
     \/ Put(thr[t].c, "invalid") /\ UNCHANGED ops
  /\ Return(t)
  /\ UNCHANGED <<fresh, reused, listing, uUserNum, users, bounds, lostSlots>>

-----------------------------------------------------------------------------
\* The peer closes its end.
PeerCloses(c) ==
  /\ ctx[c].sock = "conn"
  /\ ~ctx[c].gone
  /\ ctx' = [ctx EXCEPT ![c].gone = TRUE]
  /\ UNCHANGED <<pools, listing, uUserNum, ops, thr, users, bounds, lostSlots>>

\* The steps of a thread inside a call.
Step(t) ==
  \/ AddUser(t) \/ PostAcceptEx(t) \/ AcceptEx(t) \/ AcceptFailed(t)
  \/ PostReceive(t) \/ Receive(t) \/ HandData(t)
  \/ PackSendData(t) \/ PostSend(t) \/ WSASend(t)
  \/ ReCycle(t) \/ SetOne(t) \/ CleanQueue(t) \/ DeleteUser(t) \/ SetTwo(t)
  \/ CheckFlag(t) \/ Erase(t) \/ DisconnectEx(t)

Dispatch(t, c) ==
  \/ \E kind \in Embedded : HandAccept(t, c, kind) \/ HandAcceptError(t, c, kind)
  \/ HandReceiveData(t, c) \/ HandReceiveEnd(t, c)
  \/ HandSend(t, c)
  \/ HandDisconnect(t, c)

Next ==
  \/ \E t \in Threads : Step(t)
  \/ \E t \in Workers, c \in Contexts : Dispatch(t, c)
  \/ \E t \in Apps, k \in Keys : Send(t, k) \/ Disconnect(t, k)
  \/ \E c \in Contexts : PeerCloses(c)

Spec == Init /\ [][Next]_vars

\* The port is a FIFO queue and its workers are ordinary threads: a thread
\* inside a call goes on, and a queued completion is taken in the end however
\* many others are queued beside it.
FairSpec ==
  /\ Spec
  /\ \A t \in Threads : WF_vars(Step(t))
  /\ \A c \in Contexts :
       /\ SF_vars(\E t \in Workers : HandReceiveEnd(t, c))
       /\ SF_vars(\E t \in Workers : HandSend(t, c))
       /\ SF_vars(\E t \in Workers : HandDisconnect(t, c))

-----------------------------------------------------------------------------
(***************************************************************************)
(* Properties.  ResourceManage hands contexts out oldest first from a      *)
(* block of SOCKET_RESOURCE_COUNT, so a server's first hundred accepts all *)
(* use a context for the first time.  The code does not wait for the       *)
(* operations still posted on a context before it puts it back, and what   *)
(* holds in a context's first life is lost in its second; the properties   *)
(* that need a first life say so with ~reused.                             *)
(***************************************************************************)

\* Every variable has its type, and a thread inside a call has a context.
TypeOK ==
  /\ ctx \in [Contexts -> SocketContext]
  /\ fresh \subseteq Contexts
  /\ returned \in Seq(Contexts)
  /\ listing \in [Keys -> Contexts \cup {NoCtx}]
  /\ uUserNum \in Nat \ {0}
  /\ ops \in [Contexts -> [OpKinds -> Nat]]
  /\ thr \in [Threads -> Thread]
  /\ \A t \in Threads :
       thr[t].pc \notin {"idle", "PostAcceptEx"} => thr[t].c \in Contexts
  /\ added \subseteq Nat
  /\ deleted \subseteq Nat
  /\ arrivals \in 0..MaxClients
  /\ calls \in 0..MaxCalls
  /\ lostSlots \in Nat
  /\ reused \in BOOLEAN

\* Threads on the way from a dispatched accept or receive to the next receive.
ReceivePath == {"AcceptEx", "AddUser", "PostReceive", "Receive", "HandData"}
Receivers(c) == {t \in Threads : thr[t].c = c /\ thr[t].pc \in ReceivePath}
PostedReceives(c) == ops[c].accept + ops[c].recv

\* m_ReceiveContext is embedded in the socket context and has no lock: its
\* buffer is safe only because one operation on it is posted, or one thread
\* handles it, never two of these at once.
ReceiveExclusive ==
  ~reused => \A c \in Contexts :
    /\ PostedReceives(c) <= 1
    /\ PostedReceives(c) = 1 => Receivers(c) = {}
    /\ \A t, u \in Receivers(c) : t = u

\* A connection the application knows and nobody is closing is being listened
\* to: a receive is posted, a thread is about to post it, or a thread is about
\* to close the connection.  Nothing else would ever notice that the peer left.
ReceiveAlive ==
  ~reused => \A c \in Contexts :
    ctx[c].key \in added /\ ctx[c].flag = 0 =>
      \/ PostedReceives(c) > 0
      \/ Receivers(c) # {}
      \/ \E t \in Threads : thr[t].c = c /\ thr[t].pc \in {"ReCycle", "SetOne"}

\* HandAccept posts the next accept itself: the server keeps iMaxConnectCount
\* accepts open, and loses one only with each accept that failed.
OpenSlots ==
  Cardinality({c \in Contexts : ops[c].accept > 0})
  + Cardinality({t \in Threads : \/ thr[t].next = "PostAcceptEx"
                                 \/ thr[t].pc \in {"PostAcceptEx", "AcceptEx"}})
AcceptSlots == ~reused => OpenSlots + lostSlots = MaxAccept

\* The application hears AddUser(k) before any data of k and before
\* DeleteUser(k), whichever threads make the three calls.
CallbackOrder ==
  ~reused => /\ deleted \subseteq added
             /\ \A t \in Threads : At(t, "HandData") => Ctx(t).key \in added

\* However often two teardowns put the same context back, in whatever life,
\* the pool never holds it twice and never hands it to two connections.
PoolExact ==
  /\ \A i, j \in 1..Len(returned) : returned[i] = returned[j] => i = j
  /\ \A c \in Contexts :
       ctx[c].inUse <=> /\ c \notin fresh
                        /\ \A i \in 1..Len(returned) : returned[i] # c

\* When the peer of an accepted connection closes, the application is told by
\* DeleteUser, whatever else tears the connection down meanwhile.
PeerCloseNotified ==
  \A c \in Contexts, k \in Keys :
    (ctx[c].key = k /\ ctx[c].gone) ~> (k \in deleted \/ reused)

-----------------------------------------------------------------------------
\* What a comment of the code claims, and its steps do not keep.

\* ReCycleSocketRsc takes flag 1 to mean that the disconnect "has been handled
\* already": a user reported as gone leaves the connection list.
DisconnectHandled ==
  \A k \in Keys : k \in deleted ~> (listing[k] = NoCtx)
=============================================================================
