---------------------------- MODULE ServerConnect ----------------------------
(***************************************************************************)
(* The client's connections: QClientFramework's ServerConnect, which keeps *)
(* one entry per server and reconnects from a daemon thread, on top of     *)
(* IOCPClient, which lists the context of a server's connection under the  *)
(* server's key.  A key outlives its connections, so what one connection's *)
(* end does under the key may meet the next connection.                    *)
(*                                                                         *)
(* Of a connection only what the two maps and the callbacks depend on is   *)
(* kept; IOCPConnection has the flag's race, the queue and the pool.       *)
(***************************************************************************)
EXTENDS Integers, Sequences

CONSTANTS Workers,  \* completion-port threads
          App,      \* the controller's thread, the caller of the interface
          Daemon,   \* m_pThDeamenConnect
          Keys,     \* user keys, one per server
          Contexts, \* bound: one PER_SOCKET_CONTEXT per attempt to connect
          NoCtx,    \* null pointer, end(), no key, no thread
          Recnnts   \* the values of iRecnnt callers pass

ASSUME ClientAssumption ==
  /\ App \notin Workers /\ Daemon \notin Workers /\ App # Daemon
  /\ NoCtx \notin Contexts \cup Keys \cup Workers \cup {App, Daemon}
  /\ Recnnts \subseteq Int

Threads == Workers \cup {App, Daemon}

VARIABLES
  m_mapSrvInfo,   \* key -> entry
  m_lckSrvInfo,   \* its holder across steps: the daemon, or nobody
  todo,           \* keys the daemon's scan still has to connect
  mapConnectList, \* key -> context
  ctx,            \* the contexts
  thr,            \* what each thread does
  signals,        \* Qt signals emitted and not yet delivered to MainModel
  \* History, read by properties only.
  added,          \* keys AddConnect was called with
  failed,         \* keys whose first attempt failed inside AddConnect
  unlisted        \* contexts another connection took off the list

vars == <<m_mapSrvInfo, m_lckSrvInfo, todo, mapConnectList, ctx, thr, signals,
          added, failed, unlisted>>

SServerInfo == [known: BOOLEAN, iRecnnt: Recnnts \cup {0}, bNeedConnect: BOOLEAN]
Unknown == [known |-> FALSE, iRecnnt |-> 0, bNeedConnect |-> FALSE]

SocketContext == [key: Keys \cup {NoCtx},
                  sock: {"none", "idle", "conn", "down", \* no longer connected
                         "closed"},              \* INVALID_SOCKET
                  op: {"connect", "recv"},       \* m_ReceiveContext.m_oprateType
                  flag: 0..2,                            \* m_iDisconnectFlag
                  pend: SUBSET {"connect", "recv", "disc"}]
Unused == [key |-> NoCtx, sock |-> "none", op |-> "connect", flag |-> 0, pend |-> {}]

Steps == {"idle", "Connect", "ConnectEx", "ConnectFailed", "Lookup",
          "NotifyUp", "PostReceive", "Receive",
          "NotifyFailed", "NeedConnect", "EraseFailed",
          "ReCycle", "EmitDown", "DeleteUser", "CheckFlag", "Erase",
          "DisconnectEx"}
Thread == [pc: Steps, key: Keys \cup {NoCtx}, c: Contexts \cup {NoCtx},
           full: BOOLEAN]                        \* PostDisconnectEx
Idle == [pc |-> "idle", key |-> NoCtx, c |-> NoCtx, full |-> FALSE]

Signal == [kind: {"up", "failed", "down"}, key: Keys]

history == <<added, failed, unlisted>>

Init ==
  /\ m_mapSrvInfo = [k \in Keys |-> Unknown]
  /\ m_lckSrvInfo = NoCtx
  /\ todo = {}
  /\ mapConnectList = [k \in Keys |-> NoCtx]
  /\ ctx = [c \in Contexts |-> Unused]
  /\ thr = [t \in Threads |-> Idle]
  /\ signals = <<>>
  /\ added = {}
  /\ failed = {}
  /\ unlisted = {}

-----------------------------------------------------------------------------
At(t, pc) == thr[t].pc = pc
Goto(t, pc) == thr' = [thr EXCEPT ![t].pc = pc]
Return(t) == thr' = [thr EXCEPT ![t] = Idle]
Enter(t, c, pc) ==
  thr' = [thr EXCEPT ![t] = [pc |-> pc, key |-> ctx[c].key, c |-> c, full |-> TRUE]]

LockFree == m_lckSrvInfo = NoCtx

Emit(kind, k) ==
  signals' = Append(signals, [kind |-> kind, key |-> k])

\* mapConnectList.erase(key) at the end of connection c.
EraseKey(c) ==
  LET k == ctx[c].key
  IN /\ mapConnectList' = [mapConnectList EXCEPT ![k] = NoCtx]
     /\ unlisted' = unlisted \cup ({mapConnectList[k]} \ {c, NoCtx})

-----------------------------------------------------------------------------
\* The application's calls

\* Mutant: the daemon is asked to connect a server that is being connected.
AddConnect_Marked(k, iRecnnt) ==
  /\ At(App, "idle")
  /\ k \notin added
  /\ LockFree
  /\ m_mapSrvInfo' = [m_mapSrvInfo EXCEPT ![k] =
       [known |-> TRUE, iRecnnt |-> iRecnnt, bNeedConnect |-> TRUE]]
  /\ added' = added \cup {k}
  /\ thr' = [thr EXCEPT ![App] = [Idle EXCEPT !.pc = "Connect", !.key = k]]
  /\ UNCHANGED <<m_lckSrvInfo, todo, mapConnectList, ctx, signals, failed, unlisted>>

\* Each server is added once, as ConnectTcpServer does.
AddConnect(k, iRecnnt) ==
  /\ At(App, "idle")
  /\ k \notin added
  /\ LockFree
  /\ m_mapSrvInfo' = [m_mapSrvInfo EXCEPT ![k] =
       [known |-> TRUE, iRecnnt |-> iRecnnt, bNeedConnect |-> FALSE]]
  /\ added' = added \cup {k}
  /\ thr' = [thr EXCEPT ![App] = [Idle EXCEPT !.pc = "Connect", !.key = k]]
  /\ UNCHANGED <<m_lckSrvInfo, todo, mapConnectList, ctx, signals, failed, unlisted>>

Disconnect(k) ==
  /\ At(App, "idle")
  /\ k \in added
  /\ LockFree
  /\ m_mapSrvInfo' = [m_mapSrvInfo EXCEPT ![k] = Unknown]
  /\ thr' = [thr EXCEPT ![App] = [Idle EXCEPT !.pc = "Lookup", !.key = k]]
  /\ UNCHANGED <<m_lckSrvInfo, todo, mapConnectList, ctx, signals, history>>

\* IOCPBase::Disconnect
Lookup ==
  /\ At(App, "Lookup")
  /\ LET c == mapConnectList[thr[App].key]
     IN IF c = NoCtx THEN Return(App) ELSE Enter(App, c, "ReCycle")
  /\ UNCHANGED <<m_mapSrvInfo, m_lckSrvInfo, todo, mapConnectList, ctx,
                 signals, history>>

-----------------------------------------------------------------------------
\* The daemon holds m_lckSrvInfo while it connects every entry that needs it.

StartScan ==
  /\ At(Daemon, "idle")
  /\ LockFree
  /\ \E k \in Keys : m_mapSrvInfo[k].bNeedConnect
  /\ m_lckSrvInfo' = Daemon
  /\ todo' = {k \in Keys : m_mapSrvInfo[k].bNeedConnect}
  /\ UNCHANGED <<m_mapSrvInfo, mapConnectList, ctx, thr, signals, history>>

ScanEntry(k) ==
  /\ At(Daemon, "idle")
  /\ k \in todo
  /\ thr' = [thr EXCEPT ![Daemon] = [Idle EXCEPT !.pc = "Connect", !.key = k]]
  /\ UNCHANGED <<m_mapSrvInfo, m_lckSrvInfo, todo, mapConnectList, ctx,
                 signals, history>>

EndScan ==
  /\ At(Daemon, "idle")
  /\ m_lckSrvInfo = Daemon
  /\ todo = {}
  /\ m_lckSrvInfo' = NoCtx
  /\ UNCHANGED <<m_mapSrvInfo, todo, mapConnectList, ctx, thr, signals, history>>

-----------------------------------------------------------------------------
\* IOCPClient::AddConnect, called by the application and by the daemon

\* What the caller does with the result.
Added(t, ok) ==
  LET k == thr[t].key
  IN /\ Return(t)
     /\ todo' = IF t = Daemon THEN todo \ {k} ELSE todo
     /\ m_mapSrvInfo' = IF t = Daemon /\ ok
                        THEN [m_mapSrvInfo EXCEPT ![k].bNeedConnect = FALSE]
                        ELSE m_mapSrvInfo
     /\ failed' = IF t = App /\ ~ok THEN failed \cup {k} ELSE failed

\* A context is taken, and listed under the key in place of any other; or its
\* socket could not be made.
Connect(t) ==
  /\ At(t, "Connect")
  /\ \/ \E c \in Contexts :
          /\ ctx[c] = Unused
          /\ ctx' = [ctx EXCEPT ![c].key = thr[t].key, ![c].sock = "idle"]
          /\ mapConnectList' = [mapConnectList EXCEPT ![thr[t].key] = c]
          /\ thr' = [thr EXCEPT ![t].pc = "ConnectEx", ![t].c = c]
          /\ unlisted' = unlisted \cup ({mapConnectList[thr[t].key]} \ {NoCtx})
          /\ UNCHANGED <<m_mapSrvInfo, todo, failed>>
     \/ /\ Added(t, FALSE)
        /\ UNCHANGED <<ctx, mapConnectList, unlisted>>
  /\ UNCHANGED <<m_lckSrvInfo, signals, added>>

ConnectEx(t) ==
  /\ At(t, "ConnectEx")
  /\ \/ /\ ctx' = [ctx EXCEPT ![thr[t].c].pend = @ \cup {"connect"}]
        /\ Added(t, TRUE)
     \/ /\ Goto(t, "ConnectFailed")
        /\ UNCHANGED <<ctx, m_mapSrvInfo, todo, failed>>
  /\ UNCHANGED <<m_lckSrvInfo, mapConnectList, signals, added, unlisted>>

\* Mutant: a connection that could not be started stays listed.
ConnectFailed_Listed(t) ==
  /\ At(t, "ConnectFailed")
  /\ ctx' = [ctx EXCEPT ![thr[t].c].sock = "closed"]
  /\ Added(t, FALSE)
  /\ UNCHANGED <<m_lckSrvInfo, mapConnectList, signals, added, unlisted>>

ConnectFailed(t) ==
  /\ At(t, "ConnectFailed")
  /\ EraseKey(thr[t].c)
  /\ ctx' = [ctx EXCEPT ![thr[t].c].sock = "closed"]
  /\ Added(t, FALSE)
  /\ UNCHANGED <<m_lckSrvInfo, signals, added>>

-----------------------------------------------------------------------------
\* Completions

Dispatched(t, c, kind) ==
  /\ t \in Workers
  /\ At(t, "idle")
  /\ kind \in ctx[c].pend

HandConnect(t, c) ==
  /\ Dispatched(t, c, "connect")
  /\ ctx[c].sock = "idle"
  /\ ctx' = [ctx EXCEPT ![c].pend = @ \ {"connect"}, ![c].sock = "conn"]
  /\ Enter(t, c, "NotifyUp")
  /\ UNCHANGED <<m_mapSrvInfo, m_lckSrvInfo, todo, mapConnectList, signals, history>>

\* The server refused, or the socket was closed meanwhile.
HandConnectError(t, c) ==
  /\ Dispatched(t, c, "connect")
  /\ ctx' = [ctx EXCEPT ![c].pend = @ \ {"connect"},
                         ![c].sock = IF @ = "closed" THEN "closed" ELSE "down"]
  /\ Enter(t, c, "NotifyFailed")
  /\ UNCHANGED <<m_mapSrvInfo, m_lckSrvInfo, todo, mapConnectList, signals, history>>

HandReceiveEnd(t, c) ==
  /\ Dispatched(t, c, "recv")
  /\ ctx' = [ctx EXCEPT ![c].pend = @ \ {"recv"}]
  /\ Enter(t, c, "ReCycle")
  /\ UNCHANGED <<m_mapSrvInfo, m_lckSrvInfo, todo, mapConnectList, signals, history>>

HandDisconnect(t, c) ==
  /\ Dispatched(t, c, "disc")
  /\ ctx' = [ctx EXCEPT ![c].pend = @ \ {"disc"}]
  /\ UNCHANGED <<m_mapSrvInfo, m_lckSrvInfo, todo, mapConnectList, thr, signals, history>>

-----------------------------------------------------------------------------
\* HandConnect, a success

NotifyUp(t) ==
  /\ At(t, "NotifyUp")
  /\ Emit("up", thr[t].key)
  /\ Goto(t, "PostReceive")
  /\ UNCHANGED <<m_mapSrvInfo, m_lckSrvInfo, todo, mapConnectList, ctx, history>>

PostReceive(t) ==
  /\ At(t, "PostReceive")
  /\ IF ctx[thr[t].c].flag > 0
     THEN thr' = [thr EXCEPT ![t].pc = "ReCycle", ![t].full = FALSE]
     ELSE Goto(t, "Receive")
  /\ UNCHANGED <<m_mapSrvInfo, m_lckSrvInfo, todo, mapConnectList, ctx, signals, history>>

Receive(t) ==
  /\ At(t, "Receive")
  /\ \/ /\ ctx[thr[t].c].sock = "conn"
        /\ ctx' = [ctx EXCEPT ![thr[t].c].op = "recv", ![thr[t].c].pend = @ \cup {"recv"}]
        /\ Return(t)
     \/ /\ ctx' = [ctx EXCEPT ![thr[t].c].op = "recv"]
        /\ Goto(t, "ReCycle")
  /\ UNCHANGED <<m_mapSrvInfo, m_lckSrvInfo, todo, mapConnectList, signals, history>>

\* HandConnect, a failure: ConnectNotify emits and asks the daemon to connect
\* again, and only then the key is erased.

NotifyFailed(t) ==
  /\ At(t, "NotifyFailed")
  /\ Emit("failed", thr[t].key)
  /\ Goto(t, "NeedConnect")
  /\ UNCHANGED <<m_mapSrvInfo, m_lckSrvInfo, todo, mapConnectList, ctx, history>>

\* Mutants: the entry is not looked for first; a failed connection is not
\* tried again.
NeedConnect_Unchecked(t) ==
  /\ At(t, "NeedConnect")
  /\ LockFree
  /\ m_mapSrvInfo' = [m_mapSrvInfo EXCEPT ![thr[t].key].bNeedConnect = TRUE]
  /\ Goto(t, "EraseFailed")
  /\ UNCHANGED <<m_lckSrvInfo, todo, mapConnectList, ctx, signals, history>>

NeedConnect_NotSet(t) ==
  /\ At(t, "NeedConnect")
  /\ LockFree
  /\ Goto(t, "EraseFailed")
  /\ UNCHANGED <<m_mapSrvInfo, m_lckSrvInfo, todo, mapConnectList, ctx, signals, history>>

NeedConnect(t) ==
  /\ At(t, "NeedConnect")
  /\ LockFree
  /\ m_mapSrvInfo' = IF m_mapSrvInfo[thr[t].key].known
                     THEN [m_mapSrvInfo EXCEPT ![thr[t].key].bNeedConnect = TRUE]
                     ELSE m_mapSrvInfo
  /\ Goto(t, "EraseFailed")
  /\ UNCHANGED <<m_lckSrvInfo, todo, mapConnectList, ctx, signals, history>>

EraseFailed(t) ==
  /\ At(t, "EraseFailed")
  /\ EraseKey(thr[t].c)
  /\ Return(t)
  /\ UNCHANGED <<m_mapSrvInfo, m_lckSrvInfo, todo, ctx, signals, added, failed>>

-----------------------------------------------------------------------------
\* Teardown

AfterReCycle(t) == IF thr[t].full THEN Goto(t, "CheckFlag") ELSE Return(t)

ReCycle(t) ==
  /\ At(t, "ReCycle")
  /\ LET c == thr[t].c
         flag == ctx[c].flag
     IN /\ ctx' = [ctx EXCEPT ![c].flag = IF flag = 2 THEN 2 ELSE flag + 1]
        /\ IF flag = 0 THEN Goto(t, "EmitDown") ELSE AfterReCycle(t)
  /\ UNCHANGED <<m_mapSrvInfo, m_lckSrvInfo, todo, mapConnectList, signals, history>>

EmitDown(t) ==
  /\ At(t, "EmitDown")
  /\ Emit("down", thr[t].key)
  /\ Goto(t, "DeleteUser")
  /\ UNCHANGED <<m_mapSrvInfo, m_lckSrvInfo, todo, mapConnectList, ctx, history>>

\* if (info.iRecnnt) connect again, else forget the server.
Ended(k) ==
  IF ~m_mapSrvInfo[k].known THEN m_mapSrvInfo
  ELSE IF m_mapSrvInfo[k].iRecnnt # 0
       THEN [m_mapSrvInfo EXCEPT ![k].bNeedConnect = TRUE]
       ELSE [m_mapSrvInfo EXCEPT ![k] = Unknown]

DeleteUser(t) ==
  /\ At(t, "DeleteUser")
  /\ LockFree
  /\ m_mapSrvInfo' = Ended(thr[t].key)
  /\ AfterReCycle(t)
  /\ UNCHANGED <<m_lckSrvInfo, todo, mapConnectList, ctx, signals, history>>

CheckFlag(t) ==
  /\ At(t, "CheckFlag")
  /\ IF ctx[thr[t].c].flag = 1 THEN Goto(t, "Erase") ELSE Return(t)
  /\ UNCHANGED <<m_mapSrvInfo, m_lckSrvInfo, todo, mapConnectList, ctx, signals, history>>

Erase(t) ==
  /\ At(t, "Erase")
  /\ EraseKey(thr[t].c)
  /\ Goto(t, "DisconnectEx")
  /\ UNCHANGED <<m_mapSrvInfo, m_lckSrvInfo, todo, ctx, signals, added, failed>>

DisconnectEx(t) ==
  /\ At(t, "DisconnectEx")
  /\ LET c == thr[t].c
     IN \/ /\ ctx[c].sock = "conn"
           /\ ctx' = [ctx EXCEPT ![c].sock = "down", ![c].pend = @ \cup {"disc"}]
        \/ ctx' = [ctx EXCEPT ![c].sock = "closed"]
  /\ Return(t)
  /\ UNCHANGED <<m_mapSrvInfo, m_lckSrvInfo, todo, mapConnectList, signals, history>>

-----------------------------------------------------------------------------
\* The steps of a thread inside a call.
Step(t) ==
  \/ Connect(t) \/ ConnectEx(t) \/ ConnectFailed(t)
  \/ NotifyUp(t) \/ PostReceive(t) \/ Receive(t)
  \/ NotifyFailed(t) \/ NeedConnect(t) \/ EraseFailed(t)
  \/ ReCycle(t) \/ EmitDown(t) \/ DeleteUser(t)
  \/ CheckFlag(t) \/ Erase(t) \/ DisconnectEx(t)

DeamonConnectCallback ==
  StartScan \/ EndScan \/ \E k \in Keys : ScanEntry(k)

Dispatch(t, c) ==
  \/ HandConnect(t, c) \/ HandConnectError(t, c)
  \/ HandReceiveEnd(t, c) \/ HandDisconnect(t, c)

Next ==
  \/ \E k \in Keys, iRecnnt \in Recnnts : AddConnect(k, iRecnnt)
  \/ \E k \in Keys : Disconnect(k)
  \/ Lookup
  \/ DeamonConnectCallback
  \/ \E t \in Threads : Step(t)
  \/ \E t \in Workers, c \in Contexts : Dispatch(t, c)

Spec == Init /\ [][Next]_vars

-----------------------------------------------------------------------------
\* Every variable has its type; the daemon works only while it holds the lock.
TypeOK ==
  /\ m_mapSrvInfo \in [Keys -> SServerInfo]
  /\ \A k \in Keys : ~m_mapSrvInfo[k].known => m_mapSrvInfo[k] = Unknown
  /\ m_lckSrvInfo \in {Daemon, NoCtx}
  /\ todo \subseteq Keys
  /\ m_lckSrvInfo = NoCtx => todo = {} /\ thr[Daemon] = Idle
  /\ mapConnectList \in [Keys -> Contexts \cup {NoCtx}]
  /\ ctx \in [Contexts -> SocketContext]
  /\ thr \in [Threads -> Thread]
  /\ \A t \in Threads : thr[t].pc # "idle" => thr[t].key \in Keys
  /\ signals \in Seq(Signal)
  /\ added \subseteq Keys
  /\ failed \subseteq Keys
  /\ unlisted \subseteq Contexts

\* A connection in the making or up, whose teardown has not begun.
Live(c) ==
  /\ ctx[c].flag = 0
  /\ ctx[c].sock = "conn" \/ "connect" \in ctx[c].pend
     \/ \E t \in Threads : thr[t].c = c /\ At(t, "ConnectEx")

\* A server is connected once at a time, although the daemon may start the
\* next connection while the last one is still being taken down.
OneLive ==
  \A c, d \in Contexts :
    Live(c) /\ Live(d) /\ ctx[c].key = ctx[d].key => c = d

\* A thread that will tell ServerConnect that a connection of k has ended, or
\* is about to make one.
Working(k) ==
  \E t \in Threads : /\ thr[t].key = k
                     /\ thr[t].pc \in {"Connect", "ConnectEx", "ConnectFailed",
                          "NotifyFailed", "NeedConnect", "ReCycle", "EmitDown",
                          "DeleteUser"}

\* A server that is known is not forgotten: it has a live connection, or the
\* daemon will connect it, or a thread is about to say so; except when the
\* first attempt failed inside AddConnect, which nobody repeats.
NeverForgotten ==
  \A k \in Keys :
    m_mapSrvInfo[k].known =>
      \/ m_mapSrvInfo[k].bNeedConnect
      \/ \E c \in Contexts : ctx[c].key = k /\ Live(c)
      \/ Working(k)
      \/ k \in failed
=============================================================================
