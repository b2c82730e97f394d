---------------------------- MODULE Client_proofs ----------------------------
(***************************************************************************)
(* Proofs about the client, for every number of workers, servers and       *)
(* attempts: ServerConnect's types, that a server has one live connection  *)
(* and is never forgotten, first while the client runs, then while         *)
(* StopClient takes it down (ClientStop), and that MainModel's set of      *)
(* servers is that of the live connections (ClientLogin).                  *)
(***************************************************************************)
EXTENDS ClientLogin, ClientStop, SequenceTheorems, FiniteSetTheorems, TLAPS

\* Where each thread can be.
Connecting == {"Connect", "ConnectEx", "ConnectFailed"}
TearingDown == {"ReCycle", "EmitDown", "DeleteUser", "CheckFlag", "Erase",
                "DisconnectEx"}

Places ==
  /\ \A t \in Threads : thr[t].pc = "idle" => thr[t] = Idle
  /\ thr[Daemon].pc \in {"idle"} \cup Connecting
  /\ thr[App].pc \in {"idle", "Lookup"} \cup Connecting \cup TearingDown
  /\ \A w \in Workers : thr[w].pc \notin {"Lookup"} \cup Connecting

\* A thread works for the key of the context it has; a context that can be
\* found or completed has a key.
Keyed ==
  /\ \A t \in Threads : thr[t].pc \notin {"idle", "Connect", "Lookup"} =>
       thr[t].c \in Contexts /\ ctx[thr[t].c].key = thr[t].key
  /\ \A t \in Threads : thr[t].pc \in {"idle", "Connect", "Lookup"} => thr[t].c = NoCtx
  /\ \A c \in Contexts : ctx[c].pend # {} => ctx[c].key \in Keys
  /\ \A k \in Keys : mapConnectList[k] # NoCtx => ctx[mapConnectList[k]].key = k

\* The daemon connects what it found to need it, holding the lock.
Scanned ==
  /\ thr[Daemon].pc \in Connecting => thr[Daemon].key \in todo
  /\ \A k \in todo : m_mapSrvInfo[k].bNeedConnect

\* A server is new until its first connection is made; the application takes
\* down only a server it has made unknown.
Fresh(k) ==
  /\ \A c \in Contexts : ctx[c].key # k
  /\ \A t \in Threads \ {App} : thr[t].key # k
  /\ ~m_mapSrvInfo[k].bNeedConnect

Calls ==
  /\ \A k \in Keys \ added :
       Fresh(k) /\ thr[App].key # k /\ ~m_mapSrvInfo[k].known
  /\ thr[App].pc # "idle" => thr[App].key \in added
  /\ thr[App].pc = "Connect" => Fresh(thr[App].key)
  /\ thr[App].pc \in {"Lookup"} \cup TearingDown => ~m_mapSrvInfo[thr[App].key].known

\* A context whose connection is being started is touched by nobody else.
Starting ==
  \A t \in Threads : thr[t].pc \in {"ConnectEx", "ConnectFailed"} =>
    /\ ctx[thr[t].c].sock = "idle" /\ ctx[thr[t].c].op = "connect"
    /\ ctx[thr[t].c].flag = 0 /\ ctx[thr[t].c].pend = {}
    /\ \A u \in Threads : thr[u].c = thr[t].c => u = t

\* The life of a context: in no worker's hand until the attempt completes,
\* connected from then to its first teardown, flagged from there.
Lives ==
  /\ Starting
  /\ \A c \in Contexts : "connect" \in ctx[c].pend =>
       /\ ctx[c].op = "connect" /\ "recv" \notin ctx[c].pend
       /\ ctx[c].sock \in {"idle", "closed"}
       /\ \A w \in Workers : thr[w].c # c
       /\ ctx[c].flag = 0 \/ ~m_mapSrvInfo[ctx[c].key].known
  /\ \A c \in Contexts : ctx[c].flag = 0 /\ (ctx[c].op = "recv" \/ "recv" \in ctx[c].pend) =>
       ctx[c].sock = "conn"
  /\ \A w \in Workers :
       thr[w].pc \in {"NotifyUp", "PostReceive", "Receive", "ReCycle"} /\ ctx[thr[w].c].flag = 0 =>
         ctx[thr[w].c].sock = "conn"
  /\ \A t \in Threads : thr[t].pc \in TearingDown \ {"ReCycle"} => ctx[thr[t].c].flag > 0

\* A thread that has seen a connection end and has not told ServerConnect.
Ending == {"NotifyFailed", "NeedConnect", "EmitDown", "DeleteUser"}

\* A known server has one token: its live connection, the thread that saw it
\* end, or the daemon's order.
OneToken ==
  /\ OneLive
  /\ \A c \in Contexts : Live(c) /\ ctx[c].key \in Keys /\ m_mapSrvInfo[ctx[c].key].bNeedConnect =>
       At(Daemon, "ConnectEx") /\ thr[Daemon].c = c
  /\ \A t \in Threads : thr[t].pc \in Ending /\ m_mapSrvInfo[thr[t].key].known =>
       /\ ~m_mapSrvInfo[thr[t].key].bNeedConnect
       /\ \A c \in Contexts : ctx[c].key = thr[t].key => ~Live(c)
       /\ \A u \in Threads : thr[u].pc \in Ending /\ thr[u].key = thr[t].key => u = t

\* NeverForgotten, less the threads that do not know yet whether they are the
\* first to take the connection down.
Remembered ==
  \A k \in Keys : m_mapSrvInfo[k].known =>
    \/ m_mapSrvInfo[k].bNeedConnect
    \/ \E c \in Contexts : ctx[c].key = k /\ Live(c)
    \/ \E t \in Threads : thr[t].key = k /\ thr[t].pc \in Connecting \cup Ending
    \/ k \in failed

CInv ==
  /\ TypeOK
  /\ Places
  /\ Keyed
  /\ Scanned
  /\ Calls
  /\ Lives
  /\ OneToken
  /\ Remembered

-----------------------------------------------------------------------------
\* What the types say of threads, contexts and entries.

LEMMA ThreadFields ==
  ASSUME TypeOK, Keyed, NEW t \in Threads
  PROVE  /\ thr[t].pc \in Steps
         /\ thr[t].key \in Keys \cup {NoCtx}
         /\ thr[t].c \in Contexts \cup {NoCtx}
         /\ thr[t].full \in BOOLEAN
         /\ thr[t].pc # "idle" => thr[t].key \in Keys
         /\ thr[t].pc \notin {"idle", "Connect", "Lookup"} =>
              thr[t].c \in Contexts /\ ctx[thr[t].c].key = thr[t].key
<1>1. thr[t] \in Thread
  BY DEF TypeOK
<1> QED
  BY <1>1 DEF Thread, TypeOK, Keyed

LEMMA ContextFields ==
  ASSUME TypeOK, NEW c \in Contexts
  PROVE  /\ ctx[c].key \in Keys \cup {NoCtx}
         /\ ctx[c].sock \in {"none", "idle", "conn", "down", "closed"}
         /\ ctx[c].op \in {"connect", "recv"}
         /\ ctx[c].flag \in 0..2
         /\ ctx[c].pend \subseteq {"connect", "recv", "disc"}
<1>1. ctx[c] \in SocketContext
  BY DEF TypeOK
<1> QED
  BY <1>1 DEF SocketContext

LEMMA EntryFields ==
  ASSUME TypeOK, NEW k \in Keys
  PROVE  /\ m_mapSrvInfo[k].known \in BOOLEAN
         /\ m_mapSrvInfo[k].bNeedConnect \in BOOLEAN
         /\ m_mapSrvInfo[k].bNeedConnect => m_mapSrvInfo[k].known
<1>1. m_mapSrvInfo[k] \in SServerInfo
  BY DEF TypeOK
<1> QED
  BY <1>1 DEF SServerInfo, TypeOK, Unknown

LEMMA ThreadNames ==
  /\ App \in Threads /\ Daemon \in Threads /\ App # Daemon
  /\ Workers \subseteq Threads
  /\ \A t \in Threads : t \in Workers <=> t # App /\ t # Daemon
  /\ NoCtx \notin Keys /\ NoCtx \notin Contexts /\ Daemon # NoCtx
BY ClientAssumption DEF Threads

LEMMA IdleFields ==
  /\ Idle \in Thread
  /\ Idle.pc = "idle" /\ Idle.key = NoCtx /\ Idle.c = NoCtx
BY DEF Idle, Thread, Steps

\* What a step does to its own thread.

LEMMA GotoFields ==
  ASSUME thr \in [Threads -> Thread], NEW t \in Threads, NEW pc \in Steps, Goto(t, pc)
  PROVE  /\ thr' \in [Threads -> Thread]
         /\ thr'[t].pc = pc /\ thr'[t].key = thr[t].key
         /\ thr'[t].c = thr[t].c /\ thr'[t].full = thr[t].full
         /\ \A u \in Threads \ {t} : thr'[u] = thr[u]
BY DEF Goto, Thread

LEMMA ReturnFields ==
  ASSUME thr \in [Threads -> Thread], NEW t \in Threads, Return(t)
  PROVE  /\ thr' \in [Threads -> Thread]
         /\ thr'[t] = Idle
         /\ \A u \in Threads \ {t} : thr'[u] = thr[u]
BY IdleFields DEF Return

LEMMA EnterFields ==
  ASSUME TypeOK, NEW t \in Threads, NEW c \in Contexts,
         NEW pc \in Steps, Enter(t, c, pc)
  PROVE  /\ thr' \in [Threads -> Thread]
         /\ thr'[t].pc = pc /\ thr'[t].key = ctx[c].key /\ thr'[t].c = c
         /\ \A u \in Threads \ {t} : thr'[u] = thr[u]
<1> DEFINE x == [pc |-> pc, key |-> ctx[c].key, c |-> c, full |-> TRUE]
<1>1. x \in Thread
  BY ContextFields DEF Thread
<1>2. x.pc = pc /\ x.key = ctx[c].key /\ x.c = c
  OBVIOUS
<1>3. thr' = [thr EXCEPT ![t] = x] /\ thr \in [Threads -> Thread]
  BY DEF Enter, TypeOK
<1> HIDE DEF x
<1> QED
  BY <1>1, <1>2, <1>3

LEMMA AfterReCycleFields ==
  ASSUME thr \in [Threads -> Thread], NEW t \in Threads, AfterReCycle(t)
  PROVE  /\ thr' \in [Threads -> Thread]
         /\ \/ thr'[t] = Idle
            \/ /\ thr'[t].pc = "CheckFlag" /\ thr'[t].key = thr[t].key
               /\ thr'[t].c = thr[t].c
         /\ \A u \in Threads \ {t} : thr'[u] = thr[u]
<1>1. CASE Goto(t, "CheckFlag")
  BY <1>1, GotoFields DEF Steps
<1>2. CASE Return(t)
  BY <1>2, ReturnFields
<1> QED
  BY <1>1, <1>2 DEF AfterReCycle

\* What EraseKey leaves in the list.
LEMMA EraseKeyFields ==
  ASSUME TypeOK, NEW c \in Contexts, ctx[c].key \in Keys, EraseKey(c)
  PROVE  /\ mapConnectList' \in [Keys -> Contexts \cup {NoCtx}]
         /\ \A k \in Keys : mapConnectList'[k] \in {mapConnectList[k], NoCtx}
         /\ unlisted' \subseteq Contexts
BY DEF EraseKey, TypeOK

LEMMA EmitFields ==
  ASSUME TypeOK, NEW k \in Keys, NEW kind \in {"up", "failed", "down"}, Emit(kind, k)
  PROVE  signals' \in Seq(Signal)
<1>1. [kind |-> kind, key |-> k] \in Signal
  BY DEF Signal
<1> QED
  BY <1>1, AppendProperties DEF Emit, TypeOK

LEMMA InitCInv == Init => CInv
<1> SUFFICES ASSUME Init PROVE CInv
  OBVIOUS
<1> USE DEF Init
<1>1. \A t \in Threads : thr[t] = Idle /\ thr[t].pc = "idle" /\ thr[t].key = NoCtx
                         /\ thr[t].c = NoCtx
  BY IdleFields
<1>2. \A c \in Contexts : /\ ctx[c].key = NoCtx /\ ctx[c].sock = "none"
                          /\ ctx[c].op = "connect" /\ ctx[c].flag = 0
                          /\ ctx[c].pend = {}
  BY DEF Unused
<1>3. \A k \in Keys : /\ m_mapSrvInfo[k] = Unknown
                      /\ ~m_mapSrvInfo[k].known /\ ~m_mapSrvInfo[k].bNeedConnect
  BY DEF Unknown
<1>4. Unknown \in SServerInfo /\ Unused \in SocketContext
  BY DEF Unknown, SServerInfo, Unused, SocketContext
<1>5. TypeOK
  <2>1. /\ m_mapSrvInfo \in [Keys -> SServerInfo]
        /\ mapConnectList \in [Keys -> Contexts \cup {NoCtx}]
        /\ ctx \in [Contexts -> SocketContext]
        /\ thr \in [Threads -> Thread]
        /\ signals \in Seq(Signal)
    BY <1>4, IdleFields
  <2> QED
    BY <1>1, <1>3, <2>1, ThreadNames DEF TypeOK
<1>6. Places /\ Keyed /\ Scanned
  BY <1>1, <1>2, ThreadNames DEF Places, Keyed, Scanned, Connecting
<1>7. Calls
  BY <1>1, <1>2, <1>3, ThreadNames DEF Calls, Fresh, TearingDown
<1>8. Lives
  BY <1>1, <1>2, ThreadNames DEF Lives, Starting, TearingDown
<1>9. OneToken /\ Remembered
  <2>1. \A c \in Contexts : ~Live(c)
    BY <1>1, <1>2 DEF Live, At
  <2> QED
    BY <1>1, <1>3, <2>1 DEF OneToken, OneLive, Remembered, Ending
<1> QED
  BY <1>5, <1>6, <1>7, <1>8, <1>9 DEF CInv

-----------------------------------------------------------------------------
\* Steps that look alike.

\* The set of live connections depends on the contexts and on the threads in
\* ConnectEx only.
LEMMA LiveKept ==
  ASSUME \A u \in Threads : At(u, "ConnectEx")' => At(u, "ConnectEx") /\ thr'[u].c = thr[u].c,
         NEW c \in Contexts, Live(c)',
         ctx'[c].flag = ctx[c].flag,
         ctx'[c].sock = "conn" => ctx[c].sock = "conn" \/ "connect" \in ctx[c].pend,
         "connect" \in ctx'[c].pend =>
           "connect" \in ctx[c].pend \/ \E u \in Threads : thr[u].c = c /\ At(u, "ConnectEx")
  PROVE  Live(c)
BY DEF Live

\* A step on a worker's or a teardown's way, which changes neither a context
\* nor an entry.
LEMMA ThreadMoved ==
  ASSUME CInv, NEW t \in Threads,
         thr[t].pc \notin {"idle", "Lookup"} \cup Connecting,
         thr' \in [Threads -> Thread],
         \A u \in Threads \ {t} : thr'[u] = thr[u],
         \/ thr'[t] = Idle
         \/ /\ thr'[t].key = thr[t].key /\ thr'[t].c = thr[t].c
            /\ thr'[t].pc \notin {"idle", "Lookup"} \cup Connecting,
         t = App => thr'[t].pc \in {"idle"} \cup TearingDown,
         thr'[t].pc \in TearingDown \ {"ReCycle"} => ctx[thr[t].c].flag > 0,
         thr'[t].pc \in {"NotifyUp", "PostReceive", "Receive", "ReCycle"} =>
           \/ thr[t].pc \in {"NotifyUp", "PostReceive", "Receive", "ReCycle"}
           \/ ctx[thr[t].c].flag > 0,
         thr'[t].pc \in Ending => thr[t].pc \in Ending,
         thr[t].pc \in Ending /\ m_mapSrvInfo[thr[t].key].known => thr'[t].pc \in Ending,
         UNCHANGED <<ctx, m_mapSrvInfo, m_lckSrvInfo, todo, added, failed>>,
         mapConnectList' \in [Keys -> Contexts \cup {NoCtx}],
         \A k \in Keys : mapConnectList'[k] \in {mapConnectList[k], NoCtx},
         signals' \in Seq(Signal),
         unlisted' \subseteq Contexts
  PROVE  CInv'
<1> USE DEF CInv
<1>1. t # Daemon /\ thr'[Daemon] = thr[Daemon]
  BY ThreadNames DEF Places
<1>2. thr[t].key \in Keys /\ thr[t].c \in Contexts /\ ctx[thr[t].c].key = thr[t].key
  BY ThreadFields DEF Connecting
<1>3. thr'[t].pc = "idle" => thr'[t] = Idle
  OBVIOUS
<1>4. thr'[t].pc # "idle" => thr'[t].key = thr[t].key /\ thr'[t].c = thr[t].c
  BY IdleFields
<1>5. thr'[t].pc \notin {"Lookup"} \cup Connecting
  BY IdleFields DEF Connecting
<1>6. TypeOK'
  <2>1. \A u \in Threads : thr'[u].pc # "idle" => thr'[u].key \in Keys
    BY <1>2, <1>4 DEF TypeOK
  <2> QED
    BY <1>1, <2>1 DEF TypeOK
<1>7. Places'
  BY <1>1, <1>3, <1>5, ThreadNames DEF Places
<1>8. Keyed'
  <2>1. \A u \in Threads : thr'[u].pc \notin {"idle", "Connect", "Lookup"} =>
          thr'[u].c \in Contexts /\ ctx[thr'[u].c].key = thr'[u].key
    BY <1>2, <1>4 DEF Keyed
  <2>2. \A u \in Threads : thr'[u].pc \in {"idle", "Connect", "Lookup"} => thr'[u].c = NoCtx
    BY <1>3, <1>5, IdleFields DEF Keyed, Connecting
  <2> QED
    BY <2>1, <2>2 DEF Keyed
<1>9. Scanned'
  BY <1>1 DEF Scanned
<1>10. Calls'
  <2>1. \A k \in Keys : Fresh(k) => Fresh(k)'
    <3>1. \A k \in Keys : \A u \in Threads \ {App} : thr[u].key # k => thr'[u].key # k
      BY <1>2, <1>4, ThreadNames, IdleFields
    <3> QED
      BY <3>1 DEF Fresh
  <2>2. /\ thr'[App].pc \notin {"Connect", "Lookup"}
           \/ thr'[App] = thr[App]
        /\ thr'[App].key = thr[App].key \/ thr'[App] = Idle
        /\ thr'[App].pc # "idle" => thr'[App].key = thr[App].key
        /\ thr'[App].pc \in {"Lookup"} \cup TearingDown =>
             thr[App].pc \in {"Lookup"} \cup TearingDown \/ (t = App)
    BY <1>4, <1>5, ThreadNames, IdleFields DEF Connecting
  <2>3. t = App => ~m_mapSrvInfo[thr[App].key].known /\ thr[App].pc \in TearingDown
    BY DEF Calls, Places
  <2>4. \A k \in Keys \ added : Fresh(k)' /\ thr'[App].key # k
    BY <2>1, <2>2, IdleFields, ThreadNames DEF Calls
  <2>5. thr'[App].pc = "Connect" => Fresh(thr[App].key)'
    <3> SUFFICES ASSUME thr'[App].pc = "Connect" PROVE Fresh(thr[App].key)'
      OBVIOUS
    <3>1. /\ thr[App].pc = "Connect" /\ thr[App].key \in Keys
          /\ thr'[App].key = thr[App].key
      BY <2>2, ThreadFields, ThreadNames
    <3> QED
      BY <2>1, <3>1 DEF Calls, Fresh
  <2>6. thr'[App].pc # "idle" => thr'[App].key \in added
    BY <1>3, <2>2, <2>3, ThreadNames DEF Calls, TearingDown
  <2>7. thr'[App].pc \in {"Lookup"} \cup TearingDown => ~m_mapSrvInfo[thr'[App].key].known
    BY <2>2, <2>3 DEF Calls, TearingDown
  <2> QED
    BY <2>4, <2>5, <2>6, <2>7 DEF Calls
<1>11. Lives'
  <2>1. ASSUME NEW u \in Threads, thr'[u].pc \in {"ConnectEx", "ConnectFailed"}
        PROVE  /\ ctx[thr'[u].c].sock = "idle" /\ ctx[thr'[u].c].op = "connect"
               /\ ctx[thr'[u].c].flag = 0 /\ ctx[thr'[u].c].pend = {}
               /\ \A v \in Threads : thr'[v].c = thr'[u].c => v = u
    <3>1. u # t /\ thr'[u] = thr[u] /\ thr[u].c \in Contexts
      BY <1>5, <2>1, ThreadFields DEF Connecting
    <3>2. \A v \in Threads : thr'[v].c = thr[u].c => thr[v].c = thr[u].c
      BY <3>1, <1>4, IdleFields, ThreadNames
    <3>3. /\ ctx[thr[u].c].sock = "idle" /\ ctx[thr[u].c].op = "connect"
          /\ ctx[thr[u].c].flag = 0 /\ ctx[thr[u].c].pend = {}
          /\ \A v \in Threads : thr[v].c = thr[u].c => v = u
      BY <2>1, <3>1 DEF Lives, Starting
    <3> HIDE DEF CInv
    <3> QED
      BY <3>1, <3>2, <3>3
  <2>2. \A c \in Contexts, w \in Workers : thr[w].c # c => thr'[w].c # c
    BY <1>3, <1>4, ThreadNames, IdleFields
  <2>3. \A w \in Workers :
          thr'[w].pc \in {"NotifyUp", "PostReceive", "Receive", "ReCycle"} /\ ctx[thr'[w].c].flag = 0 =>
            ctx[thr'[w].c].sock = "conn"
    <3> SUFFICES ASSUME NEW w \in Workers,
                        thr'[w].pc \in {"NotifyUp", "PostReceive", "Receive", "ReCycle"},
                        ctx[thr'[w].c].flag = 0
                 PROVE  ctx[thr'[w].c].sock = "conn"
      OBVIOUS
    <3>1. CASE w = t
      BY <1>4, <3>1 DEF Lives
    <3>2. CASE w # t
      BY <3>2, ThreadNames DEF Lives
    <3> QED
      BY <3>1, <3>2
  <2>4. \A u \in Threads : thr'[u].pc \in TearingDown \ {"ReCycle"} => ctx[thr'[u].c].flag > 0
    BY <1>4 DEF Lives, TearingDown
  <2>5. ASSUME NEW c \in Contexts, "connect" \in ctx[c].pend
        PROVE  /\ ctx[c].op = "connect" /\ "recv" \notin ctx[c].pend
               /\ ctx[c].sock \in {"idle", "closed"}
               /\ \A w \in Workers : thr'[w].c # c
               /\ ctx[c].flag = 0 \/ ~m_mapSrvInfo[ctx[c].key].known
    BY <2>2, <2>5 DEF Lives
  <2>6. \A c \in Contexts : ctx[c].flag = 0 /\ (ctx[c].op = "recv" \/ "recv" \in ctx[c].pend) =>
          ctx[c].sock = "conn"
    BY DEF Lives
  <2> QED
    BY <2>1, <2>3, <2>4, <2>5, <2>6 DEF Lives, Starting
<1>12. \A c \in Contexts : Live(c)' <=> Live(c)
  <2>1. \A u \in Threads : thr'[u].pc = "ConnectEx" <=> thr[u].pc = "ConnectEx"
    BY <1>5 DEF Connecting
  <2>2. \A u \in Threads : thr[u].pc = "ConnectEx" => thr'[u] = thr[u]
    BY DEF Connecting
  <2> QED
    BY <2>1, <2>2 DEF Live, At
<1>13. OneToken'
  <2>1. OneLive'
    BY <1>12 DEF OneToken, OneLive
  <2>2. \A c \in Contexts : Live(c)' /\ ctx[c].key \in Keys /\ m_mapSrvInfo[ctx[c].key].bNeedConnect =>
          thr'[Daemon].pc = "ConnectEx" /\ thr'[Daemon].c = c
    BY <1>1, <1>12 DEF OneToken, At
  <2>3. \A u \in Threads : thr'[u].pc \in Ending => thr[u].pc \in Ending /\ thr'[u].key = thr[u].key
    BY <1>4 DEF Ending
  <2> QED
    BY <1>12, <2>1, <2>2, <2>3 DEF OneToken, At
<1>14. Remembered'
  <2>1. ASSUME NEW k \in Keys, m_mapSrvInfo[k].known, NEW u \in Threads,
               thr[u].key = k, thr[u].pc \in Connecting \cup Ending
        PROVE  thr'[u].key = k /\ thr'[u].pc \in Connecting \cup Ending
    BY <1>4, <2>1 DEF Ending
  <2> QED
    BY <1>12, <2>1 DEF Remembered
<1> QED
  BY <1>6, <1>7, <1>8, <1>9, <1>10, <1>11, <1>13, <1>14

\* Only the signals change.
LEMMA SignalsKept ==
  ASSUME CInv, signals' \in Seq(Signal),
         UNCHANGED <<m_mapSrvInfo, m_lckSrvInfo, todo, mapConnectList, ctx, thr,
                     history>>
  PROVE  CInv'
<1> USE DEF CInv, history
<1>1. TypeOK' /\ Places' /\ Keyed' /\ Scanned'
  BY DEF TypeOK, Places, Keyed, Scanned
<1>2. Calls' /\ Lives'
  BY DEF Calls, Fresh, Lives, Starting
<1>3. \A c \in Contexts : Live(c)' <=> Live(c)
  BY DEF Live, At
<1>4. OneToken' /\ Remembered'
  BY <1>3 DEF OneToken, OneLive, Remembered, At
<1> QED
  BY <1>1, <1>2, <1>4

-----------------------------------------------------------------------------
\* The steps of a thread between the completion and the end of its call.

LEMMA NotifyUpCInv ==
  ASSUME CInv, NEW t \in Threads, NotifyUp(t)
  PROVE  CInv'
<1> USE DEF CInv
<1>1. /\ thr[t].pc = "NotifyUp" /\ Goto(t, "PostReceive") /\ Emit("up", thr[t].key)
      /\ UNCHANGED <<m_mapSrvInfo, m_lckSrvInfo, todo, mapConnectList, ctx,
                     added, failed, unlisted>>
  BY DEF NotifyUp, At, history
<1>2. t # App
  BY <1>1 DEF Places, Connecting, TearingDown
<1>3. thr[t].key \in Keys
  BY <1>1, ThreadFields
<1>4. signals' \in Seq(Signal)
  BY <1>1, <1>3, EmitFields
<1>5. /\ thr' \in [Threads -> Thread]
      /\ thr'[t].pc = "PostReceive" /\ thr'[t].key = thr[t].key /\ thr'[t].c = thr[t].c
      /\ \A u \in Threads \ {t} : thr'[u] = thr[u]
  BY <1>1, GotoFields DEF TypeOK, Steps
<1>6. /\ mapConnectList' \in [Keys -> Contexts \cup {NoCtx}]
      /\ \A k \in Keys : mapConnectList'[k] \in {mapConnectList[k], NoCtx}
      /\ unlisted' \subseteq Contexts
  BY <1>1 DEF TypeOK
<1>7. /\ thr[t].pc \notin {"idle", "Lookup"} \cup Connecting
      /\ thr'[t].pc \notin {"idle", "Lookup"} \cup Connecting \cup TearingDown \cup Ending
      /\ thr[t].pc \notin Ending
  BY <1>1, <1>5 DEF Connecting, TearingDown, Ending
<1> HIDE DEF CInv
<1> QED
  BY <1>1, <1>2, <1>4, <1>5, <1>6, <1>7, ThreadMoved

LEMMA PostReceiveCInv ==
  ASSUME CInv, NEW t \in Threads, PostReceive(t)
  PROVE  CInv'
<1> USE DEF CInv
<1>1. /\ thr[t].pc = "PostReceive"
      /\ IF ctx[thr[t].c].flag > 0
         THEN thr' = [thr EXCEPT ![t].pc = "ReCycle", ![t].full = FALSE]
         ELSE Goto(t, "Receive")
      /\ UNCHANGED <<m_mapSrvInfo, m_lckSrvInfo, todo, mapConnectList, ctx, signals,
                     added, failed, unlisted>>
  BY DEF PostReceive, At, history
<1>2. t # App
  BY <1>1 DEF Places, Connecting, TearingDown
<1>3. /\ thr' \in [Threads -> Thread]
      /\ thr'[t].pc \in {"ReCycle", "Receive"}
      /\ thr'[t].pc = "ReCycle" => ctx[thr[t].c].flag > 0
      /\ thr'[t].key = thr[t].key /\ thr'[t].c = thr[t].c
      /\ \A u \in Threads \ {t} : thr'[u] = thr[u]
  <2>1. CASE ctx[thr[t].c].flag > 0
    <3> DEFINE x == [thr[t] EXCEPT !.pc = "ReCycle", !.full = FALSE]
    <3>1. thr[t] \in Thread /\ thr \in [Threads -> Thread]
      BY DEF TypeOK
    <3>2. x \in Thread /\ x.pc = "ReCycle" /\ x.key = thr[t].key /\ x.c = thr[t].c
      <4> HIDE DEF CInv
      <4> QED
        BY <3>1 DEF Thread, Steps
    <3>3. thr' = [thr EXCEPT ![t] = x]
      BY <1>1, <2>1, <3>1 DEF Thread
    <3> HIDE DEF x, CInv
    <3> QED
      BY <2>1, <3>1, <3>2, <3>3
  <2>2. CASE ~(ctx[thr[t].c].flag > 0)
    BY <1>1, <2>2, GotoFields DEF TypeOK, Steps
  <2> QED
    BY <2>1, <2>2
<1>4. /\ mapConnectList' \in [Keys -> Contexts \cup {NoCtx}]
      /\ \A k \in Keys : mapConnectList'[k] \in {mapConnectList[k], NoCtx}
      /\ signals' \in Seq(Signal) /\ unlisted' \subseteq Contexts
  BY <1>1 DEF TypeOK
<1>5. /\ thr[t].pc \notin {"idle", "Lookup"} \cup Connecting
      /\ thr'[t].pc \notin {"idle", "Lookup"} \cup Connecting \cup Ending
      /\ thr'[t].pc \notin TearingDown \ {"ReCycle"}
      /\ thr[t].pc \notin Ending
  BY <1>1, <1>3 DEF Connecting, TearingDown, Ending
<1> HIDE DEF CInv
<1> QED
  BY <1>1, <1>2, <1>3, <1>4, <1>5, ThreadMoved

LEMMA NotifyFailedCInv ==
  ASSUME CInv, NEW t \in Threads, NotifyFailed(t)
  PROVE  CInv'
<1> USE DEF CInv
<1>1. /\ thr[t].pc = "NotifyFailed" /\ Goto(t, "NeedConnect") /\ Emit("failed", thr[t].key)
      /\ UNCHANGED <<m_mapSrvInfo, m_lckSrvInfo, todo, mapConnectList, ctx,
                     added, failed, unlisted>>
  BY DEF NotifyFailed, At, history
<1>2. t # App
  BY <1>1 DEF Places, Connecting, TearingDown
<1>3. thr[t].key \in Keys
  BY <1>1, ThreadFields
<1>4. signals' \in Seq(Signal)
  BY <1>1, <1>3, EmitFields
<1>5. /\ thr' \in [Threads -> Thread]
      /\ thr'[t].pc = "NeedConnect" /\ thr'[t].key = thr[t].key /\ thr'[t].c = thr[t].c
      /\ \A u \in Threads \ {t} : thr'[u] = thr[u]
  BY <1>1, GotoFields DEF TypeOK, Steps
<1>6. /\ mapConnectList' \in [Keys -> Contexts \cup {NoCtx}]
      /\ \A k \in Keys : mapConnectList'[k] \in {mapConnectList[k], NoCtx}
      /\ unlisted' \subseteq Contexts
  BY <1>1 DEF TypeOK
<1>7. /\ thr[t].pc \notin {"idle", "Lookup"} \cup Connecting
      /\ thr'[t].pc \notin {"idle", "Lookup"} \cup Connecting \cup TearingDown
      /\ thr[t].pc \in Ending /\ thr'[t].pc \in Ending
  BY <1>1, <1>5 DEF Connecting, TearingDown, Ending
<1> HIDE DEF CInv
<1> QED
  BY <1>1, <1>2, <1>4, <1>5, <1>6, <1>7, ThreadMoved

LEMMA EraseFailedCInv ==
  ASSUME CInv, NEW t \in Threads, EraseFailed(t)
  PROVE  CInv'
<1> USE DEF CInv
<1>1. /\ thr[t].pc = "EraseFailed" /\ Return(t) /\ EraseKey(thr[t].c)
      /\ UNCHANGED <<m_mapSrvInfo, m_lckSrvInfo, todo, ctx, signals, added, failed>>
  BY DEF EraseFailed, At
<1>2. thr[t].c \in Contexts /\ ctx[thr[t].c].key \in Keys
  BY <1>1, ThreadFields
<1>3. /\ mapConnectList' \in [Keys -> Contexts \cup {NoCtx}]
      /\ \A k \in Keys : mapConnectList'[k] \in {mapConnectList[k], NoCtx}
      /\ unlisted' \subseteq Contexts /\ signals' \in Seq(Signal)
  BY <1>1, <1>2, EraseKeyFields DEF TypeOK
<1>4. /\ thr' \in [Threads -> Thread] /\ thr'[t] = Idle /\ thr'[t].pc = "idle"
      /\ \A u \in Threads \ {t} : thr'[u] = thr[u]
  BY <1>1, ReturnFields, IdleFields DEF TypeOK
<1>5. /\ thr[t].pc \notin {"idle", "Lookup"} \cup Connecting
      /\ thr'[t].pc \notin TearingDown \cup Ending
      /\ thr[t].pc \notin Ending
  BY <1>1, <1>4 DEF Connecting, TearingDown, Ending
<1> HIDE DEF CInv
<1> QED
  BY <1>1, <1>3, <1>4, <1>5, ThreadMoved

LEMMA EmitDownCInv ==
  ASSUME CInv, NEW t \in Threads, EmitDown(t)
  PROVE  CInv'
<1> USE DEF CInv
<1>1. /\ thr[t].pc = "EmitDown" /\ Goto(t, "DeleteUser") /\ Emit("down", thr[t].key)
      /\ UNCHANGED <<m_mapSrvInfo, m_lckSrvInfo, todo, mapConnectList, ctx,
                     added, failed, unlisted>>
  BY DEF EmitDown, At, history
<1>2. thr[t].key \in Keys
  BY <1>1, ThreadFields
<1>3. signals' \in Seq(Signal)
  BY <1>1, <1>2, EmitFields
<1>4. /\ thr' \in [Threads -> Thread]
      /\ thr'[t].pc = "DeleteUser" /\ thr'[t].key = thr[t].key /\ thr'[t].c = thr[t].c
      /\ \A u \in Threads \ {t} : thr'[u] = thr[u]
  BY <1>1, GotoFields DEF TypeOK, Steps
<1>5. /\ mapConnectList' \in [Keys -> Contexts \cup {NoCtx}]
      /\ \A k \in Keys : mapConnectList'[k] \in {mapConnectList[k], NoCtx}
      /\ unlisted' \subseteq Contexts
  BY <1>1 DEF TypeOK
<1>6. /\ thr[t].pc \notin {"idle", "Lookup"} \cup Connecting
      /\ thr'[t].pc \notin {"idle", "Lookup"} \cup Connecting
      /\ thr'[t].pc \in TearingDown /\ ctx[thr[t].c].flag > 0
      /\ thr[t].pc \in Ending /\ thr'[t].pc \in Ending
  BY <1>1, <1>4 DEF Connecting, TearingDown, Ending, Lives
<1> HIDE DEF CInv
<1> QED
  BY <1>1, <1>3, <1>4, <1>5, <1>6, ThreadMoved

LEMMA CheckFlagCInv ==
  ASSUME CInv, NEW t \in Threads, CheckFlag(t)
  PROVE  CInv'
<1> USE DEF CInv
<1>1. /\ thr[t].pc = "CheckFlag"
      /\ Goto(t, "Erase") \/ Return(t)
      /\ UNCHANGED <<m_mapSrvInfo, m_lckSrvInfo, todo, mapConnectList, ctx, signals,
                     added, failed, unlisted>>
  BY DEF CheckFlag, At, history
<1>2. /\ thr' \in [Threads -> Thread]
      /\ \/ thr'[t] = Idle /\ thr'[t].pc = "idle"
         \/ thr'[t].pc = "Erase" /\ thr'[t].key = thr[t].key /\ thr'[t].c = thr[t].c
      /\ \A u \in Threads \ {t} : thr'[u] = thr[u]
  BY <1>1, GotoFields, ReturnFields, IdleFields DEF TypeOK, Steps
<1>3. /\ mapConnectList' \in [Keys -> Contexts \cup {NoCtx}]
      /\ \A k \in Keys : mapConnectList'[k] \in {mapConnectList[k], NoCtx}
      /\ unlisted' \subseteq Contexts /\ signals' \in Seq(Signal)
  BY <1>1 DEF TypeOK
<1>4. /\ thr[t].pc \notin {"idle", "Lookup"} \cup Connecting
      /\ thr'[t].pc \in {"idle"} \cup TearingDown
      /\ thr'[t].pc \notin {"Lookup", "ReCycle"} \cup Connecting \cup Ending
      /\ ctx[thr[t].c].flag > 0 /\ thr[t].pc \notin Ending
  BY <1>1, <1>2 DEF Connecting, TearingDown, Ending, Lives
<1>5. thr'[t].pc \notin {"NotifyUp", "PostReceive", "Receive", "ReCycle"}
  BY <1>2
<1>6. \/ thr'[t] = Idle
      \/ /\ thr'[t].key = thr[t].key /\ thr'[t].c = thr[t].c
         /\ thr'[t].pc \notin {"idle", "Lookup"} \cup Connecting
  BY <1>2, <1>4
<1> HIDE DEF CInv
<1> QED
  BY <1>1, <1>2, <1>3, <1>4, <1>5, <1>6, ThreadMoved

LEMMA EraseCInv ==
  ASSUME CInv, NEW t \in Threads, Erase(t)
  PROVE  CInv'
<1> USE DEF CInv
<1>1. /\ thr[t].pc = "Erase" /\ Goto(t, "DisconnectEx") /\ EraseKey(thr[t].c)
      /\ UNCHANGED <<m_mapSrvInfo, m_lckSrvInfo, todo, ctx, signals, added, failed>>
  BY DEF Erase, At
<1>2. thr[t].c \in Contexts /\ ctx[thr[t].c].key \in Keys
  BY <1>1, ThreadFields
<1>3. /\ mapConnectList' \in [Keys -> Contexts \cup {NoCtx}]
      /\ \A k \in Keys : mapConnectList'[k] \in {mapConnectList[k], NoCtx}
      /\ unlisted' \subseteq Contexts /\ signals' \in Seq(Signal)
  BY <1>1, <1>2, EraseKeyFields DEF TypeOK
<1>4. /\ thr' \in [Threads -> Thread]
      /\ thr'[t].pc = "DisconnectEx" /\ thr'[t].key = thr[t].key /\ thr'[t].c = thr[t].c
      /\ \A u \in Threads \ {t} : thr'[u] = thr[u]
  BY <1>1, GotoFields DEF TypeOK, Steps
<1>5. /\ thr[t].pc \notin {"idle", "Lookup"} \cup Connecting
      /\ thr'[t].pc \notin {"idle", "Lookup"} \cup Connecting \cup Ending
      /\ thr'[t].pc \in TearingDown /\ ctx[thr[t].c].flag > 0
      /\ thr[t].pc \notin Ending
  BY <1>1, <1>4 DEF Connecting, TearingDown, Ending, Lives
<1> HIDE DEF CInv
<1> QED
  BY <1>1, <1>3, <1>4, <1>5, ThreadMoved

-----------------------------------------------------------------------------
\* The steps that change a context or an entry.

\* What such a step of thread t keeps of the bookkeeping: it goes on with a
\* context that has a key, and orders a connection for its own key only.
LEMMA BaseKept ==
  ASSUME CInv, NEW t \in Threads, t # Daemon,
         thr[t].pc \notin {"Lookup"} \cup Connecting,
         thr' \in [Threads -> Thread],
         \A u \in Threads \ {t} : thr'[u] = thr[u],
         \/ thr'[t] = Idle
         \/ /\ thr'[t].pc \notin {"idle", "Lookup"} \cup Connecting
            /\ thr'[t].c \in Contexts
            /\ thr'[t].key \in Keys
            /\ ctx[thr'[t].c].key = thr'[t].key
            /\ t = App => /\ thr'[t].pc \in TearingDown
                          /\ thr[t].pc # "idle"
                          /\ thr'[t].key = thr[t].key,
         ctx' \in [Contexts -> SocketContext],
         \A c \in Contexts : ctx'[c].key = ctx[c].key,
         \A c \in Contexts : ctx'[c].pend # {} => ctx[c].key \in Keys,
         m_mapSrvInfo' \in [Keys -> SServerInfo],
         \A k \in Keys : ~m_mapSrvInfo'[k].known => m_mapSrvInfo'[k] = Unknown,
         \A k \in Keys : m_mapSrvInfo'[k].known => m_mapSrvInfo[k].known,
         \A k \in todo : m_mapSrvInfo'[k].bNeedConnect,
         \A k \in Keys : m_mapSrvInfo'[k].bNeedConnect =>
           m_mapSrvInfo[k].bNeedConnect \/ (k = thr[t].key /\ thr[t].pc # "idle"),
         UNCHANGED <<m_lckSrvInfo, todo, mapConnectList, history>>,
         signals' \in Seq(Signal)
  PROVE  TypeOK' /\ Places' /\ Keyed' /\ Scanned' /\ Calls'
<1> USE DEF CInv, history
<1>1. thr'[Daemon] = thr[Daemon]
  BY ThreadNames
<1>2. thr'[t].pc = "idle" => thr'[t] = Idle
  OBVIOUS
<1>3. thr'[t].pc # "idle" =>
        /\ thr'[t].pc \notin {"idle", "Lookup"} \cup Connecting
        /\ thr'[t].c \in Contexts /\ thr'[t].key \in Keys
        /\ ctx[thr'[t].c].key = thr'[t].key
        /\ t = App => /\ thr'[t].pc \in TearingDown /\ thr[t].pc # "idle"
                      /\ thr'[t].key = thr[t].key
  BY IdleFields
<1>4. TypeOK'
  <2>1. \A u \in Threads : thr'[u].pc # "idle" => thr'[u].key \in Keys
    BY <1>3 DEF TypeOK
  <2>2. m_lckSrvInfo' = NoCtx => todo' = {} /\ thr'[Daemon] = Idle
    BY <1>1 DEF TypeOK
  <2>3. /\ m_lckSrvInfo' \in {Daemon, NoCtx} /\ todo' \subseteq Keys
        /\ mapConnectList' \in [Keys -> Contexts \cup {NoCtx}]
        /\ added' \subseteq Keys /\ failed' \subseteq Keys /\ unlisted' \subseteq Contexts
    BY DEF TypeOK
  <2> QED
    BY <2>1, <2>2, <2>3 DEF TypeOK
<1>5. Places'
  <2>1. \A u \in Threads : thr'[u].pc = "idle" => thr'[u] = Idle
    BY <1>2 DEF Places
  <2>2. thr'[App].pc \in {"idle", "Lookup"} \cup Connecting \cup TearingDown
    BY <1>3, ThreadNames DEF Places
  <2>3. \A w \in Workers : thr'[w].pc \notin {"Lookup"} \cup Connecting
    BY <1>2, <1>3, IdleFields, ThreadNames DEF Places, Connecting
  <2> QED
    BY <1>1, <2>1, <2>2, <2>3 DEF Places
<1>6. Keyed'
  <2>1. \A u \in Threads : thr'[u].pc \notin {"idle", "Connect", "Lookup"} =>
          thr'[u].c \in Contexts /\ ctx'[thr'[u].c].key = thr'[u].key
    BY <1>3 DEF Keyed
  <2>2. \A u \in Threads : thr'[u].pc \in {"idle", "Connect", "Lookup"} => thr'[u].c = NoCtx
    BY <1>2, <1>3, IdleFields DEF Keyed, Connecting
  <2>3. \A k \in Keys : mapConnectList[k] # NoCtx => mapConnectList[k] \in Contexts
    BY DEF TypeOK
  <2> QED
    BY <2>1, <2>2, <2>3 DEF Keyed
<1>7. Scanned'
  BY <1>1 DEF Scanned
<1>8. Calls'
  <2>1. ASSUME NEW k \in Keys, Fresh(k), t = App \/ thr[t].key # k,
               ~(t = App /\ k = thr[t].key /\ thr[t].pc # "idle")
        PROVE  Fresh(k)'
    <3>1. \A c \in Contexts : ctx'[c].key # k
      BY <2>1 DEF Fresh
    <3>2. \A u \in Threads \ {App} : thr'[u].key # k
      BY <1>2, <1>3, <2>1, IdleFields, ThreadNames DEF Fresh
    <3>3. ~m_mapSrvInfo'[k].bNeedConnect
      BY <2>1 DEF Fresh
    <3> QED
      BY <3>1, <3>2, <3>3 DEF Fresh
  <2>2. \A k \in Keys : Fresh(k) /\ t # App => thr[t].key # k
    BY DEF Fresh
  <2>3. thr[App].pc # "idle" => thr[App].key \in added
    BY DEF Calls
  <2>4. ASSUME NEW k \in Keys \ added
        PROVE  Fresh(k)' /\ thr'[App].key # k /\ ~m_mapSrvInfo'[k].known
    <3>1. Fresh(k) /\ thr[App].key # k /\ ~m_mapSrvInfo[k].known
      BY DEF Calls
    <3>2. thr'[App].key # k
      BY <1>2, <1>3, <3>1, IdleFields, ThreadNames
    <3>3. k \in Keys /\ (t = App \/ thr[t].key # k)
      BY <2>2, <3>1
    <3>4. Fresh(k)'
      BY <2>1, <3>1, <3>3
    <3> QED
      BY <3>1, <3>2, <3>4
  <2>5. thr'[App].pc # "idle" => thr'[App].key \in added
    BY <1>3, <2>3, ThreadNames
  <2>6. thr'[App].pc = "Connect" => Fresh(thr[App].key)'
    <3> SUFFICES ASSUME thr'[App].pc = "Connect" PROVE Fresh(thr[App].key)'
      OBVIOUS
    <3>1. t # App /\ thr'[App] = thr[App] /\ thr[App].pc = "Connect"
      BY <1>3, ThreadNames DEF Connecting
    <3>2. thr[App].key \in Keys /\ Fresh(thr[App].key)
      BY <3>1, ThreadFields, ThreadNames DEF Calls
    <3>3. \A k \in Keys : Fresh(k) => Fresh(k)'
      BY <2>1, <2>2, <3>1
    <3> QED
      BY <3>1, <3>2, <3>3 DEF Fresh
  <2>7. thr'[App].pc \in {"Lookup"} \cup TearingDown => ~m_mapSrvInfo'[thr'[App].key].known
    <3>1. CASE t = App
      <4> SUFFICES ASSUME thr'[App].pc \in {"Lookup"} \cup TearingDown
                   PROVE  ~m_mapSrvInfo'[thr'[App].key].known
        OBVIOUS
      <4>1. /\ thr'[App].key = thr[App].key /\ thr[App].key \in Keys
            /\ thr[App].pc \in TearingDown
        BY <1>3, <3>1, IdleFields, ThreadFields DEF Places, TearingDown
      <4> QED
        BY <4>1 DEF Calls
    <3>2. CASE t # App
      <4>1. thr'[App] = thr[App]
        BY <3>2, ThreadNames
      <4> QED
        BY <4>1, ThreadFields, ThreadNames DEF Calls, TearingDown
    <3> QED
      BY <3>1, <3>2
  <2> QED
    BY <2>4, <2>5, <2>6, <2>7 DEF Calls
<1> QED
  BY <1>4, <1>5, <1>6, <1>7, <1>8

\* Nothing that counts for the token changes, but that a connection may end.
LEMMA TokenKept ==
  ASSUME CInv,
         \A c \in Contexts : Live(c)' => Live(c),
         \A c \in Contexts : ctx'[c].key = ctx[c].key,
         thr'[Daemon] = thr[Daemon],
         \A u \in Threads : thr'[u].pc \in Ending =>
           thr[u].pc \in Ending /\ thr'[u].key = thr[u].key,
         UNCHANGED m_mapSrvInfo
  PROVE  OneToken'
BY DEF CInv, OneToken, OneLive, At

LEMMA RememberedKept ==
  ASSUME CInv,
         \A c \in Contexts :
           Live(c) /\ ctx[c].key \in Keys /\ m_mapSrvInfo[ctx[c].key].known => Live(c)',
         \A c \in Contexts : ctx'[c].key = ctx[c].key,
         \A u \in Threads :
           thr[u].pc \in Connecting \cup Ending /\ m_mapSrvInfo[thr[u].key].known =>
             thr'[u].pc \in Connecting \cup Ending /\ thr'[u].key = thr[u].key,
         UNCHANGED <<m_mapSrvInfo, failed>>
  PROVE  Remembered'
BY DEF CInv, Remembered

\* A thread that works on another context, or on one whose attempt was started
\* and completed, does not disturb those that are starting one.
LEMMA StartingKept ==
  ASSUME CInv, NEW t \in Threads, NEW c \in Contexts,
         thr'[t].pc \notin {"ConnectEx", "ConnectFailed"},
         \A u \in Threads \ {t} : thr'[u] = thr[u],
         \A d \in Contexts \ {c} : ctx'[d] = ctx[d],
         ctx[c].pend # {} \/ thr[t].c = c,
         thr'[t].c \in {c, NoCtx}
  PROVE  Starting'
<1> SUFFICES ASSUME NEW u \in Threads, thr'[u].pc \in {"ConnectEx", "ConnectFailed"}
             PROVE  /\ ctx'[thr'[u].c].sock = "idle" /\ ctx'[thr'[u].c].op = "connect"
                    /\ ctx'[thr'[u].c].flag = 0 /\ ctx'[thr'[u].c].pend = {}
                    /\ \A v \in Threads : thr'[v].c = thr'[u].c => v = u
  BY DEF Starting
<1> USE DEF CInv
<1>1. u # t /\ thr'[u] = thr[u]
  OBVIOUS
<1>2. thr[u].c \in Contexts
  BY <1>1, ThreadFields
<1>3. /\ ctx[thr[u].c].sock = "idle" /\ ctx[thr[u].c].op = "connect"
      /\ ctx[thr[u].c].flag = 0 /\ ctx[thr[u].c].pend = {}
      /\ \A v \in Threads : thr[v].c = thr[u].c => v = u
  BY <1>1 DEF Lives, Starting
<1>4. thr[u].c # c
  BY <1>1, <1>3
<1>5. \A v \in Threads : thr'[v].c = thr[u].c => v = u
  BY <1>1, <1>2, <1>3, <1>4, ThreadNames
<1> QED
  BY <1>1, <1>2, <1>3, <1>4, <1>5

\* The rest of Lives, when one thread and one context change.
LEMMA LivesKept ==
  ASSUME CInv, Starting', NEW t \in Threads, NEW c \in Contexts,
         \A u \in Threads \ {t} : thr'[u] = thr[u],
         \A d \in Contexts \ {c} : ctx'[d] = ctx[d],
         ctx'[c].key = ctx[c].key,
         ctx'[c].flag > 0 \/ ctx'[c].flag = ctx[c].flag,
         ctx'[c].flag = 0 /\ ctx[c].sock = "conn" => ctx'[c].sock = "conn",
         ctx'[c].flag = 0 /\ (ctx'[c].op = "recv" \/ "recv" \in ctx'[c].pend) =>
           ctx'[c].sock = "conn",
         "connect" \in ctx'[c].pend =>
           /\ ctx'[c].op = "connect" /\ "recv" \notin ctx'[c].pend
           /\ ctx'[c].sock \in {"idle", "closed"}
           /\ \A w \in Workers : thr'[w].c # c
           /\ ctx'[c].flag = 0 \/ ~m_mapSrvInfo'[ctx[c].key].known,
         thr'[t].c \in {thr[t].c, c, NoCtx},
         t \in Workers /\ thr'[t].pc \in {"NotifyUp", "PostReceive", "Receive", "ReCycle"} =>
           thr'[t].c \in Contexts /\ (ctx'[thr'[t].c].flag = 0 => ctx'[thr'[t].c].sock = "conn"),
         thr'[t].pc \in TearingDown \ {"ReCycle"} => ctx'[thr'[t].c].flag > 0,
         \A k \in Keys : m_mapSrvInfo'[k].known => m_mapSrvInfo[k].known
  PROVE  Lives'
<1> USE DEF CInv
<1>1. ASSUME NEW d \in Contexts, "connect" \in ctx'[d].pend
      PROVE  /\ ctx'[d].op = "connect" /\ "recv" \notin ctx'[d].pend
             /\ ctx'[d].sock \in {"idle", "closed"}
             /\ \A w \in Workers : thr'[w].c # d
             /\ ctx'[d].flag = 0 \/ ~m_mapSrvInfo'[ctx'[d].key].known
  <2>1. CASE d = c
    BY <1>1, <2>1
  <2>2. CASE d # c
    <3>1. ctx'[d] = ctx[d]
      BY <2>2
    <3>2. /\ ctx[d].op = "connect" /\ "recv" \notin ctx[d].pend
          /\ ctx[d].sock \in {"idle", "closed"}
          /\ \A w \in Workers : thr[w].c # d
          /\ ctx[d].flag = 0 \/ ~m_mapSrvInfo[ctx[d].key].known
          /\ ctx[d].key \in Keys
      BY <1>1, <3>1 DEF Lives, Keyed
    <3>3. \A w \in Workers : thr'[w].c # d
      BY <2>2, <3>2, ThreadNames
    <3> QED
      BY <3>1, <3>2, <3>3
  <2> QED
    BY <2>1, <2>2
<1>2. \A d \in Contexts : ctx'[d].flag = 0 /\ (ctx'[d].op = "recv" \/ "recv" \in ctx'[d].pend) =>
        ctx'[d].sock = "conn"
  BY DEF Lives
<1>3. ASSUME NEW w \in Workers,
             thr'[w].pc \in {"NotifyUp", "PostReceive", "Receive", "ReCycle"},
             ctx'[thr'[w].c].flag = 0
      PROVE  ctx'[thr'[w].c].sock = "conn"
  <2>1. CASE w = t
    BY <1>3, <2>1
  <2>2. CASE w # t
    <3>1. thr'[w] = thr[w] /\ thr[w].c \in Contexts
      BY <1>3, <2>2, ThreadFields, ThreadNames
    <3> QED
      BY <1>3, <3>1 DEF Lives
  <2> QED
    BY <2>1, <2>2
<1>4. ASSUME NEW u \in Threads, thr'[u].pc \in TearingDown \ {"ReCycle"}
      PROVE  ctx'[thr'[u].c].flag > 0
  <2>1. CASE u # t
    <3>1. thr'[u] = thr[u] /\ thr[u].c \in Contexts /\ ctx[thr[u].c].flag > 0
      BY <1>4, <2>1, ThreadFields DEF Lives, TearingDown
    <3> QED
      BY <3>1
  <2> QED
    BY <1>4, <2>1
<1> QED
  BY <1>1, <1>2, <1>3, <1>4 DEF Lives

\* A step at one context makes or ends no other connection.
LEMMA LiveElsewhere ==
  ASSUME NEW t \in Threads, NEW c \in Contexts,
         \A u \in Threads \ {t} : thr'[u] = thr[u],
         thr[t].pc = "ConnectEx" => thr[t].c = c,
         thr'[t].pc = "ConnectEx" => thr'[t].c = c,
         NEW d \in Contexts, d # c, ctx'[d] = ctx[d]
  PROVE  Live(d)' <=> Live(d)
<1>1. \A u \in Threads : thr'[u].c = d /\ thr'[u].pc = "ConnectEx" => thr'[u] = thr[u]
  OBVIOUS
<1>2. \A u \in Threads : thr[u].c = d /\ thr[u].pc = "ConnectEx" => thr'[u] = thr[u]
  OBVIOUS
<1> QED
  BY <1>1, <1>2 DEF Live, At

\* A thread that ends a connection takes its token, ...
LEMMA TokenTaken ==
  ASSUME CInv, NEW t \in Threads, NEW c \in Contexts, NEW k \in Keys,
         ctx[c].key = k, t # Daemon,
         thr[t].pc \notin Connecting \cup Ending,
         thr'[t].pc \in Ending, thr'[t].key = k,
         \A u \in Threads \ {t} : thr'[u] = thr[u],
         \A d \in Contexts : ctx'[d].key = ctx[d].key,
         m_mapSrvInfo[k].known => Live(c) /\ ~(At(Daemon, "ConnectEx") /\ thr[Daemon].c = c),
         ~Live(c)',
         \A d \in Contexts \ {c} : Live(d)' <=> Live(d),
         UNCHANGED <<m_mapSrvInfo, failed>>
  PROVE  OneToken' /\ Remembered'
<1> USE DEF CInv
<1>1. m_mapSrvInfo[k].known =>
        /\ ~m_mapSrvInfo[k].bNeedConnect
        /\ \A d \in Contexts : ctx[d].key = k => ~Live(d)'
        /\ \A u \in Threads : thr[u].pc \in Ending => thr[u].key # k
  BY DEF OneToken, OneLive
<1>2. thr'[Daemon] = thr[Daemon]
  BY ThreadNames
<1>3. OneLive'
  BY DEF OneToken, OneLive
<1>4. \A d \in Contexts : Live(d)' /\ ctx'[d].key \in Keys /\ m_mapSrvInfo'[ctx'[d].key].bNeedConnect =>
        thr'[Daemon].pc = "ConnectEx" /\ thr'[Daemon].c = d
  BY <1>2 DEF OneToken, At
<1>5. ASSUME NEW u \in Threads, thr'[u].pc \in Ending, m_mapSrvInfo'[thr'[u].key].known
      PROVE  /\ ~m_mapSrvInfo'[thr'[u].key].bNeedConnect
             /\ \A d \in Contexts : ctx'[d].key = thr'[u].key => ~Live(d)'
             /\ \A v \in Threads : thr'[v].pc \in Ending /\ thr'[v].key = thr'[u].key => v = u
  <2>1. CASE u = t
    BY <1>1, <1>5, <2>1
  <2>2. CASE u # t
    <3>1. thr'[u] = thr[u] /\ thr[u].key # k
      BY <1>1, <1>5, <2>2
    <3>2. \A v \in Threads : thr'[v].pc \in Ending /\ thr'[v].key = thr[u].key => thr'[v] = thr[v]
      BY <3>1
    <3> QED
      BY <1>5, <3>1, <3>2 DEF OneToken
  <2> QED
    BY <2>1, <2>2
<1>6. OneToken'
  BY <1>3, <1>4, <1>5 DEF OneToken, At
<1>7. ASSUME NEW l \in Keys, m_mapSrvInfo[l].known
      PROVE  \/ m_mapSrvInfo[l].bNeedConnect
             \/ \E d \in Contexts : ctx'[d].key = l /\ Live(d)'
             \/ \E u \in Threads : thr'[u].key = l /\ thr'[u].pc \in Connecting \cup Ending
             \/ l \in failed
  <2>1. CASE l = k
    BY <2>1
  <2>2. CASE l # k
    <3>1. \A d \in Contexts : ctx[d].key = l /\ Live(d) => Live(d)' /\ ctx'[d].key = l
      BY <2>2
    <3>2. \A u \in Threads : thr[u].pc \in Connecting \cup Ending => thr'[u] = thr[u]
      OBVIOUS
    <3> QED
      BY <1>7, <3>1, <3>2 DEF Remembered
  <2> QED
    BY <2>1, <2>2
<1>8. Remembered'
  BY <1>7 DEF Remembered
<1> QED
  BY <1>6, <1>8

\* ... and turns it into the daemon's order, unless the server is unknown or
\* is to be forgotten.
LEMMA TokenGiven ==
  ASSUME CInv, NEW k \in Keys,
         \A l \in Keys \ {k} : m_mapSrvInfo'[l] = m_mapSrvInfo[l],
         m_mapSrvInfo'[k].known => m_mapSrvInfo[k].known /\ m_mapSrvInfo'[k].bNeedConnect,
         m_mapSrvInfo'[k].bNeedConnect => m_mapSrvInfo'[k].known,
         thr'[Daemon] = thr[Daemon],
         \A u \in Threads : thr'[u].pc \in Ending =>
           /\ thr[u].pc \in Ending /\ thr'[u].key = thr[u].key /\ thr[u].key \in Keys
           /\ m_mapSrvInfo'[k].known => thr[u].key # k,
         \A d \in Contexts : Live(d)' => Live(d),
         \A d \in Contexts : ctx[d].key = k => ~(m_mapSrvInfo'[k].known /\ Live(d)'),
         \A d \in Contexts : ctx[d].key # k /\ Live(d) => Live(d)',
         \A d \in Contexts : ctx'[d].key = ctx[d].key,
         \A u \in Threads : thr[u].pc \in Connecting \cup Ending /\ thr[u].key # k =>
           thr'[u].pc \in Connecting \cup Ending /\ thr'[u].key = thr[u].key,
         UNCHANGED failed
  PROVE  OneToken' /\ Remembered'
<1> USE DEF CInv
<1>1. OneLive'
  BY DEF OneToken, OneLive
<1>2. \A d \in Contexts : Live(d)' /\ ctx'[d].key \in Keys /\ m_mapSrvInfo'[ctx'[d].key].bNeedConnect =>
        thr'[Daemon].pc = "ConnectEx" /\ thr'[Daemon].c = d
  BY DEF OneToken, At
<1>3. ASSUME NEW u \in Threads, thr'[u].pc \in Ending, m_mapSrvInfo'[thr'[u].key].known
      PROVE  /\ ~m_mapSrvInfo'[thr'[u].key].bNeedConnect
             /\ \A d \in Contexts : ctx'[d].key = thr'[u].key => ~Live(d)'
             /\ \A v \in Threads : thr'[v].pc \in Ending /\ thr'[v].key = thr'[u].key => v = u
  <2>1. /\ thr[u].pc \in Ending /\ thr'[u].key = thr[u].key /\ thr[u].key # k
        /\ m_mapSrvInfo'[thr[u].key] = m_mapSrvInfo[thr[u].key]
    BY <1>3
  <2> QED
    BY <1>3, <2>1 DEF OneToken
<1>4. OneToken'
  BY <1>1, <1>2, <1>3 DEF OneToken, At
<1>5. ASSUME NEW l \in Keys, m_mapSrvInfo'[l].known
      PROVE  \/ m_mapSrvInfo'[l].bNeedConnect
             \/ \E d \in Contexts : ctx'[d].key = l /\ Live(d)'
             \/ \E u \in Threads : thr'[u].key = l /\ thr'[u].pc \in Connecting \cup Ending
             \/ l \in failed
  <2>1. CASE l # k
    <3>1. m_mapSrvInfo'[l] = m_mapSrvInfo[l]
      BY <2>1
    <3>2. \/ m_mapSrvInfo[l].bNeedConnect
          \/ \E d \in Contexts : ctx[d].key = l /\ Live(d)
          \/ \E u \in Threads : thr[u].key = l /\ thr[u].pc \in Connecting \cup Ending
          \/ l \in failed
      BY <1>5, <3>1 DEF Remembered
    <3> QED
      BY <2>1, <3>1, <3>2
  <2> QED
    BY <1>5, <2>1
<1>6. Remembered'
  BY <1>5 DEF Remembered
<1> QED
  BY <1>4, <1>6

LEMMA HandConnectCInv ==
  ASSUME CInv, NEW t \in Workers, NEW c \in Contexts, HandConnect(t, c)
  PROVE  CInv'
<1> USE DEF CInv
<1>1. /\ thr[t].pc = "idle" /\ "connect" \in ctx[c].pend /\ ctx[c].sock = "idle"
      /\ ctx' = [ctx EXCEPT ![c].pend = ctx[c].pend \ {"connect"}, ![c].sock = "conn"]
      /\ Enter(t, c, "NotifyUp")
      /\ UNCHANGED <<m_mapSrvInfo, m_lckSrvInfo, todo, mapConnectList, signals, history>>
  BY DEF HandConnect, Dispatched, At
<1>2. t \in Threads /\ t # Daemon /\ t # App
  BY ThreadNames
<1>3. /\ ctx' \in [Contexts -> SocketContext]
      /\ ctx'[c].key = ctx[c].key /\ ctx'[c].op = ctx[c].op /\ ctx'[c].flag = ctx[c].flag
      /\ ctx'[c].sock = "conn" /\ ctx'[c].pend = ctx[c].pend \ {"connect"}
      /\ \A d \in Contexts \ {c} : ctx'[d] = ctx[d]
  BY <1>1 DEF TypeOK, SocketContext
<1>4. /\ thr' \in [Threads -> Thread]
      /\ thr'[t].pc = "NotifyUp" /\ thr'[t].key = ctx[c].key /\ thr'[t].c = c
      /\ \A u \in Threads \ {t} : thr'[u] = thr[u]
  BY <1>1, <1>2, EnterFields DEF Steps
<1>5. ctx[c].key \in Keys
  BY <1>1 DEF Keyed
<1>6. TypeOK' /\ Places' /\ Keyed' /\ Scanned' /\ Calls'
  <2>1. thr[t].pc \notin {"Lookup"} \cup Connecting
    BY <1>1 DEF Connecting
  <2>2. /\ thr'[t].pc \notin {"idle", "Lookup"} \cup Connecting
        /\ thr'[t].c \in Contexts /\ thr'[t].key \in Keys
        /\ ctx[thr'[t].c].key = thr'[t].key
    BY <1>4, <1>5 DEF Connecting
  <2>3. \A d \in Contexts : ctx'[d].key = ctx[d].key /\ (ctx'[d].pend # {} => ctx[d].key \in Keys)
    BY <1>3, <1>5 DEF Keyed
  <2>4. \A k \in todo : m_mapSrvInfo[k].bNeedConnect
    BY DEF Scanned
  <2>5. /\ m_mapSrvInfo \in [Keys -> SServerInfo] /\ signals \in Seq(Signal)
        /\ \A k \in Keys : ~m_mapSrvInfo[k].known => m_mapSrvInfo[k] = Unknown
    BY DEF TypeOK
  <2> HIDE DEF CInv
  <2> QED
    BY <1>1, <1>2, <1>3, <1>4, <2>1, <2>2, <2>3, <2>4, <2>5, BaseKept
<1>7. Lives'
  <2>1. Starting'
    <3>1. /\ thr'[t].pc \notin {"ConnectEx", "ConnectFailed"}
          /\ ctx[c].pend # {} /\ thr'[t].c \in {c, NoCtx}
      BY <1>1, <1>4
    <3> HIDE DEF CInv
    <3> QED
      BY <1>2, <1>3, <1>4, <3>1, StartingKept
  <2>2. ASSUME NEW d \in Contexts, "connect" \in ctx'[d].pend
        PROVE  /\ ctx'[d].op = "connect" /\ "recv" \notin ctx'[d].pend
               /\ ctx'[d].sock \in {"idle", "closed"}
               /\ \A w \in Workers : thr'[w].c # d
               /\ ctx'[d].flag = 0 \/ ~m_mapSrvInfo'[ctx'[d].key].known
    BY <1>1, <1>2, <1>3, <1>4, <2>2, ThreadNames DEF Lives
  <2>3. \A d \in Contexts : ctx'[d].flag = 0 /\ (ctx'[d].op = "recv" \/ "recv" \in ctx'[d].pend) =>
          ctx'[d].sock = "conn"
    BY <1>3 DEF Lives
  <2>4. \A w \in Workers :
          thr'[w].pc \in {"NotifyUp", "PostReceive", "Receive", "ReCycle"} /\ ctx'[thr'[w].c].flag = 0 =>
            ctx'[thr'[w].c].sock = "conn"
    BY <1>3, <1>4, ThreadFields, ThreadNames DEF Lives
  <2>5. \A u \in Threads : thr'[u].pc \in TearingDown \ {"ReCycle"} => ctx'[thr'[u].c].flag > 0
    BY <1>3, <1>4, ThreadFields DEF Lives, TearingDown
  <2> QED
    BY <2>1, <2>2, <2>3, <2>4, <2>5 DEF Lives
<1>8. \A d \in Contexts : Live(d)' <=> Live(d)
  <2>1. \A u \in Threads : thr'[u].pc = "ConnectEx" => thr'[u] = thr[u]
    BY <1>4
  <2>2. \A u \in Threads : thr[u].pc = "ConnectEx" => thr'[u] = thr[u]
    BY <1>1, <1>4
  <2> QED
    BY <1>1, <1>3, <2>1, <2>2 DEF Live, At
<1>9. OneToken' /\ Remembered'
  <2>1. /\ \A d \in Contexts : ctx'[d].key = ctx[d].key
        /\ thr'[Daemon] = thr[Daemon]
        /\ m_mapSrvInfo' = m_mapSrvInfo /\ failed' = failed
    BY <1>1, <1>2, <1>3, <1>4, ThreadNames DEF history
  <2>2. \A u \in Threads : thr'[u].pc \in Ending =>
          thr[u].pc \in Ending /\ thr'[u].key = thr[u].key
    BY <1>4 DEF Ending
  <2>3. \A u \in Threads : thr[u].pc \in Connecting \cup Ending =>
          thr'[u].pc \in Connecting \cup Ending /\ thr'[u].key = thr[u].key
    BY <1>1, <1>4 DEF Connecting, Ending
  <2> HIDE DEF CInv
  <2> QED
    BY <1>8, <2>1, <2>2, <2>3, TokenKept, RememberedKept
<1> QED
  BY <1>6, <1>7, <1>9

LEMMA HandReceiveEndCInv ==
  ASSUME CInv, NEW t \in Workers, NEW c \in Contexts, HandReceiveEnd(t, c)
  PROVE  CInv'
<1> USE DEF CInv
<1>1. /\ thr[t].pc = "idle" /\ "recv" \in ctx[c].pend
      /\ ctx' = [ctx EXCEPT ![c].pend = ctx[c].pend \ {"recv"}]
      /\ Enter(t, c, "ReCycle")
      /\ UNCHANGED <<m_mapSrvInfo, m_lckSrvInfo, todo, mapConnectList, signals, history>>
  BY DEF HandReceiveEnd, Dispatched, At
<1>2. t \in Threads /\ t # Daemon /\ t # App
  BY ThreadNames
<1>3. /\ ctx' \in [Contexts -> SocketContext]
      /\ ctx'[c].key = ctx[c].key /\ ctx'[c].op = ctx[c].op /\ ctx'[c].flag = ctx[c].flag
      /\ ctx'[c].sock = ctx[c].sock /\ ctx'[c].pend = ctx[c].pend \ {"recv"}
      /\ \A d \in Contexts \ {c} : ctx'[d] = ctx[d]
  <2> DEFINE x == [ctx[c] EXCEPT !.pend = ctx[c].pend \ {"recv"}]
  <2>1. ctx[c] \in SocketContext /\ ctx \in [Contexts -> SocketContext]
    BY DEF TypeOK
  <2>2. /\ x \in SocketContext
        /\ x.key = ctx[c].key /\ x.op = ctx[c].op /\ x.flag = ctx[c].flag
        /\ x.sock = ctx[c].sock /\ x.pend = ctx[c].pend \ {"recv"}
    <3> HIDE DEF CInv
    <3> QED
      BY <2>1 DEF SocketContext
  <2>3. ctx' = [ctx EXCEPT ![c] = x]
    BY <1>1
  <2> HIDE DEF x, CInv
  <2> QED
    BY <2>1, <2>2, <2>3
<1>4. /\ thr' \in [Threads -> Thread]
      /\ thr'[t].pc = "ReCycle" /\ thr'[t].key = ctx[c].key /\ thr'[t].c = c
      /\ \A u \in Threads \ {t} : thr'[u] = thr[u]
  BY <1>1, <1>2, EnterFields DEF Steps
<1>5. ctx[c].key \in Keys /\ "connect" \notin ctx[c].pend
  BY <1>1 DEF Keyed, Lives
<1>6. TypeOK' /\ Places' /\ Keyed' /\ Scanned' /\ Calls'
  <2>1. thr[t].pc \notin {"Lookup"} \cup Connecting
    BY <1>1 DEF Connecting
  <2>2. /\ thr'[t].pc \notin {"idle", "Lookup"} \cup Connecting
        /\ thr'[t].c \in Contexts /\ thr'[t].key \in Keys
        /\ ctx[thr'[t].c].key = thr'[t].key
    BY <1>4, <1>5 DEF Connecting
  <2>3. \A d \in Contexts : ctx'[d].key = ctx[d].key /\ (ctx'[d].pend # {} => ctx[d].key \in Keys)
    BY <1>3, <1>5 DEF Keyed
  <2>4. \A k \in todo : m_mapSrvInfo[k].bNeedConnect
    BY DEF Scanned
  <2>5. /\ m_mapSrvInfo \in [Keys -> SServerInfo] /\ signals \in Seq(Signal)
        /\ \A k \in Keys : ~m_mapSrvInfo[k].known => m_mapSrvInfo[k] = Unknown
    BY DEF TypeOK
  <2>6. UNCHANGED <<m_mapSrvInfo, m_lckSrvInfo, todo, mapConnectList, signals, history>>
    BY <1>1
  <2> HIDE DEF CInv
  <2> QED
    BY <1>2, <1>3, <1>4, <2>1, <2>2, <2>3, <2>4, <2>5, <2>6, BaseKept
<1>7. Lives'
  <2>1. Starting'
    <3>1. /\ thr'[t].pc \notin {"ConnectEx", "ConnectFailed"}
          /\ ctx[c].pend # {} /\ thr'[t].c \in {c, NoCtx}
      BY <1>1, <1>4
    <3> HIDE DEF CInv
    <3> QED
      BY <1>2, <1>3, <1>4, <3>1, StartingKept
  <2>2. ASSUME NEW d \in Contexts, "connect" \in ctx'[d].pend
        PROVE  /\ ctx'[d].op = "connect" /\ "recv" \notin ctx'[d].pend
               /\ ctx'[d].sock \in {"idle", "closed"}
               /\ \A w \in Workers : thr'[w].c # d
               /\ ctx'[d].flag = 0 \/ ~m_mapSrvInfo'[ctx'[d].key].known
    BY <1>1, <1>2, <1>3, <1>4, <1>5, <2>2, ThreadNames DEF Lives
  <2>3. \A d \in Contexts : ctx'[d].flag = 0 /\ (ctx'[d].op = "recv" \/ "recv" \in ctx'[d].pend) =>
          ctx'[d].sock = "conn"
    BY <1>3 DEF Lives
  <2>4. \A w \in Workers :
          thr'[w].pc \in {"NotifyUp", "PostReceive", "Receive", "ReCycle"} /\ ctx'[thr'[w].c].flag = 0 =>
            ctx'[thr'[w].c].sock = "conn"
    BY <1>1, <1>3, <1>4, ThreadFields, ThreadNames DEF Lives
  <2>5. \A u \in Threads : thr'[u].pc \in TearingDown \ {"ReCycle"} => ctx'[thr'[u].c].flag > 0
    BY <1>3, <1>4, ThreadFields DEF Lives, TearingDown
  <2> QED
    BY <2>1, <2>2, <2>3, <2>4, <2>5 DEF Lives
<1>8. \A d \in Contexts : Live(d)' <=> Live(d)
  <2>1. \A u \in Threads : thr'[u].pc = "ConnectEx" => thr'[u] = thr[u]
    BY <1>4
  <2>2. \A u \in Threads : thr[u].pc = "ConnectEx" => thr'[u] = thr[u]
    BY <1>1, <1>4
  <2> QED
    BY <1>1, <1>3, <2>1, <2>2 DEF Live, At
<1>9. OneToken' /\ Remembered'
  <2>1. /\ \A d \in Contexts : ctx'[d].key = ctx[d].key
        /\ thr'[Daemon] = thr[Daemon]
        /\ m_mapSrvInfo' = m_mapSrvInfo /\ failed' = failed
    BY <1>1, <1>2, <1>3, <1>4, ThreadNames DEF history
  <2>2. \A u \in Threads : thr'[u].pc \in Ending =>
          thr[u].pc \in Ending /\ thr'[u].key = thr[u].key
    BY <1>4 DEF Ending
  <2>3. \A u \in Threads : thr[u].pc \in Connecting \cup Ending =>
          thr'[u].pc \in Connecting \cup Ending /\ thr'[u].key = thr[u].key
    BY <1>1, <1>4 DEF Connecting, Ending
  <2> HIDE DEF CInv
  <2> QED
    BY <1>8, <2>1, <2>2, <2>3, TokenKept, RememberedKept
<1> QED
  BY <1>6, <1>7, <1>9

LEMMA HandDisconnectCInv ==
  ASSUME CInv, NEW t \in Workers, NEW c \in Contexts, HandDisconnect(t, c)
  PROVE  CInv'
<1> USE DEF CInv
<1>1. /\ thr[t].pc = "idle" /\ "disc" \in ctx[c].pend
      /\ ctx' = [ctx EXCEPT ![c].pend = ctx[c].pend \ {"disc"}]
      /\ UNCHANGED <<m_mapSrvInfo, m_lckSrvInfo, todo, mapConnectList, thr, signals, history>>
  BY DEF HandDisconnect, Dispatched, At
<1>2. t \in Threads /\ t # Daemon
  BY ThreadNames
<1>3. /\ ctx' \in [Contexts -> SocketContext]
      /\ ctx'[c].key = ctx[c].key /\ ctx'[c].op = ctx[c].op /\ ctx'[c].flag = ctx[c].flag
      /\ ctx'[c].sock = ctx[c].sock /\ ctx'[c].pend = ctx[c].pend \ {"disc"}
      /\ \A d \in Contexts \ {c} : ctx'[d] = ctx[d]
  BY <1>1 DEF TypeOK, SocketContext
<1>4. thr' \in [Threads -> Thread] /\ thr' = thr /\ thr'[t] = Idle /\ thr'[t].c = NoCtx
  BY <1>1, <1>2, IdleFields DEF TypeOK, Places
<1>5. TypeOK' /\ Places' /\ Keyed' /\ Scanned' /\ Calls'
  <2>1. thr[t].pc \notin {"Lookup"} \cup Connecting
    BY <1>1 DEF Connecting
  <2>2. \A d \in Contexts : ctx'[d].key = ctx[d].key /\ (ctx'[d].pend # {} => ctx[d].key \in Keys)
    BY <1>1, <1>3 DEF Keyed
  <2>3. \A k \in todo : m_mapSrvInfo[k].bNeedConnect
    BY DEF Scanned
  <2>4. /\ m_mapSrvInfo \in [Keys -> SServerInfo] /\ signals \in Seq(Signal)
        /\ \A k \in Keys : ~m_mapSrvInfo[k].known => m_mapSrvInfo[k] = Unknown
    BY DEF TypeOK
  <2> HIDE DEF CInv
  <2> QED
    BY <1>1, <1>2, <1>3, <1>4, <2>1, <2>2, <2>3, <2>4, BaseKept
<1>6. Lives'
  <2>1. Starting'
    <3>1. /\ thr'[t].pc \notin {"ConnectEx", "ConnectFailed"}
          /\ ctx[c].pend # {} /\ thr'[t].c \in {c, NoCtx}
          /\ \A u \in Threads \ {t} : thr'[u] = thr[u]
      BY <1>1, <1>4
    <3> HIDE DEF CInv
    <3> QED
      BY <1>2, <1>3, <3>1, StartingKept
  <2>2. ASSUME NEW d \in Contexts, "connect" \in ctx'[d].pend
        PROVE  /\ ctx'[d].op = "connect" /\ "recv" \notin ctx'[d].pend
               /\ ctx'[d].sock \in {"idle", "closed"}
               /\ \A w \in Workers : thr'[w].c # d
               /\ ctx'[d].flag = 0 \/ ~m_mapSrvInfo'[ctx'[d].key].known
    BY <1>1, <1>3, <2>2 DEF Lives
  <2>3. \A d \in Contexts : ctx'[d].flag = 0 /\ (ctx'[d].op = "recv" \/ "recv" \in ctx'[d].pend) =>
          ctx'[d].sock = "conn"
    BY <1>3 DEF Lives
  <2>4. \A w \in Workers :
          thr'[w].pc \in {"NotifyUp", "PostReceive", "Receive", "ReCycle"} /\ ctx'[thr'[w].c].flag = 0 =>
            ctx'[thr'[w].c].sock = "conn"
    BY <1>1, <1>3, ThreadFields, ThreadNames DEF Lives
  <2>5. \A u \in Threads : thr'[u].pc \in TearingDown \ {"ReCycle"} => ctx'[thr'[u].c].flag > 0
    BY <1>1, <1>3, ThreadFields DEF Lives, TearingDown
  <2> QED
    BY <2>1, <2>2, <2>3, <2>4, <2>5 DEF Lives
<1>7. \A d \in Contexts : Live(d)' <=> Live(d)
  BY <1>1, <1>3 DEF Live, At
<1>8. OneToken' /\ Remembered'
  <2>1. /\ \A d \in Contexts : ctx'[d].key = ctx[d].key
        /\ thr' = thr /\ m_mapSrvInfo' = m_mapSrvInfo /\ failed' = failed
    BY <1>1, <1>3 DEF history
  <2> HIDE DEF CInv
  <2> QED
    BY <1>7, <2>1, TokenKept, RememberedKept
<1> QED
  BY <1>5, <1>6, <1>8

LEMMA ReceiveCInv ==
  ASSUME CInv, NEW t \in Threads, Receive(t)
  PROVE  CInv'
<1> USE DEF CInv
<1> DEFINE c == thr[t].c
<1>1. /\ thr[t].pc = "Receive"
      /\ UNCHANGED <<m_mapSrvInfo, m_lckSrvInfo, todo, mapConnectList, signals, history>>
  BY DEF Receive, At
<1>2. /\ t \in Workers /\ t # Daemon /\ t # App
      /\ c \in Contexts /\ ctx[c].key = thr[t].key /\ thr[t].key \in Keys
      /\ "connect" \notin ctx[c].pend
  BY <1>1, ThreadNames, ThreadFields DEF Places, Connecting, TearingDown, Lives
<1>3. /\ ctx' \in [Contexts -> SocketContext]
      /\ ctx'[c].key = ctx[c].key /\ ctx'[c].op = "recv" /\ ctx'[c].flag = ctx[c].flag
      /\ ctx'[c].sock = ctx[c].sock /\ ctx'[c].pend \subseteq ctx[c].pend \cup {"recv"}
      /\ \A d \in Contexts \ {c} : ctx'[d] = ctx[d]
  <2>1. ctx \in [Contexts -> SocketContext]
    BY DEF TypeOK
  <2>2. CASE ctx' = [ctx EXCEPT ![c].op = "recv", ![c].pend = ctx[c].pend \cup {"recv"}]
    <3> DEFINE x == [ctx[c] EXCEPT !.op = "recv", !.pend = ctx[c].pend \cup {"recv"}]
    <3>1. ctx[c] \in SocketContext
      BY <1>2, <2>1
    <3>2. /\ x \in SocketContext
          /\ x.key = ctx[c].key /\ x.op = "recv" /\ x.flag = ctx[c].flag
          /\ x.sock = ctx[c].sock /\ x.pend = ctx[c].pend \cup {"recv"}
      <4> HIDE DEF CInv, c
      <4> QED
        BY <3>1 DEF SocketContext
    <3>3. ctx' = [ctx EXCEPT ![c] = x]
      BY <1>2, <2>1, <2>2, <3>1 DEF SocketContext
    <3> HIDE DEF x, CInv, c
    <3> QED
      BY <1>2, <2>1, <3>2, <3>3
  <2>3. CASE ctx' = [ctx EXCEPT ![c].op = "recv"]
    BY <1>2, <2>1, <2>3 DEF SocketContext
  <2> QED
    BY <2>2, <2>3 DEF Receive
<1>4. /\ thr' \in [Threads -> Thread]
      /\ \/ thr'[t] = Idle /\ thr'[t].pc = "idle" /\ thr'[t].c = NoCtx
         \/ thr'[t].pc = "ReCycle" /\ thr'[t].key = thr[t].key /\ thr'[t].c = c
      /\ \A u \in Threads \ {t} : thr'[u] = thr[u]
  <2>1. thr \in [Threads -> Thread]
    BY DEF TypeOK
  <2>2. Return(t) \/ Goto(t, "ReCycle")
    BY DEF Receive
  <2>3. CASE Return(t)
    BY <2>1, <2>3, ReturnFields, IdleFields
  <2>4. CASE Goto(t, "ReCycle")
    BY <2>1, <2>4, GotoFields DEF Steps
  <2> QED
    BY <2>2, <2>3, <2>4
<1> HIDE DEF c
<1>5. ctx[c].flag = 0 => ctx[c].sock = "conn"
  BY <1>1, <1>2 DEF Lives, c
<1>6. TypeOK' /\ Places' /\ Keyed' /\ Scanned' /\ Calls'
  <2>1. thr[t].pc \notin {"Lookup"} \cup Connecting
    BY <1>1 DEF Connecting
  <2>2. \/ thr'[t] = Idle
        \/ /\ thr'[t].pc \notin {"idle", "Lookup"} \cup Connecting
           /\ thr'[t].c \in Contexts /\ thr'[t].key \in Keys
           /\ ctx[thr'[t].c].key = thr'[t].key
    BY <1>2, <1>4 DEF Connecting
  <2>3. \A d \in Contexts : ctx'[d].key = ctx[d].key /\ (ctx'[d].pend # {} => ctx[d].key \in Keys)
    BY <1>2, <1>3 DEF Keyed
  <2>4. \A k \in todo : m_mapSrvInfo[k].bNeedConnect
    BY DEF Scanned
  <2>5. /\ m_mapSrvInfo \in [Keys -> SServerInfo] /\ signals \in Seq(Signal)
        /\ \A k \in Keys : ~m_mapSrvInfo[k].known => m_mapSrvInfo[k] = Unknown
    BY DEF TypeOK
  <2> HIDE DEF CInv
  <2> QED
    BY <1>1, <1>2, <1>3, <1>4, <2>1, <2>2, <2>3, <2>4, <2>5, BaseKept
<1>7. Lives'
  <2>1. Starting'
    <3>1. /\ thr'[t].pc \notin {"ConnectEx", "ConnectFailed"}
          /\ thr[t].c = c /\ thr'[t].c \in {c, NoCtx}
      BY <1>1, <1>4 DEF c
    <3> HIDE DEF CInv
    <3> QED
      BY <1>2, <1>3, <1>4, <3>1, StartingKept
  <2>2. ASSUME NEW d \in Contexts, "connect" \in ctx'[d].pend
        PROVE  /\ ctx'[d].op = "connect" /\ "recv" \notin ctx'[d].pend
               /\ ctx'[d].sock \in {"idle", "closed"}
               /\ \A w \in Workers : thr'[w].c # d
               /\ ctx'[d].flag = 0 \/ ~m_mapSrvInfo'[ctx'[d].key].known
    <3>1. d # c /\ ctx'[d] = ctx[d]
      BY <1>2, <1>3, <2>2
    <3>2. \A w \in Workers : thr'[w].c # d
      BY <1>4, <2>2, <3>1, ThreadNames DEF Lives
    <3> QED
      BY <1>1, <2>2, <3>1, <3>2 DEF Lives
  <2>3. \A d \in Contexts : ctx'[d].flag = 0 /\ (ctx'[d].op = "recv" \/ "recv" \in ctx'[d].pend) =>
          ctx'[d].sock = "conn"
    BY <1>3, <1>5 DEF Lives
  <2>4. \A w \in Workers :
          thr'[w].pc \in {"NotifyUp", "PostReceive", "Receive", "ReCycle"} /\ ctx'[thr'[w].c].flag = 0 =>
            ctx'[thr'[w].c].sock = "conn"
    BY <1>3, <1>4, <1>5, ThreadFields, ThreadNames DEF Lives
  <2>5. \A u \in Threads : thr'[u].pc \in TearingDown \ {"ReCycle"} => ctx'[thr'[u].c].flag > 0
    BY <1>3, <1>4, ThreadFields DEF Lives, TearingDown
  <2> QED
    BY <2>1, <2>2, <2>3, <2>4, <2>5 DEF Lives
<1>8. \A d \in Contexts : Live(d)' <=> Live(d)
  <2>1. \A u \in Threads : thr'[u].pc = "ConnectEx" => thr'[u] = thr[u]
    BY <1>4
  <2>2. \A u \in Threads : thr[u].pc = "ConnectEx" => thr'[u] = thr[u]
    BY <1>1, <1>4
  <2>3. "connect" \notin ctx'[c].pend
    BY <1>2, <1>3
  <2> QED
    BY <1>2, <1>3, <2>1, <2>2, <2>3 DEF Live, At
<1>9. OneToken' /\ Remembered'
  <2>1. /\ \A d \in Contexts : ctx'[d].key = ctx[d].key
        /\ thr'[Daemon] = thr[Daemon]
        /\ m_mapSrvInfo' = m_mapSrvInfo /\ failed' = failed
    BY <1>1, <1>2, <1>3, <1>4, ThreadNames DEF history
  <2>2. \A u \in Threads : thr'[u].pc \in Ending =>
          thr[u].pc \in Ending /\ thr'[u].key = thr[u].key
    BY <1>4 DEF Ending
  <2>3. \A u \in Threads : thr[u].pc \in Connecting \cup Ending =>
          thr'[u].pc \in Connecting \cup Ending /\ thr'[u].key = thr[u].key
    BY <1>1, <1>4 DEF Connecting, Ending
  <2> HIDE DEF CInv
  <2> QED
    BY <1>8, <2>1, <2>2, <2>3, TokenKept, RememberedKept
<1> QED
  BY <1>6, <1>7, <1>9

LEMMA DisconnectExCInv ==
  ASSUME CInv, NEW t \in Threads, NEW c \in Contexts, thr[t].c = c, DisconnectEx(t)
  PROVE  CInv'
<1> USE DEF CInv
<1>1. /\ thr[t].pc = "DisconnectEx"
      /\ Return(t)
      /\ UNCHANGED <<m_mapSrvInfo, m_lckSrvInfo, todo, mapConnectList, signals, history>>
  BY DEF DisconnectEx, At
<1>2. /\ t # Daemon
      /\ c \in Contexts /\ ctx[c].key = thr[t].key /\ thr[t].key \in Keys
      /\ ctx[c].flag > 0
  BY <1>1, ThreadFields DEF Places, Connecting, TearingDown, Lives
<1>3. /\ ctx' \in [Contexts -> SocketContext]
      /\ ctx'[c].key = ctx[c].key /\ ctx'[c].op = ctx[c].op /\ ctx'[c].flag = ctx[c].flag
      /\ \/ ctx[c].sock = "conn" /\ ctx'[c].pend = ctx[c].pend \cup {"disc"}
         \/ ctx'[c].sock = "closed" /\ ctx'[c].pend = ctx[c].pend
      /\ \A d \in Contexts \ {c} : ctx'[d] = ctx[d]
  <2>1. ctx \in [Contexts -> SocketContext]
    BY DEF TypeOK
  <2>2. CASE /\ ctx[c].sock = "conn"
             /\ ctx' = [ctx EXCEPT ![c].sock = "down", ![c].pend = ctx[c].pend \cup {"disc"}]
    <3>1. /\ ctx' \in [Contexts -> SocketContext]
          /\ ctx'[c].key = ctx[c].key /\ ctx'[c].op = ctx[c].op /\ ctx'[c].flag = ctx[c].flag
          /\ ctx'[c].pend = ctx[c].pend \cup {"disc"}
          /\ \A d \in Contexts \ {c} : ctx'[d] = ctx[d]
      <4> DEFINE x == [ctx[c] EXCEPT !.sock = "down", !.pend = ctx[c].pend \cup {"disc"}]
      <4>0. ctx[c] \in SocketContext /\ ctx[c].pend \cup {"disc"} \subseteq {"connect", "recv", "disc"}
        BY <1>2, <2>1 DEF SocketContext
      <4>1. /\ x \in SocketContext
            /\ x.key = ctx[c].key /\ x.op = ctx[c].op /\ x.flag = ctx[c].flag
            /\ x.pend = ctx[c].pend \cup {"disc"}
        <5> HIDE DEF CInv
        <5> QED
          BY <4>0 DEF SocketContext
      <4>2. ctx' = [ctx EXCEPT ![c] = x]
        BY <2>1, <2>2 DEF SocketContext
      <4> HIDE DEF x
      <4> QED
        BY <2>1, <4>1, <4>2
    <3> QED
      BY <2>2, <3>1
  <2>3. CASE ctx' = [ctx EXCEPT ![c].sock = "closed"]
    BY <1>2, <2>1, <2>3 DEF SocketContext
  <2> QED
    BY <2>2, <2>3 DEF DisconnectEx
<1>4. /\ thr' \in [Threads -> Thread]
      /\ thr'[t] = Idle /\ thr'[t].pc = "idle" /\ thr'[t].c = NoCtx
      /\ \A u \in Threads \ {t} : thr'[u] = thr[u]
  BY <1>1, ReturnFields, IdleFields DEF TypeOK
<1>5. TypeOK' /\ Places' /\ Keyed' /\ Scanned' /\ Calls'
  <2>1. thr[t].pc \notin {"Lookup"} \cup Connecting
    BY <1>1 DEF Connecting
  <2>2. \A d \in Contexts : ctx'[d].key = ctx[d].key /\ (ctx'[d].pend # {} => ctx[d].key \in Keys)
    BY <1>2, <1>3 DEF Keyed
  <2>3. \A k \in todo : m_mapSrvInfo[k].bNeedConnect
    BY DEF Scanned
  <2>4. /\ m_mapSrvInfo \in [Keys -> SServerInfo] /\ signals \in Seq(Signal)
        /\ \A k \in Keys : ~m_mapSrvInfo[k].known => m_mapSrvInfo[k] = Unknown
    BY DEF TypeOK
  <2> HIDE DEF CInv
  <2> QED
    BY <1>1, <1>2, <1>3, <1>4, <2>1, <2>2, <2>3, <2>4, BaseKept
<1>6. Lives'
  <2>1. Starting'
    <3>1. /\ thr'[t].pc \notin {"ConnectEx", "ConnectFailed"}
          /\ thr[t].c = c /\ thr'[t].c \in {c, NoCtx}
      BY <1>1, <1>4
    <3> HIDE DEF CInv
    <3> QED
      BY <1>2, <1>3, <1>4, <3>1, StartingKept
  <2>2. ASSUME NEW d \in Contexts, "connect" \in ctx'[d].pend
        PROVE  /\ ctx'[d].op = "connect" /\ "recv" \notin ctx'[d].pend
               /\ ctx'[d].sock \in {"idle", "closed"}
               /\ \A w \in Workers : thr'[w].c # d
               /\ ctx'[d].flag = 0 \/ ~m_mapSrvInfo'[ctx'[d].key].known
    <3>1. /\ "connect" \in ctx[d].pend
          /\ ctx'[d].op = ctx[d].op /\ ctx'[d].flag = ctx[d].flag /\ ctx'[d].key = ctx[d].key
      BY <1>3, <2>2
    <3>2. /\ ctx[d].op = "connect" /\ "recv" \notin ctx[d].pend
          /\ ctx[d].sock \in {"idle", "closed"}
          /\ \A w \in Workers : thr[w].c # d
          /\ ctx[d].flag = 0 \/ ~m_mapSrvInfo[ctx[d].key].known
      BY <3>1 DEF Lives
    <3>3. \A w \in Workers : thr'[w].c # d
      BY <1>4, <3>2, ThreadNames
    <3>4. "recv" \notin ctx'[d].pend /\ ctx'[d].sock \in {"idle", "closed"}
      BY <1>3, <3>2
    <3> QED
      BY <1>1, <3>1, <3>2, <3>3, <3>4
  <2>3. \A d \in Contexts : ctx'[d].flag = 0 /\ (ctx'[d].op = "recv" \/ "recv" \in ctx'[d].pend) =>
          ctx'[d].sock = "conn"
    BY <1>2, <1>3, ContextFields DEF Lives
  <2>4. \A w \in Workers :
          thr'[w].pc \in {"NotifyUp", "PostReceive", "Receive", "ReCycle"} /\ ctx'[thr'[w].c].flag = 0 =>
            ctx'[thr'[w].c].sock = "conn"
    BY <1>2, <1>3, <1>4, ThreadFields, ThreadNames, ContextFields DEF Lives
  <2>5. \A u \in Threads : thr'[u].pc \in TearingDown \ {"ReCycle"} => ctx'[thr'[u].c].flag > 0
    BY <1>3, <1>4, ThreadFields DEF Lives, TearingDown
  <2> QED
    BY <2>1, <2>2, <2>3, <2>4, <2>5 DEF Lives
<1>7. \A d \in Contexts : Live(d)' <=> Live(d)
  <2>1. \A u \in Threads : thr'[u].pc = "ConnectEx" => thr'[u] = thr[u]
    BY <1>4
  <2>2. \A u \in Threads : thr[u].pc = "ConnectEx" => thr'[u] = thr[u]
    BY <1>1, <1>4
  <2>3. ~Live(c) /\ ~Live(c)'
    BY <1>2, <1>3, ContextFields DEF Live
  <2>4. ASSUME NEW d \in Contexts \ {c} PROVE Live(d)' <=> Live(d)
    BY <1>3, <2>1, <2>2 DEF Live, At
  <2> QED
    BY <2>3, <2>4
<1>8. OneToken' /\ Remembered'
  <2>1. /\ \A d \in Contexts : ctx'[d].key = ctx[d].key
        /\ thr'[Daemon] = thr[Daemon]
        /\ m_mapSrvInfo' = m_mapSrvInfo /\ failed' = failed
    BY <1>1, <1>2, <1>3, <1>4, ThreadNames DEF history
  <2>2. \A u \in Threads : thr'[u].pc \in Ending =>
          thr[u].pc \in Ending /\ thr'[u].key = thr[u].key
    BY <1>4 DEF Ending
  <2>3. \A u \in Threads : thr[u].pc \in Connecting \cup Ending =>
          thr'[u].pc \in Connecting \cup Ending /\ thr'[u].key = thr[u].key
    BY <1>1, <1>4 DEF Connecting, Ending
  <2> HIDE DEF CInv
  <2> QED
    BY <1>7, <2>1, <2>2, <2>3, TokenKept, RememberedKept
<1> QED
  BY <1>5, <1>6, <1>8

\* The thread that finds the flag clear takes the token from the connection.
LEMMA ReCycleCInv ==
  ASSUME CInv, NEW t \in Threads, NEW c \in Contexts, NEW k \in Keys,
         thr[t].c = c, thr[t].key = k, ReCycle(t)
  PROVE  CInv'
<1> USE DEF CInv
<1>1. /\ thr[t].pc = "ReCycle"
      /\ ctx' = [ctx EXCEPT ![c].flag = IF ctx[c].flag = 2 THEN 2 ELSE ctx[c].flag + 1]
      /\ IF ctx[c].flag = 0 THEN Goto(t, "EmitDown") ELSE AfterReCycle(t)
      /\ UNCHANGED <<m_mapSrvInfo, m_lckSrvInfo, todo, mapConnectList, signals, history>>
  BY DEF ReCycle, At
<1>2. /\ t # Daemon
      /\ c \in Contexts /\ ctx[c].key = k /\ k \in Keys
      /\ t = App => ~m_mapSrvInfo[k].known
      /\ ctx[c].flag \in 0..2
  BY <1>1, ThreadFields, ContextFields DEF Places, Connecting, TearingDown, Calls
<1>3. /\ ctx' \in [Contexts -> SocketContext]
      /\ ctx'[c].key = ctx[c].key /\ ctx'[c].op = ctx[c].op
      /\ ctx'[c].sock = ctx[c].sock /\ ctx'[c].pend = ctx[c].pend
      /\ ctx'[c].flag > 0 /\ ctx'[c].flag # 0
      /\ \A d \in Contexts \ {c} : ctx'[d] = ctx[d]
  <2> DEFINE n == IF ctx[c].flag = 2 THEN 2 ELSE ctx[c].flag + 1
  <2>1. n \in 0..2 /\ n > 0 /\ n # 0
    BY <1>2
  <2>2. ctx \in [Contexts -> SocketContext] /\ ctx' = [ctx EXCEPT ![c].flag = n]
    BY <1>1 DEF TypeOK
  <2> HIDE DEF n
  <2>3. /\ ctx' \in [Contexts -> SocketContext]
        /\ ctx'[c].key = ctx[c].key /\ ctx'[c].op = ctx[c].op
        /\ ctx'[c].sock = ctx[c].sock /\ ctx'[c].pend = ctx[c].pend
        /\ ctx'[c].flag = n
        /\ \A d \in Contexts \ {c} : ctx'[d] = ctx[d]
    BY <1>2, <2>1, <2>2 DEF SocketContext
  <2> QED
    BY <2>1, <2>3
<1>4. /\ thr' \in [Threads -> Thread]
      /\ \/ thr'[t] = Idle /\ thr'[t].pc = "idle" /\ thr'[t].c = NoCtx /\ ctx[c].flag # 0
         \/ /\ \/ thr'[t].pc = "EmitDown" /\ ctx[c].flag = 0
               \/ thr'[t].pc = "CheckFlag" /\ ctx[c].flag # 0
            /\ thr'[t].key = k /\ thr'[t].c = c
      /\ \A u \in Threads \ {t} : thr'[u] = thr[u]
  <2>1. thr \in [Threads -> Thread]
    BY DEF TypeOK
  <2>2. CASE ctx[c].flag = 0
    BY <1>1, <2>1, <2>2, GotoFields DEF Steps
  <2>3. CASE ctx[c].flag # 0
    BY <1>1, <2>1, <2>3, AfterReCycleFields, IdleFields
  <2> QED
    BY <2>2, <2>3
<1>5. "connect" \in ctx[c].pend => ~m_mapSrvInfo[k].known
  BY <1>2, ThreadNames DEF Lives
<1>6. TypeOK' /\ Places' /\ Keyed' /\ Scanned' /\ Calls'
  <2>1. thr[t].pc \notin {"Lookup"} \cup Connecting
    BY <1>1 DEF Connecting
  <2>2. \/ thr'[t] = Idle
        \/ /\ thr'[t].pc \notin {"idle", "Lookup"} \cup Connecting
           /\ thr'[t].c \in Contexts /\ thr'[t].key \in Keys
           /\ ctx[thr'[t].c].key = thr'[t].key
           /\ thr'[t].pc \in TearingDown /\ thr[t].pc # "idle" /\ thr'[t].key = thr[t].key
    BY <1>1, <1>2, <1>4 DEF Connecting, TearingDown
  <2>3. \A d \in Contexts : ctx'[d].key = ctx[d].key /\ (ctx'[d].pend # {} => ctx[d].key \in Keys)
    BY <1>2, <1>3 DEF Keyed
  <2>4. \A l \in todo : m_mapSrvInfo[l].bNeedConnect
    BY DEF Scanned
  <2>5. /\ m_mapSrvInfo \in [Keys -> SServerInfo] /\ signals \in Seq(Signal)
        /\ \A l \in Keys : ~m_mapSrvInfo[l].known => m_mapSrvInfo[l] = Unknown
    BY DEF TypeOK
  <2> HIDE DEF CInv
  <2> QED
    BY <1>1, <1>2, <1>3, <1>4, <2>1, <2>2, <2>3, <2>4, <2>5, BaseKept
<1>7. Lives'
  <2>1. Starting'
    <3>1. /\ thr'[t].pc \notin {"ConnectEx", "ConnectFailed"}
          /\ thr[t].c = c /\ thr'[t].c \in {c, NoCtx}
      BY <1>1, <1>4
    <3> HIDE DEF CInv
    <3> QED
      BY <1>2, <1>3, <1>4, <3>1, StartingKept
  <2>2. "connect" \in ctx'[c].pend =>
          /\ ctx'[c].op = "connect" /\ "recv" \notin ctx'[c].pend
          /\ ctx'[c].sock \in {"idle", "closed"}
          /\ \A w \in Workers : thr'[w].c # c
          /\ ctx'[c].flag = 0 \/ ~m_mapSrvInfo'[ctx[c].key].known
    BY <1>1, <1>2, <1>3, <1>4, <1>5, ThreadNames DEF Lives
  <2>3. /\ thr'[t].c \in {thr[t].c, c, NoCtx}
        /\ thr'[t].pc \notin {"NotifyUp", "PostReceive", "Receive", "ReCycle"}
        /\ thr'[t].pc \in TearingDown \ {"ReCycle"} => ctx'[thr'[t].c].flag > 0
    BY <1>3, <1>4 DEF TearingDown
  <2> HIDE DEF CInv
  <2> QED
    BY <1>1, <1>3, <1>4, <2>1, <2>2, <2>3, LivesKept
<1>8. /\ ~Live(c)'
      /\ \A d \in Contexts \ {c} : Live(d)' <=> Live(d)
  <2>1. thr[t].pc # "ConnectEx" /\ thr'[t].pc # "ConnectEx"
    BY <1>1, <1>4
  <2>2. \A d \in Contexts \ {c} : Live(d)' <=> Live(d)
    BY <1>3, <1>4, <2>1, LiveElsewhere
  <2> QED
    BY <1>3, <2>2 DEF Live
<1>9. /\ \A d \in Contexts : ctx'[d].key = ctx[d].key
      /\ thr'[Daemon] = thr[Daemon]
      /\ m_mapSrvInfo' = m_mapSrvInfo /\ failed' = failed
      /\ thr[t].pc \notin Connecting \cup Ending
  BY <1>1, <1>2, <1>3, <1>4, ThreadNames DEF history, Connecting, Ending
<1>10. CASE ctx[c].flag = 0
  \* The connection was up: it had the token.
  <2>1. t \in Workers => ctx[c].sock = "conn"
    BY <1>1, <1>10 DEF Lives
  <2>2. m_mapSrvInfo[k].known => Live(c) /\ ~(At(Daemon, "ConnectEx") /\ thr[Daemon].c = c)
    BY <1>2, <1>10, <2>1, ThreadNames DEF Live, At, Lives, Starting
  <2>3. thr'[t].pc \in Ending /\ thr'[t].key = k
    BY <1>4, <1>10 DEF Ending
  <2> HIDE DEF CInv
  <2>4. OneToken' /\ Remembered'
    BY <1>2, <1>4, <1>8, <1>9, <2>2, <2>3, TokenTaken
  <2> QED
    BY <1>6, <1>7, <2>4 DEF CInv
<1>11. CASE ctx[c].flag # 0
  <2>1. \A d \in Contexts : Live(d)' <=> Live(d)
    BY <1>8, <1>11 DEF Live
  <2>2. \A u \in Threads : thr'[u].pc \in Ending =>
          thr[u].pc \in Ending /\ thr'[u].key = thr[u].key
    BY <1>4, <1>11 DEF Ending
  <2>3. \A u \in Threads : thr[u].pc \in Connecting \cup Ending =>
          thr'[u].pc \in Connecting \cup Ending /\ thr'[u].key = thr[u].key
    BY <1>4, <1>9
  <2> HIDE DEF CInv
  <2>4. OneToken' /\ Remembered'
    BY <1>9, <2>1, <2>2, <2>3, TokenKept, RememberedKept
  <2> QED
    BY <1>6, <1>7, <2>4 DEF CInv
<1> QED
  BY <1>10, <1>11
\* The thread that sees an attempt fail takes the token too.
LEMMA HandConnectErrorCInv ==
  ASSUME CInv, NEW t \in Workers, NEW c \in Contexts, NEW k \in Keys, ctx[c].key = k,
         HandConnectError(t, c)
  PROVE  CInv'
<1> USE DEF CInv
<1> DEFINE s == IF ctx[c].sock = "closed" THEN "closed" ELSE "down"
<1>1. /\ thr[t].pc = "idle" /\ "connect" \in ctx[c].pend
      /\ ctx' = [ctx EXCEPT ![c].pend = ctx[c].pend \ {"connect"}, ![c].sock = s]
      /\ Enter(t, c, "NotifyFailed")
      /\ UNCHANGED <<m_mapSrvInfo, m_lckSrvInfo, todo, mapConnectList, signals, history>>
  BY DEF HandConnectError, Dispatched, At
<1>2. t \in Threads /\ t # Daemon /\ t # App
  BY ThreadNames
<1>3. /\ ctx[c].op = "connect" /\ "recv" \notin ctx[c].pend
      /\ ctx[c].sock \in {"idle", "closed"}
      /\ \A w \in Workers : thr[w].c # c
      /\ ctx[c].flag = 0 \/ ~m_mapSrvInfo[k].known
      /\ \A u \in Threads : ~(thr[u].c = c /\ thr[u].pc = "ConnectEx")
  BY <1>1 DEF Lives, Starting
<1>4. /\ ctx' \in [Contexts -> SocketContext]
      /\ ctx'[c].key = k /\ ctx'[c].op = ctx[c].op /\ ctx'[c].flag = ctx[c].flag
      /\ ctx'[c].sock \in {"closed", "down"} /\ ctx'[c].pend = ctx[c].pend \ {"connect"}
      /\ \A d \in Contexts \ {c} : ctx'[d] = ctx[d]
  <2> DEFINE x == [ctx[c] EXCEPT !.pend = ctx[c].pend \ {"connect"}, !.sock = s]
  <2>1. s \in {"closed", "down"}
    OBVIOUS
  <2> HIDE DEF s
  <2>2. ctx[c] \in SocketContext /\ ctx \in [Contexts -> SocketContext]
    BY DEF TypeOK
  <2>3. /\ x \in SocketContext
        /\ x.key = k /\ x.op = ctx[c].op /\ x.flag = ctx[c].flag
        /\ x.sock = s /\ x.pend = ctx[c].pend \ {"connect"}
    <3> HIDE DEF CInv
    <3> QED
      BY <2>1, <2>2 DEF SocketContext
  <2>4. ctx' = [ctx EXCEPT ![c] = x]
    BY <1>1, <2>2 DEF SocketContext
  <2> HIDE DEF x
  <2> QED
    BY <2>1, <2>2, <2>3, <2>4
<1>5. /\ thr' \in [Threads -> Thread]
      /\ thr'[t].pc = "NotifyFailed" /\ thr'[t].key = k /\ thr'[t].c = c
      /\ \A u \in Threads \ {t} : thr'[u] = thr[u]
  BY <1>1, <1>2, EnterFields DEF Steps
<1>6. TypeOK' /\ Places' /\ Keyed' /\ Scanned' /\ Calls'
  <2>1. thr[t].pc \notin {"Lookup"} \cup Connecting
    BY <1>1 DEF Connecting
  <2>2. thr'[t].pc \notin {"idle", "Lookup"} \cup Connecting
    BY <1>5 DEF Connecting
  <2>3. \A d \in Contexts : ctx'[d].key = ctx[d].key /\ (ctx'[d].pend # {} => ctx[d].key \in Keys)
    BY <1>4 DEF Keyed
  <2>4. \A l \in todo : m_mapSrvInfo[l].bNeedConnect
    BY DEF Scanned
  <2>5. /\ m_mapSrvInfo \in [Keys -> SServerInfo] /\ signals \in Seq(Signal)
        /\ \A l \in Keys : ~m_mapSrvInfo[l].known => m_mapSrvInfo[l] = Unknown
    BY DEF TypeOK
  <2> HIDE DEF CInv, s
  <2> QED
    BY <1>1, <1>2, <1>4, <1>5, <2>1, <2>2, <2>3, <2>4, <2>5, BaseKept
<1>7. Lives'
  <2>1. Starting'
    <3>1. /\ thr'[t].pc \notin {"ConnectEx", "ConnectFailed"}
          /\ ctx[c].pend # {} /\ thr'[t].c \in {c, NoCtx}
      BY <1>1, <1>5
    <3> HIDE DEF CInv, s
    <3> QED
      BY <1>2, <1>4, <1>5, <3>1, StartingKept
  <2>2. /\ "connect" \notin ctx'[c].pend
        /\ ~(ctx'[c].op = "recv" \/ "recv" \in ctx'[c].pend)
        /\ ctx[c].sock # "conn"
        /\ thr'[t].c \in {thr[t].c, c, NoCtx}
        /\ thr'[t].pc \notin TearingDown \cup {"NotifyUp", "PostReceive", "Receive", "ReCycle"}
    BY <1>3, <1>4, <1>5 DEF TearingDown
  <2>3. /\ ctx'[c].key = ctx[c].key
        /\ ctx'[c].flag > 0 \/ ctx'[c].flag = ctx[c].flag
        /\ m_mapSrvInfo' = m_mapSrvInfo
        /\ t \in Threads
    BY <1>1, <1>2, <1>4
  <2> HIDE DEF CInv, s
  <2> QED
    BY <1>4, <1>5, <2>1, <2>2, <2>3, LivesKept
<1>8. OneToken' /\ Remembered'
  <2>1. thr[t].pc # "ConnectEx" /\ thr'[t].pc # "ConnectEx"
    BY <1>1, <1>5
  <2>2. \A d \in Contexts \ {c} : Live(d)' <=> Live(d)
    BY <1>2, <1>4, <1>5, <2>1, LiveElsewhere
  <2>3. ~Live(c)'
    BY <1>3, <1>4, <1>5 DEF Live, At
  <2>4. m_mapSrvInfo[k].known => Live(c) /\ ~(At(Daemon, "ConnectEx") /\ thr[Daemon].c = c)
    BY <1>1, <1>3, ThreadNames DEF Live, At
  <2>5. thr[t].pc \notin Connecting \cup Ending /\ thr'[t].pc \in Ending
    BY <1>1, <1>5 DEF Connecting, Ending
  <2>6. \A d \in Contexts : ctx'[d].key = ctx[d].key
    BY <1>4
  <2> HIDE DEF CInv, s
  <2> QED
    BY <1>1, <1>2, <1>5, <2>2, <2>3, <2>4, <2>5, <2>6, TokenTaken DEF history
<1> QED
  BY <1>6, <1>7, <1>8

\* What Ended makes of an entry.
LEMMA EndedFields ==
  ASSUME TypeOK, NEW k \in Keys, m_mapSrvInfo' = Ended(k)
  PROVE  /\ m_mapSrvInfo' \in [Keys -> SServerInfo]
         /\ \A l \in Keys : ~m_mapSrvInfo'[l].known => m_mapSrvInfo'[l] = Unknown
         /\ \A l \in Keys \ {k} : m_mapSrvInfo'[l] = m_mapSrvInfo[l]
         /\ m_mapSrvInfo'[k].known => m_mapSrvInfo[k].known /\ m_mapSrvInfo'[k].bNeedConnect
         /\ m_mapSrvInfo'[k].bNeedConnect => m_mapSrvInfo'[k].known
<1>1. /\ m_mapSrvInfo \in [Keys -> SServerInfo]
      /\ \A l \in Keys : ~m_mapSrvInfo[l].known => m_mapSrvInfo[l] = Unknown
  BY DEF TypeOK
<1>2. Unknown \in SServerInfo /\ ~Unknown.known /\ ~Unknown.bNeedConnect
  BY DEF Unknown, SServerInfo
<1>3. CASE ~m_mapSrvInfo[k].known
  BY <1>1, <1>2, <1>3 DEF Ended
<1>4. CASE m_mapSrvInfo[k].known /\ m_mapSrvInfo[k].iRecnnt # 0
  <2> DEFINE x == [m_mapSrvInfo[k] EXCEPT !.bNeedConnect = TRUE]
  <2>1. x \in SServerInfo /\ x.known /\ x.bNeedConnect
    BY <1>1, <1>4 DEF SServerInfo
  <2>2. m_mapSrvInfo' = [m_mapSrvInfo EXCEPT ![k] = x]
    BY <1>4 DEF Ended
  <2> HIDE DEF x
  <2> QED
    BY <1>1, <1>4, <2>1, <2>2
<1>5. CASE m_mapSrvInfo[k].known /\ m_mapSrvInfo[k].iRecnnt = 0
  <2>1. m_mapSrvInfo' = [m_mapSrvInfo EXCEPT ![k] = Unknown]
    BY <1>5 DEF Ended
  <2> QED
    BY <1>1, <1>2, <2>1
<1> QED
  BY <1>3, <1>4, <1>5

\* A thread that has the token gives it back: NeedConnect and DeleteUser.
LEMMA EndingMoved ==
  ASSUME CInv, NEW t \in Threads, NEW k \in Keys,
         thr[t].key = k, thr[t].pc \in {"NeedConnect", "DeleteUser"}, LockFree,
         m_mapSrvInfo' \in [Keys -> SServerInfo],
         \A l \in Keys : ~m_mapSrvInfo'[l].known => m_mapSrvInfo'[l] = Unknown,
         \A l \in Keys \ {k} : m_mapSrvInfo'[l] = m_mapSrvInfo[l],
         m_mapSrvInfo'[k].known => m_mapSrvInfo[k].known /\ m_mapSrvInfo'[k].bNeedConnect,
         m_mapSrvInfo'[k].bNeedConnect => m_mapSrvInfo'[k].known,
         thr' \in [Threads -> Thread],
         \/ thr'[t] = Idle
         \/ /\ thr'[t].key = k /\ thr'[t].c = thr[t].c
            /\ \/ thr[t].pc = "NeedConnect" /\ thr'[t].pc = "EraseFailed"
               \/ thr[t].pc = "DeleteUser" /\ thr'[t].pc = "CheckFlag",
         \A u \in Threads \ {t} : thr'[u] = thr[u],
         UNCHANGED <<m_lckSrvInfo, todo, mapConnectList, ctx, signals, history>>
  PROVE  CInv'
<1> USE DEF CInv
<1>1. /\ t # Daemon /\ thr[t].c \in Contexts /\ ctx[thr[t].c].key = k
      /\ t = App => thr[t].pc = "DeleteUser"
  BY ThreadFields DEF Places, Connecting, TearingDown
<1>2. thr[t].pc = "DeleteUser" => ctx[thr[t].c].flag > 0
  BY DEF Lives, TearingDown
<1>3. /\ thr'[t].pc \in {"idle", "EraseFailed", "CheckFlag"}
      /\ thr'[t].c \in {thr[t].c, NoCtx}
      /\ thr'[t].pc = "CheckFlag" => thr'[t].c = thr[t].c /\ ctx[thr[t].c].flag > 0
  BY <1>2, IdleFields
<1>4. todo = {} /\ ctx \in [Contexts -> SocketContext] /\ signals \in Seq(Signal)
  BY DEF TypeOK, LockFree
<1>5. \A l \in Keys : m_mapSrvInfo'[l].known => m_mapSrvInfo[l].known
  OBVIOUS
<1>6. TypeOK' /\ Places' /\ Keyed' /\ Scanned' /\ Calls'
  <2>1. thr[t].pc \notin {"Lookup"} \cup Connecting /\ thr[t].pc # "idle"
    BY DEF Connecting
  <2>2. \/ thr'[t] = Idle
        \/ /\ thr'[t].pc \notin {"idle", "Lookup"} \cup Connecting
           /\ thr'[t].c \in Contexts /\ thr'[t].key \in Keys
           /\ ctx[thr'[t].c].key = thr'[t].key
           /\ t = App => thr'[t].pc \in TearingDown /\ thr'[t].key = thr[t].key
    BY <1>1 DEF Connecting, TearingDown
  <2>3. \A d \in Contexts : ctx'[d].key = ctx[d].key /\ (ctx'[d].pend # {} => ctx[d].key \in Keys)
    BY DEF Keyed
  <2>4. \A l \in Keys : m_mapSrvInfo'[l].bNeedConnect => m_mapSrvInfo[l].bNeedConnect \/ l = k
    OBVIOUS
  <2> HIDE DEF CInv
  <2> QED
    BY <1>1, <1>4, <1>5, <2>1, <2>2, <2>3, <2>4, BaseKept
<1>7. Lives'
  <2>0. ctx' = ctx
    OBVIOUS
  <2>1. Starting'
    <3>1. thr'[t].pc \notin {"ConnectEx", "ConnectFailed"}
      BY <1>3
    <3> HIDE DEF CInv
    <3> QED
      BY <1>1, <1>3, <3>1, StartingKept
  <2>2. ASSUME NEW d \in Contexts, d = thr[t].c
        PROVE  Lives'
    <3>1. "connect" \in ctx[d].pend =>
            /\ ctx[d].op = "connect" /\ "recv" \notin ctx[d].pend
            /\ ctx[d].sock \in {"idle", "closed"}
            /\ \A w \in Workers : thr[w].c # d
            /\ ctx[d].flag = 0 \/ ~m_mapSrvInfo[ctx[d].key].known
      BY DEF Lives
    <3>2. "connect" \in ctx[d].pend =>
            /\ \A w \in Workers : thr'[w].c # d
            /\ ctx[d].flag = 0 \/ ~m_mapSrvInfo'[ctx[d].key].known
      BY <1>1, <1>3, <1>5, <2>2, <3>1, ThreadNames
    <3>3. ctx[d].flag = 0 /\ (ctx[d].op = "recv" \/ "recv" \in ctx[d].pend) => ctx[d].sock = "conn"
      BY DEF Lives
    <3>4. /\ thr'[t].c \in {thr[t].c, d, NoCtx}
          /\ thr'[t].pc \notin {"NotifyUp", "PostReceive", "Receive", "ReCycle"}
          /\ thr'[t].pc \in TearingDown \ {"ReCycle"} => ctx'[thr'[t].c].flag > 0
      BY <1>3, <2>0 DEF TearingDown
    <3> HIDE DEF CInv
    <3> QED
      BY <1>5, <2>0, <2>1, <3>1, <3>2, <3>3, <3>4, LivesKept
  <2> QED
    BY <1>1, <2>2
<1>8. OneToken' /\ Remembered'
  <2>1. \A u \in Threads : /\ thr'[u].pc = "ConnectEx" => thr'[u] = thr[u]
                           /\ thr[u].pc = "ConnectEx" => thr'[u] = thr[u]
    BY <1>3
  <2>2. \A d \in Contexts : Live(d)' <=> Live(d)
    BY <2>1 DEF Live, At
  <2>3. m_mapSrvInfo[k].known =>
          /\ \A d \in Contexts : ctx[d].key = k => ~Live(d)
          /\ \A u \in Threads : thr[u].pc \in Ending /\ thr[u].key = k => u = t
    BY DEF OneToken, Ending
  <2>4. thr'[t].pc \notin Ending
    BY <1>3 DEF Ending
  <2>5. \A u \in Threads : thr'[u].pc \in Ending =>
          /\ thr[u].pc \in Ending /\ thr'[u].key = thr[u].key /\ thr[u].key \in Keys
          /\ m_mapSrvInfo'[k].known => thr[u].key # k
    BY <2>3, <2>4, ThreadFields DEF Ending
  <2>6. \A u \in Threads : thr[u].pc \in Connecting \cup Ending /\ thr[u].key # k =>
          thr'[u].pc \in Connecting \cup Ending /\ thr'[u].key = thr[u].key
    OBVIOUS
  <2>7. thr'[Daemon] = thr[Daemon] /\ failed' = failed
    BY <1>1, ThreadNames DEF history
  <2>8. /\ \A d \in Contexts : ctx'[d].key = ctx[d].key
        /\ \A d \in Contexts : ctx[d].key = k => ~(m_mapSrvInfo'[k].known /\ Live(d)')
    BY <2>2, <2>3
  <2> HIDE DEF CInv
  <2> QED
    BY <2>2, <2>5, <2>6, <2>7, <2>8, TokenGiven
<1> QED
  BY <1>6, <1>7, <1>8

LEMMA NeedConnectCInv ==
  ASSUME CInv, NEW t \in Threads, NeedConnect(t)
  PROVE  CInv'
<1>1. thr[t].pc = "NeedConnect" /\ LockFree /\ Goto(t, "EraseFailed") /\ TypeOK /\ Keyed
  BY DEF NeedConnect, At, CInv
<1>2. PICK k \in Keys : thr[t].key = k
  BY <1>1, ThreadFields
<1>3. /\ thr' \in [Threads -> Thread]
      /\ thr'[t].pc = "EraseFailed" /\ thr'[t].key = k /\ thr'[t].c = thr[t].c
      /\ \A u \in Threads \ {t} : thr'[u] = thr[u]
  BY <1>1, <1>2, GotoFields DEF TypeOK, Steps
<1>4. /\ m_mapSrvInfo' \in [Keys -> SServerInfo]
      /\ \A l \in Keys : ~m_mapSrvInfo'[l].known => m_mapSrvInfo'[l] = Unknown
      /\ \A l \in Keys \ {k} : m_mapSrvInfo'[l] = m_mapSrvInfo[l]
      /\ m_mapSrvInfo'[k].known => m_mapSrvInfo[k].known /\ m_mapSrvInfo'[k].bNeedConnect
      /\ m_mapSrvInfo'[k].bNeedConnect => m_mapSrvInfo'[k].known
  <2>1. /\ m_mapSrvInfo \in [Keys -> SServerInfo]
        /\ \A l \in Keys : ~m_mapSrvInfo[l].known => m_mapSrvInfo[l] = Unknown
        /\ ~Unknown.bNeedConnect
    BY <1>1 DEF TypeOK, Unknown
  <2>2. CASE m_mapSrvInfo[k].known
    <3> DEFINE x == [m_mapSrvInfo[k] EXCEPT !.bNeedConnect = TRUE]
    <3>1. x \in SServerInfo /\ x.known /\ x.bNeedConnect
      BY <2>1, <2>2 DEF SServerInfo
    <3>2. m_mapSrvInfo' = [m_mapSrvInfo EXCEPT ![k] = x]
      BY <1>2, <2>2 DEF NeedConnect
    <3> HIDE DEF x
    <3> QED
      BY <2>1, <2>2, <3>1, <3>2
  <2>3. CASE ~m_mapSrvInfo[k].known
    <3>1. m_mapSrvInfo' = m_mapSrvInfo
      BY <1>2, <2>3 DEF NeedConnect
    <3> QED
      BY <2>1, <2>3, <3>1
  <2> QED
    BY <2>2, <2>3
<1> QED
  BY <1>1, <1>2, <1>3, <1>4, EndingMoved DEF NeedConnect

LEMMA DeleteUserCInv ==
  ASSUME CInv, NEW t \in Threads, DeleteUser(t)
  PROVE  CInv'
<1>1. thr[t].pc = "DeleteUser" /\ LockFree /\ AfterReCycle(t) /\ TypeOK /\ Keyed
  BY DEF DeleteUser, At, CInv
<1>2. PICK k \in Keys : thr[t].key = k
  BY <1>1, ThreadFields
<1>3. /\ thr' \in [Threads -> Thread]
      /\ \/ thr'[t] = Idle
         \/ thr'[t].pc = "CheckFlag" /\ thr'[t].key = k /\ thr'[t].c = thr[t].c
      /\ \A u \in Threads \ {t} : thr'[u] = thr[u]
  BY <1>1, <1>2, AfterReCycleFields DEF TypeOK
<1>4. m_mapSrvInfo' = Ended(k)
  BY <1>2 DEF DeleteUser
<1>5. /\ m_mapSrvInfo' \in [Keys -> SServerInfo]
      /\ \A l \in Keys : ~m_mapSrvInfo'[l].known => m_mapSrvInfo'[l] = Unknown
      /\ \A l \in Keys \ {k} : m_mapSrvInfo'[l] = m_mapSrvInfo[l]
      /\ m_mapSrvInfo'[k].known => m_mapSrvInfo[k].known /\ m_mapSrvInfo'[k].bNeedConnect
      /\ m_mapSrvInfo'[k].bNeedConnect => m_mapSrvInfo'[k].known
  BY <1>1, <1>4, EndedFields
<1> QED
  BY <1>1, <1>2, <1>3, <1>5, EndingMoved DEF DeleteUser

-----------------------------------------------------------------------------
\* Calls begin: AddConnect, Disconnect and the daemon's scan.

LEMMA CallFields ==
  ASSUME thr \in [Threads -> Thread], NEW t \in Threads, NEW pc \in Steps, NEW k \in Keys,
         thr' = [thr EXCEPT ![t] = [Idle EXCEPT !.pc = pc, !.key = k]]
  PROVE  /\ thr' \in [Threads -> Thread]
         /\ thr'[t].pc = pc /\ thr'[t].key = k /\ thr'[t].c = NoCtx
         /\ \A u \in Threads \ {t} : thr'[u] = thr[u]
<1> DEFINE x == [Idle EXCEPT !.pc = pc, !.key = k]
<1>1. x \in Thread /\ x.pc = pc /\ x.key = k /\ x.c = NoCtx
  BY DEF Idle, Thread
<1>2. thr' = [thr EXCEPT ![t] = x]
  OBVIOUS
<1> HIDE DEF x
<1> QED
  BY <1>1, <1>2

\* A call that begins has no context, and does nothing yet to any.
LEMMA CallMade ==
  ASSUME CInv, NEW t \in {App, Daemon}, thr[t].pc = "idle",
         thr'[t].pc \in {"Connect", "Lookup"}, thr'[t].c = NoCtx,
         \A u \in Threads \ {t} : thr'[u] = thr[u],
         \A l \in Keys : m_mapSrvInfo'[l].known =>
           m_mapSrvInfo[l].known \/ \A d \in Contexts : ctx[d].key # l,
         UNCHANGED <<ctx, mapConnectList>>
  PROVE  /\ Keyed' /\ Lives'
         /\ \A d \in Contexts : Live(d)' <=> Live(d)
<1> USE DEF CInv
<1>1. t \in Threads /\ t \notin Workers /\ thr[t].c = NoCtx
  BY ThreadNames DEF Keyed
<1>2. Keyed'
  <2>1. \A u \in Threads : thr'[u].pc \notin {"idle", "Connect", "Lookup"} =>
          thr'[u].c \in Contexts /\ ctx[thr'[u].c].key = thr'[u].key
    BY DEF Keyed
  <2>2. \A u \in Threads : thr'[u].pc \in {"idle", "Connect", "Lookup"} => thr'[u].c = NoCtx
    BY DEF Keyed
  <2> QED
    BY <2>1, <2>2 DEF Keyed
<1>3. Starting'
  <2> SUFFICES ASSUME NEW u \in Threads, thr'[u].pc \in {"ConnectEx", "ConnectFailed"}
               PROVE  /\ ctx[thr'[u].c].sock = "idle" /\ ctx[thr'[u].c].op = "connect"
                      /\ ctx[thr'[u].c].flag = 0 /\ ctx[thr'[u].c].pend = {}
                      /\ \A v \in Threads : thr'[v].c = thr'[u].c => v = u
    BY DEF Starting
  <2>1. u # t /\ thr'[u] = thr[u] /\ thr[u].c \in Contexts
    BY ThreadFields
  <2>2. \A v \in Threads : thr'[v].c = thr[u].c => thr'[v] = thr[v]
    BY <2>1, ThreadNames
  <2> QED
    BY <2>1, <2>2 DEF Lives, Starting
<1>4. Lives'
  <2>1. \A w \in Workers : thr'[w] = thr[w]
    BY <1>1, ThreadNames
  <2>2. \A d \in Contexts : "connect" \in ctx[d].pend =>
          /\ ctx[d].op = "connect" /\ "recv" \notin ctx[d].pend
          /\ ctx[d].sock \in {"idle", "closed"}
          /\ \A w \in Workers : thr'[w].c # d
          /\ ctx[d].flag = 0 \/ ~m_mapSrvInfo'[ctx[d].key].known
    BY <2>1 DEF Lives, Keyed
  <2>3. \A u \in Threads : thr'[u].pc \in TearingDown => thr'[u] = thr[u]
    BY DEF TearingDown
  <2> QED
    BY <1>3, <2>1, <2>2, <2>3 DEF Lives
<1>5. \A d \in Contexts : Live(d)' <=> Live(d)
  <2>1. \A u \in Threads : /\ thr'[u].pc = "ConnectEx" => thr'[u] = thr[u]
                           /\ thr[u].pc = "ConnectEx" => thr'[u] = thr[u]
    OBVIOUS
  <2> QED
    BY <2>1 DEF Live, At
<1> QED
  BY <1>2, <1>4, <1>5

LEMMA AddConnectCInv ==
  ASSUME CInv, NEW k \in Keys, NEW iRecnnt \in Recnnts, AddConnect(k, iRecnnt)
  PROVE  CInv'
<1> USE DEF CInv
<1>1. /\ thr[App].pc = "idle" /\ k \notin added /\ LockFree
      /\ added' = added \cup {k}
      /\ UNCHANGED <<m_lckSrvInfo, todo, mapConnectList, ctx, signals, failed, unlisted>>
  BY DEF AddConnect, At
<1>2. /\ thr' \in [Threads -> Thread]
      /\ thr'[App].pc = "Connect" /\ thr'[App].key = k /\ thr'[App].c = NoCtx
      /\ \A u \in Threads \ {App} : thr'[u] = thr[u]
  BY CallFields, ThreadNames DEF AddConnect, TypeOK, Steps
<1>3. /\ m_mapSrvInfo' \in [Keys -> SServerInfo]
      /\ m_mapSrvInfo'[k].known /\ ~m_mapSrvInfo'[k].bNeedConnect
      /\ \A l \in Keys \ {k} : m_mapSrvInfo'[l] = m_mapSrvInfo[l]
  <2> DEFINE x == [known |-> TRUE, iRecnnt |-> iRecnnt, bNeedConnect |-> FALSE]
  <2>1. x \in SServerInfo /\ x.known /\ ~x.bNeedConnect
    BY DEF SServerInfo
  <2>2. m_mapSrvInfo' = [m_mapSrvInfo EXCEPT ![k] = x] /\ m_mapSrvInfo \in [Keys -> SServerInfo]
    BY DEF AddConnect, TypeOK
  <2> HIDE DEF x
  <2> QED
    BY <2>1, <2>2
<1>4. /\ Fresh(k) /\ todo = {} /\ thr[Daemon] = Idle /\ thr'[Daemon] = thr[Daemon]
      /\ App \in Threads
  BY <1>1, <1>2, ThreadNames DEF Calls, TypeOK, LockFree
<1>5. Keyed' /\ Lives' /\ \A d \in Contexts : Live(d)' <=> Live(d)
  <2>1. \A l \in Keys : m_mapSrvInfo'[l].known =>
          m_mapSrvInfo[l].known \/ \A d \in Contexts : ctx[d].key # l
    BY <1>3, <1>4 DEF Fresh
  <2> HIDE DEF CInv
  <2> QED
    BY <1>1, <1>2, <2>1, CallMade
<1>6. TypeOK'
  <2>1. \A l \in Keys : ~m_mapSrvInfo'[l].known => m_mapSrvInfo'[l] = Unknown
    BY <1>3 DEF TypeOK
  <2>2. \A u \in Threads : thr'[u].pc # "idle" => thr'[u].key \in Keys
    BY <1>2 DEF TypeOK
  <2> QED
    BY <1>1, <1>2, <1>3, <1>4, <2>1, <2>2 DEF TypeOK
<1>7. Places' /\ Scanned'
  <2>1. \A u \in Threads : thr'[u].pc = "idle" => thr'[u] = Idle
    BY <1>2 DEF Places
  <2>2. \A w \in Workers : thr'[w] = thr[w]
    BY <1>2, ThreadNames
  <2>3. thr'[Daemon].pc = "idle"
    BY <1>4, IdleFields
  <2> QED
    BY <1>1, <1>2, <1>4, <2>1, <2>2, <2>3 DEF Places, Scanned, Connecting
<1>8. Calls'
  <2>1. ASSUME NEW l \in Keys, Fresh(l) PROVE Fresh(l)'
    BY <1>1, <1>2, <1>3, <2>1 DEF Fresh
  <2>2. \A l \in Keys \ added' : Fresh(l)' /\ thr'[App].key # l /\ ~m_mapSrvInfo'[l].known
    BY <1>1, <1>2, <1>3, <2>1 DEF Calls
  <2>3. Fresh(k)'
    BY <1>4, <2>1
  <2>4. thr'[App].pc = "Connect" => Fresh(thr[App].key)'
    BY <1>2, <2>3 DEF Fresh
  <2>5. thr'[App].pc \notin {"Lookup"} \cup TearingDown
    BY <1>2 DEF TearingDown
  <2> QED
    BY <1>1, <1>2, <2>2, <2>4, <2>5 DEF Calls
<1>9. \A u \in Threads : thr[u].pc \in Ending => thr[u].key # k /\ thr'[u] = thr[u]
  BY <1>1, <1>2, <1>4 DEF Fresh, Ending
<1>10. \A u \in Threads : thr'[u].pc \in Ending => thr[u].pc \in Ending
  BY <1>2 DEF Ending
<1>11. OneToken'
  <2>1. OneLive'
    BY <1>1, <1>5 DEF OneToken, OneLive
  <2>2. \A d \in Contexts : Live(d)' /\ ctx'[d].key \in Keys /\ m_mapSrvInfo'[ctx'[d].key].bNeedConnect =>
          thr'[Daemon].pc = "ConnectEx" /\ thr'[Daemon].c = d
    BY <1>1, <1>3, <1>4, <1>5 DEF OneToken, At
  <2>3. ASSUME NEW u \in Threads, thr'[u].pc \in Ending, m_mapSrvInfo'[thr'[u].key].known
        PROVE  /\ ~m_mapSrvInfo'[thr'[u].key].bNeedConnect
               /\ \A d \in Contexts : ctx'[d].key = thr'[u].key => ~Live(d)'
               /\ \A v \in Threads : thr'[v].pc \in Ending /\ thr'[v].key = thr'[u].key => v = u
    <3>1. thr'[u] = thr[u] /\ thr[u].pc \in Ending /\ thr[u].key \in Keys \ {k}
      BY <1>9, <1>10, <2>3, ThreadFields DEF Ending
    <3>2. m_mapSrvInfo'[thr[u].key] = m_mapSrvInfo[thr[u].key]
      BY <1>3, <3>1
    <3> QED
      BY <1>1, <1>5, <1>9, <1>10, <2>3, <3>1, <3>2 DEF OneToken
  <2> QED
    BY <2>1, <2>2, <2>3 DEF OneToken, At
<1>12. Remembered'
  <2> SUFFICES ASSUME NEW l \in Keys, m_mapSrvInfo'[l].known
               PROVE  \/ m_mapSrvInfo'[l].bNeedConnect
                      \/ \E d \in Contexts : ctx'[d].key = l /\ Live(d)'
                      \/ \E u \in Threads : thr'[u].key = l /\ thr'[u].pc \in Connecting \cup Ending
                      \/ l \in failed'
    BY DEF Remembered
  <2>1. CASE l = k
    BY <1>2, <1>4, <2>1 DEF Connecting
  <2>2. CASE l # k
    <3>1. \A u \in Threads : thr[u].pc \in Connecting \cup Ending => thr'[u] = thr[u]
      BY <1>1, <1>2 DEF Connecting, Ending
    <3> QED
      BY <1>1, <1>3, <1>5, <2>2, <3>1 DEF Remembered
  <2> QED
    BY <2>1, <2>2
<1> QED
  BY <1>5, <1>6, <1>7, <1>8, <1>11, <1>12

LEMMA DisconnectCInv ==
  ASSUME CInv, NEW k \in Keys, Disconnect(k)
  PROVE  CInv'
<1> USE DEF CInv
<1>1. /\ thr[App].pc = "idle" /\ k \in added /\ LockFree
      /\ UNCHANGED <<m_lckSrvInfo, todo, mapConnectList, ctx, signals, added, failed, unlisted>>
  BY DEF Disconnect, At, history
<1>2. /\ thr' \in [Threads -> Thread]
      /\ thr'[App].pc = "Lookup" /\ thr'[App].key = k /\ thr'[App].c = NoCtx
      /\ \A u \in Threads \ {App} : thr'[u] = thr[u]
  BY CallFields, ThreadNames DEF Disconnect, TypeOK, Steps
<1>3. /\ m_mapSrvInfo' \in [Keys -> SServerInfo]
      /\ m_mapSrvInfo'[k] = Unknown
      /\ ~m_mapSrvInfo'[k].known /\ ~m_mapSrvInfo'[k].bNeedConnect
      /\ \A l \in Keys \ {k} : m_mapSrvInfo'[l] = m_mapSrvInfo[l]
  <2>1. Unknown \in SServerInfo /\ ~Unknown.known /\ ~Unknown.bNeedConnect
    BY DEF SServerInfo, Unknown
  <2>2. m_mapSrvInfo' = [m_mapSrvInfo EXCEPT ![k] = Unknown] /\ m_mapSrvInfo \in [Keys -> SServerInfo]
    BY DEF Disconnect, TypeOK
  <2> QED
    BY <2>1, <2>2
<1>4. /\ todo = {} /\ thr[Daemon] = Idle /\ thr'[Daemon] = thr[Daemon]
      /\ App \in Threads
  BY <1>1, <1>2, ThreadNames DEF TypeOK, LockFree
<1>5. Keyed' /\ Lives' /\ \A d \in Contexts : Live(d)' <=> Live(d)
  <2>1. \A l \in Keys : m_mapSrvInfo'[l].known => m_mapSrvInfo[l].known
    BY <1>3
  <2> HIDE DEF CInv
  <2> QED
    BY <1>1, <1>2, <2>1, CallMade
<1>6. TypeOK'
  <2>1. \A l \in Keys : ~m_mapSrvInfo'[l].known => m_mapSrvInfo'[l] = Unknown
    BY <1>3 DEF TypeOK
  <2>2. \A u \in Threads : thr'[u].pc # "idle" => thr'[u].key \in Keys
    BY <1>2 DEF TypeOK
  <2> QED
    BY <1>1, <1>2, <1>3, <1>4, <2>1, <2>2 DEF TypeOK
<1>7. Places' /\ Scanned'
  <2>1. \A u \in Threads : thr'[u].pc = "idle" => thr'[u] = Idle
    BY <1>2 DEF Places
  <2>2. \A w \in Workers : thr'[w] = thr[w]
    BY <1>2, ThreadNames
  <2>3. thr'[Daemon].pc = "idle"
    BY <1>4, IdleFields
  <2> QED
    BY <1>1, <1>2, <1>4, <2>1, <2>2, <2>3 DEF Places, Scanned, Connecting
<1>8. Calls'
  <2>1. ASSUME NEW l \in Keys, Fresh(l) PROVE Fresh(l)'
    BY <1>1, <1>2, <1>3, <2>1 DEF Fresh
  <2>2. \A l \in Keys \ added' : Fresh(l)' /\ thr'[App].key # l /\ ~m_mapSrvInfo'[l].known
    BY <1>1, <1>2, <1>3, <2>1 DEF Calls
  <2> QED
    BY <1>1, <1>2, <1>3, <2>2 DEF Calls
<1>9. OneToken' /\ Remembered'
  <2>1. \A u \in Threads : /\ thr'[u].pc \in Ending => thr'[u] = thr[u]
                           /\ thr[u].pc \in Connecting \cup Ending => thr'[u] = thr[u]
    BY <1>1, <1>2 DEF Connecting, Ending
  <2>2. \A u \in Threads : thr[u].pc \in Ending => thr[u].key \in Keys
    BY ThreadFields DEF Ending
  <2> HIDE DEF CInv
  <2> QED
    BY <1>1, <1>3, <1>4, <1>5, <2>1, <2>2, TokenGiven
<1> QED
  BY <1>5, <1>6, <1>7, <1>8, <1>9

\* Disconnect finds a listed context, which no one is connecting: the daemon
\* connects only what is known.
LEMMA LookupCInv ==
  ASSUME CInv, Lookup
  PROVE  CInv'
<1> USE DEF CInv
<1>1. /\ thr[App].pc = "Lookup" /\ App \in Threads
      /\ UNCHANGED <<m_mapSrvInfo, m_lckSrvInfo, todo, mapConnectList, ctx, signals,
                     added, failed, unlisted>>
  BY ThreadNames DEF Lookup, At, history
<1>2. PICK k \in Keys : thr[App].key = k
  BY <1>1, ThreadFields
<1>3. k \in added /\ ~m_mapSrvInfo[k].known
  BY <1>1, <1>2 DEF Calls
<1>4. /\ thr' \in [Threads -> Thread]
      /\ \/ thr'[App] = Idle
         \/ /\ thr'[App].pc = "ReCycle" /\ thr'[App].key = k
            /\ thr'[App].c \in Contexts /\ ctx[thr'[App].c].key = k
      /\ \A u \in Threads \ {App} : thr'[u] = thr[u]
  <2>1. CASE mapConnectList[k] = NoCtx
    BY <1>1, <1>2, <2>1, ReturnFields DEF Lookup, TypeOK
  <2>2. CASE mapConnectList[k] # NoCtx
    <3>1. mapConnectList[k] \in Contexts /\ ctx[mapConnectList[k]].key = k
      BY <2>2 DEF TypeOK, Keyed
    <3>2. Enter(App, mapConnectList[k], "ReCycle")
      BY <1>2, <2>2 DEF Lookup
    <3> QED
      BY <1>1, <3>1, <3>2, EnterFields DEF Steps
  <2> QED
    BY <2>1, <2>2
<1>5. /\ thr'[App].pc \in {"idle", "ReCycle"}
      /\ thr'[App].pc = "idle" => thr'[App] = Idle
      /\ thr'[App].pc = "ReCycle" =>
           thr'[App].key = k /\ thr'[App].c \in Contexts /\ ctx[thr'[App].c].key = k
      /\ thr'[App].key \in {k, NoCtx}
  BY <1>4, IdleFields
<1>6. TypeOK' /\ Places' /\ Scanned'
  <2>1. thr'[Daemon] = thr[Daemon]
    BY <1>4, ThreadNames
  <2>2. TypeOK'
    <3>1. \A u \in Threads : thr'[u].pc # "idle" => thr'[u].key \in Keys
      BY <1>4, <1>5 DEF TypeOK
    <3> QED
      BY <1>1, <1>4, <2>1, <3>1 DEF TypeOK
  <2>3. \A u \in Threads : thr'[u].pc = "idle" => thr'[u] = Idle
    BY <1>4, <1>5 DEF Places
  <2>4. \A w \in Workers : thr'[w] = thr[w]
    BY <1>4, ThreadNames
  <2> QED
    BY <1>1, <1>5, <2>1, <2>2, <2>3, <2>4 DEF Places, Scanned, TearingDown
<1>7. Keyed'
  <2>1. \A u \in Threads : thr'[u].pc \notin {"idle", "Connect", "Lookup"} =>
          thr'[u].c \in Contexts /\ ctx[thr'[u].c].key = thr'[u].key
    BY <1>4, <1>5 DEF Keyed
  <2>2. \A u \in Threads : thr'[u].pc \in {"idle", "Connect", "Lookup"} => thr'[u].c = NoCtx
    BY <1>4, <1>5, IdleFields DEF Keyed
  <2> QED
    BY <1>1, <2>1, <2>2 DEF Keyed
<1>8. Calls'
  <2>1. ASSUME NEW l \in Keys, Fresh(l) PROVE Fresh(l)'
    BY <1>1, <1>4, <2>1 DEF Fresh
  <2>2. \A l \in Keys \ added' : Fresh(l)' /\ thr'[App].key # l /\ ~m_mapSrvInfo'[l].known
    BY <1>1, <1>3, <1>5, <2>1, ThreadNames DEF Calls
  <2> QED
    BY <1>1, <1>3, <1>5, <2>2 DEF Calls, TearingDown
<1>9. Lives'
  <2>1. ASSUME NEW u \in Threads, thr'[u].pc \in {"ConnectEx", "ConnectFailed"}
        PROVE  /\ ctx[thr'[u].c].sock = "idle" /\ ctx[thr'[u].c].op = "connect"
               /\ ctx[thr'[u].c].flag = 0 /\ ctx[thr'[u].c].pend = {}
               /\ \A v \in Threads : thr'[v].c = thr'[u].c => v = u
    <3>1. u = Daemon /\ thr'[u] = thr[u] /\ thr[u].c \in Contexts
      BY <1>4, <1>5, <2>1, ThreadFields, ThreadNames DEF Places, Connecting
    <3>2. thr[u].key \in todo /\ m_mapSrvInfo[thr[u].key].known /\ ctx[thr[u].c].key = thr[u].key
      BY <2>1, <3>1, EntryFields, ThreadFields DEF Scanned, Connecting, TypeOK
    <3>3. thr'[App].c # thr[u].c
      BY <1>3, <1>5, <3>1, <3>2, IdleFields, ThreadNames
    <3>4. /\ ctx[thr[u].c].sock = "idle" /\ ctx[thr[u].c].op = "connect"
          /\ ctx[thr[u].c].flag = 0 /\ ctx[thr[u].c].pend = {}
          /\ \A v \in Threads : thr[v].c = thr[u].c => v = u
      BY <2>1, <3>1 DEF Lives, Starting
    <3>5. \A v \in Threads : thr'[v].c = thr[u].c => v = u
      BY <1>4, <3>3, <3>4
    <3> QED
      BY <3>1, <3>4, <3>5
  <2>2. Starting'
    BY <1>1, <2>1 DEF Starting
  <2>3. \A w \in Workers : thr'[w] = thr[w]
    BY <1>4, ThreadNames
  <2>4. \A u \in Threads : thr'[u].pc \in TearingDown \ {"ReCycle"} => thr'[u] = thr[u]
    BY <1>4, <1>5 DEF TearingDown
  <2> QED
    BY <1>1, <2>2, <2>3, <2>4 DEF Lives
<1>10. OneToken' /\ Remembered'
  <2>1. \A u \in Threads : /\ thr'[u].pc \in Connecting \cup Ending => thr'[u] = thr[u]
                           /\ thr[u].pc \in Connecting \cup Ending => thr'[u] = thr[u]
    BY <1>1, <1>4, <1>5 DEF Connecting, Ending
  <2>2. \A d \in Contexts : Live(d)' <=> Live(d)
    BY <1>1, <2>1 DEF Live, At, Connecting
  <2>3. thr'[Daemon] = thr[Daemon]
    BY <1>4, ThreadNames
  <2> HIDE DEF CInv
  <2> QED
    BY <1>1, <2>1, <2>2, <2>3, TokenKept, RememberedKept
<1> QED
  BY <1>6, <1>7, <1>8, <1>9, <1>10

\* The scan begins and ends with the lock.
LEMMA ScanCInv ==
  ASSUME CInv, StartScan \/ EndScan
  PROVE  CInv'
<1> USE DEF CInv
<1>1. /\ UNCHANGED <<m_mapSrvInfo, mapConnectList, ctx, thr, signals, added, failed, unlisted>>
      /\ thr[Daemon].pc = "idle"
      /\ m_lckSrvInfo' \in {Daemon, NoCtx}
      /\ m_lckSrvInfo' = NoCtx => todo' = {}
      /\ todo' \subseteq Keys
      /\ \A k \in todo' : m_mapSrvInfo[k].bNeedConnect
  <2>1. CASE StartScan
    BY <2>1, ThreadNames DEF StartScan, history, At
  <2>2. CASE EndScan
    BY <2>2, ThreadNames DEF EndScan, history, At
  <2> QED
    BY <2>1, <2>2
<1>2. thr[Daemon] = Idle
  BY <1>1, ThreadNames DEF Places
<1>3. TypeOK'
  BY <1>1, <1>2 DEF TypeOK
<1>4. Places' /\ Keyed' /\ Calls'
  BY <1>1 DEF Places, Keyed, Calls, Fresh
<1>5. Scanned'
  BY <1>1, <1>2, IdleFields DEF Scanned, Connecting
<1>6. Lives'
  BY <1>1 DEF Lives, Starting
<1>7. \A d \in Contexts : Live(d)' <=> Live(d)
  BY <1>1 DEF Live, At
<1>8. OneToken' /\ Remembered'
  <2> HIDE DEF CInv
  <2> QED
    BY <1>1, <1>7, ThreadNames, TokenKept, RememberedKept
<1> QED
  BY <1>3, <1>4, <1>5, <1>6, <1>8

LEMMA ScanEntryCInv ==
  ASSUME CInv, NEW k \in Keys, ScanEntry(k)
  PROVE  CInv'
<1> USE DEF CInv
<1>1. /\ thr[Daemon].pc = "idle" /\ k \in todo
      /\ UNCHANGED <<m_mapSrvInfo, m_lckSrvInfo, todo, mapConnectList, ctx, signals,
                     added, failed, unlisted>>
  BY DEF ScanEntry, At, history
<1>2. /\ thr' \in [Threads -> Thread]
      /\ thr'[Daemon].pc = "Connect" /\ thr'[Daemon].key = k /\ thr'[Daemon].c = NoCtx
      /\ \A u \in Threads \ {Daemon} : thr'[u] = thr[u]
  BY CallFields, ThreadNames DEF ScanEntry, TypeOK, Steps
<1>3. /\ thr'[App] = thr[App] /\ App \in Threads /\ Daemon \in Threads /\ App # Daemon
      /\ \A w \in Workers : thr'[w] = thr[w]
      /\ m_lckSrvInfo # NoCtx
  BY <1>1, <1>2, ThreadNames DEF TypeOK
\* The entry was found to need it, so it is known, and was added.
<1>4. /\ m_mapSrvInfo[k].bNeedConnect /\ m_mapSrvInfo[k].known
      /\ k \in added /\ ~Fresh(k)
  BY <1>1, EntryFields DEF Scanned, Calls, Fresh
<1>5. Keyed' /\ Lives' /\ \A d \in Contexts : Live(d)' <=> Live(d)
  <2> HIDE DEF CInv
  <2> QED
    BY <1>1, <1>2, CallMade
<1>6. TypeOK'
  <2>1. \A u \in Threads : thr'[u].pc # "idle" => thr'[u].key \in Keys
    BY <1>2 DEF TypeOK
  <2> QED
    BY <1>1, <1>2, <1>3, <2>1 DEF TypeOK
<1>7. Places' /\ Scanned'
  <2>1. \A u \in Threads : thr'[u].pc = "idle" => thr'[u] = Idle
    BY <1>2 DEF Places
  <2> QED
    BY <1>1, <1>2, <1>3, <2>1 DEF Places, Scanned, Connecting
<1>8. Calls'
  <2>1. ASSUME NEW l \in Keys, l # k, Fresh(l) PROVE Fresh(l)'
    BY <1>1, <1>2, <2>1 DEF Fresh
  <2>2. \A l \in Keys \ added' : Fresh(l)' /\ thr'[App].key # l /\ ~m_mapSrvInfo'[l].known
    BY <1>1, <1>3, <1>4, <2>1 DEF Calls
  <2>3. thr[App].pc = "Connect" => Fresh(thr[App].key)'
    <3> SUFFICES ASSUME thr[App].pc = "Connect" PROVE Fresh(thr[App].key)'
      OBVIOUS
    <3>1. thr[App].key \in Keys /\ Fresh(thr[App].key)
      BY <1>3, ThreadFields DEF Calls
    <3> QED
      BY <1>3, <1>4, <2>1, <3>1 DEF Fresh
  <2> QED
    BY <1>1, <1>3, <2>2, <2>3 DEF Calls
<1>9. OneToken'
  <2>1. OneLive'
    BY <1>1, <1>5 DEF OneToken, OneLive
  <2>2. \A d \in Contexts : Live(d) /\ ctx[d].key \in Keys => ~m_mapSrvInfo[ctx[d].key].bNeedConnect
    BY <1>1 DEF OneToken, At
  <2>3. \A u \in Threads : thr'[u].pc \in Ending => thr'[u] = thr[u]
    BY <1>2 DEF Ending
  <2> QED
    BY <1>1, <1>5, <2>1, <2>2, <2>3 DEF OneToken, At
<1>10. Remembered'
  <2>1. \A u \in Threads : thr[u].pc \in Connecting \cup Ending => thr'[u] = thr[u]
    BY <1>1, <1>2 DEF Connecting, Ending
  <2> HIDE DEF CInv
  <2> QED
    BY <1>1, <1>5, <2>1, RememberedKept
<1> QED
  BY <1>5, <1>6, <1>7, <1>8, <1>9, <1>10

-----------------------------------------------------------------------------
\* IOCPClient::AddConnect.

LEMMA ConnectingThread ==
  ASSUME CInv, NEW t \in Threads, thr[t].pc \in Connecting
  PROVE  /\ t \in {App, Daemon} /\ t \notin Workers
         /\ thr[t].key \in Keys /\ thr[t].key \in added
         /\ thr[t].pc = "Connect" => thr[t].c = NoCtx
         /\ thr[t].pc # "Connect" => thr[t].c \in Contexts /\ ctx[thr[t].c].key = thr[t].key
         /\ t = Daemon => /\ thr[t].key \in todo /\ m_mapSrvInfo[thr[t].key].bNeedConnect
                          /\ m_lckSrvInfo = Daemon
<1> USE DEF CInv
<1>1. t \in {App, Daemon} /\ t \notin Workers
  BY ThreadNames DEF Places
<1>2. /\ thr[t].key \in Keys
      /\ thr[t].pc = "Connect" => thr[t].c = NoCtx
      /\ thr[t].pc # "Connect" => thr[t].c \in Contexts /\ ctx[thr[t].c].key = thr[t].key
  BY ThreadFields DEF Connecting, Keyed
<1>3. t = App => thr[t].key \in added
  BY DEF Calls, Connecting
<1>4. t # App => thr[t].key \in added
  BY <1>2 DEF Calls, Fresh
<1>5. t = Daemon => /\ thr[t].key \in todo /\ m_mapSrvInfo[thr[t].key].bNeedConnect
                    /\ m_lckSrvInfo = Daemon
  BY IdleFields DEF Scanned, TypeOK, Connecting
<1> QED
  BY <1>1, <1>2, <1>3, <1>4, <1>5

\* A step of the call, less what it does to contexts and connections.
LEMMA ConnectingMoved ==
  ASSUME CInv, NEW t \in Threads, NEW k \in Keys,
         thr[t].pc \in Connecting, thr[t].key = k,
         thr' \in [Threads -> Thread],
         thr'[t] = Idle \/ (thr'[t].pc \in {"ConnectEx", "ConnectFailed"} /\ thr'[t].key = k),
         \A u \in Threads \ {t} : thr'[u] = thr[u],
         ctx' \in [Contexts -> SocketContext],
         \A d \in Contexts : ctx'[d].key \in {ctx[d].key, k},
         m_mapSrvInfo' \in [Keys -> SServerInfo],
         \A l \in Keys \ {k} : m_mapSrvInfo'[l] = m_mapSrvInfo[l],
         m_mapSrvInfo'[k].known = m_mapSrvInfo[k].known,
         m_mapSrvInfo'[k].bNeedConnect => m_mapSrvInfo[k].bNeedConnect,
         m_mapSrvInfo'[k] = m_mapSrvInfo[k] \/ (t = Daemon /\ k \notin todo'),
         todo' = IF t = Daemon /\ thr'[t] = Idle THEN todo \ {k} ELSE todo,
         mapConnectList' \in [Keys -> Contexts \cup {NoCtx}],
         UNCHANGED <<m_lckSrvInfo, signals, added>>,
         failed' \subseteq Keys, unlisted' \subseteq Contexts
  PROVE  TypeOK' /\ Places' /\ Scanned' /\ Calls'
<1> USE DEF CInv
<1>1. /\ t \in {App, Daemon} /\ t \notin Workers /\ k \in added
      /\ t = Daemon => /\ k \in todo /\ m_mapSrvInfo[k].bNeedConnect
                       /\ m_lckSrvInfo = Daemon
  BY ConnectingThread
<1>2. /\ thr'[t].pc \in {"idle", "ConnectEx", "ConnectFailed"}
      /\ thr'[t].pc = "idle" => thr'[t] = Idle
      /\ thr'[t].pc # "idle" => thr'[t].key = k
      /\ thr'[t].key \in {k, NoCtx}
  BY IdleFields
<1>3. m_mapSrvInfo[k].known \/ m_mapSrvInfo'[k] = m_mapSrvInfo[k]
  BY <1>1, EntryFields
<1>4. TypeOK'
  <2>1. \A u \in Threads : thr'[u].pc # "idle" => thr'[u].key \in Keys
    BY <1>2 DEF TypeOK
  <2>2. \A l \in Keys : ~m_mapSrvInfo'[l].known => m_mapSrvInfo'[l] = Unknown
    BY <1>3 DEF TypeOK
  <2>3. m_lckSrvInfo' = NoCtx => todo' = {} /\ thr'[Daemon] = Idle
    BY <1>1, ThreadNames DEF TypeOK
  <2> QED
    BY <2>1, <2>2, <2>3 DEF TypeOK
<1>5. Places'
  <2>1. \A u \in Threads : thr'[u].pc = "idle" => thr'[u] = Idle
    BY <1>2 DEF Places
  <2>2. \A w \in Workers : thr'[w] = thr[w]
    BY <1>1, ThreadNames
  <2> QED
    BY <1>1, <1>2, <2>1, <2>2, ThreadNames DEF Places, Connecting
<1>6. Scanned'
  <2>1. thr'[Daemon].pc \in Connecting => thr'[Daemon].key \in todo'
    <3>1. CASE t = Daemon
      BY <1>1, <1>2, <3>1, IdleFields DEF Connecting
    <3>2. CASE t # Daemon
      BY <3>2, ThreadNames DEF Scanned
    <3> QED
      BY <3>1, <3>2
  <2>2. \A l \in todo' : m_mapSrvInfo'[l].bNeedConnect
    BY DEF Scanned, TypeOK
  <2> QED
    BY <2>1, <2>2 DEF Scanned
<1>7. Calls'
  <2>1. ASSUME NEW l \in Keys, l # k, Fresh(l) PROVE Fresh(l)'
    <3>1. \A u \in Threads \ {App} : thr'[u].key # l
      BY <1>2, <2>1, ThreadNames DEF Fresh
    <3> QED
      BY <2>1, <3>1 DEF Fresh
  <2>2. \A l \in Keys \ added' : Fresh(l)' /\ thr'[App].key # l /\ ~m_mapSrvInfo'[l].known
    <3> SUFFICES ASSUME NEW l \in Keys \ added
                 PROVE  Fresh(l)' /\ thr'[App].key # l /\ ~m_mapSrvInfo'[l].known
      OBVIOUS
    <3>1. l # k /\ Fresh(l) /\ thr[App].key # l /\ ~m_mapSrvInfo[l].known
      BY <1>1 DEF Calls
    <3>2. thr'[App].key # l
      BY <1>2, <3>1, ThreadNames
    <3> QED
      BY <2>1, <3>1, <3>2
  <2>3. thr'[App].pc # "idle" => thr'[App].key \in added'
    BY <1>1, <1>2, ThreadNames DEF Calls
  <2>4. thr'[App].pc = "Connect" => Fresh(thr[App].key)'
    <3> SUFFICES ASSUME thr'[App].pc = "Connect" PROVE Fresh(thr[App].key)'
      OBVIOUS
    <3>1. t # App /\ thr'[App] = thr[App] /\ t = Daemon
      BY <1>1, <1>2, ThreadNames
    <3>2. thr[App].key \in Keys /\ Fresh(thr[App].key)
      BY <3>1, ThreadFields, ThreadNames DEF Calls
    <3>3. thr[App].key # k
      BY <3>1, <3>2, ThreadNames DEF Fresh
    <3>4. \A l \in Keys : l # k /\ Fresh(l) => Fresh(l)'
      BY <2>1
    <3> QED
      BY <3>1, <3>2, <3>3, <3>4 DEF Fresh
  <2>5. thr'[App].pc \in {"Lookup"} \cup TearingDown => ~m_mapSrvInfo'[thr'[App].key].known
    <3> SUFFICES ASSUME thr'[App].pc \in {"Lookup"} \cup TearingDown
                 PROVE  ~m_mapSrvInfo'[thr'[App].key].known
      OBVIOUS
    <3>1. thr'[App] = thr[App]
      BY <1>2, ThreadNames DEF TearingDown
    <3>2. thr[App].key \in Keys /\ ~m_mapSrvInfo[thr[App].key].known
      BY <3>1, ThreadFields, ThreadNames DEF Calls, TearingDown
    <3> QED
      BY <3>1, <3>2
  <2> QED
    BY <2>2, <2>3, <2>4, <2>5 DEF Calls
<1> QED
  BY <1>4, <1>5, <1>6, <1>7

\* What the end of the call leaves.
LEMMA AddedFields ==
  ASSUME CInv, NEW t \in Threads, NEW k \in Keys, NEW ok \in BOOLEAN,
         thr[t].pc \in Connecting, thr[t].key = k, Added(t, ok)
  PROVE  /\ thr' \in [Threads -> Thread]
         /\ thr'[t] = Idle /\ thr'[t].pc = "idle" /\ thr'[t].c = NoCtx
         /\ \A u \in Threads \ {t} : thr'[u] = thr[u]
         /\ m_mapSrvInfo' \in [Keys -> SServerInfo]
         /\ \A l \in Keys \ {k} : m_mapSrvInfo'[l] = m_mapSrvInfo[l]
         /\ m_mapSrvInfo'[k].known = m_mapSrvInfo[k].known
         /\ m_mapSrvInfo'[k].bNeedConnect => m_mapSrvInfo[k].bNeedConnect
         /\ m_mapSrvInfo'[k] = m_mapSrvInfo[k] \/ (t = Daemon /\ k \notin todo')
         /\ t = Daemon => (m_mapSrvInfo'[k].bNeedConnect <=> ~ok)
         /\ todo' = IF t = Daemon /\ thr'[t] = Idle THEN todo \ {k} ELSE todo
         /\ failed \subseteq failed' /\ failed' \subseteq Keys
         /\ t = App /\ ~ok => k \in failed'
         /\ t = Daemon => todo' = todo \ {k}
<1> USE DEF CInv
<1>1. t \in {App, Daemon} /\ (t = Daemon => m_mapSrvInfo[k].bNeedConnect)
  BY ConnectingThread
<1>2. /\ thr' \in [Threads -> Thread]
      /\ thr'[t] = Idle /\ thr'[t].pc = "idle" /\ thr'[t].c = NoCtx
      /\ \A u \in Threads \ {t} : thr'[u] = thr[u]
  BY ReturnFields, IdleFields DEF Added, TypeOK
<1>3. todo' = IF t = Daemon THEN todo \ {k} ELSE todo
  BY DEF Added
<1>4. /\ m_mapSrvInfo' \in [Keys -> SServerInfo]
      /\ \A l \in Keys \ {k} : m_mapSrvInfo'[l] = m_mapSrvInfo[l]
      /\ m_mapSrvInfo'[k].known = m_mapSrvInfo[k].known
      /\ m_mapSrvInfo'[k].bNeedConnect => m_mapSrvInfo[k].bNeedConnect
      /\ m_mapSrvInfo'[k] = m_mapSrvInfo[k] \/ t = Daemon
      /\ t = Daemon => (m_mapSrvInfo'[k].bNeedConnect <=> ~ok)
  <2>1. m_mapSrvInfo \in [Keys -> SServerInfo]
    BY DEF TypeOK
  <2>2. CASE t = Daemon /\ ok
    <3> DEFINE x == [m_mapSrvInfo[k] EXCEPT !.bNeedConnect = FALSE]
    <3>1. x \in SServerInfo /\ x.known = m_mapSrvInfo[k].known /\ ~x.bNeedConnect
      BY <2>1 DEF SServerInfo
    <3>2. m_mapSrvInfo' = [m_mapSrvInfo EXCEPT ![k] = x]
      BY <2>2 DEF Added
    <3> HIDE DEF x
    <3> QED
      BY <2>1, <2>2, <3>1, <3>2
  <2>3. CASE ~(t = Daemon /\ ok)
    BY <1>1, <2>1, <2>3 DEF Added
  <2> QED
    BY <2>2, <2>3
<1>5. /\ failed \subseteq failed' /\ failed' \subseteq Keys
      /\ t = App /\ ~ok => k \in failed'
  BY DEF Added, TypeOK
<1> QED
  BY <1>2, <1>3, <1>4, <1>5

\* Connect without a socket, and ConnectFailed.
LEMMA GivenUpCInv ==
  ASSUME CInv, NEW t \in Threads, NEW k \in Keys,
         thr[t].pc \in {"Connect", "ConnectFailed"}, thr[t].key = k, Added(t, FALSE),
         ctx' \in [Contexts -> SocketContext],
         \A d \in Contexts :
           \/ ctx'[d] = ctx[d]
           \/ /\ thr[t].pc = "ConnectFailed" /\ thr[t].c = d
              /\ ctx'[d].key = ctx[d].key /\ ctx'[d].op = ctx[d].op
              /\ ctx'[d].flag = ctx[d].flag /\ ctx'[d].pend = ctx[d].pend
              /\ ctx'[d].sock = "closed",
         mapConnectList' \in [Keys -> Contexts \cup {NoCtx}],
         \A l \in Keys : mapConnectList'[l] \in {mapConnectList[l], NoCtx},
         UNCHANGED <<m_lckSrvInfo, signals, added>>,
         unlisted' \subseteq Contexts
  PROVE  CInv'
<1> USE DEF CInv
<1>1. /\ t \in {App, Daemon} /\ t \notin Workers
      /\ t = Daemon => m_mapSrvInfo[k].bNeedConnect
      /\ m_mapSrvInfo' = m_mapSrvInfo
  BY ConnectingThread DEF Connecting, Added
<1>2. /\ thr' \in [Threads -> Thread]
      /\ thr'[t] = Idle /\ thr'[t].pc = "idle" /\ thr'[t].c = NoCtx
      /\ \A u \in Threads \ {t} : thr'[u] = thr[u]
      /\ failed \subseteq failed' /\ failed' \subseteq Keys
      /\ t = App => k \in failed'
      /\ todo' = IF t = Daemon /\ thr'[t] = Idle THEN todo \ {k} ELSE todo
      /\ t = Daemon => k \notin todo'
  <2>1. thr[t].pc \in Connecting /\ FALSE \in BOOLEAN
    BY DEF Connecting
  <2> HIDE DEF CInv
  <2>2. /\ thr' \in [Threads -> Thread]
        /\ thr'[t] = Idle /\ thr'[t].pc = "idle" /\ thr'[t].c = NoCtx
        /\ \A u \in Threads \ {t} : thr'[u] = thr[u]
        /\ failed \subseteq failed' /\ failed' \subseteq Keys
        /\ t = App /\ ~FALSE => k \in failed'
        /\ todo' = IF t = Daemon /\ thr'[t] = Idle THEN todo \ {k} ELSE todo
        /\ t = Daemon => todo' = todo \ {k}
    BY <2>1, AddedFields
  <2> QED
    BY <2>2
<1>3. /\ \A d \in Contexts : ctx'[d].key = ctx[d].key
      /\ \A l \in Keys : mapConnectList'[l] # NoCtx => mapConnectList'[l] = mapConnectList[l]
  OBVIOUS
<1>4. thr[t].pc = "ConnectFailed" =>
        /\ ctx[thr[t].c].sock = "idle" /\ ctx[thr[t].c].op = "connect"
        /\ ctx[thr[t].c].flag = 0 /\ ctx[thr[t].c].pend = {}
        /\ \A v \in Threads : thr[v].c = thr[t].c => v = t
  BY DEF Lives, Starting
<1>5. \A u \in Threads \ {t} : thr[u].c \in Contexts => ctx'[thr[u].c] = ctx[thr[u].c]
  BY <1>4
<1>6. TypeOK' /\ Places' /\ Scanned' /\ Calls'
  <2>1. thr[t].pc \in Connecting /\ m_mapSrvInfo \in [Keys -> SServerInfo]
    BY DEF Connecting, TypeOK
  <2> HIDE DEF CInv
  <2> QED
    BY <1>1, <1>2, <1>3, <2>1, ConnectingMoved
<1>7. Keyed'
  <2>1. \A u \in Threads : thr'[u].pc \notin {"idle", "Connect", "Lookup"} =>
          thr'[u].c \in Contexts /\ ctx'[thr'[u].c].key = thr'[u].key
    BY <1>2, <1>3 DEF Keyed
  <2>2. \A u \in Threads : thr'[u].pc \in {"idle", "Connect", "Lookup"} => thr'[u].c = NoCtx
    BY <1>2 DEF Keyed
  <2>3. \A d \in Contexts : ctx'[d].pend # {} => ctx'[d].key \in Keys
    BY <1>3 DEF Keyed
  <2>4. \A l \in Keys : mapConnectList'[l] # NoCtx => ctx'[mapConnectList'[l]].key = l
    BY <1>3 DEF Keyed, TypeOK
  <2> QED
    BY <2>1, <2>2, <2>3, <2>4 DEF Keyed
<1>8. Lives'
  <2>1. ASSUME NEW u \in Threads, thr'[u].pc \in {"ConnectEx", "ConnectFailed"}
        PROVE  /\ ctx'[thr'[u].c].sock = "idle" /\ ctx'[thr'[u].c].op = "connect"
               /\ ctx'[thr'[u].c].flag = 0 /\ ctx'[thr'[u].c].pend = {}
               /\ \A v \in Threads : thr'[v].c = thr'[u].c => v = u
    <3>1. u # t /\ thr'[u] = thr[u] /\ thr[u].c \in Contexts /\ ctx'[thr[u].c] = ctx[thr[u].c]
      BY <1>2, <1>5, <2>1, ThreadFields
    <3>2. /\ ctx[thr[u].c].sock = "idle" /\ ctx[thr[u].c].op = "connect"
          /\ ctx[thr[u].c].flag = 0 /\ ctx[thr[u].c].pend = {}
          /\ \A v \in Threads : thr[v].c = thr[u].c => v = u
      BY <2>1, <3>1 DEF Lives, Starting
    <3>3. \A v \in Threads : thr'[v].c = thr[u].c => v = u
      BY <1>2, <3>1, <3>2, ThreadNames
    <3> QED
      BY <3>1, <3>2, <3>3
  <2>2. Starting'
    BY <2>1 DEF Starting
  <2>3. \A d \in Contexts : ctx'[d].pend # {} => ctx'[d] = ctx[d]
    BY <1>4
  <2>4. \A w \in Workers : thr'[w] = thr[w] /\ w \in Threads \ {t}
    BY <1>1, <1>2, ThreadNames
  <2>5. \A d \in Contexts : "connect" \in ctx'[d].pend =>
          /\ ctx'[d].op = "connect" /\ "recv" \notin ctx'[d].pend
          /\ ctx'[d].sock \in {"idle", "closed"}
          /\ \A w \in Workers : thr'[w].c # d
          /\ ctx'[d].flag = 0 \/ ~m_mapSrvInfo'[ctx'[d].key].known
    BY <1>1, <2>3, <2>4 DEF Lives
  <2>6. \A d \in Contexts : ctx'[d].flag = 0 /\ (ctx'[d].op = "recv" \/ "recv" \in ctx'[d].pend) =>
          ctx'[d].sock = "conn"
    BY <1>4 DEF Lives
  <2>7. \A w \in Workers :
          thr'[w].pc \in {"NotifyUp", "PostReceive", "Receive", "ReCycle"} /\ ctx'[thr'[w].c].flag = 0 =>
            ctx'[thr'[w].c].sock = "conn"
    BY <1>5, <2>4, ThreadFields DEF Lives
  <2>8. \A u \in Threads : thr'[u].pc \in TearingDown \ {"ReCycle"} => ctx'[thr'[u].c].flag > 0
    <3> SUFFICES ASSUME NEW u \in Threads, thr'[u].pc \in TearingDown \ {"ReCycle"}
                 PROVE  ctx'[thr'[u].c].flag > 0
      OBVIOUS
    <3>1. u # t /\ thr'[u] = thr[u] /\ thr[u].c \in Contexts /\ ctx'[thr[u].c] = ctx[thr[u].c]
      BY <1>2, <1>5, ThreadFields DEF TearingDown
    <3> QED
      BY <3>1 DEF Lives
  <2> QED
    BY <2>2, <2>5, <2>6, <2>7, <2>8 DEF Lives
<1>9. \A d \in Contexts : Live(d)' <=> Live(d)
  <2>1. \A u \in Threads : /\ thr'[u].pc = "ConnectEx" => thr'[u] = thr[u]
                           /\ thr[u].pc = "ConnectEx" => thr'[u] = thr[u]
    BY <1>2
  <2>2. ASSUME NEW d \in Contexts, ctx'[d] # ctx[d] PROVE Live(d)' <=> Live(d)
    <3>1. thr[t].pc = "ConnectFailed" /\ thr[t].c = d
      BY <2>2
    <3>2. \A u \in Threads : ~(thr[u].c = d /\ thr[u].pc = "ConnectEx")
      BY <1>4, <3>1
    <3> QED
      BY <1>4, <2>1, <2>2, <3>1, <3>2 DEF Live, At
  <2>3. ASSUME NEW d \in Contexts, ctx'[d] = ctx[d] PROVE Live(d)' <=> Live(d)
    BY <2>1, <2>3 DEF Live, At
  <2> QED
    BY <2>2, <2>3
<1>10. OneToken'
  <2>1. OneLive'
    BY <1>3, <1>9 DEF OneToken, OneLive
  <2>2. \A d \in Contexts : Live(d)' /\ ctx'[d].key \in Keys /\ m_mapSrvInfo'[ctx'[d].key].bNeedConnect =>
          thr'[Daemon].pc = "ConnectEx" /\ thr'[Daemon].c = d
    BY <1>1, <1>2, <1>3, <1>9, ThreadNames DEF OneToken, At
  <2>3. \A u \in Threads : thr'[u].pc \in Ending => thr'[u] = thr[u]
    BY <1>2 DEF Ending
  <2> QED
    BY <1>1, <1>3, <1>9, <2>1, <2>2, <2>3 DEF OneToken, At
<1>11. Remembered'
  <2> SUFFICES ASSUME NEW l \in Keys, m_mapSrvInfo[l].known
               PROVE  \/ m_mapSrvInfo[l].bNeedConnect
                      \/ \E d \in Contexts : ctx'[d].key = l /\ Live(d)'
                      \/ \E u \in Threads : thr'[u].key = l /\ thr'[u].pc \in Connecting \cup Ending
                      \/ l \in failed'
    BY <1>1 DEF Remembered
  <2>1. CASE l = k
    BY <1>1, <1>2, <2>1
  <2>2. CASE l # k
    <3>1. \A u \in Threads : thr[u].key = l => thr'[u] = thr[u]
      BY <1>2, <2>2
    <3> QED
      BY <1>2, <1>3, <1>9, <3>1 DEF Remembered
  <2> QED
    BY <2>1, <2>2
<1> QED
  BY <1>6, <1>7, <1>8, <1>10, <1>11

LEMMA ConnectFailedCInv ==
  ASSUME CInv, NEW t \in Threads, NEW k \in Keys, NEW c \in Contexts,
         thr[t].key = k, thr[t].c = c, ConnectFailed(t)
  PROVE  CInv'
<1>1. /\ thr[t].pc = "ConnectFailed" /\ EraseKey(c) /\ Added(t, FALSE)
      /\ ctx' = [ctx EXCEPT ![c].sock = "closed"]
      /\ UNCHANGED <<m_lckSrvInfo, signals, added>>
      /\ ctx \in [Contexts -> SocketContext] /\ TypeOK /\ Keyed
  BY DEF ConnectFailed, At, CInv, TypeOK
<1>2. ctx[c].key = k
  BY <1>1, ThreadFields
<1>3. /\ ctx' \in [Contexts -> SocketContext]
      /\ ctx'[c].key = ctx[c].key /\ ctx'[c].op = ctx[c].op /\ ctx'[c].flag = ctx[c].flag
      /\ ctx'[c].pend = ctx[c].pend /\ ctx'[c].sock = "closed"
      /\ \A d \in Contexts \ {c} : ctx'[d] = ctx[d]
  BY <1>1 DEF SocketContext
<1>4. /\ mapConnectList' \in [Keys -> Contexts \cup {NoCtx}]
      /\ \A l \in Keys : mapConnectList'[l] \in {mapConnectList[l], NoCtx}
      /\ unlisted' \subseteq Contexts
  BY <1>1, <1>2, EraseKeyFields
<1>5. \A d \in Contexts :
        \/ ctx'[d] = ctx[d]
        \/ /\ thr[t].pc = "ConnectFailed" /\ thr[t].c = d
           /\ ctx'[d].key = ctx[d].key /\ ctx'[d].op = ctx[d].op
           /\ ctx'[d].flag = ctx[d].flag /\ ctx'[d].pend = ctx[d].pend
           /\ ctx'[d].sock = "closed"
  BY <1>1, <1>3
<1> QED
  BY <1>1, <1>3, <1>4, <1>5, GivenUpCInv

\* A context is taken for the attempt: the server has no other live one.
LEMMA TakenCInv ==
  ASSUME CInv, NEW t \in Threads, NEW k \in Keys, NEW c \in Contexts,
         thr[t].pc = "Connect", thr[t].key = k,
         ctx[c] = Unused,
         ctx' = [ctx EXCEPT ![c].key = k, ![c].sock = "idle"],
         mapConnectList' = [mapConnectList EXCEPT ![k] = c],
         thr' = [thr EXCEPT ![t].pc = "ConnectEx", ![t].c = c],
         unlisted' = unlisted \cup ({mapConnectList[k]} \ {NoCtx}),
         UNCHANGED <<m_mapSrvInfo, m_lckSrvInfo, todo, signals, added, failed>>
  PROVE  CInv'
<1> USE DEF CInv
<1>1. /\ t \in {App, Daemon} /\ t \notin Workers /\ k \in added /\ thr[t].c = NoCtx
      /\ t = Daemon => m_mapSrvInfo[k].bNeedConnect
      /\ t = App => Fresh(k)
  BY ConnectingThread DEF Connecting, Calls
<1>2. /\ ctx[c].key = NoCtx /\ ctx[c].sock = "none" /\ ctx[c].op = "connect"
      /\ ctx[c].flag = 0 /\ ctx[c].pend = {}
  BY DEF Unused
<1>3. /\ ctx' \in [Contexts -> SocketContext]
      /\ ctx'[c].key = k /\ ctx'[c].sock = "idle" /\ ctx'[c].op = "connect"
      /\ ctx'[c].flag = 0 /\ ctx'[c].pend = {}
      /\ \A d \in Contexts \ {c} : ctx'[d] = ctx[d]
  <2> DEFINE x == [ctx[c] EXCEPT !.key = k, !.sock = "idle"]
  <2>1. ctx[c] \in SocketContext /\ ctx \in [Contexts -> SocketContext]
    BY DEF TypeOK
  <2>2. /\ x \in SocketContext
        /\ x.key = k /\ x.sock = "idle" /\ x.op = "connect" /\ x.flag = 0 /\ x.pend = {}
    <3> HIDE DEF CInv
    <3> QED
      BY <1>2, <2>1 DEF SocketContext
  <2>3. ctx' = [ctx EXCEPT ![c] = x]
    BY <2>1 DEF SocketContext
  <2> HIDE DEF x
  <2> QED
    BY <2>1, <2>2, <2>3
<1>4. /\ thr' \in [Threads -> Thread]
      /\ thr'[t].pc = "ConnectEx" /\ thr'[t].key = k /\ thr'[t].c = c
      /\ \A u \in Threads \ {t} : thr'[u] = thr[u]
  <2> DEFINE x == [thr[t] EXCEPT !.pc = "ConnectEx", !.c = c]
  <2>1. thr[t] \in Thread /\ thr \in [Threads -> Thread]
    BY DEF TypeOK
  <2>2. x \in Thread /\ x.pc = "ConnectEx" /\ x.key = k /\ x.c = c
    <3> HIDE DEF CInv
    <3> QED
      BY <2>1 DEF Thread, Steps
  <2>3. thr' = [thr EXCEPT ![t] = x]
    BY <2>1 DEF Thread
  <2> HIDE DEF x
  <2> QED
    BY <2>1, <2>2, <2>3
\* Nobody has the context yet.
<1>5. /\ \A u \in Threads : thr[u].c # c
      /\ \A l \in Keys : mapConnectList[l] # c
      /\ ~Live(c)
  <2>1. \A u \in Threads : thr[u].c # c
    BY <1>2, ThreadFields, ThreadNames DEF Keyed
  <2>2. \A l \in Keys : mapConnectList[l] # c
    BY <1>2, ThreadNames DEF Keyed
  <2> QED
    BY <1>2, <2>1, <2>2 DEF Live
<1>6. TypeOK' /\ Places' /\ Scanned' /\ Calls'
  <2>1. thr[t].pc \in Connecting /\ \A d \in Contexts : ctx'[d].key \in {ctx[d].key, k}
    BY <1>3 DEF Connecting
  <2>2. /\ mapConnectList \in [Keys -> Contexts \cup {NoCtx}]
        /\ m_mapSrvInfo \in [Keys -> SServerInfo]
        /\ failed \subseteq Keys /\ unlisted \subseteq Contexts
    BY DEF TypeOK
  <2>3. /\ mapConnectList' \in [Keys -> Contexts \cup {NoCtx}]
        /\ unlisted' \subseteq Contexts
        /\ thr'[t] # Idle
    BY <1>4, <2>2, IdleFields
  <2> HIDE DEF CInv
  <2> QED
    BY <1>3, <1>4, <2>1, <2>2, <2>3, ConnectingMoved
<1>7. Keyed'
  <2>1. \A u \in Threads : thr'[u].pc \notin {"idle", "Connect", "Lookup"} =>
          thr'[u].c \in Contexts /\ ctx'[thr'[u].c].key = thr'[u].key
    BY <1>3, <1>4, <1>5 DEF Keyed
  <2>2. \A u \in Threads : thr'[u].pc \in {"idle", "Connect", "Lookup"} => thr'[u].c = NoCtx
    BY <1>4 DEF Keyed
  <2>3. \A d \in Contexts : ctx'[d].pend # {} => ctx'[d].key \in Keys
    BY <1>3 DEF Keyed
  <2>4. \A l \in Keys : mapConnectList'[l] # NoCtx => ctx'[mapConnectList'[l]].key = l
    BY <1>3, <1>5 DEF Keyed, TypeOK
  <2> QED
    BY <2>1, <2>2, <2>3, <2>4 DEF Keyed
<1>8. Lives'
  <2>1. ASSUME NEW u \in Threads, thr'[u].pc \in {"ConnectEx", "ConnectFailed"}
        PROVE  /\ ctx'[thr'[u].c].sock = "idle" /\ ctx'[thr'[u].c].op = "connect"
               /\ ctx'[thr'[u].c].flag = 0 /\ ctx'[thr'[u].c].pend = {}
               /\ \A v \in Threads : thr'[v].c = thr'[u].c => v = u
    <3>1. CASE u = t
      BY <1>3, <1>4, <1>5, <3>1
    <3>2. CASE u # t
      <4>1. thr'[u] = thr[u] /\ thr[u].c \in Contexts \ {c} /\ ctx'[thr[u].c] = ctx[thr[u].c]
        BY <1>3, <1>4, <1>5, <2>1, <3>2, ThreadFields
      <4>2. /\ ctx[thr[u].c].sock = "idle" /\ ctx[thr[u].c].op = "connect"
            /\ ctx[thr[u].c].flag = 0 /\ ctx[thr[u].c].pend = {}
            /\ \A v \in Threads : thr[v].c = thr[u].c => v = u
        BY <2>1, <4>1 DEF Lives, Starting
      <4>3. \A v \in Threads : thr'[v].c = thr[u].c => v = u
        BY <1>4, <4>1, <4>2
      <4> QED
        BY <4>1, <4>2, <4>3
    <3> QED
      BY <3>1, <3>2
  <2>2. Starting'
    BY <2>1 DEF Starting
  <2>3. /\ "connect" \notin ctx'[c].pend /\ ~(ctx'[c].op = "recv" \/ "recv" \in ctx'[c].pend)
        /\ \A w \in Workers : thr'[w] = thr[w] /\ w \in Threads /\ thr[w].c # c
    BY <1>1, <1>3, <1>4, <1>5, ThreadNames
  <2>4. \A d \in Contexts : "connect" \in ctx'[d].pend =>
          /\ ctx'[d].op = "connect" /\ "recv" \notin ctx'[d].pend
          /\ ctx'[d].sock \in {"idle", "closed"}
          /\ \A w \in Workers : thr'[w].c # d
          /\ ctx'[d].flag = 0 \/ ~m_mapSrvInfo'[ctx'[d].key].known
    <3> SUFFICES ASSUME NEW d \in Contexts, "connect" \in ctx'[d].pend
                 PROVE  /\ ctx'[d].op = "connect" /\ "recv" \notin ctx'[d].pend
                        /\ ctx'[d].sock \in {"idle", "closed"}
                        /\ \A w \in Workers : thr'[w].c # d
                        /\ ctx'[d].flag = 0 \/ ~m_mapSrvInfo'[ctx'[d].key].known
      OBVIOUS
    <3>1. ctx'[d] = ctx[d] /\ m_mapSrvInfo' = m_mapSrvInfo
      BY <1>3, <2>3
    <3>2. /\ ctx[d].op = "connect" /\ "recv" \notin ctx[d].pend
          /\ ctx[d].sock \in {"idle", "closed"}
          /\ \A w \in Workers : thr[w].c # d
          /\ ctx[d].flag = 0 \/ ~m_mapSrvInfo[ctx[d].key].known
      <4>1. "connect" \in ctx[d].pend
        BY <3>1
      <4>2. Lives
        OBVIOUS
      <4> HIDE DEF CInv
      <4> QED
        BY <4>1, <4>2 DEF Lives
    <3>3. \A w \in Workers : thr'[w].c # d
      BY <2>3, <3>2
    <3> QED
      BY <3>1, <3>2, <3>3
  <2>5. \A d \in Contexts : ctx'[d].flag = 0 /\ (ctx'[d].op = "recv" \/ "recv" \in ctx'[d].pend) =>
          ctx'[d].sock = "conn"
    BY <1>3, <2>3 DEF Lives
  <2>6. \A w \in Workers :
          thr'[w].pc \in {"NotifyUp", "PostReceive", "Receive", "ReCycle"} /\ ctx'[thr'[w].c].flag = 0 =>
            ctx'[thr'[w].c].sock = "conn"
    <3> SUFFICES ASSUME NEW w \in Workers,
                        thr[w].pc \in {"NotifyUp", "PostReceive", "Receive", "ReCycle"},
                        ctx'[thr[w].c].flag = 0
                 PROVE  ctx'[thr[w].c].sock = "conn"
      BY <2>3
    <3>1. thr[w].c \in Contexts \ {c}
      BY <2>3, ThreadFields
    <3>2. ctx'[thr[w].c] = ctx[thr[w].c]
      BY <1>3, <3>1
    <3> QED
      BY <3>2 DEF Lives
  <2>7. ASSUME NEW u \in Threads, thr'[u].pc \in TearingDown \ {"ReCycle"}
        PROVE  ctx'[thr'[u].c].flag > 0
    <3>1. u # t /\ thr'[u] = thr[u]
      BY <1>4, <2>7 DEF TearingDown
    <3>2. thr[u].c \in Contexts \ {c}
      BY <1>5, <2>7, <3>1, ThreadFields DEF TearingDown
    <3> QED
      BY <1>3, <2>7, <3>1, <3>2 DEF Lives
  <2> QED
    BY <2>2, <2>4, <2>5, <2>6, <2>7 DEF Lives
<1>9. /\ Live(c)'
      /\ \A d \in Contexts \ {c} : Live(d)' <=> Live(d)
  <2>1. Live(c)'
    BY <1>3, <1>4 DEF Live, At
  <2>2. thr[t].pc # "ConnectEx"
    OBVIOUS
  <2>3. \A d \in Contexts \ {c} : Live(d)' <=> Live(d)
    BY <1>3, <1>4, <2>2, LiveElsewhere
  <2> QED
    BY <2>1, <2>3
<1>10. \A d \in Contexts : ctx[d].key = k => ~Live(d)
  <2>1. CASE t = App
    BY <1>1, <2>1 DEF Fresh
  <2>2. CASE t = Daemon
    BY <1>1, <2>2 DEF OneToken, At
  <2> QED
    BY <1>1, <2>1, <2>2
<1>11. OneToken'
  <2>1. OneLive'
    BY <1>3, <1>9, <1>10 DEF OneToken, OneLive
  <2>2. \A d \in Contexts : Live(d)' /\ ctx'[d].key \in Keys /\ m_mapSrvInfo'[ctx'[d].key].bNeedConnect =>
          thr'[Daemon].pc = "ConnectEx" /\ thr'[Daemon].c = d
    <3> SUFFICES ASSUME NEW d \in Contexts, Live(d)', ctx'[d].key \in Keys,
                        m_mapSrvInfo[ctx'[d].key].bNeedConnect
                 PROVE  thr'[Daemon].pc = "ConnectEx" /\ thr'[Daemon].c = d
      OBVIOUS
    <3>1. CASE d = c
      BY <1>1, <1>3, <1>4, <3>1 DEF Fresh
    <3>2. CASE d # c
      <4>1. thr[Daemon].pc = "ConnectEx" /\ thr[Daemon].c = d
        BY <1>3, <1>9, <3>2 DEF OneToken, At
      <4> QED
        BY <1>4, <4>1, ThreadNames
    <3> QED
      BY <3>1, <3>2
  <2>3. ASSUME NEW u \in Threads, thr'[u].pc \in Ending, m_mapSrvInfo'[thr'[u].key].known
        PROVE  /\ ~m_mapSrvInfo'[thr'[u].key].bNeedConnect
               /\ \A d \in Contexts : ctx'[d].key = thr'[u].key => ~Live(d)'
               /\ \A v \in Threads : thr'[v].pc \in Ending /\ thr'[v].key = thr'[u].key => v = u
    <3>1. u # t /\ thr'[u] = thr[u]
      BY <1>4, <2>3 DEF Ending
    <3>2. /\ ~m_mapSrvInfo[thr[u].key].bNeedConnect
          /\ \A d \in Contexts : ctx[d].key = thr[u].key => ~Live(d)
          /\ \A v \in Threads : thr[v].pc \in Ending /\ thr[v].key = thr[u].key => v = u
      BY <2>3, <3>1 DEF OneToken
    <3>3. thr[u].key # k
      BY <1>1, <2>3, <3>1, <3>2, ThreadNames DEF Fresh, Ending, Places, Connecting, TearingDown, Calls
    <3>4. \A v \in Threads : thr'[v].pc \in Ending => thr'[v] = thr[v]
      BY <1>4 DEF Ending
    <3> QED
      BY <1>3, <1>9, <3>1, <3>2, <3>3, <3>4
  <2> QED
    BY <2>1, <2>2, <2>3 DEF OneToken, At
<1>12. Remembered'
  <2>1. \A d \in Contexts : Live(d) => Live(d)' /\ ctx'[d].key = ctx[d].key
    BY <1>3, <1>5, <1>9
  <2>2. \A u \in Threads : thr[u].pc \in Connecting \cup Ending =>
          thr'[u].pc \in Connecting \cup Ending /\ thr'[u].key = thr[u].key
    BY <1>4 DEF Connecting
  <2> QED
    BY <2>1, <2>2 DEF Remembered
<1> QED
  BY <1>6, <1>7, <1>8, <1>11, <1>12

LEMMA ConnectCInv ==
  ASSUME CInv, NEW t \in Threads, NEW k \in Keys, thr[t].key = k, Connect(t)
  PROVE  CInv'
<1>1. thr[t].pc = "Connect" /\ UNCHANGED <<m_lckSrvInfo, signals, added>> /\ TypeOK
  BY DEF Connect, At, CInv
<1>2. CASE \E c \in Contexts :
             /\ ctx[c] = Unused
             /\ ctx' = [ctx EXCEPT ![c].key = k, ![c].sock = "idle"]
             /\ mapConnectList' = [mapConnectList EXCEPT ![k] = c]
             /\ thr' = [thr EXCEPT ![t].pc = "ConnectEx", ![t].c = c]
             /\ unlisted' = unlisted \cup ({mapConnectList[k]} \ {NoCtx})
             /\ UNCHANGED <<m_mapSrvInfo, todo, failed>>
  <2>1. PICK c \in Contexts :
          /\ ctx[c] = Unused
          /\ ctx' = [ctx EXCEPT ![c].key = k, ![c].sock = "idle"]
          /\ mapConnectList' = [mapConnectList EXCEPT ![k] = c]
          /\ thr' = [thr EXCEPT ![t].pc = "ConnectEx", ![t].c = c]
          /\ unlisted' = unlisted \cup ({mapConnectList[k]} \ {NoCtx})
          /\ UNCHANGED <<m_mapSrvInfo, todo, failed>>
    BY <1>2
  <2>2. UNCHANGED <<m_mapSrvInfo, m_lckSrvInfo, todo, signals, added, failed>>
    BY <1>1, <2>1
  <2> QED
    BY <1>1, <2>1, <2>2, TakenCInv
<1>3. CASE Added(t, FALSE) /\ UNCHANGED <<ctx, mapConnectList, unlisted>>
  <2>1. /\ ctx \in [Contexts -> SocketContext]
        /\ mapConnectList \in [Keys -> Contexts \cup {NoCtx}]
        /\ unlisted \subseteq Contexts
    BY <1>1 DEF TypeOK
  <2>2. /\ \A d \in Contexts : ctx'[d] = ctx[d]
        /\ \A l \in Keys : mapConnectList'[l] \in {mapConnectList[l], NoCtx}
    BY <1>3
  <2> QED
    BY <1>1, <1>3, <2>1, <2>2, GivenUpCInv
<1> QED
  BY <1>2, <1>3 DEF Connect

\* The attempt is started: its completion will tell.
LEMMA StartedCInv ==
  ASSUME CInv, NEW t \in Threads, NEW k \in Keys, NEW c \in Contexts,
         thr[t].pc = "ConnectEx", thr[t].key = k, thr[t].c = c,
         ctx' = [ctx EXCEPT ![c].pend = ctx[c].pend \cup {"connect"}],
         Added(t, TRUE),
         UNCHANGED <<m_lckSrvInfo, mapConnectList, signals, added, unlisted>>
  PROVE  CInv'
<1> USE DEF CInv
<1>1. /\ t \in {App, Daemon} /\ t \notin Workers
      /\ ctx[c].key = k
      /\ t = Daemon => m_mapSrvInfo[k].bNeedConnect
  BY ConnectingThread DEF Connecting
<1>2. /\ thr' \in [Threads -> Thread]
      /\ thr'[t] = Idle /\ thr'[t].pc = "idle" /\ thr'[t].c = NoCtx
      /\ \A u \in Threads \ {t} : thr'[u] = thr[u]
      /\ m_mapSrvInfo' \in [Keys -> SServerInfo]
      /\ \A l \in Keys \ {k} : m_mapSrvInfo'[l] = m_mapSrvInfo[l]
      /\ m_mapSrvInfo'[k].known = m_mapSrvInfo[k].known
      /\ m_mapSrvInfo'[k].bNeedConnect => m_mapSrvInfo[k].bNeedConnect
      /\ m_mapSrvInfo'[k] = m_mapSrvInfo[k] \/ (t = Daemon /\ k \notin todo')
      /\ t = Daemon => ~m_mapSrvInfo'[k].bNeedConnect
      /\ todo' = IF t = Daemon /\ thr'[t] = Idle THEN todo \ {k} ELSE todo
      /\ failed \subseteq failed' /\ failed' \subseteq Keys
  <2>1. thr[t].pc \in Connecting /\ TRUE \in BOOLEAN
    BY DEF Connecting
  <2> HIDE DEF CInv
  <2> QED
    BY <2>1, AddedFields
<1>3. /\ ctx[c].sock = "idle" /\ ctx[c].op = "connect"
      /\ ctx[c].flag = 0 /\ ctx[c].pend = {}
      /\ \A v \in Threads : thr[v].c = c => v = t
  BY DEF Lives, Starting
<1>4. /\ ctx' \in [Contexts -> SocketContext]
      /\ ctx'[c].key = k /\ ctx'[c].sock = "idle" /\ ctx'[c].op = "connect"
      /\ ctx'[c].flag = 0 /\ ctx'[c].pend = {"connect"}
      /\ \A d \in Contexts \ {c} : ctx'[d] = ctx[d]
  <2> DEFINE x == [ctx[c] EXCEPT !.pend = ctx[c].pend \cup {"connect"}]
  <2>1. ctx[c] \in SocketContext /\ ctx \in [Contexts -> SocketContext]
    BY DEF TypeOK
  <2>2. /\ x \in SocketContext
        /\ x.key = k /\ x.sock = "idle" /\ x.op = "connect" /\ x.flag = 0
        /\ x.pend = {"connect"}
    <3> HIDE DEF CInv
    <3> QED
      BY <1>1, <1>3, <2>1 DEF SocketContext
  <2>3. ctx' = [ctx EXCEPT ![c] = x]
    BY <2>1 DEF SocketContext
  <2> HIDE DEF x, CInv
  <2>4. ctx'[c] = x /\ \A d \in Contexts \ {c} : ctx'[d] = ctx[d]
    BY <2>1, <2>3
  <2>5. ctx' \in [Contexts -> SocketContext]
    BY <2>1, <2>2, <2>3
  <2> QED
    BY <2>2, <2>4, <2>5
<1>5. \A d \in Contexts : ctx'[d].key = ctx[d].key
  BY <1>1, <1>4
<1>6. TypeOK' /\ Places' /\ Scanned' /\ Calls'
  <2>1. thr[t].pc \in Connecting /\ unlisted' \subseteq Contexts
        /\ mapConnectList' \in [Keys -> Contexts \cup {NoCtx}]
    BY DEF Connecting, TypeOK
  <2>2. /\ ctx' \in [Contexts -> SocketContext]
        /\ \A d \in Contexts : ctx'[d].key \in {ctx[d].key, k}
        /\ \A u \in Threads \ {t} : thr'[u] = thr[u]
    BY <1>2, <1>4, <1>5
  <2> HIDE DEF CInv
  <2> QED
    BY <1>2, <2>1, <2>2, ConnectingMoved
<1>7. Keyed'
  <2>1. \A u \in Threads : thr'[u].pc \notin {"idle", "Connect", "Lookup"} =>
          thr'[u].c \in Contexts /\ ctx'[thr'[u].c].key = thr'[u].key
    BY <1>2, <1>5 DEF Keyed
  <2>2. \A u \in Threads : thr'[u].pc \in {"idle", "Connect", "Lookup"} => thr'[u].c = NoCtx
    BY <1>2 DEF Keyed
  <2>3. \A d \in Contexts : ctx'[d].pend # {} => ctx'[d].key \in Keys
    BY <1>4 DEF Keyed
  <2>4. \A l \in Keys : mapConnectList'[l] # NoCtx => ctx'[mapConnectList'[l]].key = l
    BY <1>5 DEF Keyed, TypeOK
  <2> QED
    BY <2>1, <2>2, <2>3, <2>4 DEF Keyed
<1>8. Lives'
  <2>1. ASSUME NEW u \in Threads, thr'[u].pc \in {"ConnectEx", "ConnectFailed"}
        PROVE  /\ ctx'[thr'[u].c].sock = "idle" /\ ctx'[thr'[u].c].op = "connect"
               /\ ctx'[thr'[u].c].flag = 0 /\ ctx'[thr'[u].c].pend = {}
               /\ \A v \in Threads : thr'[v].c = thr'[u].c => v = u
    <3>1. u # t /\ thr'[u] = thr[u] /\ thr[u].c \in Contexts \ {c}
      BY <1>2, <1>3, <2>1, ThreadFields
    <3>2. /\ ctx[thr[u].c].sock = "idle" /\ ctx[thr[u].c].op = "connect"
          /\ ctx[thr[u].c].flag = 0 /\ ctx[thr[u].c].pend = {}
          /\ \A v \in Threads : thr[v].c = thr[u].c => v = u
      BY <2>1, <3>1 DEF Lives, Starting
    <3>3. \A v \in Threads : thr'[v].c = thr[u].c => v = u
      BY <1>2, <3>1, <3>2, ThreadNames
    <3>4. ctx'[thr[u].c] = ctx[thr[u].c]
      BY <1>4, <3>1
    <3> QED
      BY <3>1, <3>2, <3>3, <3>4
  <2>2. Starting'
    BY <2>1 DEF Starting
  <2>3. \A l \in Keys : m_mapSrvInfo'[l].known = m_mapSrvInfo[l].known
    BY <1>2
  <2>4. \A w \in Workers : thr'[w].c # c
    BY <1>1, <1>2, <1>3, ThreadNames
  <2>5. "connect" \in ctx'[c].pend =>
          /\ ctx'[c].op = "connect" /\ "recv" \notin ctx'[c].pend
          /\ ctx'[c].sock \in {"idle", "closed"}
          /\ \A w \in Workers : thr'[w].c # c
          /\ ctx'[c].flag = 0 \/ ~m_mapSrvInfo'[ctx[c].key].known
    BY <1>4, <2>4
  <2>6. /\ thr'[t].c \in {thr[t].c, c, NoCtx}
        /\ thr'[t].pc \notin TearingDown \cup {"NotifyUp", "PostReceive", "Receive", "ReCycle"}
        /\ ~(ctx'[c].op = "recv" \/ "recv" \in ctx'[c].pend)
    BY <1>2, <1>4 DEF TearingDown
  <2>7. /\ ctx'[c].key = ctx[c].key /\ ctx'[c].flag = ctx[c].flag /\ ctx[c].sock # "conn"
        /\ \A u \in Threads \ {t} : thr'[u] = thr[u]
        /\ \A d \in Contexts \ {c} : ctx'[d] = ctx[d]
        /\ \A l \in Keys : m_mapSrvInfo'[l].known => m_mapSrvInfo[l].known
    BY <1>2, <1>3, <1>4, <1>5, <2>3
  <2> HIDE DEF CInv
  <2> QED
    BY <2>2, <2>5, <2>6, <2>7, LivesKept
<1>9. \A d \in Contexts : Live(d)' <=> Live(d)
  <2>1. Live(c)' /\ Live(c)
    BY <1>3, <1>4 DEF Live, At
  <2>2. thr'[t].pc # "ConnectEx"
    BY <1>2
  <2>3. \A d \in Contexts \ {c} : Live(d)' <=> Live(d)
    BY <1>2, <1>4, <2>2, LiveElsewhere
  <2> QED
    BY <2>1, <2>3
<1>10. OneToken'
  <2>1. OneLive'
    BY <1>5, <1>9 DEF OneToken, OneLive
  <2>2. \A d \in Contexts : Live(d)' /\ ctx'[d].key \in Keys /\ m_mapSrvInfo'[ctx'[d].key].bNeedConnect =>
          thr'[Daemon].pc = "ConnectEx" /\ thr'[Daemon].c = d
    <3> SUFFICES ASSUME NEW d \in Contexts, Live(d), ctx[d].key \in Keys,
                        m_mapSrvInfo'[ctx[d].key].bNeedConnect
                 PROVE  thr'[Daemon].pc = "ConnectEx" /\ thr'[Daemon].c = d
      BY <1>5, <1>9
    <3>1. m_mapSrvInfo[ctx[d].key].bNeedConnect
      BY <1>2
    <3>2. thr[Daemon].pc = "ConnectEx" /\ thr[Daemon].c = d
      BY <3>1 DEF OneToken, At
    <3>3. t # Daemon
      BY <1>1, <1>2, <3>2
    <3> QED
      BY <1>2, <3>2, <3>3, ThreadNames
  <2>3. \A u \in Threads : thr'[u].pc \in Ending => thr'[u] = thr[u] /\ thr[u].key \in Keys
    BY <1>2, ThreadFields DEF Ending
  <2>4. ASSUME NEW u \in Threads, thr'[u].pc \in Ending, m_mapSrvInfo'[thr'[u].key].known
        PROVE  /\ ~m_mapSrvInfo'[thr'[u].key].bNeedConnect
               /\ \A d \in Contexts : ctx'[d].key = thr'[u].key => ~Live(d)'
               /\ \A v \in Threads : thr'[v].pc \in Ending /\ thr'[v].key = thr'[u].key => v = u
    <3>1. thr'[u] = thr[u] /\ m_mapSrvInfo[thr[u].key].known
      BY <1>2, <2>3, <2>4
    <3>2. /\ ~m_mapSrvInfo[thr[u].key].bNeedConnect
          /\ \A d \in Contexts : ctx[d].key = thr[u].key => ~Live(d)
          /\ \A v \in Threads : thr[v].pc \in Ending /\ thr[v].key = thr[u].key => v = u
      BY <2>4, <3>1 DEF OneToken
    <3>3. ~m_mapSrvInfo'[thr[u].key].bNeedConnect
      BY <1>2, <2>3, <2>4, <3>2
    <3> QED
      BY <1>5, <1>9, <2>3, <3>1, <3>2, <3>3
  <2> QED
    BY <2>1, <2>2, <2>4 DEF OneToken, At
<1>11. Remembered'
  <2> SUFFICES ASSUME NEW l \in Keys, m_mapSrvInfo'[l].known
               PROVE  \/ m_mapSrvInfo'[l].bNeedConnect
                      \/ \E d \in Contexts : ctx'[d].key = l /\ Live(d)'
                      \/ \E u \in Threads : thr'[u].key = l /\ thr'[u].pc \in Connecting \cup Ending
                      \/ l \in failed'
    BY DEF Remembered
  <2>1. CASE l = k
    <3>1. Live(c)'
      BY <1>4 DEF Live
    <3> QED
      BY <1>4, <2>1, <3>1
  <2>2. CASE l # k
    <3>1. \A u \in Threads : thr[u].key = l => thr'[u] = thr[u]
      BY <1>2, <2>2
    <3>2. m_mapSrvInfo'[l] = m_mapSrvInfo[l]
      BY <1>2, <2>2
    <3> QED
      BY <1>2, <1>5, <1>9, <3>1, <3>2 DEF Remembered
  <2> QED
    BY <2>1, <2>2
<1> QED
  BY <1>6, <1>7, <1>8, <1>10, <1>11

LEMMA ConnectExCInv ==
  ASSUME CInv, NEW t \in Threads, NEW k \in Keys, NEW c \in Contexts,
         thr[t].key = k, thr[t].c = c, ConnectEx(t)
  PROVE  CInv'
<1> USE DEF CInv
<1>1. thr[t].pc = "ConnectEx"
      /\ UNCHANGED <<m_lckSrvInfo, mapConnectList, signals, added, unlisted>>
  BY DEF ConnectEx, At
<1>2. CASE /\ ctx' = [ctx EXCEPT ![c].pend = ctx[c].pend \cup {"connect"}]
           /\ Added(t, TRUE)
  <2> HIDE DEF CInv
  <2> QED
    BY <1>1, <1>2, StartedCInv
<1>3. CASE /\ Goto(t, "ConnectFailed")
           /\ UNCHANGED <<ctx, m_mapSrvInfo, todo, failed>>
  <2>1. /\ thr' \in [Threads -> Thread]
        /\ thr'[t].pc = "ConnectFailed" /\ thr'[t].key = k /\ thr'[t].c = c
        /\ \A u \in Threads \ {t} : thr'[u] = thr[u]
    BY <1>3, GotoFields DEF TypeOK, Steps
  <2>2. t \notin Workers /\ ctx[c].key = k
    BY <1>1, ConnectingThread DEF Connecting
  <2>3. TypeOK' /\ Places' /\ Scanned' /\ Calls'
    <3>1. thr[t].pc \in Connecting /\ unlisted' \subseteq Contexts
          /\ mapConnectList' \in [Keys -> Contexts \cup {NoCtx}]
          /\ ctx \in [Contexts -> SocketContext] /\ failed \subseteq Keys
          /\ m_mapSrvInfo \in [Keys -> SServerInfo]
          /\ thr'[t] # Idle
      BY <1>1, <2>1, IdleFields DEF Connecting, TypeOK
    <3> HIDE DEF CInv
    <3> QED
      BY <1>1, <1>3, <2>1, <3>1, ConnectingMoved
  <2>4. Keyed'
    <3>1. \A u \in Threads : thr'[u].pc \notin {"idle", "Connect", "Lookup"} =>
            thr'[u].c \in Contexts /\ ctx[thr'[u].c].key = thr'[u].key
      BY <2>1, <2>2 DEF Keyed
    <3>2. \A u \in Threads : thr'[u].pc \in {"idle", "Connect", "Lookup"} => thr'[u].c = NoCtx
      BY <2>1 DEF Keyed
    <3> QED
      BY <1>1, <1>3, <3>1, <3>2 DEF Keyed
  <2>5. Lives'
    <3>1. \A u \in Threads : thr'[u].c = thr[u].c
      BY <2>1
    <3>2. Starting'
      BY <1>1, <1>3, <2>1, <3>1 DEF Lives, Starting
    <3>3. \A w \in Workers : thr'[w] = thr[w]
      BY <2>1, <2>2, ThreadNames
    <3>4. \A u \in Threads : thr'[u].pc \in TearingDown \ {"ReCycle"} => thr'[u] = thr[u]
      BY <2>1 DEF TearingDown
    <3> QED
      BY <1>3, <3>2, <3>3, <3>4 DEF Lives
  <2>6. /\ ~Live(c)'
        /\ \A d \in Contexts \ {c} : Live(d)' <=> Live(d)
    <3>1. /\ ctx[c].sock = "idle" /\ ctx[c].pend = {}
          /\ \A v \in Threads : thr[v].c = c => v = t
      BY <1>1 DEF Lives, Starting
    <3>2. ~Live(c)'
      BY <1>3, <2>1, <3>1 DEF Live, At
    <3>3. thr'[t].pc # "ConnectEx" /\ \A d \in Contexts : ctx'[d] = ctx[d]
      BY <1>3, <2>1
    <3>4. \A d \in Contexts \ {c} : Live(d)' <=> Live(d)
      BY <2>1, <3>3, LiveElsewhere
    <3> QED
      BY <3>2, <3>4
  <2>7. OneToken'
    <3>1. OneLive'
      BY <1>3, <2>6 DEF OneToken, OneLive
    <3>2. \A d \in Contexts : Live(d)' /\ ctx'[d].key \in Keys /\ m_mapSrvInfo'[ctx'[d].key].bNeedConnect =>
            thr'[Daemon].pc = "ConnectEx" /\ thr'[Daemon].c = d
      BY <1>3, <2>1, <2>6, ThreadNames DEF OneToken, At
    <3>3. \A u \in Threads : thr'[u].pc \in Ending => thr'[u] = thr[u]
      BY <2>1 DEF Ending
    <3> QED
      BY <1>3, <2>6, <3>1, <3>2, <3>3 DEF OneToken, At
  <2>8. Remembered'
    <3> SUFFICES ASSUME NEW l \in Keys, m_mapSrvInfo[l].known
                 PROVE  \/ m_mapSrvInfo[l].bNeedConnect
                        \/ \E d \in Contexts : ctx[d].key = l /\ Live(d)'
                        \/ \E u \in Threads : thr'[u].key = l /\ thr'[u].pc \in Connecting \cup Ending
                        \/ l \in failed
      BY <1>3 DEF Remembered
    <3>1. CASE l = k
      BY <2>1, <3>1 DEF Connecting
    <3>2. CASE l # k
      <4>1. \A d \in Contexts : ctx[d].key = l /\ Live(d) => Live(d)'
        BY <2>2, <2>6, <3>2
      <4>2. \A u \in Threads : thr[u].key = l => thr'[u] = thr[u]
        BY <2>1, <3>2
      <4> QED
        BY <4>1, <4>2 DEF Remembered
    <3> QED
      BY <3>1, <3>2
  <2> QED
    BY <2>3, <2>4, <2>5, <2>7, <2>8
<1> QED
  BY <1>2, <1>3 DEF ConnectEx

-----------------------------------------------------------------------------
\* The running client.

LEMMA StepCInv ==
  ASSUME CInv, NEW t \in Threads, Step(t)
  PROVE  CInv'
<1>1. /\ TypeOK /\ Keyed
      /\ thr[t].pc \notin {"idle", "Lookup"}
      /\ thr[t].pc \notin {"idle", "Lookup", "Connect"} <=> ~At(t, "Connect")
  BY DEF CInv, Step, At, Connect, ConnectEx, ConnectFailed, NotifyUp, PostReceive, Receive,
         NotifyFailed, NeedConnect, EraseFailed, ReCycle, EmitDown, DeleteUser,
         CheckFlag, Erase, DisconnectEx
<1>2. PICK k \in Keys : thr[t].key = k
  BY <1>1, ThreadFields
<1>3. CASE Connect(t)
  BY <1>2, <1>3, ConnectCInv
<1>4. CASE ~At(t, "Connect")
  <2>1. PICK c \in Contexts : thr[t].c = c
    BY <1>1, <1>4, ThreadFields
  <2>2. CASE ConnectEx(t) \/ ConnectFailed(t)
    BY <1>2, <2>1, <2>2, ConnectExCInv, ConnectFailedCInv
  <2>3. CASE NotifyUp(t) \/ PostReceive(t) \/ NotifyFailed(t) \/ NeedConnect(t) \/ EraseFailed(t)
    BY <2>3, NotifyUpCInv, PostReceiveCInv, NotifyFailedCInv, NeedConnectCInv, EraseFailedCInv
  <2>4. CASE EmitDown(t) \/ DeleteUser(t) \/ CheckFlag(t) \/ Erase(t)
    BY <2>4, EmitDownCInv, DeleteUserCInv, CheckFlagCInv, EraseCInv
  <2>5. CASE Receive(t) \/ ReCycle(t) \/ DisconnectEx(t)
    BY <1>2, <2>1, <2>5, ReceiveCInv, ReCycleCInv, DisconnectExCInv
  <2> QED
    BY <1>4, <2>2, <2>3, <2>4, <2>5 DEF Step, Connect
<1> QED
  BY <1>3, <1>4 DEF Step, At, ConnectEx, ConnectFailed, NotifyUp, PostReceive, Receive,
         NotifyFailed, NeedConnect, EraseFailed, ReCycle, EmitDown, DeleteUser,
         CheckFlag, Erase, DisconnectEx

LEMMA DispatchCInv ==
  ASSUME CInv, NEW t \in Workers, NEW c \in Contexts, Dispatch(t, c)
  PROVE  CInv'
<1>1. CASE HandConnect(t, c)
  BY <1>1, HandConnectCInv
<1>2. CASE HandConnectError(t, c)
  <2>1. ctx[c].key \in Keys
    BY <1>2 DEF HandConnectError, Dispatched, CInv, Keyed
  <2>2. PICK k \in Keys : ctx[c].key = k
    BY <2>1
  <2> QED
    BY <1>2, <2>2, HandConnectErrorCInv
<1>3. CASE HandReceiveEnd(t, c)
  BY <1>3, HandReceiveEndCInv
<1>4. CASE HandDisconnect(t, c)
  BY <1>4, HandDisconnectCInv
<1> QED
  BY <1>1, <1>2, <1>3, <1>4 DEF Dispatch

LEMMA NextCInv == CInv /\ Next => CInv'
<1> SUFFICES ASSUME CInv, Next PROVE CInv'
  OBVIOUS
<1>1. CASE \E k \in Keys, iRecnnt \in Recnnts : AddConnect(k, iRecnnt)
  BY <1>1, AddConnectCInv
<1>2. CASE \E k \in Keys : Disconnect(k)
  BY <1>2, DisconnectCInv
<1>3. CASE Lookup
  BY <1>3, LookupCInv
<1>4. CASE DeamonConnectCallback
  BY <1>4, ScanCInv, ScanEntryCInv DEF DeamonConnectCallback
<1>5. CASE \E t \in Threads : Step(t)
  BY <1>5, StepCInv
<1>6. CASE \E t \in Workers, c \in Contexts : Dispatch(t, c)
  BY <1>6, DispatchCInv
<1> QED
  BY <1>1, <1>2, <1>3, <1>4, <1>5, <1>6 DEF Next

LEMMA StutterCInv == CInv /\ UNCHANGED vars => CInv'
<1> SUFFICES ASSUME CInv, UNCHANGED vars PROVE CInv'
  OBVIOUS
<1>1. /\ UNCHANGED <<m_mapSrvInfo, m_lckSrvInfo, todo, mapConnectList, ctx, thr, history>>
      /\ signals' = signals /\ signals \in Seq(Signal)
  BY DEF vars, history, CInv, TypeOK
<1> QED
  BY <1>1, SignalsKept

-----------------------------------------------------------------------------
\* StopClient

\* The loop takes a connection down itself, in place of a thread.
LEMMA VisitedCInv ==
  ASSUME CInv, NEW k \in Keys, NEW c \in Contexts, mapConnectList[k] = c,
         NEW s \in {"down", "closed"}, NEW p \in SUBSET {"disc"},
         ctx[c].op = "recv", StopReCycle(k, s, p),
         mapConnectList' = [mapConnectList EXCEPT ![k] = NoCtx],
         UNCHANGED <<m_lckSrvInfo, todo, thr, history>>
  PROVE  CInv'
<1> USE DEF CInv
<1>1. ctx[c].key = k /\ ctx[c].flag \in 0..2
  BY ContextFields, ThreadNames DEF Keyed
<1>2. /\ ctx' \in [Contexts -> SocketContext]
      /\ ctx'[c].key = k /\ ctx'[c].op = "recv" /\ ctx'[c].sock = s
      /\ ctx'[c].flag > 0 /\ ctx'[c].flag # 0
      /\ ctx'[c].pend = ctx[c].pend \cup p
      /\ \A d \in Contexts \ {c} : ctx'[d] = ctx[d]
  <2> DEFINE n == IF ctx[c].flag = 2 THEN 2 ELSE ctx[c].flag + 1
             x == [ctx[c] EXCEPT !.flag = n, !.sock = s, !.pend = ctx[c].pend \cup p]
  <2>1. n \in 0..2 /\ n > 0 /\ n # 0
    BY <1>1
  <2>2. ctx[c] \in SocketContext /\ ctx \in [Contexts -> SocketContext]
    BY DEF TypeOK
  <2>3. ctx' = [ctx EXCEPT ![c] = x]
    BY <2>2 DEF StopReCycle, SocketContext
  <2> HIDE DEF n
  <2>4. /\ x \in SocketContext
        /\ x.key = k /\ x.op = "recv" /\ x.sock = s /\ x.flag = n
        /\ x.pend = ctx[c].pend \cup p
    <3> HIDE DEF CInv
    <3> QED
      BY <1>1, <2>1, <2>2 DEF SocketContext
  <2> HIDE DEF x
  <2> QED
    BY <2>1, <2>2, <2>3, <2>4
<1>3. /\ UNCHANGED <<m_lckSrvInfo, todo, thr, added, failed, unlisted>>
      /\ \A d \in Contexts : ctx'[d].key = ctx[d].key
      /\ k \in added
  BY <1>1, <1>2 DEF history, Calls, Fresh
<1>4. ~Live(c)' /\ \A d \in Contexts \ {c} : Live(d)' <=> Live(d)
  BY <1>2, <1>3 DEF Live, At
\* What happens to the entry.
<1>5. /\ m_mapSrvInfo' \in [Keys -> SServerInfo]
      /\ \A l \in Keys : ~m_mapSrvInfo'[l].known => m_mapSrvInfo'[l] = Unknown
      /\ \A l \in Keys \ {k} : m_mapSrvInfo'[l] = m_mapSrvInfo[l]
      /\ m_mapSrvInfo'[k].known => m_mapSrvInfo[k].known
      /\ signals' \in Seq(Signal)
      /\ \A l \in todo : m_mapSrvInfo'[l].bNeedConnect
      /\ OneToken' /\ Remembered'
  <2>1. CASE ctx[c].flag = 0
    <3>1. LockFree /\ Emit("down", k) /\ m_mapSrvInfo' = Ended(k) /\ todo = {}
      BY <2>1 DEF StopReCycle, TypeOK, LockFree
    <3>2. /\ m_mapSrvInfo' \in [Keys -> SServerInfo]
          /\ \A l \in Keys : ~m_mapSrvInfo'[l].known => m_mapSrvInfo'[l] = Unknown
          /\ \A l \in Keys \ {k} : m_mapSrvInfo'[l] = m_mapSrvInfo[l]
          /\ m_mapSrvInfo'[k].known => m_mapSrvInfo[k].known /\ m_mapSrvInfo'[k].bNeedConnect
          /\ m_mapSrvInfo'[k].bNeedConnect => m_mapSrvInfo'[k].known
      BY <3>1, EndedFields
    <3>3. signals' \in Seq(Signal)
      BY <3>1, EmitFields
    <3>4. Live(c)
      BY <2>1 DEF Lives, Live
    <3>5. m_mapSrvInfo[k].known => \A u \in Threads : thr[u].pc \in Ending => thr[u].key # k
      BY <1>1, <3>4 DEF OneToken
    <3>6. \A d \in Contexts : ctx[d].key = k => ~Live(d)'
      BY <1>1, <1>4, <3>4 DEF OneToken, OneLive
    <3>7. /\ \A u \in Threads : thr[u].pc \in Ending => thr[u].key \in Keys
          /\ \A d \in Contexts : ctx[d].key # k /\ Live(d) => Live(d)'
          /\ \A d \in Contexts : Live(d)' => Live(d)
      BY <1>1, <1>4, ThreadFields DEF Ending
    <3> HIDE DEF CInv
    <3>8. OneToken' /\ Remembered'
      BY <1>3, <3>2, <3>5, <3>6, <3>7, TokenGiven
    <3> QED
      BY <3>1, <3>2, <3>3, <3>8
  <2>2. CASE ctx[c].flag # 0
    <3>1. UNCHANGED <<m_mapSrvInfo, signals>>
      BY <2>2 DEF StopReCycle
    <3>2. \A d \in Contexts : Live(d)' <=> Live(d)
      BY <1>4, <2>2 DEF Live
    <3>3. OneToken' /\ Remembered'
      <4> HIDE DEF CInv
      <4> QED
        BY <1>3, <3>1, <3>2, TokenKept, RememberedKept
    <3> QED
      BY <3>1, <3>3 DEF TypeOK, Scanned
  <2> QED
    BY <2>1, <2>2
<1>6. TypeOK'
  <2>1. mapConnectList' \in [Keys -> Contexts \cup {NoCtx}]
    BY DEF TypeOK
  <2> QED
    BY <1>2, <1>3, <1>5, <2>1 DEF TypeOK
<1>7. Places' /\ Scanned'
  BY <1>3, <1>5 DEF Places, Scanned
<1>8. Keyed'
  <2>1. \A d \in Contexts : ctx'[d].pend # {} => ctx'[d].key \in Keys
    BY <1>1, <1>2 DEF Keyed
  <2>2. \A l \in Keys : mapConnectList'[l] # NoCtx => ctx'[mapConnectList'[l]].key = l
    BY <1>3 DEF Keyed, TypeOK
  <2>3. \A u \in Threads : thr[u].pc \notin {"idle", "Connect", "Lookup"} =>
          thr[u].c \in Contexts /\ ctx'[thr[u].c].key = thr[u].key
    BY <1>3 DEF Keyed
  <2> QED
    BY <1>3, <2>1, <2>2, <2>3 DEF Keyed
<1>9. Calls'
  <2>1. ASSUME NEW l \in Keys, Fresh(l) PROVE Fresh(l)'
    <3>1. l # k
      BY <1>1, <2>1 DEF Fresh
    <3> QED
      BY <1>3, <1>5, <2>1, <3>1 DEF Fresh
  <2>2. \A l \in Keys \ added' : Fresh(l)' /\ thr'[App].key # l /\ ~m_mapSrvInfo'[l].known
    BY <1>3, <1>5, <2>1 DEF Calls
  <2>3. thr[App].pc = "Connect" => Fresh(thr[App].key)'
    <3> SUFFICES ASSUME thr[App].pc = "Connect" PROVE Fresh(thr[App].key)'
      OBVIOUS
    <3>1. thr[App].key \in Keys /\ Fresh(thr[App].key)
      BY ThreadFields, ThreadNames DEF Calls
    <3>2. \A l \in Keys : Fresh(l) => Fresh(l)'
      BY <2>1
    <3> QED
      BY <1>3, <3>1, <3>2 DEF Fresh
  <2>4. thr[App].pc \in {"Lookup"} \cup TearingDown => ~m_mapSrvInfo'[thr[App].key].known
    <3> SUFFICES ASSUME thr[App].pc \in {"Lookup"} \cup TearingDown
                 PROVE  ~m_mapSrvInfo'[thr[App].key].known
      OBVIOUS
    <3>1. thr[App].key \in Keys /\ ~m_mapSrvInfo[thr[App].key].known
      BY ThreadFields, ThreadNames DEF Calls, TearingDown
    <3> QED
      BY <1>5, <3>1
  <2> QED
    BY <1>3, <2>2, <2>3, <2>4 DEF Calls
<1>10. Lives'
  <2>1. \A u \in Threads : thr[u].pc \in {"ConnectEx", "ConnectFailed"} =>
          ctx'[thr[u].c] = ctx[thr[u].c]
    <3> SUFFICES ASSUME NEW u \in Threads, thr[u].pc \in {"ConnectEx", "ConnectFailed"}
                 PROVE  ctx'[thr[u].c] = ctx[thr[u].c]
      OBVIOUS
    <3>1. thr[u].c \in Contexts /\ ctx[thr[u].c].op = "connect"
      BY ThreadFields DEF Lives, Starting
    <3> QED
      BY <1>2, <3>1
  <2>2. Starting'
    BY <1>3, <2>1 DEF Lives, Starting
  <2>3. "connect" \notin ctx'[c].pend
    BY <1>2 DEF Lives
  <2>4. ASSUME NEW d \in Contexts, "connect" \in ctx'[d].pend
        PROVE  /\ ctx'[d].op = "connect" /\ "recv" \notin ctx'[d].pend
               /\ ctx'[d].sock \in {"idle", "closed"}
               /\ \A w \in Workers : thr[w].c # d
               /\ ctx'[d].flag = 0 \/ ~m_mapSrvInfo'[ctx'[d].key].known
    <3>1. ctx'[d] = ctx[d]
      BY <1>2, <2>3, <2>4
    <3>2. /\ ctx[d].op = "connect" /\ "recv" \notin ctx[d].pend
          /\ ctx[d].sock \in {"idle", "closed"}
          /\ \A w \in Workers : thr[w].c # d
          /\ ctx[d].flag = 0 \/ ~m_mapSrvInfo[ctx[d].key].known
          /\ ctx[d].key \in Keys
      BY <2>4, <3>1 DEF Lives, Keyed
    <3> QED
      BY <1>5, <3>1, <3>2
  <2>5. \A d \in Contexts : ctx'[d].flag = 0 /\ (ctx'[d].op = "recv" \/ "recv" \in ctx'[d].pend) =>
          ctx'[d].sock = "conn"
    BY <1>2 DEF Lives
  <2>6. ASSUME NEW w \in Workers,
               thr[w].pc \in {"NotifyUp", "PostReceive", "Receive", "ReCycle"},
               ctx'[thr[w].c].flag = 0
        PROVE  ctx'[thr[w].c].sock = "conn"
    <3>1. thr[w].c \in Contexts
      BY <2>6, ThreadFields, ThreadNames
    <3> QED
      BY <1>2, <2>6, <3>1 DEF Lives
  <2>7. ASSUME NEW u \in Threads, thr[u].pc \in TearingDown \ {"ReCycle"}
        PROVE  ctx'[thr[u].c].flag > 0
    <3>1. thr[u].c \in Contexts /\ ctx[thr[u].c].flag > 0
      BY <2>7, ThreadFields DEF Lives, TearingDown
    <3> QED
      BY <1>2, <3>1
  <2> QED
    BY <1>3, <2>2, <2>4, <2>5, <2>6, <2>7 DEF Lives
<1> QED
  BY <1>5, <1>6, <1>7, <1>8, <1>9, <1>10

-----------------------------------------------------------------------------
\* StopClient's loop finds the list as it locked it, less what it took off.

\* Out of the loop nothing is left to visit.
StopTypes ==
  /\ main \in {"running", "joinDaemon", "lock", "loop", "joinWorkers", "done"}
  /\ event \in {"none", "clear", "set"}
  /\ left \subseteq {k \in Keys : mapConnectList[k] # NoCtx}
  /\ main # "loop" => left = {}
  /\ exited \subseteq Threads \ {App}
  /\ nulls \in Nat
  /\ eventLost \in BOOLEAN

SInv == CInv /\ StopTypes

\* Only the steps that lock the list change it.
LEMMA NextList ==
  ASSUME CInv, Next
  PROVE  \/ mapConnectList' = mapConnectList
         \/ \E t \in Threads : thr[t].pc \in ListSteps /\ thr[t] # thr'[t]
<1>1. thr \in [Threads -> Thread]
  BY DEF CInv, TypeOK
<1>2. ASSUME NEW t \in Threads, Step(t), mapConnectList' # mapConnectList
      PROVE  \E u \in Threads : thr[u].pc \in ListSteps /\ thr[u] # thr'[u]
  <2>1. CASE Connect(t)
    <3>1. PICK c \in Contexts : thr' = [thr EXCEPT ![t].pc = "ConnectEx", ![t].c = c]
      BY <1>2, <2>1 DEF Connect
    <3>2. thr'[t].pc = "ConnectEx"
      <4>1. thr[t] \in Thread /\ thr' = [thr EXCEPT ![t] = [thr[t] EXCEPT !.pc = "ConnectEx", !.c = c]]
        BY <1>1, <3>1
      <4> QED
        BY <1>1, <4>1 DEF Thread
    <3> QED
      BY <2>1, <3>2 DEF Connect, At, ListSteps
  <2>2. CASE ConnectFailed(t)
    <3>1. thr'[t].pc = "idle"
      BY <1>1, <2>2, ReturnFields, IdleFields DEF ConnectFailed, Added
    <3> QED
      BY <2>2, <3>1 DEF ConnectFailed, At, ListSteps
  <2>3. CASE EraseFailed(t)
    <3>1. thr'[t].pc = "idle"
      BY <1>1, <2>3, ReturnFields, IdleFields DEF EraseFailed
    <3> QED
      BY <2>3, <3>1 DEF EraseFailed, At, ListSteps
  <2>4. CASE Erase(t)
    <3>1. thr'[t].pc = "DisconnectEx"
      BY <1>1, <2>4, GotoFields DEF Erase, Steps
    <3> QED
      BY <2>4, <3>1 DEF Erase, At, ListSteps
  <2> QED
    BY <1>2, <2>1, <2>2, <2>3, <2>4
       DEF Step, ConnectEx, NotifyUp, PostReceive, Receive, NotifyFailed, NeedConnect,
           ReCycle, EmitDown, DeleteUser, CheckFlag, DisconnectEx
<1>3. (\E t \in Threads : Step(t)) \/ mapConnectList' = mapConnectList
  BY DEF Next, AddConnect, Disconnect, Lookup, DeamonConnectCallback, StartScan, EndScan,
         ScanEntry, Dispatch, HandConnect, HandConnectError, HandReceiveEnd, HandDisconnect
<1> QED
  BY <1>2, <1>3

LEMMA InitSInv == StopInit => SInv
<1> SUFFICES ASSUME StopInit PROVE SInv
  OBVIOUS
<1>1. CInv
  BY InitCInv DEF StopInit
<1> QED
  BY <1>1 DEF SInv, StopInit, StopTypes

LEMMA NextSInv == SInv /\ [StopNext]_clientVars => SInv'
<1> SUFFICES ASSUME SInv, [StopNext]_clientVars PROVE SInv'
  OBVIOUS
<1> USE DEF SInv
<1>1. CASE Running
  <2>1. CInv'
    BY <1>1, NextCInv DEF Running
  <2>2. main = "loop" => mapConnectList' = mapConnectList
    BY <1>1, NextList DEF Running, Allowed
  <2> QED
    BY <1>1, <2>1, <2>2 DEF Running, stopVars, StopTypes
<1>2. CASE \E k \in Keys : VisitConnected(k)
  <2>1. PICK k \in Keys : VisitConnected(k)
    BY <1>2
  <2>2. k \in left /\ mapConnectList[k] \in Contexts /\ mapConnectList' = [mapConnectList EXCEPT ![k] = NoCtx]
        /\ mapConnectList \in [Keys -> Contexts \cup {NoCtx}]
    BY <2>1 DEF VisitConnected, StopTypes, CInv, TypeOK
  <2>3. CInv'
    <3>1. PICK c \in Contexts : mapConnectList[k] = c
      BY <2>2
    <3>2. \/ StopReCycle(k, "down", {"disc"})
          \/ StopReCycle(k, "closed", {})
      BY <2>1 DEF VisitConnected
    <3>3. ctx[c].op = "recv" /\ UNCHANGED <<m_lckSrvInfo, todo, thr, history>>
      BY <2>1, <3>1 DEF VisitConnected
    <3> QED
      BY <2>2, <3>1, <3>2, <3>3, VisitedCInv
  <2>4. /\ main' = main /\ event' = event /\ exited' = exited /\ nulls' = nulls
        /\ eventLost' = eventLost /\ left' = left \ {k} /\ main = "loop"
    BY <2>1 DEF VisitConnected
  <2>5. StopTypes'
    BY <2>2, <2>4 DEF StopTypes
  <2> QED
    BY <2>3, <2>5
<1>3. CASE UNCHANGED vars /\ ~Running /\ ~(\E k \in Keys : VisitConnected(k))
  <2>1. CInv' /\ mapConnectList' = mapConnectList
    BY <1>3, StutterCInv DEF vars
  <2>2. CASE CreateEvent \/ EndDaemon \/ Uninitialize \/ JoinDaemon
    BY <2>1, <2>2, ThreadNames
       DEF CreateEvent, EndDaemon, Uninitialize, JoinDaemon, StopTypes
  <2>3. CASE LockList \/ \E k \in Keys : VisitConnecting(k)
    BY <2>1, <2>3 DEF LockList, VisitConnecting, StopTypes
  <2>4. CASE PostNulls \/ JoinWorkers
    <3>1. Cardinality(Workers) \in Nat
      BY WorkersFinite, FS_CardinalityType
    <3> QED
      BY <2>1, <2>4, <3>1 DEF PostNulls, JoinWorkers, StopTypes
  <2>5. CASE \E w \in Workers : EndWorker(w)
    BY <2>1, <2>5, ThreadNames DEF EndWorker, StopTypes
  <2>6. CASE UNCHANGED clientVars
    BY <2>1, <2>6 DEF clientVars, stopVars, StopTypes
  <2> QED
    BY <1>3, <2>2, <2>3, <2>4, <2>5, <2>6 DEF StopNext, StopClient
<1> QED
  BY <1>1, <1>2, <1>3
     DEF StopNext, StopClient, CreateEvent, EndDaemon, Uninitialize, JoinDaemon, LockList,
         VisitConnecting, PostNulls, JoinWorkers, EndWorker, clientVars

LEMMA StopInvariant == StopSpec => []SInv
<1>1. StopInit => SInv
  BY InitSInv
<1>2. SInv /\ [StopNext]_clientVars => SInv'
  BY NextSInv
<1> QED
  BY <1>1, <1>2, PTL DEF StopSpec

\* The token of a known server is one that NeverForgotten counts.
LEMMA Forgotten == CInv => NeverForgotten
BY DEF CInv, Remembered, NeverForgotten, Working, Connecting, Ending

\* Every variable of the client and of its shutdown has its type: a context
\* that the loop of StopClient has to visit is still listed, although the
\* daemon, the workers and the controller go on (IOCPClient.cpp, StopClient).
THEOREM StopTypeCorrect == StopSpec => []StopTypeOK
<1>1. SInv => StopTypeOK
  BY DEF SInv, CInv, StopTypes, StopTypeOK
<1> QED
  BY <1>1, StopInvariant, PTL

\* A server has at most one live connection at a time, whatever the daemon
\* starts while an earlier connection is taken down, and while StopClient
\* takes the list apart (ServerConnect.cpp, DeamonConnectCallback).
THEOREM StopOneLive == StopSpec => []OneLive
<1>1. SInv => OneLive
  BY DEF SInv, CInv, OneToken
<1> QED
  BY <1>1, StopInvariant, PTL

\* A known server is connected, or ordered to be, or in the hand of a thread
\* that will see to it (ServerConnect.cpp, ConnectNotify and DeleteUser).
THEOREM StopNeverForgotten == StopSpec => []NeverForgotten
<1>1. SInv => NeverForgotten
  BY Forgotten DEF SInv
<1> QED
  BY <1>1, StopInvariant, PTL

\* The same of a client that keeps running.
THEOREM RunningCorrect == Spec => [](TypeOK /\ OneLive /\ NeverForgotten)
<1>1. Init => CInv
  BY InitCInv
<1>2. CInv /\ [Next]_vars => CInv'
  BY NextCInv, StutterCInv
<1>3. CInv => TypeOK /\ OneLive /\ NeverForgotten
  BY Forgotten DEF CInv, OneToken
<1> QED
  BY <1>1, <1>2, <1>3, PTL DEF Spec

-----------------------------------------------------------------------------
\* MainModel's set of servers.  What a step of ServerConnect does to what
\* LoggedInConnected reads:

\* a context keeps its key, and is flagged first by the thread that will tell;
LEMMA NextContexts ==
  ASSUME CInv, Next, NEW c \in Contexts
  PROVE  /\ ctx[c].key \in Keys => ctx'[c].key = ctx[c].key
         /\ \/ ctx'[c].flag = ctx[c].flag
            \/ \E t \in Threads : ReCycle(t) /\ thr[t].c = c
<1> DEFINE Kept == /\ ctx[c].key \in Keys => ctx'[c].key = ctx[c].key
                   /\ ctx'[c].flag = ctx[c].flag
<1>1. ctx \in [Contexts -> SocketContext] /\ ctx[c] \in SocketContext
  BY DEF CInv, TypeOK
<1>2. ASSUME NEW t \in Threads, Step(t) PROVE Kept \/ (ReCycle(t) /\ thr[t].c = c)
  <2>1. CASE Connect(t)
    <3>1. CASE UNCHANGED ctx
      BY <3>1
    <3>2. CASE \E d \in Contexts : /\ ctx[d] = Unused
                                   /\ ctx' = [ctx EXCEPT ![d].key = thr[t].key, ![d].sock = "idle"]
      <4>1. PICK d \in Contexts : /\ ctx[d] = Unused
                                  /\ ctx' = [ctx EXCEPT ![d].key = thr[t].key, ![d].sock = "idle"]
        BY <3>2
      <4>2. CASE c = d
        BY <1>1, <4>1, <4>2, ThreadNames DEF Unused, SocketContext
      <4>3. CASE c # d
        BY <1>1, <4>1, <4>3
      <4> QED
        BY <4>2, <4>3
    <3> QED
      BY <2>1, <3>1, <3>2 DEF Connect
  <2>2. CASE ConnectEx(t) \/ ConnectFailed(t)
    <3>1. CASE UNCHANGED ctx
      BY <3>1
    <3>2. CASE ctx' = [ctx EXCEPT ![thr[t].c].sock = "closed"]
      BY <1>1, <3>2 DEF SocketContext
    <3>3. CASE ctx' = [ctx EXCEPT ![thr[t].c].pend = ctx[thr[t].c].pend \cup {"connect"}]
      BY <1>1, <3>3 DEF SocketContext
    <3> QED
      BY <2>2, <3>1, <3>2, <3>3 DEF ConnectEx, ConnectFailed
  <2>3. CASE Receive(t) \/ DisconnectEx(t)
    BY <1>1, <2>3 DEF Receive, DisconnectEx, SocketContext
  <2>4. CASE ReCycle(t)
    <3>1. CASE thr[t].c = c
      BY <2>4, <3>1
    <3>2. CASE thr[t].c # c
      BY <1>1, <2>4, <3>2 DEF ReCycle
    <3> QED
      BY <3>1, <3>2
  <2> QED
    BY <1>2, <2>1, <2>2, <2>3, <2>4
       DEF Step, NotifyUp, PostReceive, NotifyFailed, NeedConnect, EraseFailed, EmitDown,
           DeleteUser, CheckFlag, Erase
<1>3. ASSUME NEW t \in Workers, NEW d \in Contexts, Dispatch(t, d) PROVE Kept
  <2>1. CASE c = d
    BY <1>1, <1>3, <2>1
       DEF Dispatch, HandConnect, HandConnectError, HandReceiveEnd, HandDisconnect,
           SocketContext
  <2>2. CASE c # d
    BY <1>1, <1>3, <2>2
       DEF Dispatch, HandConnect, HandConnectError, HandReceiveEnd, HandDisconnect
  <2> QED
    BY <2>1, <2>2
<1>4. UNCHANGED ctx => Kept
  OBVIOUS
<1>5. (\E t \in Threads : Step(t)) => Kept \/ \E t \in Threads : ReCycle(t) /\ thr[t].c = c
  BY <1>2
<1>6. (\E t \in Workers, d \in Contexts : Dispatch(t, d)) => Kept
  BY <1>3
<1>7. ASSUME \/ \E k \in Keys, iRecnnt \in Recnnts : AddConnect(k, iRecnnt)
             \/ \E k \in Keys : Disconnect(k)
             \/ Lookup
             \/ DeamonConnectCallback
      PROVE  UNCHANGED ctx
  BY <1>7 DEF AddConnect, Disconnect, Lookup, DeamonConnectCallback, StartScan, EndScan,
              ScanEntry
<1> HIDE DEF Kept
<1>8. Kept \/ \E t \in Threads : ReCycle(t) /\ thr[t].c = c
  BY <1>4, <1>5, <1>6, <1>7 DEF Next
<1>9. CASE \E t \in Threads : ReCycle(t) /\ thr[t].c = c
  <2>1. PICK t \in Threads : ReCycle(t) /\ thr[t].c = c
    BY <1>9
  <2>2. ctx'[c].key = ctx[c].key
    BY <1>1, <2>1 DEF ReCycle, SocketContext
  <2> QED
    BY <1>9, <2>2
<1> QED
  BY <1>8, <1>9 DEF Kept

\* a thread that has to tell goes on when it has;
LEMMA NextTeller ==
  ASSUME CInv, Next, NEW t \in Threads, thr[t].pc = "EmitDown"
  PROVE  thr'[t] = thr[t] \/ EmitDown(t)
<1>1. thr \in [Threads -> Thread]
  BY DEF CInv, TypeOK
<1>2. ASSUME NEW u \in Threads, Step(u) PROVE thr'[t] = thr[t] \/ EmitDown(t)
  <2>1. CASE u = t
    BY <1>2, <2>1
       DEF Step, At, Connect, ConnectEx, ConnectFailed, NotifyUp, PostReceive, Receive,
           NotifyFailed, NeedConnect, EraseFailed, ReCycle, DeleteUser, CheckFlag, Erase,
           DisconnectEx
  <2>2. CASE u # t
    BY <1>1, <1>2, <2>2
       DEF Step, Goto, Return, Enter, Added, AfterReCycle, Connect, ConnectEx,
           ConnectFailed, NotifyUp, PostReceive, Receive, NotifyFailed, NeedConnect,
           EraseFailed, ReCycle, EmitDown, DeleteUser, CheckFlag, Erase, DisconnectEx
  <2> QED
    BY <2>1, <2>2
<1>3. ASSUME NEW u \in Workers, NEW c \in Contexts, Dispatch(u, c) PROVE thr'[t] = thr[t]
  BY <1>1, <1>3
     DEF Dispatch, Dispatched, At, Enter, HandConnect, HandConnectError, HandReceiveEnd,
         HandDisconnect
<1> QED
  BY <1>1, <1>2, <1>3
     DEF Next, At, Return, Enter, AddConnect, Disconnect, Lookup, DeamonConnectCallback,
         StartScan, EndScan, ScanEntry

\* and what was told waits for MainModel.
LEMMA NextSignals ==
  ASSUME CInv, Next
  PROVE  signals' = signals \/ \E s \in Signal : signals' = Append(signals, s)
<1>1. ASSUME NEW t \in Threads, NEW kind \in {"up", "failed", "down"},
             thr[t].pc # "idle", Emit(kind, thr[t].key)
      PROVE  \E s \in Signal : signals' = Append(signals, s)
  <2>1. [kind |-> kind, key |-> thr[t].key] \in Signal
    BY <1>1, ThreadFields DEF CInv, Signal
  <2> QED
    BY <1>1, <2>1 DEF Emit
<1>2. ASSUME NEW t \in Threads, Step(t)
      PROVE  signals' = signals \/ \E s \in Signal : signals' = Append(signals, s)
  <2>1. CASE NotifyUp(t) \/ NotifyFailed(t) \/ EmitDown(t)
    BY <1>1, <2>1 DEF NotifyUp, NotifyFailed, EmitDown, At
  <2> QED
    BY <1>2, <2>1
       DEF Step, Connect, ConnectEx, ConnectFailed, PostReceive, Receive, NeedConnect,
           EraseFailed, ReCycle, DeleteUser, CheckFlag, Erase, DisconnectEx
<1> QED
  BY <1>2
     DEF Next, AddConnect, Disconnect, Lookup, DeamonConnectCallback, StartScan, EndScan,
         ScanEntry, Dispatch, HandConnect, HandConnectError, HandReceiveEnd, HandDisconnect

\* So a connection whose end is reported, or will be, stays one.
Announced(c) == EndReported(c) => EndPending(c)

LEMMA AnnouncedKept ==
  ASSUME CInv, Next, NEW c \in Contexts, ctx[c].key \in Keys, Announced(c)
  PROVE  Announced(c)'
<1> SUFFICES ASSUME ctx'[c].flag > 0 PROVE EndPending(c)'
  BY DEF Announced, EndReported
<1>1. ctx'[c].key = ctx[c].key
  BY NextContexts
<1>2. ASSUME NEW i \in DOMAIN signals
      PROVE  i \in DOMAIN signals' /\ signals'[i] = signals[i]
  <2>1. signals \in Seq(Signal)
    BY DEF CInv, TypeOK
  <2> QED
    BY <2>1, NextSignals, AppendProperties
<1>3. CASE EndPending(c)
  <2>1. CASE \E i \in DOMAIN signals : signals[i].kind = "down" /\ signals[i].key = ctx[c].key
    BY <1>1, <1>2, <2>1 DEF EndPending
  <2>2. CASE \E t \in Threads : thr[t].c = c /\ At(t, "EmitDown")
    <3>1. PICK t \in Threads : thr[t].c = c /\ thr[t].pc = "EmitDown"
      BY <2>2 DEF At
    <3>2. CASE thr'[t] = thr[t]
      BY <3>1, <3>2 DEF EndPending, At
    <3>3. CASE EmitDown(t)
      <4>1. thr[t].key = ctx[c].key
        BY <3>1, ThreadFields DEF CInv
      <4>2. /\ signals' = Append(signals, [kind |-> "down", key |-> ctx[c].key])
            /\ signals \in Seq(Signal)
            /\ [kind |-> "down", key |-> ctx[c].key] \in Signal
        BY <3>3, <4>1 DEF EmitDown, Emit, CInv, TypeOK, Signal
      <4>3. /\ Len(signals) + 1 \in DOMAIN signals'
            /\ signals'[Len(signals) + 1] = [kind |-> "down", key |-> ctx[c].key]
        BY <4>2, AppendProperties
      <4> QED
        BY <1>1, <4>3 DEF EndPending
    <3> QED
      BY <3>1, <3>2, <3>3, NextTeller
  <2> QED
    BY <1>3, <2>1, <2>2 DEF EndPending
<1>4. CASE ~EndPending(c)
  <2>1. ctx[c].flag = 0
    <3>1. ctx[c].flag \in 0..2
      BY ContextFields DEF CInv
    <3> QED
      BY <1>4, <3>1 DEF Announced, EndReported
  <2>2. PICK t \in Threads : ReCycle(t) /\ thr[t].c = c
    BY <2>1, NextContexts
  <2>3. Goto(t, "EmitDown") /\ thr \in [Threads -> Thread]
    BY <2>1, <2>2 DEF ReCycle, CInv, TypeOK
  <2>4. thr'[t].pc = "EmitDown" /\ thr'[t].c = c
    BY <2>2, <2>3, GotoFields DEF Steps
  <2> QED
    BY <2>4 DEF EndPending, At
<1> QED
  BY <1>3, <1>4

-----------------------------------------------------------------------------
\* Requests, replies and logins are of connections that have been made.
Made == {c \in Contexts : ctx[c].key \in Keys}

LoginTypes ==
  /\ m_setSrvUser \subseteq Keys
  /\ asked \subseteq Made
  /\ replies \subseteq Made
  /\ logged \subseteq Made
  /\ late \in BOOLEAN

LInv == CInv /\ LoginTypes /\ LoggedInConnected

LEMMA InitLInv == LoginInit => LInv
<1> SUFFICES ASSUME LoginInit PROVE LInv
  OBVIOUS
<1>1. CInv
  BY InitCInv DEF LoginInit
<1>2. LoginTypes /\ LoggedInConnected
  BY DEF LoginInit, LoginTypes, LoggedInConnected
<1> QED
  BY <1>1, <1>2 DEF LInv

\* A step of ServerConnect.
LEMMA NextLInv ==
  ASSUME LInv, Next, UNCHANGED loginVars
  PROVE  LInv'
<1> USE DEF LInv
<1>1. CInv'
  BY NextCInv
<1>2. UNCHANGED <<m_setSrvUser, asked, replies, logged, late>>
  BY DEF loginVars
<1>3. \A c \in Made : c \in Contexts /\ ctx[c].key \in Keys /\ ctx'[c].key = ctx[c].key
  BY NextContexts DEF Made
<1>4. LoginTypes'
  BY <1>2, <1>3 DEF LoginTypes, Made
<1>5. \A c \in Made : Announced(c) => Announced(c)'
  BY <1>3, AnnouncedKept
<1>6. LoggedInConnected'
  <2> SUFFICES ASSUME ~late, NEW k \in m_setSrvUser
               PROVE  \E c \in logged : ctx'[c].key = k /\ Announced(c)'
    BY <1>2 DEF LoggedInConnected, Announced
  <2>1. PICK c \in logged : ctx[c].key = k /\ Announced(c)
    BY DEF LoggedInConnected, Announced
  <2>2. c \in Made
    BY DEF LoginTypes
  <2> QED
    BY <1>3, <1>5, <2>1, <2>2
<1> QED
  BY <1>1, <1>4, <1>6

\* MainModel takes the next signal: an end that waits behind it still waits,
\* one further to the front.
LEMMA SlotLInv ==
  ASSUME LInv, signals # <<>>, signals' = Tail(signals),
         UNCHANGED <<connections, replies, logged, late>>,
         asked' \subseteq Made,
         m_setSrvUser' \subseteq m_setSrvUser,
         Head(signals).kind = "down" => Head(signals).key \notin m_setSrvUser'
  PROVE  LInv'
<1> USE DEF LInv
<1>1. /\ signals \in Seq(Signal) /\ signals' \in Seq(Signal)
      /\ Len(signals') = Len(signals) - 1
      /\ \A i \in 1 .. Len(signals') : signals'[i] = signals[i + 1]
      /\ DOMAIN signals = 1 .. Len(signals) /\ DOMAIN signals' = 1 .. Len(signals')
  <2>1. signals \in Seq(Signal)
    BY DEF CInv, TypeOK
  <2>2. signals' \in Seq(Signal)
    BY <2>1, HeadTailProperties
  <2> QED
    BY <2>1, <2>2, HeadTailProperties, LenProperties
<1>2. UNCHANGED <<m_mapSrvInfo, m_lckSrvInfo, todo, mapConnectList, ctx, thr, history>>
  BY DEF connections
<1>3. CInv'
  BY <1>1, <1>2, SignalsKept
<1>4. LoginTypes'
  BY <1>2 DEF LoginTypes, Made
<1>5. ASSUME NEW c \in Made, Announced(c), ctx[c].key \in m_setSrvUser' PROVE Announced(c)'
  <2> SUFFICES ASSUME EndPending(c) PROVE EndPending(c)'
    BY <1>2, <1>5 DEF Announced, EndReported
  <2>1. CASE \E t \in Threads : thr[t].c = c /\ At(t, "EmitDown")
    BY <1>2, <2>1 DEF EndPending, At
  <2>2. CASE \E i \in DOMAIN signals : signals[i].kind = "down" /\ signals[i].key = ctx[c].key
    <3>1. PICK i \in DOMAIN signals : signals[i].kind = "down" /\ signals[i].key = ctx[c].key
      BY <2>2
    <3>2. i # 1
      BY <1>5, <3>1
    <3>3. i - 1 \in DOMAIN signals' /\ signals'[i - 1] = signals[i]
      <4>1. i \in 2 .. Len(signals) /\ Len(signals) \in Nat
        BY <1>1, <3>2
      <4>2. i - 1 \in 1 .. Len(signals') /\ (i - 1) + 1 = i
        BY <1>1, <4>1
      <4> QED
        BY <1>1, <4>2
    <3> QED
      BY <1>2, <3>1, <3>3 DEF EndPending
  <2> QED
    BY <2>1, <2>2 DEF EndPending
<1>6. LoggedInConnected'
  <2> SUFFICES ASSUME ~late, NEW k \in m_setSrvUser'
               PROVE  \E c \in logged : ctx[c].key = k /\ Announced(c)'
    BY <1>2 DEF LoggedInConnected, Announced
  <2>1. PICK c \in logged : ctx[c].key = k /\ Announced(c)
    BY DEF LoggedInConnected, Announced
  <2>2. c \in Made
    BY DEF LoginTypes
  <2> QED
    BY <1>5, <2>1, <2>2
<1> QED
  BY <1>3, <1>4, <1>6

LEMMA SlotTcpConnectNotifyLInv ==
  ASSUME LInv, SlotTcpConnectNotify
  PROVE  LInv'
<1>1. /\ signals # <<>> /\ signals' = Tail(signals)
      /\ Head(signals).kind \in {"up", "failed"}
      /\ UNCHANGED <<connections, replies, logged, late>>
      /\ UNCHANGED m_setSrvUser
      /\ asked' = asked \/ asked' = asked \cup SentTo(Head(signals).key)
  BY DEF SlotTcpConnectNotify
<1>2. Head(signals).key \in Keys
  <2>1. signals \in Seq(Signal)
    BY DEF LInv, CInv, TypeOK
  <2>2. Head(signals) \in Signal
    BY <1>1, <2>1, HeadTailProperties
  <2> QED
    BY <2>2 DEF Signal
<1>3. SentTo(Head(signals).key) \subseteq Made
  BY <1>2, ThreadNames DEF SentTo, Made, LInv, CInv, Keyed
<1>4. asked' \subseteq Made
  BY <1>1, <1>3 DEF LInv, LoginTypes
<1> QED
  BY <1>1, <1>4, SlotLInv

LEMMA SlotTcpDisconnectNotifyLInv ==
  ASSUME LInv, SlotTcpDisconnectNotify
  PROVE  LInv'
<1>1. /\ signals # <<>> /\ signals' = Tail(signals)
      /\ UNCHANGED <<connections, replies, logged, late>>
      /\ UNCHANGED asked
      /\ m_setSrvUser' = m_setSrvUser \ {Head(signals).key}
  BY DEF SlotTcpDisconnectNotify
<1>2. asked' \subseteq Made
  BY <1>1 DEF LInv, LoginTypes
<1> QED
  BY <1>1, <1>2, SlotLInv

\* What leaves ServerConnect alone.
LEMMA ClientKept ==
  ASSUME LInv, UNCHANGED vars
  PROVE  CInv' /\ Made' = Made /\ \A c \in Contexts : Announced(c)' <=> Announced(c)
<1>1. CInv'
  BY StutterCInv DEF LInv
<1> QED
  BY <1>1 DEF vars, Made, Announced, EndReported, EndPending, At

LEMMA ReplyLInv ==
  ASSUME LInv, NEW c \in Contexts, Reply(c)
  PROVE  LInv'
<1>1. c \in Made
  BY DEF Reply, LInv, LoginTypes
<1>2. UNCHANGED vars /\ UNCHANGED <<m_setSrvUser, logged, late>>
  BY DEF Reply
<1>3. LoginTypes'
  BY <1>1, <1>2, ClientKept DEF Reply, LInv, LoginTypes
<1>4. LoggedInConnected'
  BY <1>2 DEF vars, LInv, LoggedInConnected, EndReported, EndPending, At
<1> QED
  BY <1>2, <1>3, <1>4, ClientKept DEF LInv

\* The reply's own connection vouches for the server, unless it is late.
LEMMA OnLoginRsLInv ==
  ASSUME LInv, NEW c \in Contexts, OnLoginRs(c)
  PROVE  LInv'
<1>1. c \in Made
  BY DEF OnLoginRs, LInv, LoginTypes
<1>2. UNCHANGED vars /\ UNCHANGED asked
  BY DEF OnLoginRs
<1>3. UNCHANGED <<ctx, thr, signals>>
  BY <1>2 DEF vars
<1>4. LoginTypes'
  BY <1>1, <1>2, ClientKept DEF OnLoginRs, LInv, LoginTypes, Made
<1>5. LoggedInConnected'
  <2> SUFFICES ASSUME ~late', NEW k \in m_setSrvUser'
               PROVE  \E d \in logged' : ctx[d].key = k /\ Announced(d)
    BY <1>3 DEF LoggedInConnected, Announced, EndReported, EndPending, At
  <2>1. ~late /\ Announced(c)
    BY DEF OnLoginRs, Announced, LInv, LoginTypes
  <2>2. CASE k = ctx[c].key
    BY <2>1, <2>2 DEF OnLoginRs
  <2>3. CASE k \in m_setSrvUser
    <3>1. PICK d \in logged : ctx[d].key = k /\ Announced(d)
      BY <2>1, <2>3 DEF LInv, LoggedInConnected, Announced
    <3> QED
      BY <3>1 DEF OnLoginRs
  <2> QED
    BY <2>2, <2>3 DEF OnLoginRs
<1> QED
  BY <1>2, <1>4, <1>5, ClientKept DEF LInv

LEMMA NextLoginInv == LInv /\ [LoginNext]_allVars => LInv'
<1> SUFFICES ASSUME LInv, [LoginNext]_allVars PROVE LInv'
  OBVIOUS
<1>1. CASE LoginNext
  BY <1>1, NextLInv, SlotTcpConnectNotifyLInv, SlotTcpDisconnectNotifyLInv, ReplyLInv,
     OnLoginRsLInv DEF LoginNext
<1>2. CASE UNCHANGED allVars
  <2>1. UNCHANGED vars /\ UNCHANGED loginVars
    BY <1>2 DEF allVars
  <2>2. LoginTypes'
    BY <2>1, ClientKept DEF loginVars, LInv, LoginTypes
  <2>3. LoggedInConnected'
    BY <2>1 DEF vars, loginVars, LInv, LoggedInConnected, EndReported, EndPending, At
  <2> QED
    BY <2>1, <2>2, <2>3, ClientKept DEF LInv
<1> QED
  BY <1>1, <1>2

\* A server counts as logged in only while a connection that was logged in to
\* it is up or its end is still to reach MainModel, whatever the order of the
\* replies and the signals, until a reply is handled after that news
\* (MainModel.cpp, OnLoginRs and slotTcpDisconnectNotify).
THEOREM LoggedInCorrect == LoginSpec => []LoggedInConnected
<1>1. LInv => LoggedInConnected
  BY DEF LInv
<1> QED
  BY <1>1, InitLInv, NextLoginInv, PTL DEF LoginSpec

=============================================================================
