----------------------------- MODULE ServerStop -----------------------------
(***************************************************************************)
(* Starting and stopping the server: the console's commands, MainServer,   *)
(* MainController with its heartbeat thread, IOCPServer::StopServer over   *)
(* the connection list, and the clearing of module pointers, against the   *)
(* completion-port workers and the message threads that are still running. *)
(*                                                                         *)
(* Of a connection only what StopServer looks at is kept, and a key's      *)
(* context is not reused; IOCPConnection has the rest of its life.         *)
(***************************************************************************)
EXTENDS Integers, FiniteSets

CONSTANTS Workers,    \* d->aThreadList
          Handlers,   \* PbMessageHandle's m_threadList
          Heart,      \* m_pHeartbeatThread
          MaxKeys,    \* bound: keys handed out, one per posted accept
          Accepts,    \* uInitAcceptCount
          MaxData,    \* bound: messages received
          ExitLimit   \* disconnects StopServer does not wait for, 5 in the code

ASSUME StopAssumption ==
  /\ Heart \notin Workers
  /\ IsFiniteSet(Workers) /\ Workers # {}
  /\ MaxKeys \in Nat /\ MaxData \in Nat /\ ExitLimit \in Nat
  /\ Accepts \in 1..MaxKeys

Threads == Workers \cup {Heart}
Keys == 1..MaxKeys

VARIABLES
  main,       \* the console thread
  thr,        \* what each worker and the heartbeat thread do
  event,      \* m_hHeartbeatEvent
  handler,    \* what each message thread does
  listen,     \* the listening socket
  nextKey,    \* uUserNum
  listed,     \* the keys in mapConnectList
  conn,       \* the socket contexts
  todo,       \* keys the loop of StopServer, which holds lckConnectList, has to visit
  iExitUserCount,
  nulls,      \* null completions that UninitIOCP posted and no worker took
  queue,      \* messages in m_msgList
  m_bStart,   \* PbMessageHandle's
  modules,    \* which objects' module pointers are set
  users,      \* keys UserInfoManage was told of, and those it was told are gone
  data,       \* messages received
  \* History, read by properties only.
  passed,     \* keys the loop of StopServer left alone
  others,     \* disconnects other than StopServer's that ended after its count began
  timedOut,   \* StopServer stopped waiting with too many outstanding
  eventLost,  \* the event was set before it was created
  busy        \* a message was left when the controller's pointers were cleared

vars == <<main, thr, event, handler, listen, nextKey, listed, conn, todo,
          iExitUserCount, nulls, queue, m_bStart, modules, users, data,
          passed, others, timedOut, eventLost, busy>>

Context == [op: {"none", "accept", "recv"},      \* m_ReceiveContext.m_oprateType
            flag: 0..2,                          \* m_iDisconnectFlag
            pend: SUBSET {"accept", "recv", "disc", "stop"}]
NoContext == [op |-> "none", flag |-> 0, pend |-> {}]
Accepting == [op |-> "accept", flag |-> 0, pend |-> {"accept"}]

Nothing == [pc |-> "none", k |-> 0, next |-> "idle"]
Idle    == [pc |-> "idle", k |-> 0, next |-> "idle"]

history == <<passed, others, timedOut, eventLost, busy>>
network == <<listen, nextKey, listed, conn>>
stop    == <<todo, iExitUserCount, nulls>>
messages == <<handler, queue, m_bStart, data>>

Init ==
  /\ main = "off"
  /\ thr = [t \in Threads |-> Nothing]
  /\ event = "none"
  /\ handler = [h \in Handlers |-> "none"]
  /\ listen = "none"
  /\ nextKey = 1
  /\ listed = {}
  /\ conn = [k \in Keys |-> NoContext]
  /\ todo = {}
  /\ iExitUserCount = 0
  /\ nulls = 0
  /\ queue = 0
  /\ m_bStart = FALSE
  /\ modules = {}
  /\ users = [added |-> {}, deleted |-> {}]
  /\ data = 0
  /\ passed = {}
  /\ others = 0
  /\ timedOut = FALSE
  /\ eventLost = FALSE
  /\ busy = FALSE

At(t, pc) == thr[t].pc = pc
Goto(t, pc) == thr' = [thr EXCEPT ![t].pc = pc]
Enter(t, k, pc, next) == thr' = [thr EXCEPT ![t] = [pc |-> pc, k |-> k, next |-> next]]
Return(t) == thr' = [thr EXCEPT ![t] = [Idle EXCEPT !.pc = thr[t].next]]

ListFree == main # "loop"
Crash == main' = "crashed"

-----------------------------------------------------------------------------
\* The console thread

\* StartServer: the modules first, then the port's threads, the listening
\* socket with its accepts, and the heartbeat thread.  When the socket cannot
\* be set up the workers are ended and the modules stay as they are.
StartServer ==
  /\ main = "off"
  /\ m_bStart' = TRUE
  /\ modules' = {"server", "controller"}
  /\ handler' = [h \in Handlers |-> IF handler[h] = "none" THEN "idle" ELSE handler[h]]
  /\ \/ UNCHANGED <<main, thr, network>>
     \/ /\ main' = "running"
        /\ thr' = [t \in Threads |->
                     IF t = Heart THEN [Idle EXCEPT !.pc = "create"] ELSE Idle]
        /\ listen' = "open"
        /\ nextKey' = Accepts + 1
        /\ listed' = 1..Accepts
        /\ conn' = [k \in Keys |-> IF k <= Accepts THEN Accepting ELSE NoContext]
  /\ UNCHANGED <<event, stop, queue, users, data, history>>

\* Mutant: the event is not set.
StopServer_Silent ==
  /\ \/ main = "off" /\ Crash
     \/ main = "running" /\ main' = "joinHeart"
  /\ UNCHANGED <<thr, event, network, stop, messages, modules, users, history>>

\* MainController::StopServer.  Without a server m_pHeartbeatThread is null.
StopServer ==
  /\ \/ /\ main = "off"
        /\ Crash
        /\ UNCHANGED <<event, eventLost>>
     \/ /\ main = "running"
        /\ main' = "joinHeart"
        /\ event' = IF event = "none" THEN "none" ELSE "set"
        /\ eventLost' = (event = "none")
  /\ UNCHANGED <<thr, network, stop, messages, modules, users,
                 passed, others, timedOut, busy>>

JoinHeart ==
  /\ main = "joinHeart"
  /\ At(Heart, "exited")
  /\ main' = "closeListen"
  /\ UNCHANGED <<thr, event, network, stop, messages, modules, users, history>>

\* Mutant: the count goes on from the disconnects of the running server.
CloseListen_Counting ==
  /\ main = "closeListen"
  /\ listen' = "closed"
  /\ others' = 0
  /\ main' = "lock"
  /\ UNCHANGED <<thr, event, nextKey, listed, conn, stop, messages,
                 modules, users, passed, timedOut, eventLost, busy>>

\* IOCPServer::StopServer up to the lock
CloseListen ==
  /\ main = "closeListen"
  /\ listen' = "closed"
  /\ iExitUserCount' = 0
  /\ others' = 0
  /\ main' = "lock"
  /\ UNCHANGED <<thr, event, nextKey, listed, conn, todo, nulls, messages,
                 modules, users, passed, timedOut, eventLost, busy>>

LockList ==
  /\ main = "lock"
  /\ todo' = listed
  /\ main' = "loop"
  /\ UNCHANGED <<thr, event, network, iExitUserCount, nulls, messages, modules,
                 users, history>>

\* Mutant: the application is not told.
Visit_Silent(k) ==
  /\ main = "loop"
  /\ k \in todo
  /\ \A j \in todo : k <= j
  /\ todo' = todo \ {k}
  /\ IF conn[k].op # "recv"
     THEN passed' = passed \cup {k} /\ UNCHANGED <<conn, listed, iExitUserCount>>
     ELSE /\ listed' = listed \ {k}
          /\ conn' = [conn EXCEPT ![k].flag = 1, ![k].pend = @ \cup {"stop"}]
          /\ iExitUserCount' = iExitUserCount + 1
          /\ UNCHANGED passed
  /\ UNCHANGED <<main, thr, event, listen, nextKey, nulls, messages, modules,
                 users, others, timedOut, eventLost, busy>>

\* One turn of StopServer's loop: a context that waits for a client or is being
\* accepted is left to its worker; any other is recycled, its disconnect is
\* posted or refused, and it leaves the list.
Visit(k) ==
  /\ main = "loop"
  /\ k \in todo
  /\ \A j \in todo : k <= j
  /\ todo' = todo \ {k}
  /\ IF conn[k].op # "recv"
     THEN /\ passed' = passed \cup {k}
          /\ UNCHANGED <<conn, users, listed, iExitUserCount>>
     ELSE /\ users' = IF conn[k].flag = 0
                      THEN [users EXCEPT !.deleted = @ \cup {k}] ELSE users
          /\ listed' = listed \ {k}
          /\ \E posted \in BOOLEAN :
               /\ conn' = [conn EXCEPT
                    ![k].flag = IF @ = 2 THEN 2 ELSE @ + 1,
                    ![k].pend = IF posted THEN @ \cup {"stop"} ELSE @]
               /\ iExitUserCount' = IF posted THEN iExitUserCount + 1 ELSE iExitUserCount
          /\ UNCHANGED passed
  /\ UNCHANGED <<main, thr, event, listen, nextKey, nulls, messages, modules,
                 others, timedOut, eventLost, busy>>

UnlockList ==
  /\ main = "loop"
  /\ todo = {}
  /\ main' = "wait"
  /\ UNCHANGED <<thr, event, network, stop, messages, modules, users, history>>

\* The wait ends when few disconnects are outstanding or after fifty turns;
\* UninitIOCP then posts one null completion per worker.
PostNulls ==
  /\ main = "wait"
  /\ timedOut' = (iExitUserCount > ExitLimit)
  /\ nulls' = Cardinality(Workers)
  /\ main' = "joinWorkers"
  /\ UNCHANGED <<thr, event, network, todo, iExitUserCount, messages, modules,
                 users, passed, others, eventLost, busy>>

\* Mutant: the port is closed without waiting for its threads.
JoinWorkers_Skipped ==
  /\ main = "joinWorkers"
  /\ main' = "clearController"
  /\ UNCHANGED <<thr, event, network, stop, messages, modules, users, history>>

JoinWorkers ==
  /\ main = "joinWorkers"
  /\ \A w \in Workers : At(w, "exited")
  /\ main' = "clearController"
  /\ UNCHANGED <<thr, event, network, stop, messages, modules, users, history>>

\* MainController::Uninitialize
ClearController ==
  /\ main = "clearController"
  /\ modules' = modules \ {"controller"}
  /\ busy' = (queue > 0 \/ \E h \in Handlers : handler[h] \in {"user", "send"})
  /\ main' = "clearServer"
  /\ UNCHANGED <<thr, event, network, stop, messages, users,
                 passed, others, timedOut, eventLost>>

\* TCPServer::Uninitialize
ClearServer ==
  /\ main = "clearServer"
  /\ modules' = modules \ {"server"}
  /\ main' = "stopMessages"
  /\ UNCHANGED <<thr, event, network, stop, messages, users, history>>

\* PbMessageHandle::Uninitialize up to the join.  Threads that have tested
\* m_bStart and not yet gone to sleep miss notify_all.
StopMessages ==
  /\ main = "stopMessages"
  /\ m_bStart' = FALSE
  /\ \E missing \in SUBSET {h \in Handlers : handler[h] = "idle" /\ queue = 0} :
       handler' = [h \in Handlers |-> IF h \in missing THEN "asleep" ELSE handler[h]]
  /\ main' = "joinHandlers"
  /\ UNCHANGED <<thr, event, network, stop, queue, data, modules, users, history>>

JoinHandlers ==
  /\ main = "joinHandlers"
  /\ \A h \in Handlers : handler[h] = "exited"
  /\ main' = "done"
  /\ UNCHANGED <<thr, event, network, stop, messages, modules, users, history>>

-----------------------------------------------------------------------------
\* HeartbeatHandle

CreateEvent ==
  /\ At(Heart, "create")
  /\ event' = "clear"
  /\ Goto(Heart, "idle")
  /\ UNCHANGED <<main, network, stop, messages, modules, users, history>>

\* The wait times out, and a user has been silent for too long.
DropUser(k) ==
  /\ At(Heart, "idle")
  /\ event = "clear"
  /\ k \in users.added \ users.deleted
  /\ k \in listed
  /\ Enter(Heart, k, "ReCycle", "idle")
  /\ UNCHANGED <<main, event, network, stop, messages, modules, users, history>>

EndHeart ==
  /\ At(Heart, "idle")
  /\ event = "set"
  /\ Goto(Heart, "exited")
  /\ event' = "clear"
  /\ UNCHANGED <<main, network, stop, messages, modules, users, history>>

-----------------------------------------------------------------------------
\* Completions.  The port is a queue: once a worker has taken a null, what is
\* left in it is nulls.

Dispatched(w, k, kind) ==
  /\ w \in Workers
  /\ At(w, "idle")
  /\ \A v \in Workers : ~At(v, "exited")
  /\ kind \in conn[k].pend

HandAccept(w, k) ==
  /\ Dispatched(w, k, "accept")
  /\ ListFree
  /\ conn' = [conn EXCEPT ![k].pend = @ \ {"accept"}]
  /\ Enter(w, k, "AddUser", "PostAcceptEx")
  /\ UNCHANGED <<main, event, listen, nextKey, listed, stop, messages, modules,
                 users, history>>

\* The client reset the connection, or the listening socket was closed.
HandAcceptError(w, k) ==
  /\ Dispatched(w, k, "accept")
  /\ ListFree
  /\ conn' = [conn EXCEPT ![k].pend = @ \ {"accept"}]
  /\ listed' = listed \ {k}
  /\ UNCHANGED <<main, thr, event, listen, nextKey, stop, messages, modules,
                 users, history>>

\* TCPServer::HandData and AddMessageData, of one message.
HandReceiveData(w, k) ==
  /\ Dispatched(w, k, "recv")
  /\ data < MaxData
  /\ data' = data + 1
  /\ queue' = IF m_bStart THEN queue + 1 ELSE queue
  /\ conn' = [conn EXCEPT ![k].pend = @ \ {"recv"}]
  /\ Enter(w, k, "PostReceive", "idle")
  /\ UNCHANGED <<main, event, listen, nextKey, listed, stop, handler, m_bStart,
                 modules, users, history>>

HandReceiveEnd(w, k) ==
  /\ Dispatched(w, k, "recv")
  /\ conn' = [conn EXCEPT ![k].pend = @ \ {"recv"}]
  /\ Enter(w, k, "ReCycle", "idle")
  /\ UNCHANGED <<main, event, listen, nextKey, listed, stop, messages, modules,
                 users, history>>

\* The count goes down for a disconnect of StopServer's and for any other.
HandDisconnect(w, k, kind) ==
  /\ kind \in {"disc", "stop"}
  /\ Dispatched(w, k, kind)
  /\ conn' = [conn EXCEPT ![k].pend = @ \ {kind}]
  /\ iExitUserCount' = iExitUserCount - 1
  /\ others' = IF kind = "disc" THEN others + 1 ELSE others
  /\ UNCHANGED <<main, thr, event, listen, nextKey, listed, todo, nulls, messages,
                 modules, users, passed, timedOut, eventLost, busy>>

EndWorker(w) ==
  /\ w \in Workers
  /\ At(w, "idle")
  /\ nulls > 0
  /\ nulls' = nulls - 1
  /\ Goto(w, "exited")
  /\ UNCHANGED <<main, event, network, todo, iExitUserCount, messages, modules,
                 users, history>>

-----------------------------------------------------------------------------
\* The rest of the handlers

AddUser(t) ==
  /\ At(t, "AddUser")
  /\ users' = IF "server" \in modules
              THEN [users EXCEPT !.added = @ \cup {thr[t].k}] ELSE users
  /\ Goto(t, "PostReceive")
  /\ UNCHANGED <<main, event, network, stop, messages, modules, history>>

\* A connection that is being closed is recycled once more and gets no receive;
\* a refused receive is the end of the connection.
PostReceive(t) ==
  /\ At(t, "PostReceive")
  /\ LET k == thr[t].k
     IN \/ /\ conn[k].flag > 0
           /\ conn' = [conn EXCEPT ![k].flag = 2]
           /\ Return(t)
        \/ /\ conn[k].flag = 0
           /\ conn' = [conn EXCEPT ![k].op = "recv", ![k].pend = @ \cup {"recv"}]
           /\ Return(t)
        \/ /\ conn[k].flag = 0
           /\ conn' = [conn EXCEPT ![k].op = "recv"]
           /\ Goto(t, "ReCycle")
  /\ UNCHANGED <<main, event, listen, nextKey, listed, stop, messages, modules,
                 users, history>>

\* A closed listening socket, or a refused AcceptEx, ends the accept's slot.
PostAcceptEx(t) ==
  /\ At(t, "PostAcceptEx")
  /\ ListFree
  /\ \/ /\ listen = "open"
        /\ nextKey <= MaxKeys
        /\ nextKey' = nextKey + 1
        /\ listed' = listed \cup {nextKey}
        /\ conn' = [conn EXCEPT ![nextKey] = Accepting]
     \/ UNCHANGED <<nextKey, listed, conn>>
  /\ Return(t)
  /\ UNCHANGED <<main, event, listen, stop, messages, modules, users, history>>

\* ReCycleSocketRsc, with DeleteUser
ReCycle(t) ==
  /\ At(t, "ReCycle")
  /\ LET k == thr[t].k
     IN /\ conn' = [conn EXCEPT ![k].flag = IF @ = 2 THEN 2 ELSE @ + 1]
        /\ users' = IF conn[k].flag = 0 /\ "server" \in modules
                    THEN [users EXCEPT !.deleted = @ \cup {k}] ELSE users
  /\ Goto(t, "CheckFlag")
  /\ UNCHANGED <<main, event, listen, nextKey, listed, stop, messages, modules, history>>

CheckFlag(t) ==
  /\ At(t, "CheckFlag")
  /\ IF conn[thr[t].k].flag = 1 THEN Goto(t, "Erase") ELSE Return(t)
  /\ UNCHANGED <<main, event, network, stop, messages, modules, users, history>>

\* Mutant: the list is changed without its lock.
Erase_Unlocked(t) ==
  /\ At(t, "Erase")
  /\ listed' = listed \ {thr[t].k}
  /\ Goto(t, "DisconnectEx")
  /\ UNCHANGED <<main, event, listen, nextKey, conn, stop, messages, modules,
                 users, history>>

Erase(t) ==
  /\ At(t, "Erase")
  /\ ListFree
  /\ listed' = listed \ {thr[t].k}
  /\ Goto(t, "DisconnectEx")
  /\ UNCHANGED <<main, event, listen, nextKey, conn, stop, messages, modules,
                 users, history>>

\* A refused disconnect lowers the count at once.
DisconnectEx(t) ==
  /\ At(t, "DisconnectEx")
  /\ \/ /\ conn' = [conn EXCEPT ![thr[t].k].pend = @ \cup {"disc"}]
        /\ UNCHANGED <<iExitUserCount, others>>
     \/ /\ iExitUserCount' = iExitUserCount - 1
        /\ others' = others + 1
        /\ UNCHANGED conn
  /\ Return(t)
  /\ UNCHANGED <<main, event, listen, nextKey, listed, todo, nulls, messages,
                 modules, users, passed, timedOut, eventLost, busy>>

-----------------------------------------------------------------------------
\* MessageHandleThread with the controller's handlers

Take(h) ==
  /\ handler[h] = "idle"
  /\ \/ /\ m_bStart
        /\ queue > 0
        /\ queue' = queue - 1
        /\ handler' = [handler EXCEPT ![h] = "user"]
     \/ /\ ~m_bStart
        /\ handler' = [handler EXCEPT ![h] = "exited"]
        /\ UNCHANGED queue
  /\ UNCHANGED <<main, thr, event, network, stop, m_bStart, data, modules, users, history>>

\* A use of m_pUserMng: both handlers' lookup, and what follows it.
UseUserMng(h) ==
  /\ handler[h] = "user"
  /\ IF "controller" \in modules
     THEN /\ \E pc \in {"send", "idle"} : handler' = [handler EXCEPT ![h] = pc]
          /\ UNCHANGED main
     ELSE Crash /\ UNCHANGED handler
  /\ UNCHANGED <<thr, event, network, stop, queue, m_bStart, data, modules, users, history>>

\* HandleLoginRq's answer through m_pTcpSrv
UseTcpSrv(h) ==
  /\ handler[h] = "send"
  /\ IF "controller" \in modules
     THEN handler' = [handler EXCEPT ![h] = "idle"] /\ UNCHANGED main
     ELSE Crash /\ UNCHANGED handler
  /\ UNCHANGED <<thr, event, network, stop, queue, m_bStart, data, modules, users, history>>

-----------------------------------------------------------------------------
Stopping ==
  \/ JoinHeart \/ CloseListen \/ LockList \/ (\E k \in Keys : Visit(k)) \/ UnlockList
  \/ PostNulls \/ JoinWorkers \/ ClearController \/ ClearServer
  \/ StopMessages \/ JoinHandlers

Beat == CreateEvent \/ EndHeart \/ \E k \in Keys : DropUser(k)

Dispatch(w) ==
  \E k \in Keys :
    \/ HandAccept(w, k) \/ HandAcceptError(w, k)
    \/ HandReceiveData(w, k) \/ HandReceiveEnd(w, k)
    \/ \E kind \in {"disc", "stop"} : HandDisconnect(w, k, kind)

Step(t) ==
  \/ AddUser(t) \/ PostReceive(t) \/ PostAcceptEx(t)
  \/ ReCycle(t) \/ CheckFlag(t) \/ Erase(t) \/ DisconnectEx(t)

Handle(h) == Take(h) \/ UseUserMng(h) \/ UseTcpSrv(h)

Alive == main # "crashed"

Next ==
  /\ Alive
  /\ \/ StartServer \/ StopServer \/ Stopping
     \/ Beat
     \/ \E w \in Workers : Dispatch(w) \/ EndWorker(w)
     \/ \E t \in Threads : Step(t)
     \/ \E h \in Handlers : Handle(h)

Spec == Init /\ [][Next]_vars

\* Every thread runs and gets the locks it waits for; nobody need type a
\* command, no client need do anything and no user need be silent.
FairSpec ==
  /\ Spec
  /\ WF_vars(Alive /\ Stopping)
  /\ WF_vars(Alive /\ CreateEvent) /\ WF_vars(Alive /\ EndHeart)
  /\ \A w \in Workers : WF_vars(Alive /\ EndWorker(w))
  /\ \A t \in Threads : SF_vars(Alive /\ Step(t))
  /\ \A h \in Handlers : WF_vars(Alive /\ Handle(h))

-----------------------------------------------------------------------------
Consoles == {"off", "running", "joinHeart", "closeListen", "lock", "loop", "wait",
             "joinWorkers", "clearController", "clearServer", "stopMessages",
             "joinHandlers", "done", "crashed"}
Steps == {"none", "create", "idle", "exited", "AddUser", "PostReceive",
          "PostAcceptEx", "ReCycle", "CheckFlag", "Erase", "DisconnectEx"}

\* Every variable has its type; a thread inside a call has a key.
TypeOK ==
  /\ main \in Consoles
  /\ thr \in [Threads -> [pc: Steps, k: 0..MaxKeys, next: {"idle", "PostAcceptEx"}]]
  /\ \A t \in Threads :
       thr[t].pc \in {"none", "create", "idle", "exited", "PostAcceptEx"} \/ thr[t].k \in Keys
  /\ event \in {"none", "clear", "set"}
  /\ handler \in [Handlers -> {"none", "idle", "user", "send", "asleep", "exited"}]
  /\ listen \in {"none", "open", "closed"}
  /\ nextKey \in 1..(MaxKeys + 1)
  /\ listed \subseteq Keys
  /\ conn \in [Keys -> Context]
  /\ todo \subseteq listed
  /\ iExitUserCount \in Int
  /\ nulls \in Nat
  /\ queue \in Nat
  /\ m_bStart \in BOOLEAN
  /\ modules \subseteq {"server", "controller"}
  /\ users \in [added: SUBSET Keys, deleted: SUBSET Keys]
  /\ data \in 0..MaxData
  /\ passed \subseteq Keys
  /\ others \in Nat
  /\ timedOut \in BOOLEAN
  /\ eventLost \in BOOLEAN
  /\ busy \in BOOLEAN

InCall(t) == thr[t].pc \notin {"none", "exited"}

\* No completion-port thread and no heartbeat is left when the pointers they
\* read are cleared, so every callback finds its module: the order in which
\* MainServer::StopServer takes the program apart is the right one for them.
ModulesOutliveThreads ==
  \A t \in Threads : InCall(t) => modules = {"server", "controller"}

\* When the workers have been joined the application has been told of the end
\* of every user it was told of, but those whose connection was still being
\* accepted when StopServer's loop passed it: these are never closed.
UsersTold ==
  main \in {"clearController", "clearServer", "stopMessages", "joinHandlers", "done"}
    => users.added \subseteq users.deleted \cup passed

\* Unless the wait timed out, or disconnects other than StopServer's ended
\* while it counted, at most ExitLimit of its own are outstanding when it
\* tells the workers to end.
Drained ==
  main = "joinWorkers" /\ ~timedOut /\ others = 0
    => Cardinality({k \in Keys : "stop" \in conn[k].pend}) <= ExitLimit

\* A server that was started, and whose messages had been handled when the
\* controller's pointers were cleared, does not crash on its way down.
QuietStop == main = "crashed" => busy \/ listen = "none"

\* Stopping comes to an end, unless the heartbeat's event was set before it
\* was created, a message thread slept through notify_all, or it crashed.
StopReturns ==
  main = "joinHeart" ~>
    \/ main \in {"done", "crashed"}
    \/ eventLost
    \/ \E h \in Handlers : handler[h] = "asleep"
=============================================================================
