----------------------------- MODULE ClientStop -----------------------------
(***************************************************************************)
(* The client goes down: ServerConnect::Uninitialize on the main thread    *)
(* signals and joins the daemon, and IOCPClient::StopClient takes the      *)
(* connection list apart and joins the workers, while these, and the       *)
(* controller's thread, are still at work.                                 *)
(*                                                                         *)
(* A step of ServerConnect happens as there, unless the thread has exited, *)
(* or needs the list while StopClient's loop holds lckConnectList.         *)
(***************************************************************************)
EXTENDS ServerConnect, FiniteSets

\* UninitIOCP posts one null for each of the threads InitIOCP has made.
ASSUME WorkersFinite == IsFiniteSet(Workers)

VARIABLES
  main,     \* the thread that calls Uninitialize
  event,    \* m_hDeamenConnect
  left,     \* keys the loop of StopClient has to visit
  exited,   \* threads that are no more
  nulls,    \* null completions posted and not taken
  eventLost \* history: the daemon was signalled before it made its event

stopVars == <<main, event, left, exited, nulls, eventLost>>
clientVars == <<vars, stopVars>>

StopInit ==
  /\ Init
  /\ main = "running"
  /\ event = "none"
  /\ left = {}
  /\ exited = {}
  /\ nulls = 0
  /\ eventLost = FALSE

-----------------------------------------------------------------------------
\* What a step of the running client needs.

\* find, insert and erase wait for the list.
ListSteps == {"Lookup", "Connect", "ConnectFailed", "EraseFailed", "Erase"}

Allowed ==
  /\ \A t \in Threads :
       thr[t] # thr'[t] =>
         /\ t \notin exited
         /\ thr[t].pc \in ListSteps => main # "loop"
  \* A daemon that is signalled scans no more.
  /\ m_lckSrvInfo # m_lckSrvInfo' /\ m_lckSrvInfo = NoCtx => event = "clear"
  \* Once a worker has taken a null, nothing but nulls is left in the port.
  /\ (\E c \in Contexts : ~(ctx[c].pend \subseteq ctx'[c].pend)) => Workers \cap exited = {}
  \* No socket can be bound to a closed port.
  /\ main = "done" => \A c \in Contexts : ctx[c] = Unused => ctx'[c] = Unused

Running == Next /\ Allowed /\ UNCHANGED stopVars

-----------------------------------------------------------------------------
\* DeamonConnectCallback's event

CreateEvent ==
  /\ event = "none"
  /\ event' = "clear"
  /\ UNCHANGED <<vars, main, left, exited, nulls, eventLost>>

EndDaemon ==
  /\ At(Daemon, "idle") /\ m_lckSrvInfo = NoCtx
  /\ event = "set"
  /\ event' = "clear"
  /\ exited' = exited \cup {Daemon}
  /\ UNCHANGED <<vars, main, left, nulls, eventLost>>

-----------------------------------------------------------------------------
\* ServerConnect::Uninitialize

Uninitialize ==
  /\ main = "running"
  /\ main' = "joinDaemon"
  /\ event' = IF event = "none" THEN "none" ELSE "set"
  /\ eventLost' = (event = "none")
  /\ UNCHANGED <<vars, left, exited, nulls>>

JoinDaemon ==
  /\ main = "joinDaemon"
  /\ Daemon \in exited
  /\ main' = "lock"
  /\ UNCHANGED <<vars, event, left, exited, nulls, eventLost>>

-----------------------------------------------------------------------------
\* IOCPClient::StopClient

LockList ==
  /\ main = "lock"
  /\ left' = {k \in Keys : mapConnectList[k] # NoCtx}
  /\ main' = "loop"
  /\ UNCHANGED <<vars, event, exited, nulls, eventLost>>

\* ReCycleSocketRsc with the whole of DeleteUser, for the context of key k.
StopReCycle(k, sock, pend) ==
  LET c == mapConnectList[k]
  IN /\ ctx' = [ctx EXCEPT ![c].flag = IF @ = 2 THEN 2 ELSE @ + 1,
                           ![c].sock = sock, ![c].pend = @ \cup pend]
     /\ IF ctx[c].flag = 0
        THEN /\ LockFree
             /\ Emit("down", k)
             /\ m_mapSrvInfo' = Ended(k)
        ELSE UNCHANGED <<signals, m_mapSrvInfo>>

\* A connection in the making is cancelled and stays listed.
VisitConnecting(k) ==
  /\ main = "loop" /\ k \in left
  /\ ctx[mapConnectList[k]].sock # "closed"
  /\ ctx[mapConnectList[k]].op = "connect"
  /\ left' = left \ {k}
  /\ UNCHANGED <<vars, main, event, exited, nulls, eventLost>>

\* Any other is recycled, disconnected and taken off the list.  A context
\* without a socket is neither: the loop does not get past it.
VisitConnected(k) ==
  /\ main = "loop" /\ k \in left
  /\ ctx[mapConnectList[k]].sock # "closed"
  /\ ctx[mapConnectList[k]].op = "recv"
  /\ \/ ctx[mapConnectList[k]].sock = "conn" /\ StopReCycle(k, "down", {"disc"})
     \/ StopReCycle(k, "closed", {})
  /\ mapConnectList' = [mapConnectList EXCEPT ![k] = NoCtx]
  /\ left' = left \ {k}
  /\ UNCHANGED <<m_lckSrvInfo, todo, thr, history, main, event, exited, nulls, eventLost>>

\* The list is unlocked; the wait for outstanding disconnects, which no
\* client with five servers or fewer enters, is over at some moment; and
\* UninitIOCP posts its nulls.
PostNulls ==
  /\ main = "loop"
  /\ left = {}
  /\ main' = "joinWorkers"
  /\ nulls' = Cardinality(Workers)
  /\ UNCHANGED <<vars, event, left, exited, eventLost>>

EndWorker(w) ==
  /\ w \in Workers \ exited
  /\ At(w, "idle")
  /\ nulls > 0
  /\ nulls' = nulls - 1
  /\ exited' = exited \cup {w}
  /\ UNCHANGED <<vars, main, event, left, eventLost>>

JoinWorkers ==
  /\ main = "joinWorkers"
  /\ Workers \subseteq exited
  /\ main' = "done"
  /\ UNCHANGED <<vars, event, left, exited, nulls, eventLost>>

-----------------------------------------------------------------------------
StopClient ==
  \/ LockList \/ (\E k \in Keys : VisitConnecting(k) \/ VisitConnected(k))
  \/ PostNulls \/ JoinWorkers

StopNext ==
  \/ Running
  \/ CreateEvent \/ EndDaemon
  \/ Uninitialize \/ JoinDaemon \/ StopClient
  \/ \E w \in Workers : EndWorker(w)

StopSpec == StopInit /\ [][StopNext]_clientVars

StopFairSpec ==
  /\ StopSpec
  /\ WF_clientVars(CreateEvent) /\ WF_clientVars(EndDaemon)
  /\ WF_clientVars(JoinDaemon) /\ WF_clientVars(StopClient)
  /\ \A w \in Workers : WF_clientVars(EndWorker(w))
  /\ \A t \in Threads : SF_clientVars(Step(t) /\ Allowed /\ UNCHANGED stopVars)
  /\ WF_clientVars(EndScan /\ Allowed /\ UNCHANGED stopVars)
  /\ \A k \in Keys : WF_clientVars(ScanEntry(k) /\ Allowed /\ UNCHANGED stopVars)

-----------------------------------------------------------------------------
\* The variables of the shutdown have their types.
StopTypeOK ==
  /\ TypeOK
  /\ main \in {"running", "joinDaemon", "lock", "loop", "joinWorkers", "done"}
  /\ event \in {"none", "clear", "set"}
  /\ left \subseteq {k \in Keys : mapConnectList[k] # NoCtx}
  /\ exited \subseteq Threads \ {App}
  /\ nulls \in Nat
  /\ eventLost \in BOOLEAN

\* A client that goes down gets to its end: StopClient's loop meets no context
\* without a socket, on which it would turn for ever with the list locked, and
\* every thread comes out of its call; unless the daemon was signalled before
\* it had made its event.
StopEnds == main = "joinDaemon" ~> (main = "done" \/ eventLost)
=============================================================================
