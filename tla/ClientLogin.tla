----------------------------- MODULE ClientLogin -----------------------------
(***************************************************************************)
(* The client's MainModel on top of ServerConnect: a connection that comes *)
(* up is logged in, the reply puts its server into m_setSrvUser, and the   *)
(* connection's end takes it out.  The connection's news reach MainModel   *)
(* as Qt signals, in order; the reply comes through the message threads,   *)
(* which nothing orders against the signals.                               *)
(***************************************************************************)
EXTENDS ServerConnect

VARIABLES
  m_setSrvUser, \* servers logged in to
  asked,        \* connections with a login request the server has not answered
  replies,      \* connections whose reply is in the message queue
  \* History, read by properties only.
  logged,       \* connections whose reply was handled
  late          \* a reply was handled after the end of its connection

loginVars == <<m_setSrvUser, asked, replies, logged, late>>
allVars   == <<vars, loginVars>>
connections == <<m_mapSrvInfo, m_lckSrvInfo, todo, mapConnectList, ctx, thr, history>>

LoginInit ==
  /\ Init
  /\ m_setSrvUser = {}
  /\ asked = {}
  /\ replies = {}
  /\ logged = {}
  /\ late = FALSE

\* ServerConnect::Send and IOCPBase::Send: only a known server with a listed
\* connection that is not being closed gets the message.
SentTo(k) ==
  {c \in Contexts : /\ m_mapSrvInfo[k].known
                    /\ mapConnectList[k] = c
                    /\ ctx[c].flag # 1
                    /\ ctx[c].sock = "conn"}

\* Mutant: the connection is not logged in.
SlotTcpConnectNotify_Logs ==
  /\ signals # <<>>
  /\ Head(signals).kind \in {"up", "failed"}
  /\ signals' = Tail(signals)
  /\ UNCHANGED <<connections, loginVars>>

\* slotTcpConnectNotify, HandleTcpConnectNotify and LoginTcpServer
SlotTcpConnectNotify ==
  /\ signals # <<>>
  /\ Head(signals).kind \in {"up", "failed"}
  /\ asked' = IF Head(signals).kind = "up"
              THEN asked \cup SentTo(Head(signals).key) ELSE asked
  /\ signals' = Tail(signals)
  /\ UNCHANGED <<connections, m_setSrvUser, replies, logged, late>>

\* Mutant: the server stays in the set.
SlotTcpDisconnectNotify_Kept ==
  /\ signals # <<>>
  /\ Head(signals).kind = "down"
  /\ signals' = Tail(signals)
  /\ UNCHANGED <<connections, loginVars>>

SlotTcpDisconnectNotify ==
  /\ signals # <<>>
  /\ Head(signals).kind = "down"
  /\ m_setSrvUser' = m_setSrvUser \ {Head(signals).key}
  /\ signals' = Tail(signals)
  /\ UNCHANGED <<connections, asked, replies, logged, late>>

\* The server's reply is received and put into the message queue.
Reply(c) ==
  /\ c \in asked
  /\ "recv" \in ctx[c].pend
  /\ asked' = asked \ {c}
  /\ replies' = replies \cup {c}
  /\ UNCHANGED <<vars, m_setSrvUser, logged, late>>

\* The end of c was reported to MainModel, or will be.
EndReported(c) == ctx[c].flag > 0
EndPending(c) ==
  \/ \E t \in Threads : thr[t].c = c /\ At(t, "EmitDown")
  \/ \E i \in DOMAIN signals : /\ signals[i].kind = "down"
                               /\ signals[i].key = ctx[c].key

\* OnLoginRs, on a message thread.
OnLoginRs(c) ==
  /\ c \in replies
  /\ m_setSrvUser' = m_setSrvUser \cup {ctx[c].key}
  /\ replies' = replies \ {c}
  /\ logged' = logged \cup {c}
  /\ late' = (late \/ (EndReported(c) /\ ~EndPending(c)))
  /\ UNCHANGED <<vars, asked>>

LoginNext ==
  \/ Next /\ UNCHANGED loginVars
  \/ SlotTcpConnectNotify \/ SlotTcpDisconnectNotify
  \/ \E c \in Contexts : Reply(c) \/ OnLoginRs(c)

LoginSpec == LoginInit /\ [][LoginNext]_allVars

\* Threads run, the daemon gives its lock back, the event loop of MainModel's
\* thread delivers signals, and the server answers a login.
LoginFairSpec ==
  /\ LoginSpec
  /\ \A t \in Threads : SF_allVars(Step(t) /\ UNCHANGED loginVars)
  /\ WF_allVars(SlotTcpConnectNotify)
  /\ WF_allVars(SlotTcpDisconnectNotify)
  /\ \A c \in Contexts : WF_allVars(Reply(c)) /\ WF_allVars(OnLoginRs(c))

-----------------------------------------------------------------------------
\* A server in m_setSrvUser has a live connection, or its removal is on the
\* way; until a reply has been handled after the end of its connection, which
\* leaves the server in the set for good.
LoggedInConnected ==
  ~late => \A k \in m_setSrvUser :
    \E c \in logged : ctx[c].key = k /\ (EndReported(c) => EndPending(c))

\* A connection that comes up is logged in, unless it ends, the application
\* disconnects the server, or the end of an earlier connection has taken it
\* off the list, where Send looks for it.
LoginReached ==
  \A c \in Contexts, k \in Keys :
    (ctx[c].key = k /\ ctx[c].sock = "conn" /\ ctx[c].flag = 0) ~>
      \/ c \in logged
      \/ ctx[c].flag > 0
      \/ c \in unlisted
      \/ ~m_mapSrvInfo[k].known
=============================================================================
