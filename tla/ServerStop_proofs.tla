-------------------------- MODULE ServerStop_proofs --------------------------
(***************************************************************************)
(* Proofs about ServerStop, for every number of workers, message threads,  *)
(* keys and accepts: the types, that no thread which calls back into the   *)
(* modules outlives their pointers, that the application is told of the    *)
(* end of every user it was told of, when a server crashes on its way      *)
(* down, and what StopServer's wait is worth.                              *)
(***************************************************************************)
EXTENDS ServerStop, FiniteSetTheorems, TLAPS

Cleared == {"clearController", "clearServer", "stopMessages", "joinHandlers", "done"}
After   == {"wait", "joinWorkers"} \cup Cleared
Before  == {"running", "joinHeart", "closeListen", "lock"}
Calls   == {"AddUser", "PostReceive", "ReCycle", "CheckFlag", "Erase", "DisconnectEx"}

\* What the console's position says of the rest.
Phases ==
  /\ main = "off" => /\ thr = [t \in Threads |-> Nothing]
                     /\ users = [added |-> {}, deleted |-> {}]
                     /\ conn = [k \in Keys |-> NoContext]
                     /\ nextKey = 1
  /\ main \in Before \cup {"loop", "wait", "joinWorkers"} => modules = {"server", "controller"}
  /\ main \in {"closeListen", "lock", "loop"} \cup After => At(Heart, "exited")
  /\ main \in Cleared => \A w \in Workers : At(w, "exited")
  /\ main \in {"lock", "loop"} \cup After => listen # "open"
  /\ main \notin {"loop", "crashed"} => todo = {}

\* Thread t is inside a call for the connection of key k.
Holds(t, k) == thr[t].pc \in Calls /\ thr[t].k = k

Accepted == [op |-> "accept", flag |-> 0, pend |-> {}]

\* A key that was not handed out is untouched; one whose accept is pending is
\* so but for that; one that is being accepted is in one worker's hands.
Fresh(k) ==
  /\ k >= nextKey => /\ conn[k] = NoContext
                     /\ k \notin users.added
                     /\ \A t \in Threads : ~Holds(t, k)
  /\ "accept" \in conn[k].pend => /\ conn[k] = Accepting
                                  /\ k \notin users.added
                                  /\ \A t \in Threads : ~Holds(t, k)
  /\ \A t \in Threads : Holds(t, k) /\ At(t, "AddUser") =>
       /\ conn[k] = Accepted
       /\ k \notin users.added
       /\ \A u \in Threads \ {t} : ~Holds(u, k)
  /\ \A t \in Threads : Holds(t, k) /\ thr[t].pc \in {"CheckFlag", "Erase", "DisconnectEx"}
       => conn[k].flag > 0

\* The loop of StopServer has met, or will meet, key k.
Covered(k) ==
  /\ main \in Before => k \in listed
  /\ main = "loop" => k \in todo \cup passed
  /\ main \in After => k \in passed

\* A connection that may still end with its user not told of it.
Watched(k) ==
  \/ k \in users.added /\ conn[k].flag = 0
  \/ "accept" \in conn[k].pend
  \/ \E t \in Threads : Holds(t, k) /\ At(t, "AddUser")

EndKnown(k) ==
  /\ k \in users.added => conn[k].flag = 0 \/ k \in users.deleted
  /\ Watched(k) => Covered(k)

KeysKnown == \A k \in Keys : Fresh(k) /\ EndKnown(k)

IInv == TypeOK /\ Phases /\ ModulesOutliveThreads /\ KeysKnown

-----------------------------------------------------------------------------
LEMMA InitIInv == Init => IInv
<1> SUFFICES ASSUME Init PROVE IInv
  OBVIOUS
<1> USE DEF Init
<1>1. TypeOK
  <2>1. MaxKeys \in Nat /\ MaxData \in Nat
    BY StopAssumption
  <2>2. conn \in [Keys -> Context]
    BY DEF NoContext, Context
  <2>3. thr \in [Threads -> [pc: Steps, k: 0..MaxKeys, next: {"idle", "PostAcceptEx"}]]
    BY <2>1 DEF Nothing, Steps
  <2>4. users \in [added: SUBSET Keys, deleted: SUBSET Keys]
    OBVIOUS
  <2>5. \A t \in Threads : thr[t].pc = "none"
    BY DEF Nothing
  <2>6. handler \in [Handlers -> {"none", "idle", "user", "send", "asleep", "exited"}]
    OBVIOUS
  <2>7. nextKey \in 1..(MaxKeys + 1) /\ data \in 0..MaxData
    BY <2>1
  <2>8. main \in Consoles /\ main = "off"
    BY DEF Consoles
  <2>9. event \in {"none", "clear", "set"} /\ listen \in {"none", "open", "closed"}
    OBVIOUS
  <2>11. listed \subseteq Keys /\ todo \subseteq listed /\ passed \subseteq Keys
    OBVIOUS
  <2>12. iExitUserCount \in Int /\ nulls \in Nat /\ queue \in Nat /\ others \in Nat
    OBVIOUS
  <2>13. m_bStart \in BOOLEAN /\ modules \subseteq {"server", "controller"}
    OBVIOUS
  <2>10. timedOut \in BOOLEAN /\ eventLost \in BOOLEAN /\ busy \in BOOLEAN
    OBVIOUS
  <2> HIDE DEF Init
  <2> QED
    BY <2>2, <2>3, <2>4, <2>5, <2>6, <2>7, <2>8, <2>9, <2>10,
       <2>11, <2>12, <2>13 DEF TypeOK
<1>2. Phases
  BY DEF Phases, Before, After, Cleared
<1>3. ModulesOutliveThreads
  BY DEF ModulesOutliveThreads, InCall, Nothing
<1>4. KeysKnown
  BY DEF KeysKnown, Fresh, EndKnown, Watched, Holds, Calls, At, NoContext, Nothing
<1> QED
  BY <1>1, <1>2, <1>3, <1>4 DEF IInv

-----------------------------------------------------------------------------
\* Steps that touch neither a thread nor a connection

\* The keys are as before, and so is what is known of them, if the loop of
\* StopServer still covers what it covered.
LEMMA KeysSame ==
  ASSUME KeysKnown, UNCHANGED <<thr, conn, users, nextKey>>,
         \A k \in Keys : Watched(k) /\ Covered(k) => Covered(k)'
  PROVE  KeysKnown'
<1> SUFFICES ASSUME NEW k \in Keys PROVE Fresh(k)' /\ EndKnown(k)'
  BY DEF KeysKnown
<1>1. Fresh(k) /\ EndKnown(k)
  BY DEF KeysKnown
<1>2. Watched(k)' <=> Watched(k)
  BY DEF Watched, Holds, At
<1>3. Fresh(k)'
  BY <1>1 DEF Fresh, Holds, At
<1> QED
  BY <1>1, <1>2, <1>3 DEF EndKnown

LEMMA StartServerIInv == IInv /\ StartServer => IInv'
<1> SUFFICES ASSUME IInv, StartServer PROVE IInv'
  OBVIOUS
<1> USE DEF IInv
<1>1. /\ main = "off" /\ modules' = {"server", "controller"} /\ m_bStart' = TRUE
      /\ handler' = [h \in Handlers |-> IF handler[h] = "none" THEN "idle" ELSE handler[h]]
      /\ UNCHANGED <<event, todo, iExitUserCount, nulls, queue, users, data, history>>
  BY DEF StartServer, stop
<1>2. handler' \in [Handlers -> {"none", "idle", "user", "send", "asleep", "exited"}]
  BY <1>1 DEF TypeOK
<1>3. /\ thr = [t \in Threads |-> Nothing] /\ users = [added |-> {}, deleted |-> {}]
      /\ conn = [k \in Keys |-> NoContext] /\ nextKey = 1 /\ todo = {}
  BY <1>1 DEF Phases
<1>4. CASE UNCHANGED <<main, thr, network>>
  <2>1. TypeOK'
    BY <1>1, <1>2, <1>4 DEF TypeOK, network, history
  <2>2. Phases'
    BY <1>1, <1>4 DEF Phases, network, Before, After, Cleared, At
  <2>3. ModulesOutliveThreads'
    BY <1>1 DEF ModulesOutliveThreads
  <2>4. KeysKnown'
    BY <1>1, <1>4, KeysSame DEF network, Covered, Before, After, Cleared
  <2> QED
    BY <2>1, <2>2, <2>3, <2>4
<1>5. CASE /\ main' = "running"
           /\ thr' = [t \in Threads |->
                        IF t = Heart THEN [Idle EXCEPT !.pc = "create"] ELSE Idle]
           /\ listen' = "open"
           /\ nextKey' = Accepts + 1
           /\ listed' = 1..Accepts
           /\ conn' = [k \in Keys |-> IF k <= Accepts THEN Accepting ELSE NoContext]
  <2>1. MaxKeys \in Nat /\ Accepts \in 1..MaxKeys
    BY StopAssumption
  <2>2. thr' \in [Threads -> [pc: Steps, k: 0..MaxKeys, next: {"idle", "PostAcceptEx"}]]
    BY <1>5, <2>1 DEF Idle, Steps
  <2>3. \A t \in Threads : thr'[t].pc \in {"idle", "create"}
    BY <1>5 DEF Idle
  <2>4. conn' \in [Keys -> Context]
    BY <1>5 DEF NoContext, Accepting, Context
  <2>5. TypeOK'
    <3>1. nextKey' \in 1..(MaxKeys + 1) /\ listed' \subseteq Keys /\ todo' \subseteq listed'
      BY <1>1, <1>3, <1>5, <2>1 DEF Keys
    <3>2. /\ users' \in [added: SUBSET Keys, deleted: SUBSET Keys] /\ passed' \subseteq Keys
          /\ modules' \subseteq {"server", "controller"} /\ m_bStart' \in BOOLEAN
      BY <1>1 DEF TypeOK, history
    <3>3. main' \in Consoles /\ listen' \in {"none", "open", "closed"}
      BY <1>5 DEF Consoles
    <3> QED
      BY <1>1, <1>2, <2>2, <2>3, <2>4, <3>1, <3>2, <3>3 DEF TypeOK, history
  <2>6. Phases'
    BY <1>1, <1>3, <1>5 DEF Phases, Before, After, Cleared, At
  <2>7. ModulesOutliveThreads'
    BY <1>1 DEF ModulesOutliveThreads
  <2>8. ASSUME NEW k \in Keys PROVE Fresh(k)' /\ EndKnown(k)'
    <3>1. \A t \in Threads : ~Holds(t, k)' /\ ~At(t, "AddUser")'
      BY <2>3 DEF Holds, Calls, At
    <3>2. k \notin users'.added /\ k \in 1..MaxKeys
      BY <1>1, <1>3 DEF Keys
    <3>3. Fresh(k)'
      BY <1>5, <2>1, <3>1, <3>2 DEF Fresh, NoContext
    <3>4. Covered(k)'  \/ ~Watched(k)'
      BY <1>5, <2>1, <3>1, <3>2 DEF Covered, Watched, Before, After, Cleared, NoContext
    <3> QED
      BY <3>2, <3>3, <3>4 DEF EndKnown
  <2> QED
    BY <2>5, <2>6, <2>7, <2>8 DEF KeysKnown
<1> QED
  BY <1>1, <1>4, <1>5 DEF StartServer

\* The console's way down, but for the turns of StopServer's loop.
LEMMA ConsoleIInv ==
  ASSUME IInv,
         \/ StopServer \/ JoinHeart \/ CloseListen \/ LockList \/ UnlockList
         \/ PostNulls \/ JoinWorkers \/ ClearController \/ ClearServer
         \/ StopMessages \/ JoinHandlers
  PROVE  IInv'
<1> USE DEF IInv
<1>1. /\ UNCHANGED <<thr, nextKey, listed, conn, users, data, queue, passed>>
      /\ main' # "off" /\ main' # main
  BY DEF StopServer, JoinHeart, CloseListen, LockList, UnlockList, PostNulls, JoinWorkers,
         ClearController, ClearServer, StopMessages, JoinHandlers, Crash, network, stop,
         messages, history
<1>2. TypeOK'
  <2>1. nulls' \in Nat
    <3>1. Cardinality(Workers) \in Nat
      BY StopAssumption, FS_CardinalityType
    <3> QED
      BY <3>1 DEF TypeOK, StopServer, JoinHeart, CloseListen, LockList, UnlockList, PostNulls,
                  JoinWorkers, ClearController, ClearServer, StopMessages, JoinHandlers, stop
  <2>2. main' \in Consoles /\ event' \in {"none", "clear", "set"}
    BY DEF TypeOK, StopServer, JoinHeart, CloseListen, LockList, UnlockList, PostNulls,
           JoinWorkers, ClearController, ClearServer, StopMessages, JoinHandlers, Consoles, Crash
  <2>3. listen' \in {"none", "open", "closed"} /\ m_bStart' \in BOOLEAN
    BY DEF TypeOK, StopServer, JoinHeart, CloseListen, LockList, UnlockList, PostNulls,
           JoinWorkers, ClearController, ClearServer, StopMessages, JoinHandlers, network, messages
  <2>4. todo' \subseteq listed
    BY DEF TypeOK, StopServer, JoinHeart, CloseListen, LockList, UnlockList, PostNulls,
           JoinWorkers, ClearController, ClearServer, StopMessages, JoinHandlers, stop
  <2>5. iExitUserCount' \in Int
    BY DEF TypeOK, StopServer, JoinHeart, CloseListen, LockList, UnlockList, PostNulls,
           JoinWorkers, ClearController, ClearServer, StopMessages, JoinHandlers, stop
  <2>6. modules' \subseteq {"server", "controller"}
    BY DEF TypeOK, StopServer, JoinHeart, CloseListen, LockList, UnlockList, PostNulls,
           JoinWorkers, ClearController, ClearServer, StopMessages, JoinHandlers
  <2>7. others' \in Nat
    BY DEF TypeOK, StopServer, JoinHeart, CloseListen, LockList, UnlockList, PostNulls,
           JoinWorkers, ClearController, ClearServer, StopMessages, JoinHandlers, history
  <2>11. eventLost' \in BOOLEAN
    <3>1. eventLost' = eventLost \/ StopServer
      BY DEF JoinHeart, CloseListen, LockList, UnlockList, PostNulls,
             JoinWorkers, ClearController, ClearServer, StopMessages, JoinHandlers, history
    <3>2. CASE StopServer
      BY <3>2 DEF StopServer, TypeOK
    <3> QED
      BY <3>1, <3>2 DEF TypeOK
  <2>8. timedOut' \in BOOLEAN
    <3>1. timedOut' = timedOut \/ PostNulls
      BY DEF StopServer, JoinHeart, CloseListen, LockList, UnlockList,
             JoinWorkers, ClearController, ClearServer, StopMessages, JoinHandlers, history
    <3>2. CASE PostNulls
      BY <3>2 DEF PostNulls
    <3> QED
      BY <3>1, <3>2 DEF TypeOK
  <2>9. busy' \in BOOLEAN
    <3>1. busy' = busy \/ ClearController
      BY DEF StopServer, JoinHeart, CloseListen, LockList, UnlockList,
             PostNulls, JoinWorkers, ClearServer, StopMessages, JoinHandlers, history
    <3>2. CASE ClearController
      BY <3>2 DEF ClearController
    <3> QED
      BY <3>1, <3>2 DEF TypeOK
  <2>10. handler' \in [Handlers -> {"none", "idle", "user", "send", "asleep", "exited"}]
    BY DEF TypeOK, StopServer, JoinHeart, CloseListen, LockList, UnlockList, PostNulls,
           JoinWorkers, ClearController, ClearServer, StopMessages, JoinHandlers, messages
  <2> QED
    BY <1>1, <2>1, <2>2, <2>3, <2>4, <2>5, <2>6, <2>7, <2>8, <2>9, <2>10, <2>11 DEF TypeOK
<1>3. Phases'
  BY <1>1 DEF Phases, At, Before, After, Cleared, StopServer, JoinHeart, CloseListen, LockList,
         UnlockList, PostNulls, JoinWorkers, ClearController, ClearServer, StopMessages,
         JoinHandlers, Crash, network, stop
<1>4. ModulesOutliveThreads'
  <2>1. CASE modules' = modules
    BY <1>1, <2>1 DEF ModulesOutliveThreads, InCall
  <2>2. CASE main \in Cleared
    BY <1>1, <2>2 DEF ModulesOutliveThreads, InCall, Phases, Threads, At, After
  <2> QED
    BY <2>1, <2>2 DEF StopServer, JoinHeart, CloseListen, LockList, UnlockList, PostNulls,
         JoinWorkers, ClearController, ClearServer, StopMessages, JoinHandlers, Cleared
<1>5. KeysKnown'
  <2>1. ASSUME NEW k \in Keys, Watched(k), Covered(k) PROVE Covered(k)'
    <3>1. main # "off"
      BY <2>1 DEF Watched, Phases, Holds, At, NoContext, Nothing
    <3> QED
      BY <1>1, <2>1, <3>1 DEF Covered, Before, After, Cleared, StopServer, JoinHeart,
         CloseListen, LockList, UnlockList, PostNulls, JoinWorkers, ClearController,
         ClearServer, StopMessages, JoinHandlers, Crash
  <2> QED
    BY <1>1, <2>1, KeysSame
<1> QED
  BY <1>2, <1>3, <1>4, <1>5

LEMMA HandleIInv ==
  ASSUME IInv, NEW h \in Handlers, Handle(h)
  PROVE  IInv'
<1> USE DEF IInv
<1>1. /\ UNCHANGED <<thr, event, network, stop, m_bStart, data, modules, users, history>>
      /\ main' = main \/ main' = "crashed"
      /\ main' = "crashed" => main = "crashed" \/ modules # {"server", "controller"}
  BY DEF Handle, Take, UseUserMng, UseTcpSrv, Crash
<1>2. TypeOK'
  <2>1. handler' \in [Handlers -> {"none", "idle", "user", "send", "asleep", "exited"}]
    BY DEF Handle, Take, UseUserMng, UseTcpSrv, TypeOK
  <2>2. queue' \in Nat
    BY DEF Handle, Take, UseUserMng, UseTcpSrv, TypeOK
  <2> QED
    BY <1>1, <2>1, <2>2 DEF TypeOK, network, stop, history, Consoles
<1>3. Phases'
  BY <1>1 DEF Phases, At, Before, After, Cleared, network, stop
<1>4. ModulesOutliveThreads'
  BY <1>1 DEF ModulesOutliveThreads, InCall
<1>5. KeysKnown'
  BY <1>1, KeysSame DEF network, stop, history, Covered, Before, After, Cleared
<1> QED
  BY <1>2, <1>3, <1>4, <1>5

-----------------------------------------------------------------------------
\* Steps of one thread

Threaded == [pc: Steps, k: 0..MaxKeys, next: {"idle", "PostAcceptEx"}]

\* Thread t, which is alive, moves on, for key k if it stays inside a call.
Moves(t, k) ==
  /\ thr' \in [Threads -> Threaded]
  /\ \A u \in Threads \ {t} : thr'[u] = thr[u]
  /\ thr[t].pc \notin {"none", "exited"} /\ thr'[t].pc # "none"
  /\ thr'[t].pc \in Calls => thr'[t].k = k /\ k \in Keys

\* A step that leaves the console and the modules alone leaves what the
\* console's position says.
LEMMA MovesPhases ==
  ASSUME IInv, NEW t \in Threads, NEW k, Moves(t, k),
         UNCHANGED <<main, modules, listen, todo>>
  PROVE  Phases' /\ ModulesOutliveThreads' /\ main # "off"
<1> USE DEF IInv
<1>1. main # "off"
  BY DEF Phases, Moves, Nothing
<1>2. \A u \in Threads : At(u, "exited") => At(u, "exited")'
  BY DEF Moves, At
<1>3. Heart \in Threads /\ Workers \subseteq Threads
  BY DEF Threads
<1>4. Phases'
  BY <1>1, <1>2, <1>3 DEF Phases
<1>5. ModulesOutliveThreads'
  BY DEF ModulesOutliveThreads, InCall, Moves
<1> QED
  BY <1>1, <1>4, <1>5

\* The types of the threads after such a step.
LEMMA MovesTypes ==
  ASSUME TypeOK, NEW t \in Threads, NEW k, Moves(t, k)
  PROVE  \A u \in Threads :
           thr'[u].pc \in {"none", "create", "idle", "exited", "PostAcceptEx"} \/ thr'[u].k \in Keys
<1>1. thr'[t].pc \in Steps
  BY DEF Moves, Threaded
<1> QED
  BY <1>1 DEF Moves, TypeOK, Steps, Calls

\* A thread enters a call.
LEMMA EnterMoves ==
  ASSUME TypeOK, NEW t \in Threads, thr[t].pc \notin {"none", "exited"}, NEW k \in Keys,
         NEW pc \in Calls, NEW next \in {"idle", "PostAcceptEx"}, Enter(t, k, pc, next)
  PROVE  Moves(t, k) /\ thr'[t].pc = pc /\ thr'[t].k = k
<1> DEFINE r == [pc |-> pc, k |-> k, next |-> next]
<1>1. thr' = [thr EXCEPT ![t] = r]
  BY DEF Enter
<1>2. pc \in Steps /\ pc # "none" /\ k \in 0..MaxKeys
  BY DEF Steps, Calls, Keys
<1>3. r \in Threaded /\ r.pc = pc /\ r.k = k
  BY <1>2 DEF Threaded
<1> HIDE DEF r
<1>4. thr \in [Threads -> Threaded]
  BY DEF TypeOK, Threaded
<1>5. thr' \in [Threads -> Threaded] /\ thr'[t] = r /\ \A u \in Threads \ {t} : thr'[u] = thr[u]
  BY <1>1, <1>3, <1>4
<1> QED
  BY <1>2, <1>3, <1>5 DEF Moves

\* A thread goes on to the next step of its call, or comes out of it.
LEMMA GotoMoves ==
  ASSUME TypeOK, NEW t \in Threads, thr[t].pc \notin {"none", "exited"}, NEW k,
         thr[t].k = k, NEW pc \in Calls, k \in Keys, Goto(t, pc)
  PROVE  Moves(t, k) /\ thr'[t].pc = pc /\ thr'[t].k = k
<1>1. thr \in [Threads -> Threaded]
  BY DEF TypeOK, Threaded
<1>2. thr' = [thr EXCEPT ![t] = [thr[t] EXCEPT !.pc = pc]]
  BY DEF Goto
<1>3. [thr[t] EXCEPT !.pc = pc] = [pc |-> pc, k |-> k, next |-> thr[t].next]
  BY <1>1 DEF Threaded
<1>4. Enter(t, k, pc, thr[t].next)
  BY <1>2, <1>3 DEF Enter
<1> QED
  BY <1>1, <1>4, EnterMoves DEF Threaded

LEMMA ReturnMoves ==
  ASSUME TypeOK, NEW t \in Threads, thr[t].pc \notin {"none", "exited"}, NEW k, Return(t)
  PROVE  Moves(t, k) /\ thr'[t].pc \notin Calls
<1> DEFINE r == [Idle EXCEPT !.pc = thr[t].next]
<1>1. thr' = [thr EXCEPT ![t] = r]
  BY DEF Return
<1>2. thr \in [Threads -> Threaded] /\ MaxKeys \in Nat
  BY StopAssumption DEF TypeOK, Threaded
<1>3. r \in Threaded /\ r.pc \in {"idle", "PostAcceptEx"}
  BY <1>2 DEF Threaded, Idle, Steps
<1> HIDE DEF r
<1>4. thr' \in [Threads -> Threaded] /\ thr'[t] = r /\ \A u \in Threads \ {t} : thr'[u] = thr[u]
  BY <1>1, <1>2, <1>3
<1> QED
  BY <1>3, <1>4 DEF Moves, Calls

\* What such a step does not concern stays known.
LEMMA OtherKey ==
  ASSUME IInv, NEW t \in Threads, \A u \in Threads \ {t} : thr'[u] = thr[u],
         NEW k \in Keys, ~Holds(t, k)',
         conn'[k] = conn[k], nextKey' \in Nat, nextKey' >= nextKey,
         k \in users'.added <=> k \in users.added,
         k \in users.deleted => k \in users'.deleted,
         Covered(k) => Covered(k)'
  PROVE  Fresh(k)' /\ EndKnown(k)'
<1>1. Fresh(k) /\ EndKnown(k)
  BY DEF IInv, KeysKnown
<1>2. \A u \in Threads : Holds(u, k)' => u # t /\ Holds(u, k) /\ thr'[u] = thr[u]
  BY DEF Holds
<1>3. k >= nextKey' => k >= nextKey
  BY StopAssumption DEF IInv, TypeOK, Keys
<1>4. Fresh(k)'
  <2>1. k >= nextKey' => /\ conn'[k] = NoContext /\ k \notin users'.added
                         /\ \A u \in Threads : ~Holds(u, k)'
    BY <1>1, <1>2, <1>3 DEF Fresh
  <2>2. "accept" \in conn'[k].pend => /\ conn'[k] = Accepting /\ k \notin users'.added
                                      /\ \A u \in Threads : ~Holds(u, k)'
    BY <1>1, <1>2 DEF Fresh
  <2>3. \A u \in Threads : Holds(u, k)' /\ At(u, "AddUser")' =>
          /\ conn'[k] = Accepted /\ k \notin users'.added
          /\ \A v \in Threads \ {u} : ~Holds(v, k)'
    BY <1>1, <1>2 DEF Fresh, At
  <2>4. \A u \in Threads :
          Holds(u, k)' /\ thr'[u].pc \in {"CheckFlag", "Erase", "DisconnectEx"} => conn'[k].flag > 0
    BY <1>1, <1>2 DEF Fresh
  <2> QED
    BY <2>1, <2>2, <2>3, <2>4 DEF Fresh
<1>5. Watched(k)' => Watched(k)
  BY <1>2 DEF Watched, At
<1> QED
  BY <1>1, <1>4, <1>5 DEF EndKnown

LEMMA BeatIInv ==
  ASSUME IInv, Beat
  PROVE  IInv'
<1> USE DEF IInv
<1>1. Heart \in Threads
  BY DEF Threads
<1>2. /\ event' \in {"none", "clear", "set"}
      /\ UNCHANGED <<main, network, stop, messages, modules, users, history>>
  BY DEF Beat, CreateEvent, EndHeart, DropUser, TypeOK
<1>3. /\ UNCHANGED <<main, modules, listen, todo, conn, nextKey, listed, passed>>
      /\ nextKey' \in Nat /\ nextKey' >= nextKey
  BY <1>2, StopAssumption DEF network, stop, history, TypeOK
<1>4. \A k \in Keys : Covered(k) => Covered(k)'
  BY <1>3 DEF Covered
<1>5. CASE CreateEvent \/ EndHeart
  <2>1. Moves(Heart, 0) /\ thr'[Heart].pc \notin Calls
    BY <1>1, <1>5 DEF CreateEvent, EndHeart, At, Goto, Moves, TypeOK, Steps, Calls, Threaded
  <2>2. TypeOK'
    BY <1>1, <1>2, <2>1, MovesTypes DEF TypeOK, Moves, network, stop, messages, history, Threaded
  <2>3. \A k \in Keys : Fresh(k)' /\ EndKnown(k)'
    BY <1>1, <1>2, <1>3, <1>4, <2>1, OtherKey DEF Moves, Holds
  <2> QED
    BY <1>1, <1>3, <2>1, <2>2, <2>3, MovesPhases DEF KeysKnown
<1>6. ASSUME NEW k0 \in Keys, DropUser(k0) PROVE IInv'
  <2>1. /\ Moves(Heart, k0) /\ thr'[Heart].pc = "ReCycle" /\ thr'[Heart].k = k0
        /\ k0 \in users.added
    BY <1>1, <1>6 DEF DropUser, At, Enter, Moves, TypeOK, Steps, Calls, Threaded, Keys
  <2>2. TypeOK'
    BY <1>1, <1>2, <2>1, MovesTypes DEF TypeOK, Moves, network, stop, messages, history, Threaded
  <2>3. ASSUME NEW k \in Keys, k # k0 PROVE Fresh(k)' /\ EndKnown(k)'
    BY <1>1, <1>2, <1>3, <1>4, <2>1, <2>3, OtherKey DEF Moves, Holds
  <2>4. Fresh(k0)' /\ EndKnown(k0)'
    <3>1. Fresh(k0) /\ EndKnown(k0)
      BY DEF KeysKnown
    <3>2. /\ ~(k0 >= nextKey) /\ "accept" \notin conn[k0].pend
          /\ \A u \in Threads : ~(Holds(u, k0) /\ At(u, "AddUser"))
      BY <2>1, <3>1 DEF Fresh
    <3>3. \A u \in Threads : Holds(u, k0)' /\ thr'[u].pc # "ReCycle" => Holds(u, k0) /\ thr'[u] = thr[u]
      BY <2>1 DEF Moves, Holds
    <3>4. Fresh(k0)'
      BY <1>3, <3>1, <3>2, <3>3 DEF Fresh, At
    <3>5. Watched(k0)' => Watched(k0)
      BY <1>2, <1>3, <3>3 DEF Watched, At
    <3> QED
      BY <1>2, <1>3, <1>4, <3>1, <3>4, <3>5 DEF EndKnown
  <2> QED
    BY <1>1, <1>3, <2>1, <2>2, <2>3, <2>4, MovesPhases DEF KeysKnown
<1> QED
  BY <1>5, <1>6 DEF Beat

\* A completion of key k0 concerns a key that was handed out.
LEMMA DispatchIInv ==
  ASSUME IInv, Alive, NEW w \in Workers, Dispatch(w)
  PROVE  IInv'
<1> USE DEF IInv
<1>1. PICK k0 \in Keys :
        \/ HandAccept(w, k0) \/ HandAcceptError(w, k0)
        \/ HandReceiveData(w, k0) \/ HandReceiveEnd(w, k0)
        \/ \E kind \in {"disc", "stop"} : HandDisconnect(w, k0, kind)
  BY DEF Dispatch
<1>2. w \in Threads /\ Fresh(k0) /\ EndKnown(k0) /\ k0 \in 0..MaxKeys /\ conn[k0] \in Context
  BY DEF Threads, KeysKnown, Keys, TypeOK
<1>3. /\ At(w, "idle")
      /\ UNCHANGED <<main, event, listen, nextKey, todo, nulls, handler, m_bStart, modules,
                     users, passed, timedOut, eventLost, busy>>
      /\ nextKey' \in Nat /\ nextKey' >= nextKey
  BY <1>1, StopAssumption DEF Dispatched, HandAccept, HandAcceptError, HandReceiveData,
     HandReceiveEnd, HandDisconnect, stop, messages, history, TypeOK
<1>4. PICK kind \in {"accept", "recv", "disc", "stop"} :
        /\ kind \in conn[k0].pend
        /\ conn' = [conn EXCEPT ![k0].pend = @ \ {kind}]
        /\ kind = "accept" => HandAccept(w, k0) \/ HandAcceptError(w, k0)
        /\ kind # "accept" => listed' = listed
        /\ kind = "recv" => HandReceiveData(w, k0) \/ HandReceiveEnd(w, k0)
        /\ kind \in {"disc", "stop"} => thr' = thr
  BY <1>1 DEF Dispatched, HandAccept, HandAcceptError, HandReceiveData,
     HandReceiveEnd, HandDisconnect
<1>5. /\ conn'[k0] = [op |-> conn[k0].op, flag |-> conn[k0].flag, pend |-> conn[k0].pend \ {kind}]
      /\ \A k \in Keys : k # k0 => conn'[k] = conn[k]
      /\ conn' \in [Keys -> Context]
  BY <1>2, <1>4 DEF TypeOK, Context
<1>6. /\ Moves(w, k0)
      /\ \/ thr' = thr
         \/ thr'[w].pc \in {"AddUser", "PostReceive", "ReCycle"} /\ thr'[w].k = k0
      /\ thr'[w].pc = "AddUser" => HandAccept(w, k0)
  <2>1. CASE thr' = thr
    <3>1. thr \in [Threads -> Threaded] /\ thr[w].pc = "idle"
      BY <1>3 DEF TypeOK, Threaded, At
    <3> QED
      BY <1>2, <2>1, <3>1 DEF Moves, Calls
  <2>2. thr[w].pc \notin {"none", "exited"}
    BY <1>3 DEF At
  <2>3. CASE HandAccept(w, k0)
    <3>1. Enter(w, k0, "AddUser", "PostAcceptEx")
      BY <2>3 DEF HandAccept
    <3> QED
      BY <1>2, <2>2, <2>3, <3>1, EnterMoves DEF Calls
  <2>4. ASSUME NEW pc \in {"PostReceive", "ReCycle"}, Enter(w, k0, pc, "idle")
        PROVE  Moves(w, k0) /\ thr'[w].pc = pc /\ thr'[w].k = k0
    BY <1>2, <2>2, <2>4, EnterMoves DEF Calls
  <2> QED
    BY <1>1, <2>1, <2>3, <2>4 DEF HandAcceptError, HandDisconnect, HandReceiveData, HandReceiveEnd
<1>7. /\ listed' = listed \/ (listed' = listed \ {k0} /\ main # "loop" /\ HandAcceptError(w, k0))
  BY <1>1 DEF HandAccept, HandAcceptError, HandReceiveData, HandReceiveEnd, HandDisconnect,
     ListFree
<1>8. Phases' /\ ModulesOutliveThreads' /\ main # "off"
  BY <1>2, <1>3, <1>6, MovesPhases
<1>9. TypeOK'
  <2>1. data' \in 0..MaxData /\ queue' \in Nat
    BY <1>1, StopAssumption DEF HandAccept, HandAcceptError, HandReceiveData, HandReceiveEnd,
       HandDisconnect, messages, TypeOK
  <2>2. iExitUserCount' \in Int /\ others' \in Nat
    BY <1>1 DEF HandAccept, HandAcceptError, HandReceiveData, HandReceiveEnd,
       HandDisconnect, stop, history, TypeOK
  <2>3. listed' \subseteq Keys /\ todo' \subseteq listed'
    BY <1>3, <1>7 DEF TypeOK, Phases, Alive
  <2> QED
    BY <1>2, <1>3, <1>5, <1>6, <2>1, <2>2, <2>3, MovesTypes DEF TypeOK, Moves, Threaded
<1>10. ASSUME NEW k \in Keys, k # k0 PROVE Fresh(k)' /\ EndKnown(k)'
  <2>1. Covered(k) => Covered(k)'
    BY <1>3, <1>7, <1>10 DEF Covered
  <2>2. ~Holds(w, k)' /\ \A u \in Threads \ {w} : thr'[u] = thr[u]
    BY <1>6, <1>10 DEF Moves, Holds
  <2> QED
    BY <1>2, <1>3, <1>5, <1>10, <2>1, <2>2, OtherKey
<1>11. ~(k0 >= nextKey)
  BY <1>2, <1>4 DEF Fresh, NoContext
<1>12. \A u \in Threads \ {w} : Holds(u, k0)' <=> Holds(u, k0)
  BY <1>6 DEF Moves, Holds
<1>13. CASE kind = "accept"
  <2>1. /\ conn[k0] = Accepting /\ k0 \notin users.added
        /\ \A u \in Threads : ~Holds(u, k0)
    BY <1>2, <1>4, <1>13 DEF Fresh
  <2>2. conn'[k0] = Accepted
    BY <1>5, <1>13, <2>1 DEF Accepting, Accepted
  <2>3. \A u \in Threads : Holds(u, k0)' => u = w /\ thr'[w].pc = "AddUser" /\ HandAccept(w, k0)
    BY <1>4, <1>6, <1>12, <1>13, <2>1
       DEF HandAccept, HandAcceptError, Enter, Holds, Moves, TypeOK
  <2>4. Fresh(k0)'
    BY <1>3, <1>11, <2>1, <2>2, <2>3 DEF Fresh, Accepted, At
  <2>5. Watched(k0) /\ (Watched(k0)' => HandAccept(w, k0))
    BY <1>3, <1>4, <1>13, <2>1, <2>2, <2>3 DEF Watched, Accepted
  <2>6. HandAccept(w, k0) => listed' = listed
    BY DEF HandAccept
  <2>7. Covered(k0) /\ HandAccept(w, k0) => Covered(k0)'
    BY <1>3, <2>6 DEF Covered
  <2> QED
    BY <1>2, <1>3, <1>10, <2>1, <2>4, <2>5, <2>7, <1>8, <1>9 DEF EndKnown, KeysKnown
<1>14. CASE kind # "accept"
  <2>1. /\ "accept" \notin conn[k0].pend
        /\ \A u \in Threads : ~(Holds(u, k0) /\ At(u, "AddUser"))
    BY <1>2, <1>4, <1>14 DEF Fresh, Accepting, Accepted
  <2>2. /\ "accept" \notin conn'[k0].pend /\ conn'[k0].flag = conn[k0].flag
        /\ conn'[k0].op = conn[k0].op
    BY <1>5, <2>1
  <2>3. thr' = thr \/ thr'[w].pc \in {"PostReceive", "ReCycle"}
    BY <1>1, <1>4, <1>6, <1>14 DEF HandReceiveData, HandReceiveEnd, Enter, TypeOK
  <2>4. \A u \in Threads : Holds(u, k0)' =>
          \/ Holds(u, k0) /\ thr'[u] = thr[u]
          \/ thr'[u].pc \in {"PostReceive", "ReCycle"}
    BY <1>6, <2>3 DEF Moves, Holds
  <2>5. Fresh(k0)'
    BY <1>2, <1>3, <1>11, <2>1, <2>2, <2>4 DEF Fresh, At
  <2>6. Watched(k0)' => Watched(k0)
    BY <1>3, <2>1, <2>2, <2>4 DEF Watched, At
  <2>7. Covered(k0) => Covered(k0)'
    BY <1>3, <1>4, <1>14 DEF Covered
  <2> QED
    BY <1>2, <1>3, <1>8, <1>9, <1>10, <2>2, <2>5, <2>6, <2>7 DEF EndKnown, KeysKnown
<1> QED
  BY <1>13, <1>14

\* What holds of the key of a thread that is inside a call: it was handed out,
\* and its accept is over.
LEMMA CallKey ==
  ASSUME IInv, NEW t \in Threads, thr[t].pc \in Calls
  PROVE  /\ thr[t].k \in Keys /\ Holds(t, thr[t].k)
         /\ thr[t].k < nextKey /\ "accept" \notin conn[thr[t].k].pend
         /\ Fresh(thr[t].k) /\ EndKnown(thr[t].k)
         /\ modules = {"server", "controller"}
         /\ ~At(t, "AddUser") => \A u \in Threads : ~(Holds(u, thr[t].k) /\ At(u, "AddUser"))
<1> USE DEF IInv
<1>1. thr[t].k \in Keys /\ Holds(t, thr[t].k)
  BY DEF TypeOK, Calls, Holds
<1>2. Fresh(thr[t].k) /\ EndKnown(thr[t].k)
  BY <1>1 DEF KeysKnown
<1>3. thr[t].k \in Nat /\ nextKey \in Nat
  BY <1>1, StopAssumption DEF Keys, TypeOK
<1>4. ~(thr[t].k >= nextKey) /\ "accept" \notin conn[thr[t].k].pend
  BY <1>1, <1>2 DEF Fresh
<1>5. ASSUME NEW u \in Threads, Holds(u, thr[t].k), At(u, "AddUser")
      PROVE  At(t, "AddUser")
  BY <1>1, <1>2, <1>5 DEF Fresh
<1>6. modules = {"server", "controller"}
  BY DEF ModulesOutliveThreads, InCall, Calls
<1> QED
  BY <1>1, <1>2, <1>3, <1>4, <1>5, <1>6

\* A step inside a call for key k0 that changes no flag for the worse keeps
\* what is known of the keys.
LEMMA CallKeys ==
  ASSUME IInv, NEW t \in Threads, thr[t].pc \in Calls, ~At(t, "AddUser"),
         NEW k0 \in Keys, thr[t].k = k0, Moves(t, k0), thr'[t].pc # "AddUser",
         UNCHANGED <<main, nextKey, todo, passed>>,
         users'.added = users.added, users.deleted \subseteq users'.deleted,
         \A k \in Keys : k # k0 => conn'[k] = conn[k] /\ (k \in listed => k \in listed'),
         "accept" \notin conn'[k0].pend,
         conn[k0].flag \in Nat, conn'[k0].flag \in Nat, conn'[k0].flag >= conn[k0].flag,
         thr'[t].pc \in {"CheckFlag", "Erase", "DisconnectEx"} => conn'[k0].flag > 0,
         conn[k0].flag = 0 /\ conn'[k0].flag > 0 => k0 \in users'.deleted,
         conn'[k0].flag = 0 => listed' = listed
  PROVE  KeysKnown'
<1>1. /\ Holds(t, k0) /\ k0 < nextKey /\ Fresh(k0) /\ EndKnown(k0)
      /\ \A u \in Threads : ~(Holds(u, k0) /\ At(u, "AddUser"))
  BY CallKey
<1>2. nextKey \in Nat /\ k0 \in Nat
  BY StopAssumption DEF IInv, TypeOK, Keys
<1>3. ASSUME NEW k \in Keys, k # k0 PROVE Fresh(k)' /\ EndKnown(k)'
  <2>1. ~Holds(t, k)' /\ \A u \in Threads \ {t} : thr'[u] = thr[u]
    BY <1>3 DEF Moves, Holds
  <2>2. Covered(k) => Covered(k)'
    BY <1>3 DEF Covered
  <2> QED
    BY <1>2, <1>3, <2>1, <2>2, OtherKey
<1>4. \A u \in Threads \ {t} : Holds(u, k0)' => Holds(u, k0) /\ thr'[u] = thr[u]
  BY DEF Moves, Holds
<1>5. \A u \in Threads : ~(Holds(u, k0)' /\ At(u, "AddUser")')
  BY <1>1, <1>4 DEF At
<1>6. ASSUME NEW u \in Threads, Holds(u, k0)',
             thr'[u].pc \in {"CheckFlag", "Erase", "DisconnectEx"}
      PROVE  conn'[k0].flag > 0
  BY <1>1, <1>4, <1>6 DEF Fresh
<1>7. Fresh(k0)'
  BY <1>1, <1>2, <1>5, <1>6 DEF Fresh
<1>8. k0 \in users'.added => conn'[k0].flag = 0 \/ k0 \in users'.deleted
  BY <1>1 DEF EndKnown
<1>9. Watched(k0)' => Watched(k0) /\ listed' = listed
  BY <1>5 DEF Watched
<1>10. Watched(k0)' => Covered(k0)'
  BY <1>1, <1>9 DEF EndKnown, Covered
<1> QED
  BY <1>3, <1>7, <1>8, <1>10 DEF EndKnown, KeysKnown

LEMMA AddUserIInv ==
  ASSUME IInv, NEW t \in Threads, AddUser(t)
  PROVE  IInv'
<1> USE DEF IInv
<1>1. /\ thr[t].pc = "AddUser" /\ thr[t].pc \in Calls
      /\ UNCHANGED <<main, event, network, stop, messages, modules, history>>
  BY DEF AddUser, At, Calls
<1>2. PICK k0 \in Keys : thr[t].k = k0
  BY <1>1, CallKey
<1>3. /\ Holds(t, k0) /\ k0 < nextKey /\ "accept" \notin conn[k0].pend
      /\ Fresh(k0) /\ EndKnown(k0) /\ modules = {"server", "controller"}
  BY <1>1, <1>2, CallKey
<1>4. users' = [users EXCEPT !.added = @ \cup {k0}]
  BY <1>3, <1>2 DEF AddUser
<1>5. users' = [added |-> users.added \cup {k0}, deleted |-> users.deleted]
  BY <1>4 DEF TypeOK
<1>6. Moves(t, k0) /\ thr'[t].pc = "PostReceive" /\ thr'[t].k = k0
  BY <1>1, <1>2, GotoMoves DEF AddUser, Calls
<1>7. Phases' /\ ModulesOutliveThreads'
  BY <1>1, <1>6, MovesPhases DEF network, stop
<1>8. TypeOK'
  <2>1. users' \in [added: SUBSET Keys, deleted: SUBSET Keys]
    BY <1>3, <1>5 DEF TypeOK
  <2> QED
    BY <1>1, <1>6, <2>1, MovesTypes DEF TypeOK, Moves, network, stop, messages, history, Threaded
<1>9. \A k \in Keys : Covered(k) => Covered(k)'
  BY <1>1 DEF Covered, network, stop, history
<1>10. nextKey \in Nat /\ k0 \in Nat /\ nextKey' = nextKey /\ conn' = conn
  BY <1>1, <1>3, StopAssumption DEF TypeOK, Keys, network
<1>11. ASSUME NEW k \in Keys, k # k0 PROVE Fresh(k)' /\ EndKnown(k)'
  <2>1. ~Holds(t, k)' /\ \A u \in Threads \ {t} : thr'[u] = thr[u]
    BY <1>6, <1>11 DEF Moves, Holds
  <2> QED
    BY <1>5, <1>9, <1>10, <1>11, <2>1, OtherKey
<1>12. Fresh(k0)' /\ EndKnown(k0)'
  <2>1. /\ conn[k0] = Accepted /\ \A u \in Threads \ {t} : ~Holds(u, k0)
    BY <1>1, <1>3 DEF Fresh, At
  <2>2. \A u \in Threads : Holds(u, k0)' => thr'[u].pc = "PostReceive"
    BY <1>6, <2>1 DEF Moves, Holds
  <2>3. Fresh(k0)'
    BY <1>3, <1>10, <2>1, <2>2 DEF Fresh, At
  <2>4. Watched(k0)
    BY <1>1, <1>3 DEF Watched, At
  <2> QED
    BY <1>3, <1>9, <1>10, <2>1, <2>3, <2>4 DEF EndKnown, Accepted
<1> QED
  BY <1>7, <1>8, <1>11, <1>12 DEF KeysKnown

\* The other steps of a call.
LEMMA CallIInv ==
  ASSUME IInv, Alive, NEW t \in Threads,
         PostReceive(t) \/ ReCycle(t) \/ CheckFlag(t) \/ Erase(t) \/ DisconnectEx(t)
  PROVE  IInv'
<1> USE DEF IInv
<1>1. /\ thr[t].pc \in Calls /\ ~At(t, "AddUser") /\ thr[t].pc \notin {"none", "exited"}
      /\ UNCHANGED <<main, event, listen, nextKey, todo, nulls, messages, modules, passed,
                     timedOut, eventLost, busy>>
  BY DEF PostReceive, ReCycle, CheckFlag, Erase, DisconnectEx, At, Calls, network, stop, history
<1>2. PICK k0 \in Keys : thr[t].k = k0
  BY <1>1, CallKey
<1>3. /\ "accept" \notin conn[k0].pend /\ Fresh(k0) /\ Holds(t, k0)
      /\ modules = {"server", "controller"}
  BY <1>1, <1>2, CallKey
<1>4. conn[k0] \in Context /\ conn[k0].flag \in 0..2
  BY DEF TypeOK, Context
<1>5. /\ Moves(t, k0)
      /\ thr'[t].pc \in Calls => thr'[t].pc \in {"ReCycle", "CheckFlag", "Erase", "DisconnectEx"}
  <2>1. ASSUME NEW pc \in {"ReCycle", "CheckFlag", "Erase", "DisconnectEx"}, Goto(t, pc)
        PROVE  Moves(t, k0) /\ thr'[t].pc = pc
    BY <1>1, <1>2, <2>1, GotoMoves DEF Calls
  <2>2. CASE Return(t)
    BY <1>1, <2>2, ReturnMoves
  <2> QED
    BY <2>1, <2>2 DEF PostReceive, ReCycle, CheckFlag, Erase, DisconnectEx
<1>6. /\ conn' \in [Keys -> Context]
      /\ \A k \in Keys : k # k0 => conn'[k] = conn[k]
      /\ "accept" \notin conn'[k0].pend
      /\ conn'[k0].flag \in 0..2 /\ conn'[k0].flag >= conn[k0].flag
      /\ thr'[t].pc \in {"CheckFlag", "Erase", "DisconnectEx"} => conn'[k0].flag > 0
      /\ conn[k0].flag = 0 /\ conn'[k0].flag > 0 => ReCycle(t)
      /\ conn'[k0].flag = 0 => listed' = listed
  <2>1. CASE PostReceive(t)
    <3>1. /\ listed' = listed
          /\ \/ conn[k0].flag > 0 /\ conn' = [conn EXCEPT ![k0].flag = 2] /\ Return(t)
             \/ conn' = [conn EXCEPT ![k0].op = "recv", ![k0].pend = @ \cup {"recv"}] /\ Return(t)
             \/ conn' = [conn EXCEPT ![k0].op = "recv"] /\ Goto(t, "ReCycle")
      BY <1>2, <2>1 DEF PostReceive
    <3>2. thr'[t].pc \notin {"CheckFlag", "Erase", "DisconnectEx"}
      BY <1>1, <1>2, <3>1, GotoMoves, ReturnMoves DEF Calls
    <3>3. conn \in [Keys -> Context]
      BY DEF TypeOK
    <3>4. CASE conn[k0].flag > 0 /\ conn' = [conn EXCEPT ![k0].flag = 2]
      BY <1>3, <1>4, <2>1, <3>1, <3>2, <3>3, <3>4 DEF Context
    <3>5. CASE conn' = [conn EXCEPT ![k0].op = "recv", ![k0].pend = @ \cup {"recv"}]
      <4>1. conn'[k0] = [op |-> "recv", flag |-> conn[k0].flag,
                         pend |-> conn[k0].pend \cup {"recv"}]
        BY <1>4, <3>3, <3>5 DEF Context
      <4>2. conn'[k0] \in Context
        BY <1>4, <4>1 DEF Context
      <4>3. conn' \in [Keys -> Context] /\ \A k \in Keys : k # k0 => conn'[k] = conn[k]
        BY <3>3, <3>5, <4>2
      <4> QED
        BY <1>3, <1>4, <2>1, <3>1, <3>2, <4>1, <4>3
    <3>6. CASE conn' = [conn EXCEPT ![k0].op = "recv"]
      BY <1>3, <1>4, <2>1, <3>1, <3>2, <3>3, <3>6 DEF Context
    <3> QED
      BY <3>1, <3>4, <3>5, <3>6
  <2>2. CASE ReCycle(t)
    BY <1>2, <1>3, <1>4, <2>2 DEF ReCycle, TypeOK, Context
  <2>3. CASE CheckFlag(t) \/ Erase(t)
    <3>1. conn' = conn /\ (CheckFlag(t) => listed' = listed)
      BY <2>3 DEF CheckFlag, Erase, network
    <3>2. conn[k0].flag > 0
      BY <1>2, <1>3, <2>3 DEF CheckFlag, Erase, At, Fresh
    <3> QED
      BY <1>3, <1>4, <3>1, <3>2 DEF TypeOK
  <2>4. CASE DisconnectEx(t)
    <3>1. conn[k0].flag > 0
      BY <1>2, <1>3, <2>4 DEF DisconnectEx, At, Fresh
    <3> QED
      <4>1. /\ conn \in [Keys -> Context]
            /\ conn' = conn \/ conn' = [conn EXCEPT ![k0].pend = @ \cup {"disc"}]
        BY <1>2, <2>4 DEF DisconnectEx, TypeOK
      <4>2. /\ conn'[k0].flag = conn[k0].flag /\ "accept" \notin conn'[k0].pend
            /\ \A k \in Keys : k # k0 => conn'[k] = conn[k]
            /\ conn' \in [Keys -> Context]
        BY <1>3, <1>4, <4>1 DEF Context
      <4> QED
        BY <1>4, <3>1, <4>2
  <2> QED
    BY <2>1, <2>2, <2>3, <2>4
<1>7. /\ users' \in [added: SUBSET Keys, deleted: SUBSET Keys]
      /\ users'.added = users.added /\ users.deleted \subseteq users'.deleted
      /\ conn[k0].flag = 0 /\ ReCycle(t) => k0 \in users'.deleted
  <2>1. CASE ReCycle(t)
    BY <1>2, <1>3, <2>1 DEF ReCycle, TypeOK
  <2>2. CASE ~ReCycle(t)
    <3>1. users' = users
      BY <2>2 DEF PostReceive, CheckFlag, Erase, DisconnectEx
    <3> QED
      BY <2>2, <3>1 DEF TypeOK
  <2> QED
    BY <2>1, <2>2
<1>8. listed' = listed \/ (listed' = listed \ {k0} /\ main # "loop")
  BY <1>2 DEF PostReceive, ReCycle, CheckFlag, Erase, DisconnectEx, network, ListFree
<1>9. Phases' /\ ModulesOutliveThreads'
  BY <1>1, <1>5, MovesPhases
<1>10. TypeOK'
  <2>1. iExitUserCount' \in Int /\ others' \in Nat
    BY DEF PostReceive, ReCycle, CheckFlag, Erase, DisconnectEx, stop, history, TypeOK
  <2>2. listed' \subseteq Keys /\ todo' \subseteq listed'
    BY <1>1, <1>8 DEF TypeOK, Phases, Alive
  <2> QED
    BY <1>1, <1>5, <1>6, <1>7, <2>1, <2>2, MovesTypes DEF TypeOK, Moves, messages, Threaded
<1>11. KeysKnown'
  <2>1. thr'[t].pc # "AddUser"
    BY <1>5 DEF Calls
  <2>2. \A k \in Keys : k # k0 => conn'[k] = conn[k] /\ (k \in listed => k \in listed')
    BY <1>6, <1>8
  <2>3. conn[k0].flag \in Nat /\ conn'[k0].flag \in Nat
    BY <1>4, <1>6
  <2> QED
    BY <1>1, <1>2, <1>5, <1>6, <1>7, <2>1, <2>2, <2>3, CallKeys
<1> QED
  BY <1>9, <1>10, <1>11

LEMMA PostAcceptExIInv ==
  ASSUME IInv, Alive, NEW t \in Threads, PostAcceptEx(t)
  PROVE  IInv'
<1> USE DEF IInv
<1>1. /\ thr[t].pc = "PostAcceptEx" /\ main # "loop" /\ Return(t)
      /\ UNCHANGED <<main, event, listen, todo, iExitUserCount, nulls, messages, modules,
                     users, history>>
  BY DEF PostAcceptEx, At, ListFree, stop
<1>2. Moves(t, 0) /\ thr'[t].pc \notin Calls
  BY <1>1, ReturnMoves
<1>3. Phases' /\ ModulesOutliveThreads' /\ main # "off"
  BY <1>1, <1>2, MovesPhases
<1>4. \A k \in Keys : ~Holds(t, k)'
  BY <1>2 DEF Holds
<1>5. \A u \in Threads \ {t} : thr'[u] = thr[u]
  BY <1>2 DEF Moves
<1>6. nextKey \in Nat /\ MaxKeys \in Nat /\ todo = {}
  BY <1>1, StopAssumption DEF TypeOK, Phases, Alive
<1>7. CASE UNCHANGED <<nextKey, listed, conn>>
  <2>1. TypeOK'
    BY <1>1, <1>2, <1>7, MovesTypes DEF TypeOK, Moves, messages, history, Threaded
  <2>2. \A k \in Keys : Covered(k) => Covered(k)'
    BY <1>1, <1>7 DEF Covered, history
  <2>3. KeysKnown'
    BY <1>1, <1>4, <1>5, <1>6, <1>7, <2>2, OtherKey DEF KeysKnown
  <2> QED
    BY <1>3, <2>1, <2>3
<1>8. CASE /\ listen = "open" /\ nextKey <= MaxKeys /\ nextKey' = nextKey + 1
           /\ listed' = listed \cup {nextKey} /\ conn' = [conn EXCEPT ![nextKey] = Accepting]
  <2>1. PICK n \in Keys : n = nextKey
    BY <1>6, <1>8 DEF TypeOK, Keys
  <2>2. Accepting \in Context /\ Accepting.pend = {"accept"} /\ Accepting.op = "accept"
    BY DEF Accepting, Context
  <2>3. /\ conn' \in [Keys -> Context] /\ conn'[n] = Accepting
        /\ \A k \in Keys : k # n => conn'[k] = conn[k]
    BY <1>8, <2>1, <2>2 DEF TypeOK
  <2>4. TypeOK'
    <3>1. nextKey' \in 1..(MaxKeys + 1) /\ listed' \subseteq Keys /\ todo' \subseteq listed'
      BY <1>1, <1>6, <1>8, <2>1 DEF TypeOK
    <3> QED
      BY <1>1, <1>2, <2>3, <3>1, MovesTypes DEF TypeOK, Moves, messages, history, Threaded
  <2>5. ASSUME NEW k \in Keys, k # n PROVE Fresh(k)' /\ EndKnown(k)'
    <3>1. Covered(k) => Covered(k)'
      BY <1>1, <1>8, <2>5 DEF Covered, history
    <3> QED
      BY <1>1, <1>4, <1>5, <1>6, <1>8, <2>3, <2>5, <3>1, OtherKey
  <2>6. Fresh(n)' /\ EndKnown(n)'
    <3>1. n \notin users.added /\ \A u \in Threads : ~Holds(u, n)
      BY <1>6, <2>1 DEF KeysKnown, Fresh
    <3>2. \A u \in Threads : ~Holds(u, n)'
      BY <1>4, <1>5, <3>1 DEF Holds
    <3>3. Fresh(n)'
      BY <1>1, <1>6, <1>8, <2>1, <2>3, <3>1, <3>2 DEF Fresh
    <3>4. main \in Before \cup {"crashed"}
      BY <1>1, <1>3, <1>8 DEF Phases, TypeOK, Consoles, Before, After, Cleared
    <3>5. Covered(n)'
      BY <1>1, <1>8, <2>1, <3>4 DEF Covered, Before, After, Cleared
    <3> QED
      BY <1>1, <3>1, <3>3, <3>5 DEF EndKnown
  <2> QED
    BY <1>3, <2>4, <2>5, <2>6 DEF KeysKnown
<1> QED
  BY <1>7, <1>8 DEF PostAcceptEx

LEMMA EndWorkerIInv ==
  ASSUME IInv, NEW w \in Workers, EndWorker(w)
  PROVE  IInv'
<1> USE DEF IInv
<1>1. /\ thr[w].pc = "idle" /\ w \in Threads /\ nulls' \in Nat /\ nextKey \in Nat
      /\ UNCHANGED <<main, event, network, todo, iExitUserCount, messages, modules, users, history>>
  BY StopAssumption DEF EndWorker, At, Threads, TypeOK
<1>2. Moves(w, 0) /\ thr'[w].pc = "exited"
  <2>1. thr \in [Threads -> Threaded]
    BY DEF TypeOK, Threaded
  <2> QED
    BY <1>1, <2>1 DEF EndWorker, Goto, Moves, Calls, Threaded, Steps
<1>3. Phases' /\ ModulesOutliveThreads'
  BY <1>1, <1>2, MovesPhases DEF network
<1>4. TypeOK'
  BY <1>1, <1>2, MovesTypes DEF TypeOK, Moves, network, messages, history, Threaded
<1>5. ASSUME NEW k \in Keys PROVE Fresh(k)' /\ EndKnown(k)'
  <2>1. ~Holds(w, k)' /\ \A u \in Threads \ {w} : thr'[u] = thr[u]
    BY <1>2 DEF Moves, Holds, Calls
  <2>2. Covered(k) => Covered(k)'
    BY <1>1 DEF Covered, network, history
  <2> QED
    BY <1>1, <2>1, <2>2, OtherKey DEF network
<1> QED
  BY <1>3, <1>4, <1>5 DEF KeysKnown

\* A turn of the loop of StopServer: a key it passes by stays covered, and one
\* it recycles has been reported.
LEMMA VisitIInv ==
  ASSUME IInv, NEW k0 \in Keys, Visit(k0)
  PROVE  IInv'
<1> USE DEF IInv
<1>1. /\ main = "loop" /\ k0 \in todo /\ todo' = todo \ {k0}
      /\ UNCHANGED <<main, thr, event, listen, nextKey, nulls, messages, modules,
                     others, timedOut, eventLost, busy>>
  BY DEF Visit
<1>2. Phases'
  BY <1>1 DEF Phases, At, Before, After, Cleared
<1>3. ModulesOutliveThreads'
  BY <1>1 DEF ModulesOutliveThreads, InCall
<1>4. CASE /\ conn[k0].op # "recv" /\ passed' = passed \cup {k0}
           /\ UNCHANGED <<conn, users, listed, iExitUserCount>>
  <2>1. TypeOK'
    BY <1>1, <1>4 DEF TypeOK, messages
  <2>2. \A k \in Keys : Covered(k) => Covered(k)'
    BY <1>1, <1>4 DEF Covered, Before, After, Cleared
  <2> QED
    BY <1>1, <1>2, <1>3, <1>4, <2>1, <2>2, KeysSame
<1>5. CASE conn[k0].op = "recv"
  <2>1. /\ listed' = listed \ {k0} /\ passed' = passed
        /\ users' = IF conn[k0].flag = 0
                    THEN [users EXCEPT !.deleted = @ \cup {k0}] ELSE users
    BY <1>5 DEF Visit
  <2>2. PICK posted \in BOOLEAN :
          /\ conn' = [conn EXCEPT
                       ![k0].flag = IF @ = 2 THEN 2 ELSE @ + 1,
                       ![k0].pend = IF posted THEN @ \cup {"stop"} ELSE @]
          /\ iExitUserCount' = IF posted THEN iExitUserCount + 1 ELSE iExitUserCount
    BY <1>5 DEF Visit
  <2>3. conn \in [Keys -> Context] /\ conn[k0] \in Context
    BY DEF TypeOK
  <2>4. /\ conn' \in [Keys -> Context]
        /\ \A k \in Keys : k # k0 => conn'[k] = conn[k]
        /\ conn'[k0].flag > 0 /\ conn'[k0].op = "recv"
        /\ conn'[k0].pend \subseteq conn[k0].pend \cup {"stop"}
    <3>1. PICK flag \in 1..2, pend \in SUBSET {"accept", "recv", "disc", "stop"} :
            /\ conn' = [conn EXCEPT ![k0].flag = flag, ![k0].pend = pend]
            /\ pend \subseteq conn[k0].pend \cup {"stop"}
      <4>1. conn[k0].flag \in 0..2 /\ conn[k0].pend \in SUBSET {"accept", "recv", "disc", "stop"}
        BY <2>3 DEF Context
      <4>2. (IF conn[k0].flag = 2 THEN 2 ELSE conn[k0].flag + 1) \in 1..2
        BY <4>1
      <4> QED
        BY <2>2, <4>1, <4>2
    <3>2. conn'[k0] = [op |-> "recv", flag |-> flag, pend |-> pend]
      BY <1>5, <2>3, <3>1 DEF Context
    <3>3. conn'[k0] \in Context
      BY <3>2 DEF Context
    <3>4. DOMAIN conn' = Keys /\ conn' = [k \in Keys |-> conn'[k]]
      BY <2>3, <3>1
    <3>5. \A k \in Keys : k # k0 => conn'[k] = conn[k]
      BY <2>3, <3>1
    <3>6. \A k \in Keys : conn'[k] \in Context
      BY <2>3, <3>3, <3>5
    <3>7. conn' \in [Keys -> Context] /\ \A k \in Keys : k # k0 => conn'[k] = conn[k]
      BY <3>4, <3>5, <3>6
    <3>8. flag > 0 /\ pend \subseteq conn[k0].pend \cup {"stop"}
      BY <3>1
    <3>9. conn'[k0].flag = flag /\ conn'[k0].op = "recv" /\ conn'[k0].pend = pend
      BY <3>2
    <3> QED
      BY <3>7, <3>8, <3>9
  <2>5. /\ users' \in [added: SUBSET Keys, deleted: SUBSET Keys]
        /\ users'.added = users.added /\ users.deleted \subseteq users'.deleted
        /\ conn[k0].flag = 0 => k0 \in users'.deleted
    BY <2>1 DEF TypeOK
  <2>6. TypeOK'
    <3>1. iExitUserCount' \in Int
      BY <2>2 DEF TypeOK
    <3>2. listed' \subseteq Keys /\ todo' \subseteq listed'
      BY <1>1, <2>1 DEF TypeOK
    <3> QED
      BY <1>1, <2>1, <2>4, <2>5, <3>1, <3>2 DEF TypeOK, messages
  <2>7. /\ ~(k0 >= nextKey) /\ "accept" \notin conn[k0].pend
        /\ \A u \in Threads : ~(Holds(u, k0) /\ At(u, "AddUser"))
    BY <1>5 DEF KeysKnown, Fresh, NoContext, Accepting, Accepted
  <2>8. Fresh(k0)'
    BY <1>1, <2>4, <2>7 DEF Fresh, Holds, At
  <2>9. EndKnown(k0)'
    <3>1. ~Watched(k0)'
      BY <1>1, <2>4, <2>7 DEF Watched, Holds, At
    <3> QED
      BY <2>5, <3>1 DEF EndKnown, KeysKnown
  <2>10. ASSUME NEW k \in Keys, k # k0 PROVE Fresh(k)' /\ EndKnown(k)'
    <3>1. conn'[k] = conn[k] /\ Fresh(k) /\ EndKnown(k)
      BY <2>4, <2>10 DEF KeysKnown
    <3>2. Fresh(k)'
      BY <1>1, <2>5, <3>1 DEF Fresh, Holds, At
    <3>3. Watched(k)' => Watched(k)
      BY <1>1, <2>5, <3>1 DEF Watched, Holds, At
    <3>4. Covered(k) => Covered(k)'
      BY <1>1, <2>1, <2>10 DEF Covered, Before, After, Cleared
    <3> QED
      BY <2>5, <3>1, <3>2, <3>3, <3>4 DEF EndKnown
  <2> QED
    BY <1>2, <1>3, <2>6, <2>8, <2>9, <2>10 DEF KeysKnown
<1> QED
  BY <1>4, <1>5 DEF Visit

LEMMA NextIInv == IInv /\ [Next]_vars => IInv'
<1> SUFFICES ASSUME IInv, [Next]_vars PROVE IInv'
  OBVIOUS
<1>1. CASE UNCHANGED vars
  <2>1. UNCHANGED <<thr, conn, users, nextKey, main, listed, todo, passed, modules, listen>>
    BY <1>1 DEF vars
  <2>2. KeysKnown'
    BY <2>1, KeysSame DEF IInv, Covered
  <2> QED
    BY <1>1, <2>2 DEF vars, IInv, TypeOK, Phases, ModulesOutliveThreads, InCall, At
<1>2. CASE Alive /\ (StartServer \/ StopServer \/ Stopping)
  BY <1>2, StartServerIInv, ConsoleIInv, VisitIInv DEF Stopping
<1>3. CASE Alive /\ Beat
  BY <1>3, BeatIInv
<1>4. ASSUME Alive, NEW w \in Workers, Dispatch(w) \/ EndWorker(w) PROVE IInv'
  BY <1>4, DispatchIInv, EndWorkerIInv
<1>5. ASSUME Alive, NEW t \in Threads, Step(t) PROVE IInv'
  BY <1>5, AddUserIInv, CallIInv, PostAcceptExIInv DEF Step
<1>6. ASSUME Alive, NEW h \in Handlers, Handle(h) PROVE IInv'
  BY <1>6, HandleIInv
<1> QED
  BY <1>1, <1>2, <1>3, <1>4, <1>5, <1>6 DEF Next

LEMMA StopInvariant == Spec => []IInv
BY InitIInv, NextIInv, PTL DEF Spec

-----------------------------------------------------------------------------
\* TypeOK for any number of threads and keys.
THEOREM StopTypes == Spec => []TypeOK
<1>1. IInv => TypeOK
  BY DEF IInv
<1> QED
  BY <1>1, StopInvariant, PTL

\* ModulesOutliveThreads for any number of workers: MainServer::StopServer
\* clears no module pointer that a callback may still read.
THEOREM ModulesCleared == Spec => []ModulesOutliveThreads
<1>1. IInv => ModulesOutliveThreads
  BY DEF IInv
<1> QED
  BY <1>1, StopInvariant, PTL

\* UsersTold for any number of workers, keys and accepts: whoever the loop of
\* StopServer does not find, and whatever meets it, every user's end has been
\* reported when the workers are joined, but for the connections passed by.
THEOREM EndsReported == Spec => []UsersTold
<1>1. IInv => UsersTold
  <2> SUFFICES ASSUME IInv, main \in Cleared, NEW k \in users.added,
                      k \notin users.deleted
               PROVE  k \in passed
    BY DEF UsersTold, Cleared
  <2>1. k \in Keys
    BY DEF IInv, TypeOK
  <2> QED
    BY <2>1 DEF IInv, KeysKnown, EndKnown, Watched, Covered, After
<1> QED
  BY <1>1, StopInvariant, PTL

-----------------------------------------------------------------------------
\* The way down of the message threads

Left == {"clearServer", "stopMessages", "joinHandlers", "done"}

\* Once the controller's pointers are gone no worker is left to queue a message:
\* what is left to handle then was there when they were cleared.
QuietInv ==
  /\ main = "off" => listen = "none"
  /\ main = "clearController" => "controller" \in modules
  /\ main \in Left => busy \/ /\ queue = 0
                              /\ \A h \in Handlers : handler[h] \notin {"user", "send"}
  /\ QuietStop

LEMMA ConsoleQuiet ==
  ASSUME IInv, QuietInv, StartServer \/ StopServer \/ Stopping
  PROVE  QuietInv'
<1> USE DEF QuietInv, QuietStop, Left
<1>1. CASE StartServer
  BY <1>1 DEF StartServer, network, stop, messages, history
<1>2. CASE StopServer
  BY <1>2 DEF StopServer, Crash, network, stop, messages, history
<1>3. CASE \E k \in Keys : Visit(k)
  BY <1>3 DEF Visit, network, stop, messages, history
<1>4. CASE ClearController
  <2>1. /\ main' = "clearServer"
        /\ UNCHANGED <<queue, handler>>
    BY <1>4 DEF ClearController, messages
  <2>2. queue \in Nat
    BY DEF IInv, TypeOK
  <2>3. ~busy' => ~(queue > 0) /\ \A h \in Handlers : handler[h] \notin {"user", "send"}
    <3>1. busy' <=> queue > 0 \/ \E h \in Handlers : handler[h] \in {"user", "send"}
      BY <1>4 DEF ClearController
    <3> QED
      BY <3>1, Zenon
  <2>4. ~(queue > 0) => queue = 0
    BY <2>2
  <2> QED
    BY <2>1, <2>3, <2>4
<1>5. CASE StopMessages
  BY <1>5 DEF StopMessages, IInv, TypeOK, network, stop, messages, history
<1>6. CASE JoinWorkers
  BY <1>6 DEF JoinWorkers, IInv, Phases, network, stop, messages, history
<1>7. CASE JoinHeart \/ CloseListen \/ LockList \/ UnlockList \/ PostNulls
  BY <1>7 DEF JoinHeart, CloseListen, LockList, UnlockList, PostNulls,
              network, stop, messages, history
<1>8. CASE ClearServer \/ JoinHandlers
  BY <1>8 DEF ClearServer, JoinHandlers, network, stop, messages, history
<1> QED
  BY <1>1, <1>2, <1>3, <1>4, <1>5, <1>6, <1>7, <1>8 DEF Stopping

LEMMA HandleQuiet ==
  ASSUME IInv, QuietInv, NEW h \in Handlers, Handle(h)
  PROVE  QuietInv'
<1> USE DEF QuietInv, QuietStop, Left
<1>1. CASE Take(h)
  BY <1>1 DEF Take, IInv, TypeOK, network, stop, history
<1>2. CASE main' # "crashed" /\ (UseUserMng(h) \/ UseTcpSrv(h))
  BY <1>2 DEF UseUserMng, UseTcpSrv, Crash, IInv, TypeOK, network, stop, history
<1>3. CASE main' = "crashed" /\ (UseUserMng(h) \/ UseTcpSrv(h))
  <2>1. /\ "controller" \notin modules \/ main = "crashed"
        /\ handler[h] \in {"user", "send"}
        /\ UNCHANGED <<busy, listen>>
    BY <1>3 DEF UseUserMng, UseTcpSrv, Crash, network, history
  <2>2. main \in Consoles
    BY DEF IInv, TypeOK
  <2>3. busy \/ listen = "none"
    BY <2>1, <2>2 DEF IInv, Phases, Before, Consoles
  <2> QED
    BY <1>3, <2>1, <2>3
<1> QED
  BY <1>1, <1>2, <1>3 DEF Handle

LEMMA ThreadQuiet ==
  ASSUME IInv, QuietInv,
         \/ Beat
         \/ \E w \in Workers : Dispatch(w) \/ EndWorker(w)
         \/ \E t \in Threads : Step(t)
  PROVE  QuietInv'
<1> USE DEF QuietInv, QuietStop, Left
<1>1. UNCHANGED <<main, listen, modules, busy, handler>>
  <2>1. CASE Beat
    BY <2>1 DEF Beat, CreateEvent, EndHeart, DropUser, network, messages, history
  <2>2. ASSUME NEW w \in Workers, Dispatch(w) \/ EndWorker(w)
        PROVE  UNCHANGED <<main, listen, modules, busy, handler>>
    BY <2>2 DEF Dispatch, HandAccept, HandAcceptError, HandReceiveData, HandReceiveEnd,
         HandDisconnect, EndWorker, network, messages, history
  <2>3. ASSUME NEW t \in Threads, Step(t)
        PROVE  UNCHANGED <<main, listen, modules, busy, handler>>
    BY <2>3 DEF Step, AddUser, PostReceive, PostAcceptEx, ReCycle, CheckFlag, Erase,
         DisconnectEx, network, messages, history
  <2> QED
    BY <2>1, <2>2, <2>3
<1>2. main \in Left => queue' = queue
  <2>1. CASE \E w \in Workers, k \in Keys : HandReceiveData(w, k)
    BY <2>1 DEF HandReceiveData, Dispatched, IInv, Phases, Cleared, At
  <2>2. CASE ~\E w \in Workers, k \in Keys : HandReceiveData(w, k)
    BY <2>2 DEF Beat, CreateEvent, EndHeart, DropUser, Dispatch, HandAccept,
           HandAcceptError, HandReceiveEnd, HandDisconnect, EndWorker, Step, AddUser,
           PostReceive, PostAcceptEx, ReCycle, CheckFlag, Erase, DisconnectEx, messages
  <2> QED
    BY <2>1, <2>2
<1> QED
  BY <1>1, <1>2

\* QuietStop for any number of threads and messages: StopServer of a server that
\* ran crashes only over messages that were left when the controller was cleared.
THEOREM StopsQuietly == Spec => []QuietStop
<1>1. Init => QuietInv
  BY DEF Init, QuietInv, QuietStop, Left
<1>2. IInv /\ QuietInv /\ [Next]_vars => QuietInv'
  <2> SUFFICES ASSUME IInv, QuietInv, [Next]_vars PROVE QuietInv'
    OBVIOUS
  <2>1. CASE UNCHANGED vars
    BY <2>1 DEF vars, QuietInv, QuietStop
  <2>2. CASE Next
    BY <2>2, ConsoleQuiet, HandleQuiet, ThreadQuiet DEF Next
  <2> QED
    BY <2>1, <2>2
<1>3. QuietInv => QuietStop
  BY DEF QuietInv
<1> QED
  BY <1>1, <1>2, <1>3, StopInvariant, PTL DEF Spec

-----------------------------------------------------------------------------
\* The disconnects StopServer waits for

Counting == {"lock", "loop", "wait", "joinWorkers"}
Outstanding == {k \in Keys : "stop" \in conn[k].pend}

\* From its reset on the counter holds StopServer's outstanding disconnects less
\* those others that ended since: it is what StopServer takes it for only when
\* there are none of the latter.
CountInv ==
  /\ main \in Counting => iExitUserCount + others = Cardinality(Outstanding)
  /\ main \in {"off"} \cup Before => Outstanding = {}
  /\ main = "loop" => todo \cap Outstanding = {}
  /\ main = "joinWorkers" /\ ~timedOut => iExitUserCount <= ExitLimit

LEMMA OutstandingFinite ==
  /\ IsFiniteSet(Outstanding)
  /\ Cardinality(Outstanding) \in Nat
<1>1. IsFiniteSet(Keys)
  BY StopAssumption, FS_Interval DEF Keys
<1>2. Outstanding \subseteq Keys
  BY DEF Outstanding
<1> QED
  BY <1>1, <1>2, FS_Subset, FS_CardinalityType

\* A step that leaves StopServer's disconnects, or only counts another one.
LEMMA SameCount ==
  ASSUME IInv, CountInv, Outstanding' = Outstanding,
         UNCHANGED <<main, todo, timedOut>>,
         iExitUserCount' \in Int, others' \in Int,
         iExitUserCount' + others' = iExitUserCount + others,
         iExitUserCount' <= iExitUserCount
  PROVE  CountInv'
<1>1. iExitUserCount \in Int /\ others \in Int /\ ExitLimit \in Int
  BY StopAssumption DEF IInv, TypeOK
<1>2. main' = "joinWorkers" /\ ~timedOut' => iExitUserCount' <= ExitLimit
  BY <1>1 DEF CountInv
<1>3. main' \in Counting => iExitUserCount' + others' = Cardinality(Outstanding')
  BY DEF CountInv
<1> QED
  BY <1>2, <1>3 DEF CountInv

LEMMA StartCount ==
  ASSUME IInv, CountInv, StartServer
  PROVE  CountInv'
<1>1. CASE main' = main
  <2>1. UNCHANGED <<conn, todo, timedOut, iExitUserCount, others>> \/ main' = "running"
    BY <1>1 DEF StartServer, network, stop, history
  <2>2. main # "running" /\ main \notin Counting
    BY DEF StartServer, Counting
  <2> QED
    BY <1>1, <2>1, <2>2 DEF CountInv, Outstanding
<1>2. CASE main' # main
  <2>1. main' = "running" /\ \A k \in Keys : conn'[k] = Accepting \/ conn'[k] = NoContext
    BY <1>2 DEF StartServer
  <2>2. Outstanding' = {}
    BY <2>1 DEF Outstanding, Accepting, NoContext
  <2> QED
    BY <2>1, <2>2 DEF CountInv, Counting, Before
<1> QED
  BY <1>1, <1>2

LEMMA ConsoleCount ==
  ASSUME IInv, CountInv,
         \/ StopServer \/ JoinHeart \/ CloseListen \/ LockList \/ UnlockList
         \/ PostNulls \/ JoinWorkers \/ ClearController \/ ClearServer
         \/ StopMessages \/ JoinHandlers
  PROVE  CountInv'
<1>1. Outstanding' = Outstanding
  BY DEF Outstanding, StopServer, JoinHeart, CloseListen, LockList, UnlockList, PostNulls,
         JoinWorkers, ClearController, ClearServer, StopMessages, JoinHandlers, network
<1>2. CASE CloseListen
  <2>1. Outstanding = {} /\ main' = "lock" /\ iExitUserCount' = 0 /\ others' = 0
    BY <1>2 DEF CloseListen, CountInv, Before
  <2>2. Cardinality(Outstanding') = 0
    BY <1>1, <2>1, FS_EmptySet
  <2> QED
    BY <1>1, <2>1, <2>2 DEF CountInv, Before, Counting
<1>3. CASE LockList
  BY <1>1, <1>3 DEF LockList, CountInv, Before, Counting, history
<1>4. CASE UnlockList
  BY <1>1, <1>4 DEF UnlockList, CountInv, Before, Counting, history, stop
<1>5. CASE PostNulls
  <2>1. timedOut' <=> iExitUserCount > ExitLimit
    BY <1>5 DEF PostNulls
  <2>2. iExitUserCount \in Int /\ ExitLimit \in Nat
    BY StopAssumption DEF IInv, TypeOK
  <2>3. ~timedOut' => iExitUserCount <= ExitLimit
    BY <2>1, <2>2
  <2>4. /\ main = "wait" /\ main' = "joinWorkers"
        /\ UNCHANGED <<iExitUserCount, others>>
    BY <1>5 DEF PostNulls
  <2> QED
    BY <1>1, <2>3, <2>4 DEF CountInv, Before, Counting
<1>6. CASE StopServer \/ JoinHeart
  BY <1>1, <1>6 DEF StopServer, JoinHeart, Crash, CountInv, Before, Counting
<1>7. CASE JoinWorkers \/ ClearController \/ ClearServer \/ StopMessages \/ JoinHandlers
  BY <1>7 DEF JoinWorkers, ClearController, ClearServer, StopMessages, JoinHandlers,
              CountInv, Before, Counting
<1> QED
  BY <1>2, <1>3, <1>4, <1>5, <1>6, <1>7

\* The loop posts a disconnect only for a key it has not visited yet.
LEMMA VisitCount ==
  ASSUME IInv, CountInv, NEW k0 \in Keys, Visit(k0)
  PROVE  CountInv'
<1>1. /\ main = "loop" /\ UNCHANGED <<main, others>>
      /\ k0 \in todo /\ todo' = todo \ {k0}
  BY DEF Visit
<1>2. /\ conn \in [Keys -> Context] /\ iExitUserCount \in Int /\ others \in Nat
  BY DEF IInv, TypeOK
<1>3. k0 \notin Outstanding
  BY <1>1 DEF CountInv
<1>4. CASE conn[k0].op # "recv"
  <2>1. UNCHANGED <<conn, iExitUserCount>>
    BY <1>4 DEF Visit
  <2> QED
    BY <1>1, <2>1 DEF CountInv, Counting, Before, Outstanding
<1>5. CASE conn[k0].op = "recv"
  <2>1. PICK posted \in BOOLEAN :
          /\ conn' = [conn EXCEPT
               ![k0].flag = IF @ = 2 THEN 2 ELSE @ + 1,
               ![k0].pend = IF posted THEN @ \cup {"stop"} ELSE @]
          /\ iExitUserCount' = IF posted THEN iExitUserCount + 1 ELSE iExitUserCount
    BY <1>5 DEF Visit
  <2>2. CASE posted
    <3>1. \A k \in Keys : "stop" \in conn'[k].pend <=> k = k0 \/ "stop" \in conn[k].pend
      BY <1>2, <2>1, <2>2 DEF Context
    <3>2. Outstanding' = Outstanding \cup {k0}
      BY <3>1 DEF Outstanding
    <3>3. Cardinality(Outstanding') = Cardinality(Outstanding) + 1
      BY <1>3, <3>2, OutstandingFinite, FS_AddElement
    <3>4. iExitUserCount' = iExitUserCount + 1
      BY <2>1, <2>2
    <3>5. Cardinality(Outstanding) = iExitUserCount + others
      BY <1>1 DEF CountInv, Counting
    <3>6. iExitUserCount' + others' = Cardinality(Outstanding')
      BY <1>1, <1>2, <3>3, <3>4, <3>5
    <3>7. todo' \cap Outstanding' = {}
      BY <1>1, <3>2 DEF CountInv
    <3> QED
      BY <1>1, <3>6, <3>7 DEF CountInv, Before
  <2>3. CASE ~posted
    <3>1. \A k \in Keys : "stop" \in conn'[k].pend <=> "stop" \in conn[k].pend
      BY <1>2, <2>1, <2>3 DEF Context
    <3>2. Outstanding' = Outstanding /\ iExitUserCount' = iExitUserCount
      BY <2>1, <2>3, <3>1 DEF Outstanding
    <3> QED
      BY <1>1, <3>2 DEF CountInv, Counting, Before
  <2> QED
    BY <2>2, <2>3
<1> QED
  BY <1>4, <1>5

\* A completion of StopServer's leaves the set and lowers the counter; one of
\* another disconnect lowers the counter only.
LEMMA DisconnectCount ==
  ASSUME IInv, CountInv, NEW w, NEW k0 \in Keys, NEW kind, HandDisconnect(w, k0, kind)
  PROVE  CountInv'
<1>1. /\ kind \in {"disc", "stop"} /\ kind \in conn[k0].pend
      /\ conn' = [conn EXCEPT ![k0].pend = @ \ {kind}]
      /\ iExitUserCount' = iExitUserCount - 1
      /\ others' = IF kind = "disc" THEN others + 1 ELSE others
      /\ UNCHANGED <<main, todo, timedOut>>
  BY DEF HandDisconnect, Dispatched
<1>2. conn \in [Keys -> Context] /\ iExitUserCount \in Int /\ others \in Nat
  BY DEF IInv, TypeOK
<1>3. CASE kind = "disc"
  <2>1. \A k \in Keys : "stop" \in conn'[k].pend <=> "stop" \in conn[k].pend
    BY <1>1, <1>2, <1>3 DEF Context
  <2>2. Outstanding' = Outstanding
    BY <2>1 DEF Outstanding
  <2> QED
    BY <1>1, <1>2, <1>3, <2>2, SameCount
<1>4. CASE kind = "stop"
  <2>1. \A k \in Keys : "stop" \in conn'[k].pend <=> k # k0 /\ "stop" \in conn[k].pend
    BY <1>1, <1>2, <1>4 DEF Context
  <2>2. k0 \in Outstanding /\ Outstanding' = Outstanding \ {k0}
    BY <1>1, <1>4, <2>1 DEF Outstanding
  <2>3. Cardinality(Outstanding') = Cardinality(Outstanding) - 1
    BY <2>2, OutstandingFinite, FS_RemoveElement
  <2>4. others' = others
    BY <1>1, <1>4
  <2>5. main \in Counting => iExitUserCount' + others' = Cardinality(Outstanding')
    BY <1>1, <1>2, <2>3, <2>4, OutstandingFinite DEF CountInv
  <2>6. main = "joinWorkers" /\ ~timedOut => iExitUserCount' <= ExitLimit
    BY <1>1, <1>2, StopAssumption DEF CountInv
  <2> QED
    BY <1>1, <2>2, <2>5, <2>6 DEF CountInv
<1> QED
  BY <1>1, <1>3, <1>4

\* Every other step of a thread leaves StopServer's disconnects alone.
LEMMA ThreadCount ==
  ASSUME IInv, CountInv,
         \/ Beat
         \/ \E w \in Workers, k \in Keys :
              \/ HandAccept(w, k) \/ HandAcceptError(w, k)
              \/ HandReceiveData(w, k) \/ HandReceiveEnd(w, k)
         \/ \E w \in Workers : EndWorker(w)
         \/ \E t \in Threads : Step(t)
         \/ \E h \in Handlers : Handle(h) /\ main' = main
  PROVE  CountInv'
<1>1. UNCHANGED <<main, todo, timedOut>>
  BY DEF Beat, CreateEvent, EndHeart, DropUser, HandAccept, HandAcceptError,
         HandReceiveData, HandReceiveEnd, EndWorker, Step, AddUser,
         PostReceive, PostAcceptEx, ReCycle, CheckFlag, Erase, DisconnectEx,
         Handle, Take, UseUserMng, UseTcpSrv, stop, history
<1>2. conn \in [Keys -> Context] /\ iExitUserCount \in Int /\ others \in Nat
  BY DEF IInv, TypeOK
<1>3. /\ iExitUserCount' \in Int /\ others' \in Int
      /\ iExitUserCount' + others' = iExitUserCount + others
      /\ iExitUserCount' <= iExitUserCount
  <2>1. \/ UNCHANGED <<iExitUserCount, others>>
        \/ iExitUserCount' = iExitUserCount - 1 /\ others' = others + 1
    <3>1. CASE Beat
      BY <3>1 DEF Beat, CreateEvent, EndHeart, DropUser, stop, history
    <3>2. ASSUME NEW w \in Workers, NEW k \in Keys,
                 \/ HandAccept(w, k) \/ HandAcceptError(w, k)
                 \/ HandReceiveData(w, k) \/ HandReceiveEnd(w, k)
          PROVE  \/ UNCHANGED <<iExitUserCount, others>>
                 \/ iExitUserCount' = iExitUserCount - 1 /\ others' = others + 1
      BY <3>2 DEF HandAccept, HandAcceptError, HandReceiveData, HandReceiveEnd, stop, history
    <3>3. ASSUME NEW w \in Workers, EndWorker(w)
          PROVE  UNCHANGED <<iExitUserCount, others>>
      BY <3>3 DEF EndWorker, stop, history
    <3>4. ASSUME NEW t \in Threads, Step(t)
          PROVE  \/ UNCHANGED <<iExitUserCount, others>>
                 \/ iExitUserCount' = iExitUserCount - 1 /\ others' = others + 1
      BY <3>4 DEF Step, AddUser, PostReceive, PostAcceptEx, ReCycle, CheckFlag, Erase,
           DisconnectEx, stop, history
    <3>5. ASSUME NEW h \in Handlers, Handle(h)
          PROVE  UNCHANGED <<iExitUserCount, others>>
      BY <3>5 DEF Handle, Take, UseUserMng, UseTcpSrv, Crash, stop, history
    <3> QED
      BY <3>1, <3>2, <3>3, <3>4, <3>5
  <2> QED
    BY <1>2, <2>1
<1>4. \A k \in Keys : "stop" \in conn'[k].pend <=> "stop" \in conn[k].pend
  <2>1. CASE conn' = conn
    BY <2>1
  <2>2. ASSUME NEW w \in Workers, NEW l \in Keys,
               \/ HandAccept(w, l) \/ HandAcceptError(w, l)
               \/ HandReceiveData(w, l) \/ HandReceiveEnd(w, l)
        PROVE  \A k \in Keys : "stop" \in conn'[k].pend <=> "stop" \in conn[k].pend
    <3>1. CASE HandAccept(w, l)
      BY <1>2, <3>1 DEF Context, HandAccept
    <3>2. CASE HandAcceptError(w, l)
      BY <1>2, <3>2 DEF Context, HandAcceptError
    <3>3. CASE HandReceiveData(w, l)
      BY <1>2, <3>3 DEF Context, HandReceiveData
    <3>4. CASE HandReceiveEnd(w, l)
      BY <1>2, <3>4 DEF Context, HandReceiveEnd
    <3> QED
      BY <2>2, <3>1, <3>2, <3>3, <3>4
  <2>3. ASSUME NEW t \in Threads, PostReceive(t) \/ ReCycle(t) \/ DisconnectEx(t)
        PROVE  \A k \in Keys : "stop" \in conn'[k].pend <=> "stop" \in conn[k].pend
    <3>1. CASE PostReceive(t)
      BY <1>2, <3>1 DEF Context, PostReceive
    <3>2. CASE ReCycle(t)
      BY <1>2, <3>2 DEF Context, ReCycle
    <3>3. CASE DisconnectEx(t)
      BY <1>2, <3>3 DEF Context, DisconnectEx
    <3> QED
      BY <2>3, <3>1, <3>2, <3>3
  <2>4. ASSUME NEW t \in Threads, PostAcceptEx(t), conn' # conn
        PROVE  \A k \in Keys : "stop" \in conn'[k].pend <=> "stop" \in conn[k].pend
    <3>1. nextKey \in Keys /\ conn' = [conn EXCEPT ![nextKey] = Accepting]
      BY <2>4, StopAssumption DEF PostAcceptEx, IInv, TypeOK, Keys
    <3>2. conn[nextKey] = NoContext
      BY <3>1 DEF IInv, TypeOK, KeysKnown, Fresh, Keys
    <3> QED
      BY <1>2, <3>1, <3>2 DEF NoContext, Accepting
  <2> QED
    BY <2>1, <2>2, <2>3, <2>4 DEF Beat, CreateEvent, EndHeart, DropUser, EndWorker, Step,
       AddUser, CheckFlag, Erase, Handle, Take, UseUserMng, UseTcpSrv, network
<1>5. Outstanding' = Outstanding
  BY <1>4 DEF Outstanding
<1> QED
  BY <1>1, <1>3, <1>5, SameCount

LEMMA NextCount == IInv /\ CountInv /\ [Next]_vars => CountInv'
<1> SUFFICES ASSUME IInv, CountInv, [Next]_vars PROVE CountInv'
  OBVIOUS
<1>1. CASE UNCHANGED vars
  BY <1>1 DEF vars, CountInv, Outstanding
<1>2. CASE StartServer \/ StopServer \/ Stopping
  BY <1>2, StartCount, ConsoleCount, VisitCount DEF Stopping
<1>3. ASSUME NEW w \in Workers, Dispatch(w) PROVE CountInv'
  BY <1>3, ThreadCount, DisconnectCount DEF Dispatch
<1>4. ASSUME NEW h \in Handlers, Handle(h) PROVE CountInv'
  <2>1. CASE main' = main
    BY <1>4, <2>1, ThreadCount
  <2>2. CASE main' # main
    <3>1. main' = "crashed"
      BY <1>4, <2>2 DEF Handle, Take, UseUserMng, UseTcpSrv, Crash
    <3> QED
      BY <3>1 DEF CountInv, Counting, Before
  <2> QED
    BY <2>1, <2>2
<1>5. ASSUME \/ Beat
             \/ \E w \in Workers : EndWorker(w)
             \/ \E t \in Threads : Step(t)
      PROVE  CountInv'
  BY <1>5, ThreadCount
<1> QED
  BY <1>1, <1>2, <1>3, <1>4, <1>5 DEF Next

\* Drained for any number of workers, keys and any limit: StopServer's wait is
\* worth what it says unless other disconnects end while it counts.
THEOREM WaitDrains == Spec => []Drained
<1>1. Init => CountInv
  BY DEF Init, CountInv, Counting, Before, Outstanding, NoContext
<1>2. IInv /\ CountInv => Drained
  <2> SUFFICES ASSUME IInv, CountInv, main = "joinWorkers", ~timedOut, others = 0
               PROVE  Cardinality(Outstanding) <= ExitLimit
    BY DEF Drained, Outstanding
  <2> QED
    BY StopAssumption DEF CountInv, Counting, IInv, TypeOK
<1> QED
  BY <1>1, <1>2, NextCount, StopInvariant, PTL DEF Spec

=============================================================================
