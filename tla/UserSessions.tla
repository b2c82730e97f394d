---------------------------- MODULE UserSessions ----------------------------
(***************************************************************************)
(* The users of ServerFramework: UserInfoManage, which keeps the connected *)
(* users and the map from user id to connection, and MainController, whose *)
(* message handlers log users in and whose heartbeat thread disconnects    *)
(* the silent ones.  Completion-port workers call AddUser and DeleteUser,  *)
(* message threads run the handlers; each critical section is a step.      *)
(***************************************************************************)
EXTENDS Naturals, FiniteSets

CONSTANTS Handlers,  \* message threads
          Workers,   \* completion-port threads
          Heart,     \* the heartbeat thread
          Keys,      \* user keys, one per connection, never used twice
          Ids,       \* user ids clients log in with
          Infos,     \* SUserInfo objects of m_rscUser
          None,      \* null pointer, no key
          Limit,     \* checks in silence before a user is offline (12)
          MaxMsgs    \* bound: login and heartbeat messages handled

ASSUME SessionAssumption ==
  /\ Handlers \cap Workers = {}
  /\ Heart \notin Handlers \cup Workers
  /\ None \notin Keys \cup Infos
  /\ Limit \in Nat \ {0}
  /\ MaxMsgs \in Nat

Threads == Handlers \cup Workers \cup {Heart}
NoId == 0                            \* uUserId after Reset

VARIABLES
  conn,          \* the connection of a key: none yet, up, closing, down
  m_mapUserList, \* key -> info, None if the user is not listed
  m_mapIdKey,    \* id -> key, None if absent
  info,          \* the SUserInfo objects
  free,          \* those in m_rscUser's unused_list_
  thr,           \* what each thread does inside a call
  check,         \* where the heartbeat thread is in its loop
  msgs,          \* messages handled
  \* History, read by properties only.
  logins,        \* <<key, id>>: logins whose reply said success
  tried,         \* <<key, id>>: logins written to a user's info
  silent,        \* checks of a key since its last message was handled
  raced,         \* keys whose last clear fell inside a check's increment
  stale          \* a handler wrote to an info its user no longer owned

vars == <<conn, m_mapUserList, m_mapIdKey, info, free, thr, check, msgs,
          logins, tried, silent, raced, stale>>

UserInfo == [key: Keys \cup {None}, id: Ids \cup {NoId}, count: 0..Limit]
Reset == [key |-> None, id |-> NoId, count |-> 0]

Thread == [pc: {"idle", "login", "map", "beat", "eraseId", "put"},
           key: Keys \cup {None}, info: Infos \cup {None}, id: Ids \cup {NoId}]
Idle == [pc |-> "idle", key |-> None, info |-> None, id |-> NoId]

\* The heartbeat thread: waiting, inside GetOfflineUserList (which holds
\* m_lckUserList), or disconnecting the users it found.
Check == [pc: {"wait", "count", "store", "drop"},
          todo: SUBSET Keys,                \* users not counted yet
          key: Keys \cup {None}, read: Nat, \* the increment under way
          offline: SUBSET Keys]             \* userKeyList
Waiting == [pc |-> "wait", todo |-> {}, key |-> None, read |-> 0, offline |-> {}]

Listed == {k \in Keys : m_mapUserList[k] # None}
ListLockFree == check.pc \in {"wait", "drop"}

history == <<logins, tried, silent, raced, stale>>

Init ==
  /\ conn = [k \in Keys |-> "none"]
  /\ m_mapUserList = [k \in Keys |-> None]
  /\ m_mapIdKey = [i \in Ids |-> None]
  /\ info = [i \in Infos |-> Reset]
  /\ free = Infos
  /\ thr = [t \in Threads |-> Idle]
  /\ check = Waiting
  /\ msgs = 0
  /\ logins = {}
  /\ tried = {}
  /\ silent = [k \in Keys |-> 0]
  /\ raced = {}
  /\ stale = FALSE

-----------------------------------------------------------------------------
\* Called by the completion-port workers

AddUser(k) ==
  /\ conn[k] = "none"
  /\ ListLockFree
  /\ conn' = [conn EXCEPT ![k] = "up"]
  /\ \E i \in free :
       /\ free' = free \ {i}
       /\ info' = [info EXCEPT ![i] = [Reset EXCEPT !.key = k]]
       /\ m_mapUserList' = [m_mapUserList EXCEPT ![k] = i]
  /\ UNCHANGED <<m_mapIdKey, thr, check, msgs, history>>

\* The connection's teardown begins: its flag is set, DeleteUser is still due.
Leave(k) ==
  /\ conn[k] = "up"
  /\ conn' = [conn EXCEPT ![k] = "closing"]
  /\ UNCHANGED <<m_mapUserList, m_mapIdKey, info, free, thr, check, msgs, history>>

\* Mutant: the user stays in the list.
Erase_NotErased(t, k) ==
  /\ thr[t].pc = "idle"
  /\ ListLockFree
  /\ conn' = [conn EXCEPT ![k] = "down"]
  /\ IF m_mapUserList[k] = None
     THEN UNCHANGED thr
     ELSE thr' = [thr EXCEPT ![t] = [pc |-> "eraseId", key |-> k,
                                     info |-> m_mapUserList[k], id |-> NoId]]
  /\ UNCHANGED <<m_mapUserList, m_mapIdKey, info, free, msgs, history>>

\* DeleteUser, the list.
Erase(t, k) ==
  /\ thr[t].pc = "idle"
  /\ ListLockFree
  /\ conn' = [conn EXCEPT ![k] = "down"]
  /\ m_mapUserList' = [m_mapUserList EXCEPT ![k] = None]
  /\ IF m_mapUserList[k] = None
     THEN UNCHANGED thr
     ELSE thr' = [thr EXCEPT ![t] = [pc |-> "eraseId", key |-> k,
                                     info |-> m_mapUserList[k], id |-> NoId]]
  /\ UNCHANGED <<m_mapIdKey, info, free, msgs, history>>

DeleteUser(t, k) ==
  /\ t \in Workers
  /\ conn[k] = "closing"
  /\ Erase(t, k)
  /\ UNCHANGED check

\* Mutant: the map is cleaned under the key.
EraseId_ByKey(t) ==
  /\ thr[t].pc = "eraseId"
  /\ m_mapIdKey' = [i \in Ids |-> IF i = thr[t].key THEN None ELSE m_mapIdKey[i]]
  /\ thr' = [thr EXCEPT ![t].pc = "put"]
  /\ UNCHANGED <<conn, m_mapUserList, info, free, check, msgs, history>>

\* DeleteUser, the id map: whatever key the id stands for.
EraseId(t) ==
  /\ thr[t].pc = "eraseId"
  /\ m_mapIdKey' = [i \in Ids |-> IF i = info[thr[t].info].id
                                  THEN None ELSE m_mapIdKey[i]]
  /\ thr' = [thr EXCEPT ![t].pc = "put"]
  /\ UNCHANGED <<conn, m_mapUserList, info, free, check, msgs, history>>

\* DeleteUser, the pool.
PutUser(t) ==
  /\ thr[t].pc = "put"
  /\ free' = free \cup {thr[t].info}
  /\ thr' = [thr EXCEPT ![t] = Idle]
  /\ UNCHANGED <<conn, m_mapUserList, m_mapIdKey, info, check, msgs, history>>

-----------------------------------------------------------------------------
\* The message handlers

\* Mutant: the pointer is not tested.
Lookup_Unchecked(t, k, id, pc) ==
  /\ t \in Handlers
  /\ thr[t].pc = "idle"
  /\ conn[k] # "none"
  /\ msgs < MaxMsgs
  /\ ListLockFree
  /\ msgs' = msgs + 1
  /\ thr' = [thr EXCEPT ![t] = [pc |-> pc, key |-> k, id |-> id,
                                info |-> m_mapUserList[k]]]
  /\ UNCHANGED <<conn, m_mapUserList, m_mapIdKey, info, free, check, history>>

\* GetClientUserInfo: the handler goes on with the pointer it finds.  A message
\* may be handled after its connection went down.
Lookup(t, k, id, pc) ==
  /\ t \in Handlers
  /\ thr[t].pc = "idle"
  /\ conn[k] # "none"
  /\ msgs < MaxMsgs
  /\ ListLockFree
  /\ msgs' = msgs + 1
  /\ IF m_mapUserList[k] = None
     THEN UNCHANGED thr
     ELSE thr' = [thr EXCEPT ![t] = [pc |-> pc, key |-> k, id |-> id,
                                     info |-> m_mapUserList[k]]]
  /\ UNCHANGED <<conn, m_mapUserList, m_mapIdKey, info, free, check, history>>

HandleLoginRq(t, k, id)  == Lookup(t, k, id, "login")
HandleHeartbeatNt(t, k)  == Lookup(t, k, NoId, "beat")

\* A handler clears the counter of the user it works for.
Cleared(t) ==
  LET k == thr[t].key
      i == thr[t].info
      owner == IF i \in free THEN None ELSE info[i].key
  IN /\ silent' = IF owner \in Keys THEN [silent EXCEPT ![owner] = 0] ELSE silent
     /\ raced' = IF check.pc = "store" /\ check.key = owner
                 THEN raced \cup {owner} ELSE raced \ {owner}
     /\ stale' = (stale \/ m_mapUserList[k] # i)

\* Inside LockUserInfo.
Login(t) ==
  /\ thr[t].pc = "login"
  /\ info' = [info EXCEPT ![thr[t].info].count = 0,
                          ![thr[t].info].id = thr[t].id]
  /\ tried' = tried \cup {<<thr[t].key, thr[t].id>>}
  /\ Cleared(t)
  /\ thr' = [thr EXCEPT ![t].pc = "map"]
  /\ UNCHANGED <<conn, m_mapUserList, m_mapIdKey, free, check, msgs, logins>>

\* AddUserIdUserKeyMap keeps an entry that is there; the reply says success
\* either way.
MapId(t) ==
  /\ thr[t].pc = "map"
  /\ IF m_mapIdKey[thr[t].id] = None
     THEN m_mapIdKey' = [m_mapIdKey EXCEPT ![thr[t].id] = thr[t].key]
     ELSE UNCHANGED m_mapIdKey
  /\ logins' = logins \cup {<<thr[t].key, thr[t].id>>}
  /\ thr' = [thr EXCEPT ![t] = Idle]
  /\ UNCHANGED <<conn, m_mapUserList, info, free, check, msgs,
                 tried, silent, raced, stale>>

Beat(t) ==
  /\ thr[t].pc = "beat"
  /\ info' = [info EXCEPT ![thr[t].info].count = 0]
  /\ Cleared(t)
  /\ thr' = [thr EXCEPT ![t] = Idle]
  /\ UNCHANGED <<conn, m_mapUserList, m_mapIdKey, free, check, msgs, logins, tried>>

-----------------------------------------------------------------------------
\* The heartbeat thread.  GetOfflineUserList holds m_lckUserList, the handlers
\* hold the user's own lock: the increment of uHeartCount is not atomic.

StartCheck ==
  /\ check.pc = "wait"
  /\ check' = [Waiting EXCEPT !.pc = "count", !.todo = Listed]
  /\ UNCHANGED <<conn, m_mapUserList, m_mapIdKey, info, free, thr, msgs, history>>

LoadCount(k) ==
  /\ check.pc = "count"
  /\ k \in check.todo
  /\ check' = [check EXCEPT !.pc = "store", !.key = k,
                            !.read = info[m_mapUserList[k]].count]
  /\ UNCHANGED <<conn, m_mapUserList, m_mapIdKey, info, free, thr, msgs, history>>

\* Counters stop at Limit here, which is all the comparison tells apart.
Next1(n) == IF n < Limit THEN n + 1 ELSE Limit

\* Mutant: one check too early.
StoreCount_Early ==
  /\ check.pc = "store"
  /\ LET k == check.key
         n == Next1(check.read)
     IN /\ info' = [info EXCEPT ![m_mapUserList[k]].count = n]
        /\ silent' = [silent EXCEPT ![k] = Next1(@)]
        /\ check' = [check EXCEPT !.pc = "count", !.key = None, !.read = 0,
                       !.todo = @ \ {k},
                       !.offline = IF n >= Limit - 1 THEN @ \cup {k} ELSE @]
  /\ UNCHANGED <<conn, m_mapUserList, m_mapIdKey, free, thr, msgs,
                 logins, tried, raced, stale>>

StoreCount ==
  /\ check.pc = "store"
  /\ LET k == check.key
         n == Next1(check.read)
     IN /\ info' = [info EXCEPT ![m_mapUserList[k]].count = n]
        /\ silent' = [silent EXCEPT ![k] = Next1(@)]
        /\ check' = [check EXCEPT !.pc = "count", !.key = None, !.read = 0,
                       !.todo = @ \ {k},
                       !.offline = IF n >= Limit THEN @ \cup {k} ELSE @]
  /\ UNCHANGED <<conn, m_mapUserList, m_mapIdKey, free, thr, msgs,
                 logins, tried, raced, stale>>

EndCheck ==
  /\ check.pc = "count"
  /\ check.todo = {}
  /\ check' = [check EXCEPT !.pc = "drop"]
  /\ UNCHANGED <<conn, m_mapUserList, m_mapIdKey, info, free, thr, msgs, history>>

\* Mutant: the users found are forgotten.
Drop_Nothing(k) ==
  /\ check.pc = "drop"
  /\ k \in check.offline
  /\ check' = [check EXCEPT !.offline = @ \ {k}]
  /\ UNCHANGED <<conn, m_mapUserList, m_mapIdKey, info, free, thr, msgs, history>>

\* Disconnect(k): this thread calls DeleteUser itself, unless somebody else has
\* begun the teardown or finished it.
Drop(k) ==
  /\ check.pc = "drop"
  /\ k \in check.offline
  /\ check' = [check EXCEPT !.offline = @ \ {k}]
  /\ \/ conn[k] \in {"up", "closing"} /\ Erase(Heart, k)
     \/ /\ conn[k] # "up"
        /\ thr[Heart].pc = "idle"
        /\ UNCHANGED <<conn, m_mapUserList, m_mapIdKey, info, free, thr, msgs, history>>

EndDrop ==
  /\ check.pc = "drop"
  /\ check.offline = {}
  /\ thr[Heart].pc = "idle"
  /\ check' = Waiting
  /\ UNCHANGED <<conn, m_mapUserList, m_mapIdKey, info, free, thr, msgs, history>>

-----------------------------------------------------------------------------
Step(t) == EraseId(t) \/ PutUser(t) \/ Login(t) \/ MapId(t) \/ Beat(t)

HeartbeatHandle ==
  \/ StartCheck \/ EndCheck \/ StoreCount \/ EndDrop
  \/ \E k \in Keys : LoadCount(k) \/ Drop(k)

Next ==
  \/ \E k \in Keys : AddUser(k) \/ Leave(k)
  \/ \E k \in Keys, t \in Threads : DeleteUser(t, k) \/ HandleHeartbeatNt(t, k)
  \/ \E k \in Keys, t \in Threads, id \in Ids : HandleLoginRq(t, k, id)
  \/ \E t \in Threads : Step(t)
  \/ HeartbeatHandle

Spec == Init /\ [][Next]_vars

\* Threads run, the timer of the heartbeat thread fires again and again, and a
\* teardown that has begun reports its user.
FairSpec ==
  /\ Spec
  /\ \A t \in Threads : WF_vars(Step(t))
  /\ WF_vars(HeartbeatHandle)
  /\ \A k \in Keys : SF_vars(\E t \in Workers : DeleteUser(t, k))

-----------------------------------------------------------------------------
\* Every variable has its type; a thread inside a call has a user, and the
\* handler of a login has the id the client sent, 0 included.
TypeOK ==
  /\ conn \in [Keys -> {"none", "up", "closing", "down"}]
  /\ m_mapUserList \in [Keys -> Infos \cup {None}]
  /\ m_mapIdKey \in [Ids -> Keys \cup {None}]
  /\ info \in [Infos -> UserInfo]
  /\ free \subseteq Infos
  /\ thr \in [Threads -> Thread]
  /\ \A t \in Threads : thr[t].pc # "idle" => thr[t].info # None /\ thr[t].key # None
  /\ \A t \in Threads : thr[t].pc \in {"login", "map"} => thr[t].id \in Ids
  /\ check \in Check
  /\ msgs \in 0..MaxMsgs
  /\ logins \subseteq Keys \X Ids
  /\ tried \subseteq Keys \X Ids
  /\ silent \in [Keys -> 0..Limit]
  /\ raced \subseteq Keys
  /\ stale \in BOOLEAN

\* A listed user has an SUserInfo of its own, under its own key and out of the
\* pool, however its connection's end, the heartbeat and late handlers
\* interleave; and the object being put back belongs to no listed user.
InfoExclusive ==
  /\ \A k \in Listed : /\ info[m_mapUserList[k]].key = k
                       /\ m_mapUserList[k] \notin free
  /\ \A k, l \in Listed : m_mapUserList[k] = m_mapUserList[l] => k = l
  /\ \A t \in Threads : thr[t].pc \in {"eraseId", "put"} =>
       /\ thr[t].info \notin free
       /\ \A k \in Listed : m_mapUserList[k] # thr[t].info

\* An id that one connection alone has ever used, and that used no other, leads
\* to that connection from the reply until its user is deleted.  Id 0 is left
\* out: it is the id of a user that never logged in, whose deletion erases it.
UniqueIdFound ==
  ~stale => \A login \in logins :
    LET k == login[1]
        id == login[2]
    IN /\ k \in Listed
       /\ id # NoId
       /\ \A other \in tried : other[1] = k <=> other[2] = id
       => m_mapIdKey[id] = k

\* A check puts a user in its offline list only if Limit checks in a row have
\* passed since a handler last worked for him, whatever the handlers, the
\* connection's end and the pool do in between; except when that handler
\* cleared the counter between the load and the store of an increment.
OfflineJust ==
  [][\A k \in check'.offline \ check.offline :
       silent'[k] = Limit \/ k \in raced]_vars

\* A connection whose client falls silent is dropped.  Messages are bounded, so
\* every client falls silent here.
SilentDropped == \A k \in Keys : conn[k] = "up" ~> conn[k] = "down"

-----------------------------------------------------------------------------
\* What the code says of itself and does not keep.

=============================================================================
