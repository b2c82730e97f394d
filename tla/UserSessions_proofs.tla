------------------------ MODULE UserSessions_proofs ------------------------
(***************************************************************************)
(* Proofs about UserSessions, for every number of threads, users, ids and  *)
(* SUserInfo objects: the types, that a listed user owns its SUserInfo,    *)
(* that an id of one connection leads to it, and that the heartbeat puts   *)
(* nobody offline who was heard of.                                        *)
(***************************************************************************)
EXTENDS UserSessions, TLAPS

\* While the heartbeat thread counts, the list cannot change under it.
CheckHeld ==
  /\ ~ListLockFree => check.todo \subseteq Listed
  /\ check.pc = "store" => check.key \in check.todo

\* Only keys that were connected once are listed or worked for.
ConnOf ==
  /\ \A k \in Keys : conn[k] = "none" => k \notin Listed
  /\ \A t \in Threads : thr[t].pc # "idle" => conn[thr[t].key] # "none"

\* A thread in DeleteUser, between the list and the pool.
Deleting(t) == thr[t].pc \in {"eraseId", "put"}

\* An object out of the pool belongs to the key it holds: listed under it, or
\* on its way back in the hand of the one thread that took it off the list.
Owned ==
  /\ \A i \in Infos \ free :
       /\ info[i].key \in Keys
       /\ conn[info[i].key] # "none"
       /\ info[i].key \in Listed => m_mapUserList[info[i].key] = i
  /\ \A t \in Threads : Deleting(t) =>
       /\ info[thr[t].info].key = thr[t].key
       /\ thr[t].key \notin Listed
  /\ \A t, u \in Threads :
       Deleting(t) /\ Deleting(u) /\ thr[t].info = thr[u].info => t = u

\* Whatever leads from a user to an id or back was a login once.
Tried ==
  /\ logins \subseteq tried
  /\ \A t \in Threads : thr[t].pc = "map" => <<thr[t].key, thr[t].id>> \in tried
  /\ \A login \in tried : conn[login[1]] # "none"
  /\ \A id \in Ids : m_mapIdKey[id] # None => <<m_mapIdKey[id], id>> \in tried
  /\ ~stale => \A i \in Infos \ free :
       info[i].id # NoId => <<info[i].key, info[i].id>> \in tried

\* A counter, and the copy the heartbeat thread works on, is never ahead of the
\* checks passed in silence.
Counted ==
  /\ \A k \in Listed \ raced : info[m_mapUserList[k]].count <= silent[k]
  /\ check.pc = "store" /\ check.key \notin raced =>
       check.read <= silent[check.key]

IInv ==
  /\ TypeOK
  /\ CheckHeld
  /\ ConnOf
  /\ Owned
  /\ InfoExclusive
  /\ Tried
  /\ UniqueIdFound
  /\ Counted

-----------------------------------------------------------------------------
\* What the types say of a thread inside a call and of a listed user.

LEMMA ThreadFields ==
  ASSUME TypeOK, NEW t \in Threads
  PROVE  /\ thr[t].pc \in {"idle", "login", "map", "beat", "eraseId", "put"}
         /\ thr[t].pc # "idle" => thr[t].info \in Infos /\ thr[t].key \in Keys
         /\ thr[t].pc \in {"login", "map"} => thr[t].id \in Ids
<1>1. thr[t] \in Thread
  BY DEF TypeOK
<1> QED
  BY <1>1 DEF TypeOK, Thread

LEMMA InfoFields ==
  ASSUME TypeOK, NEW i \in Infos
  PROVE  /\ info[i].key \in Keys \cup {None}
         /\ info[i].id \in Ids \cup {NoId}
         /\ info[i].count \in 0..Limit
<1>1. info[i] \in UserInfo
  BY DEF TypeOK
<1> QED
  BY <1>1 DEF UserInfo

LEMMA ListedFields ==
  ASSUME TypeOK, InfoExclusive, NEW k \in Listed
  PROVE  /\ k \in Keys
         /\ m_mapUserList[k] \in Infos
         /\ m_mapUserList[k] \notin free
         /\ info[m_mapUserList[k]].key = k
         /\ info[m_mapUserList[k]].count \in 0..Limit
<1>1. k \in Keys /\ m_mapUserList[k] \in Infos
  BY DEF TypeOK, Listed
<1> QED
  BY <1>1, InfoFields DEF InfoExclusive

LEMMA CheckFields ==
  ASSUME TypeOK
  PROVE  /\ check.pc \in {"wait", "count", "store", "drop"}
         /\ check.todo \subseteq Keys
         /\ check.key \in Keys \cup {None}
         /\ check.read \in Nat
         /\ check.offline \subseteq Keys
<1>1. check \in Check
  BY DEF TypeOK
<1> QED
  BY <1>1 DEF Check

\* Next1 keeps a counter within the limit and does not disturb an order.
LEMMA Next1Facts ==
  ASSUME NEW m \in Nat, NEW n \in Nat
  PROVE  /\ Next1(m) \in 0..Limit
         /\ m <= n => Next1(m) <= Next1(n)
BY SessionAssumption DEF Next1

LEMMA IdleThread == Idle \in Thread
BY DEF Idle, Thread

LEMMA InitIInv == Init => IInv
<1> SUFFICES ASSUME Init PROVE IInv
  OBVIOUS
<1> USE DEF Init
<1>1. \A t \in Threads : thr[t] = Idle /\ thr[t].pc = "idle"
  BY DEF Idle
<1>2. Listed = {}
  BY DEF Listed
<1>3. TypeOK
  <2>1. Reset \in UserInfo
    BY SessionAssumption DEF Reset, UserInfo
  <2>2. Waiting \in Check
    BY DEF Waiting, Check
  <2>3. info \in [Infos -> UserInfo] /\ thr \in [Threads -> Thread]
    BY <2>1, IdleThread
  <2>4. /\ m_mapUserList \in [Keys -> Infos \cup {None}]
        /\ m_mapIdKey \in [Ids -> Keys \cup {None}]
        /\ silent \in [Keys -> 0..Limit]
        /\ conn \in [Keys -> {"none", "up", "closing", "down"}]
        /\ msgs \in 0..MaxMsgs
    BY SessionAssumption
  <2>5. /\ \A t \in Threads : thr[t].pc # "idle" => thr[t].info # None /\ thr[t].key # None
        /\ \A t \in Threads : thr[t].pc \in {"login", "map"} => thr[t].id \in Ids
    BY <1>1
  <2> QED
    BY <2>2, <2>3, <2>4, <2>5 DEF TypeOK
<1>4. CheckHeld /\ ConnOf /\ InfoExclusive /\ Counted
  BY <1>1, <1>2 DEF CheckHeld, ConnOf, InfoExclusive, Counted, ListLockFree, Waiting
<1>5. Owned /\ Tried /\ UniqueIdFound
  BY <1>1 DEF Owned, Tried, UniqueIdFound, Deleting
<1> QED
  BY <1>3, <1>4, <1>5 DEF IInv

-----------------------------------------------------------------------------
\* The list and the pool.

\* The new user gets an object of the pool, which nobody has.
LEMMA AddUserIInv ==
  ASSUME IInv, NEW k \in Keys, AddUser(k)
  PROVE  IInv'
<1> USE DEF IInv
<1>1. PICK i \in free :
        /\ free' = free \ {i}
        /\ info' = [info EXCEPT ![i] = [Reset EXCEPT !.key = k]]
        /\ m_mapUserList' = [m_mapUserList EXCEPT ![k] = i]
  BY DEF AddUser
<1>2. /\ conn[k] = "none" /\ ListLockFree
      /\ conn' = [conn EXCEPT ![k] = "up"]
      /\ UNCHANGED <<m_mapIdKey, thr, check, msgs, logins, tried, silent,
                     raced, stale>>
  BY DEF AddUser, history
<1>3. i \in Infos /\ i # None /\ k # None /\ free \subseteq Infos
  BY SessionAssumption DEF TypeOK
<1>4. /\ info'[i] = [key |-> k, id |-> NoId, count |-> 0]
      /\ \A j \in Infos \ {i} : info'[j] = info[j]
      /\ info' \in [Infos -> UserInfo]
  <2>1. [key |-> k, id |-> NoId, count |-> 0] \in UserInfo
    BY SessionAssumption DEF UserInfo
  <2>2. [Reset EXCEPT !.key = k] = [key |-> k, id |-> NoId, count |-> 0]
    BY DEF Reset
  <2> QED
    BY <1>1, <1>3, <2>1, <2>2 DEF TypeOK
<1>5. /\ Listed' = Listed \cup {k} /\ k \notin Listed
      /\ m_mapUserList'[k] = i
      /\ \A l \in Listed : l # k /\ m_mapUserList'[l] = m_mapUserList[l]
  BY <1>1, <1>2, <1>3 DEF Listed, TypeOK, ConnOf
<1>6. \A l \in Listed : m_mapUserList[l] \in Infos \ {i}
  BY <1>3, ListedFields
<1>7. \A t \in Threads : thr[t].pc # "idle" => thr[t].key # k /\ thr[t].key \in Keys
  BY <1>2, ThreadFields DEF ConnOf
<1>8. \A j \in Infos \ free : info[j].key # k /\ j # i
  BY <1>2 DEF Owned
<1>9. TypeOK'
  BY <1>1, <1>2, <1>3, <1>4 DEF TypeOK
<1>10. CheckHeld' /\ ConnOf'
  <2>1. \A l \in Keys : conn'[l] = "none" => conn[l] = "none" /\ l # k
    BY <1>2 DEF TypeOK
  <2>2. CheckHeld'
    BY <1>2, <1>5 DEF CheckHeld, ListLockFree
  <2> QED
    BY <1>2, <1>5, <1>7, <2>1, <2>2, ThreadFields DEF ConnOf
<1>11. \A t \in Threads : Deleting(t) => thr[t].info \in Infos \ free
  BY ThreadFields DEF Deleting, InfoExclusive
<1>12. Owned'
  <2>1. ASSUME NEW j \in Infos \ free'
        PROVE  /\ info'[j].key \in Keys
               /\ conn'[info'[j].key] # "none"
               /\ info'[j].key \in Listed' => m_mapUserList'[info'[j].key] = j
    <3>1. CASE j = i
      BY <1>2, <1>4, <1>5, <3>1 DEF TypeOK
    <3>2. CASE j # i
      <4>1. j \in Infos \ free
        BY <1>1, <3>2
      <4> QED
        BY <1>2, <1>4, <1>5, <1>8, <3>2, <4>1 DEF Owned, TypeOK
    <3> QED
      BY <3>1, <3>2
  <2>2. ASSUME NEW t \in Threads, Deleting(t)'
        PROVE  /\ info'[thr'[t].info].key = thr'[t].key
               /\ thr'[t].key \notin Listed'
    BY <1>2, <1>3, <1>4, <1>5, <1>7, <1>11, <2>2 DEF Owned, Deleting
  <2> QED
    BY <1>2, <2>1, <2>2 DEF Owned, Deleting
<1>13. InfoExclusive'
  <2>1. \A l \in Listed' : /\ info'[m_mapUserList'[l]].key = l
                           /\ m_mapUserList'[l] \notin free'
    BY <1>1, <1>4, <1>5, <1>6 DEF InfoExclusive
  <2>2. \A l, m \in Listed' : m_mapUserList'[l] = m_mapUserList'[m] => l = m
    BY <1>5, <1>6 DEF InfoExclusive
  <2>3. \A t \in Threads : Deleting(t)' =>
          /\ thr'[t].info \notin free'
          /\ \A l \in Listed' : m_mapUserList'[l] # thr'[t].info
    BY <1>1, <1>2, <1>5, <1>11 DEF InfoExclusive, Deleting
  <2> QED
    BY <2>1, <2>2, <2>3 DEF InfoExclusive, Deleting
<1>14. Tried'
  <2>1. \A login \in tried' : conn'[login[1]] # "none"
    BY <1>2 DEF Tried, TypeOK
  <2>2. ~stale' => \A j \in Infos \ free' :
          info'[j].id # NoId => <<info'[j].key, info'[j].id>> \in tried'
    BY <1>1, <1>2, <1>4 DEF Tried
  <2> QED
    BY <1>2, <2>1, <2>2 DEF Tried
<1>15. UniqueIdFound'
  <2>1. \A login \in logins : login[1] # k
    BY <1>2 DEF Tried
  <2> QED
    BY <1>2, <1>5, <2>1 DEF UniqueIdFound
<1>16. Counted'
  <2>1. silent[k] \in 0..Limit
    BY DEF TypeOK
  <2>2. \A l \in Listed' \ raced' : info'[m_mapUserList'[l]].count <= silent'[l]
    BY <1>2, <1>4, <1>5, <1>6, <2>1 DEF Counted
  <2> QED
    BY <1>2, <2>2 DEF Counted
<1> QED
  BY <1>9, <1>10, <1>12, <1>13, <1>14, <1>15, <1>16

\* A connection begins to end: nothing else looks at the difference.
LEMMA LeaveIInv ==
  ASSUME IInv, NEW k \in Keys, Leave(k)
  PROVE  IInv'
<1> USE DEF IInv
<1>1. /\ conn[k] = "up" /\ conn' = [conn EXCEPT ![k] = "closing"]
      /\ UNCHANGED <<m_mapUserList, m_mapIdKey, info, free, thr, check, msgs,
                     logins, tried, silent, raced, stale>>
  BY DEF Leave, history
<1>2. Listed' = Listed
  BY <1>1 DEF Listed
<1>3. \A l \in Keys : conn'[l] = "none" <=> conn[l] = "none"
  BY <1>1 DEF TypeOK
<1>4. TypeOK' /\ CheckHeld' /\ InfoExclusive' /\ UniqueIdFound' /\ Counted'
  BY <1>1, <1>2 DEF TypeOK, CheckHeld, ListLockFree, InfoExclusive,
                    UniqueIdFound, Counted
<1>5. ConnOf'
  BY <1>1, <1>2, <1>3, ThreadFields DEF ConnOf
<1>6. Owned'
  BY <1>1, <1>2, <1>3 DEF Owned, Deleting
<1>7. Tried'
  <2>1. \A login \in tried : login[1] \in Keys
    BY DEF TypeOK
  <2> QED
    BY <1>1, <1>3, <2>1 DEF Tried
<1> QED
  BY <1>4, <1>5, <1>6, <1>7

\* DeleteUser takes the user off the list, the heartbeat thread's call included:
\* his object is now in the hand of this thread alone.
LEMMA EraseIInv ==
  ASSUME IInv, NEW t \in Threads, NEW k \in Keys, Erase(t, k), conn[k] # "none",
         check' \in Check, check'.pc \in {"wait", "drop"}
  PROVE  IInv'
<1> USE DEF IInv
<1>1. /\ thr[t].pc = "idle"
      /\ conn' = [conn EXCEPT ![k] = "down"]
      /\ m_mapUserList' = [m_mapUserList EXCEPT ![k] = None]
      /\ UNCHANGED <<m_mapIdKey, info, free, msgs, logins, tried, silent,
                     raced, stale>>
  BY DEF Erase, history
<1>2. /\ Listed' = Listed \ {k}
      /\ \A l \in Listed' : m_mapUserList'[l] = m_mapUserList[l]
  BY <1>1 DEF Listed, TypeOK
<1>3. \A l \in Keys : conn'[l] = "none" <=> conn[l] = "none"
  BY <1>1 DEF TypeOK
<1>4. k # None /\ NoId \in Ids \cup {NoId}
  BY SessionAssumption
<1>5. /\ thr' \in [Threads -> Thread]
      /\ \A u \in Threads \ {t} : thr'[u] = thr[u]
      /\ \/ thr'[t] = thr[t] /\ k \notin Listed
         \/ /\ k \in Listed
            /\ thr'[t] = [pc |-> "eraseId", key |-> k,
                          info |-> m_mapUserList[k], id |-> NoId]
  <2>1. CASE k \notin Listed
    <3>1. thr' = thr
      BY <2>1 DEF Erase, Listed
    <3> QED
      BY <2>1, <3>1 DEF TypeOK
  <2>2. CASE k \in Listed
    <3> DEFINE x == [pc |-> "eraseId", key |-> k, info |-> m_mapUserList[k], id |-> NoId]
    <3>1. thr' = [thr EXCEPT ![t] = x]
      BY <2>2 DEF Erase, Listed
    <3>2. x \in Thread
      BY <2>2, ListedFields DEF Thread
    <3> HIDE DEF x
    <3>3. thr' \in [Threads -> Thread] /\ thr'[t] = x
      BY <3>1, <3>2 DEF TypeOK
    <3>4. \A u \in Threads \ {t} : thr'[u] = thr[u]
      BY <3>1 DEF TypeOK
    <3> QED
      BY <2>2, <3>3, <3>4 DEF x
  <2> QED
    BY <2>1, <2>2
<1>6. k \in Listed => /\ m_mapUserList[k] \in Infos \ free
                      /\ m_mapUserList[k] # None
                      /\ info[m_mapUserList[k]].key = k
  BY ListedFields, SessionAssumption
<1>7. TypeOK'
  <2>1. \A u \in Threads : thr'[u].pc # "idle" =>
          thr'[u].info # None /\ thr'[u].key # None
    BY <1>1, <1>4, <1>5, <1>6 DEF TypeOK
  <2>2. \A u \in Threads : thr'[u].pc \in {"login", "map"} => thr'[u].id \in Ids
    BY <1>1, <1>5 DEF TypeOK
  <2> QED
    BY <1>1, <1>5, <2>1, <2>2 DEF TypeOK
<1>8. CheckHeld'
  BY DEF CheckHeld, ListLockFree
<1>9. ConnOf'
  <2>1. \A u \in Threads : thr[u].pc # "idle" => thr[u].key \in Keys
    BY ThreadFields
  <2> QED
    BY <1>1, <1>2, <1>3, <1>5, <2>1 DEF ConnOf
<1>10. \A u \in Threads : thr'[u].pc \in {"eraseId", "put"} =>
         \/ u # t /\ Deleting(u)
         \/ u = t /\ k \in Listed /\ thr'[u].info = m_mapUserList[k] /\ thr'[u].key = k
  BY <1>1, <1>5 DEF Deleting
<1>11. Owned'
  <2>1. ASSUME NEW i \in Infos \ free'
        PROVE  /\ info'[i].key \in Keys
               /\ conn'[info'[i].key] # "none"
               /\ info'[i].key \in Listed' => m_mapUserList'[info'[i].key] = i
    BY <1>1, <1>2, <1>3 DEF Owned
  <2>2. ASSUME NEW u \in Threads, Deleting(u)'
        PROVE  /\ info'[thr'[u].info].key = thr'[u].key
               /\ thr'[u].key \notin Listed'
    BY <1>1, <1>2, <1>5, <1>6, <1>10, <2>2 DEF Owned, Deleting
  <2>3. ASSUME NEW u \in Threads, NEW v \in Threads, Deleting(u)', Deleting(v)',
               thr'[u].info = thr'[v].info
        PROVE  u = v
    BY <1>5, <1>10, <2>3 DEF Owned, Deleting, InfoExclusive
  <2> QED
    BY <2>1, <2>2, <2>3 DEF Owned, Deleting
<1>12. InfoExclusive'
  <2>1. \A l \in Listed' : /\ info'[m_mapUserList'[l]].key = l
                           /\ m_mapUserList'[l] \notin free'
    BY <1>1, <1>2 DEF InfoExclusive
  <2>2. \A l, m \in Listed' : m_mapUserList'[l] = m_mapUserList'[m] => l = m
    BY <1>2 DEF InfoExclusive
  <2>3. ASSUME NEW u \in Threads, Deleting(u)'
        PROVE  /\ thr'[u].info \notin free'
               /\ \A l \in Listed' : m_mapUserList'[l] # thr'[u].info
    BY <1>1, <1>2, <1>5, <1>6, <1>10, <2>3 DEF InfoExclusive, Deleting
  <2> QED
    BY <2>1, <2>2, <2>3 DEF InfoExclusive, Deleting
<1>13. Tried'
  <2>1. \A login \in tried : login[1] \in Keys
    BY DEF TypeOK
  <2>2. \A u \in Threads : thr'[u].pc = "map" => thr'[u] = thr[u]
    BY <1>5
  <2> QED
    BY <1>1, <1>3, <2>1, <2>2 DEF Tried
<1>14. UniqueIdFound' /\ Counted'
  BY <1>1, <1>2 DEF UniqueIdFound, Counted
<1> QED
  BY <1>7, <1>8, <1>9, <1>11, <1>12, <1>13, <1>14

LEMMA DeleteUserIInv ==
  ASSUME IInv, NEW t \in Threads, NEW k \in Keys, DeleteUser(t, k)
  PROVE  IInv'
<1>1. conn[k] # "none" /\ Erase(t, k) /\ check' = check
  BY DEF DeleteUser
<1>2. check \in Check /\ check.pc \in {"wait", "drop"}
  BY <1>1 DEF IInv, TypeOK, Erase, ListLockFree
<1> QED
  BY <1>1, <1>2, EraseIInv

\* What a step leaves alone as long as it moves neither the list nor the pool,
\* keeps the keys in the objects and brings no thread into DeleteUser.
LEMMA StructureKept ==
  ASSUME ConnOf, Owned, InfoExclusive,
         UNCHANGED <<conn, m_mapUserList, free>>,
         \A i \in Infos : info'[i].key = info[i].key,
         \A u \in Threads : thr'[u].pc # "idle" => conn[thr'[u].key] # "none",
         \A u \in Threads : Deleting(u)' =>
           /\ Deleting(u)
           /\ thr[u].info \in Infos
           /\ thr'[u].info = thr[u].info
           /\ thr'[u].key = thr[u].key,
         \A k \in Listed : m_mapUserList[k] \in Infos
  PROVE  ConnOf' /\ Owned' /\ InfoExclusive' /\ Listed' = Listed
<1>1. Listed' = Listed
  BY DEF Listed
<1>2. ConnOf'
  BY <1>1 DEF ConnOf
<1>3. Owned'
  <2>1. \A i \in Infos \ free' :
          /\ info'[i].key \in Keys
          /\ conn'[info'[i].key] # "none"
          /\ info'[i].key \in Listed' => m_mapUserList'[info'[i].key] = i
    BY <1>1 DEF Owned
  <2>2. ASSUME NEW u \in Threads, Deleting(u)'
        PROVE  /\ info'[thr'[u].info].key = thr'[u].key
               /\ thr'[u].key \notin Listed'
    BY <1>1, <2>2 DEF Owned
  <2>3. ASSUME NEW u \in Threads, NEW v \in Threads, Deleting(u)', Deleting(v)',
               thr'[u].info = thr'[v].info
        PROVE  u = v
    BY <2>3 DEF Owned
  <2> QED
    BY <2>1, <2>2, <2>3 DEF Owned
<1>4. InfoExclusive'
  <2>1. \A k \in Listed' : /\ info'[m_mapUserList'[k]].key = k
                           /\ m_mapUserList'[k] \notin free'
    BY <1>1 DEF InfoExclusive
  <2>2. ASSUME NEW u \in Threads, Deleting(u)'
        PROVE  /\ thr'[u].info \notin free'
               /\ \A k \in Listed' : m_mapUserList'[k] # thr'[u].info
    BY <1>1, <2>2 DEF InfoExclusive, Deleting
  <2> QED
    BY <1>1, <2>1, <2>2 DEF InfoExclusive, Deleting
<1> QED
  BY <1>1, <1>2, <1>3, <1>4

\* The id erased is one its user logged in with: no other user's login is lost,
\* if nobody else used the id.
LEMMA EraseIdIInv ==
  ASSUME IInv, NEW t \in Threads, EraseId(t)
  PROVE  IInv'
<1> USE DEF IInv
<1> DEFINE i == thr[t].info
           gone == info[i].id
<1>1. /\ thr[t].pc = "eraseId"
      /\ m_mapIdKey' = [id \in Ids |-> IF id = gone THEN None ELSE m_mapIdKey[id]]
      /\ thr' = [thr EXCEPT ![t].pc = "put"]
      /\ UNCHANGED <<conn, m_mapUserList, info, free, check, msgs, logins,
                     tried, silent, raced, stale>>
  BY DEF EraseId, history
<1>2. /\ thr' \in [Threads -> Thread]
      /\ thr'[t].pc = "put" /\ thr'[t].info = thr[t].info
      /\ thr'[t].key = thr[t].key /\ thr'[t].id = thr[t].id
      /\ \A u \in Threads \ {t} : thr'[u] = thr[u]
  BY <1>1 DEF TypeOK, Thread
<1>3. Deleting(t) /\ i \in Infos \ free /\ thr[t].key \in Keys
  BY <1>1, ThreadFields DEF Deleting, InfoExclusive
<1>4. TypeOK'
  <2>1. m_mapIdKey' \in [Ids -> Keys \cup {None}]
    BY <1>1 DEF TypeOK
  <2>2. \A u \in Threads : thr'[u].pc # "idle" =>
          thr'[u].info # None /\ thr'[u].key # None
    BY <1>1, <1>2 DEF TypeOK
  <2>3. \A u \in Threads : thr'[u].pc \in {"login", "map"} => thr'[u].id \in Ids
    BY <1>2 DEF TypeOK
  <2> QED
    BY <1>1, <1>2, <2>1, <2>2, <2>3 DEF TypeOK
<1>5. ConnOf' /\ Owned' /\ InfoExclusive' /\ Listed' = Listed
  <2>1. \A u \in Threads : thr'[u].pc # "idle" => conn[thr'[u].key] # "none"
    BY <1>1, <1>2 DEF ConnOf
  <2>2. \A u \in Threads : Deleting(u)' =>
          /\ Deleting(u) /\ thr[u].info \in Infos
          /\ thr'[u].info = thr[u].info /\ thr'[u].key = thr[u].key
    BY <1>2, <1>3, ThreadFields DEF Deleting
  <2> QED
    BY <1>1, <2>1, <2>2, ListedFields, StructureKept
<1>6. CheckHeld' /\ Counted'
  BY <1>1, <1>5 DEF CheckHeld, ListLockFree, Counted
<1>7. Tried'
  <2>1. \A u \in Threads : thr'[u].pc = "map" => thr'[u] = thr[u]
    BY <1>2
  <2>2. \A id \in Ids : m_mapIdKey'[id] # None => <<m_mapIdKey'[id], id>> \in tried
    BY <1>1 DEF Tried
  <2> QED
    BY <1>1, <2>1, <2>2 DEF Tried
<1>8. UniqueIdFound'
  <2> SUFFICES ASSUME ~stale, NEW login \in logins,
                      login[1] \in Listed, login[2] # NoId,
                      \A other \in tried : other[1] = login[1] <=> other[2] = login[2]
               PROVE  m_mapIdKey'[login[2]] = login[1]
    BY <1>1, <1>5 DEF UniqueIdFound
  <2>1. login[2] \in Ids
    BY DEF TypeOK
  <2>2. m_mapIdKey[login[2]] = login[1]
    BY DEF UniqueIdFound
  <2>3. ASSUME login[2] = gone PROVE FALSE
    <3>1. <<thr[t].key, gone>> \in tried
      BY <1>3, <2>3 DEF Tried, Owned
    <3>2. thr[t].key = login[1]
      BY <2>3, <3>1
    <3> QED
      BY <1>3, <3>2 DEF Owned
  <2> QED
    BY <1>1, <2>1, <2>2, <2>3
<1> QED
  BY <1>4, <1>5, <1>6, <1>7, <1>8

\* The object goes back: no listed user and no other thread has it.
LEMMA PutUserIInv ==
  ASSUME IInv, NEW t \in Threads, PutUser(t)
  PROVE  IInv'
<1> USE DEF IInv
<1>1. /\ thr[t].pc = "put"
      /\ free' = free \cup {thr[t].info}
      /\ thr' = [thr EXCEPT ![t] = Idle]
      /\ UNCHANGED <<conn, m_mapUserList, m_mapIdKey, info, check, msgs, logins,
                     tried, silent, raced, stale>>
  BY DEF PutUser, history
<1>2. /\ thr' \in [Threads -> Thread]
      /\ thr'[t].pc = "idle"
      /\ \A u \in Threads \ {t} : thr'[u] = thr[u]
  BY <1>1, IdleThread DEF TypeOK, Idle
<1>3. Deleting(t) /\ thr[t].info \in Infos
  BY <1>1, ThreadFields DEF Deleting
<1>4. Listed' = Listed
  BY <1>1 DEF Listed
<1>5. TypeOK'
  <2>1. \A u \in Threads : thr'[u].pc # "idle" => thr'[u] = thr[u]
    BY <1>2
  <2> QED
    BY <1>1, <1>2, <1>3, <2>1 DEF TypeOK
<1>6. CheckHeld' /\ Counted'
  BY <1>1, <1>4 DEF CheckHeld, ListLockFree, Counted
<1>7. ConnOf' /\ Tried'
  BY <1>1, <1>2, <1>4 DEF ConnOf, Tried
<1>8. \A u \in Threads : Deleting(u)' =>
        u # t /\ Deleting(u) /\ thr'[u] = thr[u] /\ thr[u].info # thr[t].info
  BY <1>2, <1>3 DEF Deleting, Owned
<1>9. Owned'
  <2>1. ASSUME NEW u \in Threads, NEW v \in Threads, Deleting(u)', Deleting(v)',
               thr'[u].info = thr'[v].info
        PROVE  u = v
    BY <1>8, <2>1 DEF Owned
  <2> QED
    BY <1>1, <1>4, <1>8, <2>1 DEF Owned
<1>10. InfoExclusive'
  <2>1. \A k \in Listed' : /\ info'[m_mapUserList'[k]].key = k
                           /\ m_mapUserList'[k] \notin free'
    BY <1>1, <1>3, <1>4 DEF InfoExclusive, Deleting
  <2>2. ASSUME NEW u \in Threads, Deleting(u)'
        PROVE  /\ thr'[u].info \notin free'
               /\ \A k \in Listed' : m_mapUserList'[k] # thr'[u].info
    BY <1>1, <1>4, <1>8, <2>2 DEF InfoExclusive, Deleting
  <2> QED
    BY <1>1, <1>4, <2>1, <2>2 DEF InfoExclusive, Deleting
<1>11. UniqueIdFound'
  BY <1>1, <1>4 DEF UniqueIdFound
<1> QED
  BY <1>5, <1>6, <1>7, <1>9, <1>10, <1>11

-----------------------------------------------------------------------------
\* The message handlers.

LEMMA LookupIInv ==
  ASSUME IInv, NEW t \in Threads, NEW k \in Keys, NEW id \in Ids \cup {NoId},
         NEW pc \in {"login", "beat"}, pc = "login" => id \in Ids,
         Lookup(t, k, id, pc)
  PROVE  IInv'
<1> USE DEF IInv
<1> DEFINE x == [pc |-> pc, key |-> k, id |-> id, info |-> m_mapUserList[k]]
<1>1. /\ thr[t].pc = "idle" /\ conn[k] # "none" /\ msgs < MaxMsgs
      /\ msgs' = msgs + 1
      /\ UNCHANGED <<conn, m_mapUserList, m_mapIdKey, info, free, check, logins,
                     tried, silent, raced, stale>>
  BY DEF Lookup, history
<1>2. \/ thr' = thr
      \/ k \in Listed /\ thr' = [thr EXCEPT ![t] = x]
  BY DEF Lookup, Listed
<1>3. k # None
  BY SessionAssumption
<1>4. k \in Listed => x \in Thread /\ m_mapUserList[k] # None
  BY ListedFields, SessionAssumption DEF Thread
<1>5. x.pc = pc /\ x.key = k /\ x.id = id /\ x.info = m_mapUserList[k]
  OBVIOUS
<1> HIDE DEF x
<1>6. /\ thr' \in [Threads -> Thread]
      /\ \A u \in Threads :
           thr'[u] = thr[u] \/ (u = t /\ k \in Listed /\ thr'[u] = x)
  <2> thr \in [Threads -> Thread]
    BY DEF TypeOK
  <2>1. CASE thr' = thr
    BY <2>1
  <2>2. CASE k \in Listed /\ thr' = [thr EXCEPT ![t] = x]
    BY <1>4, <2>2
  <2> QED
    BY <1>2, <2>1, <2>2
<1>7. TypeOK'
  <2>1. msgs' \in 0..MaxMsgs
    BY <1>1, SessionAssumption DEF TypeOK
  <2>2. \A u \in Threads : thr'[u].pc # "idle" =>
          thr'[u].info # None /\ thr'[u].key # None
    BY <1>3, <1>4, <1>5, <1>6 DEF TypeOK
  <2>3. \A u \in Threads : thr'[u].pc \in {"login", "map"} => thr'[u].id \in Ids
    BY <1>5, <1>6 DEF TypeOK
  <2> QED
    BY <1>1, <1>6, <2>1, <2>2, <2>3 DEF TypeOK
<1>8. ConnOf' /\ Owned' /\ InfoExclusive' /\ Listed' = Listed
  <2>1. \A u \in Threads : thr'[u].pc # "idle" => conn[thr'[u].key] # "none"
    BY <1>1, <1>5, <1>6 DEF ConnOf
  <2>2. \A u \in Threads : Deleting(u)' =>
          /\ Deleting(u) /\ thr[u].info \in Infos
          /\ thr'[u].info = thr[u].info /\ thr'[u].key = thr[u].key
    BY <1>5, <1>6, ThreadFields DEF Deleting
  <2> QED
    BY <1>1, <2>1, <2>2, ListedFields, StructureKept
<1>9. CheckHeld' /\ Counted' /\ UniqueIdFound'
  BY <1>1, <1>8 DEF CheckHeld, ListLockFree, Counted, UniqueIdFound
<1>10. Tried'
  <2>1. \A u \in Threads : thr'[u].pc = "map" => thr'[u] = thr[u]
    BY <1>5, <1>6
  <2> QED
    BY <1>1, <2>1 DEF Tried
<1> QED
  BY <1>7, <1>8, <1>9, <1>10

\* Clearing a counter: whoever owns the object starts again at zero, and an
\* increment under way on it is marked.
LEMMA ClearedFacts ==
  ASSUME IInv, NEW t \in Threads, thr[t].info \in Infos, Cleared(t),
         info'[thr[t].info].count = 0,
         \A i \in Infos \ {thr[t].info} : info'[i] = info[i],
         UNCHANGED <<m_mapUserList, free, check>>
  PROVE  /\ Counted'
         /\ silent' \in [Keys -> 0..Limit]
         /\ raced' \subseteq Keys
         /\ stale' \in BOOLEAN
         /\ ~stale' => ~stale /\ m_mapUserList[thr[t].key] = thr[t].info
<1> USE DEF IInv
<1> DEFINE i == thr[t].info
           owner == IF i \in free THEN None ELSE info[i].key
<1>1. /\ silent' = IF owner \in Keys THEN [silent EXCEPT ![owner] = 0] ELSE silent
      /\ raced' = IF check.pc = "store" /\ check.key = owner
                  THEN raced \cup {owner} ELSE raced \ {owner}
      /\ stale' = (stale \/ m_mapUserList[thr[t].key] # i)
  BY DEF Cleared
<1>2. silent \in [Keys -> 0..Limit] /\ raced \subseteq Keys /\ stale \in BOOLEAN
      /\ 0 \in 0..Limit
  BY SessionAssumption DEF TypeOK
<1>3. owner \in Keys => i \notin free /\ owner = info[i].key
  BY SessionAssumption
<1>4. check.pc = "store" => check.key \in Keys /\ check.key \in Listed
  BY CheckFields DEF CheckHeld, ListLockFree
<1> HIDE DEF owner
<1>5. raced' \subseteq Keys /\ silent' \in [Keys -> 0..Limit] /\ stale' \in BOOLEAN
  BY <1>1, <1>2, <1>4
<1>6. \A k \in Keys : silent'[k] = IF k = owner THEN 0 ELSE silent[k]
  BY <1>1, <1>2
<1>7. \A k \in Keys : k \notin raced' /\ k # owner => k \notin raced
  BY <1>1
<1>8. ASSUME NEW k \in Listed' \ raced'
      PROVE  info'[m_mapUserList'[k]].count <= silent'[k]
  <2>1. k \in Listed /\ k \in Keys
    BY DEF Listed
  <2>2. CASE m_mapUserList[k] = i
    <3>1. silent'[k] \in 0..Limit
      BY <1>5, <2>1
    <3> QED
      BY <2>2, <3>1
  <2>3. CASE m_mapUserList[k] # i
    <3>1. k # owner
      <4>1. SUFFICES ASSUME k = owner PROVE FALSE
        OBVIOUS
      <4>2. i \in Infos \ free /\ info[i].key = k
        BY <1>3, <2>1, <4>1
      <4> QED
        BY <2>1, <2>3, <4>2 DEF Owned
    <3>2. info'[m_mapUserList'[k]] = info[m_mapUserList[k]]
      BY <2>1, <2>3, ListedFields
    <3>3. k \notin raced
      BY <1>7, <2>1, <3>1
    <3> QED
      BY <1>6, <2>1, <3>1, <3>2, <3>3 DEF Counted
  <2> QED
    BY <2>2, <2>3
<1>9. check'.pc = "store" /\ check'.key \notin raced' =>
        check'.read <= silent'[check'.key]
  <2> SUFFICES ASSUME check.pc = "store", check.key \notin raced'
               PROVE  check.read <= silent'[check.key]
    OBVIOUS
  <2>1. check.key # owner
    BY <1>1
  <2>2. check.key \notin raced /\ silent'[check.key] = silent[check.key]
    BY <1>4, <1>6, <1>7, <2>1
  <2> QED
    BY <2>2 DEF Counted
<1>10. Counted'
  BY <1>8, <1>9 DEF Counted
<1>11. ~stale' => ~stale /\ m_mapUserList[thr[t].key] = thr[t].info
  BY <1>1
<1> QED
  BY <1>5, <1>10, <1>11

LEMMA LoginIInv ==
  ASSUME IInv, NEW t \in Threads, Login(t)
  PROVE  IInv'
<1> USE DEF IInv
<1> DEFINE i == thr[t].info
           login == <<thr[t].key, thr[t].id>>
<1>1. /\ thr[t].pc = "login"
      /\ info' = [info EXCEPT ![i].count = 0, ![i].id = thr[t].id]
      /\ tried' = tried \cup {login}
      /\ Cleared(t)
      /\ thr' = [thr EXCEPT ![t].pc = "map"]
      /\ UNCHANGED <<conn, m_mapUserList, m_mapIdKey, free, check, msgs, logins>>
  BY DEF Login
<1>2. i \in Infos /\ thr[t].key \in Keys /\ thr[t].id \in Ids
  BY <1>1, ThreadFields
<1>3. /\ info'[i].count = 0 /\ info'[i].id = thr[t].id /\ info'[i].key = info[i].key
      /\ \A j \in Infos \ {i} : info'[j] = info[j]
      /\ info' \in [Infos -> UserInfo]
  <2>1. info \in [Infos -> UserInfo] /\ 0 \in 0..Limit
    BY SessionAssumption DEF TypeOK
  <2> QED
    BY <1>1, <1>2, <2>1 DEF UserInfo
<1>4. /\ thr' \in [Threads -> Thread]
      /\ thr'[t].pc = "map" /\ thr'[t].info = thr[t].info
      /\ thr'[t].key = thr[t].key /\ thr'[t].id = thr[t].id
      /\ \A u \in Threads \ {t} : thr'[u] = thr[u]
  BY <1>1 DEF TypeOK, Thread
<1>5. /\ Counted' /\ silent' \in [Keys -> 0..Limit]
      /\ raced' \subseteq Keys /\ stale' \in BOOLEAN
      /\ ~stale' => ~stale /\ m_mapUserList[thr[t].key] = i
  BY <1>1, <1>2, <1>3, ClearedFacts
<1>6. TypeOK'
  <2>1. \A u \in Threads : thr'[u].pc # "idle" =>
          thr'[u].info # None /\ thr'[u].key # None
    BY <1>1, <1>4 DEF TypeOK
  <2>2. \A u \in Threads : thr'[u].pc \in {"login", "map"} => thr'[u].id \in Ids
    BY <1>2, <1>4 DEF TypeOK
  <2>3. tried' \subseteq Keys \X Ids
    BY <1>1, <1>2 DEF TypeOK
  <2> QED
    BY <1>1, <1>3, <1>4, <1>5, <2>1, <2>2, <2>3 DEF TypeOK
<1>7. ConnOf' /\ Owned' /\ InfoExclusive' /\ Listed' = Listed
  <2>1. \A u \in Threads : thr'[u].pc # "idle" => conn[thr'[u].key] # "none"
    BY <1>1, <1>4 DEF ConnOf
  <2>2. \A u \in Threads : Deleting(u)' =>
          /\ Deleting(u) /\ thr[u].info \in Infos
          /\ thr'[u].info = thr[u].info /\ thr'[u].key = thr[u].key
    BY <1>4, ThreadFields DEF Deleting
  <2>3. \A j \in Infos : info'[j].key = info[j].key
    BY <1>3
  <2> QED
    BY <1>1, <2>1, <2>2, <2>3, ListedFields, StructureKept
<1>8. CheckHeld'
  BY <1>1, <1>7 DEF CheckHeld, ListLockFree
<1>9. Tried'
  <2>1. \A u \in Threads : thr'[u].pc = "map" => <<thr'[u].key, thr'[u].id>> \in tried'
    BY <1>1, <1>4 DEF Tried
  <2>2. \A other \in tried' : conn'[other[1]] # "none"
    BY <1>1 DEF Tried, ConnOf
  <2>3. ASSUME ~stale', NEW j \in Infos \ free', info'[j].id # NoId
        PROVE  <<info'[j].key, info'[j].id>> \in tried'
    <3>1. CASE j = i
      <4>1. thr[t].key \in Listed
        BY <1>2, <1>5, <2>3, SessionAssumption DEF Listed
      <4>2. info[i].key = thr[t].key
        BY <1>5, <2>3, <4>1, ListedFields
      <4> QED
        BY <1>1, <1>3, <3>1, <4>2
    <3>2. CASE j # i
      BY <1>1, <1>3, <1>5, <2>3, <3>2 DEF Tried
    <3> QED
      BY <3>1, <3>2
  <2>4. \A id \in Ids : m_mapIdKey'[id] # None => <<m_mapIdKey'[id], id>> \in tried'
    BY <1>1 DEF Tried
  <2>5. logins' \subseteq tried'
    BY <1>1 DEF Tried
  <2> QED
    BY <2>1, <2>2, <2>3, <2>4, <2>5 DEF Tried
<1>10. UniqueIdFound'
  BY <1>1, <1>5, <1>7 DEF UniqueIdFound
<1> QED
  BY <1>5, <1>6, <1>7, <1>8, <1>9, <1>10

LEMMA BeatIInv ==
  ASSUME IInv, NEW t \in Threads, Beat(t)
  PROVE  IInv'
<1> USE DEF IInv
<1> DEFINE i == thr[t].info
<1>1. /\ thr[t].pc = "beat"
      /\ info' = [info EXCEPT ![i].count = 0]
      /\ Cleared(t)
      /\ thr' = [thr EXCEPT ![t] = Idle]
      /\ UNCHANGED <<conn, m_mapUserList, m_mapIdKey, free, check, msgs,
                     logins, tried>>
  BY DEF Beat
<1>2. i \in Infos
  BY <1>1, ThreadFields
<1>3. /\ info'[i].count = 0 /\ info'[i].id = info[i].id /\ info'[i].key = info[i].key
      /\ \A j \in Infos \ {i} : info'[j] = info[j]
      /\ info' \in [Infos -> UserInfo]
  <2>1. info \in [Infos -> UserInfo] /\ 0 \in 0..Limit
    BY SessionAssumption DEF TypeOK
  <2> QED
    BY <1>1, <1>2, <2>1 DEF UserInfo
<1>4. /\ thr' \in [Threads -> Thread]
      /\ thr'[t].pc = "idle"
      /\ \A u \in Threads \ {t} : thr'[u] = thr[u]
  BY <1>1, IdleThread DEF TypeOK, Idle
<1>5. \A u \in Threads : thr'[u].pc # "idle" => thr'[u] = thr[u]
  BY <1>4
<1>6. /\ Counted' /\ silent' \in [Keys -> 0..Limit]
      /\ raced' \subseteq Keys /\ stale' \in BOOLEAN
      /\ ~stale' => ~stale
  BY <1>1, <1>2, <1>3, ClearedFacts
<1>7. TypeOK'
  BY <1>1, <1>3, <1>4, <1>5, <1>6 DEF TypeOK
<1>8. ConnOf' /\ Owned' /\ InfoExclusive' /\ Listed' = Listed
  <2>1. \A u \in Threads : thr'[u].pc # "idle" => conn[thr'[u].key] # "none"
    BY <1>5 DEF ConnOf
  <2>2. \A u \in Threads : Deleting(u)' =>
          /\ Deleting(u) /\ thr[u].info \in Infos
          /\ thr'[u].info = thr[u].info /\ thr'[u].key = thr[u].key
    BY <1>5, ThreadFields DEF Deleting
  <2>3. \A j \in Infos : info'[j].key = info[j].key
    BY <1>3
  <2> QED
    BY <1>1, <2>1, <2>2, <2>3, ListedFields, StructureKept
<1>9. CheckHeld' /\ UniqueIdFound'
  BY <1>1, <1>6, <1>8 DEF CheckHeld, ListLockFree, UniqueIdFound
<1>10. Tried'
  <2>1. \A j \in Infos : info'[j].key = info[j].key /\ info'[j].id = info[j].id
    BY <1>3
  <2> QED
    BY <1>1, <1>5, <1>6, <2>1 DEF Tried
<1> QED
  BY <1>6, <1>7, <1>8, <1>9, <1>10

\* An entry of the id map is a login too: if this id is used by one connection
\* only, an entry that is kept is its own.
LEMMA MapIdIInv ==
  ASSUME IInv, NEW t \in Threads, MapId(t)
  PROVE  IInv'
<1> USE DEF IInv
<1> DEFINE key == thr[t].key
           id == thr[t].id
<1>1. /\ thr[t].pc = "map"
      /\ IF m_mapIdKey[id] = None
         THEN m_mapIdKey' = [m_mapIdKey EXCEPT ![id] = key]
         ELSE m_mapIdKey' = m_mapIdKey
      /\ logins' = logins \cup {<<key, id>>}
      /\ thr' = [thr EXCEPT ![t] = Idle]
      /\ UNCHANGED <<conn, m_mapUserList, info, free, check, msgs, tried, silent,
                     raced, stale>>
  BY DEF MapId
<1>2. key \in Keys /\ id \in Ids /\ <<key, id>> \in tried
  BY <1>1, ThreadFields DEF Tried
<1>3. /\ thr' \in [Threads -> Thread]
      /\ \A u \in Threads : thr'[u].pc # "idle" => thr'[u] = thr[u]
  BY <1>1, IdleThread DEF TypeOK, Idle
<1>4. /\ m_mapIdKey' \in [Ids -> Keys \cup {None}]
      /\ m_mapIdKey'[id] = IF m_mapIdKey[id] = None THEN key ELSE m_mapIdKey[id]
      /\ \A other \in Ids \ {id} : m_mapIdKey'[other] = m_mapIdKey[other]
  BY <1>1, <1>2 DEF TypeOK
<1>5. TypeOK'
  <2>1. logins' \subseteq Keys \X Ids
    BY <1>1, <1>2 DEF TypeOK
  <2> QED
    BY <1>1, <1>3, <1>4, <2>1 DEF TypeOK
<1>6. ConnOf' /\ Owned' /\ InfoExclusive' /\ Listed' = Listed
  <2>1. \A u \in Threads : thr'[u].pc # "idle" => conn[thr'[u].key] # "none"
    BY <1>3 DEF ConnOf
  <2>2. \A u \in Threads : Deleting(u)' =>
          /\ Deleting(u) /\ thr[u].info \in Infos
          /\ thr'[u].info = thr[u].info /\ thr'[u].key = thr[u].key
    BY <1>3, ThreadFields DEF Deleting
  <2> QED
    BY <1>1, <2>1, <2>2, ListedFields, StructureKept
<1>7. CheckHeld' /\ Counted'
  BY <1>1, <1>6 DEF CheckHeld, ListLockFree, Counted
<1>8. Tried'
  <2>1. \A other \in Ids : m_mapIdKey'[other] # None =>
          <<m_mapIdKey'[other], other>> \in tried
    BY <1>2, <1>4 DEF Tried
  <2>2. logins' \subseteq tried
    BY <1>1, <1>2 DEF Tried
  <2> QED
    BY <1>1, <1>3, <2>1, <2>2 DEF Tried
<1>9. UniqueIdFound'
  <2> SUFFICES ASSUME ~stale, NEW login \in logins',
                      login[1] \in Listed, login[2] # NoId,
                      \A other \in tried : other[1] = login[1] <=> other[2] = login[2]
               PROVE  m_mapIdKey'[login[2]] = login[1]
    BY <1>1, <1>6 DEF UniqueIdFound
  <2>1. CASE login = <<key, id>>
    <3>1. login[1] = key /\ login[2] = id
      BY <2>1
    <3>2. CASE m_mapIdKey[id] = None
      BY <1>4, <3>1, <3>2
    <3>3. CASE m_mapIdKey[id] # None
      <4>1. <<m_mapIdKey[id], id>> \in tried
        BY <1>2, <3>3 DEF Tried
      <4>2. m_mapIdKey[id] = key
        BY <3>1, <4>1
      <4> QED
        BY <1>4, <3>1, <3>3, <4>2
    <3> QED
      BY <3>2, <3>3
  <2>2. CASE login \in logins
    <3>1. login[1] \in Keys /\ login[2] \in Ids
      BY <2>2 DEF TypeOK
    <3>2. m_mapIdKey[login[2]] = login[1] /\ login[1] # None
      BY <2>2, <3>1, SessionAssumption DEF UniqueIdFound
    <3> QED
      BY <1>4, <3>1, <3>2
  <2> QED
    BY <1>1, <2>1, <2>2
<1> QED
  BY <1>5, <1>6, <1>7, <1>8, <1>9

-----------------------------------------------------------------------------
\* The heartbeat thread.

\* The steps that only move the heartbeat thread within its loop, holding
\* nothing a counter could outrun.
LEMMA CheckMoved ==
  ASSUME IInv, check' \in Check, CheckHeld',
         check'.pc = "store" /\ check'.key \notin raced =>
           check'.read <= silent[check'.key],
         UNCHANGED <<conn, m_mapUserList, m_mapIdKey, info, free, thr, msgs,
                     history>>
  PROVE  IInv'
<1> USE DEF IInv, history
<1>1. Listed' = Listed
  BY DEF Listed
<1>2. TypeOK'
  BY DEF TypeOK
<1>3. ConnOf' /\ Owned' /\ InfoExclusive' /\ Tried' /\ UniqueIdFound'
  BY <1>1 DEF ConnOf, Owned, Deleting, InfoExclusive, Tried, UniqueIdFound
<1>4. Counted'
  BY <1>1 DEF Counted
<1> QED
  BY <1>2, <1>3, <1>4

LEMMA StartCheckIInv == IInv /\ StartCheck => IInv'
<1> SUFFICES ASSUME IInv, StartCheck PROVE IInv'
  OBVIOUS
<1>1. /\ check' = [Waiting EXCEPT !.pc = "count", !.todo = Listed]
      /\ UNCHANGED <<conn, m_mapUserList, m_mapIdKey, info, free, thr, msgs,
                     history>>
  BY DEF StartCheck
<1>2. /\ check' = [pc |-> "count", todo |-> Listed, key |-> None, read |-> 0,
                   offline |-> {}]
      /\ Listed \subseteq Keys
  BY <1>1 DEF Waiting, Listed
<1>3. check' \in Check /\ check'.pc = "count" /\ check'.todo = Listed
  BY <1>2 DEF Check
<1>4. CheckHeld'
  BY <1>1, <1>3 DEF CheckHeld, ListLockFree, Listed
<1> QED
  BY <1>1, <1>3, <1>4, CheckMoved

LEMMA LoadCountIInv ==
  ASSUME IInv, NEW k \in Keys, LoadCount(k)
  PROVE  IInv'
<1> DEFINE n == info[m_mapUserList[k]].count
<1>1. /\ check.pc = "count" /\ k \in check.todo
      /\ check' = [check EXCEPT !.pc = "store", !.key = k, !.read = n]
      /\ UNCHANGED <<conn, m_mapUserList, m_mapIdKey, info, free, thr, msgs,
                     history>>
  BY DEF LoadCount
<1>2. check.todo \subseteq Listed
  BY <1>1 DEF IInv, CheckHeld, ListLockFree
<1>3. n \in Nat
  BY <1>1, <1>2, ListedFields, SessionAssumption DEF IInv
<1> HIDE DEF n
<1>4. /\ check' \in Check /\ check'.pc = "store" /\ check'.key = k
      /\ check'.read = n /\ check'.todo = check.todo
  BY <1>1, <1>3 DEF IInv, TypeOK, Check
<1>5. CheckHeld'
  BY <1>1, <1>2, <1>4 DEF CheckHeld, Listed
<1>6. k \notin raced => n <= silent[k]
  BY <1>1, <1>2 DEF n, IInv, Counted
<1> QED
  BY <1>1, <1>4, <1>5, <1>6, CheckMoved

\* What the increment leaves, and whom it puts offline.
LEMMA StoreCountIInv ==
  ASSUME IInv, StoreCount
  PROVE  /\ IInv'
         /\ \A k \in check'.offline \ check.offline :
              silent'[k] = Limit \/ k \in raced
<1> USE DEF IInv
<1> DEFINE k == check.key
           i == m_mapUserList[k]
           n == Next1(check.read)
<1>1. /\ check.pc = "store"
      /\ info' = [info EXCEPT ![i].count = n]
      /\ silent' = [silent EXCEPT ![k] = Next1(silent[k])]
      /\ check' = [check EXCEPT !.pc = "count", !.key = None, !.read = 0,
                      !.todo = check.todo \ {k},
                      !.offline = IF n >= Limit THEN check.offline \cup {k}
                                                ELSE check.offline]
      /\ UNCHANGED <<conn, m_mapUserList, m_mapIdKey, free, thr, msgs,
                     logins, tried, raced, stale>>
  BY DEF StoreCount
<1>2. k \in check.todo /\ check.todo \subseteq Listed
  BY <1>1 DEF CheckHeld, ListLockFree
<1>3. /\ k \in Keys /\ k \in Listed
      /\ i \in Infos /\ i \notin free /\ info[i].key = k
      /\ check.read \in Nat /\ silent[k] \in Nat /\ n \in 0..Limit
      /\ Next1(silent[k]) \in 0..Limit
  <2>1. silent[k] \in 0..Limit
    BY <1>2, ListedFields DEF TypeOK
  <2> QED
    BY <1>2, <2>1, ListedFields, CheckFields, Next1Facts, SessionAssumption
<1>4. k \notin raced => n <= Next1(silent[k])
  BY <1>1, <1>3, Next1Facts DEF Counted
<1>5. silent' \in [Keys -> 0..Limit] /\ silent'[k] = Next1(silent[k])
      /\ \A l \in Keys \ {k} : silent'[l] = silent[l]
  BY <1>1, <1>3 DEF TypeOK
<1> HIDE DEF n, i, k
<1>6. /\ info'[i].count = n /\ info'[i].id = info[i].id /\ info'[i].key = info[i].key
      /\ \A j \in Infos \ {i} : info'[j] = info[j]
      /\ info' \in [Infos -> UserInfo]
  <2>1. info \in [Infos -> UserInfo]
    BY DEF TypeOK
  <2> QED
    BY <1>1, <1>3, <2>1 DEF UserInfo
<1>7. /\ check' \in Check
      /\ check'.pc = "count"
      /\ check'.todo = check.todo \ {k}
      /\ check'.offline = IF n >= Limit THEN check.offline \cup {k} ELSE check.offline
  BY <1>1, <1>3 DEF TypeOK, Check
<1>8. TypeOK'
  BY <1>1, <1>5, <1>6, <1>7 DEF TypeOK
<1>9. ConnOf' /\ Owned' /\ InfoExclusive' /\ Listed' = Listed
  <2>1. \A u \in Threads : thr'[u].pc # "idle" => conn[thr'[u].key] # "none"
    BY <1>1 DEF ConnOf
  <2>2. \A u \in Threads : Deleting(u)' =>
          /\ Deleting(u) /\ thr[u].info \in Infos
          /\ thr'[u].info = thr[u].info /\ thr'[u].key = thr[u].key
    BY <1>1, ThreadFields DEF Deleting
  <2>3. \A j \in Infos : info'[j].key = info[j].key
    BY <1>6
  <2> QED
    BY <1>1, <2>1, <2>2, <2>3, ListedFields, StructureKept
<1>10. CheckHeld' /\ UniqueIdFound'
  BY <1>1, <1>2, <1>7, <1>9 DEF CheckHeld, UniqueIdFound
<1>11. Tried'
  <2>1. \A j \in Infos : info'[j].key = info[j].key /\ info'[j].id = info[j].id
    BY <1>6
  <2> QED
    BY <1>1, <2>1 DEF Tried
<1>12. Counted'
  <2>1. ASSUME NEW l \in Listed \ raced
        PROVE  info'[m_mapUserList[l]].count <= silent'[l]
    <3>1. CASE l = k
      BY <1>4, <1>5, <1>6, <2>1, <3>1 DEF i
    <3>2. CASE l # k
      <4>1. l \in Keys /\ m_mapUserList[l] \in Infos /\ m_mapUserList[l] # i
        BY <1>3, <2>1, <3>2, ListedFields DEF InfoExclusive, i
      <4> QED
        BY <1>5, <1>6, <2>1, <3>2, <4>1 DEF Counted
    <3> QED
      BY <3>1, <3>2
  <2> QED
    BY <1>1, <1>7, <1>9, <2>1 DEF Counted
<1>13. ASSUME NEW l \in check'.offline \ check.offline
       PROVE  silent'[l] = Limit \/ l \in raced
  <2>1. l = k /\ n >= Limit
    BY <1>7
  <2> QED
    BY <1>3, <1>4, <1>5, <2>1, SessionAssumption
<1> QED
  BY <1>8, <1>9, <1>10, <1>11, <1>12, <1>13

LEMMA EndCheckIInv == IInv /\ EndCheck => IInv' /\ check'.offline = check.offline
<1> SUFFICES ASSUME IInv, EndCheck PROVE IInv' /\ check'.offline = check.offline
  OBVIOUS
<1>1. /\ check' = [check EXCEPT !.pc = "drop"]
      /\ UNCHANGED <<conn, m_mapUserList, m_mapIdKey, info, free, thr, msgs,
                     history>>
  BY DEF EndCheck
<1>2. check' \in Check /\ check'.pc = "drop" /\ check'.offline = check.offline
  BY <1>1 DEF IInv, TypeOK, Check
<1>3. CheckHeld'
  BY <1>2 DEF CheckHeld, ListLockFree
<1> QED
  BY <1>1, <1>2, <1>3, CheckMoved

LEMMA DropIInv ==
  ASSUME IInv, NEW k \in Keys, Drop(k)
  PROVE  IInv' /\ check'.offline \subseteq check.offline
<1>1. /\ check.pc = "drop"
      /\ check' = [check EXCEPT !.offline = check.offline \ {k}]
  BY DEF Drop
<1>2. /\ check' \in Check /\ check'.pc = "drop"
      /\ check'.offline = check.offline \ {k}
  BY <1>1 DEF IInv, TypeOK, Check
<1>3. CASE conn[k] \in {"up", "closing"} /\ Erase(Heart, k)
  <2>1. Heart \in Threads /\ conn[k] # "none"
    BY <1>3 DEF Threads
  <2> QED
    BY <1>2, <1>3, <2>1, EraseIInv
<1>4. CASE UNCHANGED <<conn, m_mapUserList, m_mapIdKey, info, free, thr, msgs,
                       history>>
  <2>1. CheckHeld'
    BY <1>2 DEF CheckHeld, ListLockFree
  <2> QED
    BY <1>2, <1>4, <2>1, CheckMoved
<1> QED
  BY <1>2, <1>3, <1>4 DEF Drop

LEMMA EndDropIInv == IInv /\ EndDrop => IInv' /\ check'.offline = {}
<1> SUFFICES ASSUME IInv, EndDrop PROVE IInv' /\ check'.offline = {}
  OBVIOUS
<1>1. /\ check' = Waiting
      /\ UNCHANGED <<conn, m_mapUserList, m_mapIdKey, info, free, thr, msgs,
                     history>>
  BY DEF EndDrop
<1>2. check' \in Check /\ check'.pc = "wait" /\ check'.offline = {}
  BY <1>1 DEF Check, Waiting
<1>3. CheckHeld'
  BY <1>2 DEF CheckHeld, ListLockFree
<1> QED
  BY <1>1, <1>2, <1>3, CheckMoved

-----------------------------------------------------------------------------
\* Every step keeps the invariant, and none but StoreCount puts a user offline.
LEMMA NextIInv ==
  ASSUME IInv, Next
  PROVE  /\ IInv'
         /\ \A k \in check'.offline \ check.offline :
              silent'[k] = Limit \/ k \in raced
<1> DEFINE Just == \A k \in check'.offline \ check.offline :
                     silent'[k] = Limit \/ k \in raced
<1>1. ASSUME NEW k \in Keys, AddUser(k) \/ Leave(k) PROVE IInv' /\ Just
  <2>1. check' = check
    BY <1>1 DEF AddUser, Leave
  <2> QED
    BY <1>1, <2>1, AddUserIInv, LeaveIInv
<1>2. ASSUME NEW k \in Keys, NEW t \in Threads,
             DeleteUser(t, k) \/ HandleHeartbeatNt(t, k)
      PROVE  IInv' /\ Just
  <2>1. check' = check
    BY <1>2 DEF DeleteUser, HandleHeartbeatNt, Lookup
  <2>2. CASE DeleteUser(t, k)
    BY <2>1, <2>2, DeleteUserIInv
  <2>3. CASE HandleHeartbeatNt(t, k)
    <3>1. Lookup(t, k, NoId, "beat")
      BY <2>3 DEF HandleHeartbeatNt
    <3> QED
      BY <2>1, <3>1, LookupIInv
  <2> QED
    BY <1>2, <2>2, <2>3
<1>3. ASSUME NEW k \in Keys, NEW t \in Threads, NEW id \in Ids,
             HandleLoginRq(t, k, id)
      PROVE  IInv' /\ Just
  <2>1. Lookup(t, k, id, "login") /\ check' = check
    BY <1>3 DEF HandleLoginRq, Lookup
  <2> QED
    BY <2>1, LookupIInv
<1>4. ASSUME NEW t \in Threads, Step(t) PROVE IInv' /\ Just
  <2>1. check' = check
    BY <1>4 DEF Step, EraseId, PutUser, Login, MapId, Beat
  <2> QED
    BY <1>4, <2>1, EraseIdIInv, PutUserIInv, LoginIInv, MapIdIInv, BeatIInv DEF Step
<1>5. ASSUME HeartbeatHandle PROVE IInv' /\ Just
  <2>1. CASE StartCheck
    <3>1. check'.offline = {}
      BY <2>1 DEF StartCheck, Waiting
    <3> QED
      BY <2>1, <3>1, StartCheckIInv
  <2>2. CASE EndCheck
    BY <2>2, EndCheckIInv
  <2>3. CASE StoreCount
    BY <2>3, StoreCountIInv
  <2>4. CASE EndDrop
    BY <2>4, EndDropIInv
  <2>5. ASSUME NEW k \in Keys, LoadCount(k) PROVE IInv' /\ Just
    <3>1. check'.offline = check.offline
      BY <2>5 DEF LoadCount, IInv, TypeOK, Check
    <3> QED
      BY <2>5, <3>1, LoadCountIInv
  <2>6. ASSUME NEW k \in Keys, Drop(k) PROVE IInv' /\ Just
    BY <2>6, DropIInv
  <2> QED
    BY <1>5, <2>1, <2>2, <2>3, <2>4, <2>5, <2>6 DEF HeartbeatHandle
<1> QED
  BY <1>1, <1>2, <1>3, <1>4, <1>5 DEF Next

LEMMA StutterIInv == IInv /\ UNCHANGED vars => IInv'
BY DEF vars, IInv, TypeOK, CheckHeld, ListLockFree, ConnOf, Owned, Deleting,
       InfoExclusive, Tried, UniqueIdFound, Counted, Listed

\* The inductive invariant holds in every state.
LEMMA Invariant == Spec => []IInv
<1>1. IInv /\ [Next]_vars => IInv'
  BY NextIInv, StutterIInv
<1> QED
  BY <1>1, InitIInv, PTL DEF Spec

\* The variables keep their types; a thread inside a call has a user.
THEOREM TypeCorrect == Spec => []TypeOK
<1>1. IInv => TypeOK
  BY DEF IInv
<1> QED
  BY <1>1, Invariant, PTL

\* A listed user has an SUserInfo of its own, under its key and out of the pool,
\* and the object a thread puts back is nobody's (AddUser, DeleteUser).
THEOREM InfosExclusive == Spec => []InfoExclusive
<1>1. IInv => InfoExclusive
  BY DEF IInv
<1> QED
  BY <1>1, Invariant, PTL

\* The id of one connection alone leads to it, from the reply to its deletion,
\* unless a late handler wrote to an object that had changed hands.
THEOREM UniqueIdsFound == Spec => []UniqueIdFound
<1>1. IInv => UniqueIdFound
  BY DEF IInv
<1> QED
  BY <1>1, Invariant, PTL

\* GetOfflineUserList returns only users not heard of for Limit checks, except
\* where a handler's clear was overwritten by the increment.
THEOREM OfflineJustified == Spec => OfflineJust
<1>1. IInv /\ [Next]_vars =>
        [\A k \in check'.offline \ check.offline : silent'[k] = Limit \/ k \in raced]_vars
  BY NextIInv
<1> QED
  BY <1>1, Invariant, PTL DEF Spec, OfflineJust

=============================================================================
