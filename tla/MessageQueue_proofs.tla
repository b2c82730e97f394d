------------------------- MODULE MessageQueue_proofs -------------------------
(***************************************************************************)
(* Proofs about MessageQueue, for every number of consumers, producers and *)
(* blocks: the types, that no wakeup is lost between push and wait, that a *)
(* block is in one place only and that no message is handled twice.        *)
(***************************************************************************)
EXTENDS MessageQueue, TLAPS

Steps == {"idle", "push", "top", "lock", "sleep", "waiting", "woken", "take",
          "handle", "exited"}

\* A consumer leaves only a stopped server; between its test and its next step
\* it holds the mutex, so what it saw of the queue stays true.
TestStands ==
  /\ \A c \in Consumers : pc[c] = "exited" => ~m_bStart
  /\ \A c \in Consumers : pc[c] = "sleep" => m_msgList = <<>>
  /\ \A c \in Consumers : pc[c] = "take" /\ m_bStart => m_msgList # <<>>

\* A thread has a block exactly while it is about to push or to handle it.
BlockHeld ==
  \A t \in Threads : msg[t] # Nobody <=> pc[t] \in {"push", "handle"}

IInv == TypeOK /\ TestStands /\ BlockHeld /\ NoLostMessage /\ BlockExclusive

LEMMA InitIInv == Init => IInv
<1> SUFFICES ASSUME Init PROVE IInv
  OBVIOUS
<1> USE DEF Init, Threads
<1>1. /\ m_msgList = <<>> /\ m_msgList \in Seq(Blocks)
      /\ pushed \in Seq(Message) /\ handled \in Seq(Message)
  OBVIOUS
<1>2. content \in [Blocks -> Message]
  BY DEF Message, NoMessage
<1>3. pc \in [Threads -> Steps] /\ msg \in [Threads -> Blocks \cup {Nobody}]
  BY DEF Steps
<1>4. /\ \A t \in Threads : pc[t] \in {"idle", "push"} <=> t \in Producers
      /\ \A c \in Consumers : pc[c] \in {"sleep", "take"} <=> mutex = c
  BY QueueAssumption
<1>5. calls \in 0..MaxMessages /\ popped \in Nat /\ m_mapMsgHandle \subseteq Types
  BY QueueAssumption
<1>6. TypeOK
  BY <1>1, <1>2, <1>3, <1>4, <1>5 DEF TypeOK, Steps
<1>7. TestStands
  BY DEF TestStands
<1>8. BlockHeld
  BY DEF BlockHeld
<1>9. NoLostMessage /\ BlockExclusive
  <2>1. DOMAIN m_msgList = {}
    BY <1>1
  <2>2. \A t \in Threads : msg[t] = Nobody
    OBVIOUS
  <2>3. \A b \in free : b # Nobody
    BY QueueAssumption
  <2> QED
    BY <1>1, <2>1, <2>2, <2>3 DEF NoLostMessage, BlockExclusive
<1> QED
  BY <1>6, <1>7, <1>8, <1>9 DEF IInv

\* Where a consumer can be, from the type invariant.
LEMMA ConsumerSteps ==
  ASSUME TypeOK, NEW c \in Consumers
  PROVE  pc[c] \in {"top", "lock", "sleep", "waiting", "woken", "take",
                    "handle", "exited"}
BY QueueAssumption DEF TypeOK, Threads

LEMMA GetMessageIInv ==
  ASSUME IInv, NEW p \in Producers, GetMessage(p)
  PROVE  IInv'
<1> USE DEF IInv
<1>1. /\ pc[p] = "idle" /\ calls < MaxMessages /\ calls' = calls + 1
      /\ UNCHANGED <<m_bStart, m_msgList, mutex, main, m_mapMsgHandle, history>>
  BY DEF GetMessage
<1>2. p \in Threads /\ p \notin Consumers
  BY QueueAssumption DEF Threads
<1>3. calls' \in 0..MaxMessages /\ calls \in Nat
  BY <1>1, QueueAssumption DEF TypeOK
<1>4. CASE UNCHANGED <<free, content, msg, pc>>
  <2>1. TypeOK'
    BY <1>1, <1>3, <1>4 DEF TypeOK, history
  <2> QED
    BY <1>1, <1>4, <2>1 DEF TestStands, BlockHeld, NoLostMessage,
                            BlockExclusive, history
<1>5. ASSUME NEW b \in free, NEW type \in Types,
             free' = free \ {b},
             content' = [content EXCEPT ![b] = [no |-> calls + 1, type |-> type]],
             msg' = [msg EXCEPT ![p] = b],
             Goto(p, "push")
      PROVE  IInv'
  <2>1. b \in Blocks /\ b # Nobody
    BY QueueAssumption DEF TypeOK
  <2>2. pc' = [pc EXCEPT ![p] = "push"]
    BY <1>5 DEF Goto
  <2>3. content' \in [Blocks -> Message]
    BY <1>3, <1>5 DEF TypeOK, Message
  <2>4. TypeOK'
    BY <1>1, <1>2, <1>3, <1>5, <2>1, <2>2, <2>3 DEF TypeOK, history
  <2>5. \A c \in Consumers : pc'[c] = pc[c]
    BY <1>2, <2>2 DEF TypeOK, Threads
  <2>6. TestStands' /\ NoLostMessage'
    BY <1>1, <2>5 DEF TestStands, NoLostMessage
  <2>7. BlockHeld'
    BY <1>2, <1>5, <2>1, <2>2 DEF BlockHeld, TypeOK
  <2>8. BlockExclusive'
    BY <1>1, <1>2, <1>5, <2>1 DEF BlockExclusive, TypeOK
  <2> QED
    BY <2>4, <2>6, <2>7, <2>8
<1> QED
  BY <1>4, <1>5 DEF GetMessage

\* The pushing thread finds no consumer asleep behind its test: whoever is
\* neither waiting nor gone will look at the queue again.
LEMMA PushIInv ==
  ASSUME IInv, NEW p \in Producers, Push(p)
  PROVE  IInv'
<1> USE DEF IInv
<1> DEFINE waiting == {c \in Consumers : pc[c] = "waiting"}
<1>1. /\ pc[p] = "push" /\ mutex = Nobody
      /\ m_msgList' = Append(m_msgList, msg[p])
      /\ pushed' = Append(pushed, content[msg[p]])
      /\ msg' = [msg EXCEPT ![p] = Nobody]
      /\ UNCHANGED <<m_bStart, mutex, content, free, calls, main,
                     m_mapMsgHandle, popped, handled, missed>>
  BY DEF Push
<1>2. p \in Threads /\ p \notin Consumers
  BY QueueAssumption DEF Threads
<1>3. msg[p] \in Blocks
  BY <1>1, <1>2 DEF BlockHeld, TypeOK
<1>4. \/ waiting = {} /\ pc' = [pc EXCEPT ![p] = "idle"]
      \/ \E c \in waiting : pc' = [pc EXCEPT ![p] = "idle", ![c] = "woken"]
  BY DEF Push, Goto
<1>5. /\ pc' \in [Threads -> Steps] /\ pc'[p] = "idle"
      /\ \A t \in Threads \ {p} :
           \/ pc'[t] = pc[t]
           \/ t \in Consumers /\ pc[t] = "waiting" /\ pc'[t] = "woken"
  BY <1>2, <1>4 DEF TypeOK, Steps, Threads
<1>6. TypeOK'
  <2>1. m_msgList' \in Seq(Blocks) /\ pushed' \in Seq(Message)
    BY <1>1, <1>3 DEF TypeOK
  <2>2. \A t \in Threads : pc'[t] \in {"idle", "push"} <=> t \in Producers
    BY <1>2, <1>5, QueueAssumption DEF TypeOK
  <2>3. \A c \in Consumers : pc'[c] \in {"sleep", "take"} <=> mutex' = c
    BY <1>1, <1>2, <1>5 DEF TypeOK, Threads
  <2>4. msg' \in [Threads -> Blocks \cup {Nobody}]
    BY <1>1 DEF TypeOK
  <2> QED
    BY <1>1, <1>5, <2>1, <2>2, <2>3, <2>4 DEF TypeOK, Steps
<1>7. \A c \in Consumers : pc[c] \notin {"sleep", "take"}
  BY <1>1, QueueAssumption DEF TypeOK
<1>8. TestStands'
  BY <1>1, <1>2, <1>5, <1>7 DEF TestStands, Threads
<1>9. BlockHeld'
  BY <1>1, <1>2, <1>5 DEF BlockHeld, TypeOK
<1>10. NoLostMessage'
  <2> SUFFICES ASSUME m_bStart
               PROVE  \E c \in Consumers :
                        pc'[c] \in {"top", "lock", "woken", "take", "handle"}
    BY <1>1 DEF NoLostMessage
  <2>1. CASE \E c \in waiting : pc' = [pc EXCEPT ![p] = "idle", ![c] = "woken"]
    <3>1. PICK c \in waiting : pc' = [pc EXCEPT ![p] = "idle", ![c] = "woken"]
      BY <2>1
    <3>2. pc'[c] = "woken"
      BY <1>2, <3>1 DEF TypeOK, Threads
    <3> QED
      BY <3>2
  <2>2. CASE waiting = {} /\ pc' = [pc EXCEPT ![p] = "idle"]
    <3>1. PICK c \in Consumers : TRUE
      BY QueueAssumption
    <3>2. pc'[c] = pc[c]
      BY <1>2, <2>2, <3>1 DEF TypeOK, Threads
    <3>3. pc[c] # "waiting" /\ pc[c] # "exited"
      BY <2>2 DEF TestStands
    <3> QED
      BY <1>7, <3>2, <3>3, ConsumerSteps
  <2> QED
    BY <1>4, <2>1, <2>2
<1>11. BlockExclusive'
  <2>1. \A i \in DOMAIN m_msgList' :
          \/ i \in DOMAIN m_msgList /\ m_msgList'[i] = m_msgList[i]
          \/ i = Len(m_msgList) + 1 /\ m_msgList'[i] = msg[p]
    BY <1>1, <1>3 DEF TypeOK
  <2>2. \A t \in Threads : msg'[t] = IF t = p THEN Nobody ELSE msg[t]
    BY <1>1, <1>2 DEF TypeOK
  <2>3. msg[p] # Nobody
    BY <1>3, QueueAssumption
  <2>4. \A i \in DOMAIN m_msgList' : m_msgList'[i] # Nobody
    BY <1>3, <2>1, QueueAssumption DEF TypeOK
  <2>5. \A i, j \in DOMAIN m_msgList' : m_msgList'[i] = m_msgList'[j] => i = j
    BY <1>2, <2>1 DEF BlockExclusive
  <2>6. \A t, u \in Threads : msg'[t] = msg'[u] /\ msg'[t] # Nobody => t = u
    BY <2>2 DEF BlockExclusive
  <2>7. \A i \in DOMAIN m_msgList', t \in Threads : m_msgList'[i] # msg'[t]
    BY <1>2, <2>1, <2>2, <2>3, <2>4 DEF BlockExclusive
  <2>8. \A b \in free : /\ \A i \in DOMAIN m_msgList' : m_msgList'[i] # b
                        /\ \A t \in Threads : msg'[t] # b
    BY <1>2, <2>1, <2>2, QueueAssumption DEF BlockExclusive, TypeOK
  <2> QED
    BY <1>1, <2>5, <2>6, <2>7, <2>8 DEF BlockExclusive
<1> QED
  BY <1>6, <1>8, <1>9, <1>10, <1>11

\* A step of one consumer that leaves the queue and the blocks alone.
LEMMA ConsumerMoves ==
  ASSUME IInv, NEW c \in Consumers, NEW step \in Steps,
         pc' = [pc EXCEPT ![c] = step],
         UNCHANGED <<m_bStart, m_msgList, msg, content, free, calls, main,
                     m_mapMsgHandle, pushed, popped, handled>>,
         step \notin {"idle", "push", "handle"}, pc[c] # "handle",
         mutex' \in {mutex, c, Nobody}, missed' \in BOOLEAN,
         \A d \in Consumers : pc'[d] \in {"sleep", "take"} <=> mutex' = d,
         step = "exited" => ~m_bStart,
         step = "sleep" => m_msgList = <<>>,
         step = "take" /\ m_bStart => m_msgList # <<>>,
         step \in {"sleep", "waiting", "exited"} => ~m_bStart \/ m_msgList = <<>>
  PROVE  IInv'
<1> USE DEF IInv
<1>1. c \in Threads /\ c \notin Producers
  BY QueueAssumption DEF Threads
<1>2. pc' \in [Threads -> Steps] /\ mutex' \in Consumers \cup {Nobody}
  BY DEF TypeOK, Steps
<1>3. \A t \in Threads : pc'[t] \in {"idle", "push"} <=> t \in Producers
  BY <1>1 DEF TypeOK
<1>4. TypeOK'
  BY <1>2, <1>3 DEF TypeOK, Steps
<1>5. TestStands'
  BY <1>1 DEF TestStands, TypeOK, Threads
<1>6. BlockHeld'
  BY <1>1 DEF BlockHeld, TypeOK
<1>7. NoLostMessage'
  BY <1>1, ConsumerSteps DEF NoLostMessage, TypeOK, Threads, Steps
<1>8. BlockExclusive'
  BY DEF BlockExclusive
<1> QED
  BY <1>4, <1>5, <1>6, <1>7, <1>8

LEMMA TopIInv ==
  ASSUME IInv, NEW c \in Consumers, Top(c)
  PROVE  IInv'
<1> DEFINE step == IF m_bStart THEN "lock" ELSE "exited"
<1>1. /\ pc[c] = "top" /\ pc' = [pc EXCEPT ![c] = step] /\ mutex' = mutex
      /\ UNCHANGED <<m_bStart, m_msgList, msg, content, free, calls, main,
                     m_mapMsgHandle, pushed, popped, handled, missed>>
  BY DEF Top, Goto, history
<1>2. \A d \in Consumers : pc'[d] \in {"sleep", "take"} <=> mutex' = d
  BY <1>1 DEF IInv, TypeOK, Threads
<1> QED
  BY <1>1, <1>2, ConsumerMoves DEF Steps, IInv, TypeOK

LEMMA TestIInv ==
  ASSUME IInv, NEW c \in Consumers, Test(c)
  PROVE  IInv'
<1> DEFINE step == IF m_msgList = <<>> /\ m_bStart THEN "sleep" ELSE "take"
<1>1. /\ pc[c] \in {"lock", "woken"} /\ mutex = Nobody /\ mutex' = c
      /\ pc' = [pc EXCEPT ![c] = step]
      /\ UNCHANGED <<m_bStart, m_msgList, msg, content, free, calls, main,
                     m_mapMsgHandle, pushed, popped, handled, missed>>
  BY DEF Test, Goto, history
<1>2. \A d \in Consumers : pc'[d] \in {"sleep", "take"} <=> mutex' = d
  BY <1>1, QueueAssumption DEF IInv, TypeOK, Threads
<1> QED
  BY <1>1, <1>2, ConsumerMoves DEF Steps, IInv, TypeOK

LEMMA WaitIInv ==
  ASSUME IInv, NEW c \in Consumers, Wait(c)
  PROVE  IInv'
<1>1. /\ pc[c] = "sleep" /\ mutex' = Nobody
      /\ pc' = [pc EXCEPT ![c] = "waiting"] /\ missed' \in BOOLEAN
      /\ UNCHANGED <<m_bStart, m_msgList, msg, content, free, calls, main,
                     m_mapMsgHandle, pushed, popped, handled>>
  BY DEF Wait, Goto
<1>2. mutex = c /\ m_msgList = <<>>
  BY <1>1 DEF IInv, TypeOK, TestStands
<1>3. \A d \in Consumers : pc'[d] \in {"sleep", "take"} <=> mutex' = d
  BY <1>1, <1>2, QueueAssumption DEF IInv, TypeOK, Threads
<1> QED
  BY <1>1, <1>2, <1>3, ConsumerMoves DEF Steps

LEMMA SpuriousWakeIInv ==
  ASSUME IInv, NEW c \in Consumers, SpuriousWake(c)
  PROVE  IInv'
<1>1. /\ pc[c] = "waiting" /\ mutex' = mutex
      /\ pc' = [pc EXCEPT ![c] = "woken"]
      /\ UNCHANGED <<m_bStart, m_msgList, msg, content, free, calls, main,
                     m_mapMsgHandle, pushed, popped, handled, missed>>
  BY DEF SpuriousWake, Goto, history
<1>2. \A d \in Consumers : pc'[d] \in {"sleep", "take"} <=> mutex' = d
  BY <1>1 DEF IInv, TypeOK, Threads
<1> QED
  BY <1>1, <1>2, ConsumerMoves DEF Steps, IInv, TypeOK

LEMMA TakeIInv ==
  ASSUME IInv, NEW c \in Consumers, Take(c)
  PROVE  IInv'
<1> USE DEF IInv
<1>1. /\ pc[c] = "take" /\ mutex' = Nobody
      /\ UNCHANGED <<m_bStart, content, free, calls, main,
                     m_mapMsgHandle, pushed, handled, missed>>
  BY DEF Take
<1>2. mutex = c /\ c \in Threads /\ c \notin Producers
  BY <1>1, QueueAssumption DEF TypeOK, Threads
<1>3. CASE ~m_bStart
  <2>1. pc' = [pc EXCEPT ![c] = "exited"] /\ UNCHANGED <<m_msgList, msg, popped>>
    BY <1>3 DEF Take, Goto
  <2>2. \A d \in Consumers : pc'[d] \in {"sleep", "take"} <=> mutex' = d
    BY <1>1, <1>2, <2>1, QueueAssumption DEF TypeOK, Threads
  <2> QED
    BY <1>1, <1>3, <2>1, <2>2, ConsumerMoves DEF Steps, TypeOK
<1>4. CASE m_bStart
  <2>1. /\ msg' = [msg EXCEPT ![c] = Head(m_msgList)]
        /\ m_msgList' = Tail(m_msgList)
        /\ popped' = popped + 1
        /\ pc' = [pc EXCEPT ![c] = "handle"]
    BY <1>4 DEF Take, Goto
  <2>2. m_msgList # <<>>
    BY <1>1, <1>4 DEF TestStands
  <2>3. /\ Head(m_msgList) \in Blocks /\ Head(m_msgList) = m_msgList[1]
        /\ Tail(m_msgList) \in Seq(Blocks)
        /\ 1 \in DOMAIN m_msgList
        /\ \A i \in DOMAIN m_msgList' : /\ i + 1 \in DOMAIN m_msgList
                                        /\ i \in Nat /\ i + 1 # 1
                                        /\ m_msgList'[i] = m_msgList[i + 1]
    BY <2>1, <2>2 DEF TypeOK
  <2>4. Head(m_msgList) # Nobody
    BY <2>3, QueueAssumption
  <2>5. TypeOK'
    <3>1. pc' \in [Threads -> Steps] /\ msg' \in [Threads -> Blocks \cup {Nobody}]
      BY <1>2, <2>1, <2>3 DEF TypeOK, Steps
    <3>2. \A t \in Threads : pc'[t] \in {"idle", "push"} <=> t \in Producers
      BY <1>2, <2>1 DEF TypeOK
    <3>3. \A d \in Consumers : pc'[d] \in {"sleep", "take"} <=> mutex' = d
      BY <1>1, <1>2, <2>1, QueueAssumption DEF TypeOK, Threads
    <3> QED
      BY <1>1, <2>1, <2>3, <3>1, <3>2, <3>3 DEF TypeOK, Steps
  <2>6. TestStands'
    BY <1>1, <1>2, <1>4, <2>1 DEF TestStands, TypeOK, Threads
  <2>7. BlockHeld'
    BY <1>2, <2>1, <2>4 DEF BlockHeld, TypeOK
  <2>8. NoLostMessage'
    <3>1. pc'[c] = "handle"
      BY <1>2, <2>1 DEF TypeOK
    <3> QED
      BY <3>1 DEF NoLostMessage
  <2>9. BlockExclusive'
    <3>1. \A t \in Threads :
            msg'[t] = IF t = c THEN m_msgList[1] ELSE msg[t]
      BY <1>2, <2>1, <2>3 DEF TypeOK
    <3>2. \A i, j \in DOMAIN m_msgList' : m_msgList'[i] = m_msgList'[j] => i = j
      BY <2>3 DEF BlockExclusive
    <3>3. \A t, u \in Threads : msg'[t] = msg'[u] /\ msg'[t] # Nobody => t = u
      BY <2>3, <3>1 DEF BlockExclusive
    <3>4. \A i \in DOMAIN m_msgList', t \in Threads : m_msgList'[i] # msg'[t]
      BY <2>3, <3>1 DEF BlockExclusive
    <3>5. \A b \in free' : /\ \A i \in DOMAIN m_msgList' : m_msgList'[i] # b
                           /\ \A t \in Threads : msg'[t] # b
      BY <1>1, <2>3, <3>1 DEF BlockExclusive
    <3> QED
      BY <3>2, <3>3, <3>4, <3>5 DEF BlockExclusive
  <2> QED
    BY <2>5, <2>6, <2>7, <2>8, <2>9
<1> QED
  BY <1>3, <1>4

LEMMA HandleIInv ==
  ASSUME IInv, NEW c \in Consumers, Handle(c)
  PROVE  IInv'
<1> USE DEF IInv
<1>1. /\ pc[c] = "handle"
      /\ free' = free \cup {msg[c]}
      /\ msg' = [msg EXCEPT ![c] = Nobody]
      /\ pc' = [pc EXCEPT ![c] = "top"]
      /\ UNCHANGED <<m_bStart, m_msgList, mutex, content, calls, main,
                     m_mapMsgHandle, pushed, popped, missed>>
  BY DEF Handle, Goto
<1>2. c \in Threads /\ c \notin Producers
  BY QueueAssumption DEF Threads
<1>3. msg[c] \in Blocks /\ msg[c] # Nobody
  BY <1>1, <1>2, QueueAssumption DEF BlockHeld, TypeOK
<1>4. TypeOK'
  <2>1. handled' \in Seq(Message)
    BY <1>3 DEF Handle, TypeOK
  <2>2. pc' \in [Threads -> Steps] /\ msg' \in [Threads -> Blocks \cup {Nobody}]
    BY <1>1 DEF TypeOK, Steps
  <2>3. \A t \in Threads : pc'[t] \in {"idle", "push"} <=> t \in Producers
    BY <1>1, <1>2 DEF TypeOK
  <2>4. \A d \in Consumers : pc'[d] \in {"sleep", "take"} <=> mutex' = d
    BY <1>1 DEF TypeOK, Threads
  <2> QED
    BY <1>1, <1>3, <2>1, <2>2, <2>3, <2>4 DEF TypeOK, Steps
<1>5. TestStands'
  BY <1>1 DEF TestStands, TypeOK, Threads
<1>6. BlockHeld'
  BY <1>1, <1>2 DEF BlockHeld, TypeOK
<1>7. NoLostMessage'
  <2>1. pc'[c] = "top"
    BY <1>1, <1>2 DEF TypeOK
  <2> QED
    BY <2>1 DEF NoLostMessage
<1>8. BlockExclusive'
  <2>1. \A t \in Threads : msg'[t] = IF t = c THEN Nobody ELSE msg[t]
    BY <1>1, <1>2 DEF TypeOK
  <2>2. \A i \in DOMAIN m_msgList : m_msgList[i] # Nobody
    BY QueueAssumption DEF TypeOK
  <2>3. \A b \in free' : b # Nobody
    BY <1>1, <1>3, QueueAssumption DEF TypeOK
  <2> QED
    BY <1>1, <1>2, <1>3, <2>1, <2>2, <2>3 DEF BlockExclusive
<1> QED
  BY <1>4, <1>5, <1>6, <1>7, <1>8

LEMMA MainIInv ==
  ASSUME IInv, Stop \/ NotifyAll \/ Join
  PROVE  IInv'
<1> USE DEF IInv
<1>1. CASE Stop
  <2>1. TypeOK'
    BY <1>1 DEF Stop, history, TypeOK, Steps
  <2>2. TestStands'
    BY <1>1 DEF Stop, history, TestStands
  <2>3. BlockHeld'
    BY <1>1 DEF Stop, history, BlockHeld
  <2>4. NoLostMessage' /\ BlockExclusive'
    BY <1>1 DEF Stop, history, NoLostMessage, BlockExclusive
  <2> QED
    BY <2>1, <2>2, <2>3, <2>4
<1>2. CASE NotifyAll
  <2>1. /\ pc' = [t \in Threads |-> IF pc[t] = "waiting" THEN "woken" ELSE pc[t]]
        /\ main' = "join"
        /\ UNCHANGED <<m_bStart, m_msgList, mutex, msg, content, free, calls,
                       m_mapMsgHandle, history>>
    BY <1>2 DEF NotifyAll
  <2>2. pc' \in [Threads -> Steps]
    BY <2>1 DEF TypeOK, Steps
  <2>3. \A t \in Threads : pc'[t] = pc[t] \/ (pc[t] = "waiting" /\ pc'[t] = "woken")
    BY <2>1
  <2>4. Consumers \subseteq Threads
    BY DEF Threads
  <2>5. TypeOK'
    <3>1. \A t \in Threads : pc'[t] \in {"idle", "push"} <=> t \in Producers
      BY <2>3 DEF TypeOK
    <3>2. \A d \in Consumers : pc'[d] \in {"sleep", "take"} <=> mutex' = d
      BY <2>1, <2>3, <2>4 DEF TypeOK
    <3> QED
      BY <2>1, <2>2, <3>1, <3>2 DEF TypeOK, Steps, history
  <2>6. TestStands'
    BY <2>1, <2>3, <2>4 DEF TestStands
  <2>7. BlockHeld'
    BY <2>1, <2>3 DEF BlockHeld
  <2>8. NoLostMessage' /\ BlockExclusive'
    BY <2>1, <2>3, <2>4 DEF NoLostMessage, BlockExclusive
  <2> QED
    BY <2>5, <2>6, <2>7, <2>8
<1>3. CASE Join
  BY <1>3 DEF Join, history, TypeOK, TestStands, BlockHeld, NoLostMessage,
              BlockExclusive
<1> QED
  BY <1>1, <1>2, <1>3

LEMMA NextIInv == IInv /\ [Next]_vars => IInv'
<1> SUFFICES ASSUME IInv, [Next]_vars PROVE IInv'
  OBVIOUS
<1>1. ASSUME NEW p \in Producers, GetMessage(p) \/ Push(p)
      PROVE  IInv'
  BY <1>1, GetMessageIInv, PushIInv
<1>2. ASSUME NEW c \in Consumers, Consume(c) \/ SpuriousWake(c)
      PROVE  IInv'
  BY <1>2, TopIInv, TestIInv, WaitIInv, TakeIInv, HandleIInv, SpuriousWakeIInv
     DEF Consume
<1>3. CASE Stop \/ NotifyAll \/ Join
  BY <1>3, MainIInv
<1>4. CASE UNCHANGED vars
  BY <1>4 DEF vars, IInv, TypeOK, TestStands, BlockHeld, NoLostMessage,
              BlockExclusive
<1> QED
  BY <1>1, <1>2, <1>3, <1>4 DEF Next

LEMMA QueueInvariant == Spec => []IInv
BY InitIInv, NextIInv, PTL DEF Spec

\* NoLostMessage for any number of threads: no interleaving of push, test and
\* wait leaves a message behind with every consumer asleep.
THEOREM WakeupKept == Spec => []NoLostMessage
<1>1. IInv => NoLostMessage
  BY DEF IInv
<1> QED
  BY <1>1, QueueInvariant, PTL

\* BlockExclusive for any number of threads and blocks: a message object is in
\* the queue, in one thread's hands or in the pool, never in two of these.
THEOREM BlocksExclusive == Spec => []BlockExclusive
<1>1. IInv => BlockExclusive
  BY DEF IInv
<1> QED
  BY <1>1, QueueInvariant, PTL

\* TypeOK, with the mutex held exactly by the consumer between its test and its
\* next step.
THEOREM QueueTypes == Spec => []TypeOK
<1>1. IInv => TypeOK
  BY DEF IInv
<1> QED
  BY <1>1, QueueInvariant, PTL

-----------------------------------------------------------------------------
\* Messages carry numbers of their own: those in blocks that are out of the
\* pool, and those handled.
Numbered ==
  /\ \A b \in Blocks \ free : content[b].no \in 1..calls
  /\ \A b, d \in Blocks \ free : content[b].no = content[d].no => b = d
  /\ \A i \in DOMAIN handled : handled[i].no <= calls
  /\ \A i \in DOMAIN handled, b \in Blocks \ free : handled[i].no # content[b].no
  /\ \A i, j \in DOMAIN handled : handled[i].no = handled[j].no => i = j

\* The queue is what was pushed and not taken; a consumer has a message that
\* was taken, and so has every call of a handler.
Matched ==
  /\ Len(pushed) = popped + Len(m_msgList)
  /\ \A i \in DOMAIN m_msgList : content[m_msgList[i]] = pushed[popped + i]
  /\ \A c \in Consumers : msg[c] # Nobody =>
       \E j \in 1..popped : content[msg[c]] = pushed[j]
  /\ \A i \in DOMAIN handled : \E j \in 1..popped : handled[i] = pushed[j]

LEMMA InitMatched == Init => Numbered /\ Matched
BY QueueAssumption DEF Init, Numbered, Matched, Threads

\* A block of the queue or of a thread is out of the pool.
LEMMA InUse ==
  ASSUME IInv
  PROVE  /\ \A i \in DOMAIN m_msgList : m_msgList[i] \in Blocks \ free
         /\ \A t \in Threads : msg[t] # Nobody => msg[t] \in Blocks \ free
BY DEF IInv, TypeOK, BlockExclusive

LEMMA GetMessageMatched ==
  ASSUME IInv, Numbered, Matched, NEW p \in Producers, GetMessage(p)
  PROVE  Numbered' /\ Matched'
<1>1. /\ calls \in Nat /\ calls' = calls + 1
      /\ UNCHANGED <<m_msgList, pushed, popped, handled>>
  BY QueueAssumption DEF GetMessage, history, IInv, TypeOK
<1>2. \A i \in DOMAIN handled : handled[i].no \in Nat
  <2>1. \A i \in DOMAIN handled : handled[i] \in Message
    BY DEF IInv, TypeOK
  <2> QED
    BY <2>1 DEF Message
<1>3. \A b \in Blocks \ free : content[b].no \in Nat
  BY DEF IInv, TypeOK, Message
<1>4. CASE UNCHANGED <<free, content, msg, pc>>
  BY <1>1, <1>2, <1>3, <1>4 DEF Numbered, Matched
<1>5. ASSUME NEW b \in free, NEW type \in Types,
             free' = free \ {b},
             content' = [content EXCEPT ![b] = [no |-> calls + 1, type |-> type]],
             msg' = [msg EXCEPT ![p] = b]
      PROVE  Numbered' /\ Matched'
  <2>1. b \in Blocks /\ p \in Threads /\ p \notin Consumers /\ Consumers \subseteq Threads
    BY QueueAssumption DEF IInv, TypeOK, Threads
  <2>2. /\ content'[b].no = calls + 1
        /\ \A d \in Blocks \ {b} : content'[d] = content[d]
    BY <1>5, <2>1 DEF IInv, TypeOK
  <2>3. \A d \in Blocks \ free' : d = b \/ d \in Blocks \ free
    BY <1>5
  <2>4. \A d \in Blocks \ free : d # b
    BY <2>1
  <2>5. Numbered'
    <3>1. \A d \in Blocks \ free : content'[d].no = content[d].no /\ content[d].no \in 1..calls
      BY <2>2, <2>4 DEF Numbered
    <3>2. \A d \in Blocks \ free' : content'[d].no \in 1..calls'
      BY <1>1, <2>2, <2>3, <3>1
    <3>3. \A d, e \in Blocks \ free' : content'[d].no = content'[e].no => d = e
      BY <1>1, <2>2, <2>3, <3>1 DEF Numbered
    <3>4. \A i \in DOMAIN handled' : handled'[i].no <= calls' /\ handled'[i].no # calls + 1
      BY <1>1, <1>2 DEF Numbered
    <3>5. \A i \in DOMAIN handled', d \in Blocks \ free' : handled'[i].no # content'[d].no
      BY <1>1, <2>2, <2>3, <3>1, <3>4 DEF Numbered
    <3>6. \A i, j \in DOMAIN handled' : handled'[i].no = handled'[j].no => i = j
      BY <1>1 DEF Numbered
    <3> QED
      BY <3>2, <3>3, <3>4, <3>5, <3>6 DEF Numbered
  <2>6. Matched'
    <3>1. \A i \in DOMAIN m_msgList : content'[m_msgList[i]] = content[m_msgList[i]]
      BY <2>2, <2>4, InUse
    <3>2. \A c \in Consumers : msg'[c] = msg[c]
      BY <1>5, <2>1 DEF IInv, TypeOK
    <3>3. \A c \in Consumers : msg[c] # Nobody => content'[msg[c]] = content[msg[c]]
      BY <2>1, <2>2, <2>4, InUse
    <3> QED
      BY <1>1, <3>1, <3>2, <3>3 DEF Matched
  <2> QED
    BY <2>5, <2>6
<1> QED
  BY <1>4, <1>5 DEF GetMessage

LEMMA PushMatched ==
  ASSUME IInv, Numbered, Matched, NEW p \in Producers, Push(p)
  PROVE  Numbered' /\ Matched'
<1>1. /\ m_msgList' = Append(m_msgList, msg[p])
      /\ pushed' = Append(pushed, content[msg[p]])
      /\ msg' = [msg EXCEPT ![p] = Nobody]
      /\ UNCHANGED <<content, free, calls, popped, handled>>
  BY DEF Push
<1>2. p \in Threads /\ p \notin Consumers /\ Consumers \subseteq Threads
  BY QueueAssumption DEF Threads
<1>3. msg[p] \in Blocks
  BY <1>2 DEF Push, IInv, BlockHeld, TypeOK
<1>4. content[msg[p]] \in Message /\ m_msgList \in Seq(Blocks) /\ pushed \in Seq(Message)
      /\ popped \in Nat
  BY <1>3 DEF IInv, TypeOK
<1>5. Numbered'
  BY <1>1 DEF Numbered
<1>6. /\ Len(m_msgList') = Len(m_msgList) + 1 /\ Len(pushed') = Len(pushed) + 1
      /\ \A j \in 1..Len(pushed) : pushed'[j] = pushed[j]
      /\ pushed'[Len(pushed) + 1] = content[msg[p]]
      /\ DOMAIN m_msgList' = 1..(Len(m_msgList) + 1)
      /\ \A i \in 1..Len(m_msgList) : m_msgList'[i] = m_msgList[i]
      /\ m_msgList'[Len(m_msgList) + 1] = msg[p]
      /\ Len(pushed) \in Nat /\ Len(m_msgList) \in Nat
      /\ DOMAIN m_msgList = 1..Len(m_msgList)
  BY <1>1, <1>3, <1>4
<1>7. Len(pushed) = popped + Len(m_msgList)
  BY DEF Matched
<1>8. Matched'
  <2>1. Len(pushed') = popped' + Len(m_msgList')
    BY <1>1, <1>4, <1>6, <1>7
  <2>2. ASSUME NEW i \in DOMAIN m_msgList'
        PROVE  content'[m_msgList'[i]] = pushed'[popped' + i]
    <3>1. CASE i = Len(m_msgList) + 1
      BY <1>1, <1>4, <1>6, <1>7, <3>1
    <3>2. CASE i # Len(m_msgList) + 1
      <4>1. i \in DOMAIN m_msgList /\ popped + i \in 1..Len(pushed)
        BY <1>4, <1>6, <1>7, <3>2
      <4> QED
        BY <1>1, <1>6, <4>1 DEF Matched
    <3> QED
      BY <3>1, <3>2
  <2>3. \A j \in 1..popped : pushed'[j] = pushed[j]
    BY <1>4, <1>6, <1>7
  <2>4. \A c \in Consumers : msg'[c] = msg[c]
    BY <1>1, <1>2 DEF IInv, TypeOK
  <2>5. \A c \in Consumers : msg'[c] # Nobody =>
          \E j \in 1..popped' : content'[msg'[c]] = pushed'[j]
    <3> SUFFICES ASSUME NEW c \in Consumers, msg[c] # Nobody
                 PROVE  \E j \in 1..popped' : content[msg[c]] = pushed'[j]
      <4>1. content' = content
        BY <1>1
      <4> QED
        BY <2>4, <4>1
    <3>1. PICK j \in 1..popped : content[msg[c]] = pushed[j]
      BY DEF Matched
    <3> QED
      BY <1>1, <2>3, <3>1
  <2>6. \A i \in DOMAIN handled' : \E j \in 1..popped' : handled'[i] = pushed'[j]
    <3> SUFFICES ASSUME NEW i \in DOMAIN handled
                 PROVE  \E j \in 1..popped' : handled[i] = pushed'[j]
      BY <1>1
    <3>1. PICK j \in 1..popped : handled[i] = pushed[j]
      BY DEF Matched
    <3> QED
      BY <1>1, <2>3, <3>1
  <2> QED
    BY <2>1, <2>2, <2>5, <2>6 DEF Matched
<1> QED
  BY <1>5, <1>8

LEMMA TakeMatched ==
  ASSUME IInv, Numbered, Matched, NEW c \in Consumers, Take(c)
  PROVE  Numbered' /\ Matched'
<1>1. UNCHANGED <<content, free, calls, pushed, handled>>
  BY DEF Take
<1>2. Numbered'
  BY <1>1 DEF Numbered
<1>3. CASE UNCHANGED <<m_msgList, msg, popped>>
  BY <1>1, <1>2, <1>3 DEF Matched
<1>4. CASE /\ m_bStart
           /\ msg' = [msg EXCEPT ![c] = Head(m_msgList)]
           /\ m_msgList' = Tail(m_msgList)
           /\ popped' = popped + 1
  <2>1. m_msgList # <<>> /\ m_msgList \in Seq(Blocks) /\ popped \in Nat
    BY <1>4 DEF Take, IInv, TestStands, TypeOK
  <2>2. /\ Len(m_msgList) \in Nat /\ Len(m_msgList) > 0
        /\ DOMAIN m_msgList = 1..Len(m_msgList)
        /\ Len(m_msgList') = Len(m_msgList) - 1
        /\ DOMAIN m_msgList' = 1..(Len(m_msgList) - 1)
        /\ \A i \in 1..(Len(m_msgList) - 1) : m_msgList'[i] = m_msgList[i + 1]
        /\ Head(m_msgList) = m_msgList[1]
    BY <1>4, <2>1
  <2>3. Len(pushed') = popped' + Len(m_msgList')
    <3>1. Len(pushed) = popped + Len(m_msgList) /\ pushed' = pushed
      BY <1>1 DEF Matched
    <3> QED
      BY <1>4, <2>1, <2>2, <3>1
  <2>4. ASSUME NEW i \in DOMAIN m_msgList'
        PROVE  content'[m_msgList'[i]] = pushed'[popped' + i]
    <3>1. i + 1 \in DOMAIN m_msgList /\ popped' + i = popped + (i + 1)
      BY <1>4, <2>1, <2>2
    <3> QED
      BY <1>1, <2>2, <3>1 DEF Matched
  <2>5. \A j \in 1..popped : j \in 1..popped'
    BY <1>4, <2>1
  <2>6. \A d \in Consumers : msg'[d] = IF d = c THEN m_msgList[1] ELSE msg[d]
    BY <1>4, <2>2 DEF IInv, TypeOK, Threads
  <2>7. content[m_msgList[1]] = pushed[popped + 1] /\ popped + 1 \in 1..popped'
    BY <1>4, <2>1, <2>2 DEF Matched
  <2>8. \A d \in Consumers : msg'[d] # Nobody =>
          \E j \in 1..popped' : content'[msg'[d]] = pushed'[j]
    BY <1>1, <2>5, <2>6, <2>7 DEF Matched
  <2>9. \A i \in DOMAIN handled' : \E j \in 1..popped' : handled'[i] = pushed'[j]
    BY <1>1, <2>5 DEF Matched
  <2> QED
    BY <1>2, <2>3, <2>4, <2>8, <2>9 DEF Matched
<1> QED
  BY <1>2, <1>3, <1>4 DEF Take

\* The block's number leaves the blocks in use and joins those handled.
LEMMA HandleMatched ==
  ASSUME IInv, Numbered, Matched, NEW c \in Consumers, Handle(c)
  PROVE  Numbered' /\ Matched'
<1>1. /\ free' = free \cup {msg[c]}
      /\ msg' = [msg EXCEPT ![c] = Nobody]
      /\ UNCHANGED <<m_msgList, content, calls, pushed, popped>>
  BY DEF Handle
<1>2. c \in Threads /\ msg[c] # Nobody
  BY DEF Handle, IInv, BlockHeld, Threads
<1>3. msg[c] \in Blocks \ free
  BY <1>2, InUse
<1>4. /\ content[msg[c]] \in Message /\ handled \in Seq(Message)
      /\ content[msg[c]].no \in 1..calls /\ calls \in Nat
  BY <1>3, QueueAssumption DEF IInv, TypeOK, Numbered
<1>5. /\ DOMAIN handled = 1..Len(handled) /\ Len(handled) \in Nat
      /\ \A i \in DOMAIN handled' :
           \/ i \in DOMAIN handled /\ handled'[i] = handled[i]
           \/ i = Len(handled) + 1 /\ handled'[i] = content[msg[c]]
  BY <1>4 DEF Handle
<1>6. \A b \in Blocks \ free' : b \in Blocks \ free /\ b # msg[c]
  BY <1>1
<1>7. Numbered'
  <2>1. /\ \A b \in Blocks \ free' : content'[b].no \in 1..calls'
        /\ \A b, d \in Blocks \ free' : content'[b].no = content'[d].no => b = d
    BY <1>1, <1>6 DEF Numbered
  <2>2. \A i \in DOMAIN handled' : handled'[i].no <= calls'
    BY <1>1, <1>4, <1>5 DEF Numbered
  <2>3. \A i \in DOMAIN handled', b \in Blocks \ free' : handled'[i].no # content'[b].no
    BY <1>1, <1>3, <1>5, <1>6 DEF Numbered
  <2>4. \A i, j \in DOMAIN handled' : handled'[i].no = handled'[j].no => i = j
    BY <1>3, <1>5 DEF Numbered
  <2> QED
    BY <2>1, <2>2, <2>3, <2>4 DEF Numbered
<1>8. Matched'
  <2>1. \E j \in 1..popped : content[msg[c]] = pushed[j]
    BY <1>2 DEF Matched
  <2>2. \A d \in Consumers : msg'[d] # Nobody => msg'[d] = msg[d]
    BY <1>1 DEF IInv, TypeOK, Threads
  <2> QED
    BY <1>1, <1>5, <2>1, <2>2 DEF Matched
<1> QED
  BY <1>7, <1>8

LEMMA NextMatched ==
  IInv /\ Numbered /\ Matched /\ [Next]_vars => Numbered' /\ Matched'
<1> SUFFICES ASSUME IInv, Numbered, Matched, [Next]_vars PROVE Numbered' /\ Matched'
  OBVIOUS
<1>1. CASE UNCHANGED <<m_msgList, msg, content, free, calls, pushed, popped, handled>>
  BY <1>1 DEF Numbered, Matched
<1>2. ASSUME NEW p \in Producers, GetMessage(p) \/ Push(p)
      PROVE  Numbered' /\ Matched'
  BY <1>2, GetMessageMatched, PushMatched
<1>3. ASSUME NEW c \in Consumers, Consume(c) \/ SpuriousWake(c)
      PROVE  Numbered' /\ Matched'
  BY <1>1, <1>3, TakeMatched, HandleMatched
     DEF Consume, Top, Test, Wait, SpuriousWake, history
<1>4. CASE Stop \/ NotifyAll \/ Join
  BY <1>1, <1>4 DEF Stop, NotifyAll, Join, history
<1> QED
  BY <1>1, <1>2, <1>3, <1>4 DEF Next, vars

\* HandledOnce for any number of threads, blocks and messages: although the
\* handler reads its block outside the mutex, what it reads is a message that
\* was pushed, and no other call reads the same.
THEOREM MessagesHandledOnce == Spec => []HandledOnce
<1>1. Numbered /\ Matched => HandledOnce
  BY DEF Numbered, Matched, HandledOnce
<1>2. Init => Numbered /\ Matched
  BY InitMatched
<1>3. IInv /\ Numbered /\ Matched /\ [Next]_vars => (Numbered /\ Matched)'
  BY NextMatched
<1> QED
  BY <1>1, <1>2, <1>3, QueueInvariant, PTL DEF Spec
=============================================================================
