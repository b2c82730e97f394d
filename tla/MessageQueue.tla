---------------------------- MODULE MessageQueue ----------------------------
(***************************************************************************)
(* PbMessageHandle: the queue between the completion-port threads, which   *)
(* parse messages and push them (AddMessageData), and the threads that     *)
(* call the registered handlers (MessageHandleThread), with its shutdown   *)
(* (Uninitialize).  The queue is guarded by m_mutexMsgList; m_bStart is    *)
(* read and written without it.                                            *)
(***************************************************************************)
EXTENDS Naturals, Sequences

CONSTANTS Consumers,  \* m_threadList
          Producers,  \* threads that call AddMessageData
          Blocks,     \* SMessageData objects of m_rscMessage
          Nobody,     \* no thread, no block
          Types,      \* message types PbMessageFactory can parse
          Registered, \* those RegisterMessageFunction was called for
          MaxMessages \* bound: calls of AddMessageData

ASSUME QueueAssumption ==
  /\ Consumers # {}
  /\ Consumers \cap Producers = {}
  /\ Nobody \notin Consumers \cup Producers \cup Blocks
  /\ Registered \subseteq Types
  /\ MaxMessages \in Nat

VARIABLES
  m_bStart,
  m_msgList,  \* the blocks waiting for a consumer
  mutex,      \* who holds m_mutexMsgList across steps
  pc,         \* the step each thread is at
  msg,        \* the block a thread works on
  content,    \* the message a block carries: its number and its type
  free,       \* unused_list_ of m_rscMessage
  calls,      \* messages received so far; they are numbered
  main,       \* the thread that calls Uninitialize
  m_mapMsgHandle, \* the types that have a handler
  pushed,     \* history: the messages pushed, in order
  popped,     \* history: how many were taken off the queue
  handled,    \* history: the messages handlers were called with, in order
  missed      \* history: a consumer went to sleep after notify_all

vars == <<m_bStart, m_msgList, mutex, pc, msg, content, free, calls, main,
          m_mapMsgHandle, pushed, popped, handled, missed>>

Threads == Consumers \cup Producers
NoMessage == [no |-> 0, type |-> Nobody]

Init ==
  /\ m_bStart = TRUE
  /\ m_msgList = <<>>
  /\ mutex = Nobody
  /\ pc = [t \in Threads |-> IF t \in Consumers THEN "top" ELSE "idle"]
  /\ msg = [t \in Threads |-> Nobody]
  /\ content = [b \in Blocks |-> NoMessage]
  /\ free = Blocks
  /\ calls = 0
  /\ main = "running"
  /\ m_mapMsgHandle = Registered
  /\ pushed = <<>>
  /\ popped = 0
  /\ handled = <<>>
  /\ missed = FALSE

Goto(t, step) == pc' = [pc EXCEPT ![t] = step]

history == <<pushed, popped, handled, missed>>

-----------------------------------------------------------------------------
\* AddMessageData

\* A block is taken and filled; a message that does not parse gives it back.
GetMessage(p) ==
  /\ p \in Producers
  /\ pc[p] = "idle"
  /\ m_bStart
  /\ calls < MaxMessages
  /\ calls' = calls + 1
  /\ \/ \E b \in free, type \in Types :
          /\ free' = free \ {b}
          /\ content' = [content EXCEPT ![b] = [no |-> calls + 1, type |-> type]]
          /\ msg' = [msg EXCEPT ![p] = b]
          /\ Goto(p, "push")
     \/ UNCHANGED <<free, content, msg, pc>>
  /\ UNCHANGED <<m_bStart, m_msgList, mutex, main, m_mapMsgHandle, history>>

\* Mutant: nobody is told of the message.
Push_Silent(p) ==
  /\ pc[p] = "push"
  /\ mutex = Nobody
  /\ m_msgList' = Append(m_msgList, msg[p])
  /\ pushed' = Append(pushed, content[msg[p]])
  /\ msg' = [msg EXCEPT ![p] = Nobody]
  /\ Goto(p, "idle")
  /\ UNCHANGED <<m_bStart, mutex, content, free, calls, main,
                 m_mapMsgHandle, popped, handled, missed>>

\* push and notify_one, inside the mutex: one of the waiting consumers wakes.
Push(p) ==
  /\ pc[p] = "push"
  /\ mutex = Nobody
  /\ m_msgList' = Append(m_msgList, msg[p])
  /\ pushed' = Append(pushed, content[msg[p]])
  /\ msg' = [msg EXCEPT ![p] = Nobody]
  /\ LET waiting == {c \in Consumers : pc[c] = "waiting"}
     IN IF waiting = {}
        THEN Goto(p, "idle")
        ELSE \E c \in waiting :
               pc' = [pc EXCEPT ![p] = "idle", ![c] = "woken"]
  /\ UNCHANGED <<m_bStart, mutex, content, free, calls, main,
                 m_mapMsgHandle, popped, handled, missed>>

-----------------------------------------------------------------------------
\* MessageHandleThread

\* while (m_bStart)
Top(c) ==
  /\ pc[c] = "top"
  /\ Goto(c, IF m_bStart THEN "lock" ELSE "exited")
  /\ UNCHANGED <<m_bStart, m_msgList, mutex, msg, content, free, calls, main,
                 m_mapMsgHandle, history>>

\* The mutex is taken, by the guard or by wait() on its way out, and the wait
\* condition is evaluated.
Test(c) ==
  /\ pc[c] \in {"lock", "woken"}
  /\ mutex = Nobody
  /\ mutex' = c
  /\ Goto(c, IF m_msgList = <<>> /\ m_bStart THEN "sleep" ELSE "take")
  /\ UNCHANGED <<m_bStart, m_msgList, msg, content, free, calls, main,
                 m_mapMsgHandle, history>>

\* wait() releases the mutex and sleeps in one step.
Wait(c) ==
  /\ pc[c] = "sleep"
  /\ mutex' = Nobody
  /\ Goto(c, "waiting")
  /\ missed' = (missed \/ main \in {"join", "done"})
  /\ UNCHANGED <<m_bStart, m_msgList, msg, content, free, calls, main,
                 m_mapMsgHandle, pushed, popped, handled>>

\* A condition variable may wake a thread nobody notified.
SpuriousWake(c) ==
  /\ c \in Consumers
  /\ pc[c] = "waiting"
  /\ Goto(c, "woken")
  /\ UNCHANGED <<m_bStart, m_msgList, mutex, msg, content, free, calls, main,
                 m_mapMsgHandle, history>>

\* Mutant: the block goes back to the pool before it is read.
Take_PutsEarly(c) ==
  /\ pc[c] = "take"
  /\ mutex' = Nobody
  /\ IF ~m_bStart
     THEN Goto(c, "exited") /\ UNCHANGED <<m_msgList, msg, free, popped>>
     ELSE /\ msg' = [msg EXCEPT ![c] = Head(m_msgList)]
          /\ m_msgList' = Tail(m_msgList)
          /\ free' = free \cup {Head(m_msgList)}
          /\ popped' = popped + 1
          /\ Goto(c, "handle")
  /\ UNCHANGED <<m_bStart, content, calls, main,
                 m_mapMsgHandle, pushed, handled, missed>>

\* Mutant: the front is read and left in the queue.
Take_NotPopped(c) ==
  /\ pc[c] = "take"
  /\ mutex' = Nobody
  /\ IF ~m_bStart \/ m_msgList = <<>>
     THEN Goto(c, "exited") /\ UNCHANGED <<msg, popped>>
     ELSE /\ msg' = [msg EXCEPT ![c] = Head(m_msgList)]
          /\ popped' = popped + 1
          /\ Goto(c, "handle")
  /\ UNCHANGED <<m_bStart, m_msgList, content, free, calls, main,
                 m_mapMsgHandle, pushed, handled, missed>>

\* The second look at m_bStart, still inside the mutex.
Take(c) ==
  /\ pc[c] = "take"
  /\ mutex' = Nobody
  /\ IF ~m_bStart
     THEN Goto(c, "exited") /\ UNCHANGED <<m_msgList, msg, popped>>
     ELSE /\ msg' = [msg EXCEPT ![c] = Head(m_msgList)]
          /\ m_msgList' = Tail(m_msgList)
          /\ popped' = popped + 1
          /\ Goto(c, "handle")
  /\ UNCHANGED <<m_bStart, content, free, calls, main,
                 m_mapMsgHandle, pushed, handled, missed>>

\* The handler of the message's type, if it has one; the block goes back.
Handle(c) ==
  /\ pc[c] = "handle"
  /\ handled' = IF content[msg[c]].type \in m_mapMsgHandle
                THEN Append(handled, content[msg[c]]) ELSE handled
  /\ free' = free \cup {msg[c]}
  /\ msg' = [msg EXCEPT ![c] = Nobody]
  /\ Goto(c, "top")
  /\ UNCHANGED <<m_bStart, m_msgList, mutex, content, calls, main,
                 m_mapMsgHandle, pushed, popped, missed>>

-----------------------------------------------------------------------------
\* Uninitialize

Stop ==
  /\ main = "running"
  /\ m_bStart' = FALSE
  /\ main' = "notify"
  /\ UNCHANGED <<m_msgList, mutex, pc, msg, content, free, calls,
                 m_mapMsgHandle, history>>

\* Mutant: one consumer is woken, the others are not.
NotifyAll_One ==
  /\ main = "notify"
  /\ LET waiting == {c \in Consumers : pc[c] = "waiting"}
     IN IF waiting = {} THEN UNCHANGED pc
        ELSE \E c \in waiting : Goto(c, "woken")
  /\ main' = "join"
  /\ UNCHANGED <<m_bStart, m_msgList, mutex, msg, content, free, calls,
                 m_mapMsgHandle, history>>

NotifyAll ==
  /\ main = "notify"
  /\ pc' = [t \in Threads |-> IF pc[t] = "waiting" THEN "woken" ELSE pc[t]]
  /\ main' = "join"
  /\ UNCHANGED <<m_bStart, m_msgList, mutex, msg, content, free, calls,
                 m_mapMsgHandle, history>>

Join ==
  /\ main = "join"
  /\ \A c \in Consumers : pc[c] = "exited"
  /\ main' = "done"
  /\ m_mapMsgHandle' = {}
  /\ UNCHANGED <<m_bStart, m_msgList, mutex, pc, msg, content, free, calls, history>>

-----------------------------------------------------------------------------
Consume(c) == Top(c) \/ Test(c) \/ Wait(c) \/ Take(c) \/ Handle(c)

Next ==
  \/ \E p \in Producers : GetMessage(p) \/ Push(p)
  \/ \E c \in Consumers : Consume(c) \/ SpuriousWake(c)
  \/ Stop \/ NotifyAll \/ Join

Spec == Init /\ [][Next]_vars

\* The mutex is fair and every thread runs.  Nobody need call Uninitialize,
\* and nothing wakes a thread by itself.
FairSpec ==
  /\ Spec
  /\ \A c \in Consumers : SF_vars(Test(c)) /\ WF_vars(Consume(c))
  /\ \A p \in Producers : SF_vars(Push(p))
  /\ WF_vars(NotifyAll) /\ WF_vars(Join)

-----------------------------------------------------------------------------
Message == [no: Nat, type: Types \cup {Nobody}]

\* Every variable has its type, and the mutex is held exactly by a consumer
\* between its test and its next step.
TypeOK ==
  /\ m_bStart \in BOOLEAN
  /\ m_msgList \in Seq(Blocks)
  /\ mutex \in Consumers \cup {Nobody}
  /\ pc \in [Threads -> {"idle", "push", "top", "lock", "sleep", "waiting",
                         "woken", "take", "handle", "exited"}]
  /\ \A t \in Threads : pc[t] \in {"idle", "push"} <=> t \in Producers
  /\ \A c \in Consumers : pc[c] \in {"sleep", "take"} <=> mutex = c
  /\ msg \in [Threads -> Blocks \cup {Nobody}]
  /\ content \in [Blocks -> Message]
  /\ free \subseteq Blocks
  /\ calls \in 0..MaxMessages
  /\ main \in {"running", "notify", "join", "done"}
  /\ m_mapMsgHandle \subseteq Types
  /\ pushed \in Seq(Message)
  /\ popped \in Nat
  /\ handled \in Seq(Message)
  /\ missed \in BOOLEAN

\* A message in the queue of a running server has a consumer that will look at
\* the queue again without being notified: wakeups are not lost between push
\* and wait, whichever threads interleave.
NoLostMessage ==
  m_bStart /\ m_msgList # <<>> =>
    \E c \in Consumers : pc[c] \in {"top", "lock", "woken", "take", "handle"}

\* The handlers read a block after the mutex is released; what they get is
\* still the message that was pushed, and each message is handled once.
HandledOnce ==
  /\ \A i \in DOMAIN handled : \E j \in 1..popped : handled[i] = pushed[j]
  /\ \A i, j \in DOMAIN handled : handled[i] = handled[j] => i = j

\* A block is never in two hands: neither twice in the queue, nor in the queue
\* and at a thread, nor in the pool and in use.
BlockExclusive ==
  /\ \A i, j \in DOMAIN m_msgList : m_msgList[i] = m_msgList[j] => i = j
  /\ \A t, u \in Threads : msg[t] = msg[u] /\ msg[t] # Nobody => t = u
  /\ \A i \in DOMAIN m_msgList, t \in Threads : m_msgList[i] # msg[t]
  /\ \A b \in free : /\ \A i \in DOMAIN m_msgList : m_msgList[i] # b
                     /\ \A t \in Threads : msg[t] # b

\* The i-th message pushed was given to its handler, or has none.
Settled(i) ==
  /\ i \in DOMAIN pushed
  /\ \/ pushed[i].type \notin Registered
     \/ \E j \in DOMAIN handled : handled[j] = pushed[i]

\* A pushed message reaches its handler, unless the server is stopped.
AllHandled ==
  \A i \in 1..MaxMessages : Len(pushed) >= i ~> (~m_bStart \/ Settled(i))

\* Uninitialize returns.  m_bStart is cleared outside the mutex, so a consumer
\* may test it before and go to sleep after notify_all; then the join hangs,
\* and in no other case.
StopReturns == main = "join" ~> (main = "done" \/ missed)
=============================================================================
