------------------------- MODULE HttpDownload_proofs -------------------------
(***************************************************************************)
(* Proofs about HttpDownload, for every file size, number of threads and   *)
(* of retries: the chunks cover the file, and as long as none is retried   *)
(* after it wrote, every byte is at its place and a success is complete.   *)
(***************************************************************************)
EXTENDS HttpDownload, TLAPS

\* The chunks cover the file, once there are any.
Cover == \A p \in 0..(Size - 1) :
           \E i \in DOMAIN chunks : chunks[i].first <= p /\ p < chunks[i].stop

\* A chunk's range lies in the file, and what it clips by is the range's end.
Ranges ==
  \A i \in DOMAIN chunks :
    LET c == chunks[i]
    IN /\ c.first <= c.from /\ c.from <= c.stop /\ c.stop <= Size
       /\ c._endidx > 0 => c._endidx = c.stop - 1
       /\ c.code = "ok" => c.from = c.stop
       /\ c.code = "error" => i \in failed
       /\ c.done => c.code # "none"

\* Without a retry after a write, a chunk's position in the file is that of
\* the server's, and what lies before it is written.
InStep ==
  resumed = {} =>
    \A i \in DOMAIN chunks :
      /\ chunks[i]._startidx = chunks[i].from
      /\ \A p \in chunks[i].first..(chunks[i].from - 1) : p \in DOMAIN file

InPlace == resumed = {} => \A p \in DOMAIN file : p < Size /\ file[p] = p

Verdict ==
  /\ request.m_download_fail /\ (\E i \in DOMAIN chunks : chunks[i].done) => failed # {}
  /\ result # "none" => \A i \in DOMAIN chunks : chunks[i].done
  /\ result = "failed" => failed # {}

Stages ==
  /\ perform \in {"none", "size", "open"} => DOMAIN chunks = {} /\ DOMAIN file = {}
  /\ perform = "wait" \/ result # "none" => DOMAIN chunks # {} /\ Cover
  /\ perform = "open" => request.m_total_size \in 0..Size
  /\ EntryOutlivesThread

IInv == TypeOK /\ Ranges /\ InStep /\ InPlace /\ Verdict /\ Stages

-----------------------------------------------------------------------------
\* The division into chunks

\* What the integer division of a position by the chunks' length gives.
LEMMA Division ==
  ASSUME NEW p \in Nat, NEW gap \in Nat \ {0}
  PROVE  /\ p \div gap \in Nat
         /\ (p \div gap) * gap <= p /\ p < (p \div gap) * gap + gap
OBVIOUS

LEMMA Multiples ==
  ASSUME NEW i \in Nat, NEW j \in Nat, NEW gap \in Nat
  PROVE  /\ i * gap \in Nat
         /\ i + 1 <= j => i * gap + gap <= j * gap
         /\ i * gap < j * gap => i < j
OBVIOUS

LEMMA CountBounded ==
  ASSUME NEW size \in Nat
  PROVE  Count(size) \in Int /\ Count(size) <= 10
<1>1. MB \in Nat /\ MB >= 1 /\ ThreadCount \in Int
  BY DownloadAssumption
<1>2. SplitDownloadCount(size) \in Int /\ SplitDownloadCount(size) <= 10
  <2>1. CASE size <= 2 * MB
    BY <2>1 DEF SplitDownloadCount
  <2>2. CASE ~(size <= 2 * MB) /\ size <= 10 * MB
    <3>1. size \div (2 * MB) \in Int /\ (size \div (2 * MB)) * (2 * MB) <= size
      BY <1>1, Division
    <3>2. size \div (2 * MB) <= 10
      <4> SUFFICES ASSUME size \div (2 * MB) > 10 PROVE FALSE
        BY <3>1
      <4>1. 10 * (2 * MB) < (size \div (2 * MB)) * (2 * MB)
        BY <1>1, <3>1
      <4> QED
        BY <1>1, <2>2, <3>1, <4>1
    <3> QED
      BY <2>2, <3>1, <3>2 DEF SplitDownloadCount
  <2>3. CASE ~(size <= 2 * MB) /\ ~(size <= 10 * MB)
    BY <1>1, <2>3 DEF SplitDownloadCount, s_kThreadCount
  <2> QED
    BY <2>1, <2>2, <2>3
<1> QED
  BY <1>1, <1>2 DEF Count

\* For any size up to the file's and any number of threads, the chunks lie in
\* the file and together are the whole of it.
LEMMA SplitCovers ==
  ASSUME NEW size \in 0..Size, NEW count \in Nat \ {0}
  PROVE  LET c == Split(size, count)
         IN /\ DOMAIN c = 0..(count - 1)
            /\ \A i \in DOMAIN c : 
                 /\ c[i] \in ThreadChunk /\ c[i]._startidx = c[i].from /\ c[i].from = c[i].first
                 /\ c[i].first <= c[i].stop /\ c[i].stop <= Size
                 /\ c[i]._endidx > 0 => c[i]._endidx = c[i].stop - 1
                 /\ c[i].code = "none" /\ ~c[i].done
            /\ \A p \in 0..(Size - 1) : \E i \in DOMAIN c : c[i].first <= p /\ p < c[i].stop
<1> DEFINE gap == size \div count
           c == Split(size, count)
           end(i) == IF i < count - 1 THEN i * gap + gap - 1 ELSE -1
<1>1. Size \in Nat /\ size \in Nat /\ size <= Size /\ RetryTimes \in Nat
  BY DownloadAssumption
<1>2. gap \in Nat /\ gap * count <= size
  BY <1>1, Division
<1> HIDE DEF gap
<1>3. c = [i \in 0..(count - 1) |-> Chunk(i * gap, end(i))]
  BY DEF Split, gap
<1>4. ASSUME NEW i \in 0..(count - 1)
      PROVE  /\ i \in Nat /\ i * gap \in Nat /\ i * gap + gap <= size /\ end(i) \in Int
             /\ end(i) > 0 => end(i) = i * gap + gap - 1
             /\ i < count - 1 => end(i) = i * gap + gap - 1
             /\ end(i) = 0 => i * gap = 0
  <2>1. i \in Nat /\ i + 1 <= count
    OBVIOUS
  <2>2. i * gap \in Nat /\ i * gap + gap <= count * gap
    BY <1>2, <2>1, Multiples
  <2>3. gap = 0 => i * gap = 0
    BY <2>1
  <2> QED
    BY <1>1, <1>2, <2>1, <2>2, <2>3
<1> HIDE DEF c
<1>5. /\ (count - 1) \in 0..(count - 1) /\ end(count - 1) = -1
  OBVIOUS
<1> HIDE DEF end
<1>6. ASSUME NEW i \in 0..(count - 1)
      PROVE  \E stop \in Nat :
               /\ c[i] = [_startidx |-> i * gap, _endidx |-> end(i), first |-> i * gap,
                          stop |-> stop, from |-> i * gap,
                          left |-> RetryTimes, code |-> "none", done |-> FALSE]
               /\ stop <= Size /\ i * gap <= stop
               /\ stop = IF end(i) > 0 THEN end(i) + 1 ELSE Size
  <2>1. c[i] = Chunk(i * gap, end(i))
    BY <1>3
  <2>2. (IF end(i) = 0 THEN 0 ELSE i * gap) = i * gap
    BY <1>4
  <2>3. end(i) > 0 => end(i) + 1 = i * gap + gap
    BY <1>2, <1>4
  <2>4. PICK stop \in Nat : stop = IF end(i) > 0 THEN end(i) + 1 ELSE Size
    BY <1>1, <1>4
  <2>5. stop <= Size /\ i * gap <= stop
    BY <1>1, <1>2, <1>4, <2>3, <2>4
  <2> QED
    BY <2>1, <2>2, <2>4, <2>5 DEF Chunk
<1>7. ASSUME NEW i \in 0..(count - 1)
      PROVE  /\ c[i] \in ThreadChunk
             /\ c[i].first = i * gap /\ c[i].from = i * gap /\ c[i]._startidx = i * gap
             /\ c[i]._endidx = end(i) /\ c[i].code = "none" /\ ~c[i].done
             /\ c[i].stop = IF end(i) > 0 THEN end(i) + 1 ELSE Size
             /\ c[i].stop <= Size /\ i * gap <= c[i].stop
  <2>1. i * gap \in Nat /\ end(i) \in Int /\ RetryTimes \in 0..RetryTimes
    BY <1>1, <1>4
  <2> DEFINE x == i * gap  e == end(i)
  <2>2. PICK stop \in Nat :
          /\ c[i] = [_startidx |-> x, _endidx |-> e, first |-> x,
                     stop |-> stop, from |-> x,
                     left |-> RetryTimes, code |-> "none", done |-> FALSE]
          /\ stop <= Size /\ x <= stop
          /\ stop = IF e > 0 THEN e + 1 ELSE Size
    BY <1>6
  <2>3. x \in Nat /\ e \in Int
    BY <2>1
  <2> HIDE DEF x, e
  <2>4. c[i] \in ThreadChunk
    BY <2>1, <2>2, <2>3 DEF ThreadChunk
  <2>5. /\ c[i].first = x /\ c[i].from = x /\ c[i]._startidx = x
        /\ c[i]._endidx = e /\ c[i].code = "none" /\ ~c[i].done /\ c[i].stop = stop
    BY <2>2
  <2> QED
    BY <2>2, <2>4, <2>5 DEF x, e
<1>8. ASSUME NEW p \in 0..(Size - 1)
      PROVE  \E i \in 0..(count - 1) : c[i].first <= p /\ p < c[i].stop
  <2>1. CASE (count - 1) * gap <= p
    <3>1. c[count - 1].first = (count - 1) * gap /\ c[count - 1].stop = Size
      BY <1>7, <1>5
    <3> QED
      BY <1>1, <1>5, <2>1, <3>1
  <2>2. CASE ~((count - 1) * gap <= p)
    <3>1. gap # 0
      <4> SUFFICES ASSUME gap = 0 PROVE FALSE
        OBVIOUS
      <4>1. (count - 1) * gap = 0
        OBVIOUS
      <4> QED
        BY <1>1, <2>2, <4>1
    <3>2. PICK i \in Nat : i * gap <= p /\ p < i * gap + gap
      <4>1. p \in Nat /\ gap \in Nat \ {0}
        BY <1>1, <1>2, <3>1
      <4>2. p \div gap \in Nat /\ (p \div gap) * gap <= p /\ p < (p \div gap) * gap + gap
        BY <4>1, Division
      <4> QED
        BY <4>2
    <3>3. i * gap \in Nat /\ (count - 1) * gap \in Nat /\ i * gap < (count - 1) * gap
      BY <1>1, <1>2, <2>2, <3>2, Multiples
    <3>4. i < count - 1
      BY <1>2, <3>3, Multiples
    <3>5. i \in 0..(count - 1) /\ end(i) = i * gap + gap - 1
      BY <1>4, <3>4
    <3>6. c[i].first = i * gap /\ c[i].stop = IF end(i) > 0 THEN end(i) + 1 ELSE Size
      BY <1>7, <3>5
    <3>7. end(i) > 0 => end(i) + 1 = i * gap + gap
      BY <1>2, <3>3, <3>5
    <3> QED
      BY <1>1, <3>2, <3>5, <3>6, <3>7
  <2> QED
    BY <2>1, <2>2
<1>9. DOMAIN c = 0..(count - 1)
  BY <1>3
<1>10. ASSUME NEW i \in 0..(count - 1)
      PROVE  /\ c[i]._startidx = c[i].from /\ c[i].from = c[i].first
             /\ c[i].first <= c[i].stop /\ c[i].stop <= Size
             /\ c[i]._endidx > 0 => c[i]._endidx = c[i].stop - 1
             /\ c[i].code = "none" /\ ~c[i].done
  BY <1>4, <1>7
<1> QED
  BY <1>7, <1>8, <1>9, <1>10 DEF c

\* The same of a download in one transfer.
LEMMA WholeCovers ==
  /\ DOMAIN Whole = {0} /\ Whole[0] = Chunk(0, 0) /\ Whole[0] \in ThreadChunk
  /\ Chunk(0, 0) = [_startidx |-> 0, _endidx |-> 0, first |-> 0, stop |-> Size, from |-> 0,
                    left |-> RetryTimes, code |-> "none", done |-> FALSE]
BY DownloadAssumption DEF Whole, Chunk, ThreadChunk
-----------------------------------------------------------------------------
\* The steps

LEMMA InitIInv == Init => IInv
<1> SUFFICES ASSUME Init PROVE IInv
  OBVIOUS
<1> USE DEF Init
<1>1. DOMAIN chunks = {} /\ DOMAIN file = {}
  OBVIOUS
<1>2. TypeOK
  <2>1. request \in Request
    BY DEF Request
  <2>2. 0..(0 - 1) = {} /\ 0 \in 0..10
    OBVIOUS
  <2> QED
    BY <1>1, <2>1, <2>2 DEF TypeOK
<1>3. Ranges /\ InStep /\ InPlace
  BY <1>1 DEF Ranges, InStep, InPlace
<1>4. Verdict /\ Stages
  BY <1>1 DEF Verdict, Stages, EntryOutlivesThread
<1> QED
  BY <1>2, <1>3, <1>4 DEF IInv

\* The steps of the application and of Perform, which leave the chunks alone.
LEMMA StartKeeps ==
  ASSUME IInv, NEW async \in BOOLEAN, Start(async)
  PROVE  IInv'
<1> USE DEF IInv, Start, history
<1>1. TypeOK'
  BY DEF TypeOK, Request
<1>2. Ranges' /\ InStep' /\ InPlace'
  BY DEF Ranges, InStep, InPlace
<1>3. Verdict'
  BY DEF Verdict, TypeOK, Request
<1>4. Stages'
  BY DEF Stages, Cover, EntryOutlivesThread, TypeOK, Request
<1> QED
  BY <1>1, <1>2, <1>3, <1>4

LEMMA CallKeeps ==
  ASSUME IInv, Close \/ CancelDownload
  PROVE  IInv'
<1> USE DEF IInv, Close, CancelDownload, history
<1>1. TypeOK'
  BY DEF TypeOK, Request
<1>2. Ranges' /\ InStep' /\ InPlace'
  BY DEF Ranges, InStep, InPlace
<1>3. Verdict'
  BY DEF Verdict, TypeOK, Request
<1>4. Stages'
  BY DEF Stages, Cover, EntryOutlivesThread, TypeOK, Request
<1> QED
  BY <1>1, <1>2, <1>3, <1>4

LEMMA SizeKeeps ==
  ASSUME IInv, GetDownloadFileSize
  PROVE  IInv'
<1> USE DEF IInv
<1>1. Size \in Nat
  BY DownloadAssumption
<1>2. request \in Request
  BY DEF TypeOK
<1>3. /\ request' \in Request
      /\ request'.m_download_fail = request.m_download_fail
      /\ request'.async = request.async
      /\ perform' = Performed \/ (perform' = "open" /\ request'.m_total_size \in 0..Size)
  <2>1. CASE request' = [request EXCEPT !.m_total_size = -1] /\ perform' = Performed
    BY <1>2, <2>1 DEF Request
  <2>2. CASE /\ Size >= 2 /\ perform' = "open"
             /\ request' = [request EXCEPT !.m_total_size = Size - 2, !.m_multi_download = TRUE]
    <3> DEFINE size == Size - 2
    <3>1. size \in Int /\ size \in 0..Size
      BY <1>1, <2>2
    <3> HIDE DEF size
    <3>2. request' = [request EXCEPT !.m_total_size = size, !.m_multi_download = TRUE]
      BY <2>2 DEF size
    <3> QED
      BY <1>2, <2>2, <3>1, <3>2 DEF Request
  <2>3. CASE request' = [request EXCEPT !.m_total_size = Size] /\ perform' = "open"
    BY <1>1, <1>2, <2>3 DEF Request
  <2> QED
    BY <2>1, <2>2, <2>3 DEF GetDownloadFileSize
<1>4. perform = "size" /\ UNCHANGED <<listed, chunks, file, result, failed, resumed>>
  BY DEF GetDownloadFileSize, history
<1>5. TypeOK'
  BY <1>2, <1>3, <1>4 DEF TypeOK, Performed
<1>6. Ranges' /\ InStep' /\ InPlace'
  BY <1>4 DEF Ranges, InStep, InPlace
<1>7. Verdict'
  BY <1>3, <1>4 DEF Verdict
<1>8. Stages'
  BY <1>2, <1>3, <1>4 DEF Stages, Cover, EntryOutlivesThread, Performed
<1> QED
  BY <1>5, <1>6, <1>7, <1>8

LEMMA OpenKeeps ==
  ASSUME IInv, OpenFile
  PROVE  IInv'
<1> USE DEF IInv
<1>1. /\ perform = "open" /\ DOMAIN chunks = {} /\ DOMAIN file = {} /\ result = "none"
      /\ request.m_total_size \in 0..Size /\ request \in Request
      /\ failed = {} /\ resumed = {} /\ Size \in Nat
      /\ UNCHANGED <<request, listed, file, result, failed, resumed>>
  BY DownloadAssumption DEF OpenFile, Stages, TypeOK, history
<1>2. CASE perform' = Performed /\ UNCHANGED chunks
  <2>1. TypeOK'
    BY <1>1, <1>2 DEF TypeOK, Performed
  <2>2. Ranges' /\ InStep' /\ InPlace' /\ Verdict'
    BY <1>1, <1>2 DEF Ranges, InStep, InPlace, Verdict
  <2>3. Stages'
    BY <1>1, <1>2 DEF Stages, Cover, EntryOutlivesThread, Performed, Request
  <2> QED
    BY <2>1, <2>2, <2>3
<1>3. CASE ~(perform' = Performed /\ UNCHANGED chunks)
  <2> DEFINE size == request.m_total_size
             count == Count(size)
  <2>1. /\ perform' = "wait"
        /\ chunks' = IF request.m_multi_download /\ count > 1 THEN Split(size, count) ELSE Whole
    BY <1>1, <1>3 DEF OpenFile
  <2>2. size \in Nat /\ size \in 0..Size /\ count \in Int /\ count <= 10
    BY <1>1, CountBounded
  <2> HIDE DEF size, count
  <2>3. \E n \in 1..10 :
          /\ DOMAIN chunks' = 0..(n - 1)
          /\ \A i \in 0..(n - 1) :
               LET c == chunks'[i]
               IN /\ c \in ThreadChunk /\ c._startidx = c.from /\ c.from = c.first
                  /\ c.first <= c.stop /\ c.stop <= Size
                  /\ c._endidx > 0 => c._endidx = c.stop - 1
                  /\ c.code = "none" /\ ~c.done
          /\ \A p \in 0..(Size - 1) :
               \E i \in 0..(n - 1) : chunks'[i].first <= p /\ p < chunks'[i].stop
    <3>1. CASE request.m_multi_download /\ count > 1
      <4>1. chunks' = Split(size, count) /\ count \in Nat \ {0} /\ count \in 1..10
        BY <2>1, <2>2, <3>1
      <4>2. /\ DOMAIN chunks' = 0..(count - 1)
            /\ \A i \in DOMAIN chunks' :
                 LET c == chunks'[i]
                 IN /\ c \in ThreadChunk /\ c._startidx = c.from /\ c.from = c.first
                    /\ c.first <= c.stop /\ c.stop <= Size
                    /\ c._endidx > 0 => c._endidx = c.stop - 1
                    /\ c.code = "none" /\ ~c.done
            /\ \A p \in 0..(Size - 1) :
                 \E i \in DOMAIN chunks' : chunks'[i].first <= p /\ p < chunks'[i].stop
        BY <2>2, <4>1, SplitCovers, Zenon
      <4> QED
        <5>1. DOMAIN chunks' = 0..(count - 1)
          BY <4>2
        <5>2. \A i \in 0..(count - 1) :
                LET c == chunks'[i]
                IN /\ c \in ThreadChunk /\ c._startidx = c.from /\ c.from = c.first
                   /\ c.first <= c.stop /\ c.stop <= Size
                   /\ c._endidx > 0 => c._endidx = c.stop - 1
                   /\ c.code = "none" /\ ~c.done
          BY <4>2, <5>1
        <5>3. \A p \in 0..(Size - 1) :
                \E i \in 0..(count - 1) : chunks'[i].first <= p /\ p < chunks'[i].stop
          BY <4>2, <5>1
        <5> QED
          BY <4>1, <5>1, <5>2, <5>3, Zenon
    <3>2. CASE ~(request.m_multi_download /\ count > 1)
      <4>1. chunks' = Whole
        BY <2>1, <3>2
      <4>2. DOMAIN chunks' = 0..(1 - 1) /\ 1 \in 1..10
        BY <4>1, WholeCovers
      <4>3. /\ chunks'[0] \in ThreadChunk /\ chunks'[0]._startidx = 0 /\ chunks'[0].from = 0
            /\ chunks'[0].first = 0 /\ chunks'[0].stop = Size /\ chunks'[0]._endidx = 0
            /\ chunks'[0].code = "none" /\ ~chunks'[0].done
        BY <4>1, WholeCovers
      <4> QED
        BY <1>1, <4>2, <4>3
    <3> QED
      BY <3>1, <3>2
  <2>4. PICK n \in 1..10 :
          /\ DOMAIN chunks' = 0..(n - 1)
          /\ \A i \in 0..(n - 1) :
               LET c == chunks'[i]
               IN /\ c \in ThreadChunk /\ c._startidx = c.from /\ c.from = c.first
                  /\ c.first <= c.stop /\ c.stop <= Size
                  /\ c._endidx > 0 => c._endidx = c.stop - 1
                  /\ c.code = "none" /\ ~c.done
          /\ \A p \in 0..(Size - 1) :
               \E i \in 0..(n - 1) : chunks'[i].first <= p /\ p < chunks'[i].stop
    BY <2>3
  <2>5. n \in 0..10 /\ 0 \in 0..(n - 1)
    OBVIOUS
  <2>6. TypeOK'
    BY <1>1, <2>1, <2>4, <2>5 DEF TypeOK
  <2>7. Ranges'
    <3> SUFFICES ASSUME NEW i \in 0..(n - 1)
                 PROVE  LET c == chunks'[i]
                        IN /\ c.first <= c.from /\ c.from <= c.stop /\ c.stop <= Size
                           /\ c._endidx > 0 => c._endidx = c.stop - 1
                           /\ c.code = "ok" => c.from = c.stop
                           /\ c.code = "error" => i \in failed'
                           /\ c.done => c.code # "none"
      BY <2>4 DEF Ranges
    <3>1. /\ chunks'[i] \in ThreadChunk /\ chunks'[i].from = chunks'[i].first
          /\ chunks'[i].first <= chunks'[i].stop /\ chunks'[i].stop <= Size
          /\ chunks'[i]._endidx > 0 => chunks'[i]._endidx = chunks'[i].stop - 1
          /\ chunks'[i].code = "none" /\ ~chunks'[i].done
      BY <2>4
    <3>2. chunks'[i].first \in Nat
      BY <3>1 DEF ThreadChunk
    <3> QED
      BY <3>1, <3>2
  <2>8. InStep'
    <3>1. ASSUME NEW i \in 0..(n - 1)
          PROVE  chunks'[i]._startidx = chunks'[i].from /\ chunks'[i].from = chunks'[i].first
                 /\ chunks'[i].from \in Nat
      BY <2>4 DEF ThreadChunk
    <3>2. ASSUME NEW i \in 0..(n - 1)
          PROVE  chunks'[i].first..(chunks'[i].from - 1) = {}
      BY <3>1
    <3> QED
      BY <2>4, <3>1, <3>2 DEF InStep
  <2>9. InPlace'
    BY <1>1 DEF InPlace
  <2>10. Verdict'
    <3>1. ~ \E i \in DOMAIN chunks' : chunks'[i].done
      BY <2>4
    <3> QED
      BY <1>1, <3>1 DEF Verdict
  <2>11. Stages'
    <3>1. Cover' /\ DOMAIN chunks' # {}
      BY <2>4, <2>5 DEF Cover
    <3>2. EntryOutlivesThread'
      BY <1>1, <2>1 DEF Stages, EntryOutlivesThread
    <3> QED
      BY <2>1, <3>1, <3>2 DEF Stages
  <2> QED
    BY <2>6, <2>7, <2>8, <2>9, <2>10, <2>11
<1> QED
  BY <1>2, <1>3

LEMMA FinishKeeps ==
  ASSUME IInv, Finish
  PROVE  IInv'
<1> USE DEF IInv, Finish, Performed, history
<1>1. TypeOK'
  BY DEF TypeOK
<1>2. Ranges' /\ InStep' /\ InPlace'
  BY DEF Ranges, InStep, InPlace
<1>3. Verdict'
  BY DEF Verdict, Stages
<1>4. Stages'
  BY DEF Stages, Cover, EntryOutlivesThread
<1> QED
  BY <1>1, <1>2, <1>3, <1>4

LEMMA LeaveKeeps ==
  ASSUME IInv, SelfClose \/ Remove \/ EndThread
  PROVE  IInv'
<1> USE DEF IInv, SelfClose, Remove, EndThread, history
<1>1. TypeOK'
  BY DEF TypeOK
<1>2. Ranges' /\ InStep' /\ InPlace'
  BY DEF Ranges, InStep, InPlace
<1>3. Verdict'
  BY DEF Verdict
<1>4. Stages'
  BY DEF Stages, Cover, EntryOutlivesThread
<1> QED
  BY <1>1, <1>2, <1>3, <1>4

\* The steps of a chunk's thread.
LEMMA WriteKeeps ==
  ASSUME IInv, NEW i \in 0..9, NEW n \in 1..MaxPiece, WriteCallback(i, n)
  PROVE  IInv'
<1> USE DEF IInv
<1>1. /\ i \in DOMAIN chunks /\ chunks[i] \in ThreadChunk /\ chunks[i].code = "none"
      /\ perform = "wait" /\ n \in Nat \ {0} /\ Size \in Nat
      /\ UNCHANGED <<listed, perform, result, resumed>>
  BY DownloadAssumption DEF WriteCallback, Receiving, TypeOK
<1> DEFINE w == Clipped(chunks[i], n)
           s == chunks[i]._startidx
           f == chunks[i].from
           at == s..(s + w - 1)
<1>2. /\ s \in Nat /\ f \in Nat /\ chunks[i].first \in Nat /\ chunks[i].stop \in Nat
      /\ chunks[i]._endidx \in Int /\ chunks[i].left \in 0..RetryTimes
      /\ chunks[i].first <= f /\ chunks[i].stop <= Size
      /\ chunks[i]._endidx > 0 => chunks[i]._endidx = chunks[i].stop - 1
      /\ chunks[i].done = FALSE
  BY <1>1 DEF ThreadChunk, Ranges
<1>3. f + n <= chunks[i].stop
  BY DEF WriteCallback
<1>4. w \in 1..n /\ (resumed = {} => s = f /\ w = n)
  <2>1. resumed = {} => s = f
    BY <1>1 DEF InStep
  <2> QED
    BY <1>1, <1>2, <1>3, <2>1 DEF Clipped
<1>5. /\ file' = [p \in DOMAIN file \cup at |->
                    IF p \in at THEN f + (p - s) ELSE file[p]]
      /\ request' = [request EXCEPT !.m_downloaded_size = @ + w]
      /\ chunks' = [chunks EXCEPT ![i]._startidx = @ + w, ![i].from = @ + n,
                                  ![i].code = IF w < n THEN "error" ELSE @]
      /\ failed' = IF w < n THEN failed \cup {i} ELSE failed
  BY DEF WriteCallback
<1> HIDE DEF w
<1>6. /\ DOMAIN chunks' = DOMAIN chunks
      /\ \A j \in DOMAIN chunks : j # i => chunks'[j] = chunks[j]
      /\ chunks'[i]._startidx = s + w /\ chunks'[i].from = f + n
      /\ chunks'[i].code = IF w < n THEN "error" ELSE "none"
      /\ chunks'[i]._endidx = chunks[i]._endidx /\ chunks'[i].first = chunks[i].first
      /\ chunks'[i].stop = chunks[i].stop /\ chunks'[i].done = FALSE
      /\ chunks'[i] \in ThreadChunk
  <2>1. PICK code \in {"none", "error"} : code = IF w < n THEN "error" ELSE "none"
    OBVIOUS
  <2>2. s + w \in Nat /\ f + n \in Nat
    BY <1>1, <1>2, <1>4
  <2>3. (IF w < n THEN "error" ELSE chunks[i].code) = code
    BY <1>1, <2>1
  <2>4. /\ chunks'[i] = [chunks[i] EXCEPT !._startidx = s + w, !.from = f + n, !.code = code]
        /\ DOMAIN chunks' = DOMAIN chunks
        /\ \A j \in DOMAIN chunks : j # i => chunks'[j] = chunks[j]
    BY <1>1, <1>5, <2>3
  <2> QED
    BY <1>1, <1>2, <2>1, <2>2, <2>4 DEF ThreadChunk
<1>7. /\ request' \in Request /\ request'.m_download_fail = request.m_download_fail
      /\ request'.async = request.async
  BY <1>1, <1>4, <1>5 DEF TypeOK, Request
<1>8. /\ DOMAIN file' = DOMAIN file \cup at
      /\ \A p \in DOMAIN file' : file'[p] = IF p \in at THEN f + (p - s) ELSE file[p]
  BY <1>5
<1>9. failed \subseteq failed' /\ failed' \subseteq failed \cup {i}
  BY <1>5
<1>10. TypeOK'
  <2>1. DOMAIN file' \subseteq Nat
    BY <1>2, <1>4, <1>8 DEF TypeOK
  <2>2. ASSUME NEW p \in DOMAIN file'
        PROVE  file'[p] \in 0..(Size - 1)
    <3>1. CASE p \in at
      BY <1>1, <1>2, <1>3, <1>4, <1>8, <3>1
    <3>2. CASE p \notin at
      BY <1>8, <3>2 DEF TypeOK
    <3> QED
      BY <3>1, <3>2
  <2>3. \A j \in DOMAIN chunks' : chunks'[j] \in ThreadChunk
    BY <1>6 DEF TypeOK
  <2> QED
    BY <1>1, <1>6, <1>7, <1>9, <2>1, <2>2, <2>3 DEF TypeOK
<1>11. Ranges'
  BY <1>1, <1>2, <1>3, <1>4, <1>5, <1>6, <1>9 DEF Ranges
<1>12. InStep'
  <2> SUFFICES ASSUME resumed = {}, NEW j \in DOMAIN chunks
               PROVE  /\ chunks'[j]._startidx = chunks'[j].from
                      /\ \A p \in chunks'[j].first..(chunks'[j].from - 1) : p \in DOMAIN file'
    BY <1>1, <1>6 DEF InStep
  <2>1. CASE j # i
    BY <1>6, <1>8, <2>1 DEF InStep
  <2>2. CASE j = i
    <3>1. \A p \in chunks[i].first..(f - 1) : p \in DOMAIN file
      BY <1>1 DEF InStep
    <3>2. ASSUME NEW p \in chunks'[i].first..(chunks'[i].from - 1)
          PROVE  p \in DOMAIN file'
      <4>1. chunks'[i].first = chunks[i].first /\ chunks'[i].from = f + n
        BY <1>6
      <4>2. p \in Int /\ chunks[i].first <= p /\ p < f + n
        BY <1>1, <1>2, <4>1
      <4> QED
        BY <1>1, <1>2, <1>4, <1>8, <3>1, <4>2
    <3>3. chunks'[i]._startidx = chunks'[i].from
      BY <1>4, <1>6
    <3> QED
      BY <2>2, <3>2, <3>3, Zenon
  <2> QED
    BY <2>1, <2>2
<1>13. InPlace'
  <2> SUFFICES ASSUME resumed = {}, NEW p \in DOMAIN file'
               PROVE  p < Size /\ file'[p] = p
    BY <1>1 DEF InPlace
  <2>1. CASE p \in at
    BY <1>1, <1>2, <1>3, <1>4, <1>8, <2>1
  <2>2. CASE p \notin at
    BY <1>8, <2>2 DEF InPlace
  <2> QED
    BY <2>1, <2>2
<1>14. Verdict'
  BY <1>1, <1>2, <1>6, <1>7, <1>9 DEF Verdict
<1>15. Stages'
  <2>1. Cover'
    BY <1>1, <1>6 DEF Cover, Stages
  <2> QED
    BY <1>1, <1>6, <1>7, <2>1 DEF Stages, EntryOutlivesThread
<1> QED
  BY <1>10, <1>11, <1>12, <1>13, <1>14, <1>15

\* The end of a transfer, well or not, with code `code`.
LEMMA EndKeeps ==
  ASSUME IInv, NEW i \in 0..9, NEW code \in {"ok", "error"}, Receiving(i), EndsWith(i, code),
         code = "ok" => chunks[i].from = chunks[i].stop,
         UNCHANGED <<request, listed, perform, file, result, resumed>>
  PROVE  IInv'
<1> USE DEF IInv
<1>1. /\ i \in DOMAIN chunks /\ chunks[i] \in ThreadChunk /\ chunks[i].code = "none"
      /\ perform = "wait" /\ chunks[i].done = FALSE
  BY DEF Receiving, TypeOK, Ranges, ThreadChunk
<1>2. /\ DOMAIN chunks' = DOMAIN chunks
      /\ \A j \in DOMAIN chunks : j # i => chunks'[j] = chunks[j]
      /\ chunks'[i] \in ThreadChunk
      /\ chunks'[i].code = code /\ chunks'[i].done = FALSE
      /\ chunks'[i]._startidx = chunks[i]._startidx /\ chunks'[i]._endidx = chunks[i]._endidx
      /\ chunks'[i].first = chunks[i].first /\ chunks'[i].stop = chunks[i].stop
      /\ chunks'[i].from = chunks[i].from
  BY <1>1 DEF EndsWith, ThreadChunk
<1>3. /\ failed \subseteq failed' /\ failed' \subseteq failed \cup {i}
      /\ code = "error" => i \in failed'
  BY DEF EndsWith
<1>4. TypeOK'
  BY <1>1, <1>2, <1>3 DEF TypeOK
<1>5. Ranges'
  <2> SUFFICES ASSUME NEW j \in DOMAIN chunks
               PROVE  LET c == chunks'[j]
                      IN /\ c.first <= c.from /\ c.from <= c.stop /\ c.stop <= Size
                         /\ c._endidx > 0 => c._endidx = c.stop - 1
                         /\ c.code = "ok" => c.from = c.stop
                         /\ c.code = "error" => j \in failed'
                         /\ c.done => c.code # "none"
    BY <1>2 DEF Ranges
  <2>1. CASE j # i
    BY <1>2, <1>3, <2>1 DEF Ranges
  <2>2. CASE j = i
    BY <1>1, <1>2, <1>3, <2>2 DEF Ranges
  <2> QED
    BY <2>1, <2>2
<1>6. InStep' /\ InPlace'
  <2> SUFFICES ASSUME resumed = {}, NEW j \in DOMAIN chunks
               PROVE  /\ chunks'[j]._startidx = chunks'[j].from
                      /\ \A p \in chunks'[j].first..(chunks'[j].from - 1) : p \in DOMAIN file
    BY <1>2 DEF InStep, InPlace
  <2>1. chunks'[j]._startidx = chunks[j]._startidx /\ chunks'[j].first = chunks[j].first
        /\ chunks'[j].from = chunks[j].from
    BY <1>2
  <2> QED
    BY <2>1 DEF InStep
<1>7. Verdict'
  BY <1>1, <1>2, <1>3 DEF Verdict
<1>8. Stages'
  <2>1. \A j \in DOMAIN chunks :
          chunks'[j].first = chunks[j].first /\ chunks'[j].stop = chunks[j].stop
    BY <1>2
  <2> QED
    BY <1>1, <1>2, <2>1 DEF Stages, Cover, EntryOutlivesThread
<1> QED
  BY <1>4, <1>5, <1>6, <1>7, <1>8

LEMMA TimeOutKeeps ==
  ASSUME IInv, NEW i \in 0..9, TimeOut(i)
  PROVE  IInv'
<1> USE DEF IInv
<1>1. CASE chunks[i].left > 0
  <2>1. /\ i \in DOMAIN chunks /\ chunks[i] \in ThreadChunk /\ chunks[i].code = "none"
        /\ perform = "wait" /\ chunks[i].done = FALSE
        /\ UNCHANGED <<request, listed, perform, file, result, failed>>
    BY <1>1 DEF TimeOut, Receiving, TypeOK, Ranges, ThreadChunk
  <2>2. /\ chunks' = [chunks EXCEPT ![i].left = @ - 1, ![i].from = chunks[i].first]
        /\ resumed' = IF chunks[i]._startidx # chunks[i].first
                      THEN resumed \cup {i} ELSE resumed
    BY <1>1 DEF TimeOut
  <2>3. RetryTimes \in Nat /\ chunks[i].left \in 0..RetryTimes
    BY <2>1, DownloadAssumption DEF ThreadChunk
  <2>4. /\ DOMAIN chunks' = DOMAIN chunks
        /\ \A j \in DOMAIN chunks : j # i => chunks'[j] = chunks[j]
        /\ chunks'[i].code = "none" /\ chunks'[i].done = FALSE
        /\ chunks'[i]._startidx = chunks[i]._startidx /\ chunks'[i]._endidx = chunks[i]._endidx
        /\ chunks'[i].first = chunks[i].first /\ chunks'[i].stop = chunks[i].stop
        /\ chunks'[i].from = chunks[i].first
        /\ chunks'[i] \in ThreadChunk
    <3>1. chunks'[i] = [chunks[i] EXCEPT !.left = chunks[i].left - 1, !.from = chunks[i].first]
          /\ DOMAIN chunks' = DOMAIN chunks
          /\ \A j \in DOMAIN chunks : j # i => chunks'[j] = chunks[j]
      BY <2>1, <2>2
    <3>2. chunks[i].left - 1 \in 0..RetryTimes /\ chunks[i].first \in Nat
      BY <1>1, <2>1, <2>3 DEF ThreadChunk
    <3> QED
      BY <2>1, <3>1, <3>2 DEF ThreadChunk
  <2>5. resumed' = {} => resumed = {} /\ chunks[i]._startidx = chunks[i].first
    BY <2>2
  <2>6. TypeOK'
    BY <2>1, <2>2, <2>4 DEF TypeOK
  <2>7. Ranges'
    <3>1. chunks[i].first <= chunks[i].first /\ chunks[i].first <= chunks[i].stop
      BY <2>1 DEF Ranges, ThreadChunk
    <3> QED
      BY <2>1, <2>4, <3>1 DEF Ranges
  <2>8. InStep' /\ InPlace'
    <3>1. chunks'[i].first..(chunks'[i].from - 1) = {}
      BY <2>1, <2>4 DEF ThreadChunk
    <3> QED
      BY <2>1, <2>4, <2>5, <3>1 DEF InStep, InPlace
  <2>9. Verdict'
    BY <2>1, <2>4 DEF Verdict
  <2>10. Stages'
    BY <2>1, <2>4 DEF Stages, Cover, EntryOutlivesThread
  <2> QED
    BY <2>6, <2>7, <2>8, <2>9, <2>10
<1>2. CASE ~(chunks[i].left > 0)
  <2>1. /\ Receiving(i) /\ EndsWith(i, "error")
        /\ UNCHANGED <<request, listed, perform, file, result, resumed>>
    BY <1>2 DEF TimeOut
  <2> QED
    BY <2>1, EndKeeps
<1> QED
  BY <1>1, <1>2

LEMMA ReportKeeps ==
  ASSUME IInv, NEW i \in 0..9, Report(i)
  PROVE  IInv'
<1> USE DEF IInv
<1>1. /\ i \in DOMAIN chunks /\ chunks[i] \in ThreadChunk /\ chunks[i].code # "none"
      /\ perform = "wait" /\ request \in Request
      /\ UNCHANGED <<listed, perform, file, result, failed, resumed>>
  BY DEF Report, TypeOK, history
<1>2. /\ DOMAIN chunks' = DOMAIN chunks
      /\ \A j \in DOMAIN chunks : j # i => chunks'[j] = chunks[j]
      /\ chunks'[i].code = chunks[i].code /\ chunks'[i].done = TRUE
      /\ chunks'[i]._startidx = chunks[i]._startidx /\ chunks'[i]._endidx = chunks[i]._endidx
      /\ chunks'[i].first = chunks[i].first /\ chunks'[i].stop = chunks[i].stop
      /\ chunks'[i].from = chunks[i].from
      /\ chunks'[i] \in ThreadChunk
  BY <1>1 DEF Report, ThreadChunk
<1>3. /\ request' \in Request /\ request'.async = request.async
      /\ request'.m_download_fail => chunks[i].code # "ok"
  BY <1>1 DEF Report, Request
<1>4. TypeOK'
  BY <1>1, <1>2, <1>3 DEF TypeOK
<1>5. Ranges'
  BY <1>1, <1>2 DEF Ranges
<1>6. InStep' /\ InPlace'
  BY <1>1, <1>2 DEF InStep, InPlace
<1>7. Verdict'
  <2>1. chunks[i].code # "ok" => i \in failed
    BY <1>1 DEF Ranges, ThreadChunk
  <2> QED
    BY <1>1, <1>2, <1>3, <2>1 DEF Verdict
<1>8. Stages'
  BY <1>1, <1>2, <1>3 DEF Stages, Cover, EntryOutlivesThread
<1> QED
  BY <1>4, <1>5, <1>6, <1>7, <1>8

LEMMA NextIInv == IInv /\ [Next]_vars => IInv'
<1> SUFFICES ASSUME IInv, [Next]_vars PROVE IInv'
  OBVIOUS
<1>1. ASSUME NEW async \in BOOLEAN, Start(async) PROVE IInv'
  BY <1>1, StartKeeps
<1>2. CASE Close \/ CancelDownload
  BY <1>2, CallKeeps
<1>3. CASE Perform
  BY <1>3, SizeKeeps, OpenKeeps, FinishKeeps, LeaveKeeps DEF Perform
<1>4. ASSUME NEW i \in 0..9, DoDownload(i) PROVE IInv'
  <2>1. ASSUME NEW n \in 1..MaxPiece, WriteCallback(i, n) PROVE IInv'
    BY <2>1, WriteKeeps
  <2>2. CASE Complete(i)
    BY <2>2, EndKeeps DEF Complete
  <2>3. CASE Fail(i)
    BY <2>3, EndKeeps DEF Fail
  <2> QED
    BY <1>4, <2>1, <2>2, <2>3, TimeOutKeeps, ReportKeeps DEF DoDownload
<1>5. CASE UNCHANGED vars
  BY <1>5 DEF vars, IInv, TypeOK, Ranges, InStep, InPlace, Verdict, Stages, Cover,
              EntryOutlivesThread
<1> QED
  BY <1>1, <1>2, <1>3, <1>4, <1>5 DEF Next

LEMMA Invariant == Spec => []IInv
BY InitIInv, NextIInv, PTL DEF Spec

-----------------------------------------------------------------------------
\* The helper's flags, the chunks and the file keep their types, for every
\* length of the file and every number of threads and of retries: no chunk
\* counts its retries below zero, and no write lies outside the file's bytes.
THEOREM DownloadTypes == Spec => []TypeOK
<1>1. IInv => TypeOK
  BY DEF IInv
<1> QED
  BY <1>1, Invariant, PTL

\* Several threads write one file through one position (write_callback): every
\* byte is at its place, and a success without a failed transfer is complete,
\* unless a chunk was retried after it had written.
THEOREM DownloadExact == Spec => []FileExact
<1>1. IInv => FileExact
  <2> SUFFICES ASSUME IInv, resumed = {}
               PROVE  /\ \A p \in DOMAIN file : file[p] = p
                      /\ result = "ok" /\ failed = {} => DOMAIN file = 0..(Size - 1)
    BY DEF FileExact
  <2> USE DEF IInv
  <2>1. \A p \in DOMAIN file : p \in 0..(Size - 1) /\ file[p] = p
    BY DownloadAssumption DEF InPlace, TypeOK
  <2>2. ASSUME result = "ok", failed = {}, NEW p \in 0..(Size - 1)
        PROVE  p \in DOMAIN file
    <3>1. PICK i \in DOMAIN chunks : chunks[i].first <= p /\ p < chunks[i].stop
      BY <2>2 DEF Stages, Cover
    <3>2. chunks[i] \in ThreadChunk /\ chunks[i].from = chunks[i].stop
      BY <2>2 DEF Verdict, Ranges, TypeOK, ThreadChunk
    <3> QED
      BY <3>1, <3>2 DEF InStep, ThreadChunk
  <2> QED
    BY <2>1, <2>2
<1> QED
  BY <1>1, Invariant, PTL

\* No download is reported as failed because of the verdict Reset leaves, or
\* of one of an earlier chunk: some transfer of it did fail.
THEOREM FailuresReal == Spec => []FailureReal
<1>1. IInv => FailureReal
  BY DEF IInv, Verdict, FailureReal
<1> QED
  BY <1>1, Invariant, PTL

\* Neither Close nor the thread itself takes the entry away while the thread
\* still reads or writes it.
THEOREM EntryStays == Spec => []EntryOutlivesThread
<1>1. IInv => EntryOutlivesThread
  BY DEF IInv, Stages
<1> QED
  BY <1>1, Invariant, PTL
=============================================================================
