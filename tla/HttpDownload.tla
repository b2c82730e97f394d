----------------------------- MODULE HttpDownload -----------------------------
(***************************************************************************)
(* One download of HttpDownloader (http_service_moudle): a thread asks for *)
(* the size of the file, divides it into chunks, and one thread per chunk  *)
(* writes what it receives into one file at its own position, while the    *)
(* application may cancel the download or close its handle.                *)
(*                                                                         *)
(* A byte of the file is named by its position at the server, so a byte    *)
(* out of place is seen.  libcurl is external: a transfer delivers the     *)
(* range it asked for from its first byte on, in pieces, and ends well     *)
(* when all is delivered, or with a timeout or another error at any time.  *)
(***************************************************************************)
EXTENDS Integers, FiniteSets

CONSTANTS MB,          \* bytes in a megabyte
          Size,        \* the length of the file at the server
          ThreadCount, \* what the caller asked for
          RetryTimes,  \* m_retry_times
          MaxPiece     \* bound: what libcurl delivers at once

ASSUME DownloadAssumption ==
  /\ MB \in Nat \ {0} /\ Size \in Nat /\ ThreadCount \in Int
  /\ RetryTimes \in Nat /\ MaxPiece \in Nat \ {0}
  /\ Size <= 2147483647 \* positions are of type long, 32 bits wide

s_kThreadCount == 4

VARIABLES
  request,  \* the DownloadHelper's members
  listed,   \* it is in s_async_downloads
  perform,  \* the thread that runs Perform
  chunks,   \* index -> ThreadChunk and its transfer
  file,     \* the .dl file: position -> byte, where one was written
  result,   \* what m_result_callback was told
  \* History, read by properties only.
  failed,   \* chunks whose transfer failed
  resumed   \* chunks that retried after they had written

vars == <<request, listed, perform, chunks, file, result, failed, resumed>>

Request == [m_close_self: BOOLEAN, m_multi_download: BOOLEAN, m_download_fail: BOOLEAN,
            m_is_cancel: BOOLEAN, m_total_size: Int, m_downloaded_size: Nat,
            async: BOOLEAN]

ThreadChunk == [_startidx: Nat, _endidx: Int, 
                first: Nat, stop: Nat,  \* the bytes asked for, stop excluded
                from: Nat,              \* the next byte the server sends
                left: 0..RetryTimes,    \* retry_count
                code: {"none", "ok", "error"}, done: BOOLEAN]

Init ==
  /\ request = [m_close_self |-> FALSE, m_multi_download |-> FALSE, m_download_fail |-> TRUE,
                m_is_cancel |-> FALSE, m_total_size |-> 0, m_downloaded_size |-> 0,
                async |-> FALSE]
  /\ listed = FALSE
  /\ perform = "none"
  /\ chunks = << >>
  /\ file = << >>
  /\ result = "none"
  /\ failed = {}
  /\ resumed = {}

history == <<failed, resumed>>

-----------------------------------------------------------------------------
\* The division into chunks

SplitDownloadCount(size) ==
  IF size <= 2 * MB THEN 1
  ELSE IF size <= 10 * MB THEN size \div (2 * MB)
  ELSE IF size <= 50 * MB THEN s_kThreadCount + 1
  ELSE IF size \div (10 * MB) > 10 THEN 10 ELSE size \div (10 * MB)

Count(size) ==
  IF SplitDownloadCount(size) > ThreadCount THEN ThreadCount ELSE SplitDownloadCount(size)

\* The chunk with these _startidx and _endidx, and the range DoDownload asks
\* for: up to end, or, without a positive end, to the end of the file; all of
\* the file when end is zero.
Chunk(start, end) ==
  [_startidx |-> start, _endidx |-> end,
   first |-> IF end = 0 THEN 0 ELSE start,
   stop |-> IF end > 0 THEN end + 1 ELSE Size,
   from |-> IF end = 0 THEN 0 ELSE start,
   left |-> RetryTimes, code |-> "none", done |-> FALSE]

\* Mutant: the last chunk ends where the length the server named ends.
Split_Bounded(size, count) ==
  LET gap == size \div count
  IN [i \in 0..(count - 1) |->
        Chunk(i * gap, IF i < count - 1 THEN i * gap + gap - 1 ELSE size - 1)]

\* The chunks of a download of `size` bytes in `count` threads.  The last one
\* is open at its end: the server sends it all there is.
Split(size, count) ==
  LET gap == size \div count
  IN [i \in 0..(count - 1) |->
        Chunk(i * gap, IF i < count - 1 THEN i * gap + gap - 1 ELSE -1)]

\* One transfer without a range.
Whole == [i \in {0} |-> Chunk(0, 0)]

-----------------------------------------------------------------------------
\* The application

\* Reset, and Perform on a thread of its own (async) or on the caller's.
Start(async) ==
  /\ perform = "none"
  /\ request' = [request EXCEPT !.async = async]
  /\ listed' = async
  /\ perform' = "size"
  /\ UNCHANGED <<chunks, file, result, history>>

\* Mutant: the entry is removed whether or not the thread is done.
Close_Always ==
  /\ listed
  /\ listed' = FALSE
  /\ UNCHANGED <<request, perform, chunks, file, result, history>>

\* The handle points into the list: nobody uses it after the entry is gone.
Close ==
  /\ listed
  /\ IF perform = "ended"
     THEN listed' = FALSE /\ UNCHANGED request
     ELSE request' = [request EXCEPT !.m_close_self = TRUE] /\ UNCHANGED listed
  /\ UNCHANGED <<perform, chunks, file, result, history>>

CancelDownload ==
  /\ listed
  /\ request' = [request EXCEPT !.m_is_cancel = TRUE]
  /\ UNCHANGED <<listed, perform, chunks, file, result, history>>

-----------------------------------------------------------------------------
\* Perform and DownloadThread

\* What follows Perform: DownloadThread looks whether it has to close itself.
Performed == IF request.async THEN "test" ELSE "ended"

\* Mutant: a thread without a length leaves at once.
GetDownloadFileSize_Leaves ==
  /\ perform = "size"
  /\ \/ /\ request' = [request EXCEPT !.m_total_size = -1]
        /\ perform' = "leave"
     \/ /\ request' = [request EXCEPT !.m_total_size = Size]
        /\ perform' = "open"
  /\ UNCHANGED <<listed, chunks, file, result, history>>

\* GetDownloadFileSize asks for the range "2-": a server that honours ranges
\* names a length two bytes short.  Without a length Perform is over.
GetDownloadFileSize ==
  /\ perform = "size"
  /\ \/ /\ request' = [request EXCEPT !.m_total_size = -1]
        /\ perform' = Performed
     \/ /\ Size >= 2
        /\ request' = [request EXCEPT !.m_total_size = Size - 2, !.m_multi_download = TRUE]
        /\ perform' = "open"
     \/ /\ request' = [request EXCEPT !.m_total_size = Size]
        /\ perform' = "open"
  /\ UNCHANGED <<listed, chunks, file, result, history>>

\* The .dl file is created anew and the chunks' threads are started.
OpenFile ==
  /\ perform = "open"
  /\ \/ perform' = Performed /\ UNCHANGED chunks
     \/ /\ perform' = "wait"
        /\ LET count == Count(request.m_total_size)
           IN chunks' = IF request.m_multi_download /\ count > 1
                        THEN Split(request.m_total_size, count) ELSE Whole
  /\ UNCHANGED <<request, listed, file, result, history>>

\* All threads are joined; the file is moved into place or deleted, and the
\* application is told.
Finish ==
  /\ perform = "wait"
  /\ \A i \in DOMAIN chunks : chunks[i].done
  /\ result' = IF request.m_download_fail THEN "failed" ELSE "ok"
  /\ perform' = Performed
  /\ UNCHANGED <<request, listed, chunks, file, history>>

\* SelfClose is read without the lock of the list.
SelfClose ==
  /\ perform = "test"
  /\ perform' = IF request.m_close_self THEN "remove" ELSE "leave"
  /\ UNCHANGED <<request, listed, chunks, file, result, history>>

Remove ==
  /\ perform = "remove"
  /\ listed' = FALSE
  /\ perform' = "leave"
  /\ UNCHANGED <<request, chunks, file, result, history>>

EndThread ==
  /\ perform = "leave"
  /\ perform' = "ended"
  /\ UNCHANGED <<request, listed, chunks, file, result, history>>

-----------------------------------------------------------------------------
\* DoDownload of chunk i

Receiving(i) == perform = "wait" /\ i \in DOMAIN chunks /\ chunks[i].code = "none"

\* The end of curl_easy_perform.
EndsWith(i, code) ==
  /\ chunks' = [chunks EXCEPT ![i].code = code]
  /\ failed' = IF code = "error" THEN failed \cup {i} ELSE failed

\* What write_callback writes of a piece of n bytes.
Clipped(c, n) ==
  IF c._endidx > 0 /\ c._startidx <= c._endidx /\ c._startidx + n > c._endidx
  THEN c._endidx - c._startidx + 1 ELSE n

\* write_callback, under m_httplock: seek, write, count and advance.  libcurl
\* takes a short count for an error.
WriteCallback(i, n) ==
  LET c == chunks[i]
      written == Clipped(c, n)
      at == c._startidx..(c._startidx + written - 1)
  IN /\ Receiving(i) /\ ~request.m_is_cancel
     /\ c.from + n <= c.stop
     /\ file' = [p \in DOMAIN file \cup at |->
                   IF p \in at THEN c.from + (p - c._startidx) ELSE file[p]]
     /\ request' = [request EXCEPT !.m_downloaded_size = @ + written]
     /\ chunks' = [chunks EXCEPT ![i]._startidx = @ + written, ![i].from = @ + n,
                                 ![i].code = IF written < n THEN "error" ELSE @]
     /\ failed' = IF written < n THEN failed \cup {i} ELSE failed
     /\ UNCHANGED <<listed, perform, result, resumed>>

\* The whole range has been delivered.
Complete(i) ==
  /\ Receiving(i) /\ chunks[i].from = chunks[i].stop
  /\ EndsWith(i, "ok")
  /\ UNCHANGED <<request, listed, perform, file, result, resumed>>

\* An error of the connection or the server, a progress callback that returns
\* nonzero, or write_callback after a cancel.
Fail(i) ==
  /\ Receiving(i)
  /\ EndsWith(i, "error")
  /\ UNCHANGED <<request, listed, perform, file, result, resumed>>

\* Mutant: the retries start the range over and are not counted.
TimeOut_Uncounted(i) ==
  LET c == chunks[i]
  IN /\ Receiving(i) /\ c.from < c.stop
     /\ chunks' = [chunks EXCEPT ![i].from = c.first, ![i]._startidx = c.first]
     /\ request' = [request EXCEPT !.m_downloaded_size = @ - (c._startidx - c.first)]
     /\ UNCHANGED <<listed, perform, file, result, history>>

\* CURLE_OPERATION_TIMEDOUT: the same range is asked for again, while
\* _startidx stays where the last attempt left it.
TimeOut(i) ==
  /\ Receiving(i) /\ chunks[i].from < chunks[i].stop
  /\ IF chunks[i].left > 0
     THEN /\ chunks' = [chunks EXCEPT ![i].left = @ - 1, ![i].from = chunks[i].first]
          /\ resumed' = IF chunks[i]._startidx # chunks[i].first
                        THEN resumed \cup {i} ELSE resumed
          /\ UNCHANGED failed
     ELSE EndsWith(i, "error") /\ UNCHANGED resumed
  /\ UNCHANGED <<request, listed, perform, file, result>>

\* Mutant: a failure of one chunk is kept, on top of what Reset left.
Report_Sticky(i) ==
  /\ perform = "wait" /\ i \in DOMAIN chunks
  /\ chunks[i].code # "none" /\ ~chunks[i].done
  /\ request' = [request EXCEPT !.m_download_fail = @ \/ chunks[i].code # "ok"]
  /\ chunks' = [chunks EXCEPT ![i].done = TRUE]
  /\ UNCHANGED <<listed, perform, file, result, history>>

\* m_download_fail is one flag for all chunks, written without a lock: the
\* last chunk to end decides.
Report(i) ==
  /\ perform = "wait" /\ i \in DOMAIN chunks
  /\ chunks[i].code # "none" /\ ~chunks[i].done
  /\ request' = [request EXCEPT !.m_download_fail = (chunks[i].code # "ok")]
  /\ chunks' = [chunks EXCEPT ![i].done = TRUE]
  /\ UNCHANGED <<listed, perform, file, result, history>>

DoDownload(i) ==
  \/ \E n \in 1..MaxPiece : WriteCallback(i, n)
  \/ Complete(i) \/ Fail(i) \/ TimeOut(i) \/ Report(i)

-----------------------------------------------------------------------------
Perform ==
  \/ GetDownloadFileSize \/ OpenFile \/ Finish
  \/ SelfClose \/ Remove \/ EndThread

Next ==
  \/ \E async \in BOOLEAN : Start(async)
  \/ Close \/ CancelDownload
  \/ Perform
  \/ \E i \in 0..9 : DoDownload(i)

Spec == Init /\ [][Next]_vars

\* Threads run on, and a transfer does not hang: libcurl gives up one that
\* delivers less than a byte a second for five seconds.
FairSpec == Spec /\ WF_vars(Perform) /\ \A i \in 0..9 : WF_vars(DoDownload(i))

-----------------------------------------------------------------------------
TypeOK ==
  /\ request \in Request
  /\ listed \in BOOLEAN
  /\ perform \in {"none", "size", "open", "wait", "test", "remove", "leave", "ended"}
  /\ DOMAIN chunks \in {0..(n - 1) : n \in 0..10}
  /\ \A i \in DOMAIN chunks : chunks[i] \in ThreadChunk
  /\ DOMAIN file \subseteq Nat /\ \A p \in DOMAIN file : file[p] \in 0..(Size - 1)
  /\ result \in {"none", "ok", "failed"}
  /\ failed \subseteq DOMAIN chunks /\ resumed \subseteq DOMAIN chunks

\* As long as no chunk was retried after it had written, every byte is at its
\* place, however the chunks' writes into the one file interleave; and if no
\* transfer failed either, a download reported as a success is complete.
FileExact ==
  resumed = {} =>
    /\ \A p \in DOMAIN file : file[p] = p
    /\ result = "ok" /\ failed = {} => DOMAIN file = 0..(Size - 1)

\* A download is reported as a failure only if a transfer failed: no chunk
\* that ends well leaves the initial verdict standing.
FailureReal == result = "failed" => failed # {}

\* The entry of the list, which the thread was given by its address, stays
\* until the thread has done with it, whoever removes it.
EntryOutlivesThread ==
  request.async /\ perform \in {"size", "open", "wait", "test", "remove"} => listed

\* A handle that is closed before the thread looks at m_close_self is freed;
\* one closed between that look and the thread's end is not.
ClosedFreed ==
  (request.m_close_self /\ perform \notin {"leave", "ended"}) ~> ~listed

\* A download whose transfers were started is answered.
Answered == perform = "wait" ~> result # "none"
=============================================================================
