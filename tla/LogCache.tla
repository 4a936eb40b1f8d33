------------------------------- MODULE LogCache -------------------------------
(***************************************************************************)
(* One asynchronous output of the log (cyfs-debug/blog/src): the memory    *)
(* cache AsyncLogMemoryCache (blog_cache.js) in front of a log file that   *)
(* rotates (AsyncLogFileTarget, blog_file_target.js), of a TCP connection  *)
(* to a log agent (LogTCPTarget, blog_tcp_target.js) or of a local storage *)
(* (AsyncLogStorageTarget, blog_storage_target.js).  The first two belong  *)
(* to the Node build.  The storage is the one of WeChat, "wx", or the one  *)
(* of the H5 and React Native builds, "h5": its setItemAsync is not static *)
(* (blog_h5_env.js:25, blog_rn_env.js:28) while localStorage is the class, *)
(* so that calling it is a TypeError.                                      *)
(*                                                                         *)
(* JavaScript runs one task at a time.  The loop of _continue is one task: *)
(* while `loop` holds nothing but its next round runs.  Every log counts 1 *)
(* towards the size of a file, and the file set starts empty (its name     *)
(* holds the process id).                                                  *)
(***************************************************************************)
EXTENDS Naturals, Sequences

CONSTANTS MaxLogs,      \* logs put, a bound of the model: they are 1 .. MaxLogs
          MaxRetry,     \* m_retryMaxCount (5)
          MaxCount,     \* m_maxCount (10240)
          FileMaxSize,  \* m_fileMaxSize, in logs
          FileMaxCount, \* m_fileMaxCount
          Kinds         \* which targets to look at

ASSUME MaxLogsAssumption == MaxLogs \in Nat
ASSUME LimitAssumption   == MaxRetry \in Nat /\ MaxCount \in Nat \ {0}
ASSUME FileAssumption    == FileMaxSize \in Nat /\ FileMaxSize > 1
                              /\ FileMaxCount \in Nat \ {0}
ASSUME KindAssumption    == Kinds \subseteq {"file", "tcp", "wx", "h5"}

Logs  == 1 .. MaxLogs
Files == 0 .. (FileMaxCount - 1)
NoLog == 0

VARIABLES
  put,     \* number of logs handed to output
  status,  \* m_status: "ready" or "pending"
  queue,   \* m_logs
  retries, \* item.r of each log
  soon,    \* pending setTimeout(_continue, 0)
  later,   \* pending setTimeout(_continue, m_retryInterval)
  loop,    \* the loop of _continue is running
  flight,  \* the log whose onComplete is outstanding
  out,     \* the logs the target took, in the order it took them
  dropped, \* logs given up after MaxRetry retries or at the limit
  thrown,  \* logs lost to an exception: of the assertion on m_status, which a
           \* loop that popped them failed, or of a storage that cannot be called
  kind,    \* which target is behind the cache
  conn,    \* file or socket: "trying" to open, "waiting" to retry, "up", or
           \* a file that waits for its buffer to drain, "draining"
  cur,     \* m_curFileIndex
  size,    \* m_writtenSize
  files,   \* what each log file holds, <<NoLog>> if it does not exist
  opens,   \* number of files opened
  opened   \* which of them each file was, 0 if it does not exist

vars   == <<put, status, queue, retries, soon, later, loop, flight, out,
            dropped, thrown, kind, conn, cur, size, files, opens, opened>>
target == <<conn, cur, size, files, opens, opened>>
fates  == <<dropped, thrown>>

Absent == <<NoLog>>

TypeOK ==
  /\ put \in 0 .. MaxLogs
  /\ status \in {"ready", "pending"}
  /\ queue \in Seq(Logs)
  /\ retries \in [Logs -> 0 .. (MaxRetry + 1)]
  /\ soon \in Nat /\ later \in Nat
  /\ loop \in BOOLEAN
  /\ flight \in Logs \cup {NoLog}
  /\ out \in Seq(Logs)
  /\ dropped \subseteq Logs /\ thrown \subseteq Logs
  /\ kind \in Kinds
  /\ conn \in {"trying", "waiting", "up", "draining"}
  /\ cur \in Files
  /\ size \in 0 .. (FileMaxSize - 1)
  /\ files \in [Files -> Seq(Logs) \cup {Absent}]
  /\ opens \in Nat
  /\ opened \in [Files -> 0 .. opens]

Init ==
  /\ put = 0
  /\ status = "ready"
  /\ queue = <<>>
  /\ retries = [n \in Logs |-> 0]
  /\ soon = 0 /\ later = 0
  /\ loop = FALSE
  /\ flight = NoLog
  /\ out = <<>>
  /\ dropped = {} /\ thrown = {}
  /\ kind \in Kinds
  /\ conn = "trying"
  /\ cur = 0
  /\ size = 0
  /\ files = [i \in Files |-> Absent]
  /\ opens = 0
  /\ opened = [i \in Files |-> 0]

Elements(s) == {s[i] : i \in DOMAIN s}

-----------------------------------------------------------------------------
\* The outcomes of m_target.output, called by _outputItem with m_status pending.

\* The failure of a log: it goes back to the front of `rest` with a timer of
\* one second, or is given up, and then the next one is tried at once.
Fail(n, rest) ==
  /\ retries' = [retries EXCEPT ![n] = @ + 1]
  /\ IF retries[n] + 1 > MaxRetry
     THEN /\ dropped' = dropped \cup {n}
          /\ queue' = rest
          /\ soon' = soon + 1 /\ later' = later
     ELSE /\ dropped' = dropped
          /\ queue' = <<n>> \o rest
          /\ soon' = soon /\ later' = later + 1

\* onComplete(RESULT_FAILED) in the call: no file or connection yet, or a file
\* that waits for drain.
OutputRefused(n, rest) ==
  /\ kind \in {"file", "tcp"}
  /\ conn # "up"
  /\ Fail(n, rest)
  /\ loop' = FALSE
  /\ UNCHANGED <<status, flight, out, thrown, target>>

\* The names from the current file on that no file has, as distances.
Free == {k \in Files : files[(cur + k) % FileMaxCount] = Absent}

\* MUTANT: the search of _nextFilePath with its comparison turned round.
NewestFile ==
  IF Free # {}
  THEN (cur + CHOOSE k \in Free : \A j \in Free : k <= j) % FileMaxCount
  ELSE CHOOSE i \in Files : \A j \in Files : opened[i] >= opened[j]

\* _nextFilePath: the first free name from the current one on, or else the
\* file that was written longest ago, which is the one opened longest ago as
\* only the current file is written.
NextFile ==
  IF Free # {}
  THEN (cur + CHOOSE k \in Free : \A j \in Free : k <= j) % FileMaxCount
  ELSE CHOOSE i \in Files : \A j \in Files : opened[i] <= opened[j]

\* The file is full: _close, _nextFilePath and _open, which removes the file
\* of that name, and the log fails.
OutputRotates(n, rest) ==
  /\ kind = "file"
  /\ conn = "up"
  /\ size + 1 >= FileMaxSize
  /\ conn' = "trying"
  /\ size' = 0
  /\ cur' = NextFile
  /\ files' = [files EXCEPT ![NextFile] = Absent]
  /\ opened' = [opened EXCEPT ![NextFile] = 0]
  /\ Fail(n, rest)
  /\ loop' = FALSE
  /\ UNCHANGED <<status, flight, out, thrown, opens>>

\* Taken, with onComplete still to come: a write to the file, which may have to
\* drain then, a write to a socket whose buffer is full, wx.setStorage.
OutputPends(n, rest) ==
  /\ kind = "wx" \/ (kind \in {"file", "tcp"} /\ conn = "up")
  /\ kind = "file" => size + 1 < FileMaxSize
  /\ size' = IF kind = "file" THEN size + 1 ELSE size
  /\ conn' \in IF kind = "file" THEN {"up", "draining"} ELSE {conn}
  /\ status' = "pending"
  /\ flight' = n
  /\ queue' = rest
  /\ loop' = FALSE
  /\ UNCHANGED <<retries, soon, later, out, fates, cur, files, opens, opened>>

\* Taken by the socket at once: output returns true and a loop goes on.
OutputReturns(n, rest) ==
  /\ kind = "tcp"
  /\ conn = "up"
  /\ out' = Append(out, n)
  /\ queue' = rest
  /\ UNCHANGED <<status, retries, soon, later, loop, flight, fates, target>>

\* setItemAsync is not there: the TypeError leaves output with m_status pending,
\* no onComplete will come and no timer is set.
OutputThrows(n, rest) ==
  /\ kind = "h5"
  /\ status' = "pending"
  /\ thrown' = thrown \cup {n}
  /\ queue' = rest
  /\ loop' = FALSE
  /\ UNCHANGED <<retries, soon, later, flight, out, dropped, target>>

\* _outputItem.
OutputItem(n, rest) ==
  \/ OutputRefused(n, rest) \/ OutputRotates(n, rest) \/ OutputPends(n, rest)
  \/ OutputReturns(n, rest) \/ OutputThrows(n, rest)

-----------------------------------------------------------------------------
\* MUTANT: output that does not look whether older logs wait.
PutPastQueue ==
  /\ ~loop /\ put < MaxLogs
  /\ put' = put + 1
  /\ IF status = "ready"
     THEN OutputItem(put + 1, queue)
     ELSE /\ queue' = Append(queue, put + 1)
          /\ UNCHANGED <<status, retries, soon, later, loop, flight, out, fates, target>>
  /\ UNCHANGED kind

\* output: straight to the target if nothing is under way or waiting.
Put ==
  /\ ~loop /\ put < MaxLogs
  /\ put' = put + 1
  /\ IF status = "ready" /\ queue = <<>>
     THEN OutputItem(put + 1, queue)
     ELSE /\ queue' = Append(queue, put + 1)
          /\ UNCHANGED <<status, retries, soon, later, loop, flight, out, fates, target>>
  /\ UNCHANGED kind

\* _continue, after `failed` was given up: _checkLimit gives up the oldest logs
\* of the queue `q` beyond MaxCount, then the loop starts.
Continue(q, failed) ==
  LET excess == IF Len(q) > MaxCount THEN Len(q) - MaxCount ELSE 0 IN
  /\ queue' = SubSeq(q, excess + 1, Len(q))
  /\ dropped' = dropped \cup failed \cup {q[i] : i \in 1 .. excess}
  /\ loop' = TRUE

SoonFires ==
  /\ ~loop /\ soon > 0
  /\ soon' = soon - 1
  /\ Continue(queue, {})
  /\ UNCHANGED <<put, status, retries, later, flight, out, thrown, kind, target>>

LaterFires ==
  /\ ~loop /\ later > 0
  /\ later' = later - 1
  /\ Continue(queue, {})
  /\ UNCHANGED <<put, status, retries, soon, flight, out, thrown, kind, target>>

\* A round of _continue's loop.  On another loop's pending log the assertion
\* at the head of _outputItem throws: the log that was popped is gone.  This is
\* Node's assert.  The one of the other builds is console.assert, after which
\* the log would be put out, but no loop of theirs meets a pending log.
LoopOutput ==
  /\ loop /\ queue # <<>> /\ status = "ready"
  /\ OutputItem(Head(queue), Tail(queue))
  /\ UNCHANGED <<put, kind>>

LoopThrows ==
  /\ loop /\ queue # <<>> /\ status = "pending"
  /\ kind \in {"file", "tcp"}
  /\ queue' = Tail(queue)
  /\ thrown' = thrown \cup {Head(queue)}
  /\ loop' = FALSE
  /\ UNCHANGED <<put, status, retries, soon, later, flight, out, dropped, kind, target>>

LoopEnds ==
  /\ loop /\ queue = <<>>
  /\ loop' = FALSE
  /\ UNCHANGED <<put, status, queue, retries, soon, later, flight, out, fates, kind, target>>

-----------------------------------------------------------------------------
\* MUTANT: an onComplete(0) that does not go on with the next log.
CompletesAlone ==
  /\ ~loop /\ flight # NoLog
  /\ status' = "ready"
  /\ flight' = NoLog
  /\ out' = Append(out, flight)
  /\ files' = IF kind = "file" THEN [files EXCEPT ![cur] = Append(@, flight)] ELSE files
  /\ UNCHANGED <<put, queue, loop, dropped, retries, soon, later, thrown, kind, conn, cur, size, opens, opened>>

\* onComplete(0) after the call: the log is out, the loop goes on.  A socket
\* calls back like this also when it was closed with the log in its buffer.
Completes ==
  /\ ~loop /\ flight # NoLog
  /\ status' = "ready"
  /\ flight' = NoLog
  /\ out' = Append(out, flight)
  /\ files' = IF kind = "file" THEN [files EXCEPT ![cur] = Append(@, flight)] ELSE files
  /\ Continue(queue, {})
  /\ UNCHANGED <<put, retries, soon, later, thrown, kind, conn, cur, size, opens, opened>>

\* onComplete(RESULT_FAILED) after the call, from a storage that refuses or a
\* file that cannot be written: retried later.
FailsLater ==
  /\ ~loop /\ flight # NoLog /\ kind \in {"file", "wx"}
  /\ retries[flight] < MaxRetry
  /\ status' = "ready"
  /\ flight' = NoLog
  /\ retries' = [retries EXCEPT ![flight] = @ + 1]
  /\ queue' = <<flight>> \o queue
  /\ later' = later + 1
  /\ UNCHANGED <<put, soon, loop, out, fates, kind, target>>

\* ... or given up, going on with the next log in the same task.
FailsForGood ==
  /\ ~loop /\ flight # NoLog /\ kind \in {"file", "wx"}
  /\ retries[flight] >= MaxRetry
  /\ status' = "ready"
  /\ flight' = NoLog
  /\ retries' = [retries EXCEPT ![flight] = @ + 1]
  /\ Continue(queue, {flight})
  /\ UNCHANGED <<put, soon, later, out, thrown, kind, target>>

-----------------------------------------------------------------------------
others == <<put, status, queue, retries, soon, later, flight, out, fates, loop, kind>>

\* The file is open and empty; the socket is connected.
Opens ==
  /\ ~loop /\ kind \in {"file", "tcp"} /\ conn = "trying"
  /\ conn' = "up"
  /\ IF kind = "file"
     THEN /\ files' = [files EXCEPT ![cur] = <<>>]
          /\ opens' = opens + 1
          /\ opened' = [opened EXCEPT ![cur] = opens + 1]
     ELSE UNCHANGED <<files, opens, opened>>
  /\ UNCHANGED <<others, cur, size>>

\* Neither works: _stopOpen, _retryConnect set a timer of five seconds.
OpenFails ==
  /\ ~loop /\ kind \in {"file", "tcp"} /\ conn = "trying"
  /\ conn' = "waiting"
  /\ UNCHANGED <<others, cur, size, files, opens, opened>>

Reopen ==
  /\ ~loop /\ conn = "waiting"
  /\ conn' = "trying"
  /\ UNCHANGED <<others, cur, size, files, opens, opened>>

\* The buffer of the file is empty again.
Drains ==
  /\ ~loop /\ conn = "draining"
  /\ conn' = "up"
  /\ UNCHANGED <<others, cur, size, files, opens, opened>>

\* The socket closes.
Disconnects ==
  /\ ~loop /\ kind = "tcp" /\ conn = "up"
  /\ conn' = "waiting"
  /\ UNCHANGED <<others, cur, size, files, opens, opened>>

Next ==
  \/ Put
  \/ SoonFires \/ LaterFires \/ LoopOutput \/ LoopThrows \/ LoopEnds
  \/ Completes \/ FailsLater \/ FailsForGood
  \/ Opens \/ OpenFails \/ Reopen \/ Drains \/ Disconnects

\* Timers fire, a task runs to its end, and the target calls back.  That a
\* file opens or a connection is made is not assumed.
Fairness ==
  /\ WF_vars(SoonFires) /\ WF_vars(LaterFires)
  /\ WF_vars(LoopOutput) /\ WF_vars(LoopThrows) /\ WF_vars(LoopEnds)
  /\ WF_vars(Completes \/ FailsLater \/ FailsForGood)

Spec == Init /\ [][Next]_vars
LiveSpec == Spec /\ Fairness

-----------------------------------------------------------------------------
\* Retries, the queue, direct output and several timers at work: the target
\* takes the logs in the order they were put, each at most once.
InOrder == \A i, j \in DOMAIN out : i < j => out[i] < out[j]

\* Rotation removes the oldest logs: those in the files are the last ones
\* that were written.
NewestKept ==
  kind = "file" =>
    LET onDisk == (UNION {Elements(files[i]) : i \in Files}) \ {NoLog} IN
    \A i, j \in DOMAIN out : i < j /\ out[i] \in onDisk => out[j] \in onDisk

\* The cache of a storage that cannot be called: pending for good since its
\* first log, with no callback or timer to come.
Wedged == kind = "h5" /\ thrown # {}

\* No log waits for ever, even if the file never opens or the agent is never
\* reached: it is out, given up, or was lost to an exception.  The one cache
\* behind which logs do wait for ever is that of a storage that threw.
EveryLogSettles ==
  \A n \in Logs :
    put >= n ~> n \in Elements(out) \cup dropped \cup thrown \/ Wedged

\* blog_cache.js:216 asserts that no output is under way when the next log is
\* put out, so no log is lost to the assertion.
NeverReentered == thrown = {}
=============================================================================
