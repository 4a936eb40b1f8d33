--------------------------- MODULE LogCacheProofs ---------------------------
(***************************************************************************)
(* Theorems about LogCache for any number of logs, any limits and any      *)
(* target: logs leave in the order they were put, and the files hold the   *)
(* newest of them.                                                         *)
(***************************************************************************)
EXTENDS LogCache, Integers, WellFoundedInduction, TLAPS

Increasing(s) == \A i, j \in DOMAIN s : i < j => s[i] < s[j]

\* Logs `o` are out, `f` is under way or with the target (or none is), `q`
\* waits, and `p` logs were put: they are in that order.
Line(o, f, q, p) ==
  /\ Increasing(o) /\ Increasing(q)
  /\ \A i \in DOMAIN o : o[i] <= p
  /\ \A i \in DOMAIN q : q[i] <= p
  /\ \A i \in DOMAIN o, j \in DOMAIN q : o[i] < q[j]
  /\ f # NoLog =>
       /\ f <= p
       /\ \A i \in DOMAIN o : o[i] < f
       /\ \A j \in DOMAIN q : f < q[j]

\* Neither `f` nor a log of `q` was tried more often than `r` allows, and one
\* that was not put was never tried.
Tried(r, f, q, p) ==
  /\ f # NoLog => r[f] <= MaxRetry
  /\ \A i \in DOMAIN q : r[q[i]] <= MaxRetry
  /\ \A n \in Logs : n > p => r[n] = 0

\* While the target has a log the cache is pending, and it is pending without
\* one only after the target threw.
Pending ==
  /\ flight # NoLog => status = "pending"
  /\ status = "pending" => flight # NoLog \/ Wedged

\* The part of TypeOK that is the cache's.
CacheTypes ==
  /\ put \in 0 .. MaxLogs
  /\ status \in {"ready", "pending"}
  /\ queue \in Seq(Logs)
  /\ retries \in [Logs -> 0 .. (MaxRetry + 1)]
  /\ soon \in Nat /\ later \in Nat
  /\ loop \in BOOLEAN
  /\ flight \in Logs \cup {NoLog}
  /\ out \in Seq(Logs)
  /\ dropped \subseteq Logs /\ thrown \subseteq Logs

CacheInv == /\ CacheTypes /\ Pending
            /\ Line(out, flight, queue, put)
            /\ Tried(retries, flight, queue, put)

\* What the assumptions say of the numbers.
LEMMA Bounds == /\ MaxLogs \in Nat /\ MaxRetry \in Nat /\ MaxCount \in Nat
                /\ FileMaxSize \in Nat /\ FileMaxSize > 1
                /\ FileMaxCount \in Nat /\ FileMaxCount > 0
                /\ Logs \subseteq Nat /\ NoLog \notin Logs /\ 0 \in Files
  BY MaxLogsAssumption, LimitAssumption, FileAssumption DEF Logs, Files, NoLog

-----------------------------------------------------------------------------
\* What becomes of the order when a log goes from one place to another.

\* The log is taken by the target.
LEMMA LineTake ==
  ASSUME NEW o \in Seq(Logs), NEW q \in Seq(Logs), NEW p \in Nat, NEW n \in Logs,
         Line(o, n, q, p)
  PROVE  Append(o, n) \in Seq(Logs) /\ Line(Append(o, n), NoLog, q, p)
<1> DEFINE a == Append(o, n)
<1>1. /\ a \in Seq(Logs) /\ DOMAIN a = 1 .. Len(o) + 1 /\ DOMAIN o = 1 .. Len(o)
      /\ Len(o) \in Nat /\ a[Len(o) + 1] = n
      /\ \A i \in DOMAIN o : a[i] = o[i] /\ o[i] \in Logs
  OBVIOUS
<1>2. n # NoLog /\ n \in Nat /\ Logs \subseteq Nat
  BY Bounds
<1>3. \A i \in DOMAIN a : i \in DOMAIN o \/ i = Len(o) + 1
  BY <1>1
<1> HIDE DEF a
<1>4. \A i \in DOMAIN a : a[i] <= p /\ \A j \in DOMAIN q : a[i] < q[j]
  BY <1>1, <1>2, <1>3 DEF Line
<1>5. Increasing(a)
  <2> SUFFICES ASSUME NEW i \in DOMAIN a, NEW j \in DOMAIN a, i < j PROVE a[i] < a[j]
    BY DEF Increasing
  <2>1. i \in DOMAIN o
    BY <1>1, <1>3
  <2>2. CASE j \in DOMAIN o
    BY <1>1, <2>1, <2>2 DEF Line, Increasing
  <2>3. CASE j = Len(o) + 1
    BY <1>1, <1>2, <2>1, <2>3 DEF Line
  <2> QED
    BY <1>3, <2>2, <2>3
<1>6. Line(a, NoLog, q, p)
  BY <1>4, <1>5 DEF Line
<1> QED
  BY <1>1, <1>6 DEF a

\* The log is given up.
LEMMA LineDrop ==
  ASSUME NEW o, NEW q, NEW p, NEW n, Line(o, n, q, p)
  PROVE  Line(o, NoLog, q, p)
  BY DEF Line

\* The log goes back to the front of the queue.
LEMMA LineBack ==
  ASSUME NEW o \in Seq(Logs), NEW q \in Seq(Logs), NEW p \in Nat, NEW n \in Logs,
         Line(o, n, q, p)
  PROVE  <<n>> \o q \in Seq(Logs) /\ Line(o, NoLog, <<n>> \o q, p)
<1> DEFINE b == <<n>> \o q
<1>1. /\ b \in Seq(Logs) /\ DOMAIN b = 1 .. Len(q) + 1 /\ DOMAIN q = 1 .. Len(q)
      /\ Len(q) \in Nat /\ b[1] = n
      /\ \A i \in DOMAIN b : i # 1 => i - 1 \in DOMAIN q /\ b[i] = q[i - 1]
      /\ \A i \in DOMAIN q : q[i] \in Logs
  OBVIOUS
<1>2. n # NoLog /\ n \in Nat /\ Logs \subseteq Nat
  BY Bounds
<1> HIDE DEF b
<1>3. \A i \in DOMAIN b : b[i] <= p /\ \A j \in DOMAIN o : o[j] < b[i]
  BY <1>1, <1>2 DEF Line
<1>4. Increasing(b)
  <2> SUFFICES ASSUME NEW i \in DOMAIN b, NEW j \in DOMAIN b, i < j PROVE b[i] < b[j]
    BY DEF Increasing
  <2>1. j # 1
    BY <1>1
  <2>2. CASE i = 1
    BY <1>1, <1>2, <2>1, <2>2 DEF Line
  <2>3. CASE i # 1
    <3>1. i - 1 \in DOMAIN q /\ j - 1 \in DOMAIN q /\ i - 1 < j - 1
      BY <1>1, <2>1, <2>3
    <3> QED
      BY <1>1, <2>1, <2>3, <3>1 DEF Line, Increasing
  <2> QED
    BY <2>2, <2>3
<1>5. Line(o, NoLog, b, p)
  BY <1>3, <1>4 DEF Line
<1> QED
  BY <1>1, <1>5 DEF b

\* The first log of the queue is taken out of it.
LEMMA LinePop ==
  ASSUME NEW o \in Seq(Logs), NEW q \in Seq(Logs), NEW p \in Nat, q # <<>>,
         Line(o, NoLog, q, p)
  PROVE  Head(q) \in Logs /\ Tail(q) \in Seq(Logs) /\ Line(o, Head(q), Tail(q), p)
<1> DEFINE h == Head(q)
           t == Tail(q)
<1>1. /\ h \in Logs /\ t \in Seq(Logs) /\ DOMAIN q = 1 .. Len(q) /\ Len(q) \in Nat
      /\ h = q[1] /\ 1 \in DOMAIN q
      /\ \A i \in DOMAIN t : i + 1 \in DOMAIN q /\ t[i] = q[i + 1] /\ i \in Nat /\ 1 < i + 1
  OBVIOUS
<1> HIDE DEF h, t
<1>2. Increasing(t)
  <2> SUFFICES ASSUME NEW i \in DOMAIN t, NEW j \in DOMAIN t, i < j PROVE t[i] < t[j]
    BY DEF Increasing
  <2>1. i + 1 < j + 1 /\ i + 1 \in DOMAIN q /\ j + 1 \in DOMAIN q
    BY <1>1
  <2> QED
    BY <1>1, <2>1 DEF Line, Increasing
<1>3. \A i \in DOMAIN t : t[i] <= p /\ h < t[i] /\ \A j \in DOMAIN o : o[j] < t[i]
  BY <1>1 DEF Line, Increasing
<1>4. h <= p /\ \A j \in DOMAIN o : o[j] < h
  BY <1>1 DEF Line
<1>5. Line(o, h, t, p)
  BY <1>2, <1>3, <1>4 DEF Line
<1> QED
  BY <1>1, <1>5 DEF h, t

\* One more log is put at the end of the queue.
LEMMA LineJoin ==
  ASSUME NEW o \in Seq(Logs), NEW q \in Seq(Logs), NEW p \in Nat, p < MaxLogs,
         NEW f \in Logs \cup {NoLog}, Line(o, f, q, p)
  PROVE  Append(q, p + 1) \in Seq(Logs) /\ Line(o, f, Append(q, p + 1), p + 1)
<1> DEFINE a == Append(q, p + 1)
<1>0. p + 1 \in Logs
  BY Bounds DEF Logs
<1>1. /\ a \in Seq(Logs) /\ DOMAIN a = 1 .. Len(q) + 1 /\ DOMAIN q = 1 .. Len(q)
      /\ Len(q) \in Nat /\ a[Len(q) + 1] = p + 1
      /\ \A i \in DOMAIN q : a[i] = q[i] /\ q[i] \in Logs
      /\ \A i \in DOMAIN o : o[i] \in Logs
  BY <1>0
<1>2. f \in Nat /\ (\A i \in DOMAIN q : q[i] \in Nat) /\ \A i \in DOMAIN o : o[i] \in Nat
  <2>1. Logs \subseteq Nat
    BY Bounds
  <2>2. f \in Nat
    BY <2>1 DEF NoLog
  <2> QED
    BY <1>1, <2>1, <2>2
<1>3. \A i \in DOMAIN a : i \in DOMAIN q \/ i = Len(q) + 1
  BY <1>1
<1> HIDE DEF a
<1>4. \A i \in DOMAIN a : a[i] <= p + 1 /\ \A j \in DOMAIN o : o[j] < a[i]
  BY <1>1, <1>2, <1>3 DEF Line
<1>5. f # NoLog => f <= p + 1 /\ \A i \in DOMAIN a : f < a[i]
  BY <1>1, <1>2, <1>3 DEF Line
<1>6. Increasing(a)
  <2> SUFFICES ASSUME NEW i \in DOMAIN a, NEW j \in DOMAIN a, i < j PROVE a[i] < a[j]
    BY DEF Increasing
  <2>1. i \in DOMAIN q
    BY <1>1, <1>3
  <2>2. CASE j \in DOMAIN q
    BY <1>1, <2>1, <2>2 DEF Line, Increasing
  <2>3. CASE j = Len(q) + 1
    BY <1>1, <1>2, <2>1, <2>3 DEF Line
  <2> QED
    BY <1>3, <2>2, <2>3
<1>7. \A i \in DOMAIN o : o[i] <= p + 1
  BY <1>1, <1>2 DEF Line
<1>8. Line(o, f, a, p + 1)
  BY <1>4, <1>5, <1>6, <1>7 DEF Line
<1> QED
  BY <1>1, <1>8 DEF a

\* One more log goes straight to the target, as nothing waits.
LEMMA LineDirect ==
  ASSUME NEW o \in Seq(Logs), NEW p \in Nat, p < MaxLogs, Line(o, NoLog, <<>>, p)
  PROVE  p + 1 \in Logs /\ Line(o, p + 1, <<>>, p + 1)
<1>1. p + 1 \in Logs
  BY Bounds DEF Logs
<1>2. \A i \in DOMAIN o : o[i] \in Nat /\ o[i] <= p
  <2>1. \A i \in DOMAIN o : o[i] \in Logs
    OBVIOUS
  <2> QED
    BY <2>1, Bounds DEF Line
<1> QED
  BY <1>1, <1>2 DEF Line, Increasing

\* The oldest logs of the queue are given up.
LEMMA LineCut ==
  ASSUME NEW o \in Seq(Logs), NEW q \in Seq(Logs), NEW p \in Nat, NEW k \in Nat,
         NEW f, Line(o, f, q, p)
  PROVE  SubSeq(q, k + 1, Len(q)) \in Seq(Logs) /\ Line(o, f, SubSeq(q, k + 1, Len(q)), p)
<1> DEFINE t == SubSeq(q, k + 1, Len(q))
<1>1. /\ t \in Seq(Logs) /\ DOMAIN q = 1 .. Len(q) /\ Len(q) \in Nat
      /\ \A i \in DOMAIN t : i + k \in DOMAIN q /\ t[i] = q[i + k] /\ i \in Nat
  OBVIOUS
<1> HIDE DEF t
<1>2. Increasing(t)
  <2> SUFFICES ASSUME NEW i \in DOMAIN t, NEW j \in DOMAIN t, i < j PROVE t[i] < t[j]
    BY DEF Increasing
  <2>1. i + k < j + k /\ i + k \in DOMAIN q /\ j + k \in DOMAIN q
    BY <1>1
  <2> QED
    BY <1>1, <2>1 DEF Line, Increasing
<1>3. \A i \in DOMAIN t : /\ t[i] <= p
                          /\ f # NoLog => f < t[i]
                          /\ \A j \in DOMAIN o : o[j] < t[i]
  BY <1>1 DEF Line
<1>4. Line(o, f, t, p)
  BY <1>2, <1>3 DEF Line
<1> QED
  BY <1>1, <1>4 DEF t

-----------------------------------------------------------------------------
\* What becomes of the retries when a log goes from one place to another.

\* The log fails: it waits again only if it was not tried too often.
LEMMA TriedFail ==
  ASSUME NEW r \in [Logs -> 0 .. (MaxRetry + 1)], NEW n \in Logs, NEW q \in Seq(Logs),
         NEW p \in Nat, NEW o, Line(o, n, q, p), Tried(r, n, q, p),
         NEW t, t = [r EXCEPT ![n] = @ + 1]
  PROVE  /\ t \in [Logs -> 0 .. (MaxRetry + 1)]
         /\ Tried(t, NoLog, q, p)
         /\ r[n] + 1 <= MaxRetry => Tried(t, NoLog, <<n>> \o q, p)
<1>1. /\ n # NoLog /\ n \in Nat /\ MaxRetry \in Nat /\ r[n] \in Nat /\ r[n] <= MaxRetry
      /\ t[n] = r[n] + 1 /\ \A m \in Logs : m # n => t[m] = r[m]
  BY Bounds DEF Tried
<1>2. t \in [Logs -> 0 .. (MaxRetry + 1)]
  BY <1>1
<1>3. \A i \in DOMAIN q : q[i] \in Logs /\ q[i] # n
  BY <1>1 DEF Line
<1>4. \A m \in Logs : m > p => m # n
  BY <1>1 DEF Line
<1>5. Tried(t, NoLog, q, p)
  BY <1>1, <1>3, <1>4 DEF Tried
<1>6. ASSUME r[n] + 1 <= MaxRetry PROVE Tried(t, NoLog, <<n>> \o q, p)
  <2> DEFINE b == <<n>> \o q
  <2>1. \A i \in DOMAIN b : b[i] = n \/ \E j \in DOMAIN q : b[i] = q[j]
    <3>1. /\ DOMAIN b = 1 .. Len(q) + 1 /\ b[1] = n
          /\ \A i \in DOMAIN b : i # 1 => i - 1 \in DOMAIN q /\ b[i] = q[i - 1]
      OBVIOUS
    <3> QED
      BY <3>1
  <2> HIDE DEF b
  <2>2. Tried(t, NoLog, b, p)
    BY <1>1, <1>5, <1>6, <2>1 DEF Tried
  <2> QED
    BY <2>2 DEF b
<1> QED
  BY <1>2, <1>5, <1>6

\* The log is out or given up.
LEMMA TriedDrop ==
  ASSUME NEW r, NEW q, NEW p, NEW n, Tried(r, n, q, p)
  PROVE  Tried(r, NoLog, q, p)
  BY DEF Tried

\* The first log of the queue is taken out of it.
LEMMA TriedPop ==
  ASSUME NEW r, NEW q \in Seq(Logs), NEW p \in Nat, q # <<>>, Tried(r, NoLog, q, p)
  PROVE  Tried(r, Head(q), Tail(q), p)
<1> DEFINE h == Head(q)
           t == Tail(q)
<1>1. /\ h = q[1] /\ 1 \in DOMAIN q
      /\ \A i \in DOMAIN t : i + 1 \in DOMAIN q /\ t[i] = q[i + 1]
  OBVIOUS
<1> HIDE DEF h, t
<1>2. Tried(r, h, t, p)
  BY <1>1 DEF Tried
<1> QED
  BY <1>2 DEF h, t

\* One more log is put, at the end of the queue or straight to the target.
LEMMA TriedJoin ==
  ASSUME NEW r, NEW q \in Seq(Logs), NEW p \in Nat, p < MaxLogs, NEW f, Tried(r, f, q, p)
  PROVE  Tried(r, f, Append(q, p + 1), p + 1) /\ Tried(r, p + 1, q, p + 1)
<1> DEFINE a == Append(q, p + 1)
<1>1. p + 1 \in Logs /\ MaxRetry \in Nat /\ Logs \subseteq Nat
  BY Bounds DEF Logs
<1>2. r[p + 1] <= MaxRetry
  BY <1>1 DEF Tried
<1>3. \A i \in DOMAIN a : (i \in DOMAIN q /\ a[i] = q[i]) \/ a[i] = p + 1
  BY <1>1
<1> HIDE DEF a
<1>4. \A n \in Logs : n > p + 1 => r[n] = 0
  BY <1>1 DEF Tried
<1>5. Tried(r, f, a, p + 1) /\ Tried(r, p + 1, q, p + 1)
  BY <1>2, <1>3, <1>4 DEF Tried
<1> QED
  BY <1>5 DEF a

\* The oldest logs of the queue are given up.
LEMMA TriedCut ==
  ASSUME NEW r, NEW q \in Seq(Logs), NEW p, NEW f, NEW k \in Nat, Tried(r, f, q, p)
  PROVE  Tried(r, f, SubSeq(q, k + 1, Len(q)), p)
<1> DEFINE t == SubSeq(q, k + 1, Len(q))
<1>1. \A i \in DOMAIN t : i + k \in DOMAIN q /\ t[i] = q[i + k]
  OBVIOUS
<1> HIDE DEF t
<1>2. Tried(r, f, t, p)
  BY <1>1 DEF Tried
<1> QED
  BY <1>2 DEF t

-----------------------------------------------------------------------------
\* The outcomes of m_target.output keep order and retries.

\* A log that fails in the call.
LEMMA FailKeeps ==
  ASSUME CacheTypes, Pending, status = "ready", put' \in 0 .. MaxLogs,
         NEW n \in Logs, NEW rest \in Seq(Logs),
         Line(out, n, rest, put'), Tried(retries, n, rest, put'),
         Fail(n, rest), loop' = FALSE, UNCHANGED <<status, flight, out, thrown>>
  PROVE  CacheInv'
<1>1. /\ flight = NoLog /\ put' \in Nat /\ retries[n] \in Nat /\ MaxRetry \in Nat
      /\ soon + 1 \in Nat /\ later + 1 \in Nat /\ dropped \cup {n} \subseteq Logs
  BY Bounds DEF CacheTypes, Pending
<1>2. retries' = [retries EXCEPT ![n] = @ + 1]
  BY DEF Fail
<1>3. /\ retries' \in [Logs -> 0 .. (MaxRetry + 1)]
      /\ Tried(retries', NoLog, rest, put')
      /\ retries[n] + 1 <= MaxRetry => Tried(retries', NoLog, <<n>> \o rest, put')
  BY <1>1, <1>2, TriedFail DEF CacheTypes
<1>4. Line(out, NoLog, rest, put')
  BY LineDrop
<1>5. <<n>> \o rest \in Seq(Logs) /\ Line(out, NoLog, <<n>> \o rest, put')
  BY <1>1, LineBack DEF CacheTypes
<1>6. CASE retries[n] + 1 > MaxRetry
  <2>1. queue' = rest /\ dropped' = dropped \cup {n} /\ soon' = soon + 1 /\ later' = later
    BY <1>6 DEF Fail
  <2>2. CacheTypes'
    BY <1>1, <1>3, <2>1 DEF CacheTypes
  <2> QED
    BY <1>1, <1>3, <1>4, <2>1, <2>2 DEF CacheInv, Pending
<1>7. CASE ~(retries[n] + 1 > MaxRetry)
  <2>1. queue' = <<n>> \o rest /\ dropped' = dropped /\ soon' = soon /\ later' = later + 1
    BY <1>7 DEF Fail
  <2>2. CacheTypes'
    BY <1>1, <1>3, <1>5, <2>1 DEF CacheTypes
  <2>3. Tried(retries', NoLog, <<n>> \o rest, put')
    BY <1>1, <1>3, <1>7
  <2> QED
    BY <1>1, <1>5, <2>1, <2>2, <2>3 DEF CacheInv, Pending
<1> QED
  BY <1>6, <1>7

\* _outputItem with a log that is older than those that wait and newer than
\* those that are out.
LEMMA OutputKeeps ==
  ASSUME CacheTypes, Pending, status = "ready", put' \in 0 .. MaxLogs,
         NEW n \in Logs, NEW rest \in Seq(Logs),
         Line(out, n, rest, put'), Tried(retries, n, rest, put'),
         OutputItem(n, rest), UNCHANGED kind
  PROVE  CacheInv'
<1>1. flight = NoLog /\ put' \in Nat /\ n # NoLog
  BY Bounds DEF CacheTypes, Pending
<1>2. CASE OutputRefused(n, rest) \/ OutputRotates(n, rest)
  <2>1. Fail(n, rest) /\ loop' = FALSE /\ UNCHANGED <<status, flight, out, thrown>>
    BY <1>2 DEF OutputRefused, OutputRotates
  <2> QED
    BY <2>1, FailKeeps
<1>3. CASE OutputPends(n, rest)
  <2>1. /\ status' = "pending" /\ flight' = n /\ queue' = rest /\ loop' = FALSE
        /\ UNCHANGED <<retries, soon, later, out, dropped, thrown>>
    BY <1>3 DEF OutputPends, fates
  <2>2. CacheTypes'
    BY <2>1 DEF CacheTypes
  <2> QED
    BY <1>1, <2>1, <2>2 DEF CacheInv, Pending
<1>4. CASE OutputReturns(n, rest)
  <2>1. /\ out' = Append(out, n) /\ queue' = rest
        /\ UNCHANGED <<status, retries, soon, later, loop, flight, dropped, thrown>>
    BY <1>4 DEF OutputReturns, fates
  <2>2. out' \in Seq(Logs) /\ Line(out', NoLog, rest, put')
    BY <1>1, <2>1, LineTake DEF CacheTypes
  <2>3. Tried(retries, NoLog, rest, put')
    BY TriedDrop
  <2>4. CacheTypes'
    BY <2>1, <2>2 DEF CacheTypes
  <2> QED
    BY <1>1, <2>1, <2>2, <2>3, <2>4 DEF CacheInv, Pending
<1>5. CASE OutputThrows(n, rest)
  <2>1. /\ kind = "h5" /\ status' = "pending" /\ thrown' = thrown \cup {n} /\ queue' = rest
        /\ loop' = FALSE
        /\ UNCHANGED <<retries, soon, later, flight, out, dropped>>
    BY <1>5 DEF OutputThrows
  <2>2. CacheTypes'
    BY <2>1 DEF CacheTypes
  <2>3. Pending'
    BY <1>1, <2>1 DEF Pending, Wedged
  <2>4. Line(out, NoLog, rest, put') /\ Tried(retries, NoLog, rest, put')
    BY LineDrop, TriedDrop
  <2> QED
    BY <1>1, <2>1, <2>2, <2>3, <2>4 DEF CacheInv
<1> QED
  BY <1>2, <1>3, <1>4, <1>5 DEF OutputItem

\* _continue and its _checkLimit keep order and retries.
LEMMA ContinueKeeps ==
  ASSUME CacheTypes, NEW q \in Seq(Logs), NEW failed \in SUBSET Logs,
         NEW o \in Seq(Logs), NEW f, NEW r, NEW p \in Nat,
         Line(o, f, q, p), Tried(r, f, q, p), Continue(q, failed)
  PROVE  /\ queue' \in Seq(Logs) /\ dropped' \subseteq Logs /\ loop' = TRUE
         /\ Line(o, f, queue', p) /\ Tried(r, f, queue', p)
<1> DEFINE k == IF Len(q) > MaxCount THEN Len(q) - MaxCount ELSE 0
<1>1. k \in Nat /\ k <= Len(q)
  BY Bounds
<1>2. /\ queue' = SubSeq(q, k + 1, Len(q)) /\ loop' = TRUE
      /\ dropped' = dropped \cup failed \cup {q[i] : i \in 1 .. k}
  BY DEF Continue
<1> HIDE DEF k
<1>3. \A i \in 1 .. k : q[i] \in Logs
  BY <1>1
<1>4. dropped' \subseteq Logs
  BY <1>2, <1>3 DEF CacheTypes
<1>5. queue' \in Seq(Logs) /\ Line(o, f, queue', p)
  BY <1>1, <1>2, LineCut
<1>6. Tried(r, f, queue', p)
  BY <1>1, <1>2, TriedCut
<1> QED
  BY <1>2, <1>4, <1>5, <1>6

\* Every step keeps the types of the cache, the order and the retries.
LEMMA CacheStep == ASSUME CacheInv, [Next]_vars PROVE CacheInv'
<1>0. /\ CacheTypes /\ Pending /\ put \in Nat /\ out \in Seq(Logs) /\ queue \in Seq(Logs)
      /\ put \in 0 .. MaxLogs /\ flight \in Logs \cup {NoLog} /\ MaxLogs \in Nat
      /\ Line(out, flight, queue, put) /\ Tried(retries, flight, queue, put)
  BY Bounds DEF CacheInv, CacheTypes
<1>1. CASE Put
  <2>1. put < MaxLogs /\ put' = put + 1 /\ put' \in 0 .. MaxLogs /\ UNCHANGED kind
    BY <1>0, <1>1 DEF Put
  <2>2. CASE status = "ready" /\ queue = <<>>
    <3>1. OutputItem(put + 1, <<>>)
      BY <1>1, <2>2 DEF Put
    <3>2. flight = NoLog
      BY <1>0, <2>2 DEF Pending
    <3>3. put + 1 \in Logs /\ Line(out, put + 1, <<>>, put + 1)
      BY <1>0, <2>1, <2>2, <3>2, LineDirect
    <3>4. Tried(retries, put + 1, <<>>, put + 1)
      BY <1>0, <2>1, <2>2, TriedJoin
    <3>5. <<>> \in Seq(Logs)
      OBVIOUS
    <3> QED
      BY <1>0, <2>1, <2>2, <3>1, <3>3, <3>4, <3>5, OutputKeeps
  <2>3. CASE ~(status = "ready" /\ queue = <<>>)
    <3>1. /\ queue' = Append(queue, put + 1)
          /\ UNCHANGED <<status, retries, soon, later, loop, flight, out, dropped, thrown>>
      BY <1>1, <2>3 DEF Put, fates
    <3>2. queue' \in Seq(Logs) /\ Line(out, flight, queue', put')
      BY <1>0, <2>1, <3>1, LineJoin
    <3>3. Tried(retries, flight, queue', put')
      BY <1>0, <2>1, <3>1, TriedJoin
    <3> QED
      BY <1>0, <2>1, <3>1, <3>2, <3>3 DEF CacheInv, CacheTypes, Pending, Wedged
  <2> QED
    BY <2>2, <2>3
<1>2. CASE SoonFires \/ LaterFires
  <2>1. /\ Continue(queue, {}) /\ soon' \in Nat /\ later' \in Nat
        /\ UNCHANGED <<put, status, retries, flight, out, thrown, kind>>
    BY <1>0, <1>2 DEF SoonFires, LaterFires, CacheTypes
  <2>2. /\ queue' \in Seq(Logs) /\ dropped' \subseteq Logs /\ loop' = TRUE
        /\ Line(out, flight, queue', put) /\ Tried(retries, flight, queue', put)
    BY <1>0, <2>1, ContinueKeeps
  <2> QED
    BY <1>0, <2>1, <2>2 DEF CacheInv, CacheTypes, Pending, Wedged
<1>3. CASE LoopOutput
  <2>1. /\ queue # <<>> /\ status = "ready" /\ OutputItem(Head(queue), Tail(queue))
        /\ UNCHANGED <<put, kind>> /\ flight = NoLog
    BY <1>0, <1>3 DEF LoopOutput, Pending
  <2>2. /\ Head(queue) \in Logs /\ Tail(queue) \in Seq(Logs)
        /\ Line(out, Head(queue), Tail(queue), put)
    BY <1>0, <2>1, LinePop
  <2>3. Tried(retries, Head(queue), Tail(queue), put)
    BY <1>0, <2>1, TriedPop
  <2> QED
    BY <1>0, <2>1, <2>2, <2>3, OutputKeeps
<1>4. CASE LoopThrows
  <2>1. /\ queue # <<>> /\ queue' = Tail(queue) /\ thrown' = thrown \cup {Head(queue)}
        /\ loop' = FALSE
        /\ UNCHANGED <<put, status, retries, soon, later, flight, out, dropped, kind>>
    BY <1>4 DEF LoopThrows
  <2> DEFINE t == SubSeq(queue, 1 + 1, Len(queue))
  <2>2. queue' = t /\ Head(queue) \in Logs
    BY <1>0, <2>1
  <2>3. t \in Seq(Logs) /\ Line(out, flight, t, put) /\ Tried(retries, flight, t, put)
    BY <1>0, LineCut, TriedCut
  <2> HIDE DEF t
  <2> QED
    BY <1>0, <2>1, <2>2, <2>3 DEF CacheInv, CacheTypes, Pending, Wedged
<1>5. CASE LoopEnds
  BY <1>0, <1>5 DEF LoopEnds, fates, CacheInv, CacheTypes, Pending, Wedged
<1>6. CASE Completes
  <2>1. /\ flight # NoLog /\ status' = "ready" /\ flight' = NoLog
        /\ out' = Append(out, flight) /\ Continue(queue, {})
        /\ UNCHANGED <<put, retries, soon, later, thrown>>
    BY <1>6 DEF Completes
  <2>2. out' \in Seq(Logs) /\ Line(out', NoLog, queue, put)
    BY <1>0, <2>1, LineTake
  <2>3. Tried(retries, NoLog, queue, put)
    BY <1>0, TriedDrop
  <2>4. /\ queue' \in Seq(Logs) /\ dropped' \subseteq Logs /\ loop' = TRUE
        /\ Line(out', NoLog, queue', put) /\ Tried(retries, NoLog, queue', put)
    BY <1>0, <2>1, <2>2, <2>3, ContinueKeeps
  <2> QED
    BY <1>0, <2>1, <2>2, <2>4 DEF CacheInv, CacheTypes, Pending
<1>7. CASE FailsLater
  <2>1. /\ flight # NoLog /\ status' = "ready" /\ flight' = NoLog
        /\ retries[flight] < MaxRetry
        /\ retries' = [retries EXCEPT ![flight] = @ + 1]
        /\ queue' = <<flight>> \o queue /\ later' = later + 1
        /\ UNCHANGED <<put, soon, loop, out, dropped, thrown>>
    BY <1>7 DEF FailsLater, fates
  <2>2. queue' \in Seq(Logs) /\ Line(out, NoLog, queue', put)
    BY <1>0, <2>1, LineBack
  <2>3. retries \in [Logs -> 0 .. (MaxRetry + 1)] /\ flight \in Logs
    BY <1>0, <2>1 DEF CacheTypes
  <2>4. /\ retries' \in [Logs -> 0 .. (MaxRetry + 1)]
        /\ retries[flight] + 1 <= MaxRetry => Tried(retries', NoLog, <<flight>> \o queue, put)
    BY <1>0, <2>1, <2>3, TriedFail
  <2>5. retries[flight] + 1 <= MaxRetry
    BY <2>1, <2>3, Bounds
  <2> QED
    BY <1>0, <2>1, <2>2, <2>4, <2>5 DEF CacheInv, CacheTypes, Pending
<1>8. CASE FailsForGood
  <2>1. /\ flight # NoLog /\ status' = "ready" /\ flight' = NoLog
        /\ retries' = [retries EXCEPT ![flight] = @ + 1]
        /\ Continue(queue, {flight})
        /\ UNCHANGED <<put, soon, later, out, thrown>>
    BY <1>8 DEF FailsForGood
  <2>2. retries \in [Logs -> 0 .. (MaxRetry + 1)] /\ flight \in Logs
    BY <1>0, <2>1 DEF CacheTypes
  <2>3. retries' \in [Logs -> 0 .. (MaxRetry + 1)] /\ Tried(retries', NoLog, queue, put)
    BY <1>0, <2>1, <2>2, TriedFail
  <2>4. Line(out, NoLog, queue, put)
    BY <1>0, LineDrop
  <2>5. /\ queue' \in Seq(Logs) /\ dropped' \subseteq Logs /\ loop' = TRUE
        /\ Line(out, NoLog, queue', put) /\ Tried(retries', NoLog, queue', put)
    BY <1>0, <2>1, <2>2, <2>3, <2>4, ContinueKeeps
  <2> QED
    BY <1>0, <2>1, <2>3, <2>5 DEF CacheInv, CacheTypes, Pending
<1>9. CASE Opens \/ OpenFails \/ Reopen \/ Drains \/ Disconnects \/ UNCHANGED vars
  <2>1. UNCHANGED <<put, status, queue, retries, soon, later, flight, out, dropped, thrown, loop, kind>>
    BY <1>9 DEF Opens, OpenFails, Reopen, Drains, Disconnects, others, fates, vars
  <2> QED
    BY <1>0, <2>1 DEF CacheInv, CacheTypes, Pending, Wedged
<1> QED
  BY <1>1, <1>2, <1>3, <1>4, <1>5, <1>6, <1>7, <1>8, <1>9 DEF Next

\* The cache starts empty.
LEMMA CacheInit == Init => CacheInv
<1> SUFFICES ASSUME Init PROVE CacheInv
  OBVIOUS
<1>1. CacheTypes
  <2>1. /\ put = 0 /\ status = "ready" /\ queue = <<>> /\ soon = 0 /\ later = 0
        /\ loop = FALSE /\ flight = NoLog /\ out = <<>> /\ dropped = {} /\ thrown = {}
        /\ retries = [n \in Logs |-> 0]
    BY DEF Init
  <2>2. <<>> \in Seq(Logs) /\ 0 \in 0 .. MaxLogs /\ 0 \in 0 .. (MaxRetry + 1)
    BY Bounds
  <2>3. retries \in [Logs -> 0 .. (MaxRetry + 1)]
    BY <2>1, <2>2
  <2> QED
    BY <2>1, <2>2, <2>3 DEF CacheTypes
<1>2. Pending
  BY DEF Init, Pending
<1>3. Line(out, flight, queue, put)
  BY DEF Init, Line, Increasing
<1>4. Tried(retries, flight, queue, put)
  BY DEF Init, Tried
<1> QED
  BY <1>1, <1>2, <1>3, <1>4 DEF CacheInv

\* The target takes the logs in the order they were put, each at most once,
\* whatever fails, is retried, is put directly or is given up.
THEOREM InOrderAlways == Spec => []InOrder
<1>1. CacheInv => InOrder
  BY DEF CacheInv, Line, Increasing, InOrder
<1> QED
  BY <1>1, CacheInit, CacheStep, PTL DEF Spec

-----------------------------------------------------------------------------
\* The part of TypeOK that is the target's.
TargetTypes ==
  /\ kind \in Kinds
  /\ conn \in {"trying", "waiting", "up", "draining"}
  /\ cur \in Files
  /\ size \in 0 .. (FileMaxSize - 1)
  /\ files \in [Files -> Seq(Logs) \cup {Absent}]
  /\ opens \in Nat
  /\ opened \in [Files -> 0 .. opens]

\* A file holds logs that were written.
Contents(fs, o) ==
  \A i \in Files : fs[i] # Absent => Elements(fs[i]) \subseteq Elements(o)

\* What was written after a log of a file is in that file or in another one.
Newer(fs, o) ==
  \A i \in Files : fs[i] # Absent =>
    \A x \in Elements(fs[i]), z \in Elements(o) : x < z =>
      \E j \in Files : fs[j] # Absent /\ z \in Elements(fs[j])

\* Of two files, the logs of the one that was opened first are the older ones.
Ordered(fs, w) ==
  \A i, j \in Files : fs[i] # Absent /\ fs[j] # Absent /\ i # j =>
    /\ w[i] # w[j]
    /\ w[i] < w[j] => \A x \in Elements(fs[i]), y \in Elements(fs[j]) : x < y

\* The file `c` was opened last.
Latest(fs, w, c) == \A i \in Files : fs[i] # Absent /\ i # c => w[i] < w[c]

\* The files of a file target.
FileInv ==
  kind = "file" =>
    /\ Contents(files, out) /\ Newer(files, out) /\ Ordered(files, opened)
    /\ conn \in {"up", "draining"} => files[cur] # Absent /\ Latest(files, opened, cur)
    /\ conn \notin {"up", "draining"} => files[cur] = Absent /\ flight = NoLog

LogInv == CacheInv /\ TargetTypes /\ FileInv

\* A set of numbers has a least one.
LEMMA LeastNat ==
  ASSUME NEW T \in SUBSET Nat, T # {}
  PROVE  \E n \in T : \A m \in T : n <= m
<1> DEFINE R == OpToRel(<, Nat)
<1>1. IsWellFoundedOn(R, Nat)
  BY NatLessThanWellFounded
<1>2. PICK n \in T : \A m \in T : ~(<<m, n>> \in R)
  <2> HIDE DEF R
  <2> QED
    BY <1>1, WFMin
<1>3. \A m \in T : ~(m < n)
  BY <1>2 DEF OpToRel
<1> HIDE DEF R
<1> QED
  BY <1>3

\* A file that exists is not one that does not, which holds no log.
LEMMA AbsentFacts == Absent \notin Seq(Logs) /\ Elements(Absent) = {NoLog} /\ Absent # <<>>
<1>1. Absent[1] = NoLog /\ DOMAIN Absent = {1} /\ Absent # <<>>
  BY DEF Absent
<1>2. NoLog \notin Logs
  BY Bounds
<1>3. Absent \notin Seq(Logs)
  <2> SUFFICES ASSUME Absent \in Seq(Logs) PROVE FALSE
    OBVIOUS
  <2>1. Absent[1] \in Logs
    BY <1>1
  <2> QED
    BY <1>1, <1>2, <2>1
<1>4. Elements(Absent) = {NoLog}
  BY <1>1 DEF Elements
<1> QED
  BY <1>1, <1>3, <1>4

\* The elements of a sequence of logs are logs.
LEMMA ElementFacts ==
  ASSUME NEW s \in Seq(Logs)
  PROVE  /\ Elements(s) \subseteq Logs /\ Elements(s) \subseteq Nat
         /\ \A i \in DOMAIN s : s[i] \in Elements(s)
         /\ \A x \in Elements(s) : \E i \in DOMAIN s : x = s[i]
<1>1. \A i \in DOMAIN s : s[i] \in Logs
  OBVIOUS
<1>2. Elements(s) \subseteq Logs
  BY <1>1 DEF Elements
<1>3. Logs \subseteq Nat
  BY Bounds
<1> QED
  BY <1>2, <1>3 DEF Elements

\* One more log at the end of a sequence.
LEMMA ElementsAppend ==
  ASSUME NEW s \in Seq(Logs), NEW n \in Logs
  PROVE  /\ Append(s, n) \in Seq(Logs) /\ Len(Append(s, n)) = Len(s) + 1
         /\ Append(s, n) # <<>>
         /\ Elements(Append(s, n)) = Elements(s) \cup {n}
         /\ Increasing(s) /\ (\A x \in Elements(s) : x < n) => Increasing(Append(s, n))
<1> DEFINE a == Append(s, n)
<1>1. /\ a \in Seq(Logs) /\ Len(a) = Len(s) + 1 /\ Len(s) \in Nat /\ a # <<>>
      /\ DOMAIN s = 1 .. Len(s) /\ DOMAIN a = 1 .. Len(s) + 1 /\ a[Len(s) + 1] = n
      /\ \A i \in DOMAIN s : a[i] = s[i]
  OBVIOUS
<1> HIDE DEF a
<1>2. \A i \in DOMAIN a : i \in DOMAIN s \/ i = Len(s) + 1
  BY <1>1
<1>3. Elements(a) = Elements(s) \cup {n}
  <2>1. Elements(a) \subseteq Elements(s) \cup {n}
    BY <1>1, <1>2 DEF Elements
  <2>2. Elements(s) \subseteq Elements(a) /\ n \in Elements(a)
    <3>1. Len(s) + 1 \in DOMAIN a /\ \A i \in DOMAIN s : i \in DOMAIN a
      BY <1>1
    <3> QED
      BY <1>1, <3>1 DEF Elements
  <2> QED
    BY <2>1, <2>2
<1>4. ASSUME Increasing(s), \A x \in Elements(s) : x < n PROVE Increasing(a)
  <2> SUFFICES ASSUME NEW i \in DOMAIN a, NEW j \in DOMAIN a, i < j PROVE a[i] < a[j]
    BY DEF Increasing
  <2>1. i \in DOMAIN s
    BY <1>1, <1>2
  <2>2. CASE j \in DOMAIN s
    BY <1>1, <1>4, <2>1, <2>2 DEF Increasing
  <2>3. CASE j = Len(s) + 1
    BY <1>1, <1>4, <2>1, <2>3 DEF Elements
  <2> QED
    BY <1>2, <2>2, <2>3
<1> QED
  BY <1>1, <1>3, <1>4 DEF a

-----------------------------------------------------------------------------
\* _nextFilePath finds a name.  If every name has a file it is the one that was
\* opened first.
LEMMA NextFileFacts ==
  ASSUME TargetTypes
  PROVE  /\ NextFile \in Files
         /\ \/ files[NextFile] = Absent
            \/ \A j \in Files : opened[NextFile] <= opened[j]
<1> DEFINE N == FileMaxCount
<1>1. /\ N \in Nat /\ N > 0 /\ cur \in Nat /\ cur < N
      /\ Files = 0 .. (N - 1) /\ Files \subseteq Nat
  BY Bounds DEF TargetTypes, Files
<1>2. CASE Free # {}
  <2>1. Free \in SUBSET Nat
    BY <1>1 DEF Free
  <2>2. \E k \in Free : \A j \in Free : k <= j
    BY <1>2, <2>1, LeastNat
  <2> DEFINE k == CHOOSE k \in Free : \A j \in Free : k <= j
  <2>3. k \in Free
    BY <2>2
  <2>4. k \in Nat /\ files[(cur + k) % N] = Absent
    BY <2>1, <2>3 DEF Free
  <2>5. NextFile = (cur + k) % N
    BY <1>2 DEF NextFile
  <2> HIDE DEF k
  <2>6. (cur + k) % N \in Files
    BY <1>1, <2>4
  <2> QED
    BY <2>4, <2>5, <2>6
<1>3. CASE Free = {}
  <2>1. \A i \in Files : opened[i] \in Nat
    BY DEF TargetTypes
  <2>2. \E i \in Files : \A j \in Files : opened[i] <= opened[j]
    <3> DEFINE T == {opened[i] : i \in Files}
    <3>1. T \in SUBSET Nat /\ T # {}
      BY <1>1, <2>1, Bounds
    <3>2. \E n \in T : \A m \in T : n <= m
      BY <3>1, LeastNat
    <3> QED
      BY <3>2
  <2> QED
    BY <1>3, <2>2 DEF NextFile
<1> QED
  BY <1>2, <1>3

\* Removing a file that does not exist, or the one that was opened first.
LEMMA FileRemoved ==
  ASSUME NEW fs \in [Files -> Seq(Logs) \cup {Absent}], NEW o \in Seq(Logs),
         NEW m \in Nat, NEW w \in [Files -> 0 .. m],
         NEW f \in Files, NEW gs, gs = [fs EXCEPT ![f] = Absent],
         NEW v, v = [w EXCEPT ![f] = 0],
         \/ fs[f] = Absent
         \/ \A j \in Files : w[f] <= w[j],
         Contents(fs, o), Newer(fs, o), Ordered(fs, w)
  PROVE  Contents(gs, o) /\ Newer(gs, o) /\ Ordered(gs, v) /\ v \in [Files -> 0 .. m]
<1>1. /\ gs[f] = Absent /\ \A i \in Files : i # f => gs[i] = fs[i]
      /\ v \in [Files -> 0 .. m] /\ \A i \in Files : i # f => v[i] = w[i]
  OBVIOUS
<1>2. Contents(gs, o) /\ Ordered(gs, v)
  BY <1>1 DEF Contents, Ordered
<1>3. Newer(gs, o)
  <2> SUFFICES ASSUME NEW i \in Files, gs[i] # Absent,
                      NEW x \in Elements(gs[i]), NEW z \in Elements(o), x < z
               PROVE  \E j \in Files : gs[j] # Absent /\ z \in Elements(gs[j])
    BY DEF Newer
  <2>1. i # f /\ gs[i] = fs[i] /\ fs[i] \in Seq(Logs)
    BY <1>1
  <2>2. PICK j \in Files : fs[j] # Absent /\ z \in Elements(fs[j])
    BY <2>1 DEF Newer
  <2>3. x \in Nat /\ z \in Nat
    BY <2>1, ElementFacts
  <2>4. j # f
    <3> SUFFICES ASSUME j = f PROVE FALSE
      OBVIOUS
    <3>1. w[f] <= w[i] /\ w[f] # w[i] /\ w[f] \in Nat /\ w[i] \in Nat
      BY <2>1, <2>2 DEF Ordered
    <3>2. w[f] < w[i]
      BY <3>1
    <3>3. fs[f] # Absent /\ fs[i] # Absent /\ z \in Elements(fs[f]) /\ x \in Elements(fs[i])
      BY <2>1, <2>2
    <3>4. z < x
      BY <2>1, <3>2, <3>3 DEF Ordered
    <3> QED
      BY <2>3, <3>4
  <2> QED
    BY <1>1, <2>2, <2>4
<1> QED
  BY <1>1, <1>2, <1>3

\* A log that is newer than all that are out goes to the file opened last.
LEMMA FileWritten ==
  ASSUME NEW fs \in [Files -> Seq(Logs) \cup {Absent}], NEW o \in Seq(Logs),
         NEW m \in Nat, NEW w \in [Files -> 0 .. m],
         NEW c \in Files, NEW n \in Logs, \A i \in DOMAIN o : o[i] < n,
         NEW gs, gs = [fs EXCEPT ![c] = Append(@, n)],
         NEW u, u = Append(o, n),
         fs[c] # Absent, Latest(fs, w, c),
         Contents(fs, o), Newer(fs, o), Ordered(fs, w)
  PROVE  /\ Contents(gs, u) /\ Newer(gs, u) /\ Ordered(gs, w) /\ Latest(gs, w, c)
         /\ gs[c] # Absent /\ gs \in [Files -> Seq(Logs) \cup {Absent}]
<1>1. /\ gs[c] = Append(fs[c], n) /\ fs[c] \in Seq(Logs)
      /\ \A i \in Files : i # c => gs[i] = fs[i]
  OBVIOUS
<1>2. n \in Nat /\ (\A x \in Elements(o) : x < n /\ x \in Nat) /\ Elements(u) = Elements(o) \cup {n}
  BY ElementFacts, ElementsAppend, Bounds
<1>3. Elements(gs[c]) = Elements(fs[c]) \cup {n} /\ gs[c] \in Seq(Logs) /\ gs[c] # Absent
  BY <1>1, ElementsAppend, AbsentFacts
<1>4. Contents(gs, u)
  BY <1>1, <1>2, <1>3 DEF Contents
<1>5. Latest(gs, w, c)
  BY <1>1 DEF Latest
<1>6. Newer(gs, u)
  <2> SUFFICES ASSUME NEW i \in Files, gs[i] # Absent,
                      NEW x \in Elements(gs[i]), NEW z \in Elements(u), x < z
               PROVE  \E j \in Files : gs[j] # Absent /\ z \in Elements(gs[j])
    BY DEF Newer
  <2>1. CASE z = n
    BY <1>3, <2>1
  <2>2. CASE z # n
    <3>1. z \in Elements(o) /\ z < n /\ z \in Nat
      BY <1>2, <2>2
    <3>2. x # n
      BY <1>2, <3>1
    <3>3. fs[i] # Absent /\ x \in Elements(fs[i])
      BY <1>1, <1>3, <3>2
    <3>4. PICK j \in Files : fs[j] # Absent /\ z \in Elements(fs[j])
      BY <3>1, <3>3 DEF Newer
    <3> QED
      BY <1>1, <1>3, <3>4
  <2> QED
    BY <2>1, <2>2
<1>7. Ordered(gs, w)
  <2> SUFFICES ASSUME NEW i \in Files, NEW j \in Files, gs[i] # Absent, gs[j] # Absent, i # j
               PROVE  /\ w[i] # w[j]
                      /\ w[i] < w[j] => \A x \in Elements(gs[i]), y \in Elements(gs[j]) : x < y
    BY DEF Ordered
  <2>1. fs[i] # Absent /\ fs[j] # Absent /\ w[i] \in Nat /\ w[j] \in Nat
    BY <1>1
  <2>2. w[i] # w[j]
    BY <2>1 DEF Ordered
  <2>3. ASSUME w[i] < w[j], NEW x \in Elements(gs[i]), NEW y \in Elements(gs[j]) PROVE x < y
    <3>1. i # c
      BY <2>1, <2>3 DEF Latest
    <3>2. x \in Elements(fs[i]) /\ x \in Elements(o)
      BY <1>1, <2>1, <2>3, <3>1 DEF Contents
    <3>3. CASE j = c /\ y = n
      BY <1>2, <3>2, <3>3
    <3>4. CASE ~(j = c /\ y = n)
      <4>1. y \in Elements(fs[j])
        BY <1>1, <1>3, <2>3, <3>4
      <4> QED
        BY <2>1, <2>3, <3>2, <4>1 DEF Ordered
    <3> QED
      BY <3>3, <3>4
  <2> QED
    BY <2>2, <2>3
<1>8. gs \in [Files -> Seq(Logs) \cup {Absent}]
  BY <1>1, <1>3
<1> QED
  BY <1>3, <1>4, <1>5, <1>6, <1>7, <1>8

\* Opening a file of a name that no file has.
LEMMA FileOpened ==
  ASSUME NEW fs \in [Files -> Seq(Logs) \cup {Absent}], NEW o \in Seq(Logs),
         NEW w \in [Files -> Nat], NEW v \in [Files -> Nat],
         NEW gs \in [Files -> Seq(Logs) \cup {Absent}],
         NEW c \in Files, fs[c] = Absent, gs[c] = <<>>,
         \A i \in Files : i # c => gs[i] = fs[i] /\ v[i] = w[i] /\ w[i] < v[c],
         Contents(fs, o), Newer(fs, o), Ordered(fs, w)
  PROVE  /\ Contents(gs, o) /\ Newer(gs, o) /\ Ordered(gs, v) /\ Latest(gs, v, c)
         /\ gs[c] # Absent
<1>1. /\ gs[c] = <<>> /\ \A i \in Files : i # c => gs[i] = fs[i]
      /\ gs \in [Files -> Seq(Logs) \cup {Absent}]
      /\ v[c] \in Nat /\ \A i \in Files : i # c => v[i] = w[i] /\ w[i] \in Nat /\ w[i] < v[c]
  OBVIOUS
<1>2. Elements(<<>>) = {} /\ gs[c] # Absent
  BY <1>1, AbsentFacts DEF Elements
<1>3. Contents(gs, o) /\ Latest(gs, v, c)
  BY <1>1, <1>2 DEF Contents, Latest
<1>4. Ordered(gs, v)
  <2> SUFFICES ASSUME NEW i \in Files, NEW j \in Files, gs[i] # Absent, gs[j] # Absent, i # j
               PROVE  /\ v[i] # v[j]
                      /\ v[i] < v[j] => \A x \in Elements(gs[i]), y \in Elements(gs[j]) : x < y
    BY DEF Ordered
  <2>1. CASE i = c \/ j = c
    BY <1>1, <1>2, <2>1
  <2>2. CASE i # c /\ j # c
    BY <1>1, <2>2 DEF Ordered
  <2> QED
    BY <2>1, <2>2
<1>5. Newer(gs, o)
  <2> SUFFICES ASSUME NEW i \in Files, gs[i] # Absent,
                      NEW x \in Elements(gs[i]), NEW z \in Elements(o), x < z
               PROVE  \E j \in Files : gs[j] # Absent /\ z \in Elements(gs[j])
    BY DEF Newer
  <2>1. i # c /\ gs[i] = fs[i]
    BY <1>1, <1>2
  <2>2. PICK j \in Files : fs[j] # Absent /\ z \in Elements(fs[j])
    BY <2>1 DEF Newer
  <2> QED
    BY <1>1, <2>2
<1> QED
  BY <1>1, <1>2, <1>3, <1>4, <1>5

-----------------------------------------------------------------------------
\* _outputItem keeps the files.
LEMMA TargetOutput ==
  ASSUME LogInv, status = "ready", NEW n \in Logs, NEW rest, OutputItem(n, rest),
         UNCHANGED kind
  PROVE  TargetTypes' /\ FileInv'
<1>1. TargetTypes /\ FileInv /\ flight = NoLog
  BY DEF LogInv, CacheInv, CacheTypes, Pending
<1>2. CASE OutputRefused(n, rest)
  BY <1>1, <1>2 DEF OutputRefused, target, TargetTypes, FileInv
<1>3. CASE OutputReturns(n, rest) \/ OutputThrows(n, rest)
  BY <1>1, <1>3 DEF OutputReturns, OutputThrows, target, TargetTypes, FileInv
<1>4. CASE OutputPends(n, rest)
  <2>1. /\ size' = IF kind = "file" THEN size + 1 ELSE size
        /\ kind = "file" => conn = "up" /\ size + 1 < FileMaxSize /\ conn' \in {"up", "draining"}
        /\ kind # "file" => conn' = conn
        /\ UNCHANGED <<out, cur, files, opens, opened>>
    BY <1>4 DEF OutputPends
  <2>2. size \in 0 .. (FileMaxSize - 1) /\ FileMaxSize \in Nat
    BY <1>1, Bounds DEF TargetTypes
  <2>3. size' \in 0 .. (FileMaxSize - 1)
    BY <2>1, <2>2
  <2>4. TargetTypes'
    BY <1>1, <2>1, <2>3 DEF TargetTypes
  <2>5. FileInv'
    BY <1>1, <2>1 DEF FileInv
  <2> QED
    BY <2>4, <2>5
<1>5. CASE OutputRotates(n, rest)
  <2>1. /\ kind = "file" /\ conn = "up"
        /\ conn' = "trying" /\ size' = 0 /\ cur' = NextFile
        /\ files' = [files EXCEPT ![NextFile] = Absent]
        /\ opened' = [opened EXCEPT ![NextFile] = 0]
        /\ UNCHANGED <<flight, out, opens>>
    BY <1>5 DEF OutputRotates
  <2>2. Contents(files, out) /\ Newer(files, out) /\ Ordered(files, opened)
    BY <1>1, <2>1 DEF FileInv
  <2>3. /\ NextFile \in Files
        /\ files[NextFile] = Absent \/ \A j \in Files : opened[NextFile] <= opened[j]
    BY <1>1, NextFileFacts
  <2>4. /\ files \in [Files -> Seq(Logs) \cup {Absent}] /\ opens \in Nat
        /\ opened \in [Files -> 0 .. opens] /\ out \in Seq(Logs)
    BY <1>1 DEF TargetTypes, LogInv, CacheInv, CacheTypes
  <2>5. /\ Contents(files', out) /\ Newer(files', out) /\ Ordered(files', opened')
        /\ opened' \in [Files -> 0 .. opens]
    BY <2>1, <2>2, <2>3, <2>4, FileRemoved
  <2>6. files' \in [Files -> Seq(Logs) \cup {Absent}] /\ files'[cur'] = Absent
    BY <2>1, <2>3, <2>4
  <2>7. TargetTypes'
    BY <1>1, <2>1, <2>3, <2>5, <2>6, Bounds DEF TargetTypes
  <2> QED
    BY <1>1, <2>1, <2>5, <2>6, <2>7 DEF FileInv
<1> QED
  BY <1>2, <1>3, <1>4, <1>5 DEF OutputItem

\* Every step keeps the files.
LEMMA TargetStep == ASSUME LogInv, [Next]_vars PROVE TargetTypes' /\ FileInv'
<1>0. /\ TargetTypes /\ FileInv /\ out \in Seq(Logs) /\ flight \in Logs \cup {NoLog}
      /\ Line(out, flight, queue, put) /\ queue \in Seq(Logs) /\ put \in Nat
      /\ files \in [Files -> Seq(Logs) \cup {Absent}] /\ cur \in Files
      /\ opens \in Nat /\ opened \in [Files -> 0 .. opens]
  BY Bounds DEF LogInv, CacheInv, CacheTypes, TargetTypes
<1>1. CASE UNCHANGED <<kind, flight, out, target>>
  BY <1>0, <1>1 DEF target, TargetTypes, FileInv
<1>2. CASE Put
  <2>1. CASE status = "ready" /\ queue = <<>>
    <3>1. put + 1 \in Logs
      BY <1>0, <1>2, Bounds DEF Put, Logs
    <3> QED
      BY <1>2, <2>1, <3>1, TargetOutput DEF Put
  <2>2. CASE ~(status = "ready" /\ queue = <<>>)
    BY <1>1, <1>2, <2>2 DEF Put
  <2> QED
    BY <2>1, <2>2
<1>3. CASE LoopOutput
  <2>1. Head(queue) \in Logs
    BY <1>0, <1>3 DEF LoopOutput
  <2> QED
    BY <1>3, <2>1, TargetOutput DEF LoopOutput
<1>4. CASE SoonFires \/ LaterFires \/ LoopThrows \/ LoopEnds \/ UNCHANGED vars
  BY <1>1, <1>4 DEF SoonFires, LaterFires, LoopThrows, LoopEnds, target, vars
<1>5. CASE Completes
  <2>1. /\ flight # NoLog /\ flight' = NoLog /\ out' = Append(out, flight)
        /\ files' = IF kind = "file" THEN [files EXCEPT ![cur] = Append(@, flight)] ELSE files
        /\ UNCHANGED <<kind, conn, cur, size, opens, opened>>
    BY <1>5 DEF Completes
  <2>2. CASE kind # "file"
    BY <1>0, <2>1, <2>2 DEF TargetTypes, FileInv
  <2>3. CASE kind = "file"
    <3>1. /\ conn \in {"up", "draining"} /\ files[cur] # Absent /\ Latest(files, opened, cur)
          /\ Contents(files, out) /\ Newer(files, out) /\ Ordered(files, opened)
      BY <1>0, <2>1, <2>3 DEF FileInv
    <3>2. flight \in Logs /\ \A i \in DOMAIN out : out[i] < flight
      BY <1>0, <2>1 DEF Line
    <3>3. files' = [files EXCEPT ![cur] = Append(@, flight)]
      BY <2>1, <2>3
    <3>4. /\ Contents(files', out') /\ Newer(files', out') /\ Ordered(files', opened)
          /\ Latest(files', opened, cur) /\ files'[cur] # Absent
          /\ files' \in [Files -> Seq(Logs) \cup {Absent}]
      BY <1>0, <2>1, <3>1, <3>2, <3>3, FileWritten
    <3>5. TargetTypes'
      BY <1>0, <2>1, <3>4 DEF TargetTypes
    <3> QED
      BY <2>1, <3>1, <3>4, <3>5 DEF FileInv
  <2> QED
    BY <2>2, <2>3
<1>6. CASE FailsLater \/ FailsForGood
  BY <1>0, <1>6 DEF FailsLater, FailsForGood, target, TargetTypes, FileInv
<1>7. CASE Opens
  <2>1. /\ conn = "trying" /\ conn' = "up"
        /\ UNCHANGED <<kind, flight, out, cur, size>>
    BY <1>7 DEF Opens, others
  <2>2. CASE kind # "file"
    <3>1. UNCHANGED <<files, opens, opened>>
      BY <1>7, <2>2 DEF Opens
    <3> QED
      BY <1>0, <2>1, <2>2, <3>1 DEF TargetTypes, FileInv
  <2>3. CASE kind = "file"
    <3>1. /\ files[cur] = Absent
          /\ Contents(files, out) /\ Newer(files, out) /\ Ordered(files, opened)
      BY <1>0, <2>1, <2>3 DEF FileInv
    <3>2. /\ files' = [files EXCEPT ![cur] = <<>>] /\ opens' = opens + 1
          /\ opened' = [opened EXCEPT ![cur] = opens + 1]
      BY <1>7, <2>3 DEF Opens
    <3>3. /\ Contents(files', out) /\ Newer(files', out) /\ Ordered(files', opened')
          /\ Latest(files', opened', cur) /\ files'[cur] # Absent
          /\ files' \in [Files -> Seq(Logs) \cup {Absent}]
          /\ opened' \in [Files -> 0 .. (opens + 1)]
      <4>1. /\ opened' \in [Files -> 0 .. (opens + 1)]
            /\ opened \in [Files -> Nat] /\ opened' \in [Files -> Nat]
            /\ files' \in [Files -> Seq(Logs) \cup {Absent}] /\ files'[cur] = <<>>
            /\ \A i \in Files : i # cur =>
                 files'[i] = files[i] /\ opened'[i] = opened[i] /\ opened[i] < opened'[cur]
        BY <1>0, <3>2
      <4>2. /\ Contents(files', out) /\ Newer(files', out) /\ Ordered(files', opened')
            /\ Latest(files', opened', cur) /\ files'[cur] # Absent
        BY <1>0, <3>1, <4>1, FileOpened
      <4> QED
        BY <4>1, <4>2
    <3>4. TargetTypes'
      BY <1>0, <2>1, <3>2, <3>3 DEF TargetTypes
    <3> QED
      BY <2>1, <3>3, <3>4 DEF FileInv
  <2> QED
    BY <2>2, <2>3
<1>8. CASE OpenFails \/ Reopen \/ Drains \/ Disconnects
  <2>1. /\ UNCHANGED <<kind, flight, out, cur, size, files, opens, opened>>
        /\ conn' \in {"trying", "waiting", "up", "draining"}
        /\ kind = "file" => (conn \in {"up", "draining"} <=> conn' \in {"up", "draining"})
    BY <1>8 DEF OpenFails, Reopen, Drains, Disconnects, others
  <2> QED
    BY <1>0, <2>1 DEF TargetTypes, FileInv
<1> QED
  BY <1>2, <1>3, <1>4, <1>5, <1>6, <1>7, <1>8 DEF Next

\* No file exists at the start.
LEMMA TargetInit == Init => TargetTypes /\ FileInv
<1> SUFFICES ASSUME Init PROVE TargetTypes /\ FileInv
  OBVIOUS
<1>1. /\ kind \in Kinds /\ conn = "trying" /\ cur = 0 /\ size = 0 /\ flight = NoLog
      /\ files \in [Files -> Seq(Logs) \cup {Absent}] /\ \A i \in Files : files[i] = Absent
      /\ opens \in Nat /\ opened \in [Files -> 0 .. opens]
  BY DEF Init
<1>2. cur \in Files /\ size \in 0 .. (FileMaxSize - 1)
  BY <1>1, Bounds
<1>3. TargetTypes
  BY <1>1, <1>2 DEF TargetTypes
<1> QED
  BY <1>1, <1>2, <1>3, AbsentFacts DEF FileInv, Contents, Newer, Ordered

\* The cache, the order of the logs and the files are as LogInv says.
LEMMA LogInvAlways == Spec => []LogInv
<1>1. Init => LogInv
  BY CacheInit, TargetInit DEF LogInv
<1>2. LogInv /\ [Next]_vars => LogInv'
  <2> SUFFICES ASSUME LogInv, [Next]_vars PROVE LogInv'
    OBVIOUS
  <2>1. CacheInv'
    BY CacheStep DEF LogInv
  <2> QED
    BY <2>1, TargetStep DEF LogInv
<1> QED
  BY <1>1, <1>2, PTL DEF Spec

\* Rotation removes the oldest logs, for any size and number of files: what was
\* written after a log that is in a file is in a file.
THEOREM NewestKeptAlways == Spec => []NewestKept
<1>1. LogInv => NewestKept
  <2> SUFFICES ASSUME LogInv, kind = "file"
               PROVE  LET onDisk == (UNION {Elements(files[i]) : i \in Files}) \ {NoLog} IN
                      \A i, j \in DOMAIN out :
                        i < j /\ out[i] \in onDisk => out[j] \in onDisk
    BY DEF NewestKept
  <2> DEFINE onDisk == (UNION {Elements(files[i]) : i \in Files}) \ {NoLog}
  <2> SUFFICES ASSUME NEW i \in DOMAIN out, NEW j \in DOMAIN out, i < j, out[i] \in onDisk
               PROVE  out[j] \in onDisk
    OBVIOUS
  <2>1. PICK f \in Files : out[i] \in Elements(files[f])
    OBVIOUS
  <2>2. out[i] < out[j] /\ out \in Seq(Logs)
    BY DEF LogInv, CacheInv, CacheTypes, Line, Increasing
  <2>3. out[j] \in Elements(out) /\ out[i] # NoLog /\ out[j] # NoLog
    <3>1. out[i] \in Logs /\ out[j] \in Logs
      BY <2>2
    <3> QED
      BY <2>2, <3>1, ElementFacts, Bounds
  <2>4. files[f] # Absent
    BY <2>1, <2>3, AbsentFacts
  <2>5. PICK g \in Files : out[j] \in Elements(files[g])
    BY <2>1, <2>2, <2>3, <2>4 DEF LogInv, FileInv, Newer
  <2>6. out[j] \in UNION {Elements(files[h]) : h \in Files}
    BY <2>5
  <2> QED
    BY <2>3, <2>6
<1> QED
  BY <1>1, LogInvAlways, PTL

\* The variables of the cache and of its target hold values of their types: so
\* the count of retries never passes its limit by more than the one that gives
\* the log up, and the size of a file stays below its limit.
THEOREM LogTypeCorrect == Spec => []TypeOK
<1>1. LogInv => TypeOK
  BY DEF LogInv, CacheInv, CacheTypes, TargetTypes, TypeOK
<1> QED
  BY <1>1, LogInvAlways, PTL

-----------------------------------------------------------------------------
\* Where the logs that were put are: out, under way, waiting, or gone; what is
\* gone is nowhere else.
Stand(o, f, q, g, p) ==
  /\ 1 .. p \subseteq Elements(o) \cup Elements(q) \cup {f} \cup g
  /\ g \subseteq 1 .. p
  /\ \A x \in g : x \notin Elements(o) /\ x \notin Elements(q) /\ x # f

Accounted == Stand(out, flight, queue, dropped \cup thrown, put)

\* Logs that wait have a callback, a timer or a loop that will go on with them,
\* unless the target threw.
Carried == queue # <<>> => loop \/ soon > 0 \/ later > 0 \/ flight # NoLog \/ Wedged

\* In the builds whose assert does not throw no loop meets a pending log: a log
\* of theirs is under way, or waits for the one timer, or nothing waits.
Single ==
  kind \notin {"file", "tcp"} =>
    /\ soon = 0
    /\ loop => status = "ready" /\ later = 0
    /\ later > 0 => later = 1 /\ status = "ready" /\ queue # <<>>

\* 0 is no log that is gone.
LEMMA GoneFacts ==
  ASSUME NEW p, NEW g, g \subseteq 1 .. p
  PROVE  NoLog \notin g
BY DEF NoLog

\* The log is taken by the target.
LEMMA StandTake ==
  ASSUME NEW o \in Seq(Logs), NEW n \in Logs, NEW q, NEW g, NEW p, Stand(o, n, q, g, p)
  PROVE  Stand(Append(o, n), NoLog, q, g, p)
<1>1. Elements(Append(o, n)) = Elements(o) \cup {n}
  BY ElementsAppend
<1>2. NoLog \notin g
  BY GoneFacts DEF Stand
<1> QED
  BY <1>1, <1>2 DEF Stand

\* The log is given up, or lost.
LEMMA StandGone ==
  ASSUME NEW o \in Seq(Logs), NEW q \in Seq(Logs), NEW n \in Logs, NEW g, NEW p \in Nat,
         Line(o, n, q, p), Stand(o, n, q, g, p)
  PROVE  Stand(o, NoLog, q, g \cup {n}, p)
<1>1. NoLog \notin g /\ n # NoLog
  BY GoneFacts, Bounds DEF Stand
<1>2. n \in 1 .. p
  BY <1>1 DEF Line, Logs
<1>3. n \notin Elements(o) /\ n \notin Elements(q)
  BY <1>1, Bounds DEF Line, Elements
<1> QED
  BY <1>1, <1>2, <1>3 DEF Stand

\* The log goes back to the front of the queue.
LEMMA StandBack ==
  ASSUME NEW o, NEW q \in Seq(Logs), NEW n \in Logs, NEW g, NEW p, Stand(o, n, q, g, p)
  PROVE  Stand(o, NoLog, <<n>> \o q, g, p)
<1> DEFINE b == <<n>> \o q
<1>1. /\ DOMAIN b = 1 .. Len(q) + 1 /\ DOMAIN q = 1 .. Len(q) /\ Len(q) \in Nat /\ b[1] = n
      /\ \A i \in DOMAIN b : i # 1 => i - 1 \in DOMAIN q /\ b[i] = q[i - 1]
      /\ \A i \in DOMAIN q : i + 1 \in DOMAIN b /\ b[i + 1] = q[i]
  OBVIOUS
<1> HIDE DEF b
<1>2. 1 \in DOMAIN b
  BY <1>1
<1>3. Elements(b) = Elements(q) \cup {n}
  BY <1>1, <1>2 DEF Elements
<1>4. NoLog \notin g
  BY GoneFacts DEF Stand
<1>5. Stand(o, NoLog, b, g, p)
  BY <1>3, <1>4 DEF Stand
<1> QED
  BY <1>5 DEF b

\* The first log of the queue is taken out of it.
LEMMA StandPop ==
  ASSUME NEW o, NEW q \in Seq(Logs), q # <<>>, NEW g, NEW p, Stand(o, NoLog, q, g, p),
         NEW d \in Nat, p = d
  PROVE  Stand(o, Head(q), Tail(q), g, p)
<1> DEFINE h == Head(q)
           t == Tail(q)
<1>1. /\ h = q[1] /\ 1 \in DOMAIN q
      /\ \A i \in DOMAIN t : i + 1 \in DOMAIN q /\ t[i] = q[i + 1]
      /\ \A i \in DOMAIN q : i # 1 => i - 1 \in DOMAIN t /\ t[i - 1] = q[i]
  OBVIOUS
<1> HIDE DEF h, t
<1>2. Elements(q) = Elements(t) \cup {h}
  BY <1>1 DEF Elements
<1>3. NoLog \notin 1 .. p
  BY DEF NoLog
<1>4. Stand(o, h, t, g, p)
  BY <1>2, <1>3 DEF Stand
<1> QED
  BY <1>4 DEF h, t

\* One more log is put, at the end of the queue or straight to the target.
LEMMA StandJoin ==
  ASSUME NEW o \in Seq(Logs), NEW q \in Seq(Logs), NEW f, NEW g, NEW p \in Nat, p < MaxLogs,
         Stand(o, f, q, g, p)
  PROVE  /\ Stand(o, f, Append(q, p + 1), g, p + 1)
         /\ f = NoLog => Stand(o, p + 1, q, g, p + 1)
<1>1. p + 1 \in Logs /\ 1 .. p + 1 = 1 .. p \cup {p + 1} /\ p + 1 \notin 1 .. p
  BY Bounds DEF Logs
<1>2. Elements(Append(q, p + 1)) = Elements(q) \cup {p + 1}
  BY <1>1, ElementsAppend
<1>3. p + 1 \notin g /\ NoLog \notin 1 .. p
  BY <1>1 DEF Stand, NoLog
<1>4. NoLog \notin 1 .. p + 1
  BY DEF NoLog
<1> QED
  BY <1>1, <1>2, <1>3, <1>4 DEF Stand

\* The oldest logs of the queue are given up.
LEMMA StandCut ==
  ASSUME NEW o \in Seq(Logs), NEW q \in Seq(Logs), NEW f, NEW g, NEW p \in Nat,
         NEW k \in Nat, k <= Len(q), Line(o, f, q, p), Stand(o, f, q, g, p)
  PROVE  Stand(o, f, SubSeq(q, k + 1, Len(q)), g \cup {q[i] : i \in 1 .. k}, p)
<1> DEFINE t == SubSeq(q, k + 1, Len(q))
           c == {q[i] : i \in 1 .. k}
<1>1. /\ DOMAIN q = 1 .. Len(q) /\ Len(q) \in Nat
      /\ \A i \in DOMAIN q : q[i] \in Logs
      /\ \A i \in DOMAIN t : i + k \in DOMAIN q /\ t[i] = q[i + k] /\ i \in Nat /\ i > 0
      /\ \A i \in DOMAIN q : i > k => i - k \in DOMAIN t /\ t[i - k] = q[i]
  OBVIOUS
<1>2. 1 .. k \subseteq DOMAIN q
  BY <1>1
<1> HIDE DEF t
<1>3. Elements(q) = Elements(t) \cup c
  <2>1. \A i \in DOMAIN q : q[i] \in Elements(t) \cup c
    BY <1>1, <1>2 DEF Elements
  <2>2. \A i \in DOMAIN t : t[i] \in Elements(q)
    BY <1>1 DEF Elements
  <2>3. c \subseteq Elements(q)
    BY <1>2 DEF Elements
  <2> QED
    BY <2>1, <2>2, <2>3 DEF Elements
<1>4. ASSUME NEW i \in 1 .. k
      PROVE  /\ q[i] \in 1 .. p /\ q[i] # f
             /\ q[i] \notin Elements(o) /\ q[i] \notin Elements(t)
  <2>1. i \in DOMAIN q /\ q[i] \in Logs /\ q[i] \in Nat /\ q[i] > 0
    <3>1. i \in DOMAIN q
      BY <1>2
    <3>2. q[i] \in Logs
      BY <1>1, <3>1
    <3> QED
      BY <3>1, <3>2 DEF Logs
  <2>2. q[i] \in 1 .. p
    BY <2>1 DEF Line
  <2>3. q[i] # f
    <3>1. f # NoLog => f < q[i]
      BY <2>1 DEF Line
    <3> QED
      BY <2>1, <3>1 DEF NoLog
  <2>4. q[i] \notin Elements(o)
    BY <2>1 DEF Line, Elements
  <2>5. \A j \in DOMAIN t : q[i] < t[j]
    <3> SUFFICES ASSUME NEW j \in DOMAIN t PROVE q[i] < t[j]
      OBVIOUS
    <3>1. j + k \in DOMAIN q /\ i < j + k /\ t[j] = q[j + k]
      BY <1>1
    <3> QED
      BY <2>1, <3>1 DEF Line, Increasing
  <2>6. q[i] \notin Elements(t)
    BY <2>1, <2>5 DEF Elements
  <2> QED
    BY <2>2, <2>3, <2>4, <2>6
<1>5. Stand(o, f, t, g \cup c, p)
  <2>1. 1 .. p \subseteq Elements(o) \cup Elements(t) \cup {f} \cup (g \cup c)
    BY <1>3 DEF Stand
  <2>2. g \cup c \subseteq 1 .. p
    BY <1>4 DEF Stand
  <2>3. ASSUME NEW x \in g \cup c
        PROVE  x \notin Elements(o) /\ x \notin Elements(t) /\ x # f
    BY <1>3, <1>4 DEF Stand
  <2> QED
    BY <2>1, <2>2, <2>3 DEF Stand
<1> QED
  BY <1>5 DEF t

-----------------------------------------------------------------------------
\* A log that fails in the call goes back or is gone, and a timer is set.
LEMMA FailStands ==
  ASSUME out \in Seq(Logs), soon \in Nat, later \in Nat, put' \in Nat,
         NEW n \in Logs, NEW rest \in Seq(Logs),
         Line(out, n, rest, put'), Stand(out, n, rest, dropped \cup thrown, put'),
         flight = NoLog, Fail(n, rest), UNCHANGED <<flight, out, thrown>>
  PROVE  Accounted' /\ Carried'
<1>1. CASE queue' = rest /\ dropped' = dropped \cup {n} /\ soon' = soon + 1
  <2>1. dropped' \cup thrown' = (dropped \cup thrown) \cup {n}
    BY <1>1
  <2>2. Stand(out, NoLog, rest, (dropped \cup thrown) \cup {n}, put')
    BY StandGone
  <2>3. Accounted'
    BY <1>1, <2>1, <2>2 DEF Accounted
  <2>4. soon' > 0
    BY <1>1
  <2> QED
    BY <2>3, <2>4 DEF Carried
<1>2. CASE queue' = <<n>> \o rest /\ dropped' = dropped /\ later' = later + 1
  <2>1. Stand(out, NoLog, <<n>> \o rest, dropped \cup thrown, put')
    BY StandBack
  <2> QED
    BY <1>2, <2>1 DEF Accounted, Carried
<1> QED
  BY <1>1, <1>2 DEF Fail

\* _outputItem keeps account of the log and of those that wait.
LEMMA OutputStands ==
  ASSUME CacheTypes, Pending, status = "ready", put' \in Nat,
         NEW n \in Logs, NEW rest \in Seq(Logs), rest = <<>> \/ loop,
         Line(out, n, rest, put'), Stand(out, n, rest, dropped \cup thrown, put'),
         OutputItem(n, rest), UNCHANGED kind
  PROVE  Accounted' /\ Carried'
<1>1. flight = NoLog /\ n # NoLog /\ out \in Seq(Logs) /\ soon \in Nat /\ later \in Nat
  BY Bounds DEF CacheTypes, Pending
<1>2. CASE OutputRefused(n, rest) \/ OutputRotates(n, rest)
  <2>1. Fail(n, rest) /\ UNCHANGED <<flight, out, thrown>>
    BY <1>2 DEF OutputRefused, OutputRotates
  <2> QED
    BY <1>1, <2>1, FailStands
<1>3. CASE OutputPends(n, rest)
  <2>1. flight' = n /\ queue' = rest /\ UNCHANGED <<out, dropped, thrown>>
    BY <1>3 DEF OutputPends, fates
  <2> QED
    BY <1>1, <2>1 DEF Accounted, Carried
<1>4. CASE OutputReturns(n, rest)
  <2>1. /\ out' = Append(out, n) /\ queue' = rest /\ UNCHANGED <<flight, dropped, thrown, loop>>
    BY <1>4 DEF OutputReturns, fates
  <2>2. Stand(Append(out, n), NoLog, rest, dropped \cup thrown, put')
    BY <1>1, StandTake
  <2> QED
    BY <1>1, <2>1, <2>2 DEF Accounted, Carried
<1>5. CASE OutputThrows(n, rest)
  <2>1. /\ kind = "h5" /\ thrown' = thrown \cup {n} /\ queue' = rest
        /\ UNCHANGED <<flight, out, dropped>>
    BY <1>5 DEF OutputThrows
  <2>2. dropped' \cup thrown' = (dropped \cup thrown) \cup {n}
    BY <2>1
  <2>3. Stand(out, NoLog, rest, (dropped \cup thrown) \cup {n}, put')
    BY <1>1, StandGone
  <2>4. Accounted'
    BY <1>1, <2>1, <2>2, <2>3 DEF Accounted
  <2>5. Wedged'
    BY <2>1 DEF Wedged
  <2> QED
    BY <2>4, <2>5 DEF Carried
<1> QED
  BY <1>2, <1>3, <1>4, <1>5 DEF OutputItem

\* _continue gives up what is beyond the limit, and its loop runs.
LEMMA ContinueStands ==
  ASSUME NEW o \in Seq(Logs), NEW q \in Seq(Logs), NEW f, NEW p \in Nat,
         NEW failed, Line(o, f, q, p), Stand(o, f, q, (dropped \cup thrown) \cup failed, p),
         Continue(q, failed), UNCHANGED thrown, out' = o, flight' = f, put' = p
  PROVE  Accounted' /\ Carried'
<1> DEFINE k == IF Len(q) > MaxCount THEN Len(q) - MaxCount ELSE 0
<1>1. k \in Nat /\ k <= Len(q)
  BY Bounds
<1>2. /\ queue' = SubSeq(q, k + 1, Len(q)) /\ loop' = TRUE
      /\ dropped' = dropped \cup failed \cup {q[i] : i \in 1 .. k}
  BY DEF Continue
<1> HIDE DEF k
<1>3. Stand(o, f, queue', ((dropped \cup thrown) \cup failed) \cup {q[i] : i \in 1 .. k}, p)
  BY <1>1, <1>2, StandCut
<1>4. dropped' \cup thrown' = ((dropped \cup thrown) \cup failed) \cup {q[i] : i \in 1 .. k}
  BY <1>2
<1> QED
  BY <1>2, <1>3, <1>4 DEF Accounted, Carried

\* Every step keeps account of the logs.
LEMMA StandStep ==
  ASSUME CacheInv, Accounted, Carried, [Next]_vars
  PROVE  Accounted' /\ Carried'
<1>0. /\ CacheTypes /\ Pending /\ put \in Nat /\ out \in Seq(Logs) /\ queue \in Seq(Logs)
      /\ flight \in Logs \cup {NoLog} /\ soon \in Nat /\ later \in Nat
      /\ Line(out, flight, queue, put)
      /\ Stand(out, flight, queue, dropped \cup thrown, put)
  BY Bounds DEF CacheInv, CacheTypes, Accounted
<1>1. CASE Put
  <2>1. put < MaxLogs /\ put' = put + 1 /\ put' \in Nat /\ UNCHANGED kind
    BY <1>0, <1>1 DEF Put
  <2>2. CASE status = "ready" /\ queue = <<>>
    <3>1. flight = NoLog
      BY <1>0, <2>2 DEF Pending
    <3>2. put + 1 \in Logs /\ Line(out, put + 1, queue, put + 1)
      BY <1>0, <2>1, <2>2, <3>1, LineDirect
    <3>3. Stand(out, put + 1, queue, dropped \cup thrown, put + 1)
      BY <1>0, <2>1, <3>1, StandJoin
    <3> QED
      BY <1>0, <1>1, <2>1, <2>2, <3>2, <3>3, OutputStands DEF Put
  <2>3. CASE ~(status = "ready" /\ queue = <<>>)
    <3>1. queue' = Append(queue, put + 1)
          /\ UNCHANGED <<soon, later, loop, flight, out, dropped, thrown>>
      BY <1>1, <2>3 DEF Put, fates
    <3>2. Stand(out, flight, Append(queue, put + 1), dropped \cup thrown, put + 1)
      BY <1>0, <2>1, StandJoin
    <3>3. queue # <<>> \/ flight # NoLog \/ Wedged
      BY <1>0, <2>3 DEF Pending, CacheTypes
    <3> QED
      BY <2>1, <3>1, <3>2, <3>3 DEF Accounted, Carried, Wedged
  <2> QED
    BY <2>2, <2>3
<1>2. CASE SoonFires \/ LaterFires
  <2>1. Continue(queue, {}) /\ UNCHANGED <<put, flight, out, thrown>>
    BY <1>2 DEF SoonFires, LaterFires
  <2>2. Stand(out, flight, queue, (dropped \cup thrown) \cup {}, put)
    BY <1>0
  <2> QED
    BY <1>0, <2>1, <2>2, ContinueStands
<1>3. CASE LoopOutput
  <2>1. loop /\ queue # <<>> /\ status = "ready" /\ flight = NoLog
        /\ OutputItem(Head(queue), Tail(queue)) /\ UNCHANGED <<put, kind>>
    BY <1>0, <1>3 DEF LoopOutput, Pending
  <2>2. Head(queue) \in Logs /\ Tail(queue) \in Seq(Logs)
        /\ Line(out, Head(queue), Tail(queue), put)
    BY <1>0, <2>1, LinePop
  <2>3. Stand(out, Head(queue), Tail(queue), dropped \cup thrown, put)
    BY <1>0, <2>1, StandPop
  <2> QED
    BY <1>0, <2>1, <2>2, <2>3, OutputStands
<1>4. CASE LoopThrows
  <2>1. /\ queue # <<>> /\ flight # NoLog /\ queue' = Tail(queue)
        /\ thrown' = thrown \cup {Head(queue)} /\ UNCHANGED <<put, flight, out, dropped>>
    BY <1>0, <1>4 DEF LoopThrows, Pending, Wedged
  <2>2. /\ Len(queue) \in Nat /\ 1 <= Len(queue) /\ Tail(queue) = SubSeq(queue, 1 + 1, Len(queue))
        /\ {queue[i] : i \in 1 .. 1} = {Head(queue)}
    BY <1>0, <2>1
  <2>3. Stand(out, flight, Tail(queue), (dropped \cup thrown) \cup {Head(queue)}, put)
    <3>1. 1 \in Nat
      OBVIOUS
    <3>2. Stand(out, flight, SubSeq(queue, 1 + 1, Len(queue)),
                (dropped \cup thrown) \cup {queue[i] : i \in 1 .. 1}, put)
      BY <1>0, <2>2, <3>1, StandCut
    <3> QED
      BY <2>2, <3>2
  <2>4. dropped' \cup thrown' = (dropped \cup thrown) \cup {Head(queue)}
    BY <2>1
  <2> QED
    BY <2>1, <2>3, <2>4 DEF Accounted, Carried
<1>5. CASE Completes
  <2>1. /\ flight # NoLog /\ flight' = NoLog /\ out' = Append(out, flight)
        /\ Continue(queue, {}) /\ UNCHANGED <<put, thrown>>
    BY <1>5 DEF Completes
  <2>2. out' \in Seq(Logs) /\ Line(out', NoLog, queue, put)
    BY <1>0, <2>1, LineTake
  <2>3. Stand(out', NoLog, queue, (dropped \cup thrown) \cup {}, put)
    BY <1>0, <2>1, StandTake
  <2> QED
    BY <1>0, <2>1, <2>2, <2>3, ContinueStands
<1>6. CASE FailsLater
  <2>1. /\ flight \in Logs /\ flight' = NoLog /\ queue' = <<flight>> \o queue
        /\ later' = later + 1 /\ UNCHANGED <<put, out, dropped, thrown>>
    BY <1>0, <1>6 DEF FailsLater, fates
  <2>2. Stand(out, NoLog, <<flight>> \o queue, dropped \cup thrown, put)
    BY <1>0, <2>1, StandBack
  <2> QED
    BY <1>0, <2>1, <2>2 DEF Accounted, Carried
<1>7. CASE FailsForGood
  <2>1. /\ flight \in Logs /\ flight' = NoLog /\ Continue(queue, {flight})
        /\ UNCHANGED <<put, out, thrown>>
    BY <1>0, <1>7 DEF FailsForGood
  <2>2. Line(out, NoLog, queue, put)
    BY <1>0, LineDrop
  <2>3. Stand(out, NoLog, queue, (dropped \cup thrown) \cup {flight}, put)
    BY <1>0, <2>1, StandGone
  <2> QED
    BY <1>0, <2>1, <2>2, <2>3, ContinueStands
<1>8. CASE \/ LoopEnds \/ Opens \/ OpenFails \/ Reopen \/ Drains \/ Disconnects
           \/ UNCHANGED vars
  <2>1. /\ UNCHANGED <<put, queue, flight, out, dropped, thrown, soon, later, kind>>
        /\ loop' = loop \/ queue = <<>>
    BY <1>8 DEF LoopEnds, Opens, OpenFails, Reopen, Drains, Disconnects, others, fates, vars
  <2> QED
    BY <1>0, <2>1 DEF Accounted, Carried, Wedged
<1> QED
  BY <1>1, <1>2, <1>3, <1>4, <1>5, <1>6, <1>7, <1>8 DEF Next

\* Every step of a build with a storage keeps to the one log or timer.
LEMMA SingleStep ==
  ASSUME CacheInv, Single, [Next]_vars
  PROVE  Single'
<1>0. /\ soon \in Nat /\ later \in Nat /\ queue \in Seq(Logs)
      /\ status \in {"ready", "pending"} /\ loop \in BOOLEAN
      /\ flight # NoLog => status = "pending"
  BY DEF CacheInv, CacheTypes, Pending
<1>1. kind' = kind
  BY DEF Next, vars, Put, SoonFires, LaterFires, LoopOutput, LoopThrows, LoopEnds, Completes,
     FailsLater, FailsForGood, Opens, OpenFails, Reopen, Drains, Disconnects, others
<1> SUFFICES ASSUME kind \notin {"file", "tcp"}
             PROVE  /\ soon' = 0
                    /\ loop' => status' = "ready" /\ later' = 0
                    /\ later' > 0 => later' = 1 /\ status' = "ready" /\ queue' # <<>>
  BY <1>1 DEF Single
<1>2. /\ soon = 0
      /\ loop => status = "ready" /\ later = 0
      /\ later > 0 => later = 1 /\ status = "ready" /\ queue # <<>>
  BY DEF Single
<1>3. ASSUME NEW n, NEW rest, OutputItem(n, rest)
      PROVE  loop' = FALSE /\ soon' = soon /\ later' = later
  BY <1>3 DEF OutputItem, OutputRefused, OutputRotates, OutputPends, OutputReturns, OutputThrows
<1>4. CASE Put
  <2>1. CASE status = "ready" /\ queue = <<>>
    <3>1. OutputItem(put + 1, queue)
      BY <1>4, <2>1 DEF Put
    <3> QED
      BY <1>0, <1>2, <1>3, <2>1, <3>1
  <2>2. CASE ~(status = "ready" /\ queue = <<>>)
    <3>1. queue' = Append(queue, put + 1) /\ UNCHANGED <<status, soon, later, loop>>
      BY <1>4, <2>2 DEF Put
    <3>2. queue' # <<>>
      BY <1>0, <3>1
    <3> QED
      BY <1>0, <1>2, <3>1, <3>2
  <2> QED
    BY <2>1, <2>2
<1>5. CASE LoopOutput
  <2>1. loop /\ OutputItem(Head(queue), Tail(queue))
    BY <1>5 DEF LoopOutput
  <2> QED
    <3>1. loop' = FALSE /\ soon' = soon /\ later' = later
      BY <2>1, <1>3
    <3> QED
      BY <1>2, <2>1, <3>1
<1>6. CASE SoonFires \/ LoopThrows
  BY <1>2, <1>6 DEF SoonFires, LoopThrows
<1>7. CASE LaterFires
  BY <1>0, <1>2, <1>7 DEF LaterFires, Continue
<1>8. CASE LoopEnds
  BY <1>2, <1>8 DEF LoopEnds
<1>9. CASE Completes \/ FailsForGood
  BY <1>0, <1>2, <1>9 DEF Completes, FailsForGood, Continue
<1>10. CASE FailsLater
  <2>1. /\ ~loop /\ flight # NoLog /\ later' = later + 1 /\ status' = "ready"
        /\ queue' = <<flight>> \o queue /\ UNCHANGED <<soon, loop>>
    BY <1>10 DEF FailsLater
  <2>2. later = 0
    BY <1>0, <1>2, <2>1
  <2>3. queue' # <<>>
    BY <1>0, <2>1
  <2> QED
    BY <1>2, <2>1, <2>2, <2>3
<1>11. CASE Opens \/ OpenFails \/ Reopen \/ Drains \/ Disconnects \/ UNCHANGED vars
  <2>1. UNCHANGED <<status, queue, soon, later, loop>>
    BY <1>11 DEF Opens, OpenFails, Reopen, Drains, Disconnects, others, vars
  <2> QED
    BY <1>2, <2>1
<1> QED
  BY <1>4, <1>5, <1>6, <1>7, <1>8, <1>9, <1>10, <1>11 DEF Next

\* The safety half of EveryLogSettles, for any number of logs: each log that
\* was put is out, with the target, waiting, given up or lost to an exception,
\* one that is given up or lost is never put out, and while logs wait, a
\* callback, a timer or a loop is left that goes on with them, unless the
\* target threw.  No loop of a build whose assert does not throw finds the
\* cache pending.
THEOREM LogsStandAlways ==
  Spec => [](Accounted /\ Carried /\ (loop /\ status = "pending" => kind \in {"file", "tcp"}))
<1> DEFINE Inv == CacheInv /\ Accounted /\ Carried /\ Single
<1>1. Init => Inv
  <2>1. Init => Accounted /\ Carried /\ Single
    BY DEF Init, Accounted, Carried, Stand, Elements, Single
  <2> QED
    BY <2>1, CacheInit
<1>2. Inv /\ [Next]_vars => Inv'
  BY CacheStep, StandStep, SingleStep
<1>3. Inv => Accounted /\ Carried /\ (loop /\ status = "pending" => kind \in {"file", "tcp"})
  BY DEF Single
<1> QED
  BY <1>1, <1>2, <1>3, PTL DEF Spec
=============================================================================
