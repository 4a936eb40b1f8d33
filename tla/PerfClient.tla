----------------------------- MODULE PerfClient ------------------------------
(***************************************************************************)
(* The performance counters of cyfs-perf/client: stat.ts keeps them in     *)
(* localStorage under the id of the measured item and notes the id, with   *)
(* the name of the PerfIsolate it is measured for, in one of a fixed       *)
(* number of slots (perf_isolate); PerfClient.put_to_noc sends what the    *)
(* slots name to the object store and empties them.  What it sends has one *)
(* entry for each isolate.  The counters are abstracted to how many events *)
(* they hold.                                                              *)
(***************************************************************************)
EXTENDS Naturals

CONSTANTS Ids,       \* ids of measured items
          Isolates,  \* names of isolates
          Measured,  \* the ids, each with the isolates it is measured for
          Keys,      \* keys that tell the requests of an id apart
          Slots,     \* the isolate slots (0 .. 39 in the code)
          NoId,      \* an empty slot
          MaxEvents, \* bound on the events
          MaxPuts    \* bound on the calls of put_to_noc

ASSUME PerfAssumption ==
  /\ NoId \notin Ids \cup Isolates
  /\ Measured \subseteq Ids \X Isolates
  /\ Slots \subseteq Nat
  /\ {MaxEvents, MaxPuts} \subseteq Nat

\* Requests that ended, accumulations and actions.
Kinds  == {"req", "acc", "action"}
Counts == [Kinds -> [Ids -> Nat]]
Zero   == [k \in Kinds |-> [i \in Ids |-> 0]]
Plus(a, b) == [k \in Kinds |-> [i \in Ids |-> a[k][i] + b[k][i]]]

VARIABLES
  slot,    \* the id noted in each slot
  isolate, \* the isolate noted with it
  open,    \* requests that began and did not end
  stored,  \* the counters in localStorage
  record,  \* ids with a record (a later one replaces it)
  sent,    \* the puts under way: number and counters
  noc,     \* what the object store has got
  lost,    \* what went with a put that failed
  dropped, \* what a put took out of localStorage and did not send
  done,    \* events that happened
  events,  \* number of events so far
  puts,    \* number of puts so far
  filled   \* perf_isolate found no free slot at some time

slots  == <<slot, isolate, filled>>
remote == <<sent, noc, lost, dropped, puts>>
vars   == <<slots, open, stored, record, remote, done, events>>

TypeOK ==
  /\ slot \in [Slots -> Ids \cup {NoId}]
  /\ isolate \in [Slots -> Isolates \cup {NoId}]
  /\ open \subseteq Ids \X Keys
  /\ record \subseteq Ids
  /\ {stored, noc, lost, dropped, done} \subseteq Counts
  /\ \A p \in sent : p.number \in 1 .. puts /\ p.counts \in Counts
  /\ events \in 0 .. MaxEvents /\ puts \in 0 .. MaxPuts
  /\ filled \in BOOLEAN

Init ==
  /\ slot = [s \in Slots |-> NoId] /\ isolate = slot
  /\ open = {} /\ record = {}
  /\ stored = Zero /\ noc = Zero /\ lost = Zero /\ dropped = Zero /\ done = Zero
  /\ sent = {}
  /\ events = 0 /\ puts = 0
  /\ filled = FALSE

Slotted == {slot[s] : s \in Slots} \ {NoId}
Free    == {s \in Slots : slot[s] = NoId}

-----------------------------------------------------------------------------
\* The first free slot is given to an id.
Note(i, n) ==
  \E s \in Free :
    /\ \A t \in Free : s <= t
    /\ slot' = [slot EXCEPT ![s] = i]
    /\ isolate' = [isolate EXCEPT ![s] = n]

\* MUTANT: perf_isolate that does not look for the id in the other slots.
IsolateTwice(i, n) ==
  \/ Note(i, n) /\ UNCHANGED filled
  \/ Free = {} /\ filled' = TRUE /\ UNCHANGED <<slot, isolate>>

\* perf_isolate: the first free slot, unless the id has one, which keeps the
\* isolate that was noted first.
Isolate(i, n) ==
  \/ i \in Slotted /\ UNCHANGED slots
  \/ i \notin Slotted /\ Note(i, n) /\ UNCHANGED filled
  \/ i \notin Slotted /\ Free = {} /\ filled' = TRUE /\ UNCHANGED <<slot, isolate>>

\* One more event in a counter.
Count(k, i) ==
  /\ events < MaxEvents
  /\ events' = events + 1
  /\ stored' = [stored EXCEPT ![k][i] = @ + 1]
  /\ done' = [done EXCEPT ![k][i] = @ + 1]

\* perf_begin; a second one of the same key is refused.
Begin(i, n, key) ==
  /\ <<i, key>> \notin open
  /\ open' = open \cup {<<i, key>>}
  /\ Isolate(i, n)
  /\ UNCHANGED <<stored, record, remote, done, events>>

\* perf_end of a request that began.  It notes no slot.
End(i, key) ==
  /\ <<i, key>> \in open
  /\ open' = open \ {<<i, key>>}
  /\ Count("req", i)
  /\ UNCHANGED <<slots, record, remote>>

\* MUTANT: perf_acc that leaves the slot to perf_action.
AccUnslotted(i, n) ==
  /\ Count("acc", i)
  /\ UNCHANGED <<slots, open, record, remote>>

\* perf_acc: only the first one notes the slot.
Acc(i, n) ==
  /\ Count("acc", i)
  /\ IF stored["acc"][i] = 0 THEN Isolate(i, n) ELSE UNCHANGED slots
  /\ UNCHANGED <<open, record, remote>>

Action(i, n) ==
  /\ Count("action", i)
  /\ Isolate(i, n)
  /\ UNCHANGED <<open, record, remote>>

Record(i, n) ==
  /\ record' = record \cup {i}
  /\ Isolate(i, n)
  /\ UNCHANGED <<open, stored, remote, done, events>>

-----------------------------------------------------------------------------
\* The ids that put_to_noc sends: the entries are encoded under the isolate's
\* name, so of the ids of an isolate the one in the last slot is left.
Kept ==
  {slot[s] : s \in {s \in Slots : \A t \in Slots : s < t /\ slot[t] # NoId
                                               => isolate[t] # isolate[s]}} \ {NoId}

\* The counters of some ids.
Of(those) == [k \in Kinds |-> [i \in Ids |-> IF i \in those THEN stored[k][i] ELSE 0]]

\* What put_to_noc sends.
Collected == Of(Kept)

\* MUTANT: put_to_noc that empties the slots and leaves the counters.
PutKeeping ==
  /\ Slotted # {}
  /\ puts < MaxPuts
  /\ puts' = puts + 1
  /\ sent' = sent \cup {[number |-> puts', counts |-> Collected]}
  /\ slot' = [s \in Slots |-> NoId] /\ isolate' = slot'
  /\ record' = record \ Slotted
  /\ UNCHANGED <<stored, open, noc, lost, dropped, done, events, filled>>

\* put_to_noc up to put_object: collect, empty, send.  All ids that are noted
\* are emptied.
Put ==
  /\ Slotted # {}
  /\ puts < MaxPuts
  /\ puts' = puts + 1
  /\ sent' = sent \cup {[number |-> puts', counts |-> Collected]}
  /\ dropped' = Plus(dropped, Of(Slotted \ Kept))
  /\ stored' = Of(Ids \ Slotted)
  /\ slot' = [s \in Slots |-> NoId] /\ isolate' = slot'
  /\ record' = record \ Slotted
  /\ UNCHANGED <<open, noc, lost, done, events, filled>>

\* External: put_object succeeds, or fails and the counters are gone.
PutReturns(p) ==
  /\ sent' = sent \ {p}
  /\ \/ noc' = Plus(noc, p.counts) /\ UNCHANGED lost
     \/ lost' = Plus(lost, p.counts) /\ UNCHANGED noc
  /\ UNCHANGED <<slots, open, stored, record, dropped, done, events, puts>>

Next ==
  \/ \E m \in Measured :
       \/ Acc(m[1], m[2]) \/ Action(m[1], m[2]) \/ Record(m[1], m[2])
       \/ \E key \in Keys : Begin(m[1], m[2], key)
  \/ \E i \in Ids, key \in Keys : End(i, key)
  \/ Put
  \/ \E p \in sent : PutReturns(p)

Spec == Init /\ [][Next]_vars

-----------------------------------------------------------------------------
\* The counters of the put of a number, if it is under way.
Under(n) ==
  LET those == {p \in sent : p.number = n} IN
  IF those = {} THEN Zero ELSE (CHOOSE p \in those : TRUE).counts

\* The counters of the puts under way, up to a number.
Sending[n \in 0 .. MaxPuts] == IF n = 0 THEN Zero ELSE Plus(Under(n), Sending[n - 1])

\* No event is counted twice or vanishes: it is in localStorage, in a put that
\* is under way, in the store, went with a put that failed (put_to_noc empties
\* localStorage before it awaits put_object), or was taken out by a put and not
\* sent.
Accounted ==
  done = Plus(Plus(stored, Sending[MaxPuts]), Plus(noc, Plus(lost, dropped)))

\* Only events of an id that shares an isolate with another id are not sent.
DroppedShared ==
  \A k \in Kinds, i \in Ids : dropped[k][i] > 0 =>
    \E j \in Ids \ {i}, n \in Isolates : {<<i, n>>, <<j, n>>} \subseteq Measured

\* An application that measures one id for each isolate loses events to nothing
\* but puts that fail.
Conserved == Accounted /\ DroppedShared

\* An id has one slot, so put_to_noc sends its counters once at most.
OneSlot ==
  \A s, t \in Slots : slot[s] # NoId /\ slot[s] = slot[t] => s = t

\* What was recorded will be found (and emptied) by put_to_noc, as long as the slots never
\* ran out.  Only requests are left out: perf_end notes no slot, so one that
\* ends after the put that took its slot is not found.
RecordedHasSlot ==
  ~filled => \A i \in Ids :
    stored["acc"][i] > 0 \/ stored["action"][i] > 0 \/ i \in record => i \in Slotted
=============================================================================
