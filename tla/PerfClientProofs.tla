--------------------------- MODULE PerfClientProofs ---------------------------
(***************************************************************************)
(* What the isolate slots of PerfClient hold, and where every event that   *)
(* was counted is, for any ids, isolates, keys and slots, and any number   *)
(* of events and puts.                                                     *)
(***************************************************************************)
EXTENDS PerfClient, Integers, WellFoundedInduction, TLAPS

\* The part of TypeOK that the slots depend on.
SlotTypes ==
  /\ slot \in [Slots -> Ids \cup {NoId}]
  /\ isolate \in [Slots -> Isolates \cup {NoId}]
  /\ record \subseteq Ids
  /\ stored \in Counts

\* An id is noted with an isolate it is measured for.
SlotMeasured == \A s \in Slots : slot[s] # NoId => <<slot[s], isolate[s]>> \in Measured

SlotInv == SlotTypes /\ SlotMeasured /\ OneSlot /\ RecordedHasSlot

\* What is measured is an id, for an isolate.
LEMMA Pairs ==
  \A m \in Measured : m[1] \in Ids /\ m[2] \in Isolates /\ <<m[1], m[2]>> \in Measured
  BY PerfAssumption

\* perf_isolate: the id has a slot afterwards, unless none was free, and no
\* other slot is touched.
LEMMA IsolateSlots ==
  ASSUME SlotTypes, SlotMeasured, OneSlot, NEW i \in Ids, NEW n \in Isolates,
         <<i, n>> \in Measured, Isolate(i, n)
  PROVE  /\ slot' \in [Slots -> Ids \cup {NoId}]
         /\ isolate' \in [Slots -> Isolates \cup {NoId}]
         /\ SlotMeasured' /\ OneSlot'
         /\ Slotted \subseteq Slotted'
         /\ ~filled' => ~filled /\ i \in Slotted'
<1>1. NoId \notin Ids
  BY PerfAssumption
<1>2. CASE UNCHANGED <<slot, isolate>> /\ (filled' \/ (i \in Slotted /\ UNCHANGED filled))
  <2>1. Slotted' = Slotted /\ OneSlot' /\ SlotMeasured'
    BY <1>2 DEF Slotted, OneSlot, SlotMeasured
  <2> QED
    BY <1>2, <2>1 DEF SlotTypes
<1>3. CASE i \notin Slotted /\ Note(i, n) /\ UNCHANGED filled
  <2>1. PICK s \in Slots : /\ slot[s] = NoId /\ slot' = [slot EXCEPT ![s] = i]
                           /\ isolate' = [isolate EXCEPT ![s] = n]
    BY <1>3 DEF Note, Free
  <2>2. /\ slot' \in [Slots -> Ids \cup {NoId}] /\ slot'[s] = i
        /\ isolate' \in [Slots -> Isolates \cup {NoId}] /\ isolate'[s] = n
        /\ \A t \in Slots : t # s =>
             slot'[t] = slot[t] /\ isolate'[t] = isolate[t] /\ slot[t] # i
    BY <1>1, <1>3, <2>1 DEF SlotTypes, Slotted
  <2>3. OneSlot'
    BY <2>2 DEF OneSlot
  <2>4. SlotMeasured'
    BY <2>2 DEF SlotMeasured
  <2>5. Slotted \subseteq Slotted' /\ i \in Slotted'
    BY <1>1, <2>1, <2>2 DEF Slotted
  <2> QED
    BY <1>3, <2>2, <2>3, <2>4, <2>5
<1> QED
  BY <1>2, <1>3 DEF Isolate, slots

\* Every step keeps the invariant.
LEMMA SlotStep == ASSUME SlotInv, [Next]_vars PROVE SlotInv'
<1>0. /\ SlotTypes /\ SlotMeasured /\ OneSlot /\ RecordedHasSlot
      /\ \A k \in Kinds, i \in Ids : stored[k][i] \in Nat
      /\ "acc" \in Kinds /\ "action" \in Kinds /\ "req" \in Kinds
  BY DEF SlotInv, SlotTypes, Counts, Kinds
<1>1. ASSUME NEW k \in Kinds, NEW i \in Ids, Count(k, i)
      PROVE  /\ stored' \in Counts /\ stored'[k][i] = stored[k][i] + 1
             /\ \A j \in Kinds, h \in Ids :
                  <<j, h>> # <<k, i>> => stored'[j][h] = stored[j][h]
  BY <1>0, <1>1 DEF Count, SlotTypes, Counts
<1>2. ASSUME NEW i \in Ids, NEW n \in Isolates, <<i, n>> \in Measured, Acc(i, n)
      PROVE  SlotInv'
  <2>1. Count("acc", i) /\ UNCHANGED record
    BY <1>2 DEF Acc
  <2>2. CASE stored["acc"][i] = 0
    <3>1. Isolate(i, n)
      BY <1>2, <2>2 DEF Acc
    <3>2. /\ slot' \in [Slots -> Ids \cup {NoId}] /\ OneSlot' /\ Slotted \subseteq Slotted'
          /\ isolate' \in [Slots -> Isolates \cup {NoId}] /\ SlotMeasured'
          /\ ~filled' => ~filled /\ i \in Slotted'
      BY <1>0, <1>2, <3>1, IsolateSlots
    <3> QED
      BY <1>0, <1>1, <2>1, <3>2 DEF SlotInv, SlotTypes, RecordedHasSlot
  <2>3. CASE stored["acc"][i] # 0
    <3>1. UNCHANGED <<slot, isolate, filled>> /\ Slotted' = Slotted
      BY <1>2, <2>3 DEF Acc, Slotted, slots
    <3>2. stored["acc"][i] > 0
      BY <1>0, <2>3
    <3>3. OneSlot' /\ SlotTypes' /\ SlotMeasured'
      BY <1>0, <1>1, <2>1, <3>1 DEF OneSlot, SlotTypes, SlotMeasured
    <3> QED
      BY <1>0, <1>1, <2>1, <3>1, <3>2, <3>3 DEF SlotInv, RecordedHasSlot
  <2> QED
    BY <2>2, <2>3
<1>3. ASSUME NEW i \in Ids, NEW n \in Isolates, <<i, n>> \in Measured, Action(i, n)
      PROVE  SlotInv'
  <2>1. Count("action", i) /\ UNCHANGED record /\ Isolate(i, n)
    BY <1>3 DEF Action
  <2>2. /\ slot' \in [Slots -> Ids \cup {NoId}] /\ OneSlot' /\ Slotted \subseteq Slotted'
          /\ isolate' \in [Slots -> Isolates \cup {NoId}] /\ SlotMeasured'
        /\ ~filled' => ~filled /\ i \in Slotted'
    BY <1>0, <1>3, <2>1, IsolateSlots
  <2> QED
    BY <1>0, <1>1, <2>1, <2>2 DEF SlotInv, SlotTypes, RecordedHasSlot
<1>4. ASSUME NEW i \in Ids, NEW n \in Isolates, <<i, n>> \in Measured, Record(i, n)
      PROVE  SlotInv'
  <2>1. /\ slot' \in [Slots -> Ids \cup {NoId}] /\ OneSlot' /\ Slotted \subseteq Slotted'
          /\ isolate' \in [Slots -> Isolates \cup {NoId}] /\ SlotMeasured'
        /\ ~filled' => ~filled /\ i \in Slotted'
    BY <1>0, <1>4, IsolateSlots DEF Record
  <2>2. record' = record \cup {i} /\ UNCHANGED stored
    BY <1>4 DEF Record
  <2> QED
    BY <1>0, <2>1, <2>2 DEF SlotInv, SlotTypes, RecordedHasSlot
<1>5. ASSUME NEW i \in Ids, NEW n \in Isolates, <<i, n>> \in Measured, NEW key \in Keys,
             Begin(i, n, key)
      PROVE  SlotInv'
  <2>1. /\ slot' \in [Slots -> Ids \cup {NoId}] /\ OneSlot' /\ Slotted \subseteq Slotted'
          /\ isolate' \in [Slots -> Isolates \cup {NoId}] /\ SlotMeasured'
        /\ ~filled' => ~filled /\ i \in Slotted'
    BY <1>0, <1>5, IsolateSlots DEF Begin
  <2>2. UNCHANGED <<record, stored>>
    BY <1>5 DEF Begin
  <2> QED
    BY <1>0, <2>1, <2>2 DEF SlotInv, SlotTypes, RecordedHasSlot
<1>6. ASSUME NEW i \in Ids, NEW key \in Keys, End(i, key) PROVE SlotInv'
  <2>1. Count("req", i) /\ UNCHANGED <<slot, isolate, filled, record>>
    BY <1>6 DEF End, slots
  <2>2. Slotted' = Slotted /\ OneSlot' /\ SlotTypes' /\ SlotMeasured'
    BY <1>0, <1>1, <2>1 DEF Slotted, OneSlot, SlotTypes, SlotMeasured
  <2> QED
    BY <1>0, <1>1, <2>1, <2>2 DEF SlotInv, RecordedHasSlot
<1>7. CASE Put
  <2>1. /\ slot' = [s \in Slots |-> NoId] /\ isolate' = slot'
        /\ record' = record \ Slotted /\ UNCHANGED filled
        /\ stored' = [k \in Kinds |-> [i \in Ids |->
                         IF i \in Ids \ Slotted THEN stored[k][i] ELSE 0]]
    BY <1>7 DEF Put, Of
  <2>2. \A k \in Kinds, i \in Ids :
          stored'[k][i] = IF i \in Slotted THEN 0 ELSE stored[k][i]
    BY <2>1
  <2>3. stored' \in Counts
    BY <1>0, <2>1, <2>2 DEF Counts
  <2>4. OneSlot' /\ Slotted' = {} /\ SlotMeasured'
    BY <2>1 DEF OneSlot, Slotted, SlotMeasured
  <2>5. RecordedHasSlot'
    BY <1>0, <2>1, <2>2 DEF RecordedHasSlot
  <2> QED
    BY <1>0, <2>1, <2>3, <2>4, <2>5 DEF SlotInv, SlotTypes
<1>8. ASSUME NEW p \in sent, PutReturns(p) PROVE SlotInv'
  BY <1>0, <1>8 DEF PutReturns, slots, SlotInv, SlotTypes, SlotMeasured, OneSlot,
     RecordedHasSlot, Slotted
<1>9. CASE UNCHANGED vars
  BY <1>0, <1>9 DEF vars, slots, SlotInv, SlotTypes, SlotMeasured, OneSlot,
     RecordedHasSlot, Slotted
<1> QED
  BY <1>2, <1>3, <1>4, <1>5, <1>6, <1>7, <1>8, <1>9, Pairs DEF Next

\* The specification never leaves the invariant.
LEMMA SlotInvAlways == Spec => []SlotInv
<1>1. Init => SlotInv
  BY DEF Init, Zero, Kinds, Counts, SlotInv, SlotTypes, SlotMeasured, OneSlot,
     RecordedHasSlot
<1> QED
  BY <1>1, SlotStep, PTL DEF Spec

\* An id never has two slots, so put_to_noc sends its counters once at most.
THEOREM OneSlotAlways == Spec => []OneSlot
<1>1. SlotInv => OneSlot
  BY DEF SlotInv
<1> QED
  BY <1>1, SlotInvAlways, PTL

\* Until the slots run out, put_to_noc finds what was recorded.
THEOREM RecordedHasSlotAlways == Spec => []RecordedHasSlot
<1>1. SlotInv => RecordedHasSlot
  BY DEF SlotInv
<1> QED
  BY <1>1, SlotInvAlways, PTL

-----------------------------------------------------------------------------
\* A set of numbers has a least one.
LEMMA LeastNat ==
  ASSUME NEW T \in SUBSET Nat, T # {}
  PROVE  \E n \in T : \A m \in T : n <= m
<1> DEFINE R == OpToRel(<, Nat)
<1>1. IsWellFoundedOn(R, Nat)
  BY NatLessThanWellFounded
<1>2. PICK n \in T : \A m \in T : ~(<<m, n>> \in R)
  <2> HIDE DEF R
  <2> QED
    BY <1>1, WFMin
<1>3. \A m \in T : ~(m < n)
  BY <1>2 DEF OpToRel
<1> HIDE DEF R
<1> QED
  BY <1>3

\* A set of numbers that holds 0, and the next number of each it holds, holds
\* all up to the limit.
LEMMA AllNumbers ==
  ASSUME NEW M \in Nat, NEW S, 0 \in S, \A n \in 1 .. M : n - 1 \in S => n \in S
  PROVE  \A n \in 0 .. M : n \in S
<1> DEFINE T == {n \in 0 .. M : n \notin S}
<1> SUFFICES ASSUME T # {} PROVE FALSE
  OBVIOUS
<1>1. PICK n \in T : \A m \in T : n <= m
  <2>1. T \in SUBSET Nat
    OBVIOUS
  <2> HIDE DEF T
  <2> QED
    BY <2>1, LeastNat
<1>2. n \in 1 .. M /\ n - 1 \in 0 .. M
  BY <1>1
<1>3. n - 1 \notin T
  BY <1>1, <1>2
<1> QED
  BY <1>1, <1>2, <1>3

\* Counters add up as numbers do.
LEMMA PlusFacts ==
  ASSUME NEW a \in Counts, NEW b \in Counts
  PROVE  /\ Zero \in Counts /\ Plus(a, b) \in Counts /\ Plus(a, Zero) = a
         /\ \A k \in Kinds, i \in Ids : Plus(a, b)[k][i] = a[k][i] + b[k][i]
<1>1. Zero \in Counts /\ \A k \in Kinds, i \in Ids : Zero[k][i] = 0
  BY DEF Zero, Counts
<1>2. /\ \A k \in Kinds, i \in Ids : a[k][i] \in Nat /\ b[k][i] \in Nat
      /\ \A k \in Kinds : a[k] = [i \in Ids |-> a[k][i]] /\ a[k] \in [Ids -> Nat]
      /\ a = [k \in Kinds |-> a[k]]
  BY DEF Counts
<1>3. Plus(a, b) \in Counts
  BY <1>2 DEF Counts, Plus
<1>4. \A k \in Kinds, i \in Ids : Plus(a, b)[k][i] = a[k][i] + b[k][i]
  BY DEF Plus
<1>5. Plus(a, Zero) = a
  <2>1. \A k \in Kinds : Plus(a, Zero)[k] = a[k]
    BY <1>1, <1>2 DEF Plus
  <2> QED
    BY <1>2, <2>1 DEF Plus
<1> QED
  BY <1>1, <1>3, <1>4, <1>5

\* Counters with the same numbers are the same.
LEMMA SameCounts ==
  ASSUME NEW a \in Counts, NEW b \in Counts, \A k \in Kinds, i \in Ids : a[k][i] = b[k][i]
  PROVE  a = b
<1>1. \A k \in Kinds : a[k] \in [Ids -> Nat] /\ b[k] \in [Ids -> Nat]
  BY DEF Counts
<1>2. \A k \in Kinds : a[k] = b[k]
  BY <1>1
<1> QED
  BY <1>2 DEF Counts

\* Nothing and some counters are those counters.
LEMMA ZeroPlus == ASSUME NEW c \in Counts PROVE Plus(Zero, c) = c
<1>1. /\ Zero \in Counts /\ Plus(Zero, c) \in Counts
      /\ \A k \in Kinds, i \in Ids : Plus(Zero, c)[k][i] = Zero[k][i] + c[k][i]
  BY PlusFacts
<1>2. \A k \in Kinds, i \in Ids : Zero[k][i] = 0 /\ c[k][i] \in Nat
  BY DEF Zero, Counts
<1> QED
  BY <1>1, <1>2, SameCounts

\* Counters of each put.
PutCounts == [1 .. MaxPuts -> Counts]

\* `t` adds up the counters `u` of the puts, as Sending does.
Sums(t, u) == t = [n \in 0 .. MaxPuts |-> IF n = 0 THEN Zero ELSE Plus(u[n], t[n - 1])]

\* The part of such a sum up to a put.
PartSum(t, u, m) ==
  /\ t \in [0 .. m -> Counts]
  /\ t[0] = Zero
  /\ \A n \in 1 .. m : t[n] = Plus(u[n], t[n - 1])

\* Any counters can be added up.
LEMMA SumExists ==
  ASSUME NEW u \in PutCounts
  PROVE  \E t : Sums(t, u)
<1> DEFINE S == {m \in 0 .. MaxPuts : \E t : PartSum(t, u, m)}
<1>0. MaxPuts \in Nat /\ Zero \in Counts
  BY PerfAssumption DEF Zero, Counts
<1>1. 0 \in S
  <2> DEFINE t == [n \in 0 .. 0 |-> Zero]
  <2>1. PartSum(t, u, 0)
    BY <1>0 DEF PartSum
  <2> QED
    BY <1>0, <2>1
<1>2. ASSUME NEW m \in 1 .. MaxPuts, m - 1 \in S PROVE m \in S
  <2>1. PICK t : PartSum(t, u, m - 1)
    BY <1>2
  <2> DEFINE s == [n \in 0 .. m |-> IF n = m THEN Plus(u[m], t[m - 1]) ELSE t[n]]
  <2>2. t[m - 1] \in Counts /\ u[m] \in Counts
    BY <1>0, <2>1 DEF PartSum, PutCounts
  <2>3. Plus(u[m], t[m - 1]) \in Counts
    BY <2>2, PlusFacts
  <2>4. \A n \in 0 .. m : n # m => n \in 0 .. (m - 1) /\ t[n] \in Counts /\ s[n] = t[n]
    BY <1>0, <2>1 DEF PartSum
  <2>5. s \in [0 .. m -> Counts] /\ s[m] = Plus(u[m], t[m - 1])
    BY <1>0, <2>3, <2>4
  <2>6. DOMAIN s = 0 .. m
    OBVIOUS
  <2> HIDE DEF s
  <2>7. s[0] = Zero
    BY <1>0, <2>1, <2>4 DEF PartSum
  <2>8. ASSUME NEW n \in 1 .. m PROVE s[n] = Plus(u[n], s[n - 1])
    <3>1. s[n - 1] = t[n - 1] /\ n \in Nat
      BY <1>0, <2>4
    <3>2. CASE n = m
      BY <2>5, <3>1, <3>2
    <3>3. CASE n # m
      <4>1. n \in 1 .. (m - 1) /\ s[n] = t[n]
        BY <1>0, <2>4, <3>3
      <4> QED
        BY <2>1, <3>1, <4>1 DEF PartSum
    <3> QED
      BY <3>2, <3>3
  <2>9. PartSum(s, u, m)
    BY <2>5, <2>7, <2>8 DEF PartSum
  <2> QED
    BY <1>0, <2>9
<1> HIDE DEF S
<1>3. MaxPuts \in S
  BY <1>0, <1>1, <1>2, AllNumbers
<1>4. PICK t : PartSum(t, u, MaxPuts)
  BY <1>3 DEF S
<1>5. \A n \in 0 .. MaxPuts : t[n] = IF n = 0 THEN Zero ELSE Plus(u[n], t[n - 1])
  BY <1>0, <1>4 DEF PartSum
<1>6. Sums(t, u)
  BY <1>4, <1>5 DEF Sums, PartSum
<1> QED
  BY <1>6

\* What a sum is.
LEMMA SumFacts ==
  ASSUME NEW u \in PutCounts, NEW t, Sums(t, u)
  PROVE  /\ t \in [0 .. MaxPuts -> Counts] /\ t[0] = Zero
         /\ \A n \in 1 .. MaxPuts : t[n] = Plus(u[n], t[n - 1])
<1>0. MaxPuts \in Nat /\ Zero \in Counts
  BY PerfAssumption DEF Zero, Counts
<1>1. /\ DOMAIN t = 0 .. MaxPuts /\ t[0] = Zero
      /\ \A n \in 1 .. MaxPuts : t[n] = Plus(u[n], t[n - 1])
      /\ t = [n \in 0 .. MaxPuts |-> t[n]]
  BY <1>0 DEF Sums
<1> DEFINE S == {m \in 0 .. MaxPuts : t[m] \in Counts}
<1>2. 0 \in S
  BY <1>0, <1>1
<1>3. ASSUME NEW m \in 1 .. MaxPuts, m - 1 \in S PROVE m \in S
  <2>1. t[m] = Plus(u[m], t[m - 1]) /\ t[m - 1] \in Counts /\ u[m] \in Counts
    BY <1>1, <1>3 DEF PutCounts
  <2>2. t[m] \in Counts
    BY <2>1, PlusFacts
  <2> QED
    BY <1>0, <2>2
<1> HIDE DEF S
<1>4. \A m \in 0 .. MaxPuts : m \in S
  BY <1>0, <1>2, <1>3, AllNumbers
<1>5. \A m \in 0 .. MaxPuts : t[m] \in Counts
  BY <1>4 DEF S
<1> QED
  BY <1>1, <1>5

\* If the counters of one put grow by `c`, so does the sum.
LEMMA SumChange ==
  ASSUME NEW u \in PutCounts, NEW v \in PutCounts,
         NEW t, NEW s, Sums(t, u), Sums(s, v),
         NEW p \in 1 .. MaxPuts, NEW c \in Counts,
         v[p] = Plus(u[p], c), \A n \in 1 .. MaxPuts : n # p => v[n] = u[n]
  PROVE  s[MaxPuts] = Plus(t[MaxPuts], c)
<1>0. MaxPuts \in Nat /\ p \in Nat /\ p <= MaxPuts
  BY PerfAssumption
<1>1. /\ t \in [0 .. MaxPuts -> Counts] /\ t[0] = Zero
      /\ \A n \in 1 .. MaxPuts : t[n] = Plus(u[n], t[n - 1])
      /\ s \in [0 .. MaxPuts -> Counts] /\ s[0] = Zero
      /\ \A n \in 1 .. MaxPuts : s[n] = Plus(v[n], s[n - 1])
  BY SumFacts
<1> DEFINE S == {m \in 0 .. MaxPuts : s[m] = IF m >= p THEN Plus(t[m], c) ELSE t[m]}
<1>2. 0 \in S
  BY <1>0, <1>1
<1>3. ASSUME NEW m \in 1 .. MaxPuts, m - 1 \in S PROVE m \in S
  <2>1. /\ m \in Nat /\ m - 1 \in 0 .. MaxPuts /\ m \in 0 .. MaxPuts
        /\ s[m - 1] = IF m - 1 >= p THEN Plus(t[m - 1], c) ELSE t[m - 1]
        /\ s[m] = Plus(v[m], s[m - 1]) /\ t[m] = Plus(u[m], t[m - 1])
    BY <1>0, <1>1, <1>3
  <2>2. /\ u[m] \in Counts /\ v[m] \in Counts /\ u[p] \in Counts
        /\ t[m] \in Counts /\ s[m] \in Counts /\ t[m - 1] \in Counts /\ s[m - 1] \in Counts
    BY <1>1, <2>1 DEF PutCounts
  <2>3. CASE m < p
    BY <1>0, <2>1, <2>3
  <2>4. CASE m = p
    <3>1. s[m - 1] = t[m - 1] /\ v[m] = Plus(u[m], c)
      BY <1>0, <2>1, <2>4
    <3>2. Plus(t[m], c) \in Counts
      BY <2>2, PlusFacts
    <3>3. ASSUME NEW k \in Kinds, NEW i \in Ids PROVE s[m][k][i] = Plus(t[m], c)[k][i]
      <4>1. /\ s[m][k][i] = v[m][k][i] + s[m - 1][k][i]
            /\ t[m][k][i] = u[m][k][i] + t[m - 1][k][i]
            /\ v[m][k][i] = u[m][k][i] + c[k][i]
            /\ Plus(t[m], c)[k][i] = t[m][k][i] + c[k][i]
        BY <2>1, <2>2, <3>1, PlusFacts
      <4>2. u[m][k][i] \in Nat /\ c[k][i] \in Nat /\ t[m - 1][k][i] \in Nat
        BY <2>2 DEF Counts
      <4> QED
        BY <3>1, <4>1, <4>2
    <3>4. s[m] = Plus(t[m], c)
      BY <2>2, <3>2, <3>3, SameCounts
    <3> QED
      BY <1>0, <2>1, <2>4, <3>4
  <2>5. CASE m > p
    <3>1. s[m - 1] = Plus(t[m - 1], c) /\ v[m] = u[m]
      BY <1>0, <2>1, <2>5
    <3>2. Plus(t[m], c) \in Counts
      BY <2>2, PlusFacts
    <3>3. ASSUME NEW k \in Kinds, NEW i \in Ids PROVE s[m][k][i] = Plus(t[m], c)[k][i]
      <4>1. /\ s[m][k][i] = v[m][k][i] + s[m - 1][k][i]
            /\ t[m][k][i] = u[m][k][i] + t[m - 1][k][i]
            /\ s[m - 1][k][i] = t[m - 1][k][i] + c[k][i]
            /\ Plus(t[m], c)[k][i] = t[m][k][i] + c[k][i]
        BY <2>1, <2>2, <3>1, PlusFacts
      <4>2. u[m][k][i] \in Nat /\ c[k][i] \in Nat /\ t[m - 1][k][i] \in Nat
        BY <2>2 DEF Counts
      <4> QED
        BY <3>1, <4>1, <4>2
    <3>4. s[m] = Plus(t[m], c)
      BY <2>2, <3>2, <3>3, SameCounts
    <3> QED
      BY <1>0, <2>1, <2>5, <3>4
  <2> QED
    BY <1>0, <2>1, <2>3, <2>4, <2>5
<1> HIDE DEF S
<1>4. \A m \in 0 .. MaxPuts : m \in S
  BY <1>0, <1>2, <1>3, AllNumbers
<1> QED
  BY <1>0, <1>4 DEF S

-----------------------------------------------------------------------------
\* Puts under way have numbers of their own.
OwnNumber == \A p, q \in sent : p.number = q.number => p = q

CountInv == TypeOK /\ OwnNumber /\ Accounted

\* The counters of the puts under way, by their number.
AllUnder == [n \in 1 .. MaxPuts |-> Under(n)]

\* Sending adds up the counters of the puts under way.
SendingSums == AllUnder \in PutCounts /\ Sums(Sending, AllUnder)

\* So it does in every state of the right type.
LEMMA SendingFacts == TypeOK => SendingSums
<1> SUFFICES ASSUME TypeOK PROVE SendingSums
  OBVIOUS
<1>1. \A n \in 1 .. MaxPuts : Under(n) \in Counts
  <2> TAKE n \in 1 .. MaxPuts
  <2>1. \A p \in sent : p.counts \in Counts
    BY DEF TypeOK
  <2>2. Zero \in Counts
    BY DEF Zero, Counts
  <2> QED
    BY <2>1, <2>2 DEF Under
<1>2. AllUnder \in PutCounts
  BY <1>1 DEF AllUnder, PutCounts
<1>3. PICK t : Sums(t, AllUnder)
  BY <1>2, SumExists
<1>4. MaxPuts \in Nat
  BY PerfAssumption
<1>5. \A f : Sums(f, AllUnder)
               <=> f = [n \in 0 .. MaxPuts |-> IF n = 0 THEN Zero ELSE Plus(Under(n), f[n - 1])]
  <2>1. \A n \in 0 .. MaxPuts : n # 0 => AllUnder[n] = Under(n)
    BY <1>4 DEF AllUnder
  <2> QED
    BY <2>1 DEF Sums
<1>6. Sums(Sending, AllUnder)
  BY <1>3, <1>5 DEF Sending
<1> QED
  BY <1>2, <1>6 DEF SendingSums

\* The same of the next state.
LEMMA SendingFactsNext == TypeOK' => SendingSums'
  BY SendingFacts, PTL

\* The counters of some ids.
LEMMA OfFacts ==
  ASSUME stored \in Counts, NEW those
  PROVE  /\ Of(those) \in Counts
         /\ \A k \in Kinds, i \in Ids :
              Of(those)[k][i] = IF i \in those THEN stored[k][i] ELSE 0
  BY DEF Of, Counts

\* Every step keeps the types.
LEMMA TypeStep == ASSUME TypeOK, [Next]_vars PROVE TypeOK'
<1>0. /\ slot \in [Slots -> Ids \cup {NoId}] /\ filled \in BOOLEAN
      /\ isolate \in [Slots -> Isolates \cup {NoId}]
      /\ stored \in Counts /\ noc \in Counts /\ lost \in Counts /\ done \in Counts
      /\ dropped \in Counts
      /\ MaxEvents \in Nat /\ MaxPuts \in Nat /\ events \in Nat /\ puts \in Nat
      /\ puts \in 0 .. MaxPuts
      /\ \A p \in sent : p.number \in 1 .. puts /\ p.counts \in Counts
  BY PerfAssumption DEF TypeOK
<1>1. ASSUME NEW i \in Ids, NEW n \in Isolates, Isolate(i, n)
      PROVE  /\ slot' \in [Slots -> Ids \cup {NoId}] /\ filled' \in BOOLEAN
             /\ isolate' \in [Slots -> Isolates \cup {NoId}]
  BY <1>0, <1>1 DEF Isolate, Note, Free, slots
<1>2. ASSUME NEW k \in Kinds, NEW i \in Ids, Count(k, i)
      PROVE  stored' \in Counts /\ done' \in Counts /\ events' \in 0 .. MaxEvents
  BY <1>0, <1>2 DEF Count, Counts
<1>3. "acc" \in Kinds /\ "action" \in Kinds /\ "req" \in Kinds
  BY DEF Kinds
<1>4. ASSUME NEW i \in Ids, NEW n \in Isolates, Acc(i, n) PROVE TypeOK'
  <2>1. /\ slot' \in [Slots -> Ids \cup {NoId}] /\ filled' \in BOOLEAN
        /\ isolate' \in [Slots -> Isolates \cup {NoId}]
    BY <1>0, <1>1, <1>4 DEF Acc, slots
  <2> QED
    BY <1>0, <1>2, <1>3, <1>4, <2>1 DEF Acc, remote, TypeOK
<1>5. ASSUME NEW i \in Ids, NEW n \in Isolates, Action(i, n) PROVE TypeOK'
  <2>1. /\ slot' \in [Slots -> Ids \cup {NoId}] /\ filled' \in BOOLEAN
        /\ isolate' \in [Slots -> Isolates \cup {NoId}]
    BY <1>1, <1>5 DEF Action
  <2> QED
    BY <1>0, <1>2, <1>3, <1>5, <2>1 DEF Action, remote, TypeOK
<1>6. ASSUME NEW i \in Ids, NEW n \in Isolates, Record(i, n) PROVE TypeOK'
  <2>1. /\ slot' \in [Slots -> Ids \cup {NoId}] /\ filled' \in BOOLEAN
        /\ isolate' \in [Slots -> Isolates \cup {NoId}]
    BY <1>1, <1>6 DEF Record
  <2> QED
    BY <1>6, <2>1 DEF Record, remote, TypeOK
<1>7. ASSUME NEW i \in Ids, NEW n \in Isolates, NEW key \in Keys, Begin(i, n, key)
      PROVE  TypeOK'
  <2>1. /\ slot' \in [Slots -> Ids \cup {NoId}] /\ filled' \in BOOLEAN
        /\ isolate' \in [Slots -> Isolates \cup {NoId}]
    BY <1>1, <1>7 DEF Begin
  <2> QED
    BY <1>7, <2>1 DEF Begin, remote, TypeOK
<1>8. ASSUME NEW i \in Ids, NEW key \in Keys, End(i, key) PROVE TypeOK'
  BY <1>0, <1>2, <1>3, <1>8 DEF End, slots, remote, TypeOK
<1>9. CASE Put
  <2>1. /\ puts' = puts + 1 /\ puts' \in 0 .. MaxPuts
        /\ sent' = sent \cup {[number |-> puts', counts |-> Collected]}
        /\ stored' = Of(Ids \ Slotted) /\ dropped' = Plus(dropped, Of(Slotted \ Kept))
        /\ slot' = [s \in Slots |-> NoId] /\ isolate' = slot' /\ record' = record \ Slotted
        /\ UNCHANGED <<open, noc, lost, done, events, filled>>
    BY <1>0, <1>9 DEF Put
  <2>2. Collected \in Counts /\ stored' \in Counts /\ dropped' \in Counts
    BY <1>0, <2>1, OfFacts, PlusFacts DEF Collected
  <2>3. \A p \in sent' : p.number \in 1 .. puts' /\ p.counts \in Counts
    <3>1. \A p \in sent : p.number \in 1 .. puts'
      BY <1>0, <2>1
    <3>2. puts' \in 1 .. puts'
      BY <1>0, <2>1
    <3> QED
      BY <1>0, <2>1, <2>2, <3>1, <3>2
  <2>4. /\ slot' \in [Slots -> Ids \cup {NoId}] /\ record' \subseteq Ids
        /\ isolate' \in [Slots -> Isolates \cup {NoId}]
    BY <2>1 DEF TypeOK
  <2> QED
    BY <2>1, <2>2, <2>3, <2>4 DEF TypeOK
<1>10. ASSUME NEW p \in sent, PutReturns(p) PROVE TypeOK'
  <2>1. p.counts \in Counts
    BY <1>0
  <2>2. noc' \in Counts /\ lost' \in Counts
    BY <1>0, <1>10, <2>1, PlusFacts DEF PutReturns
  <2> QED
    BY <1>10, <2>2 DEF PutReturns, slots, TypeOK
<1>11. CASE UNCHANGED vars
  BY <1>11 DEF vars, slots, remote, TypeOK
<1> QED
  BY <1>4, <1>5, <1>6, <1>7, <1>8, <1>9, <1>10, <1>11, Pairs DEF Next

\* What Under looks up, now and in the next state.
LEMMA UnderFacts ==
  ASSUME NEW n
  PROVE  /\ (\A p \in sent : p.number # n) => Under(n) = Zero
         /\ \A p \in sent : p.number = n /\ OwnNumber => Under(n) = p.counts
         /\ (\A p \in sent' : p.number # n) => Under(n)' = Zero
         /\ \A p \in sent' : p.number = n /\ OwnNumber' => Under(n)' = p.counts
<1>1. ASSUME \A p \in sent : p.number # n PROVE Under(n) = Zero
  BY <1>1 DEF Under
<1>2. ASSUME NEW p \in sent, p.number = n, OwnNumber PROVE Under(n) = p.counts
  <2>1. {q \in sent : q.number = n} = {p}
    BY <1>2 DEF OwnNumber
  <2> QED
    BY <2>1 DEF Under
<1>3. ASSUME \A p \in sent' : p.number # n PROVE Under(n)' = Zero
  BY <1>3 DEF Under
<1>4. ASSUME NEW p \in sent', p.number = n, OwnNumber' PROVE Under(n)' = p.counts
  <2>1. {q \in sent' : q.number = n} = {p}
    BY <1>4 DEF OwnNumber
  <2> QED
    BY <2>1 DEF Under
<1> QED
  BY <1>1, <1>2, <1>3, <1>4

\* The counters of puts with other numbers stay.
LEMMA UnderOthers ==
  ASSUME NEW n, OwnNumber, OwnNumber', \A p : p.number = n => (p \in sent <=> p \in sent')
  PROVE  Under(n)' = Under(n)
<1>1. CASE \E p \in sent : p.number = n
  BY <1>1, UnderFacts
<1>2. CASE \A p \in sent : p.number # n
  BY <1>2, UnderFacts
<1> QED
  BY <1>1, <1>2

\* The sum grows by what the put of one number grows by.
LEMMA SendingGrows ==
  ASSUME SendingSums, SendingSums', NEW n \in 1 .. MaxPuts, NEW c \in Counts,
         \A m \in 1 .. MaxPuts : m # n => Under(m)' = Under(m)
  PROVE  /\ Under(n)' = Plus(Under(n), c)
              => Sending[MaxPuts]' = Plus(Sending[MaxPuts], c)
         /\ Under(n) = Plus(Under(n)', c)
              => Sending[MaxPuts] = Plus(Sending[MaxPuts]', c)
<1>1. PICK u, v, t, s : u = AllUnder /\ v = AllUnder' /\ t = Sending /\ s = Sending'
  OBVIOUS
<1>2. /\ u \in PutCounts /\ Sums(t, u)
      /\ v \in PutCounts /\ Sums(s, v)
  BY <1>1 DEF SendingSums, Sums
<1>3. \A m \in 1 .. MaxPuts : u[m] = Under(m) /\ v[m] = Under(m)'
  BY <1>1 DEF AllUnder
<1>4. Sending[MaxPuts] = t[MaxPuts] /\ Sending[MaxPuts]' = s[MaxPuts]
  BY <1>1
<1>5. \A m \in 1 .. MaxPuts : m # n => u[m] = v[m]
  BY <1>3
<1>6. ASSUME v[n] = Plus(u[n], c) PROVE s[MaxPuts] = Plus(t[MaxPuts], c)
  BY <1>2, <1>5, <1>6, SumChange
<1>7. ASSUME u[n] = Plus(v[n], c) PROVE t[MaxPuts] = Plus(s[MaxPuts], c)
  BY <1>2, <1>5, <1>7, SumChange
<1> QED
  BY <1>3, <1>4, <1>6, <1>7

\* The sum of Accounted, counter by counter.
LEMMA FiveCounts ==
  ASSUME NEW a \in Counts, NEW b \in Counts, NEW c \in Counts, NEW d \in Counts,
         NEW e \in Counts, NEW k \in Kinds, NEW i \in Ids
  PROVE  /\ Plus(Plus(a, b), Plus(c, Plus(d, e))) \in Counts
         /\ Plus(Plus(a, b), Plus(c, Plus(d, e)))[k][i]
              = (a[k][i] + b[k][i]) + (c[k][i] + (d[k][i] + e[k][i]))
<1>1. Plus(a, b) \in Counts /\ Plus(d, e) \in Counts
  BY PlusFacts
<1>2. Plus(c, Plus(d, e)) \in Counts
  BY <1>1, PlusFacts
<1>3. /\ Plus(Plus(a, b), Plus(c, Plus(d, e)))[k][i]
           = Plus(a, b)[k][i] + Plus(c, Plus(d, e))[k][i]
      /\ Plus(a, b)[k][i] = a[k][i] + b[k][i]
      /\ Plus(c, Plus(d, e))[k][i] = c[k][i] + Plus(d, e)[k][i]
      /\ Plus(d, e)[k][i] = d[k][i] + e[k][i]
  BY <1>1, <1>2, PlusFacts
<1> QED
  BY <1>1, <1>2, <1>3, PlusFacts

\* What Accounted says of a counter now.
LEMMA AccountedNow ==
  ASSUME CountInv, NEW k \in Kinds, NEW i \in Ids
  PROVE  /\ Sending[MaxPuts] \in Counts
         /\ done[k][i] = (stored[k][i] + Sending[MaxPuts][k][i])
                           + (noc[k][i] + (lost[k][i] + dropped[k][i]))
         /\ {done[k][i], stored[k][i], Sending[MaxPuts][k][i], noc[k][i], lost[k][i],
             dropped[k][i]} \subseteq Nat
<1>1. /\ stored \in Counts /\ noc \in Counts /\ lost \in Counts /\ done \in Counts
      /\ dropped \in Counts
  BY DEF CountInv, TypeOK
<1>2. Sending[MaxPuts] \in Counts
  BY PerfAssumption, SendingFacts, SumFacts DEF CountInv, SendingSums
<1>3. PICK a, b, c, d, e \in Counts :
        a = stored /\ b = Sending[MaxPuts] /\ c = noc /\ d = lost /\ e = dropped
  BY <1>1, <1>2
<1>4. Plus(Plus(a, b), Plus(c, Plus(d, e)))[k][i]
        = (a[k][i] + b[k][i]) + (c[k][i] + (d[k][i] + e[k][i]))
  BY FiveCounts
<1>5. done = Plus(Plus(stored, Sending[MaxPuts]), Plus(noc, Plus(lost, dropped)))
  BY DEF CountInv, Accounted
<1> QED
  BY <1>1, <1>2, <1>3, <1>4, <1>5 DEF Counts

\* What is to be shown of each counter for Accounted to hold next.
LEMMA AccountedNext ==
  ASSUME TypeOK',
         \A k \in Kinds, i \in Ids :
           done'[k][i] = (stored'[k][i] + Sending[MaxPuts]'[k][i])
                          + (noc'[k][i] + (lost'[k][i] + dropped'[k][i]))
  PROVE  Accounted'
<1>1. /\ stored' \in Counts /\ noc' \in Counts /\ lost' \in Counts /\ done' \in Counts
      /\ dropped' \in Counts
  BY DEF TypeOK
<1>2. SendingSums' /\ MaxPuts \in Nat
  BY SendingFactsNext, PerfAssumption
<1>3. PICK u, t : u \in PutCounts /\ Sums(t, u) /\ t = Sending'
  BY <1>2 DEF SendingSums, Sums
<1>4. t[MaxPuts] \in Counts
  BY <1>2, <1>3, SumFacts
<1>5. PICK a, b, c, d, e \in Counts :
        a = stored' /\ b = Sending[MaxPuts]' /\ c = noc' /\ d = lost' /\ e = dropped'
  BY <1>1, <1>3, <1>4
<1>6. Plus(Plus(a, b), Plus(c, Plus(d, e))) \in Counts
  BY PlusFacts
<1>7. ASSUME NEW k \in Kinds, NEW i \in Ids
      PROVE  done'[k][i] = Plus(Plus(a, b), Plus(c, Plus(d, e)))[k][i]
  <2>1. Plus(Plus(a, b), Plus(c, Plus(d, e)))[k][i]
          = (a[k][i] + b[k][i]) + (c[k][i] + (d[k][i] + e[k][i]))
    BY FiveCounts
  <2> QED
    BY <1>5, <2>1
<1>8. done' = Plus(Plus(a, b), Plus(c, Plus(d, e)))
  BY <1>1, <1>6, <1>7, SameCounts
<1> QED
  BY <1>5, <1>8 DEF Accounted

\* put_to_noc puts the counters that it takes out of localStorage under way.
LEMMA PutConserves == ASSUME CountInv, TypeOK', Put PROVE OwnNumber' /\ Accounted'
<1>0. /\ stored \in Counts /\ noc \in Counts /\ lost \in Counts /\ done \in Counts
      /\ MaxPuts \in Nat /\ puts \in Nat /\ puts + 1 \in 1 .. MaxPuts /\ stored' \in Counts
      /\ \A p \in sent : p.number \in 1 .. puts
      /\ SendingSums /\ SendingSums'
  BY PerfAssumption, SendingFacts, SendingFactsNext DEF CountInv, TypeOK, Put
<1>1. PICK n \in 1 .. MaxPuts : n = puts + 1
  BY <1>0
<1>2. PICK p : p = [number |-> n, counts |-> Collected]
  OBVIOUS
<1>3. /\ sent' = sent \cup {p} /\ p.number = n /\ p.counts = Collected
      /\ stored' = Of(Ids \ Slotted) /\ dropped' = Plus(dropped, Of(Slotted \ Kept))
      /\ UNCHANGED <<noc, lost, done>>
  BY <1>1, <1>2 DEF Put
<1>4. Collected \in Counts
  BY <1>0, OfFacts DEF Collected
<1>5. \A q \in sent : q.number # n
  BY <1>0, <1>1
<1>6. OwnNumber'
  BY <1>3, <1>5 DEF CountInv, OwnNumber
<1>7. Under(n) = Zero /\ Under(n)' = Collected
  BY <1>3, <1>5, <1>6, UnderFacts
<1>8. \A m \in 1 .. MaxPuts : m # n => Under(m)' = Under(m)
  BY <1>3, <1>6, UnderOthers DEF CountInv
<1>9. Under(n)' = Plus(Under(n), Collected)
  BY <1>4, <1>7, ZeroPlus
<1>10. Sending[MaxPuts]' = Plus(Sending[MaxPuts], Collected)
  BY <1>0, <1>4, <1>8, <1>9, SendingGrows
<1>11. ASSUME NEW k \in Kinds, NEW i \in Ids
       PROVE  done'[k][i]
                = (stored'[k][i] + Sending[MaxPuts]'[k][i]) + (noc'[k][i] + (lost'[k][i] + dropped'[k][i]))
  <2>1. /\ Sending[MaxPuts] \in Counts
        /\ done[k][i] = (stored[k][i] + Sending[MaxPuts][k][i])
                          + (noc[k][i] + (lost[k][i] + dropped[k][i]))
        /\ {done[k][i], stored[k][i], Sending[MaxPuts][k][i], noc[k][i], lost[k][i],
            dropped[k][i]} \subseteq Nat
    BY AccountedNow
  <2>2. Sending[MaxPuts]'[k][i] = Sending[MaxPuts][k][i] + Collected[k][i]
    BY <1>4, <1>10, <2>1, PlusFacts
  <2>3. /\ stored'[k][i] = IF i \in Ids \ Slotted THEN stored[k][i] ELSE 0
        /\ Collected[k][i] = IF i \in Kept THEN stored[k][i] ELSE 0
        /\ Of(Slotted \ Kept)[k][i] = IF i \in Slotted \ Kept THEN stored[k][i] ELSE 0
    BY <1>0, <1>3, OfFacts DEF Collected
  <2>4. dropped'[k][i] = dropped[k][i] + Of(Slotted \ Kept)[k][i] /\ Kept \subseteq Slotted
    BY <1>0, <1>3, OfFacts, PlusFacts DEF CountInv, TypeOK, Kept, Slotted
  <2> QED
    BY <1>3, <2>1, <2>2, <2>3, <2>4
<1>12. Accounted'
  BY <1>11, AccountedNext
<1> QED
  BY <1>6, <1>12

\* A put that returns leaves those under way for the store, or is lost.
LEMMA ReturnConserves ==
  ASSUME CountInv, TypeOK', NEW p \in sent, PutReturns(p)
  PROVE  OwnNumber' /\ Accounted'
<1>0. /\ noc \in Counts /\ lost \in Counts /\ p.counts \in Counts
      /\ p.number \in 1 .. MaxPuts
      /\ SendingSums /\ SendingSums'
  <2>1. puts \in 0 .. MaxPuts /\ p.number \in 1 .. puts /\ MaxPuts \in Nat
    BY PerfAssumption DEF CountInv, TypeOK
  <2>2. p.number \in 1 .. MaxPuts
    BY <2>1
  <2> QED
    BY <2>2, SendingFacts, SendingFactsNext DEF CountInv, TypeOK
<1>1. /\ sent' = sent \ {p} /\ UNCHANGED <<stored, dropped, done>>
      /\ \/ noc' = Plus(noc, p.counts) /\ UNCHANGED lost
         \/ lost' = Plus(lost, p.counts) /\ UNCHANGED noc
  BY DEF PutReturns
<1>2. OwnNumber /\ OwnNumber'
  BY <1>1 DEF CountInv, OwnNumber
<1>3. PICK n \in 1 .. MaxPuts : n = p.number
  BY <1>0
<1>4. PICK c \in Counts : c = p.counts
  BY <1>0
<1>5. \A q \in sent' : q.number # n
  BY <1>1, <1>2, <1>3 DEF OwnNumber
<1>6. Under(n) = c /\ Under(n)' = Zero
  BY <1>2, <1>3, <1>4, <1>5, UnderFacts
<1>7. \A m \in 1 .. MaxPuts : m # n => Under(m)' = Under(m)
  BY <1>1, <1>2, <1>3, UnderOthers
<1>8. Under(n) = Plus(Under(n)', c)
  BY <1>6, ZeroPlus
<1>9. Sending[MaxPuts] = Plus(Sending[MaxPuts]', c)
  BY <1>0, <1>7, <1>8, SendingGrows
<1>10. Sending[MaxPuts]' \in Counts
  BY <1>0, PerfAssumption, SumFacts DEF SendingSums
<1>11. ASSUME NEW k \in Kinds, NEW i \in Ids
       PROVE  done'[k][i]
                = (stored'[k][i] + Sending[MaxPuts]'[k][i]) + (noc'[k][i] + (lost'[k][i] + dropped'[k][i]))
  <2>1. /\ done[k][i] = (stored[k][i] + Sending[MaxPuts][k][i])
                          + (noc[k][i] + (lost[k][i] + dropped[k][i]))
        /\ {done[k][i], stored[k][i], Sending[MaxPuts][k][i], noc[k][i], lost[k][i],
            dropped[k][i]} \subseteq Nat
    BY AccountedNow
  <2>2. Sending[MaxPuts][k][i] = Sending[MaxPuts]'[k][i] + c[k][i]
    BY <1>9, <1>10, PlusFacts
  <2>3. Sending[MaxPuts]'[k][i] \in Nat /\ c[k][i] \in Nat
    BY <1>10 DEF Counts
  <2>4. \/ noc'[k][i] = noc[k][i] + c[k][i] /\ lost'[k][i] = lost[k][i]
        \/ lost'[k][i] = lost[k][i] + c[k][i] /\ noc'[k][i] = noc[k][i]
    BY <1>0, <1>1, <1>4, PlusFacts
  <2> QED
    BY <1>1, <2>1, <2>2, <2>3, <2>4
<1>12. Accounted'
  BY <1>11, AccountedNext
<1> QED
  BY <1>2, <1>12

\* An event is counted in localStorage.
LEMMA CountConserves ==
  ASSUME CountInv, TypeOK', UNCHANGED <<sent, noc, lost, dropped>>,
         \/ UNCHANGED <<stored, done>>
         \/ \E k \in Kinds, i \in Ids : Count(k, i)
  PROVE  OwnNumber' /\ Accounted'
<1>1. OwnNumber'
  BY DEF CountInv, OwnNumber
<1>2. Sending' = Sending
  BY DEF Sending, Under
<1>3. ASSUME NEW k \in Kinds, NEW i \in Ids
      PROVE  done'[k][i]
               = (stored'[k][i] + Sending[MaxPuts]'[k][i]) + (noc'[k][i] + (lost'[k][i] + dropped'[k][i]))
  <2>1. /\ done[k][i] = (stored[k][i] + Sending[MaxPuts][k][i])
                          + (noc[k][i] + (lost[k][i] + dropped[k][i]))
        /\ {done[k][i], stored[k][i], Sending[MaxPuts][k][i], noc[k][i], lost[k][i],
            dropped[k][i]} \subseteq Nat
    BY AccountedNow
  <2>2. \/ stored'[k][i] = stored[k][i] /\ done'[k][i] = done[k][i]
        \/ stored'[k][i] = stored[k][i] + 1 /\ done'[k][i] = done[k][i] + 1
    <3>1. stored \in Counts /\ done \in Counts
      BY DEF CountInv, TypeOK
    <3>2. ASSUME NEW l \in Kinds, NEW j \in Ids, Count(l, j)
          PROVE  \/ stored'[k][i] = stored[k][i] /\ done'[k][i] = done[k][i]
                 \/ stored'[k][i] = stored[k][i] + 1 /\ done'[k][i] = done[k][i] + 1
      <4>1. CASE l = k /\ j = i
        BY <3>1, <3>2, <4>1 DEF Count, Counts
      <4>2. CASE ~(l = k /\ j = i)
        BY <3>1, <3>2, <4>2 DEF Count, Counts
      <4> QED
        BY <4>1, <4>2
    <3> QED
      BY <3>2
  <2> QED
    BY <1>2, <2>1, <2>2
<1> QED
  BY <1>1, <1>3, AccountedNext

\* Every step keeps the counters together.
LEMMA CountStep == ASSUME CountInv, [Next]_vars PROVE CountInv'
<1>1. TypeOK'
  BY TypeStep DEF CountInv
<1>2. "acc" \in Kinds /\ "action" \in Kinds /\ "req" \in Kinds
  BY DEF Kinds
<1>3. ASSUME \/ \E i \in Ids, n \in Isolates : Acc(i, n) \/ Action(i, n) \/ Record(i, n)
             \/ \E i \in Ids, n \in Isolates, key \in Keys : Begin(i, n, key)
             \/ \E i \in Ids, key \in Keys : End(i, key)
             \/ UNCHANGED vars
      PROVE  OwnNumber' /\ Accounted'
  <2>1. /\ UNCHANGED <<sent, noc, lost, dropped>>
        /\ \/ UNCHANGED <<stored, done>>
           \/ \E k \in Kinds, i \in Ids : Count(k, i)
    BY <1>2, <1>3 DEF Acc, Action, Record, Begin, End, remote, vars
  <2> QED
    BY <1>1, <2>1, CountConserves
<1>4. CASE Put
  BY <1>1, <1>4, PutConserves DEF CountInv
<1>5. ASSUME NEW p \in sent, PutReturns(p) PROVE OwnNumber' /\ Accounted'
  BY <1>1, <1>5, ReturnConserves
<1> QED
  BY <1>1, <1>3, <1>4, <1>5, Pairs DEF Next, CountInv

\* Nothing is counted or under way at the start.
LEMMA CountInit == Init => CountInv
<1> SUFFICES ASSUME Init PROVE CountInv
  OBVIOUS
<1>1. Zero \in Counts
  BY DEF Zero, Counts
<1>2. TypeOK
  <2>1. 0 \in 0 .. MaxEvents /\ 0 \in 0 .. MaxPuts
    BY PerfAssumption
  <2>2. slot \in [Slots -> Ids \cup {NoId}]
    BY DEF Init
  <2> QED
    BY <1>1, <2>1, <2>2 DEF Init, TypeOK
<1>3. OwnNumber
  BY DEF Init, OwnNumber
<1>4. \A n \in 1 .. MaxPuts : AllUnder[n] = Zero
  BY DEF AllUnder, Under, Init
<1>5. /\ MaxPuts \in Nat /\ Sending \in [0 .. MaxPuts -> Counts] /\ Sending[0] = Zero
      /\ \A n \in 1 .. MaxPuts : Sending[n] = Plus(AllUnder[n], Sending[n - 1])
  BY <1>2, PerfAssumption, SendingFacts, SumFacts DEF SendingSums
<1>6. Plus(Zero, Zero) = Zero
  BY <1>1, ZeroPlus
<1>7. Sending[MaxPuts] = Zero
  <2> DEFINE S == {m \in 0 .. MaxPuts : Sending[m] = Zero}
  <2>1. 0 \in S
    BY <1>5
  <2>2. ASSUME NEW m \in 1 .. MaxPuts, m - 1 \in S PROVE m \in S
    BY <1>4, <1>5, <1>6, <2>2
  <2> HIDE DEF S
  <2>3. \A m \in 0 .. MaxPuts : m \in S
    BY <1>5, <2>1, <2>2, AllNumbers
  <2> QED
    BY <1>5, <2>3 DEF S
<1>8. Accounted
  BY <1>6, <1>7 DEF Init, Accounted
<1> QED
  BY <1>2, <1>3, <1>8 DEF CountInv

\* The types of the counters, their sum, and puts of distinct numbers.
LEMMA CountInvAlways == Spec => []CountInv
  BY CountInit, CountStep, PTL DEF Spec

-----------------------------------------------------------------------------
\* An id that a put finds and does not send shares an isolate.
LEMMA NotKept ==
  ASSUME SlotInv, NEW i \in Slotted \ Kept
  PROVE  \E j \in Ids \ {i}, n \in Isolates : {<<i, n>>, <<j, n>>} \subseteq Measured
<1>1. PICK s \in Slots : slot[s] = i /\ i # NoId
  BY DEF Slotted
<1>2. PICK t \in Slots : s < t /\ slot[t] # NoId /\ isolate[t] = isolate[s]
  BY <1>1 DEF Kept
<1>3. s # t
  BY <1>2, PerfAssumption
<1>4. slot[t] # i
  BY <1>1, <1>3 DEF SlotInv, OneSlot
<1>5. <<i, isolate[s]>> \in Measured /\ <<slot[t], isolate[s]>> \in Measured
  BY <1>1, <1>2 DEF SlotInv, SlotMeasured
<1>6. slot[t] \in Ids /\ isolate[s] \in Isolates
  BY <1>5, PerfAssumption
<1> QED
  BY <1>4, <1>5, <1>6

\* Every step keeps it that only such ids lose events on the way.
LEMMA DroppedStep ==
  ASSUME SlotInv, CountInv, DroppedShared, [Next]_vars
  PROVE  DroppedShared'
<1>1. CASE UNCHANGED dropped
  BY <1>1 DEF DroppedShared
<1>2. CASE Put
  <2> SUFFICES ASSUME NEW k \in Kinds, NEW i \in Ids, dropped'[k][i] > 0
               PROVE  \E j \in Ids \ {i}, n \in Isolates :
                        {<<i, n>>, <<j, n>>} \subseteq Measured
    BY DEF DroppedShared
  <2>1. stored \in Counts /\ dropped \in Counts /\ dropped[k][i] \in Nat
    BY DEF CountInv, TypeOK, Counts
  <2>2. /\ dropped' = Plus(dropped, Of(Slotted \ Kept)) /\ Of(Slotted \ Kept) \in Counts
        /\ Of(Slotted \ Kept)[k][i] = IF i \in Slotted \ Kept THEN stored[k][i] ELSE 0
    BY <1>2, <2>1, OfFacts DEF Put
  <2>3. dropped'[k][i] = dropped[k][i] + Of(Slotted \ Kept)[k][i]
    BY <2>1, <2>2, PlusFacts
  <2>4. CASE i \in Slotted \ Kept
    BY <2>4, NotKept
  <2>5. CASE i \notin Slotted \ Kept
    <3>1. dropped[k][i] > 0
      BY <2>1, <2>2, <2>3, <2>5
    <3> QED
      BY <3>1 DEF DroppedShared
  <2> QED
    BY <2>4, <2>5
<1> QED
  BY <1>1, <1>2 DEF Next, Acc, Action, Record, Begin, End, PutReturns, remote, vars

\* No event is counted twice or vanishes, however many puts are under way,
\* return or fail while more is counted; and only an id that shares an isolate
\* with another loses events to a put that does not send them (put_to_noc keys
\* what it sends by the isolate and empties every id).
THEOREM ConservedAlways == Spec => []Conserved
<1>1. Init => DroppedShared
  BY DEF Init, Zero, DroppedShared
<1>2. SlotInv /\ CountInv /\ DroppedShared /\ [Next]_vars => DroppedShared'
  BY DroppedStep
<1>3. Spec => []DroppedShared
  BY <1>1, <1>2, SlotInvAlways, CountInvAlways, PTL DEF Spec
<1>4. CountInv /\ DroppedShared => Conserved
  BY DEF CountInv, Conserved
<1> QED
  BY <1>3, <1>4, CountInvAlways, PTL

\* The variables hold values of their types: in particular, put_to_noc never
\* takes more out of localStorage than is there.
THEOREM PerfTypeCorrect == Spec => []TypeOK
<1>1. CountInv => TypeOK
  BY DEF CountInv
<1> QED
  BY <1>1, CountInvAlways, PTL
=============================================================================
