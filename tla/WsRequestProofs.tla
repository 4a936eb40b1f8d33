--------------------------- MODULE WsRequestProofs ---------------------------
(***************************************************************************)
(* Theorems about WsRequest for every set of calls and every SeqLimit.     *)
(***************************************************************************)
EXTENDS WsRequest, TLAPS

\* Every number handed out indexes the table.
LEMMA NextSeqInRange ==
  ASSUME next_seq \in Seqs, NEW c \in Callers, NewRequest(c)
  PROVE  next_seq' \in Seqs
BY SeqLimitAssumption DEF Seqs, NewRequest

\* Each step keeps every variable in its type.
LEMMA TypeStep == TypeOK /\ [Next]_vars => TypeOK'
<1> SUFFICES ASSUME TypeOK, [Next]_vars PROVE TypeOK'
  OBVIOUS
<1>1. ASSUME NEW c \in Callers, PostReq(c) PROVE TypeOK'
  <2>1. next_seq' \in Seqs
    BY <1>1, NextSeqInRange DEF TypeOK, PostReq
  <2>2. [seq |-> next_seq, of |-> c] \in Message
    BY DEF TypeOK, Message
  <2> QED
    BY <1>1, <2>1, <2>2 DEF TypeOK, PostReq, NewRequest, link, tick
<1>2. ASSUME NEW c \in Callers, PostDiscarded(c) PROVE TypeOK'
  <2>1. next_seq' \in Seqs
    BY <1>2, NextSeqInRange DEF TypeOK, PostDiscarded
  <2> QED
    BY <1>2, <2>1 DEF TypeOK, PostDiscarded, NewRequest, link, tick
<1>3. ASSUME NEW c \in Callers, PostThrows(c) PROVE TypeOK'
  <2>1. next_seq' \in Seqs
    BY <1>3, NextSeqInRange DEF TypeOK, PostThrows
  <2> QED
    BY <1>3, <2>1 DEF TypeOK, PostThrows, NewRequest, link, tick
<1>4. ASSUME NEW r \in replies, OnResp(r) PROVE TypeOK'
  <2>1. r \in Reply
    BY DEF TypeOK
  <2>2. /\ r.seq \in Seqs
        /\ r.of \in Callers
        /\ r.kind \in {"ok", "err"}
    BY <1>4, <2>1, AnswerAssumption DEF Reply, OnResp
  <2>3. list[r.seq] \in Callers
    BY <1>4, <2>2 DEF TypeOK, OnResp
  <2>4. Own(r.kind, r.of) \in Resp
    BY <2>2 DEF Own, Resp, Kinds
  <2>5. resp' \in [Callers -> Resp]
    BY <1>4, <2>4 DEF TypeOK, OnResp
  <2> QED
    BY <1>4, <2>2, <2>3, <2>5 DEF TypeOK, OnResp, link, tick
<1>5. ASSUME NEW r \in replies, OnGarbledResp(r) PROVE TypeOK'
  <2>1. r \in Reply
    BY DEF TypeOK
  <2>2. r.seq \in Seqs
    BY <2>1 DEF Reply
  <2>3. list[r.seq] \in Callers
    BY <1>5, <2>2 DEF TypeOK, OnGarbledResp
  <2> QED
    BY <1>5, <2>2, <2>3 DEF TypeOK, OnGarbledResp, calls, link, tick
<1>6. ASSUME NEW r \in replies, OnLateResp(r) PROVE TypeOK'
  BY <1>6 DEF TypeOK, OnLateResp, reqs, calls, link, tick
<1>7. ASSUME NEW m \in wire, NEW k \in AnswerKinds, RouterAnswer(m, k) PROVE TypeOK'
  <2>1. m \in Message
    BY DEF TypeOK
  <2>2. [seq |-> m.seq, of |-> m.of, kind |-> k] \in Reply
    BY <2>1 DEF Message, Reply
  <2> QED
    BY <1>7, <2>2 DEF TypeOK, RouterAnswer, reqs, calls, link, tick
<1>8. CASE OnClose
  <2>1. Listed \subseteq Callers
    BY DEF TypeOK, Listed
  <2>2. Code("aborted") \in Resp
    BY DEF Code, Resp, Kinds
  <2>3. resp' \in [Callers -> Resp]
    BY <1>8, <2>2 DEF TypeOK, OnClose, AbortListed
  <2> QED
    BY <1>8, <2>1, <2>3 DEF TypeOK, OnClose, AbortListed
<1>9. CASE MonitorTick
  <2>1. Listed \cap aged \subseteq Callers
    BY DEF TypeOK
  <2>2. Code("timeout") \in Resp
    BY DEF Code, Resp, Kinds
  <2>3. resp' \in [Callers -> Resp]
    BY <1>9, <2>2 DEF TypeOK, MonitorTick
  <2>4. list' \in [Seqs -> Callers \cup {NoItem}]
    BY <1>9 DEF TypeOK, MonitorTick
  <2> QED
    BY <1>9, <2>1, <2>3, <2>4 DEF TypeOK, MonitorTick, link
<1>10. ASSUME NEW c \in Callers, Return(c) PROVE TypeOK'
  BY <1>10 DEF TypeOK, Return, reqs, link, tick
<1>11. ASSUME NEW c \in Callers, GrowOld(c) PROVE TypeOK'
  BY <1>11 DEF TypeOK, GrowOld, reqs, calls, link, tick
<1>12. CASE BindSession
  BY <1>12 DEF TypeOK, BindSession, reqs, calls
<1>13. CASE SetOnClose
  BY <1>13 DEF TypeOK, SetOnClose, reqs, calls, tick
<1>14. CASE StartClose
  BY <1>14 DEF TypeOK, StartClose, reqs, calls, tick
<1>15. CASE MissedClose
  BY <1>15 DEF TypeOK, MissedClose, reqs, calls, tick
<1>16. CASE UNCHANGED vars
  BY <1>16 DEF TypeOK, vars
<1> QED
  BY <1>1, <1>2, <1>3, <1>4, <1>5, <1>6, <1>7, <1>8, <1>9, <1>10, <1>11,
     <1>12, <1>13, <1>14, <1>15, <1>16 DEF Next, Post, Receive

\* A new manager has an empty table and next_seq 1.
LEMMA TypeInit == Init => TypeOK
<1>1. 1 \in Seqs
  BY SeqLimitAssumption DEF Seqs
<1>2. Code("none") \in Resp
  BY DEF Code, Resp, Kinds
<1> SUFFICES ASSUME Init PROVE TypeOK
  OBVIOUS
<1>3. resp \in [Callers -> Resp]
  BY <1>2 DEF Init
<1>4. /\ list \in [Seqs -> Callers \cup {NoItem}]
      /\ pc \in [Callers -> {"idle", "waiting", "done", "threw"}]
  BY DEF Init
<1>5. onclose \in BOOLEAN /\ is_monitor \in BOOLEAN /\ timer \in BOOLEAN
  BY DEF Init
<1> QED
  BY <1>1, <1>3, <1>4, <1>5 DEF Init, TypeOK

\* Type correctness: in particular next_seq always indexes the table, so the
\* wrap at SeqLimit never lets a number escape the range of the packet header.
THEOREM TypeCorrect == Spec => []TypeOK
<1>1. Init => TypeOK
  BY TypeInit
<1>2. TypeOK /\ [Next]_vars => TypeOK'
  BY TypeStep
<1> QED
  BY <1>1, <1>2, PTL DEF Spec

-----------------------------------------------------------------------------
\* What the table, the results and the wakers say of each other.
Table ==
  /\ ListedUnanswered
  /\ OneSlot
  /\ IdleUntouched
  /\ WokenAnswered

\* No call is listed or woken in a new manager.
LEMMA TableInit == Init => Table
BY NoItemAssumption
   DEF Init, Table, ListedUnanswered, OneSlot, IdleUntouched, WokenAnswered, Listed

\* Steps that touch neither the table nor the calls.
LEMMA TableUnchanged == Table /\ UNCHANGED <<list, calls>> => Table'
BY DEF Table, ListedUnanswered, OneSlot, IdleUntouched, WokenAnswered, Listed, calls

\* A new request enters the table as a fresh, unanswered item.
LEMMA TableNewRequest ==
  ASSUME TypeOK, Table, NEW c \in Callers, pc[c] = "idle", NewRequest(c),
         NEW p \in {"waiting", "threw"}, pc' = [pc EXCEPT ![c] = p],
         UNCHANGED <<resp, woken>>
  PROVE  Table'
<1>1. next_seq \in Seqs /\ list' = [list EXCEPT ![next_seq] = c]
  BY DEF TypeOK, NewRequest
<1>2. c \notin Listed /\ c \notin woken /\ resp[c].kind = "none"
  BY DEF Table, IdleUntouched, Code
<1>3. \A s \in Seqs : list[s] # c
  BY <1>2, NoItemAssumption DEF Listed
<1>4. \A d \in Callers : d # c => pc'[d] = pc[d]
  BY DEF TypeOK
<1>5. pc'[c] = p
  BY DEF TypeOK
<1>6. \A s \in Seqs : list'[s] = IF s = next_seq THEN c ELSE list[s]
  BY <1>1 DEF TypeOK
<1>7. ListedUnanswered'
  <2> SUFFICES ASSUME NEW s \in Seqs, list'[s] # NoItem
               PROVE  /\ list'[s] \notin woken'
                      /\ resp'[list'[s]].kind = "none"
                      /\ pc'[list'[s]] \in {"waiting", "threw"}
    BY DEF ListedUnanswered
  <2>1. CASE s = next_seq
    BY <1>2, <1>5, <1>6, <2>1
  <2>2. CASE s # next_seq
    <3>1. list'[s] = list[s] /\ list[s] # c /\ list[s] \in Callers
      BY <1>3, <1>6, <2>2 DEF TypeOK
    <3> QED
      BY <1>4, <3>1 DEF Table, ListedUnanswered
  <2> QED
    BY <2>1, <2>2
<1>8. OneSlot'
  BY <1>3, <1>6 DEF Table, OneSlot
<1>9. IdleUntouched'
  <2> SUFFICES ASSUME NEW d \in Callers, pc'[d] = "idle"
               PROVE  resp'[d] = Code("none") /\ d \notin woken' /\ d \notin Listed'
    BY DEF IdleUntouched, Code
  <2>1. d # c /\ pc[d] = "idle"
    BY <1>4, <1>5
  <2>2. d \notin Listed
    BY <2>1 DEF Table, IdleUntouched
  <2>3. d \notin Listed'
    BY <1>6, <2>1, <2>2 DEF Listed
  <2> QED
    BY <2>1, <2>3 DEF Table, IdleUntouched
<1>10. WokenAnswered'
  BY DEF Table, WokenAnswered
<1> QED
  BY <1>7, <1>8, <1>9, <1>10 DEF Table

\* Completing a set of listed calls, all with a result, and unlisting them.
LEMMA TableComplete ==
  ASSUME TypeOK, Table, NEW S \in SUBSET Listed,
         list' = [s \in Seqs |-> IF list[s] \in S THEN NoItem ELSE list[s]],
         resp' \in [Callers -> Resp],
         \A c \in Callers : IF c \in S THEN resp'[c].kind # "none"
                                        ELSE resp'[c] = resp[c],
         woken' = woken \cup S,
         UNCHANGED pc
  PROVE  Table'
<1>1. \A s \in Seqs : list'[s] = IF list[s] \in S THEN NoItem ELSE list[s]
  OBVIOUS
<1>2. \A c \in S : c \in Callers /\ pc[c] # "idle"
  BY DEF TypeOK, Table, Listed, ListedUnanswered
<1>3. ListedUnanswered'
  <2> SUFFICES ASSUME NEW s \in Seqs, list'[s] # NoItem
               PROVE  /\ list'[s] \notin woken'
                      /\ resp'[list'[s]].kind = "none"
                      /\ pc'[list'[s]] \in {"waiting", "threw"}
    BY DEF ListedUnanswered
  <2>1. list'[s] = list[s] /\ list[s] \notin S /\ list[s] # NoItem /\ list[s] \in Callers
    BY <1>1 DEF TypeOK
  <2> QED
    BY <2>1 DEF Table, ListedUnanswered
<1>4. OneSlot'
  BY <1>1 DEF Table, OneSlot
<1>5. IdleUntouched'
  <2> SUFFICES ASSUME NEW d \in Callers, pc[d] = "idle"
               PROVE  resp'[d] = Code("none") /\ d \notin woken' /\ d \notin Listed'
    BY DEF IdleUntouched, Code
  <2>1. d \notin S
    BY <1>2
  <2>2. d \notin Listed'
    BY <1>1 DEF Listed, Table, IdleUntouched
  <2> QED
    BY <2>1, <2>2 DEF Table, IdleUntouched
<1>6. WokenAnswered'
  BY DEF Table, WokenAnswered, TypeOK, Listed
<1> QED
  BY <1>3, <1>4, <1>5, <1>6 DEF Table

\* Taking the call listed under a number out of the table.
LEMMA SlotRemoved ==
  ASSUME TypeOK, OneSlot, NEW t \in Seqs, list[t] # NoItem,
         list' = [list EXCEPT ![t] = NoItem]
  PROVE  /\ {list[t]} \in SUBSET Listed
         /\ list' = [s \in Seqs |-> IF list[s] \in {list[t]} THEN NoItem ELSE list[s]]
<1>1. list[t] \in Listed
  BY DEF Listed
<1>2. \A s \in Seqs : list[s] = list[t] <=> s = t
  BY DEF OneSlot
<1> QED
  BY <1>1, <1>2 DEF TypeOK

\* new_request lists one call more, and only one that was not made before;
\* on_resp, the monitor and unbind_session take an item out before they wake it.
LEMMA TableStep == TypeOK /\ Table /\ [Next]_vars => Table'
<1> SUFFICES ASSUME TypeOK, Table, [Next]_vars PROVE Table'
  OBVIOUS
<1>1. ASSUME NEW c \in Callers, Post(c) PROVE Table'
  BY <1>1, TableNewRequest DEF Post, PostReq, PostDiscarded, PostThrows
<1>2. ASSUME NEW r \in replies, OnResp(r) PROVE Table'
  <2>1. /\ r.seq \in Seqs
        /\ r.of \in Callers
        /\ r.kind \in {"ok", "err"}
    BY <1>2, AnswerAssumption DEF Reply, OnResp, TypeOK
  <2> DEFINE d == list[r.seq]
  <2>2. /\ {d} \in SUBSET Listed
        /\ list' = [s \in Seqs |-> IF list[s] \in {d} THEN NoItem ELSE list[s]]
    BY <1>2, <2>1, SlotRemoved DEF OnResp, Table
  <2>3. d \in Callers
    BY <1>2, <2>1 DEF OnResp, TypeOK
  <2>4. resp' = [resp EXCEPT ![d] = Own(r.kind, r.of)] /\ woken' = woken \cup {d} /\ pc' = pc
    BY <1>2 DEF OnResp
  <2>5. Own(r.kind, r.of).kind # "none"
    BY <2>1 DEF Own
  <2>6. resp' \in [Callers -> Resp]
    BY <1>2, TypeStep DEF TypeOK
  <2>7. \A c \in Callers : IF c \in {d} THEN resp'[c].kind # "none"
                                         ELSE resp'[c] = resp[c]
    BY <2>3, <2>4, <2>5 DEF TypeOK
  <2> HIDE DEF d
  <2> QED
    BY <2>2, <2>4, <2>6, <2>7, TableComplete
<1>3. ASSUME NEW r \in replies, OnGarbledResp(r) PROVE Table'
  <2>1. r.seq \in Seqs
    BY DEF Reply, TypeOK
  <2>2. /\ list' = [list EXCEPT ![r.seq] = NoItem]
        /\ UNCHANGED calls
    BY <1>3 DEF OnGarbledResp
  <2>3. \A s \in Seqs : list'[s] = IF s = r.seq THEN NoItem ELSE list[s]
    BY <2>1, <2>2 DEF TypeOK
  <2>4. Listed' \subseteq Listed
    BY <2>3 DEF Listed
  <2> QED
    BY <2>2, <2>3, <2>4
       DEF Table, ListedUnanswered, OneSlot, IdleUntouched, WokenAnswered, calls
<1>4. CASE OnClose
  <2>1. /\ list' = [s \in Seqs |-> IF list[s] \in Listed THEN NoItem ELSE list[s]]
        /\ woken' = woken \cup Listed
        /\ pc' = pc
    BY <1>4 DEF OnClose, AbortListed, Listed
  <2>2. \A c \in Callers : IF c \in Listed THEN resp'[c].kind # "none"
                                            ELSE resp'[c] = resp[c]
    BY <1>4 DEF OnClose, AbortListed, Code
  <2>3. resp' \in [Callers -> Resp]
    BY TypeStep DEF TypeOK
  <2> QED
    BY <2>1, <2>2, <2>3, TableComplete
<1>5. CASE MonitorTick
  <2> DEFINE S == Listed \cap aged
  <2>1. /\ list' = [s \in Seqs |-> IF list[s] \in S THEN NoItem ELSE list[s]]
        /\ woken' = woken \cup S
        /\ pc' = pc
    BY <1>5 DEF MonitorTick
  <2>2. \A c \in Callers : IF c \in S THEN resp'[c].kind # "none"
                                       ELSE resp'[c] = resp[c]
    BY <1>5 DEF MonitorTick, Code
  <2>3. resp' \in [Callers -> Resp]
    BY TypeStep DEF TypeOK
  <2>4. S \in SUBSET Listed
    OBVIOUS
  <2> HIDE DEF S
  <2> QED
    BY <2>1, <2>2, <2>3, <2>4, TableComplete
<1>6. ASSUME NEW c \in Callers, Return(c) PROVE Table'
  <2>1. pc[c] = "waiting" /\ c \in woken /\ pc' = [pc EXCEPT ![c] = "done"]
    BY <1>6 DEF Return
  <2>2. UNCHANGED <<list, resp, woken>>
    BY <1>6 DEF Return, reqs
  <2>3. \A s \in Seqs : list[s] # c
    BY <2>1, NoItemAssumption DEF Table, ListedUnanswered
  <2>4. ListedUnanswered'
    BY <2>1, <2>2, <2>3 DEF Table, ListedUnanswered, TypeOK
  <2>5. IdleUntouched'
    BY <2>1, <2>2 DEF Table, IdleUntouched, Listed, TypeOK
  <2> QED
    BY <2>2, <2>4, <2>5 DEF Table, OneSlot, WokenAnswered
<1>7. ASSUME NEW c \in Callers, GrowOld(c) PROVE Table'
  BY <1>7, TableUnchanged DEF GrowOld, reqs
<1>8. ASSUME NEW m \in wire, NEW k \in AnswerKinds, RouterAnswer(m, k) PROVE Table'
  BY <1>8, TableUnchanged DEF RouterAnswer, reqs
<1>9. ASSUME NEW r \in replies, OnLateResp(r) PROVE Table'
  BY <1>9, TableUnchanged DEF OnLateResp, reqs
<1>10. CASE BindSession \/ SetOnClose \/ StartClose \/ MissedClose
  BY <1>10, TableUnchanged DEF BindSession, SetOnClose, StartClose, MissedClose, reqs
<1>11. CASE UNCHANGED vars
  BY <1>11, TableUnchanged DEF vars, calls
<1> QED
  BY <1>1, <1>2, <1>3, <1>4, <1>5, <1>6, <1>7, <1>8, <1>9, <1>10, <1>11
     DEF Next, Receive

\* Whatever numbers are reused, a listed item has no result yet: on_resp never
\* calls an undefined resolve and complete_resp never finds an answered item.
THEOREM ListedUnansweredAlways == Spec => []ListedUnanswered
<1>1. Init => TypeOK /\ Table
  BY TypeInit, TableInit
<1>2. TypeOK /\ Table /\ [Next]_vars => (TypeOK /\ Table)'
  BY TypeStep, TableStep
<1>3. TypeOK /\ Table => ListedUnanswered
  BY DEF Table
<1> QED
  BY <1>1, <1>2, <1>3, PTL DEF Spec

-----------------------------------------------------------------------------
\* Correlation of answers and calls while no number was used twice.

\* Nothing is listed, sent or answered in a new manager.
LEMMA CorrelatedInit == Init => Correlated /\ OwnAnswer /\ WaiterListed
<1> SUFFICES ASSUME Init PROVE Correlated /\ OwnAnswer /\ WaiterListed
  OBVIOUS
<1>1. Correlated
  BY SeqLimitAssumption DEF Init, Correlated, NoReuse
<1>2. OwnAnswer
  BY DEF Init, OwnAnswer, Code
<1>3. WaiterListed
  BY DEF Init, WaiterListed
<1> QED
  BY <1>1, <1>2, <1>3

\* new_request takes a number above all those on the wire and in the table.
LEMMA CorrelatedNewRequest ==
  ASSUME TypeOK, Correlated, NEW c \in Callers, NewRequest(c), UNCHANGED replies,
         wire' \subseteq wire \cup {[seq |-> next_seq, of |-> c]}
  PROVE  Correlated'
<1> SUFFICES ASSUME NoReuse'
             PROVE  /\ next_seq' = IF issued' + 1 = SeqLimit THEN 1 ELSE issued' + 1
                    /\ \A s \in Seqs : list'[s] # NoItem => s <= issued'
                    /\ \A m \in wire' : m.seq <= issued' /\ list'[m.seq] \in {NoItem, m.of}
                    /\ \A r \in replies' : r.seq <= issued' /\ list'[r.seq] \in {NoItem, r.of}
  BY DEF Correlated
<1>1. issued' = issued + 1 /\ issued \in Nat /\ issued + 1 < SeqLimit
  BY DEF NewRequest, TypeOK, NoReuse
<1>2. next_seq = issued + 1
  BY <1>1, SeqLimitAssumption DEF Correlated, NoReuse
<1>3. /\ next_seq \in Seqs
      /\ \A s \in Seqs : list'[s] = IF s = next_seq THEN c ELSE list[s]
  BY DEF NewRequest, TypeOK
<1>4. /\ \A s \in Seqs : list[s] # NoItem => s <= issued
      /\ \A m \in wire : m.seq <= issued /\ list[m.seq] \in {NoItem, m.of}
      /\ \A r \in replies : r.seq <= issued /\ list[r.seq] \in {NoItem, r.of}
  BY <1>1, SeqLimitAssumption DEF Correlated, NoReuse
<1>5. next_seq' = IF issued' + 1 = SeqLimit THEN 1 ELSE issued' + 1
  BY <1>1, <1>2 DEF NewRequest
<1>6. \A s \in Seqs : list'[s] # NoItem => s <= issued'
  BY <1>1, <1>2, <1>3, <1>4 DEF Seqs
<1>7. ASSUME NEW m \in wire' PROVE m.seq <= issued' /\ list'[m.seq] \in {NoItem, m.of}
  <2>1. CASE m \in wire
    <3>1. m.seq \in Seqs /\ m.seq # next_seq /\ m.seq <= issued
      BY <1>1, <1>2, <1>4, <2>1 DEF TypeOK, Message, Seqs
    <3> QED
      BY <1>1, <1>3, <1>4, <2>1, <3>1 DEF Seqs
  <2>2. CASE m = [seq |-> next_seq, of |-> c]
    BY <1>1, <1>2, <1>3, <2>2
  <2> QED
    BY <2>1, <2>2
<1>8. ASSUME NEW r \in replies' PROVE r.seq <= issued' /\ list'[r.seq] \in {NoItem, r.of}
  <2>1. r \in replies /\ r.seq \in Seqs /\ r.seq # next_seq /\ r.seq <= issued
    BY <1>1, <1>2, <1>4 DEF TypeOK, Reply, Seqs
  <2> QED
    BY <1>1, <1>3, <1>4, <2>1 DEF Seqs
<1> QED
  BY <1>5, <1>6, <1>7, <1>8

\* Steps that issue no number, list nothing new and put nothing new under way.
LEMMA CorrelatedShrink ==
  ASSUME TypeOK, Correlated, UNCHANGED <<next_seq, issued>>,
         \A s \in Seqs : list'[s] \in {NoItem, list[s]},
         \A m \in wire' : m \in wire,
         \A r \in replies' : r \in replies \/ \E m \in wire : r.seq = m.seq /\ r.of = m.of
  PROVE  Correlated'
<1> SUFFICES ASSUME NoReuse PROVE Correlated'
  BY DEF Correlated, NoReuse
<1>1. /\ next_seq = IF issued + 1 = SeqLimit THEN 1 ELSE issued + 1
      /\ \A s \in Seqs : list[s] # NoItem => s <= issued
      /\ \A m \in wire : m.seq <= issued /\ list[m.seq] \in {NoItem, m.of}
      /\ \A r \in replies : r.seq <= issued /\ list[r.seq] \in {NoItem, r.of}
  BY DEF Correlated
<1>2. /\ \A m \in wire : m.seq \in Seqs
      /\ \A r \in replies : r.seq \in Seqs
  BY DEF TypeOK, Message, Reply
<1>3. \A s \in Seqs : list'[s] # NoItem => s <= issued
  BY <1>1
<1>4. \A m \in wire' : m.seq <= issued /\ list'[m.seq] \in {NoItem, m.of}
  BY <1>1, <1>2
<1>5. \A r \in replies' : r.seq <= issued /\ list'[r.seq] \in {NoItem, r.of}
  BY <1>1, <1>2
<1> QED
  BY <1>1, <1>3, <1>4, <1>5 DEF Correlated, NoReuse

\* new_request hands out the next number; messages and items keep theirs.
LEMMA CorrelatedStep == TypeOK /\ Correlated /\ [Next]_vars => Correlated'
<1> SUFFICES ASSUME TypeOK, Correlated, [Next]_vars PROVE Correlated'
  OBVIOUS
<1>1. ASSUME NEW c \in Callers, Post(c) PROVE Correlated'
  BY <1>1, CorrelatedNewRequest DEF Post, PostReq, PostDiscarded, PostThrows
<1>2. ASSUME NEW r \in replies, Receive(r) PROVE Correlated'
  <2>1. \A s \in Seqs : list'[s] \in {NoItem, list[s]}
    BY <1>2 DEF Receive, OnResp, OnGarbledResp, OnLateResp, TypeOK, reqs
  <2>2. UNCHANGED <<next_seq, issued, wire>> /\ replies' \subseteq replies
    BY <1>2 DEF Receive, OnResp, OnGarbledResp, OnLateResp, reqs
  <2> QED
    BY <2>1, <2>2, CorrelatedShrink
<1>3. CASE OnClose \/ MissedClose
  <2>1. \A s \in Seqs : list'[s] \in {NoItem, list[s]}
    BY <1>3 DEF OnClose, AbortListed, MissedClose, reqs
  <2>2. UNCHANGED <<next_seq, issued>> /\ replies' = {} /\ wire' = {}
    BY <1>3 DEF OnClose, MissedClose, reqs
  <2> QED
    BY <2>1, <2>2, CorrelatedShrink
<1>4. CASE MonitorTick
  <2>1. \A s \in Seqs : list'[s] \in {NoItem, list[s]}
    BY <1>4 DEF MonitorTick
  <2>2. UNCHANGED <<next_seq, issued, wire, replies>>
    BY <1>4 DEF MonitorTick
  <2> QED
    BY <2>1, <2>2, CorrelatedShrink
<1>5. ASSUME NEW m \in wire, NEW k \in AnswerKinds, RouterAnswer(m, k) PROVE Correlated'
  <2>1. UNCHANGED <<next_seq, issued, list>> /\ wire' \subseteq wire
    BY <1>5 DEF RouterAnswer, reqs
  <2>2. \A r \in replies' : r \in replies \/ (r.seq = m.seq /\ r.of = m.of)
    BY <1>5 DEF RouterAnswer
  <2> QED
    BY <2>1, <2>2, CorrelatedShrink
<1>6. ASSUME UNCHANGED <<reqs, wire, replies>> PROVE Correlated'
  BY <1>6 DEF reqs, Correlated, NoReuse
<1>7. ASSUME NEW c \in Callers, Return(c) \/ GrowOld(c) PROVE Correlated'
  BY <1>6, <1>7 DEF Return, GrowOld
<1>8. CASE BindSession \/ SetOnClose \/ StartClose \/ UNCHANGED vars
  BY <1>6, <1>8 DEF BindSession, SetOnClose, StartClose, vars, reqs
<1> QED
  BY <1>1, <1>2, <1>3, <1>4, <1>5, <1>7, <1>8 DEF Next

\* on_resp finds under the number of an answer the call the answer is for.
LEMMA OwnAnswerStep ==
  TypeOK /\ Correlated /\ OwnAnswer /\ [Next]_vars => OwnAnswer'
<1> SUFFICES ASSUME TypeOK, Correlated, OwnAnswer, [Next]_vars, NoReuse',
                    NEW c \in Callers, resp'[c].kind \in {"ok", "err"}
             PROVE  resp'[c].of = c
  BY DEF OwnAnswer
<1>1. NoReuse
  <2>1. issued' \in {issued, issued + 1} /\ issued \in Nat
    BY DEF TypeOK, Next, Post, PostReq, PostDiscarded, PostThrows, NewRequest, Return,
           GrowOld, RouterAnswer, Receive, OnResp, OnGarbledResp, OnLateResp,
           MonitorTick, OnClose, MissedClose, BindSession, SetOnClose, StartClose,
           reqs, vars
  <2> QED
    BY <2>1, SeqLimitAssumption DEF NoReuse
<1>2. CASE resp'[c] = resp[c]
  BY <1>1, <1>2 DEF OwnAnswer
<1>3. ASSUME NEW r \in replies, OnResp(r), resp'[c] # resp[c] PROVE resp'[c].of = c
  <2>1. r.seq \in Seqs /\ list[r.seq] # NoItem
    BY <1>3 DEF TypeOK, Reply, OnResp
  <2>2. list[r.seq] = r.of
    BY <1>1, <2>1 DEF Correlated
  <2>3. c = list[r.seq] /\ resp'[c] = Own(r.kind, r.of)
    BY <1>3 DEF TypeOK, OnResp
  <2> QED
    BY <2>2, <2>3 DEF Own
<1>4. CASE OnClose
  BY <1>2, <1>4 DEF OnClose, AbortListed, Code
<1>5. CASE MonitorTick
  BY <1>2, <1>5 DEF MonitorTick, Code
<1>6. CASE UNCHANGED resp
  BY <1>2, <1>6
<1> QED
  BY <1>2, <1>3, <1>4, <1>5, <1>6
     DEF Next, Post, PostReq, PostDiscarded, PostThrows, Return, GrowOld, RouterAnswer,
         Receive, OnGarbledResp, OnLateResp, MissedClose, BindSession, SetOnClose,
         StartClose, calls, vars

\* The inductive invariant without WaiterListed.
Sound == TypeOK /\ Table /\ Correlated /\ OwnAnswer

\* The invariant holds of a new manager.
LEMMA SoundInit == Init => Sound
BY TypeInit, TableInit, CorrelatedInit DEF Sound

\* The invariant is kept by every step.
LEMMA SoundStep == Sound /\ [Next]_vars => Sound'
BY TypeStep, TableStep, CorrelatedStep, OwnAnswerStep DEF Sound

\* Up to the 65534th request of a session, every answer goes to its own call.
THEOREM OwnAnswerAlways == Spec => []OwnAnswer
<1>1. Init => Sound
  BY SoundInit
<1>2. Sound /\ [Next]_vars => Sound'
  BY SoundStep
<1>3. Sound => OwnAnswer
  BY DEF Sound
<1> QED
  BY <1>1, <1>2, <1>3, PTL DEF Spec

\* Once a call is woken, no late answer, timeout or close changes its result.
THEOREM FirstResultStandsAlways == Spec => FirstResultStands
<1>1. Sound /\ [Next]_vars =>
        [\A c \in Callers : c \in woken => resp'[c] = resp[c] /\ c \in woken']_vars
  <2> SUFFICES ASSUME Sound, Next, NEW c \in Callers, c \in woken
               PROVE  resp'[c] = resp[c] /\ c \in woken'
    OBVIOUS
  <2>1. c \notin Listed
    BY DEF Sound, Table, ListedUnanswered, Listed
  <2>2. ASSUME NEW r \in replies, OnResp(r) PROVE resp'[c] = resp[c] /\ c \in woken'
    <3>1. r.seq \in Seqs /\ list[r.seq] # c
      BY <2>1, <2>2, NoItemAssumption DEF OnResp, Sound, TypeOK, Reply, Listed
    <3> QED
      BY <2>2, <3>1 DEF OnResp, Sound, TypeOK
  <2>3. CASE OnClose
    BY <2>1, <2>3 DEF OnClose, AbortListed
  <2>4. CASE MonitorTick
    BY <2>1, <2>4 DEF MonitorTick
  <2>5. CASE UNCHANGED <<resp, woken>>
    BY <2>5
  <2> QED
    BY <2>2, <2>3, <2>4, <2>5
       DEF Next, Post, PostReq, PostDiscarded, PostThrows, Return, GrowOld,
           RouterAnswer, Receive, OnGarbledResp, OnLateResp, MissedClose,
           BindSession, SetOnClose, StartClose, calls
<1>2. Init => Sound
  BY SoundInit
<1>3. Sound /\ [Next]_vars => Sound'
  BY SoundStep
<1> QED
  BY <1>1, <1>2, <1>3, PTL DEF Spec, FirstResultStands

-----------------------------------------------------------------------------
\* No call is lost from the table.

\* What takes a waiting call out of the table wakes it, or strands it.
LEMMA WaiterListedStep ==
  TypeOK /\ WaiterListed /\ [Next]_vars => WaiterListed'
<1> SUFFICES ASSUME TypeOK, WaiterListed, [Next]_vars,
                    NEW c \in Callers, pc'[c] = "waiting", c \notin woken'
             PROVE  c \in Listed' \/ c \in stranded'
  BY DEF WaiterListed
<1> USE NoItemAssumption
<1>2. pc[c] = "waiting" /\ c \notin woken => c \in Listed \/ c \in stranded
  BY DEF WaiterListed
<1>3. ASSUME NEW d \in Callers, Post(d) PROVE c \in Listed' \/ c \in stranded'
  <2>1. /\ NewRequest(d)
        /\ woken' = woken
        /\ next_seq \in Seqs
        /\ \E p \in {"waiting", "threw"} : pc' = [pc EXCEPT ![d] = p]
    BY <1>3 DEF Post, PostReq, PostDiscarded, PostThrows, TypeOK
  <2>2. \A s \in Seqs : list'[s] = IF s = next_seq THEN d ELSE list[s]
    BY <2>1 DEF NewRequest, TypeOK
  <2>3. CASE c = d
    BY <2>1, <2>2, <2>3 DEF Listed
  <2>4. CASE c # d
    <3>1. c \in Listed \/ c \in stranded
      BY <1>2, <2>1, <2>4 DEF TypeOK
    <3>2. stranded' = stranded \cup ({list[next_seq]} \ {NoItem})
      BY <2>1 DEF NewRequest
    <3> QED
      BY <2>1, <2>2, <3>1, <3>2 DEF Listed
  <2> QED
    BY <2>3, <2>4
<1>4. ASSUME NEW r \in replies, Receive(r) PROVE c \in Listed' \/ c \in stranded'
  <2>1. r.seq \in Seqs /\ pc' = pc /\ woken \subseteq woken' /\ stranded \subseteq stranded'
    BY <1>4 DEF Receive, OnResp, OnGarbledResp, OnLateResp, TypeOK, Reply, calls
  <2>2. c \in Listed \/ c \in stranded
    BY <1>2, <2>1
  <2>3. c # list[r.seq] \/ c \in stranded' \/ OnLateResp(r)
    BY <1>4 DEF Receive, OnResp, OnGarbledResp
  <2>4. CASE OnLateResp(r)
    BY <2>1, <2>2, <2>4 DEF OnLateResp, reqs, Listed
  <2>5. CASE list' = [list EXCEPT ![r.seq] = NoItem]
    BY <2>1, <2>2, <2>3, <2>5, <2>4 DEF TypeOK, Listed
  <2> QED
    BY <1>4, <2>4, <2>5 DEF Receive, OnResp, OnGarbledResp
<1>5. CASE OnClose
  BY <1>2, <1>5 DEF OnClose, AbortListed
<1>6. CASE MonitorTick
  <2>1. pc' = pc /\ stranded' = stranded /\ woken' = woken \cup (Listed \cap aged)
    BY <1>6 DEF MonitorTick
  <2>2. \A s \in Seqs : list'[s] = IF list[s] \in Listed \cap aged THEN NoItem ELSE list[s]
    BY <1>6 DEF MonitorTick
  <2>3. c \notin Listed \cap aged
    BY <2>1
  <2> QED
    BY <1>2, <2>1, <2>2, <2>3 DEF Listed
<1>7. ASSUME NEW d \in Callers, Return(d) PROVE c \in Listed' \/ c \in stranded'
  <2>1. pc[c] = "waiting" /\ UNCHANGED <<list, woken, stranded>>
    BY <1>7 DEF Return, TypeOK, reqs
  <2> QED
    BY <1>2, <2>1 DEF Listed
<1>8. ASSUME UNCHANGED <<list, pc, woken, stranded>> PROVE c \in Listed' \/ c \in stranded'
  BY <1>2, <1>8 DEF Listed
<1>9. ASSUME NEW d \in Callers, GrowOld(d) PROVE c \in Listed' \/ c \in stranded'
  BY <1>8, <1>9 DEF GrowOld, reqs, calls
<1>10. ASSUME NEW m \in wire, NEW k \in AnswerKinds, RouterAnswer(m, k)
       PROVE  c \in Listed' \/ c \in stranded'
  BY <1>8, <1>10 DEF RouterAnswer, reqs, calls
<1>11. CASE BindSession \/ SetOnClose \/ StartClose \/ MissedClose \/ UNCHANGED vars
  BY <1>8, <1>11 DEF BindSession, SetOnClose, StartClose, MissedClose, reqs, calls, vars
<1> QED
  BY <1>3, <1>4, <1>5, <1>6, <1>7, <1>9, <1>10, <1>11 DEF Next

\* A waiting call is in the table, where an answer, the monitor or the end of
\* the session finds it, unless new_request overwrote it or on_resp dropped it.
THEOREM WaiterListedAlways == Spec => []WaiterListed
<1>1. Init => Sound /\ WaiterListed
  BY SoundInit, CorrelatedInit
<1>2. Sound /\ WaiterListed /\ [Next]_vars => (Sound /\ WaiterListed)'
  BY SoundStep, WaiterListedStep DEF Sound
<1> QED
  BY <1>1, <1>2, PTL DEF Spec

\* Until a number is used twice, new_request overwrites no item.
THEOREM OnlyReuseStrandsAlways == Spec => OnlyReuseStrands
<1>1. Sound /\ [Next]_vars =>
        [stranded' # stranded => ~NoReuse' \/ \E r \in replies : OnGarbledResp(r)]_vars
  <2> SUFFICES ASSUME Sound, Next, stranded' # stranded, NoReuse'
               PROVE  \E r \in replies : OnGarbledResp(r)
    OBVIOUS
  <2>1. ASSUME NEW d \in Callers, Post(d) PROVE FALSE
    <3>1. NewRequest(d) /\ next_seq \in Seqs /\ issued \in Nat
      BY <2>1 DEF Post, PostReq, PostDiscarded, PostThrows, Sound, TypeOK
    <3>2. NoReuse /\ issued + 1 < SeqLimit
      BY <3>1, SeqLimitAssumption DEF NewRequest, NoReuse
    <3>3. next_seq = issued + 1
      BY <3>1, <3>2, SeqLimitAssumption DEF Sound, Correlated
    <3>4. list[next_seq] = NoItem
      BY <3>1, <3>2, <3>3 DEF Sound, Correlated
    <3> QED
      BY <3>1, <3>4 DEF NewRequest
  <2>2. CASE UNCHANGED stranded
    BY <2>2
  <2> QED
    BY <2>1, <2>2
       DEF Next, Return, GrowOld, RouterAnswer, Receive, OnResp, OnLateResp,
           OnClose, MonitorTick, MissedClose, BindSession, SetOnClose, StartClose
<1>2. Init => Sound
  BY SoundInit
<1>3. Sound /\ [Next]_vars => Sound'
  BY SoundStep
<1> QED
  BY <1>1, <1>2, <1>3, PTL DEF Spec, OnlyReuseStrands

-----------------------------------------------------------------------------
\* After the session only calls that threw are left in the table.
EndedTable ==
  session = "ended" =>
    \A s \in Seqs : list[s] # NoItem => pc[list[s]] = "threw"

\* unbind_session empties the table; what post_bytes_req lists later belongs to
\* a call that threw.
LEMMA EndedTableStep == Sound /\ EndedTable /\ [Next]_vars => EndedTable'
<1> SUFFICES ASSUME Sound, EndedTable, [Next]_vars, session' = "ended",
                    NEW s \in Seqs, list'[s] # NoItem
             PROVE  pc'[list'[s]] = "threw"
  BY DEF EndedTable
<1>1. CASE OnClose
  BY <1>1 DEF OnClose, AbortListed
<1>2. CASE ~OnClose
  <2>1. session = "ended"
    BY <1>2 DEF Next, Post, PostReq, PostDiscarded, PostThrows, Return, GrowOld,
                RouterAnswer, Receive, OnResp, OnGarbledResp, OnLateResp, MonitorTick,
                MissedClose, BindSession, SetOnClose, StartClose, link, vars
  <2>2. \A t \in Seqs : list[t] # NoItem => pc[list[t]] = "threw" /\ list[t] \in Callers
    BY <2>1 DEF EndedTable, Sound, TypeOK
  <2>3. ASSUME NEW c \in Callers, Post(c) PROVE pc'[list'[s]] = "threw"
    <3>1. /\ pc' = [pc EXCEPT ![c] = "threw"]
          /\ list' = [list EXCEPT ![next_seq] = c]
      BY <2>1, <2>3 DEF Post, PostReq, PostDiscarded, PostThrows, NewRequest
    <3> QED
      BY <2>2, <3>1 DEF Sound, TypeOK
  <2>4. ASSUME NEW c \in Callers, Return(c) PROVE pc'[list'[s]] = "threw"
    <3>1. /\ pc' = [pc EXCEPT ![c] = "done"]
          /\ pc[c] = "waiting"
          /\ list' = list
      BY <2>4 DEF Return, reqs
    <3> QED
      BY <2>2, <3>1 DEF Sound, TypeOK
  <2>5. ASSUME NEW r \in replies, Receive(r) PROVE pc'[list'[s]] = "threw"
    <3>1. pc' = pc /\ list'[s] \in {NoItem, list[s]}
      BY <2>5 DEF Receive, OnResp, OnGarbledResp, OnLateResp, Sound, TypeOK, calls, reqs
    <3> QED
      BY <2>2, <3>1
  <2>6. CASE MonitorTick
    <3>1. pc' = pc /\ list'[s] \in {NoItem, list[s]}
      BY <2>6 DEF MonitorTick
    <3> QED
      BY <2>2, <3>1
  <2>7. ASSUME UNCHANGED <<list, pc>> PROVE pc'[list'[s]] = "threw"
    BY <2>2, <2>7
  <2>8. ASSUME NEW c \in Callers, GrowOld(c) PROVE pc'[list'[s]] = "threw"
    BY <2>7, <2>8 DEF GrowOld, reqs, calls
  <2>9. ASSUME NEW m \in wire, NEW k \in AnswerKinds, RouterAnswer(m, k)
        PROVE  pc'[list'[s]] = "threw"
    BY <2>7, <2>9 DEF RouterAnswer, reqs, calls
  <2>10. CASE BindSession \/ SetOnClose \/ StartClose \/ MissedClose \/ UNCHANGED vars
    BY <2>7, <2>10 DEF BindSession, SetOnClose, StartClose, MissedClose, reqs, calls, vars
  <2> QED
    BY <1>2, <2>3, <2>4, <2>5, <2>6, <2>8, <2>9, <2>10 DEF Next
<1> QED
  BY <1>1, <1>2

\* unbind_session leaves no call waiting on the session that ended.
THEOREM EndedReleasesCallersAlways == Spec => []EndedReleasesCallers
<1>1. Init => Sound /\ WaiterListed /\ EndedTable
  BY SoundInit, CorrelatedInit DEF Init, EndedTable
<1>2. Sound /\ WaiterListed /\ EndedTable /\ [Next]_vars
        => (Sound /\ WaiterListed /\ EndedTable)'
  BY SoundStep, WaiterListedStep, EndedTableStep DEF Sound
<1>3. WaiterListed /\ EndedTable => EndedReleasesCallers
  BY DEF WaiterListed, EndedTable, EndedReleasesCallers, Listed
<1> QED
  BY <1>1, <1>2, <1>3, PTL DEF Spec

-----------------------------------------------------------------------------
\* The manager implements Rpc.

\* A new manager is a remote that nobody has called.
LEMMA InitRefines == Init => Remote!Init
BY SeqLimitAssumption DEF Init, Remote!Init, rpc_state, rpc_outcome, Code, NoReuse

\* Completing listed calls completes, in Rpc, those of them that still wait.
LEMMA CompleteRefines ==
  ASSUME Sound, NEW S \in SUBSET Listed, woken' = woken \cup S,
         UNCHANGED <<pc, issued>>,
         \A c \in Callers : IF c \in S THEN resp'[c] \in Remote!Outcomes(c)
                                        ELSE resp'[c] = resp[c]
  PROVE  Remote!Next
<1> DEFINE W == {c \in S : pc[c] = "waiting"}
<1>1. S \subseteq Callers /\ \A c \in S : c \notin woken /\ pc[c] \in {"waiting", "threw"}
  BY DEF Sound, TypeOK, Table, ListedUnanswered, Listed
<1>2. \A c \in W : rpc_state[c] = "open"
  BY <1>1 DEF rpc_state
<1>3. rpc_state' = [c \in Callers |-> IF c \in W THEN "done" ELSE rpc_state[c]]
  <2>1. \A c \in Callers : rpc_state'[c] = IF c \in W THEN "done" ELSE rpc_state[c]
    BY <1>1 DEF rpc_state
  <2> QED
    BY <2>1 DEF rpc_state
<1>4. \A c \in Callers : IF c \in W THEN rpc_outcome'[c] \in Remote!Outcomes(c)
                                     ELSE rpc_outcome'[c] = rpc_outcome[c]
  BY <1>1 DEF rpc_outcome
<1>5. W \in SUBSET Callers
  BY <1>1
<1> HIDE DEF W
<1>6. Remote!Complete(W)
  BY <1>2, <1>3, <1>4 DEF Remote!Complete, NoReuse
<1> QED
  BY <1>5, <1>6 DEF Remote!Next

\* Every step of the manager is a step of Rpc or nothing to its callers.
LEMMA StepRefines ==
  ASSUME Sound, [Next]_vars
  PROVE  [Remote!Next]_(Remote!vars)
<1>1. ASSUME NEW c \in Callers, Post(c) PROVE Remote!Next
  <2>1. pc[c] = "idle" /\ UNCHANGED <<resp, woken>> /\ c \notin woken /\ resp[c] = Code("none")
    BY <1>1 DEF Post, PostReq, PostDiscarded, PostThrows, Sound, Table, IdleUntouched
  <2>2. PICK p \in {"waiting", "threw"} : pc' = [pc EXCEPT ![c] = p]
    BY <1>1 DEF Post, PostReq, PostDiscarded, PostThrows
  <2>3. pc'[c] = p /\ \A d \in Callers : d # c => pc'[d] = pc[d]
    BY <2>2 DEF Sound, TypeOK
  <2> DEFINE q == IF p = "waiting" THEN "open" ELSE "refused"
  <2>4. rpc_state' = [rpc_state EXCEPT ![c] = q]
    <3>1. \A d \in Callers : rpc_state'[d] = IF d = c THEN q ELSE rpc_state[d]
      BY <2>1, <2>3 DEF rpc_state
    <3> QED
      BY <3>1 DEF rpc_state
  <2>5. rpc_outcome' = rpc_outcome
    BY <2>1, <2>3 DEF rpc_outcome, Code
  <2>6. rpc_state[c] = "idle"
    BY <2>1 DEF rpc_state
  <2>7. NoReuse' => NoReuse
    BY <1>1, SeqLimitAssumption
       DEF Post, PostReq, PostDiscarded, PostThrows, NewRequest, NoReuse, Sound, TypeOK
  <2>8. rpc_state' \in {[rpc_state EXCEPT ![c] = s] : s \in {"open", "refused"}}
    BY <2>4
  <2>9. Remote!Call(c)
    BY <2>5, <2>6, <2>7, <2>8 DEF Remote!Call
  <2> QED
    BY <2>9 DEF Remote!Next
<1>2. ASSUME NEW r \in replies, OnResp(r) PROVE Remote!Next
  <2> DEFINE d == list[r.seq]
  <2>1. /\ r.seq \in Seqs
        /\ r.of \in Callers
        /\ r.kind \in {"ok", "err"}
        /\ d # NoItem
    BY <1>2, AnswerAssumption DEF OnResp, Sound, TypeOK, Reply
  <2>2. NoReuse => d = r.of
    BY <2>1 DEF Sound, Correlated
  <2>3. {d} \in SUBSET Listed
    BY <2>1 DEF Listed
  <2>4. /\ resp' = [resp EXCEPT ![d] = Own(r.kind, r.of)]
        /\ woken' = woken \cup {d}
        /\ UNCHANGED <<pc, issued>>
    BY <1>2 DEF OnResp
  <2>5. Own(r.kind, r.of) \in Remote!Outcomes(d)
    BY <2>1, <2>2 DEF Own, Remote!Outcomes
  <2>6. d \in Callers
    BY <2>1 DEF Sound, TypeOK
  <2> HIDE DEF d
  <2>7. \A c \in Callers : IF c \in {d} THEN resp'[c] \in Remote!Outcomes(c)
                                         ELSE resp'[c] = resp[c]
    BY <2>4, <2>5, <2>6 DEF Sound, TypeOK
  <2> QED
    BY <2>3, <2>4, <2>7, CompleteRefines
<1>3. CASE OnClose
  <2>1. \A c \in Callers : Code("aborted") \in Remote!Outcomes(c)
    BY DEF Code, Remote!Outcomes
  <2>2. \A c \in Callers : IF c \in Listed THEN resp'[c] \in Remote!Outcomes(c)
                                            ELSE resp'[c] = resp[c]
    BY <1>3, <2>1 DEF OnClose, AbortListed
  <2>3. woken' = woken \cup Listed /\ UNCHANGED <<pc, issued>>
    BY <1>3 DEF OnClose, AbortListed
  <2> QED
    BY <2>2, <2>3, CompleteRefines
<1>4. CASE MonitorTick
  <2> DEFINE S == Listed \cap aged
  <2>1. \A c \in Callers : Code("timeout") \in Remote!Outcomes(c)
    BY DEF Code, Remote!Outcomes
  <2>2. \A c \in Callers : IF c \in S THEN resp'[c] \in Remote!Outcomes(c)
                                       ELSE resp'[c] = resp[c]
    BY <1>4, <2>1 DEF MonitorTick
  <2>3. S \in SUBSET Listed /\ woken' = woken \cup S /\ UNCHANGED <<pc, issued>>
    BY <1>4 DEF MonitorTick
  <2> HIDE DEF S
  <2> QED
    BY <2>2, <2>3, CompleteRefines
<1>5. ASSUME NEW c \in Callers, Return(c) PROVE UNCHANGED Remote!vars
  <2>1. pc[c] = "waiting" /\ c \in woken /\ pc' = [pc EXCEPT ![c] = "done"]
    BY <1>5 DEF Return
  <2>2. resp' = resp /\ woken' = woken /\ issued' = issued
    BY <1>5 DEF Return, reqs
  <2>3. \A d \in Callers : d # c => pc'[d] = pc[d]
    BY <2>1 DEF Sound, TypeOK
  <2>4. pc'[c] = "done"
    BY <2>1 DEF Sound, TypeOK
  <2>5. rpc_outcome' = rpc_outcome
    <3>1. \A d \in Callers : rpc_outcome'[d] = rpc_outcome[d]
      BY <2>1, <2>2, <2>3, <2>4 DEF rpc_outcome
    <3> QED
      BY <3>1 DEF rpc_outcome
  <2>6. \A d \in Callers : rpc_state'[d] = rpc_state[d]
    BY <2>1, <2>2, <2>3, <2>4 DEF rpc_state
  <2>7. rpc_state' = rpc_state
    BY <2>6 DEF rpc_state
  <2> QED
    BY <2>2, <2>5, <2>7 DEF Remote!vars, NoReuse
<1>6. ASSUME UNCHANGED <<calls, issued>> PROVE UNCHANGED Remote!vars
  BY <1>6 DEF calls, Remote!vars, rpc_state, rpc_outcome, NoReuse
<1>7. ASSUME NEW c \in Callers, GrowOld(c) PROVE UNCHANGED Remote!vars
  BY <1>6, <1>7 DEF GrowOld, reqs
<1>8. ASSUME NEW m \in wire, NEW k \in AnswerKinds, RouterAnswer(m, k)
      PROVE  UNCHANGED Remote!vars
  BY <1>6, <1>8 DEF RouterAnswer, reqs
<1>9. ASSUME NEW r \in replies, OnGarbledResp(r) \/ OnLateResp(r)
      PROVE  UNCHANGED Remote!vars
  BY <1>6, <1>9 DEF OnGarbledResp, OnLateResp, reqs
<1>10. ASSUME BindSession \/ SetOnClose \/ StartClose \/ MissedClose \/ UNCHANGED vars
       PROVE  UNCHANGED Remote!vars
  BY <1>6, <1>10 DEF BindSession, SetOnClose, StartClose, MissedClose, vars, calls, reqs
<1> QED
  BY <1>1, <1>2, <1>3, <1>4, <1>5, <1>7, <1>8, <1>9, <1>10 DEF Next, Receive

\* The manager implements Rpc: each call is refused at once or completed once,
\* with a timeout, an abort or an answer, which is the answer to that call as
\* long as no number was handed out twice.
THEOREM RefinesRpc == Spec => ImplementsRpc
<1>1. Init => Sound /\ Remote!Init
  BY SoundInit, InitRefines
<1>2. Sound /\ [Next]_vars => Sound'
  BY SoundStep
<1>3. Sound /\ [Next]_vars => [Remote!Next]_(Remote!vars)
  BY StepRefines
<1> QED
  BY <1>1, <1>2, <1>3, PTL DEF Spec, ImplementsRpc, Remote!Spec
=============================================================================
