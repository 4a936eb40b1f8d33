-------------------------- MODULE StateStorageProofs -------------------------
(***************************************************************************)
(* Types, the end of abort(), what a clean storage has committed and what  *)
(* `current` names, for any number of writes, overlapping saves, intervals *)
(* and failures.                                                           *)
(***************************************************************************)
EXTENDS StateStorage, Integers, TLAPS

\* The requests of a save, and messages that name who awaits them.
SaveOps  == {"update", "set", "commit"}
Requests == {q \in Request : /\ q.op \in SaveOps => q.from \in Savers
                             /\ q.op = "write" => q.new \in Root}
Replies  == {r \in Reply : r.op \in SaveOps => r.from \in Savers}

TypeInv ==
  /\ TypeOK
  /\ timers <= starts
  /\ wire \in Seq(Requests)
  /\ replies \in Seq(Replies)

\* The bounds are numbers.
LEMMA Bounds ==
  MaxValue \in Nat /\ MaxWrites \in Nat /\ MaxStarts \in Nat /\ MaxFaults \in Nat
  BY StorageAssumption

\* An element appended.
LEMMA AppendFacts ==
  ASSUME NEW S, NEW w \in Seq(S), NEW e \in S
  PROVE  /\ Append(w, e) \in Seq(S) /\ Len(Append(w, e)) = Len(w) + 1 /\ Len(w) \in Nat
         /\ \A i \in 1 .. Len(w) : Append(w, e)[i] = w[i]
         /\ Append(w, e)[Len(w) + 1] = e
  OBVIOUS

\* The first element removed.
LEMMA TailFacts ==
  ASSUME NEW S, NEW w \in Seq(S), w # <<>>
  PROVE  /\ Tail(w) \in Seq(S) /\ Len(Tail(w)) = Len(w) - 1 /\ Len(w) \in Nat \ {0}
         /\ \A i \in 1 .. Len(Tail(w)) : Tail(w)[i] = w[i + 1]
         /\ Head(w) = w[1] /\ Head(w) \in S
  OBVIOUS

\* Sequences of a subset.
LEMMA WireTyped ==
  ASSUME NEW S, NEW T \in SUBSET S, NEW w \in Seq(T)
  PROVE  w \in Seq(S)
  OBVIOUS

\* A request goes out.
LEMMA PostTyped ==
  ASSUME wire \in Seq(Requests),
         NEW o \in {"write", "update", "set", "commit", "drop_single", "drop_path"},
         NEW f \in Writers \cup Savers \cup {0}, o \in SaveOps => f \in Savers,
         NEW n \in Root \cup {NoRoot}, NEW p \in Root \cup {NoRoot},
         o = "write" => n \in Root,
         Post(o, f, n, p)
  PROVE  /\ wire' = Append(wire, [op |-> o, from |-> f, new |-> n, prev |-> p])
         /\ [op |-> o, from |-> f, new |-> n, prev |-> p] \in Requests
         /\ wire' \in Seq(Requests) /\ wire' \in Seq(Request)
<1>1. [op |-> o, from |-> f, new |-> n, prev |-> p] \in Requests
  BY DEF Request, Requests
<1>2. wire' = Append(wire, [op |-> o, from |-> f, new |-> n, prev |-> p])
  BY DEF Post
<1>3. wire' \in Seq(Requests)
  BY <1>1, <1>2, AppendFacts
<1> QED
  BY <1>1, <1>2, <1>3, WireTyped DEF Requests

\* save(), called or by a tick.
LEMMA SaveTyped ==
  ASSUME TypeInv, Save
  PROVE  /\ wire' \in Seq(Requests) /\ wire' \in Seq(Request) /\ dirty' \in BOOLEAN
         /\ saver' \in [Savers -> [at : {"idle", "update", "set", "commit"},
                                   prev : Root \cup {NoRoot}, new : Root \cup {NoRoot}]]
         /\ UNCHANGED <<router, current, writes, abort, replies, faults>>
<1>1. CASE SaveClean
  BY <1>1 DEF SaveClean, TypeInv, TypeOK
<1>2. ASSUME NEW s \in Savers, SaveBegins(s)
      PROVE  /\ wire' \in Seq(Requests) /\ wire' \in Seq(Request) /\ dirty' \in BOOLEAN
             /\ saver' \in [Savers -> [at : {"idle", "update", "set", "commit"},
                                       prev : Root \cup {NoRoot}, new : Root \cup {NoRoot}]]
             /\ UNCHANGED <<router, current, writes, abort, replies, faults>>
  <2>1. wire' \in Seq(Requests) /\ wire' \in Seq(Request)
    BY <1>2, PostTyped DEF SaveBegins, TypeInv, TypeOK
  <2> QED
    BY <1>2, <2>1 DEF SaveBegins, TypeInv, TypeOK
<1> QED
  BY <1>1, <1>2 DEF Save

\* The router answers the first request.
Response(q, ok, root) ==
  [op |-> q.op, from |-> q.from, ok |-> ok, new |-> q.new, root |-> root]

LEMMA AnswerTyped ==
  ASSUME TypeInv, wire # <<>>, NEW ok \in BOOLEAN, NEW root \in Root \cup {NoRoot},
         Answer(Head(wire), ok, root)
  PROVE  /\ Head(wire) \in Requests /\ Response(Head(wire), ok, root) \in Replies
         /\ replies' = Append(replies, Response(Head(wire), ok, root))
         /\ replies' \in Seq(Replies) /\ replies' \in Seq(Reply)
         /\ wire' = Tail(wire) /\ wire' \in Seq(Requests) /\ wire' \in Seq(Request)
         /\ UNCHANGED <<current, dirty, auto, writes, saver, abort>>
<1>1. wire \in Seq(Requests) /\ replies \in Seq(Replies)
  BY DEF TypeInv
<1>2. Head(wire) \in Requests /\ Tail(wire) \in Seq(Requests)
  BY <1>1, TailFacts
<1>3. Response(Head(wire), ok, root) \in Replies
  BY <1>2 DEF Request, Reply, Requests, Replies, Response
<1>4. replies' = Append(replies, Response(Head(wire), ok, root)) /\ wire' = Tail(wire)
      /\ UNCHANGED <<current, dirty, auto, writes, saver, abort>>
  BY DEF Answer, Response
<1>5. replies' \in Seq(Replies)
  BY <1>1, <1>3, <1>4, AppendFacts
<1>6. Requests \subseteq Request /\ Replies \subseteq Reply
  BY DEF Requests, Replies
<1> QED
  BY <1>2, <1>3, <1>4, <1>5, <1>6, WireTyped

\* The type of `saver`.
Savings == [Savers -> [at : {"idle", "update", "set", "commit"},
                       prev : Root \cup {NoRoot}, new : Root \cup {NoRoot}]]

\* An answer resumes the save that awaits it.
LEMMA SaverTyped ==
  ASSUME TypeInv, NEW r \in Replies, Updated(r) \/ Staged(r) \/ Committed(r)
  PROVE  /\ wire' \in Seq(Requests) /\ wire' \in Seq(Request)
         /\ saver' \in Savings /\ dirty' \in BOOLEAN /\ current' \in Root \cup {NoRoot}
         /\ UNCHANGED <<router, auto, writes, abort, faults>>
<1> DEFINE s == r.from
<1>0. wire \in Seq(Requests) /\ wire \in Seq(Request) /\ saver \in Savings
      /\ dirty \in BOOLEAN /\ current \in Root \cup {NoRoot}
  BY DEF TypeInv, TypeOK, Savings
<1>1. s \in Savers /\ r.root \in Root \cup {NoRoot}
  BY DEF Replies, Reply, SaveOps, Updated, Staged, Committed
<1>2. /\ saver[s].prev \in Root \cup {NoRoot} /\ saver[s].new \in Root \cup {NoRoot}
      /\ Idle \in [at : {"idle", "update", "set", "commit"},
                   prev : Root \cup {NoRoot}, new : Root \cup {NoRoot}]
  BY <1>0, <1>1 DEF Savings, Idle
<1>3. UNCHANGED <<router, auto, writes, abort, faults>>
  BY DEF Updated, Staged, Committed
<1>4. CASE saver' = [saver EXCEPT ![s] = Idle] /\ UNCHANGED wire
  <2>1. dirty' \in BOOLEAN /\ current' \in Root \cup {NoRoot}
    BY <1>0, <1>1, <1>2 DEF Updated, Staged, Committed, SaveFails
  <2> QED
    BY <1>0, <1>1, <1>2, <1>3, <1>4, <2>1 DEF Savings
<1>5. CASE /\ saver' = [saver EXCEPT ![s].at = "set", ![s].new = r.root]
           /\ Post("set", s, r.root, saver[s].prev)
           /\ UNCHANGED <<current, dirty>>
  <2>1. wire' \in Seq(Requests) /\ wire' \in Seq(Request)
    BY <1>0, <1>1, <1>2, <1>5, PostTyped
  <2> QED
    BY <1>0, <1>1, <1>2, <1>3, <1>5, <2>1 DEF Savings
<1>6. CASE /\ saver' = [saver EXCEPT ![s].at = "commit"]
           /\ Post("commit", s, NoRoot, NoRoot)
           /\ UNCHANGED <<current, dirty>>
  <2>1. wire' \in Seq(Requests) /\ wire' \in Seq(Request)
    BY <1>0, <1>1, <1>2, <1>6, PostTyped
  <2> QED
    BY <1>0, <1>1, <1>2, <1>3, <1>6, <2>1 DEF Savings
<1> QED
  BY <1>4, <1>5, <1>6 DEF Updated, Staged, Committed, SaveFails

\* Every variable keeps its type.
LEMMA TypeStep == ASSUME TypeInv, [Next]_vars PROVE TypeInv'
<1> USE Bounds
<1>0. /\ wire \in Seq(Requests) /\ replies \in Seq(Replies) /\ NoRoot \in Root \cup {NoRoot}
      /\ Replies \subseteq Reply /\ TypeOK /\ timers <= starts
  BY DEF TypeInv, Replies
<1>1. ASSUME NEW v \in Values, Write(v) PROVE TypeInv'
  <2>1. writes' \in 0 .. MaxWrites /\ writes' \in Writers
    BY <1>0, <1>1 DEF Write, TypeOK, Writers
  <2>2. wire' \in Seq(Requests) /\ wire' \in Seq(Request)
    BY <1>0, <1>1, <2>1, PostTyped DEF Write, Root, SaveOps
  <2> QED
    BY <1>0, <1>1, <2>1, <2>2 DEF Write, TypeInv, TypeOK, router, auto
<1>2. CASE SaveCall
  BY <1>0, <1>2, SaveTyped DEF SaveCall, TypeInv, TypeOK, router, auto
<1>3. CASE Tick
  <2>1. Save /\ UNCHANGED <<auto_save, starts>> /\ timers' \in 0 .. MaxStarts /\ timers' <= starts'
    BY <1>0, <1>3 DEF Tick, TypeOK
  <2> QED
    BY <1>0, <2>1, SaveTyped DEF TypeInv, TypeOK, router
<1>4. CASE StartSave
  BY <1>0, <1>4 DEF StartSave, TypeInv, TypeOK, router
<1>5. CASE StopSave
  BY <1>0, <1>5 DEF StopSave, TypeInv, TypeOK, router
<1>6. CASE Abort
  <2>1. wire' \in Seq(Requests) /\ wire' \in Seq(Request)
    BY <1>0, <1>6, PostTyped DEF Abort, SaveOps
  <2> QED
    BY <1>0, <1>6, <2>1 DEF Abort, TypeInv, TypeOK, router
<1>7. CASE Resume
  <2> DEFINE r == Head(replies)
  <2>1. r \in Replies /\ replies' \in Seq(Replies)
    BY <1>0, <1>7, TailFacts DEF Resume
  <2>2. replies' \in Seq(Reply)
    BY <1>0, <2>1, WireTyped
  <2>3. \/ Wrote(r) \/ SingleDropped(r) \/ PathDropped(r)
        \/ (Updated(r) \/ Staged(r) \/ Committed(r))
    BY <1>7 DEF Resume
  <2> HIDE DEF r
  <2>4. CASE Wrote(r)
    BY <1>0, <2>1, <2>2, <2>4 DEF Wrote, TypeInv, TypeOK, router, auto
  <2>5. CASE Updated(r) \/ Staged(r) \/ Committed(r)
    BY <1>0, <2>1, <2>2, <2>5, SaverTyped DEF TypeInv, TypeOK, router, auto, Savings
  <2>6. CASE SingleDropped(r)
    <3>1. wire' \in Seq(Requests) /\ wire' \in Seq(Request)
      BY <1>0, <2>6, PostTyped DEF SingleDropped, SaveOps
    <3> QED
      BY <1>0, <2>1, <2>2, <2>6, <3>1 DEF SingleDropped, TypeInv, TypeOK, router, auto
  <2>7. CASE PathDropped(r)
    BY <1>0, <2>1, <2>2, <2>7 DEF PathDropped, TypeInv, TypeOK, router, auto
  <2> QED
    BY <2>3, <2>4, <2>5, <2>6, <2>7
<1>8. CASE Serve
  <2>1. wire # <<>> /\ UNCHANGED faults
        /\ {content, NoRoot} \subseteq Root \cup {NoRoot} /\ staged \in Root \cup {NoRoot}
    BY <1>0, <1>8 DEF Serve, TypeOK
  <2>2. PICK ok \in BOOLEAN, root \in Root \cup {NoRoot} : Answer(Head(wire), ok, root)
    BY <1>8, <2>1 DEF Serve
  <2>3. /\ Head(wire) \in Requests
        /\ replies' \in Seq(Replies) /\ replies' \in Seq(Reply)
        /\ wire' \in Seq(Requests) /\ wire' \in Seq(Request)
        /\ UNCHANGED <<current, dirty, auto, writes, saver, abort>>
    BY <2>1, <2>2, AnswerTyped
  <2>4. /\ content' \in Root /\ staged' \in Root \cup {NoRoot}
        /\ committed' \in Root \cup {NoRoot} /\ aborted' \subseteq {"single", "path"}
        /\ slipped' \in BOOLEAN /\ UNCHANGED undropped
    BY <1>0, <1>8, <2>3 DEF Serve, TypeOK, router, Requests, Request, Dropped
  <2> QED
    BY <1>0, <2>1, <2>3, <2>4 DEF TypeInv, TypeOK, auto
<1>9. CASE Fail
  <2>1. wire # <<>> /\ Answer(Head(wire), FALSE, NoRoot)
    BY <1>9 DEF Fail
  <2>2. /\ replies' \in Seq(Replies) /\ replies' \in Seq(Reply)
        /\ wire' \in Seq(Requests) /\ wire' \in Seq(Request)
        /\ UNCHANGED <<current, dirty, auto, writes, saver, abort>>
    BY <1>0, <2>1, AnswerTyped
  <2>3. /\ slipped' \in BOOLEAN /\ undropped' \subseteq {"single", "path"}
        /\ faults' \in 0 .. MaxFaults
        /\ UNCHANGED <<content, staged, committed, aborted>>
    BY <1>0, <1>9 DEF Fail, TypeOK, Dropped
  <2> QED
    BY <1>0, <2>2, <2>3 DEF TypeInv, TypeOK, auto
<1>10. CASE UNCHANGED vars
  BY <1>0, <1>10 DEF vars, TypeInv, TypeOK, router, auto
<1> QED
  BY <1>1, <1>2, <1>3, <1>4, <1>5, <1>6, <1>7, <1>8, <1>9, <1>10 DEF Next

-----------------------------------------------------------------------------
\* Where abort() is, and which op-envs are gone: path_stub was dropped, or the
\* router failed to.
Drops == {"drop_single", "drop_path"}
Gone  == "path" \in aborted \cup undropped

Final ==
  /\ abort = "done" => Gone
  /\ \A j \in 1 .. Len(replies) : replies[j].op = "drop_path" => Gone
  /\ abort = "no" =>
       aborted = {} /\ \A i \in 1 .. Len(wire) : wire[i].op \notin Drops

\* A request appended, unless nothing is posted.
Posts(o) ==
  \/ UNCHANGED wire
  \/ \E q \in Requests : q.op = o /\ wire' = Append(wire, q)

\* save() posts nothing or an update.
LEMMA SavePosts == ASSUME TypeInv, Save PROVE Posts("update")
<1>1. CASE SaveClean
  BY <1>1 DEF SaveClean, Posts
<1>2. ASSUME NEW s \in Savers, SaveBegins(s) PROVE Posts("update")
  BY <1>2, PostTyped DEF SaveBegins, TypeInv, TypeOK, Posts
<1> QED
  BY <1>1, <1>2 DEF Save

\* A save that resumes posts nothing, or the next request of the save.
LEMMA SaverPosts ==
  ASSUME TypeInv, NEW r \in Replies, Updated(r) \/ Staged(r) \/ Committed(r)
  PROVE  Posts("set") \/ Posts("commit")
<1> DEFINE s == r.from
<1>1. s \in Savers /\ r.root \in Root \cup {NoRoot} /\ wire \in Seq(Requests)
      /\ saver[s].prev \in Root \cup {NoRoot}
  BY DEF Replies, Reply, SaveOps, Updated, Staged, Committed, TypeInv, TypeOK
<1>2. CASE UNCHANGED wire
  BY <1>2 DEF Posts
<1>3. CASE Post("set", s, r.root, saver[s].prev)
  BY <1>1, <1>3, PostTyped DEF Posts
<1>4. CASE Post("commit", s, NoRoot, NoRoot)
  BY <1>1, <1>4, PostTyped DEF Posts
<1> QED
  BY <1>2, <1>3, <1>4 DEF Updated, Staged, Committed, SaveFails

\* Every step but abort()'s keeps Final: nothing is dropped, or asked for.
LEMMA FinalPost ==
  ASSUME TypeInv, Final, NEW o, o \notin Drops, Posts(o), UNCHANGED <<aborted, undropped, abort>>,
         replies' = replies \/ (replies # <<>> /\ replies' = Tail(replies))
  PROVE  Final'
<1>1. wire \in Seq(Requests) /\ replies \in Seq(Replies)
  BY DEF TypeInv
<1>2. abort = "no" => \A i \in 1 .. Len(wire') : wire'[i].op \notin Drops
  <2>1. CASE UNCHANGED wire
    BY <2>1 DEF Final
  <2>2. ASSUME NEW q \in Requests, q.op = o, wire' = Append(wire, q)
        PROVE  abort = "no" => \A i \in 1 .. Len(wire') : wire'[i].op \notin Drops
    <3>1. /\ Len(wire') = Len(wire) + 1 /\ Len(wire) \in Nat /\ wire'[Len(wire) + 1] = q
          /\ \A i \in 1 .. Len(wire) : wire'[i] = wire[i]
      BY <1>1, <2>2, AppendFacts
    <3> QED
      BY <2>2, <3>1 DEF Final
  <2> QED
    BY <2>1, <2>2 DEF Posts
<1>3. \A j \in 1 .. Len(replies') : replies'[j].op = "drop_path" => Gone
  <2>1. CASE replies' = replies
    BY <2>1 DEF Final
  <2>2. CASE replies # <<>> /\ replies' = Tail(replies)
    <3>1. /\ Len(replies') = Len(replies) - 1 /\ Len(replies) \in Nat \ {0}
          /\ \A j \in 1 .. Len(replies') : replies'[j] = replies[j + 1]
      BY <1>1, <2>2, TailFacts
    <3> QED
      BY <3>1 DEF Final
  <2> QED
    BY <2>1, <2>2
<1> QED
  BY <1>2, <1>3 DEF Final, Gone

\* A request served, or failed.
LEMMA FinalAnswer ==
  ASSUME TypeInv, Final, wire # <<>>, UNCHANGED abort,
         NEW ok \in BOOLEAN, NEW root \in Root \cup {NoRoot},
         Answer(Head(wire), ok, root),
         Gone => Gone',
         Head(wire).op \notin Drops => UNCHANGED aborted,
         Head(wire).op = "drop_path" => Gone'
  PROVE  Final'
<1> DEFINE q == Head(wire)
           r == Response(q, ok, root)
<1>1. wire \in Seq(Requests) /\ replies \in Seq(Replies)
  BY DEF TypeInv
<1>2. r \in Replies /\ replies' = Append(replies, r) /\ wire' = Tail(wire) /\ r.op = q.op
  BY AnswerTyped DEF Response
<1>3. /\ Len(wire') = Len(wire) - 1 /\ Len(wire) \in Nat \ {0} /\ q = wire[1]
      /\ \A i \in 1 .. Len(wire') : wire'[i] = wire[i + 1]
  BY <1>1, <1>2, TailFacts
<1>4. /\ Len(replies') = Len(replies) + 1 /\ Len(replies) \in Nat
      /\ replies'[Len(replies) + 1] = r
      /\ \A j \in 1 .. Len(replies) : replies'[j] = replies[j]
  BY <1>1, <1>2, AppendFacts
<1> HIDE DEF q, r
<1>5. \A j \in 1 .. Len(replies') : replies'[j].op = "drop_path" => Gone'
  BY <1>2, <1>4 DEF Final, q
<1>6. abort = "no" =>
        aborted' = {} /\ \A i \in 1 .. Len(wire') : wire'[i].op \notin Drops
  BY <1>3 DEF Final, q
<1> QED
  BY <1>5, <1>6 DEF Final

\* Every step keeps Final, and commits nothing once abort() has returned and
\* path_stub is gone.
LEMMA FinalStep ==
  ASSUME TypeInv, Final, [Next]_vars
  PROVE  Final' /\ (abort = "done" /\ "path" \notin undropped => committed' = committed)
<1>0. /\ wire \in Seq(Requests) /\ replies \in Seq(Replies)
      /\ "write" \notin Drops /\ "update" \notin Drops /\ "set" \notin Drops
      /\ "commit" \notin Drops /\ NoRoot \in Root \cup {NoRoot}
  BY DEF TypeInv, Drops
<1>1. ASSUME NEW v \in Values, Write(v) PROVE Final' /\ UNCHANGED committed
  <2>1. writes' \in Writers
    BY <1>1, Bounds DEF Write, TypeInv, TypeOK, Writers
  <2>2. Posts("write")
    BY <1>0, <1>1, <2>1, PostTyped DEF Write, Root, SaveOps, Posts
  <2> QED
    BY <1>0, <1>1, <2>2, FinalPost DEF Write, router
<1>2. CASE SaveCall \/ Tick
  <2>1. Posts("update") /\ UNCHANGED <<router, abort, replies>>
    BY <1>2, SavePosts, SaveTyped DEF SaveCall, Tick
  <2> QED
    BY <1>0, <2>1, FinalPost DEF router
<1>3. CASE StartSave \/ StopSave
  BY <1>0, <1>3, FinalPost DEF StartSave, StopSave, Posts, router
<1>4. CASE Abort
  BY <1>4 DEF Abort, Final, Gone, router
<1>5. CASE Resume
  <2> DEFINE r == Head(replies)
  <2>1. r \in Replies /\ replies # <<>> /\ replies' = Tail(replies) /\ r = replies[1]
        /\ Len(replies') = Len(replies) - 1 /\ Len(replies) \in Nat \ {0}
        /\ \A j \in 1 .. Len(replies') : replies'[j] = replies[j + 1]
    BY <1>0, <1>5, TailFacts DEF Resume
  <2>2. \/ Wrote(r) \/ SingleDropped(r) \/ PathDropped(r)
        \/ (Updated(r) \/ Staged(r) \/ Committed(r))
    BY <1>5 DEF Resume
  <2> HIDE DEF r
  <2>3. CASE Wrote(r)
    BY <1>0, <2>1, <2>3, FinalPost DEF Wrote, Posts, router
  <2>4. CASE Updated(r) \/ Staged(r) \/ Committed(r)
    <3>1. UNCHANGED <<router, abort>>
      BY <2>4 DEF Updated, Staged, Committed
    <3> QED
      BY <1>0, <2>1, <2>4, <3>1, SaverPosts, FinalPost DEF router
  <2>5. CASE SingleDropped(r)
    BY <2>1, <2>5 DEF SingleDropped, Final, Gone, router
  <2>6. CASE PathDropped(r)
    <3>1. Gone
      BY <2>1, <2>6 DEF PathDropped, Final
    <3> QED
      BY <2>1, <2>6, <3>1 DEF PathDropped, Final, Gone, router
  <2> QED
    BY <2>2, <2>3, <2>4, <2>5, <2>6 DEF router, Wrote, Updated, Staged, Committed,
       SingleDropped, PathDropped
<1>6. CASE Serve
  <2> DEFINE q == Head(wire)
  <2>1. wire # <<>> /\ q = wire[1] /\ Len(wire) \in Nat \ {0}
    BY <1>0, <1>6, TailFacts DEF Serve
  <2>2. PICK ok \in BOOLEAN, root \in Root \cup {NoRoot} : Answer(q, ok, root)
    BY <1>6, <2>1 DEF Serve, TypeInv, TypeOK
  <2>3. /\ Gone => Gone'
        /\ q.op \notin Drops => UNCHANGED aborted
        /\ q.op = "drop_path" => Gone'
    BY <1>6 DEF Serve, router, Drops, Dropped, Gone
  <2>4. UNCHANGED abort
    BY <2>2 DEF Answer
  <2>5. Final'
    BY <2>1, <2>2, <2>3, <2>4, FinalAnswer
  <2>6. abort = "done" /\ "path" \notin undropped => committed' = committed
    BY <1>6 DEF Serve, router, Final, Gone
  <2> QED
    BY <2>5, <2>6
<1>7. CASE Fail
  <2>1. /\ wire # <<>> /\ Answer(Head(wire), FALSE, NoRoot)
        /\ UNCHANGED <<committed, aborted>>
        /\ Gone => Gone'
        /\ Head(wire).op = "drop_path" => Gone'
    BY <1>7 DEF Fail, Dropped, Gone
  <2>2. UNCHANGED <<aborted, abort, committed>>
    BY <2>1 DEF Answer
  <2>3. Final'
    BY <1>0, <2>1, <2>2, FinalAnswer
  <2> QED
    BY <2>2, <2>3
<1>8. CASE UNCHANGED vars
  BY <1>8 DEF vars, Final, Gone, router
<1> QED
  BY <1>1, <1>2, <1>3, <1>4, <1>5, <1>6, <1>7, <1>8 DEF Next, router

-----------------------------------------------------------------------------
\* A storage that was loaded.
LEMMA InitInv == ASSUME Init PROVE TypeInv /\ Final
<1>1. /\ <<>> \in Seq(Request) /\ <<>> \in Seq(Reply)
      /\ <<>> \in Seq(Requests) /\ <<>> \in Seq(Replies) /\ Len(<<>>) = 0
  OBVIOUS
<1>2. 0 \in Values /\ 0 \in 0 .. MaxStarts /\ 0 \in 0 .. MaxWrites /\ 0 \in 0 .. MaxFaults
  BY Bounds DEF Values
<1>3. /\ content \in Root
      /\ {staged, committed, current} \subseteq Root \cup {NoRoot}
      /\ timers \in 0 .. MaxStarts /\ starts \in 0 .. MaxStarts /\ timers <= starts
      /\ writes \in 0 .. MaxWrites /\ faults \in 0 .. MaxFaults
  BY <1>2 DEF Init, Root
<1>4. {dirty, auto_save} \subseteq BOOLEAN
  BY DEF Init
<1>5. saver \in [Savers -> [at : {"idle", "update", "set", "commit"},
                            prev : Root \cup {NoRoot}, new : Root \cup {NoRoot}]]
  BY DEF Init, Idle
<1>6. /\ aborted \subseteq {"single", "path"} /\ undropped \subseteq {"single", "path"}
      /\ slipped \in BOOLEAN /\ abort \in {"no", "single", "path", "done"}
      /\ wire \in Seq(Request) /\ replies \in Seq(Reply)
      /\ wire \in Seq(Requests) /\ replies \in Seq(Replies)
  BY <1>1 DEF Init
<1>7. TypeInv
  BY <1>3, <1>4, <1>5, <1>6 DEF TypeInv, TypeOK
<1> QED
  BY <1>1, <1>7 DEF Init, Final

\* Type correctness, for any number of writes, saves, intervals and failures
\* (all of StateStorage's fields and the messages between it and the router).
THEOREM StorageTypeCorrect == Spec => []TypeOK
<1>1. TypeInv /\ [Next]_vars => TypeInv'
  BY TypeStep
<1>2. TypeInv => TypeOK
  BY DEF TypeInv
<1> QED
  BY InitInv, <1>1, <1>2, PTL DEF Spec

\* Once abort() has returned nothing is committed any more, whatever saves were
\* under way and whatever failed but the drop of path_stub, the only op-env that
\* commits (a failed drop is only logged by abort_impl).
THEOREM AbortIsFinalAlways == Spec => AbortIsFinal
<1>1. TypeInv /\ Final /\ [Next]_vars => TypeInv' /\ Final'
  BY TypeStep, FinalStep
<1>2. TypeInv /\ Final /\ [Next]_vars => [abort = "done" /\ "path" \notin undropped => committed' = committed]_vars
  BY FinalStep
<1> QED
  BY InitInv, <1>1, <1>2, PTL DEF Spec, AbortIsFinal

-----------------------------------------------------------------------------
(***************************************************************************)
(* What is committed, when no write brings back an older content.  Roots   *)
(* are then as old as their numbers say, and nothing is older than all.    *)
(***************************************************************************)
Age(x) == IF x = NoRoot THEN -1 ELSE x

Wire == 1 .. Len(wire)
Back == 1 .. Len(replies)

\* The root that the save of a message is about.
New(m) == Age(saver[m.from].new)

\* The answers to a set and to a commit that went well.
Acked(j) == replies[j].op = "set" /\ replies[j].ok
Done(j)  == replies[j].op = "commit" /\ replies[j].ok

\* A save awaits the answer to the message that names it, ...
Links ==
  /\ \A i \in Wire : wire[i].op \in SaveOps =>
       /\ saver[wire[i].from].at = wire[i].op
       /\ wire[i].op = "set" => saver[wire[i].from].new = wire[i].new
  /\ \A j \in Back : replies[j].op \in SaveOps =>
       saver[replies[j].from].at = replies[j].op

\* ... and to no other.
Single ==
  /\ \A i, l \in Wire : wire[i].op \in SaveOps /\ wire[l].op \in SaveOps
                          /\ wire[i].from = wire[l].from => i = l
  /\ \A j, l \in Back : replies[j].op \in SaveOps /\ replies[l].op \in SaveOps
                          /\ replies[j].from = replies[l].from => j = l
  /\ \A i \in Wire, j \in Back : wire[i].op \in SaveOps /\ replies[j].op \in SaveOps
                                   => wire[i].from # replies[j].from

\* Each write brings a content newer than all before it.
Fresher ==
  /\ content <= writes
  /\ \A i \in Wire : wire[i].op = "write" =>
       /\ content < wire[i].new /\ wire[i].new <= writes
       /\ \A l \in 1 .. i - 1 : wire[l].op = "write" => wire[l].new < wire[i].new

\* No step of a save is ahead of the one before it.
Order ==
  /\ Age(current) <= Age(committed)
  /\ Age(committed) <= Age(staged)
  /\ Age(staged) <= content

Previous ==
  \A s \in Savers : saver[s].at # "idle" => Age(saver[s].prev) <= Age(committed)

\* Roots are staged in the order of their age.
Sets ==
  \A i \in Wire : wire[i].op = "set" =>
    /\ wire[i].new \in Root /\ Age(staged) <= wire[i].new /\ wire[i].new <= content
    /\ \A l \in 1 .. i - 1 : wire[l].op = "set" => wire[l].new <= wire[i].new

Updates ==
  \A j \in Back : replies[j].op = "update" /\ replies[j].ok =>
    /\ replies[j].root \in Root
    /\ Age(staged) <= replies[j].root /\ replies[j].root <= content
    /\ \A i \in Wire : wire[i].op = "set" => wire[i].new <= replies[j].root
    /\ \A l \in 1 .. j - 1 : replies[l].op = "update" /\ replies[l].ok =>
         replies[l].root <= replies[j].root

\* A save whose set went well has nothing newer than what is staged, and one
\* whose commit went well nothing newer than what is committed.
Commits ==
  /\ \A i \in Wire : wire[i].op = "commit" => New(wire[i]) <= Age(staged)
  /\ \A j \in Back : Acked(j) => New(replies[j]) <= Age(staged)
  /\ \A j \in Back : Done(j) => New(replies[j]) <= Age(committed)

Ordered ==
  /\ Links /\ Single /\ Fresher /\ Order /\ Previous /\ Sets /\ Updates /\ Commits

\* What is not committed yet is marked, or an answer on its way will have it
\* marked or carry it on, or a request on its way will.
Carried == committed = content \/ (committed = NoRoot /\ content = 0)

Tells(r) ==
  \/ r.op = "write" /\ r.ok /\ r.root # r.new
  \/ r.op = "update" /\ (~r.ok \/ r.root = content)
  \/ r.op = "set" /\ (~r.ok \/ staged = content)
  \/ r.op = "commit" /\ ~r.ok

Asks(q) ==
  \/ q.op = "update"
  \/ q.op = "set" /\ q.new = content
  \/ q.op = "commit" /\ staged = content

Marked == abort = "no" =>
  \/ dirty
  \/ Carried
  \/ \E j \in Back : Tells(replies[j])
  \/ \E i \in Wire : Asks(wire[i])

\* The age of a root.
LEMMA Ages ==
  /\ Age(NoRoot) = -1
  /\ \A x \in Root : x \in Nat /\ Age(x) = x
  /\ \A x \in Root \cup {NoRoot} : Age(x) \in Int /\ -1 <= Age(x)
  /\ \A x \in Root \cup {NoRoot}, y \in Root \cup {NoRoot} : Age(x) = Age(y) => x = y
<1>1. NoRoot = MaxValue + 1 /\ \A x \in Root : x \in Nat /\ x # NoRoot
  BY Bounds DEF Root, Values, NoRoot
<1> QED
  BY <1>1 DEF Age

\* The messages of saves name savers.
Named ==
  /\ \A i \in Wire : wire[i].op \in SaveOps => wire[i].from \in Savers
  /\ \A j \in Back : replies[j].op \in SaveOps => replies[j].from \in Savers

\* The roots of saves have an age.
Aged ==
  /\ \A i \in Wire : wire[i].op \in SaveOps => New(wire[i]) \in Int
  /\ \A j \in Back : replies[j].op \in SaveOps => New(replies[j]) \in Int

\* A message q more.
Longer(q) ==
  /\ Len(wire) + 1 \notin Wire /\ Wire' = Wire \cup {Len(wire) + 1}
  /\ wire'[Len(wire) + 1] = q
  /\ \A i \in Wire : wire'[i] = wire[i]

\* The first answer less, the first message less, an answer more.
ShorterBack ==
  \A j \in Back' : j + 1 \in Back /\ j + 1 # 1 /\ replies'[j] = replies[j + 1]

ShorterWire ==
  \A i \in Wire' : i + 1 \in Wire /\ i + 1 # 1 /\ wire'[i] = wire[i + 1]

LongerBack(r) ==
  /\ Len(replies) + 1 \notin Back /\ Back' = Back \cup {Len(replies) + 1}
  /\ replies'[Len(replies) + 1] = r
  /\ \A j \in Back : replies'[j] = replies[j]

\* What comes before a message or an answer, now and after a step.
Places ==
  /\ \A i \in Wire : i \in Nat /\ \A l \in 1 .. i - 1 : l \in Wire
  /\ \A j \in Back : j \in Nat /\ \A l \in 1 .. j - 1 : l \in Back
  /\ \A i \in Wire' : i \in Nat /\ \A l \in 1 .. i - 1 : l \in Wire'
  /\ \A j \in Back' : j \in Nat /\ \A l \in 1 .. j - 1 : l \in Back'

\* Types of the messages.
LEMMA Messages ==
  ASSUME TypeInv
  PROVE  /\ Named /\ Aged
         /\ \A i \in Wire : wire[i] \in Requests
         /\ \A j \in Back : replies[j] \in Replies
         /\ \A s \in Savers : /\ saver[s].new \in Root \cup {NoRoot}
                              /\ saver[s].prev \in Root \cup {NoRoot}
<1>1. /\ wire \in Seq(Requests) /\ replies \in Seq(Replies)
      /\ \A s \in Savers : /\ saver[s].new \in Root \cup {NoRoot}
                           /\ saver[s].prev \in Root \cup {NoRoot}
  BY DEF TypeInv, TypeOK
<1>2. /\ \A i \in Wire : wire[i] \in Requests
      /\ \A j \in Back : replies[j] \in Replies
  BY <1>1 DEF Wire, Back
<1>3. Named
  BY <1>2 DEF Named, Requests, Replies
<1>4. Aged
  BY <1>1, <1>3, Ages DEF New, Named, Aged
<1> QED
  BY <1>1, <1>2, <1>3, <1>4

\* A message goes out.
LEMMA Appended ==
  ASSUME TypeInv, NEW q \in Requests, wire' = Append(wire, q)
  PROVE  Longer(q)
<1>1. wire \in Seq(Requests)
  BY DEF TypeInv
<1> QED
  BY <1>1, AppendFacts DEF Wire, Longer

\* An answer is taken in.
LEMMA Popped ==
  ASSUME TypeInv, replies # <<>>, replies' = Tail(replies)
  PROVE  ShorterBack /\ 1 \in Back /\ Head(replies) = replies[1]
<1>1. replies \in Seq(Replies)
  BY DEF TypeInv
<1> QED
  BY <1>1, TailFacts DEF Back, ShorterBack

\* Numbers of messages and answers.
LEMMA Placed == ASSUME TypeInv, TypeInv' PROVE Places
<1>1. /\ wire \in Seq(Requests) /\ replies \in Seq(Replies)
      /\ wire' \in Seq(Requests) /\ replies' \in Seq(Replies)
  BY DEF TypeInv
<1>2. Len(wire) \in Nat /\ Len(replies) \in Nat /\ Len(wire') \in Nat /\ Len(replies') \in Nat
  BY <1>1
<1> QED
  BY <1>2 DEF Places, Wire, Back

\* A save begins: its message is the only one that names it.
LEMMA BeginOrdered ==
  ASSUME TypeInv, TypeInv', Ordered, NEW s \in Savers, SaveBegins(s)
  PROVE  Ordered'
<1> DEFINE q == [op |-> "update", from |-> s, new |-> NoRoot, prev |-> NoRoot]
<1>1. q \in Requests /\ wire' = Append(wire, q)
  BY PostTyped DEF TypeInv, SaveBegins, Post, SaveOps, Request, Requests
<1>2. q.op = "update" /\ q.from = s
  OBVIOUS
<1> HIDE DEF q
<1>3. Longer(q) /\ Named /\ Aged /\ Places
  BY <1>1, Messages, Appended, Placed
<1>4. /\ saver[s].at = "idle" /\ current \in Root \cup {NoRoot}
      /\ saver'[s].at = "update" /\ saver'[s].prev = current
      /\ \A t \in Savers : t # s => saver'[t] = saver[t]
      /\ UNCHANGED <<content, staged, committed, current, writes, replies, Back>>
  BY DEF SaveBegins, TypeInv, TypeOK, router, Back
<1>5. /\ \A i \in Wire : wire[i].op \in SaveOps =>
           wire[i].from # s /\ saver'[wire[i].from] = saver[wire[i].from]
      /\ \A j \in Back : replies[j].op \in SaveOps =>
           replies[j].from # s /\ saver'[replies[j].from] = saver[replies[j].from]
  BY <1>3, <1>4 DEF Named, Ordered, Links, SaveOps
<1>6. Links'
  BY <1>2, <1>3, <1>4, <1>5 DEF Longer, Ordered, Links, SaveOps
<1>7. Single'
  BY <1>2, <1>3, <1>4, <1>5 DEF Longer, Ordered, Single
<1>8. Fresher' /\ Order'
  BY <1>2, <1>3, <1>4 DEF Places, Longer, Ordered, Fresher, Order
<1>9. Previous'
  BY <1>4 DEF Ordered, Previous, Order
<1>10. Sets'
  BY <1>2, <1>3, <1>4 DEF Places, Longer, Ordered, Sets
<1>11. Updates'
  BY <1>2, <1>3, <1>4 DEF Longer, Ordered, Updates
<1>12. Commits'
  BY <1>2, <1>3, <1>4, <1>5 DEF Longer, Ordered, Commits, New, Acked, Done, SaveOps
<1> QED
  BY <1>6, <1>7, <1>8, <1>9, <1>10, <1>11, <1>12 DEF Ordered

\* A call resumes and posts nothing, or a drop: the save that awaited the
\* answer is over, or was none.
LEMMA OverOrdered ==
  ASSUME TypeInv, TypeInv', Ordered, ShorterBack, 1 \in Back,
         UNCHANGED <<content, staged, committed, writes>>,
         \A i \in Wire' : wire'[i].op \in Drops \/ (i \in Wire /\ wire'[i] = wire[i]),
         \A t \in Savers :
           \/ saver'[t] = saver[t]
           \/ replies[1].op \in SaveOps /\ t = replies[1].from /\ saver'[t].at = "idle",
         Age(current') <= Age(committed)
  PROVE  Ordered'
<1>1. Named /\ Places
  BY Messages, Placed
<1>2. /\ \A i \in Wire : wire[i].op \in SaveOps /\ replies[1].op \in SaveOps =>
           wire[i].from # replies[1].from
      /\ \A j \in Back' : replies[j + 1].op \in SaveOps /\ replies[1].op \in SaveOps =>
           replies[j + 1].from # replies[1].from
  BY DEF ShorterBack, Ordered, Single
<1>3. /\ \A i \in Wire' : wire'[i].op \in SaveOps =>
           /\ i \in Wire /\ wire'[i] = wire[i]
           /\ saver'[wire[i].from] = saver[wire[i].from]
      /\ \A j \in Back' : replies'[j].op \in SaveOps =>
           /\ j + 1 \in Back /\ replies'[j] = replies[j + 1]
           /\ saver'[replies[j + 1].from] = saver[replies[j + 1].from]
      /\ \A i \in Wire' : wire'[i].op = "write" => i \in Wire /\ wire'[i] = wire[i]
  BY <1>1, <1>2 DEF Named, ShorterBack, Drops, SaveOps
<1>4. Links'
  BY <1>3 DEF Ordered, Links, SaveOps
<1>5. Single'
  BY <1>1, <1>3 DEF Ordered, Single, Places
<1>6. Fresher' /\ Order'
  BY <1>1, <1>3 DEF Ordered, Fresher, Order, Places
<1>7. Previous'
  BY DEF Ordered, Previous
<1>8. Sets'
  BY <1>1, <1>3 DEF Ordered, Sets, SaveOps, Places
<1>9. Updates'
  BY <1>1, <1>3 DEF Ordered, Updates, SaveOps, Places, ShorterBack
<1>10. Commits'
  BY <1>3 DEF Ordered, Commits, New, Acked, Done, SaveOps
<1> QED
  BY <1>4, <1>5, <1>6, <1>7, <1>8, <1>9, <1>10 DEF Ordered

\* A call begins, or returns, without a word of the saves: nothing goes out but
\* a drop.
LEMMA SameOrdered ==
  ASSUME TypeInv, TypeInv', Ordered, Posts("drop_single"),
         UNCHANGED <<content, staged, committed, current, writes, saver, replies>>
  PROVE  Ordered'
<1>1. Places /\ Back' = Back
  BY Placed DEF Back
<1>2. \A i \in Wire' : wire'[i].op \in Drops \/ (i \in Wire /\ wire'[i] = wire[i])
  <2>1. CASE UNCHANGED wire
    BY <2>1 DEF Wire
  <2>2. ASSUME NEW q \in Requests, q.op = "drop_single", wire' = Append(wire, q)
        PROVE  \A i \in Wire' : wire'[i].op \in Drops \/ (i \in Wire /\ wire'[i] = wire[i])
    <3>1. Longer(q)
      BY <2>2, Appended
    <3> QED
      BY <2>2, <3>1 DEF Longer, Drops
  <2> QED
    BY <2>1, <2>2 DEF Posts
<1>3. /\ \A i \in Wire' : wire'[i].op \in SaveOps => i \in Wire /\ wire'[i] = wire[i]
      /\ \A i \in Wire' : wire'[i].op = "write" => i \in Wire /\ wire'[i] = wire[i]
  BY <1>2 DEF Drops, SaveOps
<1>4. Links' /\ Single'
  BY <1>1, <1>3 DEF Ordered, Links, Single, SaveOps
<1>5. Fresher' /\ Order' /\ Previous'
  BY <1>1, <1>3 DEF Ordered, Fresher, Order, Previous, Places
<1>6. Sets'
  BY <1>1, <1>3 DEF Ordered, Sets, SaveOps, Places
<1>7. Updates'
  BY <1>1, <1>3 DEF Ordered, Updates, SaveOps, Places
<1>8. Commits'
  BY <1>1, <1>3 DEF Ordered, Commits, New, Acked, Done, SaveOps
<1> QED
  BY <1>4, <1>5, <1>6, <1>7, <1>8 DEF Ordered

\* A write goes out: it is newer than everything.
LEMMA WriteOrdered ==
  ASSUME Fresh, TypeInv, TypeInv', Ordered, NEW v \in Values, Write(v)
  PROVE  Ordered'
<1> DEFINE q == [op |-> "write", from |-> writes', new |-> v, prev |-> NoRoot]
<1>1. q \in Requests /\ wire' = Append(wire, q)
  <2>1. writes' \in Writers /\ v \in Root
    BY DEF Write, TypeInv, TypeOK, Writers, Root
  <2> QED
    BY <2>1, PostTyped DEF TypeInv, Write, Post, SaveOps, Request, Requests
<1>2. q.op = "write" /\ q.new = writes + 1 /\ writes' = writes + 1
  BY DEF Write
<1> HIDE DEF q
<1>3. Longer(q) /\ Named /\ Aged /\ Places
  BY <1>1, Messages, Appended, Placed
<1>4. /\ content \in Int /\ writes \in Int
      /\ \A i \in Wire : wire[i].op = "write" => wire[i].new \in Int
  <2>1. \A i \in Wire : wire[i] \in Requests
    BY Messages
  <2>2. \A i \in Wire : wire[i].op = "write" => wire[i].new \in Root
    BY <2>1 DEF Requests
  <2>3. content \in Root /\ writes \in 0 .. MaxWrites
    BY DEF TypeInv, TypeOK
  <2> QED
    BY <2>2, <2>3, Ages, Bounds
<1>5. UNCHANGED <<content, staged, committed, current, saver, replies, Back>>
  BY DEF Write, router, Back
<1>6. Links' /\ Single'
  BY <1>2, <1>3, <1>5 DEF Longer, Ordered, Links, Single, SaveOps
<1>7. Fresher'
  <2>1. \A i \in Wire : wire[i].op = "write" => wire[i].new < q.new
    BY <1>2, <1>4 DEF Ordered, Fresher
  <2>2. content < q.new /\ q.new <= writes' /\ content' <= writes'
    BY <1>2, <1>4, <1>5 DEF Ordered, Fresher
  <2>3. \A i \in Wire' : \A l \in 1 .. i - 1 : l \in Wire'
    BY <1>3 DEF Places
  <2>4. \A i \in Wire' : \A l \in 1 .. i - 1 :
          wire'[i].op = "write" /\ wire'[l].op = "write" => wire'[l].new < wire'[i].new
    <3>1. ASSUME NEW i \in Wire PROVE \A l \in 1 .. i - 1 : l \in Wire
      BY <1>3 DEF Places
    <3>2. Len(wire) + 1 \notin 1 .. (Len(wire) + 1) - 1
      BY <1>3 DEF TypeInv
    <3> QED
      BY <1>3, <2>1, <2>3, <3>1, <3>2 DEF Longer, Ordered, Fresher
  <2>5. \A i \in Wire' : wire'[i].op = "write" =>
          content' < wire'[i].new /\ wire'[i].new <= writes'
    BY <1>2, <1>3, <1>4, <1>5, <2>2 DEF Longer, Ordered, Fresher
  <2> QED
    BY <2>2, <2>4, <2>5 DEF Fresher
<1>8. Order' /\ Previous'
  BY <1>5 DEF Ordered, Order, Previous
<1>9. Sets'
  BY <1>2, <1>3, <1>5 DEF Places, Longer, Ordered, Sets
<1>10. Updates'
  BY <1>2, <1>3, <1>5 DEF Longer, Ordered, Updates
<1>11. Commits'
  BY <1>2, <1>3, <1>5 DEF Longer, Ordered, Commits, New, Acked, Done, SaveOps
<1> QED
  BY <1>6, <1>7, <1>8, <1>9, <1>10, <1>11 DEF Ordered

\* A save goes on to its next request, with the root it saves.
Moved(s, at, new) ==
  /\ saver'[s].at = at /\ saver'[s].new = new /\ saver'[s].prev = saver[s].prev
  /\ \A t \in Savers : t # s => saver'[t] = saver[t]

\* The answers that remain are in order.
LEMMA PoppedUpdates ==
  ASSUME TypeInv, TypeInv', Ordered, ShorterBack
  PROVE  \A j \in Back' : replies'[j].op = "update" /\ replies'[j].ok =>
           /\ replies'[j].root \in Root
           /\ Age(staged) <= replies'[j].root /\ replies'[j].root <= content
           /\ \A i \in Wire : wire[i].op = "set" => wire[i].new <= replies'[j].root
           /\ \A l \in 1 .. j - 1 : replies'[l].op = "update" /\ replies'[l].ok =>
                replies'[l].root <= replies'[j].root
<1>1. Places
  BY Placed
<1>2. \A j \in Back' : \A l \in 1 .. j - 1 : l \in Back' /\ l + 1 \in 1 .. (j + 1) - 1
  BY <1>1 DEF Places
<1> QED
  BY <1>2 DEF Ordered, Updates, ShorterBack

\* A new root goes out to be staged: no root before it is newer.
LEMMA StageOrdered ==
  ASSUME TypeInv, TypeInv', Ordered, ShorterBack, 1 \in Back,
         NEW s \in Savers, NEW root \in Root \cup {NoRoot},
         replies[1].op = "update", replies[1].ok, replies[1].from = s,
         replies[1].root = root,
         Moved(s, "set", root),
         Post("set", s, root, saver[s].prev),
         UNCHANGED <<content, staged, committed, current, writes>>
  PROVE  Ordered'
<1> DEFINE q == [op |-> "set", from |-> s, new |-> root, prev |-> saver[s].prev]
<1>1. q \in Requests /\ wire' = Append(wire, q)
  BY PostTyped, Messages DEF TypeInv, Post, SaveOps, Request, Requests
<1>2. q.op = "set" /\ q.from = s /\ q.new = root
  OBVIOUS
<1> HIDE DEF q
<1>3. Longer(q) /\ Named /\ Aged /\ Places
  BY <1>1, Messages, Appended, Placed
<1>4. /\ saver'[s].at = "set" /\ saver'[s].new = root /\ saver'[s].prev = saver[s].prev
      /\ \A t \in Savers : t # s => saver'[t] = saver[t]
      /\ saver[s].at = "update"
  BY DEF Moved, Ordered, Links, SaveOps
<1>5. /\ \A i \in Wire : wire[i].op \in SaveOps =>
           wire[i].from # s /\ saver'[wire[i].from] = saver[wire[i].from]
      /\ \A j \in Back' : replies'[j].op \in SaveOps =>
           /\ j + 1 \in Back /\ replies'[j] = replies[j + 1]
           /\ replies'[j].from # s /\ saver'[replies'[j].from] = saver[replies'[j].from]
  BY <1>3, <1>4 DEF Named, Ordered, Single, SaveOps, ShorterBack
<1>6. Links'
  <2>1. \A i \in Wire' : wire'[i].op \in SaveOps =>
          /\ saver'[wire'[i].from].at = wire'[i].op
          /\ wire'[i].op = "set" => saver'[wire'[i].from].new = wire'[i].new
    BY <1>2, <1>3, <1>4, <1>5 DEF Longer, Ordered, Links
  <2>2. \A j \in Back' : replies'[j].op \in SaveOps =>
          saver'[replies'[j].from].at = replies'[j].op
    BY <1>5 DEF Ordered, Links
  <2> QED
    BY <2>1, <2>2 DEF Links
<1>7. Single'
  <2>1. \A i, l \in Wire' : wire'[i].op \in SaveOps /\ wire'[l].op \in SaveOps
                            /\ wire'[i].from = wire'[l].from => i = l
    BY <1>2, <1>3, <1>5 DEF Longer, Ordered, Single
  <2>2. \A j, l \in Back' : replies'[j].op \in SaveOps /\ replies'[l].op \in SaveOps
                            /\ replies'[j].from = replies'[l].from => j = l
    BY <1>3 DEF Ordered, Single, ShorterBack, Places
  <2>3. \A i \in Wire', j \in Back' :
          wire'[i].op \in SaveOps /\ replies'[j].op \in SaveOps
            => wire'[i].from # replies'[j].from
    BY <1>2, <1>3, <1>5 DEF Longer, Ordered, Single
  <2> QED
    BY <2>1, <2>2, <2>3 DEF Single
<1>8. Fresher' /\ Order'
  BY <1>2, <1>3 DEF Places, Longer, Ordered, Fresher, Order
<1>9. Previous'
  BY <1>4 DEF Ordered, Previous
<1>10. /\ root \in Root /\ Age(staged) <= root /\ root <= content
       /\ \A i \in Wire : wire[i].op = "set" => wire[i].new <= root
       /\ \A j \in Back' : replies'[j].op = "update" /\ replies'[j].ok =>
            root <= replies'[j].root
  <2>1. \A j \in Back' : 1 \in 1 .. (j + 1) - 1
    BY <1>3 DEF ShorterBack, Places
  <2> QED
    BY <2>1 DEF Ordered, Updates, ShorterBack
<1>11. Sets'
  BY <1>2, <1>3, <1>10 DEF Places, Longer, Ordered, Sets
<1>12. Updates'
  <2>1. \A j \in Back' : replies'[j].op = "update" /\ replies'[j].ok =>
          /\ replies'[j].root \in Root
          /\ Age(staged) <= replies'[j].root /\ replies'[j].root <= content
          /\ \A i \in Wire : wire[i].op = "set" => wire[i].new <= replies'[j].root
          /\ \A l \in 1 .. j - 1 : replies'[l].op = "update" /\ replies'[l].ok =>
               replies'[l].root <= replies'[j].root
    BY PoppedUpdates
  <2> QED
    BY <1>2, <1>3, <1>10, <2>1 DEF Longer, Updates
<1>13. Commits'
  <2>1. /\ \A i \in Wire : wire[i].op \in SaveOps => New(wire[i])' = New(wire[i])
        /\ \A j \in Back' : replies'[j].op \in SaveOps => New(replies[j])' = New(replies[j + 1])
    BY <1>3, <1>5 DEF New, Longer
  <2>2. \A i \in Wire' : wire'[i].op = "commit" => i \in Wire /\ wire[i].op = "commit"
    BY <1>2, <1>3 DEF Longer
  <2> QED
    BY <1>5, <2>1, <2>2 DEF Ordered, Commits, Acked, Done, SaveOps
<1> QED
  BY <1>6, <1>7, <1>8, <1>9, <1>11, <1>12, <1>13 DEF Ordered

\* What was staged goes out to be committed.
LEMMA CommitOrdered ==
  ASSUME TypeInv, TypeInv', Ordered, ShorterBack, 1 \in Back, NEW s \in Savers,
         Acked(1), replies[1].from = s,
         Moved(s, "commit", saver[s].new),
         Post("commit", s, NoRoot, NoRoot),
         UNCHANGED <<content, staged, committed, current, writes>>
  PROVE  Ordered'
<1> DEFINE q == [op |-> "commit", from |-> s, new |-> NoRoot, prev |-> NoRoot]
<1>1. q \in Requests /\ wire' = Append(wire, q)
  BY PostTyped DEF TypeInv, Post, SaveOps, Request, Requests
<1>2. q.op = "commit" /\ q.from = s
  OBVIOUS
<1> HIDE DEF q
<1>3. Longer(q) /\ Named /\ Aged /\ Places
  BY <1>1, Messages, Appended, Placed
<1>4. /\ saver'[s].at = "commit" /\ saver'[s].new = saver[s].new
      /\ saver'[s].prev = saver[s].prev
      /\ \A t \in Savers : t # s => saver'[t] = saver[t]
      /\ saver[s].at = "set"
  BY DEF Moved, Ordered, Links, SaveOps, Acked
<1>5. /\ \A i \in Wire : wire[i].op \in SaveOps =>
           wire[i].from # s /\ saver'[wire[i].from] = saver[wire[i].from]
      /\ \A j \in Back' : replies'[j].op \in SaveOps =>
           /\ j + 1 \in Back /\ replies'[j] = replies[j + 1]
           /\ replies'[j].from # s /\ saver'[replies'[j].from] = saver[replies'[j].from]
  BY <1>3, <1>4 DEF Named, Ordered, Single, SaveOps, ShorterBack, Acked
<1>6. Links'
  <2>1. \A i \in Wire' : wire'[i].op \in SaveOps =>
          /\ saver'[wire'[i].from].at = wire'[i].op
          /\ wire'[i].op = "set" => saver'[wire'[i].from].new = wire'[i].new
    BY <1>2, <1>3, <1>4, <1>5 DEF Longer, Ordered, Links
  <2>2. \A j \in Back' : replies'[j].op \in SaveOps =>
          saver'[replies'[j].from].at = replies'[j].op
    BY <1>5 DEF Ordered, Links
  <2> QED
    BY <2>1, <2>2 DEF Links
<1>7. Single'
  <2>1. \A i, l \in Wire' : wire'[i].op \in SaveOps /\ wire'[l].op \in SaveOps
                            /\ wire'[i].from = wire'[l].from => i = l
    BY <1>2, <1>3, <1>5 DEF Longer, Ordered, Single
  <2>2. \A j, l \in Back' : replies'[j].op \in SaveOps /\ replies'[l].op \in SaveOps
                            /\ replies'[j].from = replies'[l].from => j = l
    BY <1>3 DEF Ordered, Single, ShorterBack, Places
  <2>3. \A i \in Wire', j \in Back' :
          wire'[i].op \in SaveOps /\ replies'[j].op \in SaveOps
            => wire'[i].from # replies'[j].from
    BY <1>2, <1>3, <1>5 DEF Longer, Ordered, Single
  <2> QED
    BY <2>1, <2>2, <2>3 DEF Single
<1>8. Fresher' /\ Order'
  BY <1>2, <1>3 DEF Places, Longer, Ordered, Fresher, Order
<1>9. Previous'
  BY <1>4 DEF Ordered, Previous
<1>10. Sets'
  BY <1>2, <1>3 DEF Places, Longer, Ordered, Sets
<1>11. Updates'
  <2>1. \A j \in Back' : replies'[j].op = "update" /\ replies'[j].ok =>
          /\ replies'[j].root \in Root
          /\ Age(staged) <= replies'[j].root /\ replies'[j].root <= content
          /\ \A i \in Wire : wire[i].op = "set" => wire[i].new <= replies'[j].root
          /\ \A l \in 1 .. j - 1 : replies'[l].op = "update" /\ replies'[l].ok =>
               replies'[l].root <= replies'[j].root
    BY PoppedUpdates
  <2> QED
    BY <1>2, <1>3, <2>1 DEF Longer, Updates
<1>12. Commits'
  BY <1>2, <1>3, <1>4, <1>5 DEF Longer, Ordered, Commits, New, Acked, Done, SaveOps
<1> QED
  BY <1>6, <1>7, <1>8, <1>9, <1>10, <1>11, <1>12 DEF Ordered

\* A request is answered: who awaits whom stays as it was.
LEMMA AnswerLinks ==
  ASSUME TypeInv, TypeInv', Ordered, ShorterWire, 1 \in Wire, NEW r \in Replies,
         LongerBack(r), r.op = wire[1].op, r.from = wire[1].from, UNCHANGED saver
  PROVE  Links' /\ Single'
<1>1. Places /\ Named
  BY Placed, Messages
<1>2. \A i \in Wire' : wire'[i].op \in SaveOps =>
        /\ saver'[wire'[i].from].at = wire'[i].op
        /\ wire'[i].op = "set" => saver'[wire'[i].from].new = wire'[i].new
  BY DEF Ordered, Links, ShorterWire
<1>3. \A j \in Back' : replies'[j].op \in SaveOps =>
        saver'[replies'[j].from].at = replies'[j].op
  BY DEF Ordered, Links, LongerBack
<1>4. \A i, l \in Wire' : wire'[i].op \in SaveOps /\ wire'[l].op \in SaveOps
                        /\ wire'[i].from = wire'[l].from => i = l
  BY <1>1 DEF Ordered, Single, ShorterWire, Places
<1>5. \A j, l \in Back' : replies'[j].op \in SaveOps /\ replies'[l].op \in SaveOps
                        /\ replies'[j].from = replies'[l].from => j = l
  BY DEF Ordered, Single, LongerBack
<1>6. \A i \in Wire', j \in Back' :
        wire'[i].op \in SaveOps /\ replies'[j].op \in SaveOps
          => wire'[i].from # replies'[j].from
  BY DEF Ordered, Single, LongerBack, ShorterWire
<1> QED
  BY <1>2, <1>3, <1>4, <1>5, <1>6 DEF Links, Single

\* The requests that remain are in order.
LEMMA ServedOrder ==
  ASSUME TypeInv, TypeInv', Ordered, ShorterWire, 1 \in Wire
  PROVE  /\ \A i \in Wire' : wire'[i].op = "write" =>
              /\ content < wire'[i].new /\ wire'[i].new <= writes
              /\ wire[1].op = "write" => wire[1].new < wire'[i].new
              /\ \A l \in 1 .. i - 1 : wire'[l].op = "write" => wire'[l].new < wire'[i].new
         /\ \A i \in Wire' : wire'[i].op = "set" =>
              /\ wire'[i].new \in Root
              /\ Age(staged) <= wire'[i].new /\ wire'[i].new <= content
              /\ wire[1].op = "set" => wire[1].new <= wire'[i].new
              /\ \A l \in 1 .. i - 1 : wire'[l].op = "set" => wire'[l].new <= wire'[i].new
         /\ \A i \in Wire' : wire'[i].op = "commit" => New(wire'[i]) <= Age(staged)
<1>1. Places
  BY Placed
<1>2. /\ \A i \in Wire' : i + 1 \in Wire /\ 1 \in 1 .. (i + 1) - 1
      /\ \A i \in Wire' : \A l \in 1 .. i - 1 : l \in Wire' /\ l + 1 \in 1 .. (i + 1) - 1
  BY <1>1 DEF Places, ShorterWire
<1>3. \A i \in Wire' : wire'[i].op = "write" =>
        /\ content < wire'[i].new /\ wire'[i].new <= writes
        /\ wire[1].op = "write" => wire[1].new < wire'[i].new
        /\ \A l \in 1 .. i - 1 : wire'[l].op = "write" => wire'[l].new < wire'[i].new
  BY <1>2 DEF Ordered, Fresher, ShorterWire
<1>4. \A i \in Wire' : wire'[i].op = "set" =>
        /\ wire'[i].new \in Root
        /\ Age(staged) <= wire'[i].new /\ wire'[i].new <= content
        /\ wire[1].op = "set" => wire[1].new <= wire'[i].new
        /\ \A l \in 1 .. i - 1 : wire'[l].op = "set" => wire'[l].new <= wire'[i].new
  BY <1>2 DEF Ordered, Sets, ShorterWire
<1>5. \A i \in Wire' : wire'[i].op = "commit" => New(wire'[i]) <= Age(staged)
  BY DEF Ordered, Commits, ShorterWire
<1> QED
  BY <1>3, <1>4, <1>5

\* The answers to an update that were there are in order with the rest.
LEMMA ServedUpdates ==
  ASSUME TypeInv, TypeInv', Ordered, ShorterWire, 1 \in Wire, NEW r \in Replies,
         LongerBack(r)
  PROVE  \A j \in Back' : replies'[j].op = "update" /\ replies'[j].ok =>
           \/ replies'[j] = r /\ j = Len(replies) + 1
           \/ /\ j \in Back /\ replies'[j] = replies[j]
              /\ replies'[j].root \in Root /\ replies'[j].root \in Int
              /\ Age(staged) <= replies'[j].root /\ replies'[j].root <= content
              /\ \A i \in Wire' : wire'[i].op = "set" => wire'[i].new <= replies'[j].root
              /\ wire[1].op = "set" => wire[1].new <= replies'[j].root
              /\ \A l \in 1 .. j - 1 : replies'[l].op = "update" /\ replies'[l].ok =>
                   replies'[l].root <= replies'[j].root
<1>1. Places
  BY Placed
<1>2. \A j \in Back : \A l \in 1 .. j - 1 : l \in Back
  BY <1>1 DEF Places
<1>3. \A j \in Back : replies[j].op = "update" /\ replies[j].ok =>
        /\ replies[j].root \in Root /\ replies[j].root \in Int
        /\ Age(staged) <= replies[j].root /\ replies[j].root <= content
        /\ \A i \in Wire' : wire'[i].op = "set" => wire'[i].new <= replies[j].root
        /\ wire[1].op = "set" => wire[1].new <= replies[j].root
  BY Ages DEF Ordered, Updates, ShorterWire
<1>4. \A j \in Back : replies[j].op = "update" /\ replies[j].ok =>
        \A l \in 1 .. j - 1 : replies'[l].op = "update" /\ replies'[l].ok =>
          replies'[l].root <= replies[j].root
  BY <1>2 DEF Ordered, Updates, LongerBack
<1> QED
  BY <1>3, <1>4 DEF LongerBack

\* A request answered without effect, or with no answer that orders roots.
LEMMA FailOrdered ==
  ASSUME TypeInv, TypeInv', Ordered, ShorterWire, 1 \in Wire, NEW r \in Replies,
         LongerBack(r), r.op = wire[1].op, r.from = wire[1].from,
         ~r.ok \/ r.op \in Drops,
         UNCHANGED <<content, staged, committed, current, writes, saver>>
  PROVE  Ordered'
<1>1. Places /\ Named /\ Aged
  BY Placed, Messages
<1>2. Links' /\ Single'
  BY AnswerLinks
<1>3. Fresher' /\ Order' /\ Previous' /\ Sets'
  BY ServedOrder DEF Ordered, Fresher, Order, Previous, Sets
<1>4. Updates'
  BY ServedUpdates DEF Updates, Drops
<1>5. Commits'
  <2>1. \A m : New(m)' = New(m)
    BY DEF New
  <2> QED
    BY <2>1, ServedOrder DEF Ordered, Commits, Acked, Done, LongerBack, ShorterWire, Drops
<1> QED
  BY <1>2, <1>3, <1>4, <1>5 DEF Ordered

\* A write carried out.
LEMMA WrittenOrdered ==
  ASSUME TypeInv, TypeInv', Ordered, ShorterWire, 1 \in Wire, NEW r \in Replies,
         LongerBack(r), r.op = "write", wire[1].op = "write", r.from = wire[1].from,
         content' = wire[1].new,
         UNCHANGED <<staged, committed, current, writes, saver>>
  PROVE  Ordered'
<1>1. Places /\ Named /\ Aged
  BY Placed, Messages
<1>2. Links' /\ Single'
  BY AnswerLinks
<1>3. content < content' /\ content' <= writes
  BY DEF Ordered, Fresher
<1>4. content \in Int /\ content' \in Int /\ Age(staged) \in Int
  <2>1. content \in Root /\ content' \in Root /\ staged \in Root \cup {NoRoot}
    BY DEF TypeInv, TypeOK
  <2> QED
    BY <2>1, Ages
<1>5. Fresher'
  BY <1>3, ServedOrder DEF Fresher
<1>6. Order' /\ Previous'
  BY <1>3, <1>4 DEF Ordered, Order, Previous
<1>7. Sets'
  BY <1>3, <1>4, ServedOrder, Ages DEF Sets
<1>8. Updates'
  BY <1>3, <1>4, ServedUpdates DEF Updates
<1>9. Commits'
  <2>1. \A m : New(m)' = New(m)
    BY DEF New
  <2> QED
    BY <2>1, ServedOrder DEF Ordered, Commits, Acked, Done, LongerBack
<1> QED
  BY <1>2, <1>5, <1>6, <1>7, <1>8, <1>9 DEF Ordered

\* The root of the content asked for: none before it is newer.
LEMMA UpdateOrdered ==
  ASSUME TypeInv, TypeInv', Ordered, ShorterWire, 1 \in Wire, NEW r \in Replies,
         LongerBack(r), r.op = "update", wire[1].op = "update", r.from = wire[1].from,
         r.root = content,
         UNCHANGED <<content, staged, committed, current, writes, saver>>
  PROVE  Ordered'
<1>1. Places /\ Named /\ Aged /\ content \in Root
  BY Placed, Messages DEF TypeInv, TypeOK
<1>2. Links' /\ Single'
  BY AnswerLinks
<1>3. Fresher' /\ Order' /\ Previous' /\ Sets'
  BY ServedOrder DEF Ordered, Fresher, Order, Previous, Sets
<1>4. Updates'
  <2>1. /\ Age(staged) <= content
        /\ \A i \in Wire' : wire'[i].op = "set" => wire'[i].new <= content
        /\ \A j \in Back : replies[j].op = "update" /\ replies[j].ok => replies[j].root <= content
    BY ServedOrder DEF Ordered, Order, Updates
  <2>2. \A l \in 1 .. (Len(replies) + 1) - 1 : l \in Back
    BY <1>1 DEF LongerBack, Places, TypeInv, Back
  <2>3. \A l \in 1 .. (Len(replies) + 1) - 1 : replies'[l].op = "update" /\ replies'[l].ok =>
          replies'[l].root <= content
    BY <2>1, <2>2 DEF LongerBack
  <2>4. content <= content
    BY <1>1, Ages
  <2>5. ASSUME NEW j \in Back', replies'[j].op = "update", replies'[j].ok
        PROVE  /\ replies'[j].root \in Root
               /\ Age(staged) <= replies'[j].root /\ replies'[j].root <= content
               /\ \A i \in Wire' : wire'[i].op = "set" => wire'[i].new <= replies'[j].root
               /\ \A l \in 1 .. j - 1 : replies'[l].op = "update" /\ replies'[l].ok =>
                    replies'[l].root <= replies'[j].root
    <3>1. CASE replies'[j] = r /\ j = Len(replies) + 1
      BY <1>1, <2>1, <2>3, <2>4, <3>1
    <3>2. CASE j \in Back
      BY <2>1, <2>5, <3>2, ServedUpdates DEF LongerBack
    <3> QED
      BY <2>5, <3>1, <3>2, ServedUpdates
  <2> QED
    BY <2>5 DEF Updates, Age
<1>5. Commits'
  <2>1. \A m : New(m)' = New(m)
    BY DEF New
  <2> QED
    BY <2>1, ServedOrder DEF Ordered, Commits, Acked, Done, LongerBack
<1> QED
  BY <1>2, <1>3, <1>4, <1>5 DEF Ordered

\* A root staged.
LEMMA StagedOrdered ==
  ASSUME TypeInv, TypeInv', Ordered, ShorterWire, 1 \in Wire, NEW r \in Replies,
         LongerBack(r), r.op = "set", wire[1].op = "set", r.from = wire[1].from,
         staged' = wire[1].new,
         UNCHANGED <<content, committed, current, writes, saver>>
  PROVE  Ordered'
<1>1. Places /\ Named /\ Aged
  BY Placed, Messages
<1>2. Links' /\ Single'
  BY AnswerLinks
<1>3. /\ wire[1].new \in Root /\ Age(staged) <= wire[1].new /\ wire[1].new <= content
      /\ saver[wire[1].from].new = wire[1].new /\ Age(staged') = wire[1].new
  BY Ages DEF Ordered, Sets, Links, SaveOps
<1>4. /\ Age(staged) \in Int /\ Age(committed) \in Int /\ Age(staged') \in Int
      /\ Age(staged) <= Age(staged') /\ Age(staged') <= content
  BY <1>3, Ages DEF TypeInv, TypeOK
<1>5. Fresher'
  BY ServedOrder DEF Ordered, Fresher
<1>6. Order' /\ Previous'
  <2>1. /\ Age(staged)' = Age(staged') /\ Age(committed)' = Age(committed)
        /\ Age(current)' = Age(current)
        /\ \A s \in Savers : Age(saver[s].prev)' = Age(saver[s].prev)
    BY DEF Age
  <2> QED
    BY <1>4, <2>1 DEF Ordered, Order, Previous
<1>7. Sets'
  BY <1>3, ServedOrder DEF Sets, Age
<1>8. Updates'
  <2>1. Age(staged)' = wire[1].new
    BY <1>3 DEF Age
  <2> QED
    BY <2>1, ServedUpdates DEF Updates
<1>9. Commits'
  <2>1. /\ \A m : New(m)' = New(m)
        /\ New(r) = Age(staged') /\ Age(staged)' = Age(staged')
    BY <1>3 DEF New, Age
  <2>2. /\ \A i \in Wire' : wire'[i].op = "commit" => New(wire'[i]) <= Age(staged')
        /\ \A j \in Back : Acked(j) => New(replies[j]) <= Age(staged')
    <3>1. /\ \A i \in Wire' : wire'[i].op = "commit" => New(wire'[i]) \in Int
          /\ \A j \in Back : Acked(j) => New(replies[j]) \in Int
      BY <1>1 DEF Aged, ShorterWire, Acked, SaveOps
    <3> QED
      BY <1>4, <3>1, ServedOrder DEF Ordered, Commits
  <2>3. Age(staged') <= Age(staged')
    BY <1>4
  <2> QED
    BY <2>1, <2>2, <2>3 DEF Ordered, Commits, Acked, Done, LongerBack, Age
<1> QED
  BY <1>2, <1>5, <1>6, <1>7, <1>8, <1>9 DEF Ordered

\* What is staged committed.
LEMMA CommittedOrdered ==
  ASSUME TypeInv, TypeInv', Ordered, ShorterWire, 1 \in Wire, NEW r \in Replies,
         LongerBack(r), r.op = "commit", wire[1].op = "commit", r.from = wire[1].from,
         committed' = staged,
         UNCHANGED <<content, staged, current, writes, saver>>
  PROVE  Ordered'
<1>1. Places /\ Named /\ Aged
  BY Placed, Messages
<1>2. Links' /\ Single'
  BY AnswerLinks
<1>3. /\ Age(staged) \in Int /\ Age(committed) \in Int /\ Age(current) \in Int
      /\ \A s \in Savers : Age(saver[s].prev) \in Int
      /\ Age(committed) <= Age(committed') /\ Age(committed') = Age(staged)
  BY Messages, Ages DEF TypeInv, TypeOK, Ordered, Order
<1>4. Fresher' /\ Sets'
  BY ServedOrder DEF Ordered, Fresher, Sets
<1>5. Order' /\ Previous'
  <2>1. /\ Age(staged)' = Age(staged) /\ Age(committed)' = Age(committed')
        /\ Age(current)' = Age(current)
        /\ \A s \in Savers : Age(saver[s].prev)' = Age(saver[s].prev)
    BY DEF Age
  <2>2. Age(current) <= Age(committed') /\ Age(committed') <= Age(staged)
        /\ \A s \in Savers : saver[s].at # "idle" => Age(saver[s].prev) <= Age(committed')
    BY <1>3 DEF Ordered, Order, Previous
  <2> QED
    BY <2>1, <2>2 DEF Ordered, Order, Previous
<1>6. Updates'
  BY ServedUpdates DEF Updates
<1>7. Commits'
  <2>1. /\ \A m : New(m)' = New(m)
        /\ New(r) <= Age(committed') /\ Age(committed)' = Age(committed')
    BY <1>3 DEF New, Age, Ordered, Commits
  <2>2. \A j \in Back : Done(j) => New(replies[j]) <= Age(committed')
    <3>1. \A j \in Back : Done(j) => New(replies[j]) \in Int
      BY <1>1 DEF Aged, Done, SaveOps
    <3> QED
      BY <1>3, <3>1 DEF Ordered, Commits
  <2> QED
    BY <2>1, <2>2, ServedOrder DEF Ordered, Commits, Acked, Done, LongerBack, Age
<1> QED
  BY <1>2, <1>4, <1>5, <1>6, <1>7 DEF Ordered

\* The router answers the first request: the facts of both sides.
LEMMA Answered ==
  ASSUME TypeInv, wire # <<>>, NEW ok \in BOOLEAN, NEW root \in Root \cup {NoRoot},
         Answer(Head(wire), ok, root)
  PROVE  \E r \in Replies :
           /\ r.ok = ok /\ r.root = root /\ r.new = wire[1].new
           /\ r.op = wire[1].op /\ r.from = wire[1].from
           /\ LongerBack(r) /\ ShorterWire /\ 1 \in Wire /\ Head(wire) = wire[1]
           /\ wire[1] \in Requests
           /\ UNCHANGED <<current, writes, saver, abort, dirty>>
<1> DEFINE q == Head(wire)
           r == Response(q, ok, root)
<1>1. wire \in Seq(Requests) /\ replies \in Seq(Replies)
  BY DEF TypeInv
<1>2. r \in Replies /\ replies' = Append(replies, r) /\ wire' = Tail(wire)
      /\ UNCHANGED <<current, writes, saver, abort, dirty>>
  BY AnswerTyped
<1>3. r.ok = ok /\ r.root = root /\ r.op = q.op /\ r.from = q.from /\ r.new = q.new
  BY DEF Response
<1> HIDE DEF r
<1>4. ShorterWire /\ 1 \in Wire /\ q = wire[1] /\ q \in Requests
  BY <1>1, <1>2, TailFacts DEF Wire, ShorterWire
<1>5. LongerBack(r)
  BY <1>1, <1>2, AppendFacts DEF Back, LongerBack
<1> QED
  BY <1>2, <1>3, <1>4, <1>5

\* A call resumes: one of four ways of a save to go on, or no save at all.
LEMMA ResumeOrdered ==
  ASSUME TypeInv, TypeInv', Ordered, Resume
  PROVE  Ordered'
<1> DEFINE r == Head(replies)
           s == r.from
<1>1. /\ replies # <<>> /\ replies' = Tail(replies)
      /\ \/ Wrote(r) \/ Updated(r) \/ Staged(r) \/ Committed(r)
         \/ SingleDropped(r) \/ PathDropped(r)
  BY DEF Resume
<1>2. ShorterBack /\ 1 \in Back /\ r = replies[1] /\ r \in Replies
  BY <1>1, Popped, Messages
<1>3. /\ UNCHANGED <<content, staged, committed, writes>>
      /\ Age(current) <= Age(committed)
  BY <1>1 DEF Wrote, Updated, Staged, Committed, SingleDropped, PathDropped, router,
     Ordered, Order
<1> HIDE DEF r
<1>4. /\ \A i \in Wire : UNCHANGED wire => i \in Wire'
      /\ UNCHANGED wire =>
           \A i \in Wire' : wire'[i].op \in Drops \/ (i \in Wire /\ wire'[i] = wire[i])
  BY DEF Wire
<1>5. CASE Wrote(r) \/ PathDropped(r)
  <2>1. UNCHANGED <<wire, saver, current>>
    BY <1>5 DEF Wrote, PathDropped
  <2> QED
    BY <1>2, <1>3, <1>4, <2>1, OverOrdered
<1>6. CASE SingleDropped(r)
  <2> DEFINE q == [op |-> "drop_path", from |-> 0, new |-> NoRoot, prev |-> NoRoot]
  <2>1. UNCHANGED <<saver, current>> /\ q \in Requests /\ wire' = Append(wire, q)
    BY <1>6, PostTyped DEF SingleDropped, Post, SaveOps, TypeInv, Request, Requests
  <2>2. Longer(q) /\ q.op \in Drops
    BY <2>1, Appended DEF Drops
  <2>3. \A i \in Wire' : wire'[i].op \in Drops \/ (i \in Wire /\ wire'[i] = wire[i])
    BY <2>2 DEF Longer
  <2> QED
    BY <1>2, <1>3, <2>1, <2>3, OverOrdered
<1>7. ASSUME Updated(r) \/ Staged(r) \/ Committed(r)
      PROVE  /\ s \in Savers /\ r.op \in SaveOps
             /\ saver[s].prev \in Root \cup {NoRoot} /\ r.root \in Root \cup {NoRoot}
  BY <1>2, <1>7, Messages DEF Replies, Reply, SaveOps, Updated, Staged, Committed
<1>8. ASSUME Updated(r) \/ Staged(r) \/ Committed(r),
             saver' = [saver EXCEPT ![s] = Idle], UNCHANGED wire,
             Age(current') <= Age(committed)
      PROVE  Ordered'
  <2>1. \A t \in Savers :
          \/ saver'[t] = saver[t]
          \/ replies[1].op \in SaveOps /\ t = replies[1].from /\ saver'[t].at = "idle"
    <3>1. saver \in Savings /\ Idle.at = "idle"
      BY DEF TypeInv, TypeOK, Savings, Idle
    <3>2. saver'[s] = Idle /\ \A t \in Savers : t # s => saver'[t] = saver[t]
      BY <1>7, <1>8, <3>1 DEF Savings
    <3>3. replies[1].op \in SaveOps /\ replies[1].from = s
      BY <1>2, <1>7, <1>8
    <3> QED
      BY <3>1, <3>2, <3>3
  <2> QED
    BY <1>2, <1>3, <1>4, <1>8, <2>1, OverOrdered
<1>9. CASE Updated(r)
  <2>1. CASE ~r.ok /\ SaveFails(s)
    BY <1>3, <1>8, <1>9, <2>1 DEF SaveFails
  <2>2. CASE saver' = [saver EXCEPT ![s] = Idle] /\ UNCHANGED <<current, dirty, wire>>
    BY <1>3, <1>8, <1>9, <2>2
  <2>3. CASE /\ r.ok /\ saver' = [saver EXCEPT ![s].at = "set", ![s].new = r.root]
             /\ Post("set", s, r.root, saver[s].prev)
             /\ UNCHANGED <<current, dirty>>
    <3>1. Moved(s, "set", r.root) /\ r.op = "update"
      BY <1>7, <1>9, <2>3 DEF TypeInv, TypeOK, Moved, Updated
    <3> QED
      BY <1>2, <1>3, <1>7, <1>9, <2>3, <3>1, StageOrdered
  <2> QED
    BY <1>9, <2>1, <2>2, <2>3 DEF Updated
<1>10. CASE Staged(r)
  <2>1. CASE ~r.ok /\ SaveFails(s)
    BY <1>3, <1>8, <1>10, <2>1 DEF SaveFails
  <2>2. CASE /\ r.ok /\ saver' = [saver EXCEPT ![s].at = "commit"]
             /\ Post("commit", s, NoRoot, NoRoot)
             /\ UNCHANGED <<current, dirty>>
    <3>1. Moved(s, "commit", saver[s].new) /\ Acked(1)
      BY <1>2, <1>7, <1>10, <2>2 DEF TypeInv, TypeOK, Moved, Staged, Acked
    <3> QED
      BY <1>2, <1>3, <1>7, <1>10, <2>2, <3>1, CommitOrdered
  <2> QED
    BY <1>10, <2>1, <2>2 DEF Staged
<1>11. CASE Committed(r)
  <2>1. CASE ~r.ok /\ SaveFails(s)
    BY <1>3, <1>8, <1>11, <2>1 DEF SaveFails
  <2>2. CASE /\ r.ok /\ current' = saver[s].new /\ UNCHANGED <<dirty, wire>>
             /\ saver' = [saver EXCEPT ![s] = Idle]
    <3>1. Done(1) /\ New(replies[1]) = Age(current')
      BY <1>2, <1>11, <2>2 DEF Committed, Done, New
    <3>2. Age(current') <= Age(committed)
      BY <1>2, <3>1 DEF Ordered, Commits
    <3> QED
      BY <1>8, <1>11, <2>2, <3>2
  <2> QED
    BY <1>11, <2>1, <2>2 DEF Committed
<1> QED
  BY <1>1, <1>5, <1>6, <1>9, <1>10, <1>11

\* The router takes a request.
LEMMA ServeOrdered ==
  ASSUME TypeInv, TypeInv', Ordered, Serve \/ Fail
  PROVE  Ordered'
<1>1. wire # <<>> /\ {content, staged} \subseteq Root \cup {NoRoot}
  BY DEF Serve, Fail, TypeInv, TypeOK
<1>2. ASSUME NEW ok \in BOOLEAN, NEW root \in Root \cup {NoRoot},
             Answer(Head(wire), ok, root), UNCHANGED <<content, staged, committed>>,
             ~ok \/ Head(wire).op \in Drops
      PROVE  Ordered'
  BY <1>1, <1>2, Answered, FailOrdered
<1>3. CASE Fail
  BY <1>2, <1>3 DEF Fail
<1>4. CASE Serve
  <2> DEFINE q == Head(wire)
  <2>1. CASE Answer(q, FALSE, NoRoot) /\ UNCHANGED router
    BY <1>2, <2>1 DEF router
  <2>2. CASE /\ q.op = "write" /\ Answer(q, TRUE, content) /\ content' = q.new
             /\ UNCHANGED <<staged, committed, aborted, slipped, undropped>>
    <3>1. PICK r \in Replies :
            /\ r.op = wire[1].op /\ r.from = wire[1].from
            /\ LongerBack(r) /\ ShorterWire /\ 1 \in Wire /\ Head(wire) = wire[1]
            /\ UNCHANGED <<current, writes, saver>>
      BY <1>1, <2>2, Answered
    <3> QED
      BY <2>2, <3>1, WrittenOrdered
  <2>3. CASE q.op = "update" /\ Answer(q, TRUE, content) /\ UNCHANGED router
    <3>1. PICK r \in Replies :
            /\ r.root = content /\ r.op = wire[1].op /\ r.from = wire[1].from
            /\ LongerBack(r) /\ ShorterWire /\ 1 \in Wire /\ Head(wire) = wire[1]
            /\ UNCHANGED <<current, writes, saver>>
      BY <1>1, <2>3, Answered
    <3> QED
      BY <2>3, <3>1, UpdateOrdered DEF router
  <2>4. CASE /\ q.op = "set" /\ Answer(q, TRUE, staged) /\ staged' = q.new
             /\ UNCHANGED <<content, committed, aborted, slipped, undropped>>
    <3>1. PICK r \in Replies :
            /\ r.op = wire[1].op /\ r.from = wire[1].from
            /\ LongerBack(r) /\ ShorterWire /\ 1 \in Wire /\ Head(wire) = wire[1]
            /\ UNCHANGED <<current, writes, saver>>
      BY <1>1, <2>4, Answered
    <3> QED
      BY <2>4, <3>1, StagedOrdered
  <2>5. CASE /\ q.op = "commit" /\ Answer(q, TRUE, staged) /\ committed' = staged
             /\ UNCHANGED <<content, staged, aborted, undropped>>
    <3>1. PICK r \in Replies :
            /\ r.op = wire[1].op /\ r.from = wire[1].from
            /\ LongerBack(r) /\ ShorterWire /\ 1 \in Wire /\ Head(wire) = wire[1]
            /\ UNCHANGED <<current, writes, saver>>
      BY <1>1, <2>5, Answered
    <3> QED
      BY <2>5, <3>1, CommittedOrdered
  <2>6. CASE /\ q.op \in Drops /\ Answer(q, TRUE, NoRoot)
             /\ UNCHANGED <<content, staged, committed>>
    BY <1>2, <2>6
  <2> QED
    BY <1>4, <2>1, <2>2, <2>3, <2>4, <2>5, <2>6 DEF Serve, Drops
<1> QED
  BY <1>3, <1>4

\* The order of the roots is kept by every step.
LEMMA OrderedStep ==
  ASSUME Fresh, TypeInv, TypeInv', Ordered, [Next]_vars
  PROVE  Ordered'
<1>1. CASE \E v \in Values : Write(v)
  BY <1>1, WriteOrdered
<1>2. CASE Save
  <2>1. CASE SaveClean
    BY <2>1, SameOrdered DEF SaveClean, router, Posts
  <2> QED
    BY <1>2, <2>1, BeginOrdered DEF Save
<1>3. CASE SaveCall \/ Tick
  BY <1>2, <1>3 DEF SaveCall, Tick
<1>4. CASE StartSave \/ StopSave
  BY <1>4, SameOrdered DEF StartSave, StopSave, router, Posts
<1>5. CASE Abort
  <2>1. Posts("drop_single")
    BY <1>5, PostTyped DEF Abort, SaveOps, TypeInv, Posts
  <2> QED
    BY <1>5, <2>1, SameOrdered DEF Abort, router
<1>6. CASE UNCHANGED vars
  BY <1>6, SameOrdered DEF vars, Posts
<1> QED
  BY <1>1, <1>3, <1>4, <1>5, <1>6, ResumeOrdered, ServeOrdered DEF Next

-----------------------------------------------------------------------------
\* Nothing is answered, and nothing goes off the wire.
LEMMA KeptMarked ==
  ASSUME Marked, UNCHANGED <<content, staged, committed, replies>>,
         abort' = "no" => abort = "no", dirty => dirty',
         \A i \in Wire : i \in Wire' /\ wire'[i] = wire[i]
  PROVE  Marked'
<1>1. Back' = Back /\ \A m : (Tells(m)' <=> Tells(m)) /\ (Asks(m)' <=> Asks(m))
  BY DEF Back, Tells, Asks
<1>2. Carried' <=> Carried
  BY DEF Carried
<1> QED
  BY <1>1, <1>2 DEF Marked

\* A request more keeps those that were there.
LEMMA PostedKeeps ==
  ASSUME TypeInv, NEW o, Posts(o)
  PROVE  \A i \in Wire : i \in Wire' /\ wire'[i] = wire[i]
<1>1. CASE UNCHANGED wire
  BY <1>1 DEF Wire
<1>2. ASSUME NEW q \in Requests, wire' = Append(wire, q)
      PROVE  \A i \in Wire : i \in Wire' /\ wire'[i] = wire[i]
  BY <1>2, Appended DEF Longer
<1> QED
  BY <1>1, <1>2 DEF Posts

\* An answer is taken in that said nothing, or whose word is carried on.
LEMMA TakenMarked ==
  ASSUME TypeInv, Marked, replies # <<>>, replies' = Tail(replies),
         UNCHANGED <<content, staged, committed, abort>>, dirty => dirty',
         \A i \in Wire : i \in Wire' /\ wire'[i] = wire[i],
         Tells(replies[1]) => \/ dirty' \/ Carried
                              \/ \E i \in Wire' : Asks(wire'[i])
  PROVE  Marked'
<1>1. \A j \in Back : j # 1 => j - 1 \in Back' /\ replies'[j - 1] = replies[j]
  BY TailFacts DEF Back, TypeInv
<1>2. \A m : (Tells(m)' <=> Tells(m)) /\ (Asks(m)' <=> Asks(m))
  BY DEF Tells, Asks
<1>3. (Carried' <=> Carried) /\ 1 \in Back
  BY Popped DEF Carried
<1> QED
  BY <1>1, <1>2, <1>3 DEF Marked

\* A request is answered: what the requests and answers say holds on.
LEMMA ServedMarked ==
  ASSUME TypeInv, Marked, wire # <<>>, wire' = Tail(wire), NEW r \in Replies,
         LongerBack(r), UNCHANGED <<abort, dirty>>, abort = "no",
         \/ Tells(r)'
         \/ /\ Carried => Carried'
            /\ \A m : (Tells(m) => Tells(m)') /\ (Asks(m) => Asks(m)')
            /\ Asks(wire[1]) => Carried'
  PROVE  Marked'
<1>1. \A i \in Wire : i # 1 => i - 1 \in Wire' /\ wire'[i - 1] = wire[i]
  BY TailFacts DEF Wire, TypeInv
<1>2. CASE Tells(r)'
  <2>1. Len(replies) + 1 \in Back' /\ replies'[Len(replies) + 1] = r
    BY DEF LongerBack
  <2>2. (\E j \in Back : Tells(replies[j]))'
    BY <1>2, <2>1 DEF Tells
  <2> QED
    BY <2>2 DEF Marked
<1>3. CASE /\ Carried => Carried'
           /\ \A m : (Tells(m) => Tells(m)') /\ (Asks(m) => Asks(m)')
           /\ Asks(wire[1]) => Carried'
  <2>1. CASE dirty \/ Carried
    BY <1>3, <2>1 DEF Marked
  <2>2. ASSUME NEW j \in Back, Tells(replies[j]) PROVE Marked'
    <3>1. j \in Back' /\ replies'[j] = replies[j]
      BY DEF LongerBack
    <3>2. Tells(replies[j])'
      BY <1>3, <2>2, <3>1 DEF Tells
    <3> QED
      BY <3>1, <3>2 DEF Marked
  <2>3. ASSUME NEW i \in Wire, Asks(wire[i]) PROVE Marked'
    <3>1. CASE i = 1
      BY <1>3, <2>3, <3>1 DEF Marked
    <3>2. CASE i # 1
      <4>1. i - 1 \in Wire' /\ wire'[i - 1] = wire[i]
        BY <1>1, <3>2
      <4>2. Asks(wire[i - 1])'
        BY <1>3, <2>3, <4>1 DEF Asks
      <4> QED
        BY <4>1, <4>2 DEF Marked
    <3> QED
      BY <3>1, <3>2
  <2> QED
    BY <2>1, <2>2, <2>3 DEF Marked
<1> QED
  BY <1>2, <1>3

\* A call resumes: it marks what was not carried on.
LEMMA ResumeMarked ==
  ASSUME TypeInv, Ordered, Marked, Resume
  PROVE  Marked'
<1> DEFINE r == Head(replies)
           s == r.from
<1>1. /\ replies # <<>> /\ replies' = Tail(replies)
      /\ \/ Wrote(r) \/ Updated(r) \/ Staged(r) \/ Committed(r)
         \/ SingleDropped(r) \/ PathDropped(r)
  BY DEF Resume
<1>2. 1 \in Back /\ r = replies[1] /\ r \in Replies
  BY <1>1, Popped, Messages
<1> HIDE DEF r
<1>3. CASE SingleDropped(r) \/ PathDropped(r)
  BY <1>3 DEF SingleDropped, PathDropped, Marked
<1>4. CASE Wrote(r)
  <2>1. /\ UNCHANGED <<content, staged, committed, abort, wire>>
        /\ dirty => dirty'
        /\ Tells(r) => dirty'
    BY <1>4 DEF Wrote, router, Tells
  <2>2. \A i \in Wire : i \in Wire' /\ wire'[i] = wire[i]
    BY <2>1 DEF Wire
  <2> QED
    BY <1>1, <1>2, <2>1, <2>2, TakenMarked
<1>5. CASE Updated(r) \/ Staged(r) \/ Committed(r)
  <2>1. /\ UNCHANGED <<content, staged, committed, abort>>
        /\ dirty => dirty'
    BY <1>5 DEF Updated, Staged, Committed, SaveFails, router
  <2>2. \A i \in Wire : i \in Wire' /\ wire'[i] = wire[i]
    BY <1>2, <1>5, SaverPosts, PostedKeeps
  <2>3. s \in Savers /\ saver[s].prev \in Root \cup {NoRoot} /\ r.root \in Root \cup {NoRoot}
    BY <1>2, <1>5, Messages DEF Replies, Reply, SaveOps, Updated, Staged, Committed
  <2>4. ASSUME Updated(r), Tells(r), ~dirty' PROVE Carried \/ \E i \in Wire' : Asks(wire'[i])
    <3>1. r.op = "update" /\ r.ok /\ r.root = content
      BY <2>4 DEF Updated, Tells, SaveFails
    <3>2. CASE r.root = saver[s].prev
      <4>1. /\ saver[s].at = "update" /\ Age(saver[s].prev) <= Age(committed)
            /\ Age(committed) <= Age(staged) /\ Age(staged) <= content
        BY <1>2, <2>3, <3>1 DEF Ordered, Links, Previous, Order, SaveOps
      <4>2. content \in Root /\ committed \in Root \cup {NoRoot} /\ staged \in Root \cup {NoRoot}
        BY DEF TypeInv, TypeOK
      <4>3. content \in Int /\ Age(content) = content
            /\ Age(committed) \in Int /\ Age(staged) \in Int
        BY <4>2, Ages
      <4>4. Age(committed) = Age(content)
        BY <3>1, <3>2, <4>1, <4>3
      <4> QED
        BY <4>2, <4>4, Ages DEF Carried
    <3>3. CASE Post("set", s, r.root, saver[s].prev)
      <4> DEFINE q == [op |-> "set", from |-> s, new |-> r.root, prev |-> saver[s].prev]
      <4>1. q \in Requests /\ wire' = Append(wire, q)
        BY <2>3, <3>3, PostTyped DEF TypeInv, Post, SaveOps, Request, Requests
      <4>2. Longer(q) /\ q.op = "set" /\ q.new = content
        BY <3>1, <4>1, Appended
      <4> QED
        BY <4>2 DEF Longer, Asks
    <3> QED
      BY <2>4, <3>1, <3>2, <3>3 DEF Updated
  <2>5. ASSUME Staged(r), Tells(r), ~dirty' PROVE \E i \in Wire' : Asks(wire'[i])
    <3> DEFINE q == [op |-> "commit", from |-> s, new |-> NoRoot, prev |-> NoRoot]
    <3>1. staged = content /\ Post("commit", s, NoRoot, NoRoot)
      BY <2>5 DEF Staged, Tells, SaveFails
    <3>2. q \in Requests /\ wire' = Append(wire, q)
      BY <2>3, <3>1, PostTyped DEF TypeInv, Post, SaveOps, Request, Requests
    <3>3. Longer(q) /\ q.op = "commit"
      BY <3>2, Appended
    <3> QED
      BY <3>1, <3>3 DEF Longer, Asks
  <2>6. ASSUME Committed(r), Tells(r) PROVE dirty'
    BY <2>6 DEF Committed, Tells, SaveFails
  <2>7. Tells(replies[1]) => dirty' \/ Carried \/ \E i \in Wire' : Asks(wire'[i])
    BY <1>2, <1>5, <2>4, <2>5, <2>6
  <2> QED
    BY <1>1, <2>1, <2>2, <2>7, TakenMarked
<1> QED
  BY <1>1, <1>3, <1>4, <1>5

\* A request is served, or fails.
LEMMA ServeMarked ==
  ASSUME TypeInv, Final, Ordered, Marked, Serve \/ Fail
  PROVE  Marked'
<1> DEFINE q == Head(wire)
<1>1. /\ wire # <<>> /\ content \in Root
      /\ content \in Root \cup {NoRoot} /\ staged \in Root \cup {NoRoot}
      /\ committed \in Root \cup {NoRoot} /\ NoRoot \in Root \cup {NoRoot}
  BY DEF Serve, Fail, TypeInv, TypeOK
<1>2. /\ content \in Int /\ Age(content) = content
      /\ Age(staged) \in Int /\ Age(committed) \in Int
      /\ Age(committed) <= Age(staged) /\ Age(staged) <= content
  BY <1>1, Ages DEF Ordered, Order
<1>3. /\ \A m : UNCHANGED <<content, staged>> =>
             (Tells(m) => Tells(m)') /\ (Asks(m) => Asks(m)')
      /\ UNCHANGED <<content, committed>> => (Carried => Carried')
  BY DEF Tells, Asks, Carried
<1>4. ASSUME NEW ok \in BOOLEAN, NEW root \in Root \cup {NoRoot}, Answer(q, ok, root)
      PROVE  \E r \in Replies :
               /\ r.ok = ok /\ r.root = root /\ r.new = q.new /\ r.op = q.op
               /\ LongerBack(r) /\ wire' = Tail(wire) /\ q = wire[1] /\ 1 \in Wire
               /\ q \in Requests /\ UNCHANGED <<abort, dirty>>
  BY <1>1, <1>4, Answered DEF Answer
<1>5. ASSUME Answer(q, FALSE, NoRoot), UNCHANGED <<content, staged, committed>>, abort = "no"
      PROVE  Marked'
  <2>1. PICK r \in Replies :
          /\ ~r.ok /\ r.op = q.op
          /\ LongerBack(r) /\ wire' = Tail(wire) /\ q = wire[1] /\ q \in Requests
          /\ UNCHANGED <<abort, dirty>>
    BY <1>4, <1>5
  <2>2. CASE q.op \in SaveOps
    BY <1>1, <1>5, <2>1, <2>2, ServedMarked DEF Tells, SaveOps
  <2>3. CASE q.op \notin SaveOps
    <3>1. ~Asks(q)
      BY <2>3 DEF Asks, SaveOps
    <3> QED
      BY <1>1, <1>3, <1>5, <2>1, <3>1, ServedMarked
  <2> QED
    BY <2>2, <2>3
<1>6. CASE abort # "no"
  <2>1. UNCHANGED abort
    BY DEF Serve, Fail, Answer
  <2> QED
    BY <1>6, <2>1 DEF Marked
<1>7. CASE abort = "no" /\ Fail
  BY <1>5, <1>7 DEF Fail
<1>8. CASE abort = "no" /\ Serve
  <2>1. q.op \notin Drops
    BY <1>1, <1>8, TailFacts DEF Final, TypeInv
  <2>2. CASE Answer(q, FALSE, NoRoot) /\ UNCHANGED router
    BY <1>5, <1>8, <2>2 DEF router
  <2>3. CASE q.op = "write" /\ Answer(q, TRUE, content)
    <3>1. PICK r \in Replies :
            /\ r.ok /\ r.op = "write" /\ r.root = content /\ r.new = q.new
            /\ LongerBack(r) /\ wire' = Tail(wire) /\ q = wire[1] /\ 1 \in Wire
            /\ UNCHANGED <<abort, dirty>>
      BY <1>1, <1>4, <2>3
    <3>2. content < q.new
      BY <2>3, <3>1 DEF Ordered, Fresher
    <3>3. content # q.new
      BY <1>2, <3>2
    <3> QED
      BY <1>1, <1>8, <3>1, <3>3, ServedMarked DEF Tells
  <2>4. CASE q.op = "update" /\ Answer(q, TRUE, content) /\ UNCHANGED router
    <3>1. PICK r \in Replies :
            /\ r.ok /\ r.op = "update" /\ r.root = content
            /\ LongerBack(r) /\ wire' = Tail(wire) /\ UNCHANGED <<abort, dirty>>
      BY <1>1, <1>4, <2>4
    <3> QED
      BY <1>1, <1>8, <2>4, <3>1, ServedMarked DEF Tells, router
  <2>5. CASE /\ q.op = "set" /\ Answer(q, TRUE, staged)
             /\ staged' = q.new /\ UNCHANGED <<content, committed, aborted, slipped, undropped>>
    <3>1. PICK r \in Replies :
            /\ r.ok /\ r.op = "set"
            /\ LongerBack(r) /\ wire' = Tail(wire) /\ q = wire[1] /\ 1 \in Wire
            /\ UNCHANGED <<abort, dirty>>
      BY <1>1, <1>4, <2>5
    <3>2. q.new \in Root /\ Age(staged) <= q.new /\ q.new <= content
      BY <2>5, <3>1 DEF Ordered, Sets
    <3>3. staged = content => q.new = content
      BY <1>2, <3>2, Ages
    <3>4. CASE q.new = content
      BY <1>1, <1>8, <2>5, <3>1, <3>4, ServedMarked DEF Tells
    <3>5. CASE q.new # content
      <4>1. \A m : (Tells(m) => Tells(m)') /\ (Asks(m) => Asks(m)')
        BY <2>5, <3>3, <3>5 DEF Tells, Asks
      <4>2. ~Asks(q)
        BY <2>5, <3>5 DEF Asks
      <4> QED
        BY <1>1, <1>3, <1>8, <2>5, <3>1, <4>1, <4>2, ServedMarked
    <3> QED
      BY <3>4, <3>5
  <2>6. CASE /\ q.op = "commit" /\ Answer(q, TRUE, staged)
             /\ committed' = staged /\ UNCHANGED <<content, staged, aborted, undropped>>
    <3>1. PICK r \in Replies :
            /\ LongerBack(r) /\ wire' = Tail(wire) /\ q = wire[1]
            /\ UNCHANGED <<abort, dirty>>
      BY <1>1, <1>4, <2>6
    <3>2. Carried => Carried'
      <4>1. CASE committed = content
        <5>1. Age(staged) = Age(content)
          BY <1>2, <4>1
        <5>2. staged = content
          BY <1>1, <5>1, Ages
        <5> QED
          BY <2>6, <5>2 DEF Carried
      <4>2. CASE content = 0
        <5>1. Age(staged) = -1 \/ Age(staged) = 0
          BY <1>1, <1>2, <4>2, Ages
        <5>2. staged = NoRoot \/ staged = content
          BY <1>1, <1>2, <4>2, <5>1, Ages
        <5> QED
          BY <2>6, <4>2, <5>2 DEF Carried
      <4> QED
        BY <4>1, <4>2 DEF Carried
    <3>3. Asks(q) => Carried'
      BY <2>6 DEF Asks, Carried
    <3> QED
      BY <1>1, <1>3, <1>8, <2>6, <3>1, <3>2, <3>3, ServedMarked
  <2> QED
    BY <1>8, <2>1, <2>2, <2>3, <2>4, <2>5, <2>6 DEF Serve, Drops
<1> QED
  BY <1>6, <1>7, <1>8

\* Every step keeps what is not committed marked.
LEMMA MarkedStep ==
  ASSUME TypeInv, Final, Ordered, Marked, [Next]_vars
  PROVE  Marked'
<1>1. ASSUME NEW v \in Values, Write(v) PROVE Marked'
  <2>1. Posts("write")
    <3>1. writes' \in Writers /\ v \in Root
      BY <1>1, Bounds DEF Write, TypeInv, TypeOK, Writers, Root
    <3> QED
      BY <1>1, <3>1, PostTyped DEF Write, SaveOps, TypeInv, Posts
  <2> QED
    BY <1>1, <2>1, PostedKeeps, KeptMarked DEF Write, router
<1>2. CASE Save
  <2>1. CASE SaveClean
    BY <2>1, KeptMarked DEF SaveClean, router, Wire
  <2>2. ASSUME NEW s \in Savers, SaveBegins(s) PROVE Marked'
    <3> DEFINE q == [op |-> "update", from |-> s, new |-> NoRoot, prev |-> NoRoot]
    <3>1. q \in Requests /\ wire' = Append(wire, q)
      BY <2>2, PostTyped DEF TypeInv, SaveBegins, Post, SaveOps, Request, Requests
    <3>2. Longer(q) /\ q.op = "update"
      BY <3>1, Appended
    <3>3. (\E i \in Wire : Asks(wire[i]))'
      BY <3>2 DEF Longer, Asks
    <3> QED
      BY <3>3 DEF Marked
  <2> QED
    BY <1>2, <2>1, <2>2 DEF Save
<1>3. CASE SaveCall \/ Tick
  BY <1>2, <1>3 DEF SaveCall, Tick
<1>4. CASE StartSave \/ StopSave \/ UNCHANGED vars
  BY <1>4, KeptMarked DEF StartSave, StopSave, vars, router, Wire
<1>5. CASE Abort
  BY <1>5 DEF Abort, Marked
<1> QED
  BY <1>1, <1>3, <1>4, <1>5, ResumeMarked, ServeMarked DEF Next

-----------------------------------------------------------------------------
\* A storage that was loaded has nothing under way.
LEMMA InitOrdered == ASSUME Init PROVE Ordered /\ Marked
<1>1. Wire = {} /\ Back = {}
  BY DEF Init, Wire, Back
<1>2. /\ content = 0 /\ writes = 0 /\ committed \in {0, NoRoot}
      /\ staged = committed /\ current = committed /\ 0 \in Root
      /\ \A s \in Savers : saver[s].at = "idle"
  BY Bounds DEF Init, Root, Values, Idle
<1>3. Age(committed) \in {-1, 0}
  BY <1>2, Ages
<1>4. Order
  BY <1>2, <1>3 DEF Order
<1>5. Links /\ Single /\ Fresher /\ Previous /\ Sets /\ Updates /\ Commits
  BY <1>1, <1>2 DEF Links, Single, Fresher, Previous, Sets, Updates, Commits
<1>6. Marked
  BY <1>2 DEF Marked, Carried
<1> QED
  BY <1>4, <1>5, <1>6 DEF Ordered

\* Where no write brings back an older content, a storage at rest that says it
\* is clean has its content in the global state, for any number of writes, of
\* overlapping saves and of requests that fail (dirty of save and set_ex).
THEOREM CleanIsCommittedAlways == ASSUME Fresh PROVE Spec => []CleanIsCommitted
<1> DEFINE Inv == TypeInv /\ Final /\ Ordered /\ Marked
<1>1. Init => Inv
  BY InitInv, InitOrdered
<1>2. Inv /\ [Next]_vars => Inv'
  BY TypeStep, FinalStep, OrderedStep, MarkedStep
<1>3. Inv => CleanIsCommitted
  <2>1. ASSUME Inv, Quiet, ~dirty PROVE Carried
    <3>1. Wire = {} /\ Back = {} /\ abort = "no"
      BY <2>1 DEF Quiet, Wire, Back
    <3> QED
      BY <2>1, <3>1 DEF Marked
  <2> QED
    BY <2>1 DEF CleanIsCommitted, Carried
<1> QED
  BY <1>1, <1>2, <1>3, PTL DEF Spec

-----------------------------------------------------------------------------
(***************************************************************************)
(* `current`.  The saves that are past their set go through the commit one *)
(* after the other, and the last one leaves behind what is staged.  One    *)
(* whose commit fails leaves the line: if it was the last one, what it had *)
(* staged is nobody's, until another save stages and commits its own.      *)
(***************************************************************************)
Commit(i) == wire[i].op = "commit"

\* First the saves that have committed, then those that ask to, then those that
\* will ask: each with a root at least as new as `current` and as the one ahead.
Pipeline ==
  /\ \A j \in Back : Done(j) =>
       /\ Age(current) <= New(replies[j])
       /\ \A l \in Back : Done(l) /\ j < l => New(replies[j]) <= New(replies[l])
       /\ \A i \in Wire : Commit(i) => New(replies[j]) <= New(wire[i])
       /\ \A l \in Back : Acked(l) => New(replies[j]) <= New(replies[l])
  /\ \A i \in Wire : Commit(i) =>
       /\ Age(current) <= New(wire[i])
       /\ \A l \in Wire : Commit(l) /\ i < l => New(wire[i]) <= New(wire[l])
       /\ \A j \in Back : Acked(j) => New(wire[i]) <= New(replies[j])
  /\ \A j \in Back : Acked(j) =>
       /\ Age(current) <= New(replies[j])
       /\ \A l \in Back : Acked(l) /\ j < l => New(replies[j]) <= New(replies[l])

\* What is staged is the root of a save that has yet to commit, if there is one,
\* else it is committed; and what is committed is `current`, or a save on its
\* way has this root: unless the last commit failed.
StagedOwned ==
  \/ \E j \in Back : Acked(j) /\ New(replies[j]) = Age(staged)
  \/ \E i \in Wire : Commit(i) /\ New(wire[i]) = Age(staged)
  \/ /\ \A j \in Back : ~Acked(j)
     /\ \A i \in Wire : ~Commit(i)
     /\ slipped \/ staged = committed

CurrentOwned ==
  \/ slipped
  \/ current = committed
  \/ \E j \in Back : (Acked(j) \/ Done(j)) /\ New(replies[j]) = Age(committed)
  \/ \E i \in Wire : Commit(i) /\ New(wire[i]) = Age(committed)

Owned  == abort = "no" => StagedOwned /\ CurrentOwned
InLine == abort = "no" => Pipeline /\ Owned

\* The save of a message keeps its root.
Kin(m) == saver'[m.from].new = saver[m.from].new

\* The requests to commit, d places on, and the good answers of saves, e places
\* on, are the ones there were.
WireKept(d) ==
  /\ \A i \in Wire' : wire'[i].op = "commit" => i + d \in Wire /\ wire'[i] = wire[i + d]
  /\ \A i \in Wire : wire[i].op = "commit" =>
       i - d \in Wire' /\ wire'[i - d] = wire[i] /\ Kin(wire[i])

BackKept(e) ==
  /\ \A j \in Back' : replies'[j].op \in {"set", "commit"} /\ replies'[j].ok =>
       j + e \in Back /\ replies'[j] = replies[j + e]
  /\ \A j \in Back : Acked(j) \/ Done(j) =>
       j - e \in Back' /\ replies'[j - e] = replies[j] /\ Kin(replies[j])

\* The numbers of messages are numbers.
LEMMA Numbers ==
  ASSUME TypeInv, TypeInv'
  PROVE  /\ \A i \in Wire : i \in Int
         /\ \A i \in Wire' : i \in Int
         /\ \A j \in Back : j \in Int
         /\ \A j \in Back' : j \in Int
  BY Placed DEF Places

\* The saves that are past their set go on as they were.
LEMMA SamePipeline ==
  ASSUME TypeInv, TypeInv', Pipeline, NEW d \in {0, 1}, NEW e \in {0, 1},
         WireKept(d), BackKept(e), UNCHANGED current
  PROVE  Pipeline'
<1>1. /\ \A i \in Wire : i \in Int
      /\ \A i \in Wire' : i \in Int
      /\ \A j \in Back : j \in Int
      /\ \A j \in Back' : j \in Int
  BY Numbers
<1>2. \A i \in Wire' : Commit(i)' =>
        /\ i + d \in Wire /\ Commit(i + d) /\ wire'[i] = wire[i + d]
        /\ New(wire[i])' = New(wire[i + d])
  BY DEF WireKept, Commit, New, Kin
<1>3. \A j \in Back' : (Acked(j)' \/ Done(j)') =>
        /\ j + e \in Back /\ (Acked(j)' => Acked(j + e)) /\ (Done(j)' => Done(j + e))
        /\ New(replies[j])' = New(replies[j + e])
  BY DEF BackKept, Acked, Done, New, Kin
<1>4. /\ \A i, l \in Wire' : i < l => i + d < l + d
      /\ \A j, l \in Back' : j < l => j + e < l + e
  BY <1>1
<1>5. Age(current)' = Age(current)
  BY DEF Age
<1>6. \A j \in Back' : Done(j)' =>
       /\ Age(current)' <= New(replies[j])'
       /\ \A l \in Back' : Done(l)' /\ j < l => New(replies[j])' <= New(replies[l])'
       /\ \A i \in Wire' : Commit(i)' => New(replies[j])' <= New(wire[i])'
       /\ \A l \in Back' : Acked(l)' => New(replies[j])' <= New(replies[l])'
  BY <1>2, <1>3, <1>4, <1>5 DEF Pipeline
<1>7. \A i \in Wire' : Commit(i)' =>
       /\ Age(current)' <= New(wire[i])'
       /\ \A l \in Wire' : Commit(l)' /\ i < l => New(wire[i])' <= New(wire[l])'
       /\ \A j \in Back' : Acked(j)' => New(wire[i])' <= New(replies[j])'
  BY <1>2, <1>3, <1>4, <1>5 DEF Pipeline
<1>8. \A j \in Back' : Acked(j)' =>
       /\ Age(current)' <= New(replies[j])'
       /\ \A l \in Back' : Acked(l)' /\ j < l => New(replies[j])' <= New(replies[l])'
  BY <1>2, <1>3, <1>4, <1>5 DEF Pipeline
<1> QED
  BY <1>6, <1>7, <1>8 DEF Pipeline

\* What they own stays owned.
LEMMA SameOwned ==
  ASSUME TypeInv, TypeInv', Owned, NEW d \in {0, 1}, NEW e \in {0, 1},
         WireKept(d), BackKept(e), UNCHANGED <<staged, committed, slipped, current>>,
         abort' = "no" => abort = "no"
  PROVE  Owned'
<1>0. /\ \A i \in Wire' : Commit(i)' => i + d \in Wire /\ Commit(i + d)
      /\ \A j \in Back' : Acked(j)' => j + e \in Back /\ Acked(j + e)
  BY DEF WireKept, BackKept, Commit, Acked
<1>1. \A i \in Wire : Commit(i) =>
        i - d \in Wire' /\ Commit(i - d)' /\ New(wire[i - d])' = New(wire[i])
  BY DEF WireKept, Commit, New, Kin
<1>2. \A j \in Back : (Acked(j) \/ Done(j)) =>
        /\ j - e \in Back' /\ (Acked(j) => Acked(j - e)') /\ (Done(j) => Done(j - e)')
        /\ New(replies[j - e])' = New(replies[j])
  BY DEF BackKept, Acked, Done, New, Kin
<1>3. Age(staged)' = Age(staged) /\ Age(committed)' = Age(committed)
  BY DEF Age
<1>4. StagedOwned => StagedOwned'
  BY <1>0, <1>1, <1>2, <1>3 DEF StagedOwned
<1>5. CurrentOwned => CurrentOwned'
  BY <1>1, <1>2, <1>3 DEF CurrentOwned
<1> QED
  BY <1>4, <1>5 DEF Owned

\* The roots of the saves past their set are numbers, none newer than what is
\* staged and none older than `current`.
LEMMA Bounded ==
  ASSUME TypeInv, Ordered
  PROVE  /\ Age(staged) \in Int /\ Age(committed) \in Int /\ Age(current) \in Int
         /\ Age(current) <= Age(staged)
         /\ \A i \in Wire : Commit(i) => New(wire[i]) \in Int /\ New(wire[i]) <= Age(staged)
         /\ \A j \in Back : Acked(j) \/ Done(j) =>
              New(replies[j]) \in Int /\ New(replies[j]) <= Age(staged)
<1>1. /\ Age(staged) \in Int /\ Age(committed) \in Int /\ Age(current) \in Int
      /\ Age(committed) <= Age(staged) /\ Age(current) <= Age(committed)
  BY Ages DEF TypeInv, TypeOK, Ordered, Order
<1>2. /\ \A i \in Wire : Commit(i) => New(wire[i]) \in Int
      /\ \A j \in Back : Acked(j) \/ Done(j) => New(replies[j]) \in Int
  BY Messages DEF Aged, Commit, Acked, Done, SaveOps
<1> QED
  BY <1>1, <1>2 DEF Ordered, Commits, Commit

\* An answer is put behind the others, as number n.
LEMMA LastAnswer ==
  ASSUME TypeInv, TypeInv', NEW r \in Replies, LongerBack(r), UNCHANGED saver,
         NEW n, n = Len(replies) + 1
  PROVE  /\ n \in Back' /\ ~(n < n) /\ \A j \in Back' : j \in Back \/ j = n
         /\ \A j \in Back : j \in Back' /\ j < n /\ ~(n < j)
         /\ \A j \in Back : /\ (Acked(j)' <=> Acked(j))
                            /\ (Done(j)' <=> Done(j))
                            /\ New(replies[j])' = New(replies[j])
         /\ Acked(n)' <=> (r.op = "set" /\ r.ok)
         /\ Done(n)' <=> (r.op = "commit" /\ r.ok)
         /\ New(replies[n])' = New(r)
<1>1. Len(replies) \in Nat /\ \A j \in Back : j \in Int /\ j <= Len(replies)
  BY DEF TypeInv, Back
<1>2. /\ n \in Back' /\ ~(n < n) /\ \A j \in Back' : j \in Back \/ j = n
      /\ \A j \in Back : j \in Back' /\ j < n /\ ~(n < j)
  BY <1>1 DEF LongerBack
<1>3. replies'[n] = r /\ \A j \in Back : replies'[j] = replies[j]
  BY DEF LongerBack
<1> QED
  BY <1>2, <1>3 DEF Acked, Done, New

\* The requests that remain when the first is gone.
LEMMA RestOfWire ==
  ASSUME TypeInv, TypeInv', ShorterWire, UNCHANGED saver
  PROVE  \A i \in Wire' : /\ i + 1 \in Wire /\ 1 < i + 1
                          /\ (Commit(i)' <=> Commit(i + 1))
                          /\ New(wire[i])' = New(wire[i + 1])
                          /\ \A l \in Wire' : i < l => i + 1 < l + 1
<1>1. \A i \in Wire' : i \in Nat /\ 1 < i + 1
  BY DEF Wire, TypeInv
<1>2. \A i \in Wire' : i + 1 \in Wire /\ wire'[i] = wire[i + 1]
  BY DEF ShorterWire
<1>3. \A i, l \in Wire' : i < l => i + 1 < l + 1
  BY <1>1
<1> QED
  BY <1>1, <1>2, <1>3 DEF Commit, New

\* A root is staged: its save is the last of them.
LEMMA StagedPipeline ==
  ASSUME TypeInv, TypeInv', Ordered, Pipeline, ShorterWire, 1 \in Wire, NEW r \in Replies,
         LongerBack(r), r.op = "set", r.ok, wire[1].op = "set", r.from = wire[1].from,
         staged' = wire[1].new, UNCHANGED <<committed, current, saver, abort>>
  PROVE  Pipeline'
<1> DEFINE n == Len(replies) + 1
<1>1. /\ wire[1].new \in Root /\ Age(staged) <= wire[1].new
      /\ New(r) = wire[1].new /\ Age(staged') = wire[1].new
  BY Ages DEF Ordered, Sets, Links, SaveOps, New
<1>2. /\ Age(staged) \in Int /\ Age(current) \in Int /\ wire[1].new \in Int
      /\ Age(current) <= Age(staged)
      /\ \A i \in Wire : Commit(i) => New(wire[i]) \in Int /\ New(wire[i]) <= Age(staged)
      /\ \A j \in Back : Acked(j) \/ Done(j) =>
           New(replies[j]) \in Int /\ New(replies[j]) <= Age(staged)
  BY <1>1, Bounded, Ages
<1>3. /\ Age(current) <= New(r)
      /\ \A i \in Wire : Commit(i) => New(wire[i]) <= New(r)
      /\ \A j \in Back : Acked(j) \/ Done(j) => New(replies[j]) <= New(r)
  BY <1>1, <1>2
<1>4. PICK k : k = n
  OBVIOUS
<1>5. /\ k \in Back' /\ ~(k < k) /\ \A j \in Back' : j \in Back \/ j = k
      /\ \A j \in Back : j \in Back' /\ j < k /\ ~(k < j)
      /\ \A j \in Back : /\ (Acked(j)' <=> Acked(j))
                         /\ (Done(j)' <=> Done(j))
                         /\ New(replies[j])' = New(replies[j])
      /\ Acked(k)' /\ ~Done(k)' /\ New(replies[k])' = New(r)
  BY <1>4, LastAnswer
<1>6. \A i \in Wire' : /\ i + 1 \in Wire
                       /\ (Commit(i)' <=> Commit(i + 1))
                       /\ New(wire[i])' = New(wire[i + 1])
                       /\ \A l \in Wire' : i < l => i + 1 < l + 1
  BY RestOfWire
<1>7. Age(current)' = Age(current) /\ Age(staged)' = Age(staged')
  BY DEF Age
<1>8. \A j \in Back' : Done(j)' =>
       /\ Age(current)' <= New(replies[j])'
       /\ \A l \in Back' : Done(l)' /\ j < l => New(replies[j])' <= New(replies[l])'
       /\ \A i \in Wire' : Commit(i)' => New(replies[j])' <= New(wire[i])'
       /\ \A l \in Back' : Acked(l)' => New(replies[j])' <= New(replies[l])'
  BY <1>3, <1>5, <1>6, <1>7 DEF Pipeline
<1>9. \A i \in Wire' : Commit(i)' =>
       /\ Age(current)' <= New(wire[i])'
       /\ \A l \in Wire' : Commit(l)' /\ i < l => New(wire[i])' <= New(wire[l])'
       /\ \A j \in Back' : Acked(j)' => New(wire[i])' <= New(replies[j])'
  BY <1>3, <1>5, <1>6, <1>7 DEF Pipeline
<1>10. \A j \in Back' : Acked(j)' =>
       /\ Age(current)' <= New(replies[j])'
       /\ \A l \in Back' : Acked(l)' /\ j < l => New(replies[j])' <= New(replies[l])'
  BY <1>3, <1>5, <1>6, <1>7 DEF Pipeline
<1> QED
  BY <1>8, <1>9, <1>10 DEF Pipeline

\* The requests that remain: each to commit is still there.
LEMMA KeptOnWire ==
  ASSUME TypeInv, TypeInv', wire # <<>>, wire' = Tail(wire), UNCHANGED saver
  PROVE  \A i \in Wire : i # 1 => /\ i - 1 \in Wire'
                                  /\ (Commit(i - 1)' <=> Commit(i))
                                  /\ New(wire[i - 1])' = New(wire[i])
<1>1. \A i \in Wire : i # 1 => i - 1 \in Wire' /\ wire'[i - 1] = wire[i]
  BY TailFacts DEF Wire, TypeInv
<1> QED
  BY <1>1 DEF Commit, New

\* A root is staged: its save has it.
LEMMA StagedOwns ==
  ASSUME TypeInv, TypeInv', Ordered, Owned, wire # <<>>, wire' = Tail(wire), NEW r \in Replies,
         LongerBack(r), r.op = "set", r.ok, wire[1].op = "set", r.from = wire[1].from,
         staged' = wire[1].new, UNCHANGED <<committed, slipped, current, saver, abort>>
  PROVE  Owned'
<1>0. 1 \in Wire
  BY TailFacts DEF Wire, TypeInv
<1>1. New(r) = Age(staged')
  BY <1>0, Ages DEF Ordered, Sets, Links, SaveOps, New
<1>2. PICK k : k = Len(replies) + 1
  OBVIOUS
<1>3. /\ k \in Back' /\ Acked(k)' /\ New(replies[k])' = New(r)
      /\ \A j \in Back : /\ j \in Back'
                         /\ (Acked(j)' <=> Acked(j))
                         /\ (Done(j)' <=> Done(j))
                         /\ New(replies[j])' = New(replies[j])
  BY <1>2, LastAnswer
<1>4. \A i \in Wire : Commit(i) =>
        i - 1 \in Wire' /\ Commit(i - 1)' /\ New(wire[i - 1])' = New(wire[i])
  BY KeptOnWire DEF Commit
<1>5. Age(committed)' = Age(committed) /\ Age(staged)' = Age(staged')
  BY DEF Age
<1>6. StagedOwned'
  BY <1>1, <1>3, <1>5 DEF StagedOwned
<1>7. CurrentOwned => CurrentOwned'
  BY <1>3, <1>4, <1>5 DEF CurrentOwned
<1> QED
  BY <1>6, <1>7 DEF Owned

\* What is staged is committed: the save that did it goes before the rest.
LEMMA CommittedPipeline ==
  ASSUME TypeInv, TypeInv', Ordered, Pipeline, ShorterWire, 1 \in Wire, NEW r \in Replies,
         LongerBack(r), r.op = "commit", r.ok, wire[1].op = "commit", r.from = wire[1].from,
         UNCHANGED <<current, saver>>
  PROVE  Pipeline'
<1>1. PICK k : k = Len(replies) + 1
  OBVIOUS
<1>2. /\ k \in Back' /\ ~(k < k) /\ \A j \in Back' : j \in Back \/ j = k
      /\ \A j \in Back : j \in Back' /\ j < k /\ ~(k < j)
      /\ \A j \in Back : /\ (Acked(j)' <=> Acked(j))
                         /\ (Done(j)' <=> Done(j))
                         /\ New(replies[j])' = New(replies[j])
      /\ ~Acked(k)' /\ Done(k)' /\ New(replies[k])' = New(r)
  BY <1>1, LastAnswer
<1>3. \A i \in Wire' : /\ i + 1 \in Wire /\ 1 < i + 1
                       /\ (Commit(i)' <=> Commit(i + 1))
                       /\ New(wire[i])' = New(wire[i + 1])
                       /\ \A l \in Wire' : i < l => i + 1 < l + 1
  BY RestOfWire
<1>4. /\ New(r) = New(wire[1]) /\ Commit(1)
      /\ Age(current)' = Age(current)
  BY DEF New, Age, Commit
<1>5. /\ Age(current) <= New(r)
      /\ \A l \in Wire : Commit(l) /\ 1 < l => New(r) <= New(wire[l])
      /\ \A j \in Back : Acked(j) => New(r) <= New(replies[j])
      /\ \A j \in Back : Done(j) => New(replies[j]) <= New(r)
  BY <1>4 DEF Pipeline
<1>6. \A j \in Back' : Done(j)' =>
       /\ Age(current)' <= New(replies[j])'
       /\ \A l \in Back' : Done(l)' /\ j < l => New(replies[j])' <= New(replies[l])'
       /\ \A i \in Wire' : Commit(i)' => New(replies[j])' <= New(wire[i])'
       /\ \A l \in Back' : Acked(l)' => New(replies[j])' <= New(replies[l])'
  BY <1>2, <1>3, <1>4, <1>5 DEF Pipeline
<1>7. \A i \in Wire' : Commit(i)' =>
       /\ Age(current)' <= New(wire[i])'
       /\ \A l \in Wire' : Commit(l)' /\ i < l => New(wire[i])' <= New(wire[l])'
       /\ \A j \in Back' : Acked(j)' => New(wire[i])' <= New(replies[j])'
  BY <1>2, <1>3, <1>4 DEF Pipeline
<1>8. \A j \in Back' : Acked(j)' =>
       /\ Age(current)' <= New(replies[j])'
       /\ \A l \in Back' : Acked(l)' /\ j < l => New(replies[j])' <= New(replies[l])'
  BY <1>2, <1>4 DEF Pipeline
<1> QED
  BY <1>6, <1>7, <1>8 DEF Pipeline

\* A commit fails: its save leaves the line.
LEMMA FailedPipeline ==
  ASSUME TypeInv, TypeInv', Pipeline, ShorterWire, NEW r \in Replies,
         LongerBack(r), ~r.ok, UNCHANGED <<current, saver>>
  PROVE  Pipeline'
<1>1. PICK k : k = Len(replies) + 1
  OBVIOUS
<1>2. /\ \A j \in Back' : j \in Back \/ j = k
      /\ \A j \in Back : /\ (Acked(j)' <=> Acked(j))
                         /\ (Done(j)' <=> Done(j))
                         /\ New(replies[j])' = New(replies[j])
      /\ ~Acked(k)' /\ ~Done(k)'
  BY <1>1, LastAnswer
<1>3. \A i \in Wire' : /\ i + 1 \in Wire /\ 1 < i + 1
                       /\ (Commit(i)' <=> Commit(i + 1))
                       /\ New(wire[i])' = New(wire[i + 1])
                       /\ \A l \in Wire' : i < l => i + 1 < l + 1
  BY RestOfWire
<1>4. Age(current)' = Age(current)
  BY DEF Age
<1>5. \A j \in Back' : Done(j)' =>
       /\ Age(current)' <= New(replies[j])'
       /\ \A l \in Back' : Done(l)' /\ j < l => New(replies[j])' <= New(replies[l])'
       /\ \A i \in Wire' : Commit(i)' => New(replies[j])' <= New(wire[i])'
       /\ \A l \in Back' : Acked(l)' => New(replies[j])' <= New(replies[l])'
  BY <1>2, <1>3, <1>4 DEF Pipeline
<1>6. \A i \in Wire' : Commit(i)' =>
       /\ Age(current)' <= New(wire[i])'
       /\ \A l \in Wire' : Commit(l)' /\ i < l => New(wire[i])' <= New(wire[l])'
       /\ \A j \in Back' : Acked(j)' => New(wire[i])' <= New(replies[j])'
  BY <1>2, <1>3, <1>4 DEF Pipeline
<1>7. \A j \in Back' : Acked(j)' =>
       /\ Age(current)' <= New(replies[j])'
       /\ \A l \in Back' : Acked(l)' /\ j < l => New(replies[j])' <= New(replies[l])'
  BY <1>2, <1>4 DEF Pipeline
<1> QED
  BY <1>5, <1>6, <1>7 DEF Pipeline

\* A commit is answered: what is staged is left to those behind, or to nobody.
LEMMA RestOwned ==
  ASSUME TypeInv, TypeInv', Ordered, Pipeline, StagedOwned, wire # <<>>, wire' = Tail(wire),
         1 \in Wire, ShorterWire, NEW r \in Replies,
         LongerBack(r), r.op = "commit", wire[1].op = "commit",
         slipped' \/ staged' = committed', UNCHANGED <<staged, saver>>
  PROVE  StagedOwned'
<1>1. PICK k : k = Len(replies) + 1
  OBVIOUS
<1>2. /\ \A j \in Back' : j \in Back \/ j = k
      /\ \A j \in Back : /\ j \in Back'
                         /\ (Acked(j)' <=> Acked(j))
                         /\ New(replies[j])' = New(replies[j])
      /\ ~Acked(k)'
  BY <1>1, LastAnswer
<1>3. \A i \in Wire : Commit(i) =>
        \/ i = 1
        \/ i - 1 \in Wire' /\ Commit(i - 1)' /\ New(wire[i - 1])' = New(wire[i])
  BY KeptOnWire
<1>4. \A i \in Wire' : /\ i + 1 \in Wire /\ 1 < i + 1
                       /\ (Commit(i)' <=> Commit(i + 1))
                       /\ New(wire[i])' = New(wire[i + 1])
  BY RestOfWire
<1>5. Age(staged)' = Age(staged) /\ Commit(1)
  BY DEF Age, Commit
<1>6. CASE \E j \in Back : Acked(j) /\ New(replies[j]) = Age(staged)
  BY <1>2, <1>5, <1>6 DEF StagedOwned
<1>7. ASSUME NEW i \in Wire, Commit(i), New(wire[i]) = Age(staged) PROVE StagedOwned'
  <2>1. CASE i # 1
    BY <1>3, <1>5, <1>7, <2>1 DEF StagedOwned
  <2>2. CASE i = 1
    <3>1. /\ \A l \in Wire : Commit(l) /\ 1 < l => New(wire[l]) = Age(staged)
          /\ \A j \in Back : Acked(j) => New(replies[j]) = Age(staged)
      <4>1. /\ \A l \in Wire : Commit(l) /\ 1 < l => Age(staged) <= New(wire[l])
            /\ \A j \in Back : Acked(j) => Age(staged) <= New(replies[j])
        BY <1>5, <1>7, <2>2 DEF Pipeline
      <4> QED
        BY <4>1, Bounded
    <3>2. CASE \E j \in Back : Acked(j)
      BY <1>2, <1>5, <3>1, <3>2 DEF StagedOwned
    <3>3. CASE \E l \in Wire' : Commit(l)'
      BY <1>4, <1>5, <3>1, <3>3 DEF StagedOwned
    <3>4. CASE /\ \A j \in Back : ~Acked(j)
               /\ \A l \in Wire' : ~Commit(l)'
      BY <1>2, <3>4 DEF StagedOwned
    <3> QED
      BY <3>2, <3>3, <3>4
  <2> QED
    BY <2>1, <2>2
<1> QED
  BY <1>5, <1>6, <1>7 DEF StagedOwned

\* What is staged is committed: who had the one has the other.
LEMMA CommittedOwns ==
  ASSUME TypeInv, TypeInv', Ordered, Pipeline, StagedOwned, wire # <<>>, wire' = Tail(wire),
         1 \in Wire, ShorterWire, NEW r \in Replies,
         LongerBack(r), r.op = "commit", r.ok, wire[1].op = "commit", r.from = wire[1].from,
         committed' = staged, UNCHANGED <<staged, current, saver, abort>>
  PROVE  Owned'
<1>1. PICK k : k = Len(replies) + 1
  OBVIOUS
<1>2. /\ k \in Back' /\ Done(k)' /\ New(replies[k])' = New(r)
      /\ \A j \in Back : /\ j \in Back'
                         /\ (Acked(j)' <=> Acked(j))
                         /\ (Done(j)' <=> Done(j))
                         /\ New(replies[j])' = New(replies[j])
  BY <1>1, LastAnswer
<1>3. \A i \in Wire : Commit(i) =>
        \/ i = 1
        \/ i - 1 \in Wire' /\ Commit(i - 1)' /\ New(wire[i - 1])' = New(wire[i])
  BY KeptOnWire
<1>4. Age(committed)' = Age(staged) /\ New(r) = New(wire[1]) /\ Commit(1)
  BY DEF Age, New, Commit
<1>5. StagedOwned'
  BY RestOwned
<1>6. CurrentOwned'
  BY <1>2, <1>3, <1>4 DEF StagedOwned, CurrentOwned
<1> QED
  BY <1>5, <1>6 DEF Owned

\* The answers that remain when the first is taken in.
LEMMA RestOfBack ==
  ASSUME TypeInv, TypeInv', replies # <<>>, replies' = Tail(replies),
         \A j \in Back : j # 1 /\ (Acked(j) \/ Done(j)) => Kin(replies[j])
  PROVE  /\ \A j \in Back' : /\ j + 1 \in Back /\ 1 < j + 1
                             /\ (Acked(j)' <=> Acked(j + 1))
                             /\ (Done(j)' <=> Done(j + 1))
                             /\ Acked(j + 1) \/ Done(j + 1) =>
                                  New(replies[j])' = New(replies[j + 1])
                             /\ \A l \in Back' : j < l => j + 1 < l + 1
         /\ \A j \in Back : j # 1 /\ (Acked(j) \/ Done(j)) =>
              /\ j - 1 \in Back'
              /\ (Acked(j - 1)' <=> Acked(j))
              /\ (Done(j - 1)' <=> Done(j))
              /\ New(replies[j - 1])' = New(replies[j])
<1>1. /\ \A j \in Back' : j \in Int /\ j + 1 \in Back /\ 1 < j + 1 /\ replies'[j] = replies[j + 1]
      /\ \A j \in Back : j # 1 => j - 1 \in Back' /\ replies'[j - 1] = replies[j]
  BY TailFacts DEF Back, TypeInv
<1>2. \A j, l \in Back' : j < l => j + 1 < l + 1
  BY <1>1
<1>3. \A j \in Back' : j + 1 # 1
  BY <1>1
<1>4. \A j \in Back' : /\ j + 1 \in Back /\ 1 < j + 1
                       /\ (Acked(j)' <=> Acked(j + 1))
                       /\ (Done(j)' <=> Done(j + 1))
                       /\ Acked(j + 1) \/ Done(j + 1) =>
                            New(replies[j])' = New(replies[j + 1])
                       /\ \A l \in Back' : j < l => j + 1 < l + 1
  BY <1>1, <1>2, <1>3 DEF Acked, Done, New, Kin
<1>5. \A j \in Back : j # 1 /\ (Acked(j) \/ Done(j)) =>
        /\ j - 1 \in Back'
        /\ (Acked(j - 1)' <=> Acked(j))
        /\ (Done(j - 1)' <=> Done(j))
        /\ New(replies[j - 1])' = New(replies[j])
  BY <1>1 DEF Acked, Done, New, Kin
<1> QED
  BY <1>4, <1>5

\* A save whose set went well asks to commit: it goes from the head of the last
\* to the end of those ahead.
LEMMA AckedPipeline ==
  ASSUME TypeInv, TypeInv', Pipeline, Owned, replies # <<>>, replies' = Tail(replies),
         1 \in Back, Acked(1), \A t \in Savers : saver'[t].new = saver[t].new,
         NEW q \in Requests, q.op = "commit", q.from = replies[1].from, Longer(q),
         UNCHANGED <<staged, committed, slipped, current, abort>>
  PROVE  Pipeline' /\ Owned'
<1>1. /\ \A j \in Back : Acked(j) \/ Done(j) => Kin(replies[j])
      /\ \A i \in Wire : Commit(i) => Kin(wire[i])
      /\ replies[1].from \in Savers
  BY Messages DEF Named, Acked, Done, Commit, Kin, SaveOps
<1>2. /\ \A j \in Back' : /\ j + 1 \in Back /\ 1 < j + 1
                          /\ (Acked(j)' <=> Acked(j + 1))
                          /\ (Done(j)' <=> Done(j + 1))
                          /\ Acked(j + 1) \/ Done(j + 1) =>
                               New(replies[j])' = New(replies[j + 1])
                          /\ \A l \in Back' : j < l => j + 1 < l + 1
      /\ \A j \in Back : j # 1 /\ (Acked(j) \/ Done(j)) =>
           /\ j - 1 \in Back'
           /\ (Acked(j - 1)' <=> Acked(j))
           /\ (Done(j - 1)' <=> Done(j))
           /\ New(replies[j - 1])' = New(replies[j])
  BY <1>1, RestOfBack
<1>3. PICK k : k = Len(wire) + 1
  OBVIOUS
<1>4. /\ k \in Wire' /\ ~(k < k) /\ \A i \in Wire' : i \in Wire \/ i = k
      /\ \A i \in Wire : i \in Wire' /\ ~(k < i)
      /\ \A i \in Wire : /\ (Commit(i)' <=> Commit(i))
                         /\ Commit(i) => New(wire[i])' = New(wire[i])
      /\ Commit(k)' /\ New(wire[k])' = New(replies[1])
  <2>1. Len(wire) \in Nat /\ \A i \in Wire : i \in Int /\ i <= Len(wire)
    BY DEF TypeInv, Wire
  <2>2. /\ k \in Wire' /\ ~(k < k) /\ \A i \in Wire' : i \in Wire \/ i = k
        /\ \A i \in Wire : i \in Wire' /\ ~(k < i) /\ wire'[i] = wire[i]
        /\ wire'[k] = q
    BY <1>3, <2>1 DEF Longer
  <2>3. saver'[q.from].new = saver[replies[1].from].new
    BY <1>1
  <2> QED
    BY <1>1, <2>2, <2>3 DEF Commit, New, Kin
<1>5. Age(current)' = Age(current) /\ Age(staged)' = Age(staged)
      /\ Age(committed)' = Age(committed)
  BY DEF Age
<1>6. \A j \in Back' : Done(j)' =>
       /\ Age(current)' <= New(replies[j])'
       /\ \A l \in Back' : Done(l)' /\ j < l => New(replies[j])' <= New(replies[l])'
       /\ \A i \in Wire' : Commit(i)' => New(replies[j])' <= New(wire[i])'
       /\ \A l \in Back' : Acked(l)' => New(replies[j])' <= New(replies[l])'
  <2>0. /\ \A j \in Back : Done(j) => Age(current) <= New(replies[j])
        /\ \A j, l \in Back : Done(j) /\ Done(l) /\ j < l => New(replies[j]) <= New(replies[l])
    BY DEF Pipeline
  <2>1. \A j \in Back' : Done(j)' => Age(current)' <= New(replies[j])'
    BY <1>2, <1>4, <1>5, <2>0
  <2>2. \A j, l \in Back' : Done(j)' /\ Done(l)' /\ j < l => New(replies[j])' <= New(replies[l])'
    BY <1>2, <1>4, <1>5, <2>0
  <2>3. \A j \in Back', i \in Wire' : Done(j)' /\ Commit(i)' => New(replies[j])' <= New(wire[i])'
    BY <1>2, <1>4, <1>5 DEF Pipeline
  <2>4. \A j, l \in Back' : Done(j)' /\ Acked(l)' => New(replies[j])' <= New(replies[l])'
    BY <1>2, <1>4, <1>5 DEF Pipeline
  <2> QED
    BY <2>1, <2>2, <2>3, <2>4
<1>7. \A i \in Wire' : Commit(i)' =>
       /\ Age(current)' <= New(wire[i])'
       /\ \A l \in Wire' : Commit(l)' /\ i < l => New(wire[i])' <= New(wire[l])'
       /\ \A j \in Back' : Acked(j)' => New(wire[i])' <= New(replies[j])'
  <2>1. \A i \in Wire' : Commit(i)' => Age(current)' <= New(wire[i])'
    BY <1>2, <1>4, <1>5 DEF Pipeline
  <2>2. \A i, l \in Wire' : Commit(i)' /\ Commit(l)' /\ i < l => New(wire[i])' <= New(wire[l])'
    BY <1>2, <1>4, <1>5 DEF Pipeline
  <2>3. \A i \in Wire', j \in Back' : Commit(i)' /\ Acked(j)' => New(wire[i])' <= New(replies[j])'
    BY <1>2, <1>4, <1>5 DEF Pipeline
  <2> QED
    BY <2>1, <2>2, <2>3
<1>8. \A j \in Back' : Acked(j)' =>
       /\ Age(current)' <= New(replies[j])'
       /\ \A l \in Back' : Acked(l)' /\ j < l => New(replies[j])' <= New(replies[l])'
  BY <1>2, <1>5 DEF Pipeline
<1>9. StagedOwned => StagedOwned'
  BY <1>2, <1>4, <1>5 DEF StagedOwned
<1>10. CurrentOwned => CurrentOwned'
  <2>1. ASSUME NEW j \in Back, Acked(j) \/ Done(j), New(replies[j]) = Age(committed)
        PROVE  CurrentOwned'
    <3>1. CASE j = 1
      BY <1>4, <1>5, <2>1, <3>1 DEF CurrentOwned
    <3>2. CASE j # 1
      BY <1>2, <1>5, <2>1, <3>2 DEF CurrentOwned
    <3> QED
      BY <3>1, <3>2
  <2>2. CASE slipped \/ current = committed
    BY <2>2 DEF CurrentOwned
  <2>3. ASSUME NEW i \in Wire, Commit(i), New(wire[i]) = Age(committed)
        PROVE  CurrentOwned'
    BY <1>4, <1>5, <2>3 DEF CurrentOwned
  <2> QED
    BY <2>1, <2>2, <2>3 DEF CurrentOwned
<1> QED
  BY <1>6, <1>7, <1>8, <1>9, <1>10 DEF Pipeline, Owned

\* A save has committed: `current` is its root, which is ahead of all others.
LEMMA DonePipeline ==
  ASSUME TypeInv, TypeInv', Ordered, Pipeline, Owned,
         replies # <<>>, replies' = Tail(replies), 1 \in Back, Done(1),
         \A t \in Savers : t # replies[1].from => saver'[t] = saver[t],
         Age(current') = New(replies[1]),
         UNCHANGED <<staged, committed, slipped, wire, abort>>
  PROVE  Pipeline' /\ Owned'
<1>1. /\ \A j \in Back : j # 1 /\ (Acked(j) \/ Done(j)) => Kin(replies[j])
      /\ \A i \in Wire : Commit(i) => Kin(wire[i])
  BY Messages DEF Named, Ordered, Single, Acked, Done, Commit, Kin, SaveOps
<1>2. /\ \A j \in Back' : /\ j + 1 \in Back /\ 1 < j + 1
                          /\ (Acked(j)' <=> Acked(j + 1))
                          /\ (Done(j)' <=> Done(j + 1))
                          /\ Acked(j + 1) \/ Done(j + 1) =>
                               New(replies[j])' = New(replies[j + 1])
                          /\ \A l \in Back' : j < l => j + 1 < l + 1
      /\ \A j \in Back : j # 1 /\ (Acked(j) \/ Done(j)) =>
           /\ j - 1 \in Back'
           /\ (Acked(j - 1)' <=> Acked(j))
           /\ (Done(j - 1)' <=> Done(j))
           /\ New(replies[j - 1])' = New(replies[j])
  BY <1>1, RestOfBack
<1>3. /\ Wire' = Wire
      /\ \A i \in Wire : (Commit(i)' <=> Commit(i))
                         /\ (Commit(i) => New(wire[i])' = New(wire[i]))
  BY <1>1 DEF Wire, Commit, New, Kin
<1>4. Age(current)' = New(replies[1]) /\ Age(staged)' = Age(staged)
      /\ Age(committed)' = Age(committed)
  BY DEF Age
<1>5. \A j \in Back' : Done(j)' =>
       /\ Age(current)' <= New(replies[j])'
       /\ \A l \in Back' : Done(l)' /\ j < l => New(replies[j])' <= New(replies[l])'
       /\ \A i \in Wire' : Commit(i)' => New(replies[j])' <= New(wire[i])'
       /\ \A l \in Back' : Acked(l)' => New(replies[j])' <= New(replies[l])'
  <2>0. /\ \A j \in Back : Done(j) => Age(current) <= New(replies[j])
        /\ \A j, l \in Back : Done(j) /\ Done(l) /\ j < l => New(replies[j]) <= New(replies[l])
    BY DEF Pipeline
  <2>1. \A j \in Back' : Done(j)' => Age(current)' <= New(replies[j])'
    BY <1>2, <1>3, <1>4, <2>0
  <2>2. \A j, l \in Back' : Done(j)' /\ Done(l)' /\ j < l => New(replies[j])' <= New(replies[l])'
    BY <1>2, <1>3, <1>4, <2>0
  <2>3. \A j \in Back', i \in Wire' : Done(j)' /\ Commit(i)' => New(replies[j])' <= New(wire[i])'
    BY <1>2, <1>3, <1>4 DEF Pipeline
  <2>4. \A j, l \in Back' : Done(j)' /\ Acked(l)' => New(replies[j])' <= New(replies[l])'
    BY <1>2, <1>3, <1>4 DEF Pipeline
  <2> QED
    BY <2>1, <2>2, <2>3, <2>4
<1>6. \A i \in Wire' : Commit(i)' =>
       /\ Age(current)' <= New(wire[i])'
       /\ \A l \in Wire' : Commit(l)' /\ i < l => New(wire[i])' <= New(wire[l])'
       /\ \A j \in Back' : Acked(j)' => New(wire[i])' <= New(replies[j])'
  BY <1>2, <1>3, <1>4 DEF Pipeline
<1>7. \A j \in Back' : Acked(j)' =>
       /\ Age(current)' <= New(replies[j])'
       /\ \A l \in Back' : Acked(l)' /\ j < l => New(replies[j])' <= New(replies[l])'
  BY <1>2, <1>4 DEF Pipeline
<1>8. StagedOwned => StagedOwned'
  <2>1. ~Acked(1)
    BY DEF Acked, Done
  <2> QED
    BY <1>2, <1>3, <1>4, <2>1 DEF StagedOwned
<1>9. Age(current') = Age(committed) => CurrentOwned'
  <2>1. current' \in Root \cup {NoRoot} /\ committed \in Root \cup {NoRoot}
    BY DEF TypeInv, TypeOK
  <2> QED
    BY <2>1, Ages DEF CurrentOwned
<1>10. CurrentOwned => CurrentOwned'
  <2>1. CASE current = committed
    <3>1. Age(committed) <= New(replies[1]) /\ New(replies[1]) <= Age(committed)
      BY <2>1 DEF Pipeline, Ordered, Commits
    <3>2. Age(committed) \in Int /\ New(replies[1]) \in Int
      BY Bounded
    <3>3. Age(current') = Age(committed)
      BY <3>1, <3>2
    <3> QED
      BY <1>9, <3>3
  <2>2. ASSUME NEW j \in Back, Acked(j) \/ Done(j), New(replies[j]) = Age(committed)
        PROVE  CurrentOwned'
    <3>1. CASE j = 1
      BY <1>9, <2>2, <3>1
    <3>2. CASE j # 1
      BY <1>2, <1>4, <2>2, <3>2 DEF CurrentOwned
    <3> QED
      BY <3>1, <3>2
  <2>3. ASSUME NEW i \in Wire, Commit(i), New(wire[i]) = Age(committed)
        PROVE  CurrentOwned'
    BY <1>3, <1>4, <2>3 DEF CurrentOwned
  <2>4. CASE slipped
    BY <2>4 DEF CurrentOwned
  <2> QED
    BY <2>1, <2>2, <2>3, <2>4 DEF CurrentOwned
<1> QED
  BY <1>5, <1>6, <1>7, <1>8, <1>10 DEF Pipeline, Owned

\* Another request than to commit goes out.
LEMMA WireKeeps ==
  ASSUME TypeInv, NEW o, o # "commit", Posts(o),
         \A i \in Wire : Commit(i) => Kin(wire[i])
  PROVE  WireKept(0)
<1>1. CASE UNCHANGED wire
  <2>1. Wire' = Wire /\ \A i \in Wire : i + 0 = i /\ i - 0 = i
    BY <1>1 DEF Wire, TypeInv
  <2> QED
    BY <1>1, <2>1 DEF WireKept, Commit
<1>2. ASSUME NEW q \in Requests, q.op = o, wire' = Append(wire, q) PROVE WireKept(0)
  <2>1. Longer(q) /\ \A i \in Wire : i + 0 = i /\ i - 0 = i
    BY <1>2, Appended DEF Wire, TypeInv
  <2> QED
    BY <1>2, <2>1 DEF WireKept, Commit, Longer
<1> QED
  BY <1>1, <1>2 DEF Posts

\* Something goes out, but no request to commit, and no answer is taken in.
LEMMA PostKeeps ==
  ASSUME TypeInv, TypeInv', Pipeline, Owned, NEW o, o # "commit", Posts(o),
         \A i \in Wire : Commit(i) => Kin(wire[i]),
         \A j \in Back : Acked(j) \/ Done(j) => Kin(replies[j]),
         UNCHANGED <<staged, committed, slipped, current, replies>>,
         abort' = "no" => abort = "no"
  PROVE  Pipeline' /\ Owned'
<1>1. WireKept(0)
  BY WireKeeps
<1>2. BackKept(0)
  <2>1. Back' = Back /\ \A j \in Back : j + 0 = j /\ j - 0 = j
    BY DEF Back, TypeInv
  <2> QED
    BY <2>1 DEF BackKept, Acked, Done
<1> QED
  BY <1>1, <1>2, SamePipeline, SameOwned

\* An answer is taken in that is not of a save past its set.
LEMMA TakeKeeps ==
  ASSUME TypeInv, TypeInv', Pipeline, Owned, NEW o, o # "commit", Posts(o),
         replies # <<>>, replies' = Tail(replies), ~Acked(1), ~Done(1),
         \A i \in Wire : Commit(i) => Kin(wire[i]),
         \A j \in Back : j # 1 /\ (Acked(j) \/ Done(j)) => Kin(replies[j]),
         UNCHANGED <<staged, committed, slipped, current>>,
         abort' = "no" => abort = "no"
  PROVE  Pipeline' /\ Owned'
<1>1. WireKept(0)
  BY WireKeeps
<1>2. BackKept(1)
  <2>1. /\ \A j \in Back' : j + 1 \in Back /\ j + 1 # 1 /\ replies'[j] = replies[j + 1]
        /\ \A j \in Back : j # 1 => j - 1 \in Back' /\ replies'[j - 1] = replies[j]
    BY TailFacts DEF Back, TypeInv
  <2> QED
    BY <2>1 DEF BackKept, Acked, Done
<1> QED
  BY <1>1, <1>2, SamePipeline, SameOwned

\* A request is answered, and the answer is not a good one of a set or commit.
LEMMA AnswerKeeps ==
  ASSUME TypeInv, TypeInv', Pipeline, Owned, wire # <<>>, wire' = Tail(wire),
         wire[1].op # "commit", NEW r \in Replies, LongerBack(r),
         ~r.ok \/ r.op \notin {"set", "commit"},
         UNCHANGED <<staged, committed, slipped, current, saver, abort>>
  PROVE  Pipeline' /\ Owned'
<1>1. WireKept(1)
  <2>1. /\ \A i \in Wire' : i + 1 \in Wire /\ wire'[i] = wire[i + 1]
        /\ \A i \in Wire : i # 1 => i - 1 \in Wire' /\ wire'[i - 1] = wire[i]
    BY TailFacts DEF Wire, TypeInv
  <2> QED
    BY <2>1 DEF WireKept, Kin
<1>2. BackKept(0)
  <2>1. \A j \in Back' : j + 0 = j /\ j - 0 = j
    BY DEF Back, TypeInv
  <2> QED
    BY <2>1 DEF BackKept, LongerBack, Kin
<1> QED
  BY <1>1, <1>2, SamePipeline, SameOwned

\* A call resumes.
LEMMA ResumeInLine ==
  ASSUME TypeInv, TypeInv', Ordered, Pipeline, Owned, Resume
  PROVE  InLine'
<1> DEFINE r == Head(replies)
           s == r.from
<1>1. /\ replies # <<>> /\ replies' = Tail(replies)
      /\ \/ Wrote(r) \/ Updated(r) \/ Staged(r) \/ Committed(r)
         \/ SingleDropped(r) \/ PathDropped(r)
  BY DEF Resume
<1>2. 1 \in Back /\ r = replies[1] /\ r \in Replies
  BY <1>1, Popped, Messages
<1> HIDE DEF r
<1>3. CASE SingleDropped(r) \/ PathDropped(r)
  BY <1>3 DEF SingleDropped, PathDropped, InLine
<1>4. CASE Wrote(r)
  <2>1. UNCHANGED <<staged, committed, slipped, current, saver, abort, wire>> /\ r.op = "write"
    BY <1>4 DEF Wrote, router
  <2>2. ~Acked(1) /\ ~Done(1) /\ Posts("write") /\ \A m : Kin(m)
    BY <1>2, <2>1 DEF Acked, Done, Posts, Kin
  <2>3. Pipeline' /\ Owned'
    BY <1>1, <2>1, <2>2, TakeKeeps
  <2> QED
    BY <2>3 DEF InLine
<1>5. CASE Updated(r) \/ Staged(r) \/ Committed(r)
  <2>0. saver \in Savings
    BY DEF TypeInv, TypeOK, Savings
  <2>1. /\ s \in Savers /\ r.op \in SaveOps /\ replies[1].from = s
        /\ UNCHANGED <<staged, committed, slipped, abort>>
        /\ saver[s].prev \in Root \cup {NoRoot} /\ r.root \in Root \cup {NoRoot}
    BY <1>2, <1>5, Messages DEF Replies, Reply, SaveOps, Updated, Staged, Committed, router
  <2>2. \A t \in Savers : t # s => saver'[t] = saver[t]
    BY <1>5, <2>0 DEF Updated, Staged, Committed, SaveFails, Savings
  <2>3. /\ \A i \in Wire : Commit(i) => Kin(wire[i])
        /\ \A j \in Back : j # 1 /\ (Acked(j) \/ Done(j)) => Kin(replies[j])
    <3>1. Named /\ replies[1].op \in SaveOps
      BY <1>2, <2>1, Messages
    <3>2. /\ \A i \in Wire : Commit(i) => wire[i].from \in Savers /\ wire[i].from # s
          /\ \A j \in Back : j # 1 /\ (Acked(j) \/ Done(j)) =>
               replies[j].from \in Savers /\ replies[j].from # s
      BY <1>2, <2>1, <3>1 DEF Named, Ordered, Single, Commit, Acked, Done, SaveOps
    <3> QED
      BY <2>2, <3>2 DEF Kin
  <2>4. ASSUME NEW o, o # "commit", Posts(o), ~Acked(1), ~Done(1), UNCHANGED current
        PROVE  InLine'
    <3>1. Pipeline' /\ Owned'
      BY <1>1, <2>1, <2>3, <2>4, TakeKeeps
    <3> QED
      BY <3>1 DEF InLine
  <2>5. CASE ~r.ok /\ SaveFails(s)
    <3>1. Posts("set") /\ ~Acked(1) /\ ~Done(1) /\ UNCHANGED current
      BY <1>2, <2>5 DEF SaveFails, Posts, Acked, Done
    <3> QED
      BY <2>4, <3>1
  <2>6. CASE Updated(r) /\ r.ok
    <3>1. ~Acked(1) /\ ~Done(1) /\ UNCHANGED current
      BY <1>2, <2>6 DEF Updated, Acked, Done, SaveFails
    <3>2. CASE UNCHANGED wire
      BY <2>4, <3>1, <3>2 DEF Posts
    <3>3. CASE Post("set", s, r.root, saver[s].prev)
      <4>1. Posts("set")
        BY <2>1, <3>3, PostTyped DEF Posts, TypeInv
      <4> QED
        BY <2>4, <3>1, <4>1
    <3> QED
      BY <2>6, <3>2, <3>3 DEF Updated
  <2>7. CASE Staged(r) /\ r.ok
    <3> DEFINE q == [op |-> "commit", from |-> s, new |-> NoRoot, prev |-> NoRoot]
    <3>1. /\ Acked(1) /\ Post("commit", s, NoRoot, NoRoot) /\ UNCHANGED current
          /\ saver' = [saver EXCEPT ![s].at = "commit"]
      BY <1>2, <2>7 DEF Staged, Acked
    <3>2. \A t \in Savers : saver'[t].new = saver[t].new
      BY <2>0, <2>1, <3>1 DEF Savings
    <3>3. q \in Requests /\ wire' = Append(wire, q)
      BY <2>1, <3>1, PostTyped DEF TypeInv, Post, SaveOps, Request, Requests
    <3>4. Longer(q) /\ q.op = "commit" /\ q.from = replies[1].from
      BY <2>1, <3>3, Appended
    <3>5. Pipeline' /\ Owned'
      BY <1>1, <1>2, <2>1, <3>1, <3>2, <3>3, <3>4, AckedPipeline
    <3> QED
      BY <3>5 DEF InLine
  <2>8. CASE Committed(r) /\ r.ok
    <3>1. Done(1) /\ current' = saver[s].new /\ UNCHANGED wire
      BY <1>2, <2>8 DEF Committed, Done
    <3>2. Age(current') = New(replies[1])
      BY <2>1, <3>1 DEF New
    <3>3. Pipeline' /\ Owned'
      BY <1>1, <1>2, <2>1, <2>2, <3>1, <3>2, DonePipeline
    <3> QED
      BY <3>3 DEF InLine
  <2> QED
    BY <1>5, <2>5, <2>6, <2>7, <2>8 DEF Updated, Staged, Committed
<1> QED
  BY <1>1, <1>3, <1>4, <1>5

\* The router takes a request.
LEMMA ServeInLine ==
  ASSUME TypeInv, TypeInv', Final, Ordered, Pipeline, Owned, abort = "no", Serve \/ Fail
  PROVE  Pipeline' /\ Owned'
<1> DEFINE q == Head(wire)
<1>1. /\ wire # <<>> /\ content \in Root \cup {NoRoot} /\ staged \in Root \cup {NoRoot}
      /\ NoRoot \in Root \cup {NoRoot}
  BY DEF Serve, Fail, TypeInv, TypeOK
<1>2. q.op \notin Drops /\ aborted = {}
  BY <1>1, TailFacts DEF Final, TypeInv
<1>3. ASSUME NEW ok \in BOOLEAN, NEW root \in Root \cup {NoRoot}, Answer(q, ok, root)
      PROVE  \E r \in Replies :
               /\ r.ok = ok /\ r.op = wire[1].op /\ r.from = wire[1].from
               /\ LongerBack(r) /\ ShorterWire /\ wire' = Tail(wire)
               /\ q = wire[1] /\ 1 \in Wire
               /\ UNCHANGED <<current, saver, abort>>
  BY <1>1, <1>3, Answered DEF Answer
<1>4. ASSUME NEW ok \in BOOLEAN, NEW root \in Root \cup {NoRoot}, Answer(q, ok, root),
             UNCHANGED <<staged, committed, slipped>>, q.op # "commit",
             ~ok \/ q.op # "set"
      PROVE  Pipeline' /\ Owned'
  BY <1>1, <1>3, <1>4, AnswerKeeps
<1>5. CASE Fail
  <2>1. /\ Answer(q, FALSE, NoRoot) /\ UNCHANGED <<staged, committed>>
        /\ slipped' = (slipped \/ q.op = "commit") /\ slipped \in BOOLEAN
    BY <1>5 DEF Fail, TypeInv, TypeOK
  <2>2. CASE q.op # "commit"
    BY <1>1, <1>4, <2>1, <2>2
  <2>3. CASE q.op = "commit"
    <3>1. PICK r \in Replies :
            /\ ~r.ok /\ r.op = wire[1].op
            /\ LongerBack(r) /\ ShorterWire /\ wire' = Tail(wire)
            /\ q = wire[1] /\ 1 \in Wire
            /\ UNCHANGED <<current, saver, abort>>
      BY <1>1, <1>3, <2>1
    <3>2. Pipeline'
      BY <3>1, FailedPipeline
    <3>3. slipped'
      BY <2>1, <2>3
    <3>4. StagedOwned'
      BY <1>1, <2>1, <2>3, <3>1, <3>3, RestOwned DEF Owned
    <3> QED
      BY <3>2, <3>3, <3>4 DEF Owned, CurrentOwned
  <2> QED
    BY <2>2, <2>3
<1>6. CASE Serve
  <2>1. CASE q.op \in {"write", "update"}
    <3>1. /\ UNCHANGED <<staged, committed, slipped>>
          /\ Answer(q, FALSE, NoRoot) \/ Answer(q, TRUE, content)
      BY <1>6, <2>1 DEF Serve, router
    <3> QED
      BY <1>1, <1>4, <2>1, <3>1
  <2>2. CASE q.op = "set" /\ Answer(q, FALSE, NoRoot) /\ UNCHANGED router
    BY <1>1, <1>4, <2>2 DEF router
  <2>3. CASE /\ q.op = "set" /\ Answer(q, TRUE, staged)
             /\ staged' = q.new /\ UNCHANGED <<content, committed, aborted, slipped, undropped>>
    <3>1. PICK r \in Replies :
            /\ r.ok /\ r.op = wire[1].op /\ r.from = wire[1].from
            /\ LongerBack(r) /\ ShorterWire /\ wire' = Tail(wire)
            /\ q = wire[1] /\ 1 \in Wire
            /\ UNCHANGED <<current, saver, abort>>
      BY <1>1, <1>3, <2>3
    <3> QED
      BY <1>1, <2>3, <3>1, StagedPipeline, StagedOwns
  <2>4. CASE /\ q.op = "commit" /\ Answer(q, TRUE, staged)
             /\ committed' = staged /\ UNCHANGED <<content, staged, aborted, undropped>>
    <3>1. PICK r \in Replies :
            /\ r.ok /\ r.op = wire[1].op /\ r.from = wire[1].from
            /\ LongerBack(r) /\ ShorterWire /\ wire' = Tail(wire)
            /\ q = wire[1] /\ 1 \in Wire
            /\ UNCHANGED <<current, saver, abort>>
      BY <1>1, <1>3, <2>4
    <3> QED
      BY <1>1, <2>4, <3>1, CommittedPipeline, CommittedOwns DEF Owned
  <2> QED
    BY <1>2, <1>6, <2>1, <2>2, <2>3, <2>4 DEF Serve, Drops
<1> QED
  BY <1>5, <1>6

\* Every step keeps the line of saves, and who has what is staged and committed.
LEMMA InLineStep ==
  ASSUME TypeInv, TypeInv', Final, Ordered, InLine, [Next]_vars
  PROVE  InLine'
<1>1. CASE abort # "no"
  <2>1. abort' # "no"
    BY <1>1 DEF Next, Write, SaveCall, Tick, Save, SaveBegins, SaveClean, StartSave,
       StopSave, Abort, Resume, Wrote, Updated, Staged, Committed, SingleDropped,
       PathDropped, Serve, Fail, Answer, vars
  <2> QED
    BY <2>1 DEF InLine
<1>2. CASE abort = "no"
  <2>0. Pipeline /\ Owned
    BY <1>2 DEF InLine
  <2>1. ASSUME NEW o, o # "commit", Posts(o), UNCHANGED <<router, current, replies>>,
               \A i \in Wire : Commit(i) => Kin(wire[i]),
               \A j \in Back : Acked(j) \/ Done(j) => Kin(replies[j])
        PROVE  InLine'
    <3>1. Pipeline' /\ Owned'
      BY <1>2, <2>0, <2>1, PostKeeps DEF router
    <3> QED
      BY <3>1 DEF InLine
  <2>2. UNCHANGED saver => \A m : Kin(m)
    BY DEF Kin
  <2>3. ASSUME NEW v \in Values, Write(v) PROVE InLine'
    <3>1. Posts("write")
      <4>1. writes' \in Writers /\ v \in Root
        BY <2>3, Bounds DEF Write, TypeInv, TypeOK, Writers, Root
      <4> QED
        BY <2>3, <4>1, PostTyped DEF Write, SaveOps, TypeInv, Posts
    <3> QED
      BY <2>1, <2>2, <2>3, <3>1 DEF Write
  <2>4. CASE Save
    <3>1. CASE SaveClean
      BY <2>1, <2>2, <3>1 DEF SaveClean, Posts
    <3>2. ASSUME NEW s \in Savers, SaveBegins(s) PROVE InLine'
      <4>1. Posts("update") /\ UNCHANGED <<router, current, replies>>
        BY <2>4, <3>2, SavePosts DEF SaveBegins, Save
      <4>2. saver[s].at = "idle" /\ \A t \in Savers : t # s => saver'[t] = saver[t]
        BY <3>2 DEF SaveBegins, TypeInv, TypeOK
      <4>3. /\ \A i \in Wire : Commit(i) => wire[i].from \in Savers /\ wire[i].from # s
            /\ \A j \in Back : (Acked(j) \/ Done(j)) =>
                 replies[j].from \in Savers /\ replies[j].from # s
        BY <4>2, Messages DEF Named, Ordered, Links, Commit, Acked, Done, SaveOps
      <4>4. /\ \A i \in Wire : Commit(i) => Kin(wire[i])
            /\ \A j \in Back : Acked(j) \/ Done(j) => Kin(replies[j])
        BY <4>2, <4>3 DEF Kin
      <4> QED
        BY <2>1, <4>1, <4>4
    <3> QED
      BY <2>4, <3>1, <3>2 DEF Save
  <2>5. CASE SaveCall \/ Tick
    BY <2>4, <2>5 DEF SaveCall, Tick
  <2>6. CASE StartSave \/ StopSave \/ UNCHANGED vars
    <3>1. UNCHANGED <<router, current, replies, saver, wire>>
      BY <2>6 DEF StartSave, StopSave, vars, router
    <3>2. Posts("write")
      BY <3>1 DEF Posts
    <3> QED
      BY <2>1, <2>2, <3>1, <3>2
  <2>7. CASE Abort
    BY <2>7 DEF Abort, InLine
  <2>8. CASE Serve \/ Fail
    BY <1>2, <2>0, <2>8, ServeInLine DEF InLine
  <2> QED
    BY <2>0, <2>3, <2>5, <2>6, <2>7, <2>8, ResumeInLine DEF Next
<1> QED
  BY <1>1, <1>2

\* Where no write brings back an older content, between saves `current` names
\* the root at the path, or the last final commit failed: for any number of
\* overlapping saves and failures (op_data.current of commit_impl).
THEOREM CurrentInStepAlways == ASSUME Fresh PROVE Spec => []CurrentInStep
<1> DEFINE Inv == TypeInv /\ Final /\ Ordered /\ InLine
<1>1. Init => Inv
  <2>1. ASSUME Init PROVE InLine
    <3>1. Wire = {} /\ Back = {} /\ staged = committed /\ current = committed
      BY <2>1 DEF Init, Wire, Back
    <3> QED
      BY <3>1 DEF InLine, Owned, Pipeline, StagedOwned, CurrentOwned
  <2> QED
    BY <2>1, InitInv, InitOrdered
<1>2. Inv /\ [Next]_vars => Inv'
  BY TypeStep, FinalStep, OrderedStep, InLineStep
<1>3. Inv => CurrentInStep
  <2>1. ASSUME Inv, Quiet PROVE slipped \/ (current = committed /\ staged = committed)
    <3>1. Wire = {} /\ Back = {} /\ abort = "no"
      BY <2>1 DEF Quiet, Wire, Back
    <3> QED
      BY <2>1, <3>1 DEF InLine, Owned, StagedOwned, CurrentOwned
  <2> QED
    BY <2>1 DEF CurrentInStep
<1> QED
  BY <1>1, <1>2, <1>3, PTL DEF Spec
=============================================================================
