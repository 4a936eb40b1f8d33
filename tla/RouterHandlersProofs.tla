------------------------- MODULE RouterHandlersProofs ------------------------
(***************************************************************************)
(* The safety properties of RouterHandlers for any keys, and any number of *)
(* calls and sessions.                                                     *)
(***************************************************************************)
EXTENDS RouterHandlers, TLAPS

\* Requests on their way to the router; a registration names a handler.
Message == [key : Keys, ver : Ops \cup {None}, from : Senders]

\* Nothing on the wire is about k.
NoWord(w, k) == \A j \in 1 .. Len(w) : w[j].key # k

\* The last word on the wire about k is v.
LastWord(w, k, v) ==
  \E i \in 1 .. Len(w) :
    w[i].key = k /\ w[i].ver = v /\ \A j \in i + 1 .. Len(w) : w[j].key # k

\* Nothing on the wire registers k.
NoAdd(w, k) == \A j \in 1 .. Len(w) : w[j].key = k => w[j].ver = None

\* The router has the newest handler of k, or refused it.
Held(k) == table[k] = handlers[k] \/ k \in refused

\* While the socket is open the newest handler of k is the last word about k, on
\* the wire or at the router, or register_all will come to it, or has put an
\* older one behind it, or on_session_begin broke before it did.
Covered(k) ==
  handlers[k] # None /\ socket = "open" =>
    \/ phase \in {"unregister", "broken"}
    \/ phase = "register" /\ \E x \in todo : x[1] = k
    \/ k \in stale
    \/ LastWord(wire, k, handlers[k])
    \/ Held(k) /\ NoWord(wire, k)

\* A key that was never removed and has no handler has never had one.
Untouched(k) ==
  k \notin unregister /\ handlers[k] = None =>
    /\ table[k] = None
    /\ NoAdd(wire, k)
    /\ phase = "register" => \A x \in todo : x[1] # k

\* There is a socket while there is a session.
Sockets == session = None <=> socket = "closed"

HandlersInv ==
  TypeOK /\ Sockets /\ (\A k \in Keys : Covered(k)) /\ (\A k \in Keys : Untouched(k))

\* The bounds are numbers.
LEMMA Bounds == MaxOps \in Nat /\ MaxSession \in Nat /\ None \notin Ops
  BY HandlersAssumption DEF Ops, None

\* A message appended to the wire.
LEMMA AppendKeeps ==
  ASSUME NEW w \in Seq(Message), NEW m \in Message, NEW k \in Keys
  PROVE  /\ Append(w, m) \in Seq(Message)
         /\ m.key = k => LastWord(Append(w, m), k, m.ver)
         /\ m.key # k => /\ NoWord(w, k) => NoWord(Append(w, m), k)
                         /\ \A x : LastWord(w, k, x) => LastWord(Append(w, m), k, x)
         /\ NoAdd(w, k) /\ (m.key # k \/ m.ver = None) => NoAdd(Append(w, m), k)
<1> DEFINE v == Append(w, m)
<1>1. /\ v \in Seq(Message) /\ Len(v) = Len(w) + 1 /\ Len(w) \in Nat
      /\ \A j \in 1 .. Len(w) : v[j] = w[j]
      /\ v[Len(w) + 1] = m
  OBVIOUS
<1> HIDE DEF v
<1>2. ASSUME m.key = k PROVE LastWord(v, k, m.ver)
  <2>1. Len(v) \in 1 .. Len(v) /\ v[Len(v)] = m /\ Len(v) + 1 .. Len(v) = {}
    BY <1>1
  <2> QED
    BY <1>2, <2>1 DEF LastWord
<1>3. ASSUME m.key # k, NEW x, LastWord(w, k, x) PROVE LastWord(v, k, x)
  <2>1. PICK i \in 1 .. Len(w) :
          w[i].key = k /\ w[i].ver = x /\ \A j \in i + 1 .. Len(w) : w[j].key # k
    BY <1>3 DEF LastWord
  <2>2. /\ i \in 1 .. Len(v) /\ v[i].key = k /\ v[i].ver = x
        /\ \A j \in i + 1 .. Len(v) : v[j].key # k
    BY <1>1, <1>3, <2>1
  <2> QED
    BY <2>2 DEF LastWord
<1>4. ASSUME m.key # k, NoWord(w, k) PROVE NoWord(v, k)
  BY <1>1, <1>4 DEF NoWord
<1>5. ASSUME m.key # k \/ m.ver = None, NoAdd(w, k) PROVE NoAdd(v, k)
  BY <1>1, <1>5 DEF NoAdd
<1> QED
  BY <1>1, <1>2, <1>3, <1>4, <1>5 DEF v

\* A request that is posted goes out, or its sender is among the lost.
LEMMA PostTyped ==
  ASSUME TypeOK, NEW m \in Message, m.from # Nobody, Post(m)
  PROVE  wire' \in Seq(Message) /\ lost' \in SUBSET (Ops \cup {Begin})
<1>1. /\ wire \in Seq(Message) /\ lost \in SUBSET (Ops \cup {Begin})
      /\ m.from \in Ops \cup {Begin}
  BY DEF TypeOK, Message, Senders
<1>2. CASE Discards
  BY <1>1, <1>2 DEF Post
<1>3. CASE ~Discards
  BY <1>1, <1>3 DEF Post
<1> QED
  BY <1>2, <1>3

\* A request that is posted, or discarded, and one key.
LEMMA PostKeeps ==
  ASSUME NEW w \in Seq(Message), w = wire, NEW m \in Message, NEW k \in Keys, Post(m)
  PROVE  /\ m.key = k /\ ~Discards => LastWord(wire', k, m.ver)
         /\ m.key # k => /\ NoWord(wire, k) => NoWord(wire', k)
                         /\ \A x : LastWord(wire, k, x) => LastWord(wire', k, x)
         /\ NoAdd(wire, k) /\ (m.key # k \/ m.ver = None) => NoAdd(wire', k)
<1>1. CASE Discards
  BY <1>1 DEF Post
<1>2. CASE ~Discards
  <2>1. wire' = Append(w, m)
    BY <1>2 DEF Post
  <2> QED
    BY <2>1, AppendKeeps
<1> QED
  BY <1>1, <1>2

\* The first message taken from the wire.
LEMMA TailKeeps ==
  ASSUME NEW w \in Seq(Message), w # <<>>, NEW k \in Keys
  PROVE  /\ Tail(w) \in Seq(Message) /\ Head(w) \in Message
         /\ NoWord(w, k) => NoWord(Tail(w), k) /\ Head(w).key # k
         /\ \A x : LastWord(w, k, x) =>
              \/ LastWord(Tail(w), k, x)
              \/ Head(w).key = k /\ Head(w).ver = x /\ NoWord(Tail(w), k)
         /\ NoAdd(w, k) => NoAdd(Tail(w), k) /\ (Head(w).key = k => Head(w).ver = None)
<1> DEFINE v == Tail(w)
<1>1. /\ v \in Seq(Message) /\ Len(v) = Len(w) - 1 /\ Len(w) \in Nat \ {0}
      /\ \A j \in 1 .. Len(v) : v[j] = w[j + 1]
      /\ Head(w) = w[1] /\ Head(w) \in Message
  OBVIOUS
<1> HIDE DEF v
<1>2. ASSUME NoWord(w, k) PROVE NoWord(v, k) /\ Head(w).key # k
  BY <1>1, <1>2 DEF NoWord
<1>3. ASSUME NEW x, LastWord(w, k, x)
      PROVE  LastWord(v, k, x) \/ (Head(w).key = k /\ Head(w).ver = x /\ NoWord(v, k))
  <2>1. PICK i \in 1 .. Len(w) :
          w[i].key = k /\ w[i].ver = x /\ \A j \in i + 1 .. Len(w) : w[j].key # k
    BY <1>3 DEF LastWord
  <2>2. CASE i = 1
    BY <1>1, <2>1, <2>2 DEF NoWord
  <2>3. CASE i # 1
    <3>1. /\ i - 1 \in 1 .. Len(v) /\ v[i - 1].key = k /\ v[i - 1].ver = x
          /\ \A j \in (i - 1) + 1 .. Len(v) : v[j].key # k
      BY <1>1, <2>1, <2>3
    <3> QED
      BY <3>1 DEF LastWord
  <2> QED
    BY <2>2, <2>3
<1>4. ASSUME NoAdd(w, k)
      PROVE  NoAdd(v, k) /\ (Head(w).key = k => Head(w).ver = None)
  BY <1>1, <1>4 DEF NoAdd
<1> QED
  BY <1>1, <1>2, <1>3, <1>4 DEF v

\* A sender that timed out: only `from` changes.
LEMMA TimeoutKeeps ==
  ASSUME NEW w \in Seq(Message), NEW i \in DOMAIN w
  PROVE  LET v == [w EXCEPT ![i].from = Nobody] IN
         /\ v \in Seq(Message) /\ Len(v) = Len(w)
         /\ \A j \in 1 .. Len(w) : v[j].key = w[j].key /\ v[j].ver = w[j].ver
<1> DEFINE m == [w[i] EXCEPT !.from = Nobody]
           v == [w EXCEPT ![i] = m]
<1>1. w[i] \in Message /\ Nobody \in Senders /\ i \in 1 .. Len(w)
  BY DEF Senders
<1>2. m \in Message /\ m.key = w[i].key /\ m.ver = w[i].ver
  BY <1>1 DEF Message
<1> HIDE DEF m
<1>3. v \in Seq(Message) /\ Len(v) = Len(w)
  BY <1>2
<1>4. \A j \in 1 .. Len(w) : v[j] = IF j = i THEN m ELSE w[j]
  OBVIOUS
<1>5. [w EXCEPT ![i].from = Nobody] = v
  BY DEF m
<1> QED
  BY <1>2, <1>3, <1>4, <1>5

\* The same of the order on the wire.
LEMMA TimeoutOrder ==
  ASSUME NEW w \in Seq(Message), NEW v \in Seq(Message), NEW k \in Keys,
         Len(v) = Len(w),
         \A j \in 1 .. Len(w) : v[j].key = w[j].key /\ v[j].ver = w[j].ver
  PROVE  /\ \A x : LastWord(w, k, x) => LastWord(v, k, x)
         /\ NoWord(w, k) => NoWord(v, k)
         /\ NoAdd(w, k) => NoAdd(v, k)
<1>1. ASSUME NEW x, LastWord(w, k, x) PROVE LastWord(v, k, x)
  <2>1. PICK i \in 1 .. Len(w) :
          w[i].key = k /\ w[i].ver = x /\ \A j \in i + 1 .. Len(w) : w[j].key # k
    BY <1>1 DEF LastWord
  <2>2. \A j \in i + 1 .. Len(v) : v[j].key # k
    BY <2>1
  <2> QED
    BY <2>1, <2>2 DEF LastWord
<1>2. NoWord(w, k) => NoWord(v, k)
  BY DEF NoWord
<1>3. NoAdd(w, k) => NoAdd(v, k)
  BY DEF NoAdd
<1> QED
  BY <1>1, <1>2, <1>3

\* The request a registration or an unregistration posts.
Word(k, v, f) == [key |-> k, ver |-> v, from |-> f]

\* One request more, posted by register_all or unregister_all, or nothing left
\* to do.
LEMMA NextTyped ==
  ASSUME TypeOK, NEW left \in SUBSET (Keys \X (Ops \cup {None})),
         UnregisterNext(left) \/ RegisterNext(left)
  PROVE  /\ phase' \in {"none", "unregister", "register"}
         /\ todo' \in SUBSET (Keys \X (Ops \cup {None}))
         /\ wire' \in Seq(Message) /\ lost' \in SUBSET (Ops \cup {Begin})
         /\ stale' \in SUBSET Keys
<1>1. /\ wire \in Seq(Message) /\ lost \in SUBSET (Ops \cup {Begin})
      /\ stale \in SUBSET Keys
      /\ Begin \in Senders /\ None \in Ops \cup {None} /\ Begin # Nobody
  BY Bounds DEF TypeOK, Message, Senders, Begin, Nobody
<1>2. Snapshot \in SUBSET (Keys \X (Ops \cup {None}))
  BY DEF Snapshot, TypeOK
<1>3. ASSUME NEW S \in SUBSET (Keys \X (Ops \cup {None})), RegisterNext(S)
      PROVE  /\ phase' \in {"none", "unregister", "register"}
             /\ todo' \in SUBSET (Keys \X (Ops \cup {None}))
             /\ wire' \in Seq(Message) /\ lost' \in SUBSET (Ops \cup {Begin})
             /\ stale' \in SUBSET Keys
  <2>1. CASE S = {}
    BY <1>1, <1>3, <2>1 DEF RegisterNext, sent
  <2>2. CASE S # {}
    <3>1. PICK x \in S :
            /\ Register(x[1], x[2], Begin)
            /\ stale' = IF x[2] = handlers[x[1]] THEN stale \ {x[1]} ELSE stale \cup {x[1]}
            /\ phase' = "register" /\ todo' = S \ {x}
      BY <1>3, <2>2 DEF RegisterNext
    <3>2. /\ Word(x[1], x[2], Begin) \in Message
          /\ Word(x[1], x[2], Begin).from # Nobody
      BY <1>1 DEF Word, Message
    <3>3. wire' \in Seq(Message) /\ lost' \in SUBSET (Ops \cup {Begin})
      BY <3>1, <3>2, PostTyped DEF Register, Word
    <3> QED
      BY <1>1, <3>1, <3>3
  <2> QED
    BY <2>1, <2>2
<1>4. CASE RegisterNext(left)
  BY <1>3, <1>4
<1>5. CASE UnregisterNext(left) /\ left = {}
  BY <1>2, <1>3, <1>5 DEF UnregisterNext
<1>6. CASE UnregisterNext(left) /\ left # {}
  <2>1. PICK x \in left : /\ Unregister(x[1], Begin)
                          /\ phase' = "unregister" /\ todo' = left \ {x}
                          /\ UNCHANGED stale
    BY <1>6 DEF UnregisterNext
  <2>2. /\ Word(x[1], None, Begin) \in Message
        /\ Word(x[1], None, Begin).from # Nobody
    BY <1>1 DEF Word, Message
  <2>3. wire' \in Seq(Message) /\ lost' \in SUBSET (Ops \cup {Begin})
    BY <2>1, <2>2, PostTyped DEF Unregister, Word
  <2> QED
    BY <1>1, <2>1, <2>3
<1> QED
  BY <1>4, <1>5, <1>6

\* The answer to a request whose sender waits.
LEMMA ReplyTyped ==
  ASSUME NEW m \in Message, NEW b \in Kinds, m.from # Nobody
  PROVE  [from |-> m.from, kind |-> b] \in [from : Ops \cup {Begin}, kind : Kinds]
<1>1. m.from \in Ops \cup {Begin}
  BY DEF Message, Senders
<1> QED
  BY <1>1

LEMMA AnswerTyped ==
  ASSUME TypeOK, NEW m \in Message, Answer(m)
  PROVE  replies' \in SUBSET [from : Ops \cup {Begin}, kind : Kinds]
<1>0. replies \in SUBSET [from : Ops \cup {Begin}, kind : Kinds]
  BY DEF TypeOK
<1>1. CASE m.from = Nobody
  BY <1>0, <1>1 DEF Answer
<1>2. CASE m.from # Nobody
  <2>1. PICK b \in {"ok", "bad"} : replies' = replies \cup {[from |-> m.from, kind |-> b]}
    BY <1>2 DEF Answer
  <2>2. b \in Kinds
    BY DEF Kinds
  <2>3. [from |-> m.from, kind |-> b] \in [from : Ops \cup {Begin}, kind : Kinds]
    BY <1>2, <2>2, ReplyTyped
  <2> QED
    BY <1>0, <2>1, <2>3
<1> QED
  BY <1>1, <1>2

\* What a closing socket drops has senders that wait.
LEMMA DropTyped ==
  ASSUME TypeOK, Drop
  PROVE  /\ wire' = <<>> /\ wire' \in Seq(Message)
         /\ replies' \in SUBSET [from : Ops \cup {Begin}, kind : Kinds]
         /\ lost' \in SUBSET (Ops \cup {Begin})
<1>0. /\ replies \in SUBSET [from : Ops \cup {Begin}, kind : Kinds]
      /\ lost \in SUBSET (Ops \cup {Begin}) /\ wire \in Seq(Message)
  BY DEF TypeOK, Message
<1>1. PICK back \in SUBSET {r \in replies : r.kind # "err"} :
        /\ replies' = replies \ back
        /\ lost' = lost \cup {r.from : r \in back}
                       \cup ({wire[i].from : i \in DOMAIN wire} \ {Nobody})
  BY DEF Drop
<1>2. \A i \in DOMAIN wire : wire[i].from \in Ops \cup {Begin, Nobody}
  <2>1. \A i \in DOMAIN wire : wire[i] \in Message
    BY <1>0
  <2> QED
    BY <2>1 DEF Message, Senders
<1>3. \A r \in back : r.from \in Ops \cup {Begin}
  BY <1>0
<1> QED
  BY <1>0, <1>1, <1>2, <1>3 DEF Drop

\* Every variable keeps its type.
LEMMA TypeStep == ASSUME TypeOK, [Next]_vars PROVE TypeOK'
<1> USE Bounds
<1>0. /\ wire \in Seq(Message) /\ "err" \in Kinds
      /\ replies \in SUBSET [from : Ops \cup {Begin}, kind : Kinds]
  BY DEF TypeOK, Message, Kinds
<1>1. ASSUME NEW k \in Keys, AddHandler(k) PROVE TypeOK'
  <2>1. ops' \in Ops /\ ops' \in Senders /\ ops' \in 0 .. MaxOps /\ ops' # Nobody
    BY <1>1 DEF AddHandler, TypeOK, Ops, Senders, Nobody
  <2>2. Word(k, ops', ops') \in Message /\ Word(k, ops', ops').from # Nobody
    BY <2>1 DEF Word, Message
  <2>3. wire' \in Seq(Message) /\ lost' \in SUBSET (Ops \cup {Begin})
    <3>1. CASE session # None
      BY <1>1, <2>2, <3>1, PostTyped DEF AddHandler, Register, Word
    <3>2. CASE session = None
      BY <1>0, <1>1, <3>2 DEF AddHandler, sent, TypeOK
    <3> QED
      BY <3>1, <3>2
  <2>4. stale' \in SUBSET Keys
    BY <1>1 DEF AddHandler, TypeOK
  <2> QED
    BY <1>1, <2>1, <2>3, <2>4 DEF AddHandler, TypeOK, loop, router, conn, Message
<1>2. ASSUME NEW k \in Keys, RemoveHandler(k) PROVE TypeOK'
  <2>1. ops' \in Ops /\ ops' \in Senders /\ ops' \in 0 .. MaxOps /\ ops' # Nobody
    BY <1>2 DEF RemoveHandler, TypeOK, Ops, Senders, Nobody
  <2>2. Word(k, None, ops') \in Message /\ Word(k, None, ops').from # Nobody
    BY <2>1 DEF Word, Message
  <2>3. wire' \in Seq(Message) /\ lost' \in SUBSET (Ops \cup {Begin})
    <3>1. CASE session # None
      BY <1>2, <2>2, <3>1, PostTyped DEF RemoveHandler, Unregister, Word
    <3>2. CASE session = None
      BY <1>0, <1>2, <3>2 DEF RemoveHandler, sent, TypeOK
    <3> QED
      BY <3>1, <3>2
  <2> QED
    BY <1>2, <2>1, <2>3 DEF RemoveHandler, TypeOK, loop, router, conn, Message
<1>3. CASE SessionBegin
  <2>1. Queued \in SUBSET (Keys \X (Ops \cup {None}))
    BY DEF TypeOK, Queued
  <2>2. /\ phase' \in {"none", "unregister", "register"}
        /\ todo' \in SUBSET (Keys \X (Ops \cup {None}))
        /\ wire' \in Seq(Message) /\ lost' \in SUBSET (Ops \cup {Begin})
        /\ stale' \in SUBSET Keys
    BY <1>3, <2>1, NextTyped DEF SessionBegin
  <2> QED
    BY <1>3, <2>2 DEF SessionBegin, TypeOK, local, router, Message
<1>4. ASSUME NEW r \in replies, Unregistered(r) \/ Registered(r) PROVE TypeOK'
  <2>1. todo \in SUBSET (Keys \X (Ops \cup {None}))
    BY DEF TypeOK
  <2>2. /\ phase' \in {"none", "unregister", "register"}
        /\ todo' \in SUBSET (Keys \X (Ops \cup {None}))
        /\ wire' \in Seq(Message) /\ lost' \in SUBSET (Ops \cup {Begin})
        /\ stale' \in SUBSET Keys
    BY <1>4, <2>1, NextTyped DEF Unregistered, Registered
  <2> QED
    BY <1>4, <2>2 DEF Unregistered, Registered, TypeOK, local, router, conn, Message
<1>5. ASSUME NEW r \in replies, OpReturns(r) \/ BeginBreaks(r) PROVE TypeOK'
  BY <1>5 DEF OpReturns, BeginBreaks, TypeOK, local, loop, router, conn, sent
<1>6. CASE SessionEnd
  BY <1>6 DEF SessionEnd, TypeOK, local, loop, router, None
<1>7. CASE RouterServes \/ RouterRefuses
  <2>1. Head(wire) \in Message /\ Tail(wire) \in Seq(Message)
    BY <1>0, <1>7 DEF RouterServes, RouterRefuses
  <2>2. replies' \in SUBSET [from : Ops \cup {Begin}, kind : Kinds]
    BY <1>7, <2>1, AnswerTyped DEF RouterServes, RouterRefuses
  <2>3. Head(wire).key \in Keys /\ Head(wire).ver \in Ops \cup {None}
    BY <2>1 DEF Message
  <2> QED
    BY <1>7, <2>1, <2>2, <2>3 DEF RouterServes, RouterRefuses, TypeOK, local, loop, conn, Message
<1>8. ASSUME NEW i \in DOMAIN wire, RequestTimesOut(i) PROVE TypeOK'
  <2>1. wire[i] \in Message
    BY <1>0
  <2>2. wire' \in Seq(Message)
    BY <1>0, <1>8, TimeoutKeeps DEF RequestTimesOut
  <2>3. replies' \in SUBSET [from : Ops \cup {Begin}, kind : Kinds]
    BY <1>0, <1>8, <2>1, ReplyTyped DEF RequestTimesOut
  <2> QED
    BY <1>8, <2>2, <2>3 DEF RequestTimesOut, TypeOK, local, loop, router, conn, Message
<1>9. ASSUME NEW x \in lost, LostTimesOut(x) PROVE TypeOK'
  BY <1>0, <1>9 DEF LostTimesOut, TypeOK, local, loop, router, conn
<1>10. CASE SocketCloses
  BY <1>10 DEF SocketCloses, TypeOK, local, loop, router, sent
<1>11. CASE SocketDrops \/ CloseUnheard
  <2>1. /\ wire' \in Seq(Message)
        /\ replies' \in SUBSET [from : Ops \cup {Begin}, kind : Kinds]
        /\ lost' \in SUBSET (Ops \cup {Begin})
    BY <1>11, DropTyped DEF SocketDrops, CloseUnheard
  <2>2. /\ UNCHANGED <<local, session, sid, loop, router, stale>>
        /\ socket' = "deaf" \/ socket' = socket
    BY <1>11 DEF SocketDrops, CloseUnheard, conn
  <2> QED
    BY <2>1, <2>2 DEF TypeOK, local, loop, router, Message
<1>12. CASE UNCHANGED vars
  BY <1>12 DEF vars, TypeOK
<1> QED
  BY <1>1, <1>2, <1>3, <1>4, <1>5, <1>6, <1>7, <1>8, <1>9, <1>10, <1>11, <1>12 DEF Next

\* There stays a socket while there is a session.
LEMMA SocketStep == ASSUME TypeOK, Sockets, [Next]_vars PROVE Sockets'
<1>1. CASE SessionBegin
  BY <1>1 DEF SessionBegin, TypeOK, Sockets, None
<1>2. CASE SessionEnd
  BY <1>2 DEF SessionEnd, Sockets
<1>3. CASE SocketCloses \/ CloseUnheard
  BY <1>3 DEF SocketCloses, CloseUnheard, Sockets
<1>4. ASSUME UNCHANGED conn PROVE Sockets'
  BY <1>4 DEF conn, Sockets
<1>5. CASE UNCHANGED vars
  BY <1>5 DEF vars, Sockets
<1> QED
  BY <1>1, <1>2, <1>3, <1>4, <1>5
     DEF Next, AddHandler, RemoveHandler, Unregistered, Registered, BeginBreaks, OpReturns,
         RouterServes, RouterRefuses, RequestTimesOut, LostTimesOut, SocketDrops

\* What register_all does to one key.
LEMMA RegisterNextKeeps ==
  ASSUME TypeOK, NEW k \in Keys, NEW left \in SUBSET (Keys \X (Ops \cup {None})),
         RegisterNext(left)
  PROVE  /\ k \in stale => k \in stale' \/ (~Discards => LastWord(wire', k, handlers[k]))
         /\ LastWord(wire, k, handlers[k]) =>
              k \in stale' \/ LastWord(wire', k, handlers[k])
         /\ NoWord(wire, k) =>
              k \in stale' \/ LastWord(wire', k, handlers[k]) \/ NoWord(wire', k)
         /\ ~Discards /\ (\E x \in left : x[1] = k) =>
              \/ phase' = "register" /\ \E x \in todo' : x[1] = k
              \/ k \in stale' \/ LastWord(wire', k, handlers[k])
         /\ NoAdd(wire, k) /\ (\A x \in left : x[1] # k) => NoAdd(wire', k)
         /\ todo' \subseteq left
<1>1. wire \in Seq(Message) /\ Begin \in Senders
  BY DEF TypeOK, Message, Senders
<1>2. CASE left = {}
  BY <1>2 DEF RegisterNext, sent
<1>3. CASE left # {}
  <2>1. PICK x \in left :
          /\ Register(x[1], x[2], Begin)
          /\ stale' = IF x[2] = handlers[x[1]] THEN stale \ {x[1]} ELSE stale \cup {x[1]}
          /\ phase' = "register" /\ todo' = left \ {x}
    BY <1>3 DEF RegisterNext
  <2> DEFINE m == Word(x[1], x[2], Begin)
  <2>2. m \in Message /\ m.key = x[1] /\ m.ver = x[2]
    BY <1>1 DEF Word, Message
  <2>3. Post(m)
    BY <2>1 DEF Register, Word
  <2> HIDE DEF m
  <2>4. /\ m.key = k /\ ~Discards => LastWord(wire', k, m.ver)
        /\ m.key # k => /\ NoWord(wire, k) => NoWord(wire', k)
                        /\ \A v : LastWord(wire, k, v) => LastWord(wire', k, v)
        /\ NoAdd(wire, k) /\ m.key # k => NoAdd(wire', k)
    BY <1>1, <2>2, <2>3, PostKeeps
  <2>5. Discards => wire' = wire
    BY <2>3 DEF Post
  <2> QED
    BY <2>1, <2>2, <2>4, <2>5
<1> QED
  BY <1>2, <1>3

\* What unregister_all, and register_all after it, do to one key.
LEMMA UnregisterNextKeeps ==
  ASSUME TypeOK, NEW k \in Keys, NEW left \in SUBSET (Keys \X (Ops \cup {None})),
         UnregisterNext(left)
  PROVE  /\ handlers[k] # None /\ ~Discards =>
              \/ phase' = "unregister"
              \/ phase' = "register" /\ \E x \in todo' : x[1] = k
              \/ k \in stale' \/ LastWord(wire', k, handlers[k])
         /\ NoAdd(wire, k) /\ handlers[k] = None =>
              NoAdd(wire', k) /\ (phase' = "register" => \A x \in todo' : x[1] # k)
<1>1. wire \in Seq(Message) /\ Begin \in Senders /\ None \in Ops \cup {None}
  BY DEF TypeOK, Message, Senders
<1>2. /\ Snapshot \in SUBSET (Keys \X (Ops \cup {None}))
      /\ \A x \in Snapshot : handlers[x[1]] # None
      /\ handlers[k] # None => \E x \in Snapshot : x[1] = k
  <2>1. ASSUME NEW x \in Snapshot
        PROVE  x \in Keys \X (Ops \cup {None}) /\ handlers[x[1]] # None
    <3>1. PICK j \in Keys : handlers[j] # None /\ x = <<j, handlers[j]>>
      BY DEF Snapshot
    <3> QED
      BY <3>1 DEF TypeOK
  <2>2. ASSUME handlers[k] # None PROVE \E x \in Snapshot : x[1] = k
    <3>1. <<k, handlers[k]>> \in Snapshot /\ <<k, handlers[k]>>[1] = k
      BY <2>2 DEF Snapshot
    <3> QED
      BY <3>1
  <2> QED
    BY <2>1, <2>2
<1>3. CASE left = {}
  <2>1. RegisterNext(Snapshot)
    BY <1>3 DEF UnregisterNext
  <2> QED
    BY <1>2, <2>1, RegisterNextKeeps
<1>4. CASE left # {}
  <2>1. PICK x \in left : /\ Unregister(x[1], Begin)
                          /\ phase' = "unregister" /\ todo' = left \ {x}
    BY <1>4 DEF UnregisterNext
  <2> DEFINE m == Word(x[1], None, Begin)
  <2>2. m \in Message /\ m.ver = None
    BY <1>1 DEF Word, Message
  <2>3. Post(m)
    BY <2>1 DEF Unregister, Word
  <2> HIDE DEF m
  <2>4. NoAdd(wire, k) => NoAdd(wire', k)
    BY <1>1, <2>2, <2>3, PostKeeps
  <2> QED
    BY <2>1, <2>4
<1> QED
  BY <1>3, <1>4

\* Every step keeps the invariant of every key.
LEMMA KeyStep ==
  ASSUME HandlersInv, [Next]_vars, NEW k \in Keys
  PROVE  Covered(k)' /\ Untouched(k)'
<1> USE Bounds
<1>0. /\ TypeOK /\ Sockets /\ Covered(k) /\ Untouched(k) /\ wire \in Seq(Message)
      /\ handlers \in [Keys -> Ops \cup {None}] /\ table \in [Keys -> Ops \cup {None}]
      /\ todo \in SUBSET (Keys \X (Ops \cup {None}))
  BY DEF HandlersInv, TypeOK, Message
<1>1. ASSUME NEW j \in Keys, AddHandler(j) PROVE Covered(k)' /\ Untouched(k)'
  <2> DEFINE m == Word(j, ops', ops')
  <2>1. ops' \in Ops /\ ops' \in Senders /\ ops' # None
    BY <1>0, <1>1 DEF AddHandler, TypeOK, Ops, Senders
  <2>2. m \in Message /\ m.key = j /\ m.ver = ops'
    BY <2>1 DEF Word, Message
  <2>3. session # None => Post(m)
    BY <1>1 DEF AddHandler, Register, Word
  <2>4. session = None => wire' = wire
    BY <1>1 DEF AddHandler, sent
  <2> HIDE DEF m
  <2>5. /\ session # None /\ ~Discards /\ j = k => LastWord(wire', k, ops')
        /\ j # k => /\ NoWord(wire, k) => NoWord(wire', k)
                    /\ LastWord(wire, k, handlers[k]) => LastWord(wire', k, handlers[k])
                    /\ NoAdd(wire, k) => NoAdd(wire', k)
    <3>1. CASE session # None
      <4>1. Post(m)
        BY <2>3, <3>1
      <4> QED
        BY <1>0, <2>2, <4>1, PostKeeps
    <3>2. CASE session = None
      BY <2>4, <3>2
    <3> QED
      BY <3>1, <3>2
  <2>6. handlers'[j] = ops' /\ (j # k => handlers'[k] = handlers[k])
    BY <1>0, <1>1, <2>1 DEF AddHandler
  <2>7. j # k => (k \in stale => k \in stale')
    BY <1>1 DEF AddHandler
  <2> QED
    BY <1>0, <1>1, <2>1, <2>5, <2>6, <2>7
       DEF AddHandler, Covered, Untouched, Held, loop, router, conn, Sockets, Discards
<1>2. ASSUME NEW j \in Keys, RemoveHandler(j) PROVE Covered(k)' /\ Untouched(k)'
  <2> DEFINE m == Word(j, None, ops')
  <2>1. ops' \in Senders
    BY <1>0, <1>2 DEF RemoveHandler, TypeOK, Ops, Senders
  <2>2. m \in Message /\ m.key = j /\ m.ver = None
    BY <2>1 DEF Word, Message
  <2>3. session # None => Post(m)
    BY <1>2 DEF RemoveHandler, Unregister, Word
  <2>4. session = None => wire' = wire
    BY <1>2 DEF RemoveHandler, sent
  <2> HIDE DEF m
  <2>5. /\ j # k => /\ NoWord(wire, k) => NoWord(wire', k)
                    /\ LastWord(wire, k, handlers[k]) => LastWord(wire', k, handlers[k])
        /\ NoAdd(wire, k) => NoAdd(wire', k)
    <3>1. CASE session # None
      <4>1. Post(m)
        BY <2>3, <3>1
      <4> QED
        BY <1>0, <2>2, <4>1, PostKeeps
    <3>2. CASE session = None
      BY <2>4, <3>2
    <3> QED
      BY <3>1, <3>2
  <2>6. /\ handlers'[j] = None /\ (j # k => handlers'[k] = handlers[k])
        /\ unregister' = unregister \cup {j}
    BY <1>0, <1>2 DEF RemoveHandler
  <2> QED
    BY <1>0, <1>2, <2>5, <2>6 DEF RemoveHandler, Covered, Untouched, Held, loop, router, conn
<1>3. CASE SessionBegin
  <2>1. Queued \in SUBSET (Keys \X (Ops \cup {None}))
    BY <1>0 DEF TypeOK, Queued
  <2>2. UnregisterNext(Queued)
    BY <1>3 DEF SessionBegin
  <2>3. ~Discards
    BY <1>0, <1>3 DEF SessionBegin, Sockets, Discards
  <2> QED
    BY <1>0, <1>3, <2>1, <2>2, <2>3, UnregisterNextKeeps
       DEF SessionBegin, Covered, Untouched, Held, local, router
<1>4. ASSUME NEW r \in replies, Unregistered(r) PROVE Covered(k)' /\ Untouched(k)'
  BY <1>0, <1>4, UnregisterNextKeeps
     DEF Unregistered, Covered, Untouched, Held, local, router, conn, Discards
<1>5. ASSUME NEW r \in replies, Registered(r) PROVE Covered(k)' /\ Untouched(k)'
  <2>1. RegisterNext(todo) /\ phase = "register" /\ UNCHANGED <<local, conn, router>>
    BY <1>5 DEF Registered
  <2>2. /\ k \in stale => k \in stale' \/ (~Discards => LastWord(wire', k, handlers[k]))
        /\ LastWord(wire, k, handlers[k]) => k \in stale' \/ LastWord(wire', k, handlers[k])
        /\ NoWord(wire, k) =>
             k \in stale' \/ LastWord(wire', k, handlers[k]) \/ NoWord(wire', k)
        /\ ~Discards /\ (\E x \in todo : x[1] = k) =>
             \/ phase' = "register" /\ \E x \in todo' : x[1] = k
             \/ k \in stale' \/ LastWord(wire', k, handlers[k])
        /\ NoAdd(wire, k) /\ (\A x \in todo : x[1] # k) => NoAdd(wire', k)
        /\ todo' \subseteq todo
    BY <1>0, <2>1, RegisterNextKeeps
  <2>3. Covered(k)'
    BY <1>0, <2>1, <2>2 DEF Covered, Held, local, router, conn, Discards
  <2>4. Untouched(k)'
    BY <1>0, <2>1, <2>2 DEF Untouched, local, router
  <2> QED
    BY <2>3, <2>4
<1>6. ASSUME NEW r \in replies, OpReturns(r) \/ BeginBreaks(r) PROVE Covered(k)' /\ Untouched(k)'
  BY <1>0, <1>6
     DEF OpReturns, BeginBreaks, Covered, Untouched, Held, local, loop, router, conn, sent
<1>7. CASE SessionEnd
  <2>1. NoAdd(wire', k)
    BY <1>7 DEF SessionEnd, NoAdd
  <2> QED
    BY <1>0, <1>7, <2>1 DEF SessionEnd, Covered, Untouched, Held, local, loop, router
<1>8. CASE RouterServes \/ RouterRefuses
  <2>1. wire # <<>> /\ wire' = Tail(wire) /\ UNCHANGED <<local, conn, loop, stale>>
    BY <1>8 DEF RouterServes, RouterRefuses
  <2>2. /\ Head(wire) \in Message
        /\ NoWord(wire, k) => NoWord(wire', k) /\ Head(wire).key # k
        /\ LastWord(wire, k, handlers[k]) =>
             \/ LastWord(wire', k, handlers[k])
             \/ Head(wire).key = k /\ Head(wire).ver = handlers[k] /\ NoWord(wire', k)
        /\ NoAdd(wire, k) => NoAdd(wire', k) /\ (Head(wire).key = k => Head(wire).ver = None)
    BY <1>0, <2>1, TailKeeps
  <2>3. /\ Head(wire).key = k /\ Head(wire).ver = handlers[k] => Held(k)'
        /\ Head(wire).key # k /\ Held(k) => Held(k)'
    <3>1. CASE RouterServes
      <4>1. /\ table' = [table EXCEPT ![Head(wire).key] = Head(wire).ver]
            /\ refused' = refused \ {Head(wire).key}
        BY <3>1 DEF RouterServes
      <4> QED
        BY <1>0, <2>1, <4>1 DEF Held, local
    <3>2. CASE RouterRefuses
      BY <2>1, <3>2 DEF RouterRefuses, Held, local
    <3> QED
      BY <1>8, <3>1, <3>2
  <2>4. (Head(wire).key = k => Head(wire).ver = None) /\ table[k] = None => table'[k] = None
    <3>1. CASE RouterServes
      <4>1. table' = [table EXCEPT ![Head(wire).key] = Head(wire).ver]
        BY <3>1 DEF RouterServes
      <4> QED
        BY <1>0, <4>1
    <3>2. CASE RouterRefuses
      BY <3>2 DEF RouterRefuses
    <3> QED
      BY <1>8, <3>1, <3>2
  <2>5. Covered(k)'
    BY <1>0, <2>1, <2>2, <2>3 DEF Covered, local, conn, loop
  <2>6. Untouched(k)'
    BY <1>0, <2>1, <2>2, <2>4 DEF Untouched, local, loop
  <2> QED
    BY <2>5, <2>6
<1>9. ASSUME NEW i \in DOMAIN wire, RequestTimesOut(i) PROVE Covered(k)' /\ Untouched(k)'
  <2>1. /\ wire' \in Seq(Message) /\ Len(wire') = Len(wire)
        /\ \A j \in 1 .. Len(wire) : wire'[j].key = wire[j].key /\ wire'[j].ver = wire[j].ver
    BY <1>0, <1>9, TimeoutKeeps DEF RequestTimesOut
  <2>2. /\ LastWord(wire, k, handlers[k]) => LastWord(wire', k, handlers[k])
        /\ NoWord(wire, k) => NoWord(wire', k)
        /\ NoAdd(wire, k) => NoAdd(wire', k)
    BY <1>0, <2>1, TimeoutOrder
  <2> QED
    BY <1>0, <1>9, <2>2 DEF RequestTimesOut, Covered, Untouched, Held, local, loop, router, conn
<1>10. ASSUME NEW x \in lost, LostTimesOut(x) PROVE Covered(k)' /\ Untouched(k)'
  BY <1>0, <1>10 DEF LostTimesOut, Covered, Untouched, Held, local, loop, router, conn
<1>11. CASE SocketCloses
  BY <1>0, <1>11 DEF SocketCloses, Covered, Untouched, local, loop, router, sent
<1>12. CASE SocketDrops \/ CloseUnheard
  <2>1. wire' = <<>> /\ socket' # "open" /\ UNCHANGED <<local, loop, router>>
    BY <1>12 DEF SocketDrops, CloseUnheard, Drop, conn
  <2>2. NoAdd(wire', k)
    BY <2>1 DEF NoAdd
  <2> QED
    BY <1>0, <2>1, <2>2 DEF Covered, Untouched, local, loop, router
<1>13. CASE UNCHANGED vars
  BY <1>0, <1>13 DEF vars, Covered, Untouched, Held
<1> QED
  BY <1>1, <1>2, <1>3, <1>4, <1>5, <1>6, <1>7, <1>8, <1>9, <1>10, <1>11, <1>12, <1>13 DEF Next

\* The specification never leaves the invariant.
LEMMA HandlersInvAlways == Spec => []HandlersInv
<1>1. Init => HandlersInv
  <2> SUFFICES ASSUME Init PROVE HandlersInv
    OBVIOUS
  <2>1. TypeOK
    BY Bounds DEF Init, TypeOK, None
  <2>2. ASSUME NEW k \in Keys PROVE Covered(k) /\ Untouched(k)
    BY DEF Init, Covered, Untouched, NoAdd
  <2> QED
    BY <2>1, <2>2 DEF HandlersInv, Sockets, Init
<1>2. HandlersInv /\ [Next]_vars => HandlersInv'
  <2> SUFFICES ASSUME HandlersInv, [Next]_vars PROVE HandlersInv'
    OBVIOUS
  <2>1. TypeOK' /\ Sockets'
    BY TypeStep, SocketStep DEF HandlersInv
  <2>2. ASSUME NEW k \in Keys PROVE Covered(k)' /\ Untouched(k)'
    BY KeyStep
  <2> QED
    BY <2>1, <2>2 DEF HandlersInv
<1> QED
  BY <1>1, <1>2, PTL DEF Spec

\* Every variable keeps its type.
THEOREM HandlersTypeCorrect == Spec => []TypeOK
<1>1. HandlersInv => TypeOK
  BY DEF HandlersInv
<1> QED
  BY <1>1, HandlersInvAlways, PTL

\* When things are quiet the router has the newest handler of every key, or
\* refused it, or was given the one register_all had in its snapshot after it.
THEOREM HandlersRegisteredAlways == Spec => []HandlersRegistered
<1>1. HandlersInv => HandlersRegistered
  <2> SUFFICES ASSUME HandlersInv, Quiet, NEW k \in Keys, handlers[k] # None
               PROVE  table[k] = handlers[k] \/ k \in refused \/ k \in stale
    BY DEF HandlersRegistered
  <2>1. Covered(k) /\ socket = "open" /\ phase = "none" /\ wire = <<>>
    BY DEF HandlersInv, Quiet
  <2>2. ~LastWord(wire, k, handlers[k])
    BY <2>1 DEF LastWord
  <2> QED
    BY <2>1, <2>2 DEF Covered, Held
<1> QED
  BY <1>1, HandlersInvAlways, PTL

\* A registration without a handler is always queued for removal.
THEOREM GhostsQueuedAlways == Spec => []GhostsQueued
<1>1. HandlersInv => GhostsQueued
  BY DEF HandlersInv, Untouched, GhostsQueued
<1> QED
  BY <1>1, HandlersInvAlways, PTL

-----------------------------------------------------------------------------
\* No request of on_session_begin is on the wire, or one.
NoneWire(w) == \A i \in 1 .. Len(w) : w[i].from # Begin
OneWire(w) == \E i \in 1 .. Len(w) :
                w[i].from = Begin /\ \A j \in 1 .. Len(w) : w[j].from = Begin => j = i

\* No answer to it is on its way back, or one.
NoneBack(s) == \A r \in s : r.from # Begin
OneBack(s) == \E r \in s : r.from = Begin /\ \A q \in s : q.from = Begin => q = r

\* on_session_begin is on only in a session, and then awaits one request, which
\* is on the wire, answered, or lost by the socket and will time out; when it has
\* returned or is broken nothing of it is under way; between sessions nothing is.
Awaits(w, s, l) ==
  \/ OneWire(w) /\ NoneBack(s) /\ Begin \notin l
  \/ NoneWire(w) /\ OneBack(s) /\ Begin \notin l
  \/ NoneWire(w) /\ NoneBack(s) /\ Begin \in l

Free(w, s, l) == NoneWire(w) /\ NoneBack(s) /\ Begin \notin l

Awaiting ==
  /\ session = None => phase = "none" /\ wire = <<>> /\ replies = {} /\ lost = {}
  /\ phase \in {"none", "broken"} => Free(wire, replies, lost)
  /\ phase \in {"unregister", "register"} => Awaits(wire, replies, lost)

\* A request appended to the wire.
LEMMA AppendFrom ==
  ASSUME NEW w \in Seq(Message), NEW m \in Message
  PROVE  /\ m.from # Begin => /\ NoneWire(w) => NoneWire(Append(w, m))
                              /\ OneWire(w) => OneWire(Append(w, m))
         /\ m.from = Begin /\ NoneWire(w) => OneWire(Append(w, m))
<1> DEFINE v == Append(w, m)
<1>1. /\ Len(v) = Len(w) + 1 /\ Len(w) \in Nat /\ v[Len(w) + 1] = m
      /\ \A j \in 1 .. Len(w) : v[j] = w[j]
      /\ \A j \in 1 .. Len(v) : j \in 1 .. Len(w) \/ j = Len(w) + 1
      /\ 1 .. Len(w) \subseteq 1 .. Len(v) /\ Len(w) + 1 \in 1 .. Len(v)
  OBVIOUS
<1> HIDE DEF v
<1>2. ASSUME m.from # Begin, NoneWire(w) PROVE NoneWire(v)
  BY <1>1, <1>2 DEF NoneWire
<1>3. ASSUME m.from # Begin, OneWire(w) PROVE OneWire(v)
  <2>1. PICK i \in 1 .. Len(w) :
          w[i].from = Begin /\ \A j \in 1 .. Len(w) : w[j].from = Begin => j = i
    BY <1>3 DEF OneWire
  <2>2. i \in 1 .. Len(v) /\ v[i].from = Begin
        /\ \A j \in 1 .. Len(v) : v[j].from = Begin => j = i
    BY <1>1, <1>3, <2>1
  <2> QED
    BY <2>2 DEF OneWire
<1>4. ASSUME m.from = Begin, NoneWire(w) PROVE OneWire(v)
  <2>1. \A j \in 1 .. Len(v) : v[j].from = Begin => j = Len(w) + 1
    BY <1>1, <1>4 DEF NoneWire
  <2> QED
    BY <1>1, <1>4, <2>1 DEF OneWire
<1> QED
  BY <1>2, <1>3, <1>4 DEF v

\* The first request taken from the wire.
LEMMA TailFrom ==
  ASSUME NEW w \in Seq(Message), w # <<>>
  PROVE  /\ NoneWire(w) => NoneWire(Tail(w)) /\ Head(w).from # Begin
         /\ OneWire(w) => IF Head(w).from = Begin THEN NoneWire(Tail(w))
                                                  ELSE OneWire(Tail(w))
<1> DEFINE v == Tail(w)
<1>1. /\ Len(v) = Len(w) - 1 /\ Len(w) \in Nat \ {0} /\ Head(w) = w[1] /\ 1 \in 1 .. Len(w)
      /\ \A j \in 1 .. Len(v) : v[j] = w[j + 1] /\ j + 1 \in 1 .. Len(w) /\ j + 1 # 1
      /\ \A i \in 1 .. Len(w) : i # 1 => i - 1 \in 1 .. Len(v) /\ v[i - 1] = w[i]
  OBVIOUS
<1> HIDE DEF v
<1>2. ASSUME NoneWire(w) PROVE NoneWire(v) /\ Head(w).from # Begin
  BY <1>1, <1>2 DEF NoneWire
<1>3. ASSUME OneWire(w) PROVE IF Head(w).from = Begin THEN NoneWire(v) ELSE OneWire(v)
  <2>1. PICK i \in 1 .. Len(w) :
          w[i].from = Begin /\ \A j \in 1 .. Len(w) : w[j].from = Begin => j = i
    BY <1>3 DEF OneWire
  <2>2. CASE Head(w).from = Begin
    <3>1. i = 1
      BY <1>1, <2>1, <2>2
    <3>2. NoneWire(v)
      BY <1>1, <2>1, <3>1 DEF NoneWire
    <3> QED
      BY <2>2, <3>2
  <2>3. CASE Head(w).from # Begin
    <3>1. i - 1 \in 1 .. Len(v) /\ v[i - 1].from = Begin
      BY <1>1, <2>1, <2>3
    <3>2. ASSUME NEW j \in 1 .. Len(v), v[j].from = Begin PROVE j = i - 1
      <4>1. j + 1 = i
        BY <1>1, <2>1, <3>2
      <4> QED
        BY <1>1, <4>1
    <3>3. OneWire(v)
      BY <3>1, <3>2 DEF OneWire
    <3> QED
      BY <2>3, <3>3
  <2> QED
    BY <2>2, <2>3
<1> QED
  BY <1>2, <1>3 DEF v

\* A sender that timed out.
LEMMA TimeoutFrom ==
  ASSUME NEW w \in Seq(Message), NEW i \in DOMAIN w,
         NEW v, v = [w EXCEPT ![i].from = Nobody]
  PROVE  /\ NoneWire(w) => NoneWire(v) /\ w[i].from # Begin
         /\ OneWire(w) => IF w[i].from = Begin THEN NoneWire(v) ELSE OneWire(v)
<1>1. Nobody # Begin
  BY Bounds DEF Nobody, Begin
<1>2. /\ DOMAIN w = 1 .. Len(w) /\ Len(v) = Len(w)
      /\ \A j \in 1 .. Len(w) : j # i => v[j] = w[j]
      /\ v[i].from = Nobody
  <2>1. w[i] \in Message
    OBVIOUS
  <2>2. /\ v[i] = [w[i] EXCEPT !.from = Nobody] /\ DOMAIN v = DOMAIN w
        /\ \A j \in DOMAIN w : j # i => v[j] = w[j]
    OBVIOUS
  <2>3. v[i].from = Nobody
    BY <2>1, <2>2 DEF Message
  <2>4. Len(v) = Len(w)
    BY TimeoutKeeps
  <2> QED
    BY <2>2, <2>3, <2>4
<1>3. ASSUME NoneWire(w) PROVE NoneWire(v) /\ w[i].from # Begin
  BY <1>1, <1>2, <1>3 DEF NoneWire
<1>4. ASSUME OneWire(w) PROVE IF w[i].from = Begin THEN NoneWire(v) ELSE OneWire(v)
  <2>1. PICK n \in 1 .. Len(w) :
          w[n].from = Begin /\ \A j \in 1 .. Len(w) : w[j].from = Begin => j = n
    BY <1>4 DEF OneWire
  <2>2. CASE w[i].from = Begin
    <3>1. i = n
      BY <1>2, <2>1, <2>2
    <3>2. NoneWire(v)
      BY <1>1, <1>2, <2>1, <3>1 DEF NoneWire
    <3> QED
      BY <2>2, <3>2
  <2>3. CASE w[i].from # Begin
    <3>1. n \in 1 .. Len(v) /\ v[n].from = Begin
          /\ \A j \in 1 .. Len(v) : v[j].from = Begin => j = n
      BY <1>1, <1>2, <2>1, <2>3
    <3>2. OneWire(v)
      BY <3>1 DEF OneWire
    <3> QED
      BY <2>3, <3>2
  <2> QED
    BY <2>2, <2>3
<1> QED
  BY <1>3, <1>4

\* A request of on_session_begin that is posted is on the wire or lost.
LEMMA PostAwaits ==
  ASSUME wire \in Seq(Message), NoneWire(wire), Begin \notin lost,
         NEW m \in Message, m.from = Begin, Post(m)
  PROVE  \/ OneWire(wire') /\ Begin \notin lost'
         \/ NoneWire(wire') /\ Begin \in lost'
<1>1. CASE Discards
  BY <1>1 DEF Post
<1>2. CASE ~Discards
  BY <1>2, AppendFrom DEF Post
<1> QED
  BY <1>1, <1>2

\* The loops of on_session_begin post one request, or are done.
LEMMA NextAwaits ==
  ASSUME TypeOK, NoneWire(wire), Begin \notin lost,
         NEW left \in SUBSET (Keys \X (Ops \cup {None})),
         UnregisterNext(left) \/ RegisterNext(left)
  PROVE  \/ phase' = "none" /\ NoneWire(wire') /\ Begin \notin lost'
         \/ phase' \in {"unregister", "register"} /\ OneWire(wire') /\ Begin \notin lost'
         \/ phase' \in {"unregister", "register"} /\ NoneWire(wire') /\ Begin \in lost'
<1>1. wire \in Seq(Message) /\ Begin \in Senders /\ None \in Ops \cup {None}
  BY DEF TypeOK, Message, Senders
<1>2. Snapshot \in SUBSET (Keys \X (Ops \cup {None}))
  BY DEF Snapshot, TypeOK
<1>3. ASSUME NEW S \in SUBSET (Keys \X (Ops \cup {None})), RegisterNext(S)
      PROVE  \/ phase' = "none" /\ NoneWire(wire') /\ Begin \notin lost'
             \/ phase' = "register" /\ OneWire(wire') /\ Begin \notin lost'
             \/ phase' = "register" /\ NoneWire(wire') /\ Begin \in lost'
  <2>1. CASE S = {}
    BY <1>3, <2>1 DEF RegisterNext, sent
  <2>2. CASE S # {}
    <3>1. PICK x \in S : Register(x[1], x[2], Begin) /\ phase' = "register"
      BY <1>3, <2>2 DEF RegisterNext
    <3>2. /\ Word(x[1], x[2], Begin) \in Message
          /\ Word(x[1], x[2], Begin).from = Begin
      BY <1>1 DEF Word, Message
    <3> QED
      BY <1>1, <3>1, <3>2, PostAwaits DEF Register, Word
  <2> QED
    BY <2>1, <2>2
<1>4. CASE RegisterNext(left)
  BY <1>3, <1>4
<1>5. CASE UnregisterNext(left) /\ left = {}
  BY <1>2, <1>3, <1>5 DEF UnregisterNext
<1>6. CASE UnregisterNext(left) /\ left # {}
  <2>1. PICK x \in left : Unregister(x[1], Begin) /\ phase' = "unregister"
    BY <1>6 DEF UnregisterNext
  <2>2. /\ Word(x[1], None, Begin) \in Message
        /\ Word(x[1], None, Begin).from = Begin
    BY <1>1 DEF Word, Message
  <2> QED
    BY <1>1, <2>1, <2>2, PostAwaits DEF Unregister, Word
<1> QED
  BY <1>4, <1>5, <1>6

\* An answer, or a timeout, that comes in.
LEMMA BackFrom ==
  ASSUME NEW a, NEW s
  PROVE  /\ a.from # Begin => /\ NoneBack(s) => NoneBack(s \cup {a})
                              /\ OneBack(s) => OneBack(s \cup {a})
         /\ a.from = Begin /\ NoneBack(s) => OneBack(s \cup {a})
<1>1. a.from # Begin => /\ NoneBack(s) => NoneBack(s \cup {a})
                        /\ OneBack(s) => OneBack(s \cup {a})
  BY DEF NoneBack, OneBack
<1>2. ASSUME a.from = Begin, NoneBack(s) PROVE OneBack(s \cup {a})
  <2>1. \A q \in s \cup {a} : q.from = Begin => q = a
    BY <1>2 DEF NoneBack
  <2> QED
    BY <1>2, <2>1 DEF OneBack
<1> QED
  BY <1>1, <1>2

\* An answer that is handled.
LEMMA TakeFrom ==
  ASSUME NEW s, NEW r \in s
  PROVE  /\ NoneBack(s) => r.from # Begin
         /\ r.from # Begin => /\ NoneBack(s) => NoneBack(s \ {r})
                              /\ OneBack(s) => OneBack(s \ {r})
         /\ r.from = Begin /\ OneBack(s) => NoneBack(s \ {r})
BY DEF NoneBack, OneBack

\* What a call of add_handler or remove_handler posts is its own.
LEMMA OpPosts ==
  ASSUME wire \in Seq(Message), NEW m \in Message, m.from # Begin, Post(m)
  PROVE  /\ NoneWire(wire) => NoneWire(wire')
         /\ OneWire(wire) => OneWire(wire')
         /\ Begin \in lost' <=> Begin \in lost
<1>1. CASE Discards
  BY <1>1 DEF Post
<1>2. CASE ~Discards
  BY <1>2, AppendFrom DEF Post
<1> QED
  BY <1>1, <1>2

\* A closing socket that drops what is under way: what on_session_begin awaits
\* is lost, or its answer has arrived.
LEMMA DropAwaits ==
  ASSUME wire \in Seq(Message), Drop
  PROVE  /\ Free(wire, replies, lost) => Free(wire', replies', lost')
         /\ Awaits(wire, replies, lost) => Awaits(wire', replies', lost')
<1>1. PICK back \in SUBSET {r \in replies : r.kind # "err"} :
        /\ replies' = replies \ back
        /\ lost' = lost \cup {r.from : r \in back}
                       \cup ({wire[i].from : i \in DOMAIN wire} \ {Nobody})
  BY DEF Drop
<1>2. NoneWire(wire') /\ DOMAIN wire = 1 .. Len(wire) /\ Begin # Nobody
  BY Bounds DEF Drop, NoneWire, Begin, Nobody
<1>3. /\ NoneWire(wire) => Begin \notin {wire[i].from : i \in DOMAIN wire}
      /\ OneWire(wire) => Begin \in {wire[i].from : i \in DOMAIN wire}
  BY <1>2 DEF NoneWire, OneWire
<1>4. NoneBack(replies) => NoneBack(replies') /\ Begin \notin {r.from : r \in back}
  BY <1>1 DEF NoneBack
<1>5. OneBack(replies) => \/ OneBack(replies') /\ Begin \notin {r.from : r \in back}
                          \/ NoneBack(replies') /\ Begin \in {r.from : r \in back}
  <2> SUFFICES ASSUME OneBack(replies)
               PROVE  \/ OneBack(replies') /\ Begin \notin {r.from : r \in back}
                      \/ NoneBack(replies') /\ Begin \in {r.from : r \in back}
    OBVIOUS
  <2>1. PICK r \in replies : r.from = Begin /\ \A q \in replies : q.from = Begin => q = r
    BY DEF OneBack
  <2>2. CASE r \in back
    BY <1>1, <2>1, <2>2 DEF NoneBack
  <2>3. CASE r \notin back
    BY <1>1, <2>1, <2>3 DEF OneBack
  <2> QED
    BY <2>2, <2>3
<1> QED
  BY <1>1, <1>2, <1>3, <1>4, <1>5 DEF Free, Awaits

\* Every step keeps what on_session_begin awaits.
LEMMA AwaitingStep ==
  ASSUME TypeOK, Sockets, Awaiting, [Next]_vars
  PROVE  Awaiting'
<1> USE Bounds
<1>0. wire \in Seq(Message)
  BY DEF TypeOK, Message
<1>1. ASSUME UNCHANGED <<session, phase>>, session # None,
             Free(wire, replies, lost) => Free(wire', replies', lost'),
             Awaits(wire, replies, lost) => Awaits(wire', replies', lost')
      PROVE  Awaiting'
  BY <1>1 DEF Awaiting
<1>3. ASSUME NEW k \in Keys, AddHandler(k) \/ RemoveHandler(k) PROVE Awaiting'
  <2>1. ops' \in Ops /\ ops' \in Senders /\ ops' # Begin
    BY <1>3 DEF AddHandler, RemoveHandler, TypeOK, Ops, Senders, Begin
  <2>2. /\ Word(k, ops', ops') \in Message
        /\ Word(k, ops', ops').from # Begin
        /\ Word(k, None, ops') \in Message
        /\ Word(k, None, ops').from # Begin
    BY <2>1 DEF Word, Message
  <2>3. UNCHANGED <<session, phase, replies>>
    BY <1>3 DEF AddHandler, RemoveHandler, loop, conn
  <2>4. CASE session = None
    BY <1>3, <2>3, <2>4 DEF AddHandler, RemoveHandler, sent, Awaiting
  <2>5. CASE session # None
    <3>1. Post(Word(k, ops', ops')) \/ Post(Word(k, None, ops'))
      BY <1>3, <2>5 DEF AddHandler, RemoveHandler, Register, Unregister, Word
    <3>2. /\ NoneWire(wire) => NoneWire(wire')
          /\ OneWire(wire) => OneWire(wire')
          /\ Begin \in lost' <=> Begin \in lost
      BY <1>0, <2>2, <3>1, OpPosts
    <3> QED
      BY <1>1, <2>3, <2>5, <3>2 DEF Free, Awaits
  <2> QED
    BY <2>4, <2>5
<1>4. CASE SessionBegin
  <2>1. /\ session = None /\ session' # None
        /\ UnregisterNext(Queued) /\ UNCHANGED replies
    BY <1>4 DEF SessionBegin, None, TypeOK
  <2>2. Queued \in SUBSET (Keys \X (Ops \cup {None}))
    BY DEF TypeOK, Queued
  <2>3. NoneWire(wire) /\ NoneBack(replies) /\ Begin \notin lost
    BY <2>1 DEF Awaiting, Free
  <2>4. \/ phase' = "none" /\ NoneWire(wire') /\ Begin \notin lost'
        \/ phase' \in {"unregister", "register"} /\ OneWire(wire') /\ Begin \notin lost'
        \/ phase' \in {"unregister", "register"} /\ NoneWire(wire') /\ Begin \in lost'
    BY <2>1, <2>2, <2>3, NextAwaits
  <2> QED
    BY <2>1, <2>3, <2>4 DEF Awaiting, Free, Awaits
<1>5. ASSUME NEW r \in replies, Unregistered(r) \/ Registered(r) PROVE Awaiting'
  <2>1. /\ r.from = Begin /\ phase \in {"unregister", "register"} /\ replies' = replies \ {r}
        /\ UnregisterNext(todo) \/ RegisterNext(todo)
        /\ UNCHANGED session
    BY <1>5 DEF Unregistered, Registered, conn
  <2>2. NoneWire(wire) /\ NoneBack(replies') /\ Begin \notin lost /\ session # None
    BY <2>1, TakeFrom DEF Awaiting, Awaits
  <2>3. todo \in SUBSET (Keys \X (Ops \cup {None}))
    BY DEF TypeOK
  <2>4. \/ phase' = "none" /\ NoneWire(wire') /\ Begin \notin lost'
        \/ phase' \in {"unregister", "register"} /\ OneWire(wire') /\ Begin \notin lost'
        \/ phase' \in {"unregister", "register"} /\ NoneWire(wire') /\ Begin \in lost'
    BY <2>1, <2>2, <2>3, NextAwaits
  <2> QED
    BY <2>1, <2>2, <2>4 DEF Awaiting, Free, Awaits
<1>6. ASSUME NEW r \in replies, BeginBreaks(r) PROVE Awaiting'
  <2>1. /\ r.from = Begin /\ replies' = replies \ {r} /\ phase' = "broken"
        /\ UNCHANGED <<session, wire, lost>>
    BY <1>6 DEF BeginBreaks, conn, sent
  <2>2. ~NoneBack(replies)
    BY <2>1 DEF NoneBack
  <2>3. Awaits(wire, replies, lost) /\ session # None
    BY <1>6, <2>2 DEF Awaiting, Free, TypeOK
  <2>4. Free(wire', replies', lost')
    BY <2>1, <2>2, <2>3, TakeFrom DEF Awaits, Free
  <2> QED
    BY <2>1, <2>3, <2>4 DEF Awaiting
<1>7. ASSUME NEW r \in replies, OpReturns(r) PROVE Awaiting'
  <2>1. /\ r.from # Begin /\ replies' = replies \ {r}
        /\ UNCHANGED <<session, phase, wire, lost>> /\ session # None
    BY <1>7 DEF OpReturns, loop, conn, sent, Awaiting
  <2>2. /\ NoneBack(replies) => NoneBack(replies')
        /\ OneBack(replies) => OneBack(replies')
    BY <2>1, TakeFrom
  <2> QED
    BY <1>1, <2>1, <2>2 DEF Free, Awaits
<1>8. CASE SessionEnd
  <2>1. phase' = "none" /\ wire' = <<>> /\ replies' = {} /\ lost' = {}
    BY <1>8 DEF SessionEnd, loop
  <2>2. Free(<<>>, {}, {})
    BY DEF NoneWire, NoneBack, Free
  <2> QED
    BY <2>1, <2>2 DEF Awaiting
<1>9. CASE RouterServes \/ RouterRefuses
  <2> DEFINE m == Head(wire)
  <2>1. /\ wire # <<>> /\ wire' = Tail(wire) /\ Answer(m)
        /\ UNCHANGED <<session, phase, lost>>
    BY <1>9 DEF RouterServes, RouterRefuses, loop, conn
  <2>2. session # None /\ Nobody # Begin
    BY <2>1 DEF Awaiting, Nobody, Begin
  <2>3. /\ NoneWire(wire) => NoneWire(wire') /\ m.from # Begin
        /\ OneWire(wire) => IF m.from = Begin THEN NoneWire(wire') ELSE OneWire(wire')
    BY <1>0, <2>1, TailFrom
  <2> HIDE DEF m
  <2>4. /\ m.from # Begin => /\ NoneBack(replies) => NoneBack(replies')
                             /\ OneBack(replies) => OneBack(replies')
        /\ m.from = Begin /\ NoneBack(replies) => OneBack(replies')
    <3>1. CASE m.from = Nobody
      BY <2>1, <2>2, <3>1 DEF Answer
    <3>2. CASE m.from # Nobody
      <4>1. PICK b \in {"ok", "bad"} : replies' = replies \cup {[from |-> m.from, kind |-> b]}
        BY <2>1, <3>2 DEF Answer
      <4> DEFINE a == [from |-> m.from, kind |-> b]
      <4>2. replies' = replies \cup {a} /\ a.from = m.from
        BY <4>1
      <4> HIDE DEF a
      <4> QED
        BY <4>2, BackFrom
    <3> QED
      BY <3>1, <3>2
  <2> QED
    BY <1>1, <2>1, <2>2, <2>3, <2>4 DEF Free, Awaits
<1>11. ASSUME NEW i \in DOMAIN wire, RequestTimesOut(i) PROVE Awaiting'
  <2> DEFINE a == [from |-> wire[i].from, kind |-> "err"]
  <2>1. /\ wire' = [wire EXCEPT ![i].from = Nobody]
        /\ replies' = replies \cup {a} /\ a.from = wire[i].from
        /\ UNCHANGED <<session, phase, lost>>
    BY <1>11 DEF RequestTimesOut, loop, conn
  <2> HIDE DEF a
  <2>2. session # None
    <3>1. wire # <<>>
      BY <1>0
    <3> QED
      BY <3>1 DEF Awaiting
  <2>3. /\ NoneWire(wire) => NoneWire(wire') /\ wire[i].from # Begin
        /\ OneWire(wire) => IF wire[i].from = Begin THEN NoneWire(wire') ELSE OneWire(wire')
    <3>1. ASSUME NEW v, v = [wire EXCEPT ![i].from = Nobody]
          PROVE  /\ NoneWire(wire) => NoneWire(v) /\ wire[i].from # Begin
                 /\ OneWire(wire) => IF wire[i].from = Begin THEN NoneWire(v) ELSE OneWire(v)
      BY <1>0, <3>1, TimeoutFrom, ZenonT(60)
    <3> QED
      BY <2>1, <3>1
  <2>4. /\ wire[i].from # Begin => /\ NoneBack(replies) => NoneBack(replies')
                                   /\ OneBack(replies) => OneBack(replies')
        /\ wire[i].from = Begin /\ NoneBack(replies) => OneBack(replies')
    BY <2>1, BackFrom
  <2> QED
    BY <1>1, <2>1, <2>2, <2>3, <2>4 DEF Free, Awaits
<1>12. ASSUME NEW x \in lost, LostTimesOut(x) PROVE Awaiting'
  <2> DEFINE a == [from |-> x, kind |-> "err"]
  <2>1. /\ lost' = lost \ {x} /\ replies' = replies \cup {a} /\ a.from = x
        /\ UNCHANGED <<session, phase, wire>> /\ session # None
    BY <1>12 DEF LostTimesOut, loop, conn, Awaiting
  <2> HIDE DEF a
  <2>2. /\ x # Begin => /\ NoneBack(replies) => NoneBack(replies')
                        /\ OneBack(replies) => OneBack(replies')
        /\ x = Begin /\ NoneBack(replies) => OneBack(replies')
    BY <2>1, BackFrom
  <2> QED
    BY <1>1, <1>12, <2>1, <2>2 DEF Free, Awaits
<1>13. CASE SocketCloses
  BY <1>13 DEF SocketCloses, Awaiting, loop, sent
<1>14. CASE SocketDrops \/ CloseUnheard
  <2>1. Drop /\ UNCHANGED <<session, phase>> /\ session # None
    BY <1>14 DEF SocketDrops, CloseUnheard, loop, conn, Sockets
  <2> QED
    BY <1>0, <1>1, <2>1, DropAwaits
<1>15. CASE UNCHANGED vars
  BY <1>15 DEF vars, Awaiting
<1> QED
  BY <1>3, <1>4, <1>5, <1>6, <1>7, <1>8, <1>9, <1>11, <1>12, <1>13, <1>14, <1>15
     DEF Next

\* While on_session_begin is on, one request of
\* its loops is on its way to the router, its answer is on the way back, or the
\* socket lost either and it will time out, so the loop is never left without
\* what it awaits, and never has two under way.  Once an answer has broken it,
\* nothing of it is under way any more.
THEOREM AwaitingAlways == Spec => []Awaiting
<1>1. Init => Awaiting
  BY DEF Init, Awaiting, Free, NoneWire, NoneBack
<1>2. Spec => [](TypeOK /\ Sockets)
  <2>1. HandlersInv => TypeOK /\ Sockets
    BY DEF HandlersInv
  <2> QED
    BY <2>1, HandlersInvAlways, PTL
<1> QED
  BY <1>1, <1>2, AwaitingStep, PTL DEF Spec
=============================================================================
