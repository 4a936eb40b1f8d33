----------------------------- MODULE RouterEvents ----------------------------
(***************************************************************************)
(* RouterWSEventManagerImpl (cyfs-lib/events/ws/manager.ts): the table of  *)
(* event listeners, the queue of unregistrations, and the exchange with    *)
(* the router that keeps the router's table in step with them, over web    *)
(* socket sessions that come and go.                                       *)
(*                                                                         *)
(* A request of a session is answered, or fails (a timeout) while it is    *)
(* still on its way: see Rpc.  The answer need not decode.  A socket that  *)
(* is closing discards what is posted; post_req itself does not throw,     *)
(* because manager.session is set only while its requestor is bound.       *)
(* Sessions begin and end as HandlerSessions allows.  A session can only   *)
(* end once on_session_begin has returned, because its close handler is    *)
(* installed after that (see WsClient): a socket that closes before stays  *)
(* the socket of the session, and nobody hears of its end.                 *)
(***************************************************************************)
EXTENDS Naturals, Sequences, FiniteSets, SequencesExt

CONSTANTS Keys,       \* full ids: category_id
          MaxOps,     \* bound on the calls of add_event and remove_event
          MaxSession, \* bound on the sessions
          Refusals,   \* the router may refuse a registration
          Timeouts,   \* a request may time out
          Garbles     \* answers the router may give that do not decode: "bad"
                      \* is not JSON or has no err, "fatal" is the JSON null
                      \* (the decoder throws) or an error packet that does not
                      \* decode (the request never ends: see WsRequest)

ASSUME EventsAssumption ==
  /\ MaxOps \in Nat /\ MaxSession \in Nat
  /\ {Refusals, Timeouts} \subseteq BOOLEAN
  /\ Garbles \subseteq {"bad", "fatal"}

Ops   == 1 .. MaxOps
None  == 0         \* no listener, no session
Begin == 0         \* the sender of on_session_begin's requests
Nobody == MaxOps + 1 \* the sender of a request that has timed out
Senders == Ops \cup {Begin, Nobody}
Kinds == {"ok", "err"} \cup Garbles

VARIABLES
  events,     \* the listener of each key: the add_event call that put it there
  unregister, \* unregister_events
  session,    \* manager.session
  sid,        \* number of the last session
  socket,     \* its socket: "closed" if there is no session, "open",
              \* "closing", or "deaf", closed and nobody heard of it
  phase,      \* where on_session_begin is: "none", "unregister", "register",
              \* or "broken", it threw or awaits what never comes
  todo,       \* what its loop over a snapshot has left
  wire,       \* requests on their way to the router, in order
  replies,    \* answers on their way back, and timeouts ("err")
  lost,       \* who awaits what a closing socket dropped
  ops,        \* calls of add_event and remove_event so far
  table,      \* the router's registrations
  refused     \* keys whose newest registration the router refused

vars == <<events, unregister, session, sid, socket, phase, todo, wire,
          replies, lost, ops, table, refused>>
router == <<table, refused>>
loop == <<phase, todo>>
conn == <<session, sid, socket>>
sent == <<wire, lost>>

\* The parameters of an add or remove request, and who awaits its answer.
Request(o, k, v, f) == [op |-> o, key |-> k, ver |-> v, from |-> f]

TypeOK ==
  /\ events \in [Keys -> Ops \cup {None}]
  /\ unregister \in SUBSET Keys
  /\ session \in 0 .. MaxSession /\ sid \in 0 .. MaxSession
  /\ socket \in {"closed", "open", "closing", "deaf"}
  /\ phase \in {"none", "unregister", "register", "broken"}
  /\ todo \in SUBSET (Keys \X (Ops \cup {None}))
  /\ wire \in Seq([op : {"add", "remove"}, key : Keys, ver : Ops \cup {None},
                   from : Senders])
  /\ replies \in SUBSET [from : Ops \cup {Begin}, kind : Kinds]
  /\ lost \in SUBSET (Ops \cup {Begin})
  /\ ops \in 0 .. MaxOps
  /\ table \in [Keys -> Ops \cup {None}]
  /\ refused \in SUBSET Keys

Init ==
  /\ events = [k \in Keys |-> None]
  /\ unregister = {}
  /\ session = None /\ sid = 0 /\ socket = "closed"
  /\ phase = "none" /\ todo = {}
  /\ wire = <<>> /\ replies = {} /\ lost = {}
  /\ ops = 0
  /\ table = [k \in Keys |-> None]
  /\ refused = {}

-----------------------------------------------------------------------------
\* A request posted on the session: it goes out, or a socket that is not open
\* any more discards it, and its sender waits until it times out.
Discards == socket \in {"closing", "deaf"}

Post(r) ==
  \/ /\ ~Discards
     /\ wire' = Append(wire, r)
     /\ UNCHANGED lost
  \/ /\ Discards
     /\ lost' = lost \cup {r.from}
     /\ UNCHANGED wire

\* add_event of a key that has a listener: AlreadyExists.
AddExisting(k) ==
  /\ ops < MaxOps
  /\ events[k] # None
  /\ ops' = ops + 1
  /\ UNCHANGED <<events, unregister, conn, loop, sent, replies, router>>

\* add_event: put the listener into the table, register it if connected.
AddEvent(k) ==
  /\ ops < MaxOps
  /\ events[k] = None
  /\ ops' = ops + 1
  /\ events' = [events EXCEPT ![k] = ops']
  /\ IF session # None THEN Post(Request("add", k, ops', ops'))
                       ELSE UNCHANGED sent
  /\ UNCHANGED <<unregister, conn, loop, replies, router>>

\* MUTANT: remove_event that queues only what it cannot carry out at once.
RemoveUnqueued(k) ==
  /\ ops < MaxOps
  /\ ops' = ops + 1
  /\ events' = [events EXCEPT ![k] = None]
  /\ unregister' = IF session # None THEN unregister ELSE unregister \cup {k}
  /\ IF session # None THEN Post(Request("remove", k, None, ops'))
                       ELSE UNCHANGED sent
  /\ UNCHANGED <<conn, loop, replies, router>>

\* remove_event: drop the listener, queue the unregistration, and carry it
\* out at once if connected (else the call fails with NotConnected).
RemoveEvent(k) ==
  /\ ops < MaxOps
  /\ ops' = ops + 1
  /\ events' = [events EXCEPT ![k] = None]
  /\ unregister' = unregister \cup {k}
  /\ IF session # None THEN Post(Request("remove", k, None, ops'))
                       ELSE UNCHANGED sent
  /\ UNCHANGED <<conn, loop, replies, router>>

-----------------------------------------------------------------------------
\* register_all goes on with what is left of its snapshot, or is done.
RegisterNext(left) ==
  \/ /\ left # {}
     /\ \E x \in left :
          /\ Post(Request("add", x[1], x[2], Begin))
          /\ phase' = "register" /\ todo' = left \ {x}
  \/ /\ left = {}
     /\ phase' = "none" /\ todo' = {}
     /\ UNCHANGED sent

\* MUTANT: register_all that leaves out what is queued for unregistration.
SnapshotUnqueued ==
  {<<k, events[k]>> : k \in {j \in Keys : events[j] # None /\ j \notin unregister}}

Snapshot == {<<k, events[k]>> : k \in {j \in Keys : events[j] # None}}

\* unregister_all goes on likewise; register_all comes after it.
UnregisterNext(left) ==
  \/ /\ left # {}
     /\ \E x \in left :
          /\ Post(Request("remove", x[1], None, Begin))
          /\ phase' = "unregister" /\ todo' = left \ {x}
  \/ left = {} /\ RegisterNext(Snapshot)

\* on_session_begin up to its first await: the socket has just opened, so its
\* first request goes out.
SessionBegin ==
  /\ session = None
  /\ sid < MaxSession
  /\ sid' = sid + 1
  /\ session' = sid'
  /\ socket' = "open"
  /\ UnregisterNext({<<k, None>> : k \in unregister})
  /\ UNCHANGED <<events, unregister, replies, ops, router>>

\* A request of unregister_all failed or was answered, with success or not.
\* The entry is deleted under v.id, which is not its index (the full id), so
\* the queue keeps it.
Unregistered(r) ==
  /\ r \in replies
  /\ r.from = Begin
  /\ phase = "unregister"
  /\ r.kind \in {"ok", "err"}
  /\ replies' = replies \ {r}
  /\ UnregisterNext(todo)
  /\ UNCHANGED <<events, unregister, conn, ops, router>>


\* A request of register_all failed or was answered, with success or not; an
\* answer that does not decode is an error like any other.
Registered(r) ==
  /\ r \in replies
  /\ r.from = Begin
  /\ phase = "register"
  /\ r.kind # "fatal"
  /\ replies' = replies \ {r}
  /\ RegisterNext(todo)
  /\ UNCHANGED <<events, unregister, conn, ops, router>>

\* on_session_begin does not go on: unregister logs an answer that does not
\* decode and then unwraps it, which throws out of unregister_all, and a fatal
\* answer throws, or leaves its request without an end, in either loop.
BeginBreaks(r) ==
  /\ r \in replies
  /\ r.from = Begin
  /\ r.kind = "fatal" \/ (r.kind = "bad" /\ phase = "unregister")
  /\ replies' = replies \ {r}
  /\ phase' = "broken" /\ todo' = {}
  /\ UNCHANGED <<events, unregister, conn, sent, ops, router>>

\* The request of an add_event or remove_event call was answered: it returns,
\* or throws, or never ends.
OpReturns(r) ==
  /\ r \in replies
  /\ r.from # Begin
  /\ replies' = replies \ {r}
  /\ UNCHANGED <<events, unregister, conn, loop, sent, ops, router>>

\* on_session_end, then unbind_session aborts what still waits.
SessionEnd ==
  /\ socket = "closing"
  /\ phase = "none"
  /\ session' = None /\ socket' = "closed"
  /\ wire' = <<>> /\ replies' = {} /\ lost' = {}
  /\ UNCHANGED <<events, unregister, sid, loop, ops, router>>

-----------------------------------------------------------------------------
\* External: a late answer finds nobody (on_resp).
Answer(r) ==
  \/ /\ r.from = Nobody
     /\ UNCHANGED replies
  \/ /\ r.from # Nobody
     /\ \E kind \in {"ok"} \cup Garbles :
          replies' = replies \cup {[from |-> r.from, kind |-> kind]}

\* External: the router takes the next request, and for a refusal leaves its
\* table alone.  A refused removal is an answer like any other.
RouterServes ==
  /\ wire # <<>>
  /\ LET r == Head(wire) IN
       /\ table' = [table EXCEPT ![r.key] = r.ver]
       /\ refused' = refused \ {r.key}
       /\ Answer(r)
  /\ wire' = Tail(wire)
  /\ UNCHANGED <<events, unregister, conn, loop, lost, ops>>

RouterRefuses ==
  /\ Refusals
  /\ wire # <<>>
  /\ Head(wire).op = "add"
  /\ Answer(Head(wire))
  /\ refused' = refused \cup {Head(wire).key}
  /\ wire' = Tail(wire)
  /\ UNCHANGED <<events, unregister, conn, loop, lost, ops, table>>

\* External: a router that loses the registrations of a session that is over.
RouterForgets ==
  /\ socket \in {"closed", "deaf"}
  /\ table' = [k \in Keys |-> None]
  /\ UNCHANGED <<events, unregister, conn, loop, sent, replies, ops, refused>>

\* A pending request times out; the router may still serve it.
RequestTimesOut(i) ==
  /\ Timeouts
  /\ wire[i].from # Nobody
  /\ replies' = replies \cup {[from |-> wire[i].from, kind |-> "err"]}
  /\ wire' = [wire EXCEPT ![i].from = Nobody]
  /\ UNCHANGED <<events, unregister, conn, loop, lost, ops, router>>

\* A request that the socket discarded, or the answer to it, times out.
LostTimesOut(s) ==
  /\ s \in lost
  /\ lost' = lost \ {s}
  /\ replies' = replies \cup {[from |-> s, kind |-> "err"]}
  /\ UNCHANGED <<events, unregister, conn, loop, wire, ops, router>>

\* External: the peer closes, the network fails, or the client stops.
SocketCloses ==
  /\ socket = "open"
  /\ socket' = "closing"
  /\ UNCHANGED <<events, unregister, session, sid, loop, sent, replies, ops, router>>

\* What has not arrived by now is dropped, requests and answers.
Drop ==
  /\ \E back \in SUBSET {r \in replies : r.kind # "err"} :
       /\ replies' = replies \ back
       /\ lost' = lost \cup {r.from : r \in back}
                      \cup ({wire[i].from : i \in DOMAIN wire} \ {Nobody})
  /\ wire' = <<>>

\* External: a closing socket drops what is under way.
SocketDrops ==
  /\ socket = "closing"
  /\ Drop
  /\ UNCHANGED <<events, unregister, conn, loop, ops, router>>

\* The close event while on_session_begin is on: the session's onclose is not
\* installed yet, and never called.
CloseUnheard ==
  /\ socket = "closing"
  /\ phase # "none"
  /\ socket' = "deaf"
  /\ Drop
  /\ UNCHANGED <<events, unregister, session, sid, loop, ops, router>>

Next ==
  \/ \E k \in Keys : AddExisting(k) \/ AddEvent(k) \/ RemoveEvent(k)
  \/ SessionBegin \/ SessionEnd
  \/ \E r \in replies : Unregistered(r) \/ Registered(r) \/ BeginBreaks(r) \/ OpReturns(r)
  \/ RouterServes \/ RouterRefuses \/ RouterForgets
  \/ \E i \in DOMAIN wire : RequestTimesOut(i)
  \/ \E s \in lost : LostTimesOut(s)
  \/ SocketCloses \/ SocketDrops \/ CloseUnheard

Spec == Init /\ [][Next]_vars

\* The router serves what it is sent, answers are handled, and requests whose
\* answer does not come time out.
LiveSpec ==
  /\ Spec
  /\ WF_vars(RouterServes)
  /\ WF_vars(\E r \in replies : Unregistered(r) \/ Registered(r) \/ BeginBreaks(r) \/ OpReturns(r))
  /\ WF_vars(\E s \in lost : LostTimesOut(s))

-----------------------------------------------------------------------------
\* Nothing is under way on a session that has begun and whose socket is open.
Quiet == socket = "open" /\ phase = "none" /\ wire = <<>> /\ replies = {}

\* Once things are quiet every listener is registered with the router, unless
\* the router refused it, however add_event, remove_event and on_session_begin
\* interleaved (unregister_all before register_all, each over its snapshot).
ListenersRegistered ==
  Quiet => \A k \in Keys : events[k] # None => table[k] # None \/ k \in refused

\* A registration without a listener is not forgotten: the queue still holds
\* its key, and the next session unregisters it.
GhostsQueued ==
  Quiet => \A k \in Keys : table[k] # None /\ events[k] = None => k \in unregister

=============================================================================
