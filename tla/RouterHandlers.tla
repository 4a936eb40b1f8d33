---------------------------- MODULE RouterHandlers ---------------------------
(***************************************************************************)
(* RouterWSHandlerHandlerManagerImpl (router_handler/ws/handler.ts): the   *)
(* handlers an application hooks into the router, the queue of             *)
(* unregistrations and their exchange with the router.  It resembles       *)
(* RouterEvents, with four differences of the code: a handler may be       *)
(* replaced under its id, what is registered is its parameters (so a       *)
(* registration can be out of date), unregister_all does nothing when no   *)
(* handler is left, and an answer that does not decode breaks either loop. *)
(***************************************************************************)
EXTENDS Naturals, Sequences, FiniteSets, SequencesExt

CONSTANTS Keys,       \* full ids: chain_category_id
          MaxOps,     \* bound on the calls of add_handler and remove_handler
          MaxSession  \* bound on the sessions

ASSUME HandlersAssumption == MaxOps \in Nat /\ MaxSession \in Nat

Ops  == 1 .. MaxOps
None == 0   \* no handler, no session

\* Who sent a request: a call, on_session_begin, or a sender that timed out.
Begin   == 0
Nobody  == MaxOps + 1
Senders == Ops \cup {Begin, Nobody}

\* What a request comes to: an answer of the router ("ok"), one that does not
\* decode ("bad"), or a timeout ("err").
Kinds == {"ok", "bad", "err"}

VARIABLES
  handlers,   \* the handler of each key: the add_handler call that put it there
  unregister, \* unregister_handlers
  session,    \* manager.session
  sid,        \* number of the last session
  socket,     \* its socket: "closed" if there is no session, "open",
              \* "closing", or "deaf", closed and nobody heard of it
  phase,      \* where on_session_begin is: "none", "unregister", "register",
              \* or "broken", it threw or awaits what never comes
  todo,       \* what its loop over a snapshot has left
  wire,       \* requests on their way to the router, in order
  replies,    \* answers on their way back, and timeouts
  lost,       \* who awaits what a closing socket dropped
  ops,        \* calls of add_handler and remove_handler so far
  table,      \* the router's registrations: whose parameters it holds
  refused,    \* keys whose newest registration the router refused
  stale       \* keys register_all has registered, last of all, a handler of
              \* its snapshot for that was replaced or removed meanwhile

vars == <<handlers, unregister, session, sid, socket, phase, todo, wire,
          replies, lost, ops, table, refused, stale>>
local  == <<handlers, unregister, ops>>
conn   == <<session, sid, socket>>
loop   == <<phase, todo>>
sent   == <<wire, lost>>
router == <<table, refused>>

TypeOK ==
  /\ handlers \in [Keys -> Ops \cup {None}]
  /\ unregister \in SUBSET Keys
  /\ session \in 0 .. MaxSession /\ sid \in 0 .. MaxSession
  /\ socket \in {"closed", "open", "closing", "deaf"}
  /\ phase \in {"none", "unregister", "register", "broken"}
  /\ todo \in SUBSET (Keys \X (Ops \cup {None}))
  /\ wire \in Seq([key : Keys, ver : Ops \cup {None}, from : Senders])
  /\ replies \in SUBSET [from : Ops \cup {Begin}, kind : Kinds]
  /\ lost \in SUBSET (Ops \cup {Begin})
  /\ ops \in 0 .. MaxOps
  /\ table \in [Keys -> Ops \cup {None}]
  /\ refused \in SUBSET Keys /\ stale \in SUBSET Keys

Init ==
  /\ handlers = [k \in Keys |-> None] /\ unregister = {} /\ ops = 0
  /\ session = None /\ sid = 0 /\ socket = "closed"
  /\ phase = "none" /\ todo = {}
  /\ wire = <<>> /\ replies = {} /\ lost = {}
  /\ table = [k \in Keys |-> None] /\ refused = {} /\ stale = {}

-----------------------------------------------------------------------------
\* A request posted on the session: it goes out, or a socket that is not open
\* any more discards it, and its sender waits until it times out.
Discards == socket \in {"closing", "deaf"}

Post(r) ==
  \/ /\ ~Discards
     /\ wire' = Append(wire, r)
     /\ UNCHANGED lost
  \/ /\ Discards
     /\ lost' = lost \cup {r.from}
     /\ UNCHANGED wire

\* The requests of RouterHandlerItem.register and the unregister items.
Register(k, v, f) == Post([key |-> k, ver |-> v, from |-> f])
Unregister(k, f)  == Post([key |-> k, ver |-> None, from |-> f])

\* add_handler: put the handler into the table, in place of one of the same
\* id, and register it if connected.
AddHandler(k) ==
  /\ ops < MaxOps
  /\ ops' = ops + 1
  /\ handlers' = [handlers EXCEPT ![k] = ops']
  /\ IF session # None THEN Register(k, ops', ops') /\ stale' = stale \ {k}
                       ELSE UNCHANGED <<sent, stale>>
  /\ UNCHANGED <<unregister, conn, loop, replies, router>>

\* MUTANT: remove_handler that queues only what is not connected.
RemoveUnqueued(k) ==
  /\ ops < MaxOps
  /\ ops' = ops + 1
  /\ handlers' = [handlers EXCEPT ![k] = None]
  /\ unregister' = IF session # None THEN unregister ELSE unregister \cup {k}
  /\ IF session # None THEN Unregister(k, ops') ELSE UNCHANGED sent
  /\ UNCHANGED <<conn, loop, replies, router, stale>>

\* remove_handler: drop the handler, queue the unregistration, and carry it
\* out at once if connected (else the call fails with NotConnected).
RemoveHandler(k) ==
  /\ ops < MaxOps
  /\ ops' = ops + 1
  /\ handlers' = [handlers EXCEPT ![k] = None]
  /\ unregister' = unregister \cup {k}
  /\ IF session # None THEN Unregister(k, ops') ELSE UNCHANGED sent
  /\ UNCHANGED <<conn, loop, replies, router, stale>>

-----------------------------------------------------------------------------
\* register_all goes on with what is left of its snapshot, or is done.
RegisterNext(left) ==
  \/ \E x \in left :
       /\ Register(x[1], x[2], Begin)
       /\ stale' = IF x[2] = handlers[x[1]] THEN stale \ {x[1]} ELSE stale \cup {x[1]}
       /\ phase' = "register" /\ todo' = left \ {x}
  \/ /\ left = {}
     /\ phase' = "none" /\ todo' = {}
     /\ UNCHANGED <<sent, stale>>

\* MUTANT: register_all that leaves out what is queued for unregistration.
SnapshotUnqueued ==
  {<<k, handlers[k]>> : k \in {j \in Keys : handlers[j] # None /\ j \notin unregister}}

\* What register_all loops over.
Snapshot == {<<k, handlers[k]>> : k \in {j \in Keys : handlers[j] # None}}

\* unregister_all goes on likewise; register_all comes after it.
UnregisterNext(left) ==
  \/ \E x \in left :
       /\ Unregister(x[1], Begin)
       /\ phase' = "unregister" /\ todo' = left \ {x}
       /\ UNCHANGED stale
  \/ left = {} /\ RegisterNext(Snapshot)

\* What unregister_all loops over: nothing, when no handler is left.
Queued ==
  IF Snapshot = {} THEN {} ELSE {<<k, None>> : k \in unregister}

\* on_session_begin up to its first await: the socket has just opened, so its
\* first request goes out.
SessionBegin ==
  /\ session = None
  /\ sid < MaxSession
  /\ sid' = sid + 1
  /\ session' = sid'
  /\ socket' = "open"
  /\ UnregisterNext(Queued)
  /\ UNCHANGED <<local, replies, router>>

\* A request of unregister_all failed or was answered, with success or not.
\* The entry is deleted under v.id, which is not its index (the full id), so
\* the queue keeps it.
Unregistered(r) ==
  /\ r \in replies
  /\ r.from = Begin
  /\ phase = "unregister"
  /\ r.kind # "bad"
  /\ replies' = replies \ {r}
  /\ UnregisterNext(todo)
  /\ UNCHANGED <<local, conn, router>>

\* A request of register_all failed or was answered; a failure and a refusal
\* are only logged.
Registered(r) ==
  /\ r \in replies
  /\ r.from = Begin
  /\ phase = "register"
  /\ r.kind # "bad"
  /\ replies' = replies \ {r}
  /\ RegisterNext(todo)
  /\ UNCHANGED <<local, conn, router>>

\* An answer that does not decode is unwrapped, which throws out of either loop
\* and of on_session_begin (an error packet that does not decode leaves its
\* request without an end instead: see WsRequest).
BeginBreaks(r) ==
  /\ r \in replies
  /\ r.from = Begin
  /\ r.kind = "bad"
  /\ replies' = replies \ {r}
  /\ phase' = "broken" /\ todo' = {}
  /\ UNCHANGED <<local, conn, sent, router, stale>>

\* The request of a call was answered: the call returns, throws, or never ends.
OpReturns(r) ==
  /\ r \in replies
  /\ r.from # Begin
  /\ replies' = replies \ {r}
  /\ UNCHANGED <<local, conn, loop, sent, router, stale>>

\* on_session_end, then unbind_session aborts what still waits.
SessionEnd ==
  /\ socket = "closing"
  /\ phase = "none"
  /\ session' = None /\ socket' = "closed"
  /\ wire' = <<>> /\ replies' = {} /\ lost' = {}
  /\ UNCHANGED <<local, sid, loop, router, stale>>

-----------------------------------------------------------------------------
\* External: a late answer finds nobody (on_resp).
Answer(r) ==
  \/ /\ r.from = Nobody
     /\ UNCHANGED replies
  \/ /\ r.from # Nobody
     /\ \E kind \in {"ok", "bad"} :
          replies' = replies \cup {[from |-> r.from, kind |-> kind]}

\* External: the router takes the next request, and for a refusal leaves its
\* table alone.  A refused removal is an answer like any other.
RouterServes ==
  /\ wire # <<>>
  /\ LET r == Head(wire) IN
       /\ table' = [table EXCEPT ![r.key] = r.ver]
       /\ refused' = refused \ {r.key}
       /\ Answer(r)
  /\ wire' = Tail(wire)
  /\ UNCHANGED <<local, conn, loop, lost, stale>>

RouterRefuses ==
  /\ wire # <<>>
  /\ Head(wire).ver # None
  /\ Answer(Head(wire))
  /\ refused' = refused \cup {Head(wire).key}
  /\ wire' = Tail(wire)
  /\ UNCHANGED <<local, conn, loop, lost, table, stale>>

\* External: a pending request times out; the router may still serve it.
RequestTimesOut(i) ==
  /\ wire[i].from # Nobody
  /\ replies' = replies \cup {[from |-> wire[i].from, kind |-> "err"]}
  /\ wire' = [wire EXCEPT ![i].from = Nobody]
  /\ UNCHANGED <<local, conn, loop, lost, router, stale>>

\* A request that the socket discarded, or the answer to it, times out.
LostTimesOut(s) ==
  /\ s \in lost
  /\ lost' = lost \ {s}
  /\ replies' = replies \cup {[from |-> s, kind |-> "err"]}
  /\ UNCHANGED <<local, conn, loop, wire, router, stale>>

\* External: the peer closes, the network fails, or the client stops.
SocketCloses ==
  /\ socket = "open"
  /\ socket' = "closing"
  /\ UNCHANGED <<local, session, sid, loop, sent, replies, router, stale>>

\* What has not arrived by now is dropped, requests and answers.
Drop ==
  /\ \E back \in SUBSET {r \in replies : r.kind # "err"} :
       /\ replies' = replies \ back
       /\ lost' = lost \cup {r.from : r \in back}
                      \cup ({wire[i].from : i \in DOMAIN wire} \ {Nobody})
  /\ wire' = <<>>

\* External: a closing socket drops what is under way.
SocketDrops ==
  /\ socket = "closing"
  /\ Drop
  /\ UNCHANGED <<local, conn, loop, router, stale>>

\* The close event while on_session_begin is on: the session's onclose is not
\* installed yet, and never called.
CloseUnheard ==
  /\ socket = "closing"
  /\ phase # "none"
  /\ socket' = "deaf"
  /\ Drop
  /\ UNCHANGED <<local, session, sid, loop, router, stale>>

Next ==
  \/ \E k \in Keys : AddHandler(k) \/ RemoveHandler(k)
  \/ SessionBegin \/ SessionEnd
  \/ \E r \in replies : Unregistered(r) \/ Registered(r) \/ BeginBreaks(r) \/ OpReturns(r)
  \/ RouterServes \/ RouterRefuses
  \/ \E i \in DOMAIN wire : RequestTimesOut(i)
  \/ \E s \in lost : LostTimesOut(s)
  \/ SocketCloses \/ SocketDrops \/ CloseUnheard

Spec == Init /\ [][Next]_vars

-----------------------------------------------------------------------------
\* Nothing is under way on a session that has begun and whose socket is open.
Quiet == socket = "open" /\ phase = "none" /\ wire = <<>> /\ replies = {}

\* Once things are quiet the router holds the newest handler of every key,
\* however the calls and the loops of on_session_begin interleaved, unless it
\* refused it, or register_all put back the handler of its snapshot after
\* add_handler had registered the one that replaced it.
HandlersRegistered ==
  Quiet => \A k \in Keys :
    handlers[k] # None => table[k] = handlers[k] \/ k \in refused \/ k \in stale

\* A registration without a handler is not forgotten: its key is queued.
GhostsQueued ==
  Quiet => \A k \in Keys : table[k] # None /\ handlers[k] = None => k \in unregister
=============================================================================
