--------------------------- MODULE HandlerDispatch ---------------------------
(***************************************************************************)
(* Requests of the router to this side of a web socket: the inbound half   *)
(* of WebSocketRequestManager.on_msg (cyfs-lib/ws/request.ts), on_event of *)
(* the handler and of the event manager, and the routines they call, over  *)
(* the client of WsClient.  Each request is a task of its own: listeners   *)
(* run side by side, and while one runs its session may end and another    *)
(* begin.  An action is the code between two awaits.  The router is        *)
(* external: it numbers its requests from 1 again on each session.         *)
(***************************************************************************)
EXTENDS WsClient

CONSTANTS Requests,   \* the router's requests
          Keys,       \* full ids of handlers or listeners
          Seqs,       \* sequence numbers the router uses
          Catching    \* whether the manager may be the one that catches what a
                      \* listener throws (handlers: {TRUE}, events: {FALSE})

ASSUME SeqAssumption      == Seqs \subseteq Nat \ {0}
ASSUME CatchingAssumption == Catching \subseteq BOOLEAN

VARIABLES
  catches, \* which of the two managers it is
  table,   \* the keys of manager.handlers or manager.events
  inbox,   \* requests on their way here
  phase,   \* what became of a request: see RequestPhases
  on,      \* the session each request came over
  seq,     \* ... its number there
  key,     \* ... and what it is for
  broken,  \* requests whose content makes on_event throw: the handlers' on
           \* any that is not JSON, both on the JSON null
  posts    \* the packets the router got: [sid, seq, of, kind]

asked    == <<on, seq, key, broken>>
dispatch == <<catches, table, inbox, phase, asked, posts>>
link     == <<vars, dispatch>>

RequestPhases ==
          {"unsent", "sent",
           "running",  \* on_msg awaits the listener
           "answered", \* on_msg has posted the result
           "threw",    \* on_event or the listener threw out of on_msg
           "nowhere",  \* the result was posted to a session that had ended
           "lost"}     \* the socket dropped the request

DispatchTypeOK ==
  /\ catches \in Catching
  /\ table \subseteq Keys
  /\ inbox \subseteq Requests
  /\ phase \in [Requests -> RequestPhases]
  /\ on \in [Requests -> Sids \cup {None}]
  /\ seq \in [Requests -> Seqs \cup {0}]
  /\ key \in [Requests -> Keys]
  /\ broken \subseteq Requests
  /\ posts \subseteq [sid : Sids, seq : Seqs, of : Requests, kind : {"result", "error"}]

DispatchInit ==
  /\ Init
  /\ catches \in Catching
  /\ table = {}
  /\ inbox = {}
  /\ phase = [r \in Requests |-> "unsent"]
  /\ on = [r \in Requests |-> None]
  /\ seq = [r \in Requests |-> 0]
  /\ key \in [Requests -> Keys]
  /\ broken \in SUBSET Requests
  /\ posts = {}

-----------------------------------------------------------------------------
\* The client goes on: sessions begin and end, and their requestors are bound
\* and unbound.  What a socket that closes had not delivered is lost.
ClientSteps ==
  /\ Next
  /\ inbox' = IF sock' = "closed" THEN {} ELSE inbox
  /\ phase' = [r \in Requests |-> IF r \in inbox \ inbox' THEN "lost" ELSE phase[r]]
  /\ UNCHANGED <<catches, table, asked, posts>>

\* External: a closing socket may drop what comes in.
SocketDrops(r) ==
  /\ r \in inbox
  /\ sock = "closing"
  /\ inbox' = inbox \ {r}
  /\ phase' = [phase EXCEPT ![r] = "lost"]
  /\ UNCHANGED <<vars, catches, table, asked, posts>>

\* add_handler, add_event; remove_handler, remove_event.
Change(k) ==
  /\ table' = IF k \in table THEN table \ {k} ELSE table \cup {k}
  /\ UNCHANGED <<vars, catches, inbox, phase, asked, posts>>

\* External: the router sends a request over a session, under a number it has
\* no open request of that session for.
RouterSends(r, sid, s) ==
  /\ phase[r] = "unsent"
  /\ sid \in bound /\ sock = "open"
  /\ \A q \in Requests : phase[q] \in {"sent", "running"} => <<on[q], seq[q]>> # <<sid, s>>
  /\ phase' = [phase EXCEPT ![r] = "sent"]
  /\ inbox' = inbox \cup {r}
  /\ on' = [on EXCEPT ![r] = sid]
  /\ seq' = [seq EXCEPT ![r] = s]
  /\ UNCHANGED <<vars, catches, table, key, broken, posts>>

-----------------------------------------------------------------------------
\* MUTANT: an answer posted on whatever session is bound now.
PostToCurrent(r, kind) ==
  IF begun # None /\ sock = "open"
  THEN /\ posts' = posts \cup {[sid |-> begun, seq |-> seq[r], of |-> r, kind |-> kind]}
       /\ phase' = [phase EXCEPT ![r] = "answered"]
  ELSE /\ posts' = posts
       /\ phase' = [phase EXCEPT ![r] = "nowhere"]

\* MUTANT: post_to_session that does not mind that there is no session.
PostUnchecked(r, kind) ==
  /\ posts' = posts \cup {[sid |-> begun, seq |-> seq[r], of |-> r, kind |-> kind]}
  /\ phase' = [phase EXCEPT ![r] = "answered"]

\* post_to_session of the requestor the request came in on: it throws when
\* that session has ended, and a socket that is not open throws or discards.
Post(r, kind) ==
  IF on[r] \in bound /\ sock = "open"
  THEN /\ posts' = posts \cup {[sid |-> on[r], seq |-> seq[r], of |-> r, kind |-> kind]}
       /\ phase' = [phase EXCEPT ![r] = "answered"]
  ELSE /\ posts' = posts
       /\ phase' = [phase EXCEPT ![r] = "nowhere"]

\* A message comes in.  on_event finds nothing under the key, or the command
\* is unknown, or the events' parameters do not decode: the error is posted at
\* once.
Reject(r) ==
  /\ r \in inbox
  /\ r \notin broken
  /\ inbox' = inbox \ {r}
  /\ Post(r, "error")
  /\ UNCHANGED <<vars, catches, table, asked>>

\* A message comes in whose content makes on_event throw before it looks for a
\* listener, outside the try of the handlers' emit: on_msg ends without an answer.
ParseThrows(r) ==
  /\ r \in inbox
  /\ r \in broken
  /\ inbox' = inbox \ {r}
  /\ phase' = [phase EXCEPT ![r] = "threw"]
  /\ UNCHANGED <<vars, catches, table, asked, posts>>

\* on_event finds the routine, and emit calls its listener.
Emit(r) ==
  /\ r \in inbox
  /\ r \notin broken
  /\ key[r] \in table
  /\ inbox' = inbox \ {r}
  /\ phase' = [phase EXCEPT ![r] = "running"]
  /\ UNCHANGED <<vars, catches, table, asked, posts>>

\* A handler without a routine: emit returns its default action.
EmitDefault(r) ==
  /\ r \in inbox
  /\ r \notin broken
  /\ catches
  /\ key[r] \in table
  /\ inbox' = inbox \ {r}
  /\ Post(r, "result")
  /\ UNCHANGED <<vars, catches, table, asked>>

\* The listener returns a result or an error, and on_msg posts it, wherever
\* the listener is registered by now.
Returns(r) ==
  /\ phase[r] = "running"
  /\ \E kind \in {"result", "error"} : Post(r, kind)
  /\ UNCHANGED <<vars, catches, table, inbox, asked>>

\* MUTANT: a handler's emit without its try.
ThrowsThrough(r) ==
  /\ phase[r] = "running"
  /\ phase' = [phase EXCEPT ![r] = "threw"]
  /\ UNCHANGED <<posts, vars, catches, table, inbox, asked>>

\* The listener throws: the handlers' emit makes an error of it, the events'
\* emit lets it through, and on_msg ends without an answer.
Throws(r) ==
  /\ phase[r] = "running"
  /\ IF catches THEN Post(r, "error")
                ELSE phase' = [phase EXCEPT ![r] = "threw"] /\ UNCHANGED posts
  /\ UNCHANGED <<vars, catches, table, inbox, asked>>

Receive(r) == Reject(r) \/ ParseThrows(r) \/ Emit(r) \/ EmitDefault(r)
Finish(r)  == Returns(r) \/ Throws(r)

DispatchNext ==
  \/ ClientSteps
  \/ \E k \in Keys : Change(k)
  \/ \E r \in Requests :
       \/ \E sid \in Sids, s \in Seqs : RouterSends(r, sid, s)
       \/ SocketDrops(r) \/ Receive(r) \/ Finish(r)

\* A message that is there is handled, and listeners return or throw.
DispatchFairness == \A r \in Requests : WF_link(Receive(r)) /\ WF_link(Finish(r))

DispatchSpec == DispatchInit /\ [][DispatchNext]_link
DispatchLiveSpec == DispatchSpec /\ DispatchFairness

-----------------------------------------------------------------------------
\* However listeners overlap with each other and with sessions that end and
\* begin, an answer goes out on the session and under the number its request
\* came with, and the router gets one answer at most to a request.
AnswersBelong ==
  /\ \A p \in posts : p.sid = on[p.of] /\ p.seq = seq[p.of]
  /\ \A p, q \in posts : p.of = q.of => p = q

\* Every request that was sent is answered, unless its session is not open any
\* more, its content makes on_event throw, or an event's listener throws.
EveryRequestAnswered ==
  \A r \in Requests :
    phase[r] = "sent" ~>
      \/ phase[r] = "answered"
      \/ phase[r] \in {"lost", "nowhere"} /\ (on[r] \notin bound \/ sock # "open")
      \/ phase[r] = "threw" /\ (r \in broken \/ ~catches)
=============================================================================
