------------------------------ MODULE WsClient -------------------------------
(***************************************************************************)
(* WebSocketClient (cyfs-lib/ws/client.ts) with its session manager        *)
(* (session_manager.ts) and WebSocketSession.run (session.ts): the loop    *)
(* that connects, runs one session, waits and reconnects, and stop().      *)
(* An action is the code between two awaits.  The socket is external.      *)
(***************************************************************************)
EXTENDS Naturals, FiniteSets

CONSTANTS Begins,       \* how the handler's on_session_begin goes: it is
                        \* "quick", or it awaits the network ("slow"), and
                        \* then it may throw ("throws")
          Closes,       \* how the platform's ws.close takes the code Aborted
                        \* (35): "accepts" or "refuses" it
          MaxSession    \* bound on the number of sessions

ASSUME ClientAssumption ==
  /\ Begins \subseteq {"quick", "slow", "throws"}
  /\ Closes \subseteq {"accepts", "refuses"}
  /\ MaxSession \in Nat \ {0}

Sids == 1 .. MaxSession
None == 0   \* no session

MinInterval == 2    \* WS_CONNECT_RETRY_MIN_INTERVAL_SECS
MaxInterval == 60   \* WS_CONNECT_RETRY_MAX_INTERVAL_SECS

VARIABLES
  pc,        \* where run() is, see Phases
  ret,       \* result of the session that ended
  interval,  \* retry_interval of run()
  sock,      \* the newest socket
  stopped,   \* WebSocketClient.stopped
  halted,    \* how stop() went: "no", "done", "threw"
  session,   \* WebSocketClient.session
  list,      \* session_manager.list
  next_sid,  \* session_manager.next_sid, counted from 1
  handler,   \* session_manager.handler is still there
  bound,     \* sessions whose requestor is bound
  begun      \* the session the handler was told of and not yet told the end of

vars == <<pc, ret, interval, sock, stopped, halted, session, list, next_sid,
          handler, bound, begun>>
manager == <<list, next_sid, handler>>
told    == <<bound, begun>>

Phases == {"new",        \* start() not called
           "connecting", \* run_once awaits onopen or onerror
           "beginning",  \* WebSocketSession.run awaits on_session_begin
           "running",    \* ... awaits the close event
           "closed",     \* ... has returned
           "removed",    \* run_client_session has returned
           "sleeping",   \* run() waits retry_interval
           "hung",       \* on_session_begin threw: run_once never resolves
           "ended"}      \* run() has left its loop

TypeOK ==
  /\ pc \in Phases
  /\ ret \in {"none", "aborted", "other"}
  /\ interval \in {2, 4, 8, 16, 32, 60}
  /\ sock \in {"none", "opening", "open", "closing", "closed"}
  /\ stopped \in BOOLEAN
  /\ halted \in {"no", "done", "threw"}
  /\ session \in Sids \cup {None}
  /\ list \in SUBSET Sids
  /\ next_sid \in 1 .. MaxSession + 1
  /\ handler \in BOOLEAN
  /\ bound \in SUBSET Sids
  /\ begun \in Sids \cup {None}

Init ==
  /\ pc = "new"
  /\ ret = "none"
  /\ interval = MinInterval
  /\ sock = "none"
  /\ stopped = FALSE
  /\ halted = "no"
  /\ session = None
  /\ list = {}
  /\ next_sid = 1
  /\ handler = TRUE
  /\ bound = {}
  /\ begun = None

-----------------------------------------------------------------------------
\* run() enters its loop: run_once opens a socket.
Start ==
  /\ pc = "new"
  /\ pc' = "connecting"
  /\ sock' = "opening"
  /\ UNCHANGED <<ret, interval, stopped, halted, session, manager, told>>

\* onerror before the socket opened: run_once rejects, run() catches it and
\* sleeps, whether or not the client was stopped.
ConnectFails ==
  /\ pc = "connecting"
  /\ sock' = "closed"
  /\ ret' = "none"
  /\ pc' = "sleeping"
  /\ UNCHANGED <<interval, stopped, halted, session, manager, told>>

\* onopen: new_session, then run() of the session as far as its first await.
OpenSession ==
  /\ pc = "connecting"
  /\ ~stopped
  /\ handler
  /\ next_sid \in Sids
  /\ sock' = "open"
  /\ list' = list \cup {next_sid}
  /\ session' = next_sid
  /\ next_sid' = next_sid + 1
  /\ bound' = bound \cup {next_sid}
  /\ begun' = next_sid
  /\ \/ "quick" \in Begins /\ pc' = "running"
     \/ "slow" \in Begins /\ pc' = "beginning"
  /\ UNCHANGED <<ret, interval, stopped, halted, handler>>

\* MUTANT: onopen after stop() that reports success.
OpenStoppedOk ==
  /\ pc = "connecting"
  /\ stopped
  /\ sock' = "open"
  /\ ret' = "none"
  /\ pc' = "sleeping"
  /\ UNCHANGED <<interval, stopped, halted, session, manager, told>>

\* onopen after stop(): Aborted ends the loop.  Nobody closes the socket.
OpenStopped ==
  /\ pc = "connecting"
  /\ stopped
  /\ sock' = "open"
  /\ ret' = "aborted"
  /\ pc' = "ended"
  /\ UNCHANGED <<interval, stopped, halted, session, manager, told>>

\* on_session_begin has returned: run() installs onclose and awaits it.
BeginReturns ==
  /\ pc = "beginning"
  /\ pc' = "running"
  /\ UNCHANGED <<ret, interval, sock, stopped, halted, session, manager, told>>

\* on_session_begin threw: the promise of run_once is never settled.
BeginFails ==
  /\ "throws" \in Begins
  /\ pc = "beginning"
  /\ pc' = "hung"
  /\ UNCHANGED <<ret, interval, sock, stopped, halted, session, manager, told>>

-----------------------------------------------------------------------------
\* MUTANT: an onclose that forgets on_session_end.
CloseWithoutEnd ==
  /\ pc = "running"
  /\ sock \in {"open", "closing"}
  /\ bound' = bound \ {begun}
  /\ ret' \in (IF sock = "closing" THEN {"aborted", "other"} ELSE {"other"})
  /\ sock' = "closed"
  /\ pc' = "closed"
  /\ UNCHANGED <<begun, interval, stopped, halted, session, manager>>

\* The close event while run() listens for it: the session's onclose.  The
\* code is Aborted when the peer answers our own close with it.
SocketCloses ==
  /\ pc = "running"
  /\ sock \in {"open", "closing"}
  /\ begun' = None
  /\ bound' = bound \ {begun}
  /\ ret' \in (IF sock = "closing" THEN {"aborted", "other"} ELSE {"other"})
  /\ sock' = "closed"
  /\ pc' = "closed"
  /\ UNCHANGED <<interval, stopped, halted, session, manager>>

\* The close event while nobody listens.
CloseUnheard ==
  /\ pc \in {"beginning", "hung"}
  /\ sock \in {"open", "closing"}
  /\ sock' = "closed"
  /\ UNCHANGED <<pc, ret, interval, stopped, halted, session, manager, told>>

\* MUTANT: run_client_session without remove_session.
ReturnsListed ==
  /\ pc = "closed"
  /\ pc' = "removed"
  /\ UNCHANGED <<list, ret, interval, sock, stopped, halted, session, next_sid, handler, told>>

\* run_client_session resumes: remove_session.
SessionReturns ==
  /\ pc = "closed"
  /\ list' = list \ {next_sid - 1}
  /\ pc' = "removed"
  /\ UNCHANGED <<ret, interval, sock, stopped, halted, session, next_sid, handler, told>>

\* MUTANT: run() that leaves its loop on any error.
BreakOnError ==
  /\ pc = "removed"
  /\ session' = None
  /\ pc' = IF ret # "none" THEN "ended" ELSE "sleeping"
  /\ UNCHANGED <<ret, interval, sock, stopped, halted, manager, told>>

\* onopen resumes and resolves run_once; run() looks at the result.
RunOnceReturns ==
  /\ pc = "removed"
  /\ session' = None
  /\ pc' = IF ret = "aborted" THEN "ended" ELSE "sleeping"
  /\ UNCHANGED <<ret, interval, sock, stopped, halted, manager, told>>

\* MUTANT: run() that doubles without a cap.
ReconnectUncapped ==
  /\ pc = "sleeping"
  /\ interval' = 2 * interval
  /\ pc' = "connecting"
  /\ sock' = "opening"
  /\ UNCHANGED <<ret, stopped, halted, session, manager, told>>

\* The retry timer fires: double the interval and connect again.
Reconnect ==
  /\ pc = "sleeping"
  /\ interval' = IF 2 * interval >= MaxInterval THEN MaxInterval ELSE 2 * interval
  /\ pc' = "connecting"
  /\ sock' = "opening"
  /\ UNCHANGED <<ret, stopped, halted, session, manager, told>>

-----------------------------------------------------------------------------
\* stop() with no live socket of a session to close: session_manager.stop.
StopIdle ==
  /\ ~stopped
  /\ session = None \/ session \notin bound
  /\ stopped' = TRUE
  /\ session' = None
  /\ handler' = FALSE
  /\ halted' = "done"
  /\ UNCHANGED <<pc, ret, interval, sock, list, next_sid, told>>

\* stop() of a session whose socket accepts the code.
StopClosing ==
  /\ ~stopped
  /\ session \in bound
  /\ "accepts" \in Closes
  /\ stopped' = TRUE
  /\ session' = None
  /\ sock' = IF sock = "open" THEN "closing" ELSE sock
  /\ handler' = FALSE
  /\ halted' = "done"
  /\ UNCHANGED <<pc, ret, interval, list, next_sid, told>>

\* stop() of a session whose socket refuses the code: close throws out of
\* stop() before session_manager.stop.
StopThrows ==
  /\ ~stopped
  /\ session \in bound
  /\ "refuses" \in Closes
  /\ stopped' = TRUE
  /\ session' = None
  /\ halted' = "threw"
  /\ UNCHANGED <<pc, ret, interval, sock, manager, told>>

Open == OpenSession \/ OpenStopped
Stop == StopIdle \/ StopClosing \/ StopThrows
Loop == SessionReturns \/ RunOnceReturns \/ Reconnect

Next ==
  \/ Start \/ ConnectFails \/ Open
  \/ BeginReturns \/ BeginFails
  \/ SocketCloses \/ CloseUnheard
  \/ Loop \/ Stop

\* Promises resume, timers fire and a socket that closes says so; a server
\* that is tried again and again is reached now and then.  Nothing makes an
\* open socket close unless the client closed it.
Fairness ==
  /\ WF_vars(Loop)
  /\ WF_vars(BeginReturns)
  /\ WF_vars(sock = "closing" /\ SocketCloses)
  /\ SF_vars(Open)

Spec == Init /\ [][Next]_vars
LiveSpec == Spec /\ Fairness

-----------------------------------------------------------------------------
\* run_once opens a socket only when the last session is gone from the client
\* and from the list: the assertion of onopen (client.ts:90), with select_session
\* offering one session at most.
OneSession ==
  /\ pc \in {"new", "connecting", "sleeping", "ended"} => session = None /\ list = {}
  /\ Cardinality(list) <= 1

\* A session select_session can offer is bound to its socket, up to the
\* instants between its close event and its removal.
OfferedIsBound == \A s \in list : s \in bound \/ pc = "closed"

\* What the handler is promised: see HandlerSessions.
Handler == INSTANCE HandlerSessions
             WITH current <- begun, last <- next_sid - 1, stopping <- stopped
ImplementsHandlerSessions == Handler!Spec

\* The client does not hear of its socket: on_session_begin threw, or the
\* socket closed before it returned.  Nothing below holds from there on.
Deaf == pc = "hung" \/ (pc \in {"beginning", "running"} /\ sock = "closed")

\* A connection whose loss is heard is tried again, until stop().
LostIsRetried == sock = "closed" /\ ~Deaf ~> sock = "opening" \/ stopped

\* After stop() the loop ends, once a server can be reached; if ws.close threw
\* out of stop(), once the connection is lost.
StopEndsLoop ==
  stopped /\ pc # "new" /\ (halted = "threw" => sock # "open") ~> pc = "ended" \/ Deaf
=============================================================================
