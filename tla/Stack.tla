------------------------------- MODULE Stack ---------------------------------
(***************************************************************************)
(* online() and wait_online() of SharedCyfsStack (cyfs-lib/stack/stack.ts) *)
(* over WSHttpRequestor.request (cyfs-lib/base/base_requestor.ts) and the  *)
(* client of WsClient: the device is fetched over whatever session there   *)
(* is, again and again, while sessions come and go.                        *)
(*                                                                         *)
(* A request completes as in Rpc: once, by an answer or an error.  The     *)
(* device is fetched from the router, which is external.                   *)
(***************************************************************************)
EXTENDS WsClient

CONSTANTS Callers, \* calls of wait_online
          Timed    \* those with a timeout

ASSUME CallersAssumption == Timed \subseteq Callers

VARIABLES
  at,    \* where each call of wait_online is:
         \*   "idle"     not called
         \*   "waiting"  request() found no session and waits 2 seconds
         \*   "asked"    ... awaits post_bytes_req
         \*   "sleeping" wait_online waits 5 seconds
         \*   "online", "timeout", "threw"  it returned, or threw
  over,  \* the session its request is out on, or could not be posted to
  late,  \* its timeout is over
  device \* m_device and m_device_id are set

stack == <<at, over, late, device>>
all   == <<vars, stack>>

Returned(c) == at[c] \in {"online", "timeout", "threw"}

StackInit ==
  /\ Init
  /\ at = [c \in Callers |-> "idle"]
  /\ over = [c \in Callers |-> None]
  /\ late = [c \in Callers |-> FALSE]
  /\ device = FALSE

-----------------------------------------------------------------------------
To(c, place) == at' = [at EXCEPT ![c] = place]

\* MUTANT: wait_online that retries whatever its timeout says.
RetryAlways(c) ==
  /\ To(c, "sleeping")
  /\ over' = [over EXCEPT ![c] = None]
  /\ UNCHANGED <<late, device>>

\* online() returned an error: wait_online looks at its timeout, or sleeps.
Retry(c) ==
  /\ To(c, IF c \in Timed /\ late[c] THEN "timeout" ELSE "sleeping")
  /\ over' = [over EXCEPT ![c] = None]
  /\ UNCHANGED <<late, device>>

\* A session was selected: its requestor posts the request.  post_to_session
\* throws when the session has ended, and so may a socket that is not open;
\* nothing catches it.
Ask(c, s) ==
  \/ /\ s \in bound
     /\ To(c, "asked")
     /\ over' = [over EXCEPT ![c] = s]
     /\ UNCHANGED <<late, device>>
  \/ /\ s \notin bound \/ sock # "open"
     /\ To(c, "threw")
     /\ over' = [over EXCEPT ![c] = s]
     /\ UNCHANGED <<late, device>>

\* online(): nothing to do, or get_device as far as its first await.
GetDevice(c) ==
  /\ \/ /\ device
        /\ To(c, "online")
        /\ UNCHANGED <<over, late, device>>
     \/ ~device /\ \E s \in list : Ask(c, s)
     \/ /\ ~device /\ list = {}
        /\ To(c, "waiting")
        /\ UNCHANGED <<over, late, device>>
  /\ UNCHANGED vars

\* MUTANT: a wait_online that does not come back to online().
OnlineOnce(c) == at[c] = "idle" /\ GetDevice(c)

\* wait_online calls online() at once and after each sleep.
Online(c) == at[c] \in {"idle", "sleeping"} /\ GetDevice(c)

\* The 2 seconds are over: request() looks for a session once more.
WaitOver(c) ==
  /\ at[c] = "waiting"
  /\ (\E s \in list : Ask(c, s)) \/ (list = {} /\ Retry(c))
  /\ UNCHANGED vars

\* The answer came in over the socket the request went out on.
Answered(c) ==
  /\ at[c] = "asked"
  /\ over[c] = begun /\ sock \in {"open", "closing"}
  /\ device' = TRUE
  /\ To(c, "online")
  /\ over' = [over EXCEPT ![c] = None]
  /\ UNCHANGED <<late, vars>>

\* The request was aborted, timed out, or answered with an error.
RequestFails(c) == at[c] = "asked" /\ Retry(c) /\ UNCHANGED vars

\* Time passes.
GrowLate(c) ==
  /\ c \in Timed /\ at[c] # "idle" /\ ~Returned(c)
  /\ ~late[c]
  /\ late' = [late EXCEPT ![c] = TRUE]
  /\ UNCHANGED <<at, over, device, vars>>

Fetch(c) == Online(c) \/ WaitOver(c) \/ Answered(c) \/ RequestFails(c) \/ GrowLate(c)

StackNext == (Next /\ UNCHANGED stack) \/ \E c \in Callers : Fetch(c)

\* WSHttpRequestor starts its client; timers fire, each request completes
\* (EveryCallReturns of WsRequest), time passes, and a router that is asked
\* again and again answers now and then.
StackFairness ==
  /\ WF_vars(Start)
  /\ \A c \in Callers :
       /\ WF_all(at[c] = "sleeping" /\ Online(c))
       /\ WF_all(WaitOver(c))
       /\ WF_all(Answered(c) \/ RequestFails(c))
       /\ WF_all(GrowLate(c))
       /\ SF_all(Answered(c))

StackSpec == StackInit /\ [][StackNext]_all
StackLiveSpec == StackSpec /\ Fairness /\ StackFairness

-----------------------------------------------------------------------------
\* wait_online with a timeout returns, whatever sessions, requests, stop()
\* and other calls of it do.
WaitOnlineReturns == \A c \in Timed : at[c] # "idle" ~> Returned(c)

\* A call of wait_online ended by an exception: the session it was given has
\* ended, or its socket is closing.
GivenDeadSession(c) == at[c] = "threw" /\ (over[c] \notin bound \/ sock # "open")

\* Each call of wait_online gets the device though its requests fail, time out
\* or are aborted by sessions that end.  It gives up only after its own timeout,
\* and is lost to an exception only when select_session gave it a session that
\* was over or closing; else the client was stopped or no longer hears its
\* socket.  (The model has a last session: it must not have ended.)
OnlineWhenServed ==
  \A c \in Callers :
    at[c] # "idle" ~> \/ at[c] = "online"
                      \/ c \in Timed /\ at[c] = "timeout" /\ late[c]
                      \/ GivenDeadSession(c)
                      \/ stopped \/ Deaf
                      \/ (next_sid > MaxSession /\ begun = None)
=============================================================================
