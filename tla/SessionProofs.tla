---------------------------- MODULE SessionProofs ----------------------------
(***************************************************************************)
(* Theorems about the web socket client (WsClient) for every bound on the  *)
(* sessions and every behaviour of the handler and of the platform; about  *)
(* the requests that come in over its sessions (HandlerDispatch), for any  *)
(* requests, keys and numbers; and about the shared stack over it (Stack), *)
(* for any calls of wait_online.                                           *)
(***************************************************************************)
EXTENDS Stack, HandlerDispatch, FiniteSetTheorems, TLAPS

\* The session in WebSocketSession.run, and its traces in the session
\* manager, in the requestor and in what the handler was told.
Newest == next_sid - 1

InSession == pc \in {"beginning", "running", "hung"}

Traces ==
  /\ InSession => list = {Newest} /\ bound = {Newest} /\ begun = Newest /\ Newest \in Sids
  /\ pc = "closed" => list = {Newest} /\ Newest \in Sids
  /\ ~InSession => bound = {} /\ begun = None
  /\ ~InSession /\ pc # "closed" => list = {}
  /\ pc \in {"new", "connecting", "sleeping", "ended"} => session = None

ClientInv == TypeOK /\ Traces

\* 0 is the number of no session.
LEMMA SidFacts == Sids \subseteq Nat /\ None \notin Sids /\ MaxSession \in Nat
BY ClientAssumption DEF Sids, None

\* A client that was made and not started satisfies the invariant.
LEMMA ClientInit == Init => ClientInv
<1> SUFFICES ASSUME Init PROVE ClientInv
  OBVIOUS
<1>1. 1 \in 1 .. MaxSession + 1
  BY SidFacts
<1>2. TypeOK
  BY <1>1 DEF Init, TypeOK, Phases, MinInterval
<1>3. Traces
  BY DEF Init, Traces, InSession
<1> QED
  BY <1>2, <1>3 DEF ClientInv

\* Doubling with the cap stays within the six intervals.
LEMMA IntervalCapped ==
  ASSUME interval \in {2, 4, 8, 16, 32, 60}
  PROVE  (IF 2 * interval >= MaxInterval THEN MaxInterval ELSE 2 * interval)
           \in {2, 4, 8, 16, 32, 60}
BY DEF MaxInterval

\* Every step of run(), of the socket and of stop() keeps it.
LEMMA ClientStep == ClientInv /\ [Next]_vars => ClientInv'
<1> SUFFICES ASSUME ClientInv, [Next]_vars PROVE ClientInv'
  OBVIOUS
<1> USE SidFacts DEF ClientInv, manager, told
<1>1. CASE Start
  BY <1>1 DEF Start, TypeOK, Traces, InSession, Newest, Phases
<1>2. CASE ConnectFails
  BY <1>2 DEF ConnectFails, TypeOK, Traces, InSession, Newest, Phases
<1>3. CASE OpenSession
  <2>1. next_sid' - 1 = next_sid /\ next_sid' \in 1 .. MaxSession + 1 /\ next_sid \in Sids
    BY <1>3 DEF OpenSession, TypeOK, Sids
  <2>2. TypeOK'
    BY <1>3, <2>1 DEF OpenSession, TypeOK, Phases
  <2>3. Traces'
    BY <1>3, <2>1 DEF OpenSession, Traces, InSession, Newest
  <2> QED
    BY <2>2, <2>3
<1>4. CASE OpenStopped
  BY <1>4 DEF OpenStopped, TypeOK, Traces, InSession, Newest, Phases
<1>5. CASE BeginReturns \/ BeginFails
  BY <1>5 DEF BeginReturns, BeginFails, TypeOK, Traces, InSession, Newest, Phases
<1>6. CASE SocketCloses
  BY <1>6 DEF SocketCloses, TypeOK, Traces, InSession, Newest, Phases
<1>7. CASE CloseUnheard
  BY <1>7 DEF CloseUnheard, TypeOK, Traces, InSession, Newest, Phases
<1>8. CASE SessionReturns
  BY <1>8 DEF SessionReturns, TypeOK, Traces, InSession, Newest, Phases
<1>9. CASE RunOnceReturns
  BY <1>9 DEF RunOnceReturns, TypeOK, Traces, InSession, Newest, Phases
<1>10. CASE Reconnect
  <2>1. interval' \in {2, 4, 8, 16, 32, 60}
    BY <1>10, IntervalCapped DEF Reconnect, TypeOK
  <2> QED
    BY <1>10, <2>1 DEF Reconnect, TypeOK, Traces, InSession, Newest, Phases
<1>11. CASE Stop
  <2>1. CASE StopIdle
    BY <1>11, <2>1 DEF StopIdle, TypeOK, Traces, InSession, Newest, None
  <2>2. CASE StopClosing
    BY <1>11, <2>2 DEF StopClosing, TypeOK, Traces, InSession, Newest, None
  <2>3. CASE StopThrows
    BY <1>11, <2>3 DEF StopThrows, TypeOK, Traces, InSession, Newest, None
  <2> QED
    BY <1>11, <2>1, <2>2, <2>3 DEF Stop
<1>12. CASE UNCHANGED vars
  BY <1>12 DEF vars, TypeOK, Traces, InSession, Newest
<1> QED
  BY <1>1, <1>2, <1>3, <1>4, <1>5, <1>6, <1>7, <1>8, <1>9, <1>10, <1>11, <1>12
     DEF Next, Open, Loop

\* What the phase of run() says of the session manager, the requestor and the
\* handler always holds.
THEOREM ClientInvAlways == Spec => []ClientInv
BY ClientInit, ClientStep, PTL DEF Spec

\* The retry interval stays within its cap and every variable in its type.
THEOREM ClientTypeCorrect == Spec => []TypeOK
<1>1. ClientInv => TypeOK
  BY DEF ClientInv
<1> QED
  BY <1>1, ClientInvAlways, PTL

\* The assertion of onopen holds: no session is left when a socket opens, and
\* the session manager lists one at most.
THEOREM OneSessionAlways == Spec => []OneSession
<1>1. ClientInv => OneSession
  <2> SUFFICES ASSUME ClientInv PROVE OneSession
    OBVIOUS
  <2>1. list = {} \/ list = {Newest}
    BY DEF ClientInv, Traces
  <2>2. Cardinality(list) = 0 \/ Cardinality(list) = 1
    BY <2>1, FS_EmptySet, FS_Singleton
  <2> QED
    BY <2>2 DEF ClientInv, Traces, OneSession, InSession
<1> QED
  BY <1>1, ClientInvAlways, PTL

\* A session that select_session offers is bound to its socket, but between
\* its close event and its removal.
THEOREM OfferedIsBoundAlways == Spec => []OfferedIsBound
<1>1. ClientInv => OfferedIsBound
  BY DEF ClientInv, Traces, OfferedIsBound
<1> QED
  BY <1>1, ClientInvAlways, PTL

-----------------------------------------------------------------------------
\* Before start() the handler was told of no session.
LEMMA InitHandler == Init => Handler!Init
BY DEF Init, Handler!Init, None

\* Every step of the client begins or ends a session, stops, or is nothing to
\* the handler.
LEMMA StepHandler ==
  ClientInv /\ [Next]_vars => [Handler!Begin \/ Handler!End \/ Handler!Stop]_(Handler!vars)
<1> SUFFICES ASSUME ClientInv, [Next]_vars
             PROVE  Handler!Begin \/ Handler!End \/ Handler!Stop \/ UNCHANGED Handler!vars
  OBVIOUS
<1> USE SidFacts DEF ClientInv, manager, told, None
<1>1. CASE OpenSession
  <2>1. begun = 0 /\ ~stopped /\ next_sid' = next_sid + 1 /\ begun' = next_sid
          /\ next_sid \in Nat /\ stopped' = stopped
    BY <1>1 DEF OpenSession, Traces, InSession, TypeOK, Sids
  <2> QED
    BY <2>1 DEF Handler!Begin
<1>2. CASE SocketCloses
  BY <1>2 DEF SocketCloses, Traces, InSession, Handler!End
<1>3. CASE Stop
  BY <1>3 DEF Stop, StopIdle, StopClosing, StopThrows, Handler!Stop
<1>4. CASE UNCHANGED <<begun, next_sid, stopped>>
  BY <1>4 DEF Handler!vars
<1> QED
  BY <1>1, <1>2, <1>3, <1>4
     DEF Next, Open, Loop, Start, ConnectFails, OpenStopped, BeginReturns, BeginFails,
         CloseUnheard, SessionReturns, RunOnceReturns, Reconnect, vars

\* The handler is told of sessions one at a time, each ended before the next
\* begins, and of none after stop().
THEOREM RefinesHandlerSessions == Spec => ImplementsHandlerSessions
<1>1. Spec => Handler!Init /\ [][Handler!Begin \/ Handler!End \/ Handler!Stop]_(Handler!vars)
  BY InitHandler, StepHandler, ClientInvAlways, PTL DEF Spec
<1> QED
  BY <1>1 DEF ImplementsHandlerSessions, Handler!Spec

-----------------------------------------------------------------------------
\* The client in these compositions is that of WsClient, so what is proved of it
\* holds there.

\* Requests and listeners do not disturb the client: it behaves, and implements
\* HandlerSessions, as it does alone.
THEOREM DispatchKeepsClient == DispatchSpec => Spec /\ ImplementsHandlerSessions
<1>1. DispatchInit => Init
  BY DEF DispatchInit
<1>2. [DispatchNext]_link => [Next]_vars
  BY DEF DispatchNext, link, ClientSteps, SocketDrops, Change, RouterSends, Receive, Finish,
         Reject, ParseThrows, Emit, EmitDefault, Returns, Throws
<1>3. DispatchSpec => Spec
  BY <1>1, <1>2, PTL DEF DispatchSpec, Spec
<1> QED
  BY <1>3, RefinesHandlerSessions

\* Neither do calls of wait_online.
THEOREM StackKeepsClient == StackSpec => Spec /\ ImplementsHandlerSessions
<1>1. StackInit => Init
  BY DEF StackInit
<1>2. [StackNext]_all => [Next]_vars
  BY DEF StackNext, all, Fetch, Online, GetDevice, WaitOver, Answered, RequestFails, GrowLate
<1>3. StackSpec => Spec
  BY <1>1, <1>2, PTL DEF StackSpec, Spec
<1> QED
  BY <1>3, RefinesHandlerSessions

-----------------------------------------------------------------------------
\* A session that is not open, or whose socket is not, will not be open again.
LEMMA NeverOpenAgain ==
  ASSUME ClientInv, Next, NEW s \in Sids, s < next_sid
  PROVE  /\ s < next_sid'
         /\ s \notin bound \/ sock # "open" => s \notin bound' \/ sock' # "open"
<1>0. s \in Nat /\ next_sid \in Nat /\ (~InSession => bound = {})
  BY SidFacts DEF ClientInv, TypeOK, Traces
<1>1. CASE OpenSession
  <2>1. bound' = {next_sid} /\ next_sid' = next_sid + 1
    BY <1>0, <1>1 DEF OpenSession, InSession
  <2> QED
    BY <1>0, <2>1
<1>2. CASE OpenStopped
  BY <1>0, <1>2 DEF OpenStopped, InSession, manager, told
<1>3. CASE SocketCloses \/ CloseUnheard
  BY <1>3 DEF SocketCloses, CloseUnheard, manager
<1>4. CASE Start \/ ConnectFails \/ Reconnect
  BY <1>4 DEF Start, ConnectFails, Reconnect, manager, told
<1>5. CASE BeginReturns \/ BeginFails \/ SessionReturns \/ RunOnceReturns
  BY <1>5 DEF BeginReturns, BeginFails, SessionReturns, RunOnceReturns, manager, told
<1>6. CASE Stop
  BY <1>6 DEF Stop, StopIdle, StopClosing, StopThrows, manager, told
<1> QED
  BY <1>1, <1>2, <1>3, <1>4, <1>5, <1>6 DEF Next, Open, Loop

\* How calls of wait_online stand: one that is online found the device, one that
\* gave up had a timeout that is over, one that asks does so over a session that
\* has begun, and one that was lost to an exception was given a session that is
\* over or closing.
WaitsStand ==
  \A c \in Callers :
    /\ at[c] = "online" => device
    /\ at[c] = "timeout" => c \in Timed /\ late[c]
    /\ at[c] \in {"asked", "threw"} => over[c] \in Sids /\ over[c] < next_sid
    /\ at[c] = "threw" => GivenDeadSession(c)

StackTypes ==
  /\ at \in [Callers -> {"idle", "waiting", "asked", "sleeping", "online", "timeout", "threw"}]
  /\ over \in [Callers -> Sids \cup {None}]
  /\ late \in [Callers -> BOOLEAN]
  /\ device \in BOOLEAN

StackInv == ClientInv /\ StackTypes /\ WaitsStand

\* Posting a request, over a session that has begun, or failing to.
LEMMA AskStands ==
  ASSUME StackInv, NEW c \in Callers, NEW s \in list, Ask(c, s), UNCHANGED vars
  PROVE  StackTypes' /\ WaitsStand'
<1>0. ClientInv /\ StackTypes /\ WaitsStand /\ UNCHANGED <<next_sid, bound, sock>>
  BY DEF StackInv, vars, manager, told
<1>1. s \in Sids /\ s < next_sid
  <2>1. s = Newest /\ Newest \in Sids /\ next_sid \in Nat
    BY <1>0, SidFacts DEF ClientInv, Traces, TypeOK, InSession
  <2> QED
    BY <2>1 DEF Newest
<1>2. /\ over' = [over EXCEPT ![c] = s] /\ UNCHANGED <<late, device>>
      /\ \/ at' = [at EXCEPT ![c] = "asked"]
         \/ at' = [at EXCEPT ![c] = "threw"] /\ (s \notin bound \/ sock # "open")
  BY DEF Ask, To
<1>3. StackTypes'
  BY <1>0, <1>1, <1>2 DEF StackTypes
<1>4. ASSUME NEW d \in Callers, d # c PROVE at'[d] = at[d] /\ over'[d] = over[d]
  BY <1>0, <1>2, <1>4 DEF StackTypes
<1>5. over'[c] = s /\ (at'[c] = "asked" \/ (at'[c] = "threw" /\ (s \notin bound \/ sock # "open")))
  BY <1>0, <1>2 DEF StackTypes
<1>6. WaitsStand'
  BY <1>0, <1>1, <1>2, <1>4, <1>5 DEF WaitsStand, GivenDeadSession
<1> QED
  BY <1>3, <1>6

\* online() fails: wait_online gives up or sleeps.
LEMMA RetryStands ==
  ASSUME StackInv, NEW c \in Callers, Retry(c), UNCHANGED vars
  PROVE  StackTypes' /\ WaitsStand'
<1>0. ClientInv /\ StackTypes /\ WaitsStand /\ UNCHANGED <<next_sid, bound, sock>>
  BY DEF StackInv, vars, manager, told
<1>1. CASE c \in Timed /\ late[c]
  BY <1>0, <1>1 DEF Retry, To, StackTypes, WaitsStand, GivenDeadSession
<1>2. CASE ~(c \in Timed /\ late[c])
  BY <1>0, <1>2 DEF Retry, To, StackTypes, WaitsStand, GivenDeadSession
<1> QED
  BY <1>1, <1>2

\* Every step keeps how the calls stand.
LEMMA StackStep == StackInv /\ [StackNext]_all => StackInv'
<1> SUFFICES ASSUME StackInv, [StackNext]_all PROVE ClientInv' /\ StackTypes' /\ WaitsStand'
  BY DEF StackInv
<1>0. ClientInv /\ StackTypes /\ WaitsStand
  BY DEF StackInv
<1>1. ClientInv'
  <2>1. [Next]_vars
    BY DEF StackNext, all, Fetch, Online, GetDevice, WaitOver, Answered, RequestFails, GrowLate
  <2> QED
    BY <1>0, <2>1, ClientStep
<1>2. CASE Next /\ UNCHANGED stack
  <2>1. next_sid' >= next_sid /\ next_sid \in Nat /\ next_sid' \in Nat /\ Sids \subseteq Nat
    BY <1>0, <1>1, <1>2, SidFacts
       DEF ClientInv, TypeOK, Next, Open, Loop, Stop, Start, ConnectFails, OpenSession, OpenStopped,
           BeginReturns, BeginFails, SocketCloses, CloseUnheard, SessionReturns, RunOnceReturns,
           Reconnect, StopIdle, StopClosing, StopThrows, manager
  <2>2. at' = at /\ over' = over /\ late' = late /\ device' = device
    BY <1>2 DEF stack
  <2>3. StackTypes'
    BY <1>0, <2>2 DEF StackTypes
  <2>4. ASSUME NEW c \in Callers, at[c] \in {"asked", "threw"}
        PROVE  /\ over[c] \in Sids /\ over[c] < next_sid'
               /\ at[c] = "threw" => over[c] \notin bound' \/ sock' # "open"
    <3>1. over[c] \in Sids /\ over[c] < next_sid /\ over[c] \in Nat
      BY <1>0, <2>1, <2>4 DEF WaitsStand
    <3>2. at[c] = "threw" => over[c] \notin bound \/ sock # "open"
      BY <1>0, <2>4 DEF WaitsStand, GivenDeadSession
    <3>3. /\ over[c] < next_sid'
          /\ over[c] \notin bound \/ sock # "open" => over[c] \notin bound' \/ sock' # "open"
      BY <1>0, <1>2, <3>1, NeverOpenAgain
    <3> QED
      BY <3>1, <3>2, <3>3
  <2>5. WaitsStand'
    BY <1>0, <2>2, <2>4 DEF WaitsStand, GivenDeadSession
  <2> QED
    BY <1>1, <2>3, <2>5
<1>3. CASE UNCHANGED all
  <2>1. UNCHANGED <<at, over, late, device, next_sid, bound, sock>>
    BY <1>3 DEF all, stack, vars, manager, told
  <2>2. StackTypes' /\ WaitsStand'
    BY <1>0, <2>1 DEF StackTypes, WaitsStand, GivenDeadSession
  <2> QED
    BY <1>1, <2>2
<1>4. ASSUME NEW c \in Callers, Online(c) PROVE StackTypes' /\ WaitsStand'
  <2>1. UNCHANGED vars
    BY <1>4 DEF Online, GetDevice
  <2>2. CASE \E s \in list : Ask(c, s)
    BY <2>1, <2>2, AskStands
  <2>3. CASE \/ device /\ To(c, "online") /\ UNCHANGED <<over, late, device>>
             \/ To(c, "waiting") /\ UNCHANGED <<over, late, device>>
    BY <1>0, <2>1, <2>3 DEF To, StackTypes, WaitsStand, GivenDeadSession, vars, manager, told
  <2> QED
    BY <1>4, <2>2, <2>3 DEF Online, GetDevice
<1>5. ASSUME NEW c \in Callers, WaitOver(c) PROVE StackTypes' /\ WaitsStand'
  BY <1>5, AskStands, RetryStands DEF WaitOver
<1>6. ASSUME NEW c \in Callers, Answered(c) PROVE StackTypes' /\ WaitsStand'
  BY <1>0, <1>6 DEF Answered, To, StackTypes, WaitsStand, GivenDeadSession, vars, manager, told
<1>7. ASSUME NEW c \in Callers, RequestFails(c) PROVE StackTypes' /\ WaitsStand'
  BY <1>7, RetryStands DEF RequestFails
<1>8. ASSUME NEW c \in Callers, GrowLate(c) PROVE StackTypes' /\ WaitsStand'
  BY <1>0, <1>8 DEF GrowLate, StackTypes, WaitsStand, GivenDeadSession, vars, manager, told
<1> QED
  BY <1>1, <1>2, <1>3, <1>4, <1>5, <1>6, <1>7, <1>8 DEF StackNext, Fetch

\* The safety half of OnlineWhenServed: wait_online is online only with the
\* device, gives up only after its timeout, asks only over a session that has
\* begun, and is lost to an exception only when its session was over or closing,
\* for any number of calls.
THEOREM WaitsStandAlways == StackSpec => []WaitsStand
<1>1. StackInit => StackInv
  BY ClientInit DEF StackInit, StackInv, StackTypes, WaitsStand
<1>2. StackInv => WaitsStand
  BY DEF StackInv
<1> QED
  BY <1>1, <1>2, StackStep, PTL DEF StackSpec

-----------------------------------------------------------------------------
\* A request that was sent has a session and a number, one in the inbox is
\* only sent, and one with an answer is over.
Placed ==
  /\ \A r \in Requests : phase[r] # "unsent" => on[r] \in Sids /\ seq[r] \in Seqs
  /\ \A r \in inbox : phase[r] = "sent"
  /\ \A p \in posts : phase[p.of] = "answered"

\* What is on its way came over the session that has begun and not ended, and
\* its socket has not closed.
InboxIsCurrent ==
  \A r \in inbox : on[r] = begun /\ begun # None /\ sock \in {"open", "closing"}

DispatchInv == ClientInv /\ DispatchTypeOK /\ Placed /\ InboxIsCurrent /\ AnswersBelong

\* The dispatch starts in the invariant.
LEMMA InitDispatch == DispatchInit => DispatchInv
<1> SUFFICES ASSUME DispatchInit PROVE DispatchInv
  OBVIOUS
<1>1. DispatchTypeOK
  BY DEF DispatchInit, DispatchTypeOK, RequestPhases
<1>2. Placed /\ InboxIsCurrent /\ AnswersBelong
  BY DEF DispatchInit, Placed, InboxIsCurrent, AnswersBelong
<1>3. ClientInv
  BY ClientInit DEF DispatchInit
<1> QED
  BY <1>1, <1>2, <1>3 DEF DispatchInv

\* Posting for a request that is sent or runs leaves its answer as the only
\* one, on its session and under its number.
LEMMA PostDispatch ==
  ASSUME DispatchInv, NEW r \in Requests, NEW kind \in {"result", "error"},
         phase[r] \in {"sent", "running"}, Post(r, kind),
         inbox' \subseteq inbox \ {r} \/ (inbox' = inbox /\ r \notin inbox),
         UNCHANGED <<vars, catches, table, asked>>
  PROVE  DispatchTypeOK' /\ Placed' /\ AnswersBelong'
<1> DEFINE a == [sid |-> on[r], seq |-> seq[r], of |-> r, kind |-> kind]
<1>0. DispatchTypeOK /\ Placed /\ AnswersBelong
  BY DEF DispatchInv
<1>1. /\ on[r] \in Sids /\ seq[r] \in Seqs
      /\ \A p \in posts : p.of # r
  BY <1>0 DEF Placed, DispatchTypeOK
<1>2. phase' \in [Requests -> RequestPhases] /\ phase'[r] \in {"answered", "nowhere"}
      /\ \A q \in Requests \ {r} : phase'[q] = phase[q]
  BY <1>0 DEF Post, DispatchTypeOK, RequestPhases
<1>3. \/ posts' = posts
      \/ posts' = posts \cup {a} /\ phase'[r] = "answered"
  BY <1>0 DEF Post, DispatchTypeOK
<1>4. DispatchTypeOK'
  BY <1>0, <1>1, <1>2, <1>3 DEF DispatchTypeOK, asked
<1>5. Placed'
  BY <1>0, <1>1, <1>2, <1>3 DEF Placed, DispatchTypeOK, asked
<1>6. AnswersBelong'
  BY <1>0, <1>1, <1>3 DEF AnswersBelong, asked
<1> QED
  BY <1>4, <1>5, <1>6

\* A step of the client keeps the requests that are on their way, or loses them
\* with the socket.
LEMMA ClientDispatch ==
  ASSUME DispatchInv, ClientSteps
  PROVE  DispatchTypeOK' /\ Placed' /\ InboxIsCurrent' /\ AnswersBelong'
<1>0. /\ ClientInv /\ DispatchTypeOK /\ Placed /\ InboxIsCurrent /\ AnswersBelong
      /\ UNCHANGED <<catches, table, on, seq, key, broken, posts>>
      /\ inbox' = IF sock' = "closed" THEN {} ELSE inbox
      /\ phase' = [r \in Requests |-> IF r \in inbox \ inbox' THEN "lost" ELSE phase[r]]
  BY DEF DispatchInv, ClientSteps, asked
<1>1. phase' \in [Requests -> RequestPhases]
      /\ \A r \in Requests : phase'[r] = IF r \in inbox \ inbox' THEN "lost" ELSE phase[r]
  BY <1>0 DEF DispatchTypeOK, RequestPhases
<1>2. DispatchTypeOK'
  BY <1>0, <1>1 DEF DispatchTypeOK
<1>3. Placed'
  <2>1. \A r \in inbox : phase[r] = "sent" /\ r \in Requests
    BY <1>0 DEF Placed, DispatchTypeOK
  <2>2. \A p \in posts : p.of \in Requests /\ phase[p.of] = "answered"
    BY <1>0 DEF Placed, DispatchTypeOK
  <2>3. \A p \in posts' : phase'[p.of] = "answered"
    BY <1>0, <1>1, <2>1, <2>2
  <2> QED
    BY <1>0, <1>1, <2>1, <2>3 DEF Placed
<1>4. InboxIsCurrent'
  <2>1. CASE inbox = {} \/ sock' = "closed"
    BY <1>0, <2>1 DEF InboxIsCurrent
  <2>2. CASE inbox # {} /\ sock' # "closed"
    <3>1. begun # None /\ InSession /\ sock \in {"open", "closing"} /\ inbox' = inbox
      BY <1>0, <2>2 DEF InboxIsCurrent, ClientInv, Traces
    <3>2. begun' = begun /\ sock' \in {"open", "closing"}
      BY <2>2, <3>1 DEF ClientSteps, Next, Open, Loop, Stop, Start, ConnectFails, OpenSession,
         OpenStopped, BeginReturns, BeginFails, SocketCloses, CloseUnheard, SessionReturns,
         RunOnceReturns, Reconnect, StopIdle, StopClosing, StopThrows, manager, told, InSession
    <3> QED
      BY <1>0, <3>1, <3>2 DEF InboxIsCurrent
  <2> QED
    BY <2>1, <2>2
<1>5. AnswersBelong'
  BY <1>0 DEF AnswersBelong
<1> QED
  BY <1>2, <1>3, <1>4, <1>5

\* Every step keeps the invariant.
LEMMA NextDispatch == DispatchInv /\ [DispatchNext]_link => DispatchInv'
<1> SUFFICES ASSUME DispatchInv, [DispatchNext]_link
             PROVE  ClientInv' /\ DispatchTypeOK' /\ Placed' /\ InboxIsCurrent' /\ AnswersBelong'
  BY DEF DispatchInv
<1>0. ClientInv /\ DispatchTypeOK /\ Placed /\ InboxIsCurrent /\ AnswersBelong
  BY DEF DispatchInv
<1>1. ClientInv'
  <2>1. [Next]_vars
    BY DEF DispatchNext, link, ClientSteps, SocketDrops, Change, RouterSends, Receive, Finish,
           Reject, ParseThrows, Emit, EmitDefault, Returns, Throws
  <2> QED
    BY <1>0, <2>1, ClientStep
<1>2. ASSUME inbox' \subseteq inbox, UNCHANGED <<vars, asked>> PROVE InboxIsCurrent'
  BY <1>0, <1>2 DEF InboxIsCurrent, vars, asked
<1>3. CASE ClientSteps
  BY <1>1, <1>3, ClientDispatch
<1>4. ASSUME NEW k \in Keys, Change(k)
      PROVE  DispatchTypeOK' /\ Placed' /\ InboxIsCurrent' /\ AnswersBelong'
  BY <1>0, <1>2, <1>4 DEF Change, DispatchTypeOK, Placed, AnswersBelong, asked
<1>5. ASSUME NEW r \in Requests, NEW sid \in Sids, NEW s \in Seqs, RouterSends(r, sid, s)
      PROVE  DispatchTypeOK' /\ Placed' /\ InboxIsCurrent' /\ AnswersBelong'
  <2>1. /\ on' = [on EXCEPT ![r] = sid] /\ seq' = [seq EXCEPT ![r] = s]
        /\ phase[r] = "unsent" /\ phase' = [phase EXCEPT ![r] = "sent"]
        /\ inbox' = inbox \cup {r} /\ sid \in bound /\ sock = "open"
        /\ UNCHANGED <<vars, catches, table, key, broken, posts>>
    BY <1>5 DEF RouterSends
  <2>2. DispatchTypeOK'
    BY <1>0, <2>1 DEF DispatchTypeOK, RequestPhases
  <2>3. \A p \in posts : p.of # r
    BY <1>0, <2>1 DEF Placed
  <2>4. Placed'
    BY <1>0, <2>1, <2>3 DEF DispatchTypeOK, Placed
  <2>5. AnswersBelong'
    BY <1>0, <2>1, <2>3 DEF DispatchTypeOK, AnswersBelong
  <2>6. InboxIsCurrent'
    <3>1. r \notin inbox
      BY <1>0, <2>1 DEF Placed
    <3>2. sid = begun /\ begun # None
      BY <1>0, <2>1, SidFacts DEF ClientInv, Traces
    <3>3. on'[r] = sid /\ \A q \in inbox : on'[q] = on[q]
      BY <1>0, <2>1, <3>1 DEF DispatchTypeOK
    <3> QED
      BY <1>0, <2>1, <3>2, <3>3 DEF InboxIsCurrent, vars
  <2> QED
    BY <2>2, <2>4, <2>5, <2>6
<1>6. ASSUME NEW r \in Requests, SocketDrops(r)
      PROVE  DispatchTypeOK' /\ Placed' /\ InboxIsCurrent' /\ AnswersBelong'
  <2>1. phase[r] = "sent" /\ phase' = [phase EXCEPT ![r] = "lost"] /\ inbox' = inbox \ {r}
        /\ UNCHANGED <<vars, catches, table, asked, posts>>
    BY <1>0, <1>6 DEF SocketDrops, Placed
  <2>2. DispatchTypeOK'
    BY <1>0, <2>1 DEF DispatchTypeOK, RequestPhases, asked
  <2>3. Placed'
    BY <1>0, <2>1 DEF DispatchTypeOK, Placed, asked
  <2> QED
    BY <1>0, <1>2, <2>1, <2>2, <2>3 DEF AnswersBelong, asked
<1>7. ASSUME NEW r \in Requests, Reject(r) \/ EmitDefault(r)
      PROVE  DispatchTypeOK' /\ Placed' /\ InboxIsCurrent' /\ AnswersBelong'
  <2>1. phase[r] = "sent" /\ inbox' = inbox \ {r} /\ UNCHANGED <<vars, catches, table, asked>>
        /\ \E kind \in {"result", "error"} : Post(r, kind)
    BY <1>0, <1>7 DEF Reject, EmitDefault, Placed
  <2> QED
    BY <1>2, <2>1, PostDispatch
<1>8. ASSUME NEW r \in Requests, Emit(r)
      PROVE  DispatchTypeOK' /\ Placed' /\ InboxIsCurrent' /\ AnswersBelong'
  <2>1. phase[r] = "sent" /\ phase' = [phase EXCEPT ![r] = "running"] /\ inbox' = inbox \ {r}
        /\ UNCHANGED <<vars, catches, table, asked, posts>>
    BY <1>0, <1>8 DEF Emit, Placed
  <2>2. DispatchTypeOK'
    BY <1>0, <2>1 DEF DispatchTypeOK, RequestPhases, asked
  <2>3. Placed'
    BY <1>0, <2>1 DEF DispatchTypeOK, Placed, asked
  <2> QED
    BY <1>0, <1>2, <2>1, <2>2, <2>3 DEF AnswersBelong, asked
<1>11. ASSUME NEW r \in Requests, ParseThrows(r)
      PROVE  DispatchTypeOK' /\ Placed' /\ InboxIsCurrent' /\ AnswersBelong'
  <2>1. phase[r] = "sent" /\ phase' = [phase EXCEPT ![r] = "threw"] /\ inbox' = inbox \ {r}
        /\ UNCHANGED <<vars, catches, table, asked, posts>>
    BY <1>0, <1>11 DEF ParseThrows, Placed
  <2>2. DispatchTypeOK'
    BY <1>0, <2>1 DEF DispatchTypeOK, RequestPhases, asked
  <2>3. Placed'
    BY <1>0, <2>1 DEF DispatchTypeOK, Placed, asked
  <2> QED
    BY <1>0, <1>2, <2>1, <2>2, <2>3 DEF AnswersBelong, asked
<1>9. ASSUME NEW r \in Requests, Finish(r)
      PROVE  DispatchTypeOK' /\ Placed' /\ InboxIsCurrent' /\ AnswersBelong'
  <2>1. phase[r] = "running" /\ r \notin inbox /\ UNCHANGED <<vars, catches, table, inbox, asked>>
    BY <1>0, <1>9 DEF Finish, Returns, Throws, Placed
  <2>2. CASE \E kind \in {"result", "error"} : Post(r, kind)
    BY <1>2, <2>1, <2>2, PostDispatch
  <2>3. CASE phase' = [phase EXCEPT ![r] = "threw"] /\ UNCHANGED posts
    <3>1. DispatchTypeOK'
      BY <1>0, <2>1, <2>3 DEF DispatchTypeOK, RequestPhases, asked
    <3>2. Placed'
      BY <1>0, <2>1, <2>3 DEF DispatchTypeOK, Placed, asked
    <3> QED
      BY <1>0, <1>2, <2>1, <2>3, <3>1, <3>2 DEF AnswersBelong, asked
  <2> QED
    BY <1>9, <2>2, <2>3 DEF Finish, Returns, Throws
<1>10. CASE UNCHANGED link
  <2>1. UNCHANGED <<vars, asked, catches, table, inbox, phase, posts>>
    BY <1>10 DEF link, dispatch
  <2>2. DispatchTypeOK' /\ Placed' /\ AnswersBelong'
    BY <1>0, <2>1 DEF asked, DispatchTypeOK, Placed, AnswersBelong
  <2>3. InboxIsCurrent'
    BY <1>0, <2>1 DEF InboxIsCurrent, vars, asked
  <2> QED
    BY <1>1, <2>2, <2>3
<1> QED
  BY <1>1, <1>3, <1>4, <1>5, <1>6, <1>7, <1>8, <1>9, <1>10, <1>11 DEF DispatchNext, Receive

\* The variables keep their types: an answer, for one, is of a session and a
\* number that exist.
THEOREM DispatchTypeCorrect == DispatchSpec => []DispatchTypeOK
<1>1. DispatchInv => DispatchTypeOK
  BY DEF DispatchInv
<1> QED
  BY <1>1, InitDispatch, NextDispatch, PTL DEF DispatchSpec

\* on_msg answers a request once at most, on the session and under the number
\* it came with, whatever listeners, sessions and numbers do meanwhile.
THEOREM AnswersBelongAlways == DispatchSpec => []AnswersBelong
<1>1. DispatchInv => AnswersBelong
  BY DEF DispatchInv
<1> QED
  BY <1>1, InitDispatch, NextDispatch, PTL DEF DispatchSpec

\* A request that is still on its way is of the session that is on: none comes
\* in after its session's end, or under the next one.
THEOREM InboxIsCurrentAlways == DispatchSpec => []InboxIsCurrent
<1>1. DispatchInv => InboxIsCurrent
  BY DEF DispatchInv
<1> QED
  BY <1>1, InitDispatch, NextDispatch, PTL DEF DispatchSpec

-----------------------------------------------------------------------------
\* What became of each request has its reason: one that was sent is on its way,
\* one that the socket dropped or whose answer went nowhere is of a session that
\* is not open, and only a content that on_event cannot take or an event's
\* listener throws out of on_msg.
Excused ==
  \A r \in Requests :
    /\ phase[r] = "sent" => r \in inbox
    /\ phase[r] \in {"lost", "nowhere"} => on[r] \notin bound \/ sock # "open"
    /\ phase[r] = "threw" => r \in broken \/ ~catches
    /\ phase[r] # "unsent" => on[r] < next_sid

\* Posting the answer to a request keeps the reasons of them all.
LEMMA PostExcused ==
  ASSUME Excused, phase \in [Requests -> RequestPhases], NEW r \in Requests,
         phase[r] # "unsent", NEW kind, Post(r, kind), inbox' = inbox \ {r},
         UNCHANGED <<vars, catches, on, broken>>
  PROVE  Excused'
<1>1. /\ phase'[r] = "answered" \/ (phase'[r] = "nowhere" /\ (on[r] \notin bound \/ sock # "open"))
      /\ \A q \in Requests \ {r} : phase'[q] = phase[q]
  BY DEF Post
<1>2. UNCHANGED <<bound, sock, next_sid>>
  BY DEF vars, manager, told
<1> QED
  BY <1>1, <1>2 DEF Excused

\* Every step keeps the reasons.
LEMMA ExcusedStep ==
  ASSUME DispatchInv, Excused, [DispatchNext]_link
  PROVE  Excused'
<1>0. /\ ClientInv /\ DispatchTypeOK /\ Placed /\ InboxIsCurrent
      /\ phase \in [Requests -> RequestPhases] /\ on \in [Requests -> Sids \cup {None}]
  BY DEF DispatchInv, DispatchTypeOK
<1>1. CASE ClientSteps
  <2>1. /\ Next /\ UNCHANGED <<catches, on, broken>>
        /\ inbox' = IF sock' = "closed" THEN {} ELSE inbox
        /\ phase' = [r \in Requests |-> IF r \in inbox \ inbox' THEN "lost" ELSE phase[r]]
    BY <1>1 DEF ClientSteps, asked
  <2> SUFFICES ASSUME NEW r \in Requests
               PROVE  /\ phase'[r] = "sent" => r \in inbox'
                      /\ phase'[r] \in {"lost", "nowhere"} => on[r] \notin bound' \/ sock' # "open"
                      /\ phase'[r] = "threw" => r \in broken \/ ~catches
                      /\ phase'[r] # "unsent" => on[r] < next_sid'
    BY <2>1 DEF Excused
  <2>2. phase'[r] = IF r \in inbox \ inbox' THEN "lost" ELSE phase[r]
    BY <2>1
  <2>3. phase[r] # "unsent" => on[r] \in Sids /\ on[r] < next_sid
    BY <1>0 DEF Placed, Excused
  <2>4. phase[r] # "unsent" =>
          /\ on[r] < next_sid'
          /\ on[r] \notin bound \/ sock # "open" => on[r] \notin bound' \/ sock' # "open"
    BY <1>0, <2>1, <2>3, NeverOpenAgain
  <2>5. CASE r \in inbox \ inbox'
    <3>1. sock' = "closed" /\ phase[r] = "sent" /\ phase'[r] = "lost"
      BY <1>0, <2>1, <2>2, <2>5 DEF Placed
    <3> QED
      BY <2>4, <3>1
  <2>6. CASE ~(r \in inbox \ inbox')
    BY <2>2, <2>4, <2>6 DEF Excused
  <2> QED
    BY <2>5, <2>6
<1>2. ASSUME NEW k \in Keys, Change(k) PROVE Excused'
  BY <1>2 DEF Change, Excused, vars, manager, told, asked
<1>3. ASSUME NEW r \in Requests, NEW sid \in Sids, NEW s \in Seqs, RouterSends(r, sid, s)
      PROVE  Excused'
  <2>1. /\ phase' = [phase EXCEPT ![r] = "sent"] /\ inbox' = inbox \cup {r}
        /\ on' = [on EXCEPT ![r] = sid] /\ sid \in bound
        /\ UNCHANGED <<bound, sock, next_sid, catches, broken>>
    BY <1>3 DEF RouterSends, vars, manager, told
  <2>2. sid < next_sid
    <3>1. sid = Newest /\ next_sid \in Nat
      BY <1>0, <2>1, SidFacts DEF ClientInv, TypeOK, Traces
    <3> QED
      BY <3>1 DEF Newest
  <2>3. /\ phase'[r] = "sent" /\ on'[r] = sid
        /\ \A q \in Requests \ {r} : phase'[q] = phase[q] /\ on'[q] = on[q]
    BY <1>0, <2>1
  <2> QED
    BY <2>1, <2>2, <2>3 DEF Excused
<1>4. ASSUME NEW r \in Requests, SocketDrops(r) PROVE Excused'
  <2>1. /\ phase' = [phase EXCEPT ![r] = "lost"] /\ inbox' = inbox \ {r} /\ phase[r] = "sent"
        /\ sock = "closing" /\ UNCHANGED <<bound, sock, next_sid, catches, on, broken>>
    BY <1>0, <1>4 DEF SocketDrops, Placed, vars, manager, told, asked
  <2>2. phase'[r] = "lost" /\ \A q \in Requests \ {r} : phase'[q] = phase[q]
    BY <1>0, <2>1
  <2> QED
    BY <2>1, <2>2 DEF Excused
<1>5. ASSUME NEW r \in Requests, Reject(r) \/ EmitDefault(r) PROVE Excused'
  <2>1. /\ phase[r] = "sent" /\ inbox' = inbox \ {r} /\ UNCHANGED <<vars, catches, on, broken>>
        /\ \E kind \in {"result", "error"} : Post(r, kind)
    BY <1>0, <1>5 DEF Reject, EmitDefault, Placed, asked
  <2> QED
    BY <1>0, <2>1, PostExcused
<1>6. ASSUME NEW r \in Requests, Emit(r) PROVE Excused'
  <2>1. /\ phase' = [phase EXCEPT ![r] = "running"] /\ inbox' = inbox \ {r} /\ phase[r] = "sent"
        /\ UNCHANGED <<bound, sock, next_sid, catches, on, broken>>
    BY <1>0, <1>6 DEF Emit, Placed, vars, manager, told, asked
  <2>2. phase'[r] = "running" /\ \A q \in Requests \ {r} : phase'[q] = phase[q]
    BY <1>0, <2>1
  <2> QED
    BY <2>1, <2>2 DEF Excused
<1>9. ASSUME NEW r \in Requests, ParseThrows(r) PROVE Excused'
  <2>1. /\ phase' = [phase EXCEPT ![r] = "threw"] /\ inbox' = inbox \ {r} /\ phase[r] = "sent"
        /\ r \in broken /\ UNCHANGED <<bound, sock, next_sid, catches, on, broken>>
    BY <1>0, <1>9 DEF ParseThrows, Placed, vars, manager, told, asked
  <2>2. phase'[r] = "threw" /\ \A q \in Requests \ {r} : phase'[q] = phase[q]
    BY <1>0, <2>1
  <2> QED
    BY <2>1, <2>2 DEF Excused
<1>7. ASSUME NEW r \in Requests, Finish(r) PROVE Excused'
  <2>1. phase[r] = "running" /\ inbox' = inbox \ {r} /\ UNCHANGED <<vars, catches, on, broken>>
    BY <1>0, <1>7 DEF Finish, Returns, Throws, Placed, asked
  <2>2. CASE \E kind \in {"result", "error"} : Post(r, kind)
    BY <1>0, <2>1, <2>2, PostExcused
  <2>3. CASE ~catches /\ phase' = [phase EXCEPT ![r] = "threw"]
    <3>1. phase'[r] = "threw" /\ \A q \in Requests \ {r} : phase'[q] = phase[q]
      BY <1>0, <2>3
    <3>2. UNCHANGED <<bound, sock, next_sid>>
      BY <2>1 DEF vars, manager, told
    <3> QED
      BY <2>1, <2>3, <3>1, <3>2 DEF Excused
  <2> QED
    BY <1>7, <2>2, <2>3 DEF Finish, Returns, Throws
<1>8. CASE UNCHANGED link
  BY <1>8 DEF link, dispatch, asked, vars, manager, told, Excused
<1> QED
  BY <1>1, <1>2, <1>3, <1>4, <1>5, <1>6, <1>7, <1>8, <1>9 DEF DispatchNext, Receive

\* The safety half of EveryRequestAnswered: a request goes unanswered only if
\* its session is not open any more, on_event could not take its content or an
\* event's listener threw, however sessions end while listeners run.
THEOREM ExcusedAlways == DispatchSpec => []Excused
<1>1. DispatchInit => Excused
  BY DEF DispatchInit, Excused
<1> QED
  BY <1>1, InitDispatch, NextDispatch, ExcusedStep, PTL DEF DispatchSpec
=============================================================================
