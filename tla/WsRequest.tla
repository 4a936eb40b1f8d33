------------------------------ MODULE WsRequest ------------------------------
(***************************************************************************)
(* One WebSocketRequestManager (cyfs-lib/ws/request.ts) and the part of    *)
(* WebSocketSession.run (cyfs-lib/ws/session.ts) that binds it to a web    *)
(* socket and unbinds it.  Calls of post_bytes_req are numbered by a       *)
(* sequence number that wraps, kept in a table until an answer, a timeout  *)
(* or the end of the session completes them, and resumed through a         *)
(* promise ("waker").                                                      *)
(*                                                                         *)
(* JavaScript runs one task at a time: an action is the code between two   *)
(* awaits.  The router at the other end of the socket is external: it      *)
(* answers each request it received at most once, in any order.            *)
(***************************************************************************)
EXTENDS Naturals, FiniteSets

CONSTANTS Callers,    \* the calls of post_bytes_req made on this session
          SeqLimit,   \* next_seq wraps to 1 on reaching it (65535 in the code)
          NoItem,     \* an empty slot of the request table
          AnswerKinds \* what the router's answers may be

ASSUME SeqLimitAssumption == SeqLimit \in Nat /\ SeqLimit >= 2
ASSUME NoItemAssumption   == NoItem \notin Callers
ASSUME AnswerAssumption   == AnswerKinds \subseteq {"ok", "err", "bad"}

Seqs == 1 .. (SeqLimit - 1)

\* item.resp: not yet set, the router's answer to a call, or a local code.
Kinds == {"none", "ok", "err", "timeout", "aborted"}
Resp  == [kind : Kinds, of : Callers \cup {NoItem}]
Own(k, c) == [kind |-> k, of |-> c]
Code(k)   == [kind |-> k, of |-> NoItem]

VARIABLES
  next_seq,   \* WebSocketRequestContainer.next_seq
  list,       \* WebSocketRequestContainer.list: the call whose item holds a seq
  resp,       \* RequestItem.resp of each call
  woken,      \* calls whose waker promise has been resolved
  pc,         \* where each call is: not made, awaiting its waker, returned, threw
  aged,       \* calls whose item is older than WS_REQUEST_DEFAULT_TIMEOUT
  session,    \* the manager's session: "new", "bound", "ended"
  onclose,    \* run has set ws.onclose (after on_session_begin returned)
  ws,         \* the socket: "open", "closing", "closed"
  is_monitor, \* WebSocketRequestManager.is_monitor
  timer,      \* monitor's 15 second timer is pending
  wire,       \* requests the router has and has not answered
  replies,    \* answers of the router on their way
  issued,     \* number of sequence numbers handed out so far
  stranded    \* calls whose item was dropped without resolving its waker

vars == <<next_seq, list, resp, woken, pc, aged, session, onclose, ws,
          is_monitor, timer, wire, replies, issued, stranded>>
reqs  == <<next_seq, list, issued>>
calls == <<resp, woken, pc>>
link  == <<session, onclose, ws>>
tick  == <<is_monitor, timer>>

Message == [seq : Seqs, of : Callers]
Reply   == [seq : Seqs, of : Callers, kind : AnswerKinds]

TypeOK ==
  /\ next_seq \in Seqs
  /\ list \in [Seqs -> Callers \cup {NoItem}]
  /\ resp \in [Callers -> Resp]
  /\ woken \in SUBSET Callers
  /\ pc \in [Callers -> {"idle", "waiting", "done", "threw"}]
  /\ aged \in SUBSET Callers
  /\ session \in {"new", "bound", "ended"}
  /\ onclose \in BOOLEAN
  /\ ws \in {"open", "closing", "closed"}
  /\ is_monitor \in BOOLEAN
  /\ timer \in BOOLEAN
  /\ wire \in SUBSET Message
  /\ replies \in SUBSET Reply
  /\ issued \in Nat
  /\ stranded \in SUBSET Callers

Init ==
  /\ next_seq = 1
  /\ list = [s \in Seqs |-> NoItem]
  /\ resp = [c \in Callers |-> Code("none")]
  /\ woken = {}
  /\ pc = [c \in Callers |-> "idle"]
  /\ aged = {}
  /\ session = "new"
  /\ onclose = FALSE
  /\ ws = "open"
  /\ is_monitor = TRUE
  /\ timer = FALSE
  /\ wire = {}
  /\ replies = {}
  /\ issued = 0
  /\ stranded = {}

Listed == {list[s] : s \in Seqs} \ {NoItem}

-----------------------------------------------------------------------------
\* The session begins: bind_session starts the monitor, which arms its timer.
BindSession ==
  /\ session = "new"
  /\ session' = "bound"
  /\ timer' = TRUE
  /\ UNCHANGED <<reqs, calls, aged, onclose, ws, is_monitor, wire, replies, stranded>>

\* on_session_begin has returned: only now is the close handler installed.
\* A close that came earlier is never handled.
SetOnClose ==
  /\ session = "bound"
  /\ ~onclose
  /\ onclose' = TRUE
  /\ UNCHANGED <<reqs, calls, aged, session, ws, tick, wire, replies, stranded>>

\* Either side starts closing; WebSocketSession.stop is one way to get here.
StartClose ==
  /\ session = "bound"
  /\ ws = "open"
  /\ ws' = "closing"
  /\ UNCHANGED <<reqs, calls, aged, session, onclose, tick, wire, replies, stranded>>

\* MUTANT: clear that forgets to complete the items it drops.
ClearWithoutAbort ==
  /\ UNCHANGED <<resp, woken>>
  /\ list' = [s \in Seqs |-> NoItem]

\* clear: every listed call is completed with Aborted.
AbortListed ==
  /\ resp' = [c \in Callers |-> IF c \in Listed THEN Code("aborted") ELSE resp[c]]
  /\ woken' = woken \cup Listed
  /\ list' = [s \in Seqs |-> NoItem]

\* The close event with its handler installed: unbind_session.
OnClose ==
  /\ session = "bound"
  /\ ws # "closed"
  /\ onclose
  /\ ws' = "closed"
  /\ session' = "ended"
  /\ is_monitor' = FALSE
  /\ AbortListed
  /\ wire' = {}
  /\ replies' = {}
  /\ UNCHANGED <<next_seq, issued, pc, aged, onclose, timer, stranded>>

\* The close event before run has set ws.onclose: nobody hears of it.
MissedClose ==
  /\ session = "bound"
  /\ ws # "closed"
  /\ ~onclose
  /\ ws' = "closed"
  /\ wire' = {}
  /\ replies' = {}
  /\ UNCHANGED <<reqs, calls, aged, session, onclose, tick, stranded>>

-----------------------------------------------------------------------------
\* MUTANT: new_request that wraps one number too late.
WrapLate(c) ==
  /\ next_seq' = IF next_seq = SeqLimit THEN 1 ELSE next_seq + 1
  /\ list' = [list EXCEPT ![next_seq] = c]
  /\ issued' = issued + 1
  /\ stranded' = stranded \cup ({list[next_seq]} \ {NoItem})

\* MUTANT: new_request that forgets to advance next_seq.
ReuseSeq(c) ==
  /\ next_seq' = next_seq
  /\ list' = [list EXCEPT ![next_seq] = c]
  /\ issued' = issued + 1
  /\ stranded' = stranded \cup ({list[next_seq]} \ {NoItem})

\* new_request: take a number, wrap, overwrite whatever item held it: that
\* item's waker is never resolved.
NewRequest(c) ==
  /\ next_seq' = IF next_seq + 1 = SeqLimit THEN 1 ELSE next_seq + 1
  /\ list' = [list EXCEPT ![next_seq] = c]
  /\ issued' = issued + 1
  /\ stranded' = stranded \cup ({list[next_seq]} \ {NoItem})

\* post_bytes_req up to `await item.waker`, on an open socket.
PostReq(c) ==
  /\ pc[c] = "idle"
  /\ session = "bound"
  /\ ws = "open"
  /\ NewRequest(c)
  /\ pc' = [pc EXCEPT ![c] = "waiting"]
  /\ wire' = wire \cup {[seq |-> next_seq, of |-> c]}
  /\ UNCHANGED <<resp, woken, aged, link, tick, replies>>

\* ... on a socket that silently discards the packet (browsers, once closing).
PostDiscarded(c) ==
  /\ pc[c] = "idle"
  /\ session = "bound"
  /\ ws # "open"
  /\ NewRequest(c)
  /\ pc' = [pc EXCEPT ![c] = "waiting"]
  /\ UNCHANGED <<resp, woken, aged, link, tick, wire, replies>>

\* ... when the send throws: `this.session!` is undefined, or the socket
\* library refuses to send.  The item stays in the table.
PostThrows(c) ==
  /\ pc[c] = "idle"
  /\ session # "bound" \/ ws # "open"
  /\ NewRequest(c)
  /\ pc' = [pc EXCEPT ![c] = "threw"]
  /\ UNCHANGED <<resp, woken, aged, link, tick, wire, replies>>

\* The waker resolved: post_bytes_req returns item.resp.
Return(c) ==
  /\ pc[c] = "waiting"
  /\ c \in woken
  /\ pc' = [pc EXCEPT ![c] = "done"]
  /\ UNCHANGED <<reqs, resp, woken, aged, link, tick, wire, replies, stranded>>

-----------------------------------------------------------------------------
\* External: the router answers a request it holds.
RouterAnswer(m, k) ==
  /\ m \in wire
  /\ wire' = wire \ {m}
  /\ replies' = replies \cup {[seq |-> m.seq, of |-> m.of, kind |-> k]}
  /\ UNCHANGED <<reqs, calls, aged, link, tick, stranded>>

\* MUTANT: on_resp that reads the item without removing it.
RespWithoutRemove(r) ==
  /\ r \in replies
  /\ r.kind # "bad"
  /\ replies' = replies \ {r}
  /\ list[r.seq] # NoItem
  /\ resp' = [resp EXCEPT ![list[r.seq]] = Own(r.kind, r.of)]
  /\ woken' = woken \cup {list[r.seq]}
  /\ UNCHANGED <<reqs, pc, aged, link, tick, wire, stranded>>

\* on_resp: an answer whose number is listed completes the item that holds it.
OnResp(r) ==
  /\ r \in replies
  /\ r.kind # "bad"
  /\ replies' = replies \ {r}
  /\ list[r.seq] # NoItem
  /\ list' = [list EXCEPT ![r.seq] = NoItem]
  /\ resp' = [resp EXCEPT ![list[r.seq]] = Own(r.kind, r.of)]
  /\ woken' = woken \cup {list[r.seq]}
  /\ UNCHANGED <<next_seq, issued, pc, aged, link, tick, wire, stranded>>

\* on_resp on an error packet it cannot decode: the item is removed and
\* the function returns before the waker is resolved.
OnGarbledResp(r) ==
  /\ r \in replies
  /\ r.kind = "bad"
  /\ replies' = replies \ {r}
  /\ list[r.seq] # NoItem
  /\ list' = [list EXCEPT ![r.seq] = NoItem]
  /\ stranded' = stranded \cup {list[r.seq]}
  /\ UNCHANGED <<next_seq, issued, calls, aged, link, tick, wire>>

\* on_resp on a number that is no longer listed (timed out): NotFound.
OnLateResp(r) ==
  /\ r \in replies
  /\ list[r.seq] = NoItem
  /\ replies' = replies \ {r}
  /\ UNCHANGED <<reqs, calls, aged, link, tick, wire, stranded>>

-----------------------------------------------------------------------------
\* Time passes: a listed item becomes older than WS_REQUEST_DEFAULT_TIMEOUT.
GrowOld(c) ==
  /\ c \in Listed
  /\ c \notin aged
  /\ aged' = aged \cup {c}
  /\ UNCHANGED <<reqs, calls, link, tick, wire, replies, stranded>>

\* MUTANT: check_timeout that completes the expired items and leaves them listed.
TickWithoutDelete ==
  LET expired == Listed \cap aged IN
  /\ timer
  /\ resp' = [c \in Callers |-> IF c \in expired THEN Code("timeout") ELSE resp[c]]
  /\ woken' = woken \cup expired
  /\ timer' = is_monitor
  /\ UNCHANGED <<reqs, pc, aged, link, is_monitor, wire, replies, stranded>>

\* MUTANT: monitor that stops after its first round.
TickOnce ==
  LET expired == Listed \cap aged IN
  /\ timer
  /\ list' = [s \in Seqs |-> IF list[s] \in expired THEN NoItem ELSE list[s]]
  /\ resp' = [c \in Callers |-> IF c \in expired THEN Code("timeout") ELSE resp[c]]
  /\ woken' = woken \cup expired
  /\ timer' = FALSE
  /\ UNCHANGED <<next_seq, issued, pc, aged, link, is_monitor, wire, replies, stranded>>

\* One round of monitor: check_timeout, then on_timeout on what it removed;
\* the loop goes on while is_monitor holds.
MonitorTick ==
  LET expired == Listed \cap aged IN
  /\ timer
  /\ list' = [s \in Seqs |-> IF list[s] \in expired THEN NoItem ELSE list[s]]
  /\ resp' = [c \in Callers |-> IF c \in expired THEN Code("timeout") ELSE resp[c]]
  /\ woken' = woken \cup expired
  /\ timer' = is_monitor
  /\ UNCHANGED <<next_seq, issued, pc, aged, link, is_monitor, wire, replies, stranded>>

Post(c) == PostReq(c) \/ PostDiscarded(c) \/ PostThrows(c)

Receive(r) == OnResp(r) \/ OnGarbledResp(r) \/ OnLateResp(r)

Next ==
  \/ BindSession \/ SetOnClose \/ StartClose \/ OnClose \/ MissedClose
  \/ \E c \in Callers : Post(c) \/ Return(c) \/ GrowOld(c)
  \/ \E m \in wire, k \in AnswerKinds : RouterAnswer(m, k)
  \/ \E r \in replies : Receive(r)
  \/ MonitorTick

\* Timers fire, clocks advance and resolved promises resume; that the router
\* answers or that the socket closes is never assumed.
Fairness ==
  /\ WF_vars(MonitorTick)
  /\ \A c \in Callers : WF_vars(Return(c)) /\ WF_vars(GrowOld(c))

Spec == Init /\ [][Next]_vars
LiveSpec == Spec /\ Fairness

-----------------------------------------------------------------------------
\* The first SeqLimit - 1 requests use each number once: no roll back bites.
NoReuse == issued < SeqLimit

\* An answer delivered to a call is the router's answer to that very call,
\* as long as no number was used twice (new_request, on_resp).
OwnAnswer ==
  NoReuse => \A c \in Callers : resp[c].kind \in {"ok", "err"} => resp[c].of = c

\* A listed item has no result yet, whatever numbers were reused: `resolve!`
\* in on_resp is never undefined and complete_resp's warning "already has
\* resp" is never reached; a late answer or timeout finds nothing to touch.
ListedUnanswered ==
  \A s \in Seqs : list[s] # NoItem =>
    /\ list[s] \notin woken
    /\ resp[list[s]].kind = "none"
    /\ pc[list[s]] \in {"waiting", "threw"}

\* A call that still waits can still be completed: it is in the table, where
\* an answer, the monitor or the end of the session finds it.  The exceptions
\* are an overwritten number and the undecodable answer of on_resp.
WaiterListed ==
  \A c \in Callers :
    pc[c] = "waiting" /\ c \notin woken => c \in Listed \/ c \in stranded

\* new_request strands a call only by handing out a number for the second
\* time; up to then just an undecodable answer does.
OnlyReuseStrands ==
  [][stranded' # stranded => ~NoReuse' \/ \E r \in replies : OnGarbledResp(r)]_vars

\* After unbind_session no call is left waiting on the dead session, and
\* one made later is refused (it throws) instead of waiting.
EndedReleasesCallers ==
  session = "ended" =>
    \A c \in Callers : pc[c] = "waiting" => c \in woken \/ c \in stranded

\* The result a call was woken with is the one it returns: no second answer,
\* timeout or abort replaces it before the promise resumes, or after.
FirstResultStands ==
  [][\A c \in Callers : c \in woken => resp'[c] = resp[c] /\ c \in woken']_vars

\* Every call returns: by its answer, the timeout of monitor or the end of
\* the session, also when the close of the socket was missed.  Only a call
\* that new_request or on_resp stranded waits for ever.
EveryCallReturns ==
  \A c \in Callers : pc[c] = "waiting" ~> pc[c] = "done" \/ c \in stranded

\* request.ts:275 says of the rest of on_resp that it saves the answer and
\* wakes the caller: a call taken out of the table returns.
RemovedCallReturns ==
  \A c \in Callers : pc[c] = "waiting" /\ c \notin Listed ~> pc[c] = "done"

\* What the callers are promised: see Rpc.
rpc_state == [c \in Callers |->
  IF pc[c] = "threw" THEN "refused"
  ELSE IF c \in woken THEN "done" ELSE IF pc[c] = "idle" THEN "idle" ELSE "open"]

rpc_outcome == [c \in Callers |-> IF pc[c] = "threw" THEN Code("none") ELSE resp[c]]

Remote == INSTANCE Rpc WITH
  state <- rpc_state, outcome <- rpc_outcome, mixed <- ~NoReuse

\* The manager implements one remote call per caller, completed once, with the
\* answer to that call while no number was handed out twice.
ImplementsRpc == Remote!Spec

-----------------------------------------------------------------------------
\* What makes the properties above inductive: see WsRequestProofs.

\* No call is listed under two numbers.
OneSlot ==
  \A s, t \in Seqs : list[s] # NoItem /\ list[s] = list[t] => s = t

\* A call that has not been made has left no trace.
IdleUntouched ==
  \A c \in Callers : pc[c] = "idle" =>
    resp[c] = Code("none") /\ c \notin woken /\ c \notin Listed

\* A call that was woken has something to return.
WokenAnswered == \A c \in woken : resp[c].kind # "none"

\* Without reuse, the numbers on the wire and in the table are old ones, and
\* a number names the same call in both.
Correlated ==
  NoReuse =>
    /\ next_seq = IF issued + 1 = SeqLimit THEN 1 ELSE issued + 1
    /\ \A s \in Seqs : list[s] # NoItem => s <= issued
    /\ \A m \in wire : m.seq <= issued /\ list[m.seq] \in {NoItem, m.of}
    /\ \A r \in replies : r.seq <= issued /\ list[r.seq] \in {NoItem, r.of}
=============================================================================
