-------------------------------- MODULE Rpc ---------------------------------
(***************************************************************************)
(* What WebSocketRequestManager.post_bytes_req promises its callers: each  *)
(* call is refused at once or stays open until it is completed, once, with *)
(* an answer, a timeout or an abort.  The answer is the one to that call,  *)
(* until so many calls were made that the manager may mix them up.         *)
(***************************************************************************)
CONSTANTS Callers, NoItem

VARIABLES state,   \* "idle", "refused", "open" or "done", for each call
          outcome, \* what the call was completed with
          mixed    \* answers may from now on be those of other calls

vars == <<state, outcome, mixed>>

Outcomes(c) ==
  [kind : {"ok", "err"}, of : IF mixed THEN Callers ELSE {c}]
    \cup [kind : {"timeout", "aborted"}, of : {NoItem}]

Init == /\ state = [c \in Callers |-> "idle"]
        /\ outcome = [c \in Callers |-> [kind |-> "none", of |-> NoItem]]
        /\ mixed = FALSE

Call(c) == /\ state[c] = "idle"
           /\ state' \in {[state EXCEPT ![c] = s] : s \in {"open", "refused"}}
           /\ mixed => mixed'
           /\ UNCHANGED outcome

\* Calls may be completed together: by one tick of a timer, by a close.
Complete(S) ==
  /\ \A c \in S : state[c] = "open"
  /\ state' = [c \in Callers |-> IF c \in S THEN "done" ELSE state[c]]
  /\ \A c \in Callers : IF c \in S THEN outcome'[c] \in Outcomes(c)
                                   ELSE outcome'[c] = outcome[c]
  /\ UNCHANGED mixed

Next == \/ \E c \in Callers : Call(c)
        \/ \E S \in SUBSET Callers : Complete(S)

Spec == Init /\ [][Next]_vars
=============================================================================
