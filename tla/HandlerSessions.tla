--------------------------- MODULE HandlerSessions ---------------------------
(***************************************************************************)
(* What a WebSocketRequestHandler sees of its client: on_session_begin and *)
(* on_session_end calls.  Sessions come one at a time, each with a new     *)
(* number, each is ended before the next begins, and none begins after the *)
(* client was stopped.                                                     *)
(***************************************************************************)
EXTENDS Naturals

VARIABLES current,  \* the session that has begun and not ended, 0 if none
          last,     \* number of the last session that began
          stopping  \* the client was told to stop

vars == <<current, last, stopping>>

Init == current = 0 /\ last = 0 /\ stopping = FALSE

Begin == /\ current = 0
         /\ ~stopping
         /\ last' = last + 1
         /\ current' = last'
         /\ UNCHANGED stopping

End == /\ current # 0
       /\ current' = 0
       /\ UNCHANGED <<last, stopping>>

Stop == stopping' = TRUE /\ UNCHANGED <<current, last>>

Spec == Init /\ [][Begin \/ End \/ Stop]_vars
=============================================================================
