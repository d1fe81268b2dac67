---------------------------- MODULE ChannelPromise ----------------------------
(***************************************************************************)
(* What a Seq channel promises its users, whatever the implementation: a   *)
(* FIFO buffer whose values are each handed out once, and an end-of-stream *)
(* answer that comes only after close and after every value that was       *)
(* buffered when close took effect.  A send that races with close may      *)
(* still be accepted: the promise says nothing of when such a value is     *)
(* handed out.                                                             *)
(***************************************************************************)
EXTENDS Naturals, Sequences

CONSTANT Values

VARIABLES buffer,  \* accepted and not yet handed out
          owed,    \* how many of them end-of-stream has to wait for
          closed,
          ended    \* some receive has answered end-of-stream

promiseVars == <<buffer, owed, closed, ended>>

PromiseInit == buffer = <<>> /\ owed = 0 /\ ~closed /\ ~ended

Accept(v) ==
    /\ buffer' = Append(buffer, v)
    /\ UNCHANGED <<owed, closed, ended>>

HandOut ==
    /\ buffer # <<>>
    /\ buffer' = Tail(buffer)
    /\ owed' = IF owed > 0 THEN owed - 1 ELSE 0
    /\ UNCHANGED <<closed, ended>>

Close ==
    /\ ~closed
    /\ closed' = TRUE
    /\ owed' = Len(buffer)
    /\ UNCHANGED <<buffer, ended>>

EndOfStream ==
    /\ closed /\ owed = 0
    /\ ended' = TRUE
    /\ UNCHANGED <<buffer, owed, closed>>

PromiseNext == (\E v \in Values : Accept(v)) \/ HandOut \/ Close \/ EndOfStream

Promise == PromiseInit /\ [][PromiseNext]_promiseVars
=============================================================================
