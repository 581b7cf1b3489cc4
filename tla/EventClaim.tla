----------------------------- MODULE EventClaim -----------------------------
(***************************************************************************)
(* What the durable claim promises: an event has at most one holder, only  *)
(* the holder settles the row, a holder may vanish, and a completed event  *)
(* is never handed out again.  No lock, cache, clock or pod appears here.  *)
(***************************************************************************)
CONSTANTS
    Workers,
    NoOwner   \* not a member of Workers

VARIABLES
    status,   \* processing_status of the row, "absent" before it is inserted
    holder    \* who is entitled to do the work

vars == <<status, holder>>

Init == status = "absent" /\ holder = NoOwner

\* The claim is handed out; a failed or abandoned one may be handed out again.
Grant(w) == /\ holder = NoOwner
            /\ status # "completed"
            /\ status' = "processing"
            /\ holder' = w

\* The row is written but the caller never learns that it won.
GrantLost == /\ holder = NoOwner
             /\ status # "completed"
             /\ status' = "processing"
             /\ UNCHANGED holder

Complete(w) == /\ holder = w
               /\ status' = "completed"
               /\ holder' = NoOwner

Fail(w) == /\ holder = w
           /\ status' = "failed"
           /\ holder' = NoOwner

\* The holder crashes, is cancelled, or cannot reach the database.
Vanish(w) == /\ holder = w
             /\ holder' = NoOwner
             /\ UNCHANGED status

Next == \/ \E w \in Workers : Grant(w) \/ Complete(w) \/ Fail(w) \/ Vanish(w)
        \/ GrantLost

Spec == Init /\ [][Next]_vars
=============================================================================
