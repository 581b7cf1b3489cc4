------------------------- MODULE MCEventIdempotency -------------------------
(* An instance of EventIdempotency: two pods with one invocation each.     *)
EXTENDS EventIdempotency

CONSTANTS p1, p2, w1, w2

MCPodOf == [w \in Workers |-> IF w = w1 THEN p1 ELSE p2]
=============================================================================
