--------------------------- MODULE MCUsageBilling ---------------------------
(***************************************************************************)
(* One usage event that its producer published twice, with the same        *)
(* idempotency key, a usage that was charged upstream, and an older event  *)
(* without a claim that costs half a credit and competes for the credits.  *)
(***************************************************************************)
EXTENDS UsageBilling, TLC

CONSTANTS u1, u2, u3, s1, k1

Keyed == [e \in Usage \cup Legacy |-> IF e \in {u1, u2} THEN k1 ELSE e]
Prices == [e \in Usage \cup Legacy |-> IF e = s1 THEN 1 ELSE 2]
Purses == [s \in Sources |-> 2]
Interchangeable == Permutations(Replicas) \cup Permutations({u1, u2})
=============================================================================
