--------------------------- MODULE MCCreditLedger ---------------------------
(***************************************************************************)
(* Two users with bonus and subscription credits, and a campaign that can  *)
(* pay for two allocations, one per user.                                  *)
(***************************************************************************)
EXTENDS CreditLedger, TLC

Priorities == [t \in Types |-> IF t = "bonus" THEN 3 ELSE 5]
Budgets == [k \in Campaigns |-> 2]
Limits == [k \in Campaigns |-> 1]
Interchangeable == Permutations(Calls) \cup Permutations(Users)
=============================================================================
