---------------------------- MODULE MCOrderSaga ----------------------------
(* The scenarios of the runs of OrderSaga. *)
EXTENDS OrderSaga

Of(k, h, f) == [kind |-> k, happens |-> h, faults |-> f]

\* An order for goods that is paid, and nothing else.
Paid == {Of("goods", {}, 0)}

\* The same, with the customer, the bank or the account intervening.
Interventions == {Of("goods", {h}, 0) : h \in {"cancel", "decline", "delete"}}

\* The customer cancels, or the service forgets what it handled.
Quiet == {Of("goods", {h}, 0) : h \in {"cancel", "evict"}}

\* One fault somewhere, for goods and for credits, whose account may be deleted
\* and whose events forgotten; and a declined payment of goods without one.
OneFault == {Of("goods", {}, 1), Of("goods", {"decline"}, 0),
             Of("credits", {"cancel", "decline"}, 1),
             Of("credits", {"delete", "evict"}, 1)}

=============================================================================
