---------------------------- MODULE CreditEscrow ----------------------------
(***************************************************************************)
(* What the credits of a subscription promise to the services that spend   *)
(* them: a credit is free, held for one request, or gone.  A hold takes    *)
(* free credits; it is settled or given back exactly once, for what was    *)
(* really used; nothing is spent that is not there.  No statement, lock,   *)
(* retry, status column or event appears here.                             *)
(***************************************************************************)
EXTENDS Integers, Sequences

CONSTANT Credits   \* amounts that are opened, spent, held or charged

VARIABLES
    free,    \* free credits of each account, in the order they were opened
    hold     \* the holds: whose credits, how many, and what became of them

vars == <<free, hold>>

Init == free = <<>> /\ hold = <<>>

OpenAccount(n) == /\ free' = Append(free, n)
                  /\ UNCHANGED hold

Spend(i, n) == /\ n <= free[i]
               /\ free' = [free EXCEPT ![i] = @ - n]
               /\ UNCHANGED hold

Hold(i, n) == /\ n <= free[i]
              /\ free' = [free EXCEPT ![i] = @ - n]
              /\ hold' = Append(hold, [account |-> i, held |-> n,
                                       open |-> TRUE, charge |-> 0])

\* The hold is replaced by the charge; the difference goes back, or is found
\* among the free credits.  Giving everything back is a charge of nothing.
Settle(h, charge) ==
    LET i == hold[h].account IN
    /\ hold[h].open
    /\ charge <= free[i] + hold[h].held
    /\ free' = [free EXCEPT ![i] = @ + hold[h].held - charge]
    /\ hold' = [hold EXCEPT ![h] = [account |-> i, held |-> hold[h].held,
                                    open |-> FALSE, charge |-> charge]]

\* An administrator may set the free credits of an account to anything.
Adjust(i) == /\ free'[i] \in Nat
             /\ free' = [free EXCEPT ![i] = free'[i]]
             /\ UNCHANGED hold

Next == \/ \E n \in Credits : OpenAccount(n)
        \/ \E i \in DOMAIN free : Adjust(i)
        \/ \E i \in DOMAIN free, n \in Credits : Spend(i, n) \/ Hold(i, n)
        \/ \E h \in DOMAIN hold, n \in Credits : Settle(h, n)

Spec == Init /\ [][Next]_vars
=============================================================================
