---------------------------- MODULE WalletLedger ----------------------------
(***************************************************************************)
(* The balances and the transaction history of wallet_service, as          *)
(* WalletRepository (wallet_repository.py) changes them for the HTTP       *)
(* requests and event handlers that wallet_service.py serves concurrently. *)
(*                                                                         *)
(* No operation runs in a database transaction: each is a sequence of      *)
(* single statements with an await after every one of them.  In particular *)
(* update_balance SELECTs the balance, computes the new one in Python and  *)
(* then writes it with an UPDATE that does not look at the old value, and  *)
(* the transaction row is INSERTed later still.                            *)
(*                                                                         *)
(* Abstractions: amounts are whole credits (the code converts Decimal to   *)
(* float for the database); locked_balance is 0 always (no code sets it),  *)
(* so available_balance is the balance; all wallets are FIAT wallets; the  *)
(* wallet.* events carry copies of the rows and are left out.              *)
(***************************************************************************)
EXTENDS Integers, Sequences, FiniteSets, Functions

CONSTANTS
    Calls,        \* operations in progress (one slot per request or handler)
    Users,        \* owners of wallets
    NoUser,       \* the owner of a wallet id that is not in use yet
    Wallets,      \* wallet ids
    Operations,   \* the operations that are called
    Amounts,      \* amounts of a request; the models require amount > 0
    Initial,      \* initial balances; the models require initial_balance >= 0
    MaxOps,       \* bound: operations called in a behaviour
    MaxFaults     \* bound: failing statements and lost coroutines

AllOperations == {"create", "deposit", "withdraw", "consume", "transfer", "refund"}

ASSUME LedgerAssumption ==
    /\ IsFiniteSet(Calls)
    /\ NoUser \notin Users
    /\ Wallets # {}
    /\ Operations \subseteq AllOperations
    /\ Amounts \subseteq Nat \ {0}
    /\ Initial \subseteq Nat
    /\ MaxOps \in Nat
    /\ MaxFaults \in Nat

VARIABLES
    holder,       \* user_id of each row of wallet.wallets
    balance,      \* its balance column
    ledger,       \* the rows of wallet.transactions, oldest first
    net,          \* credits put in minus credits taken out, transfers aside
    call,         \* what each operation in progress is doing
    ops,          \* operations called so far
    faults,       \* faults so far
    disturbed     \* a write raced with another operation, or a step was lost

vars == <<holder, balance, ledger, net, call, ops, faults, disturbed>>

\* "get": the first SELECT of an operation; "read" and "write": update_balance
\* on the wallet; the same with _to and _back: on the destination of a
\* transfer, and its rollback on the source; "book": _create_transaction.
ReadSteps == {"read", "read_to", "read_back"}
WriteSteps == {"write", "write_to", "write_back"}
Steps == {"idle", "check", "insert", "get", "get_to", "book", "book_to"}
             \cup ReadSteps \cup WriteSteps

RowType == [wallet : Wallets, type : AllOperations, amount : Nat,
            before : Int, after : Int, ref : Nat]
CallType == [op : AllOperations, step : Steps, user : Users \cup {NoUser},
             wallet : Wallets, to : Wallets, amount : Nat, before : Int,
             before_to : Int, new : Int, after : Int, ref : Nat]

Idle == [op |-> "create", step |-> "idle", user |-> NoUser,
         wallet |-> CHOOSE w \in Wallets : TRUE, to |-> CHOOSE w \in Wallets : TRUE,
         amount |-> 0, before |-> 0, before_to |-> 0, new |-> 0, after |-> 0, ref |-> 0]

Open == {w \in Wallets : holder[w] # NoUser}

Fault == faults < MaxFaults /\ faults' = faults + 1

-----------------------------------------------------------------------------
(* A request, or an event handler, calls an operation.                     *)

Start(c, op, request) ==
    /\ op \in Operations
    /\ call[c].step = "idle"
    /\ ops < MaxOps
    /\ ops' = ops + 1
    /\ call' = [call EXCEPT ![c] = request]
    /\ UNCHANGED <<holder, balance, ledger, net, faults, disturbed>>

StartCreate(c) ==
    \E u \in Users, a \in Initial :
        Start(c, "create", [Idle EXCEPT !.step = "check", !.user = u, !.amount = a])

StartChange(c) ==
    \E op \in {"deposit", "withdraw", "consume"}, w \in Open, a \in Amounts :
        Start(c, op, [Idle EXCEPT !.op = op, !.step = "get", !.wallet = w, !.amount = a])

\* Nothing keeps the two wallets of a transfer from being the same.
StartTransfer(c) ==
    \E v, w \in Open, a \in Amounts :
        Start(c, "transfer", [Idle EXCEPT !.op = "transfer", !.step = "get",
                                          !.wallet = v, !.to = w, !.amount = a])

\* refund: the original row is looked up; the amount may not exceed its amount.
StartRefund(c) ==
    \E i \in DOMAIN ledger, a \in Amounts :
        /\ a <= ledger[i].amount
        /\ Start(c, "refund", [Idle EXCEPT !.op = "refund", !.step = "get",
                                           !.wallet = ledger[i].wallet,
                                           !.amount = a, !.ref = i])

-----------------------------------------------------------------------------
(* create_wallet: a user has one FIAT wallet, so look before inserting.    *)

Goto(c, step) == call' = [call EXCEPT ![c].step = step]
Done(c) == call' = [call EXCEPT ![c] = Idle]

CheckExisting(c) ==
    /\ call[c].step = "check"
    /\ IF \E w \in Open : holder[w] = call[c].user THEN Done(c) ELSE Goto(c, "insert")
    /\ UNCHANGED <<holder, balance, ledger, net, ops, faults, disturbed>>

\* get_user_wallets answers [] when the query fails.
CheckFails(c) ==
    /\ call[c].step = "check"
    /\ Fault
    /\ Goto(c, "insert")
    /\ UNCHANGED <<holder, balance, ledger, net, ops, disturbed>>

InsertWallet(c) ==
    /\ call[c].step = "insert"
    /\ \E w \in Wallets \ Open :
        /\ holder' = [holder EXCEPT ![w] = call[c].user]
        /\ balance' = [balance EXCEPT ![w] = call[c].amount]
        /\ net' = net + call[c].amount
        /\ call' = [call EXCEPT ![c] =
               IF @.amount > 0
               THEN [@ EXCEPT !.step = "book", !.wallet = w, !.after = call[c].amount]
               ELSE Idle]
    /\ UNCHANGED <<ledger, ops, faults, disturbed>>

-----------------------------------------------------------------------------
(* The first SELECTs.                                                      *)

Deducts(op) == op \in {"withdraw", "consume", "transfer"}

\* get_wallet: gives balance_before; a deduction beyond it is refused.
GetWallet(c) ==
    /\ call[c].step = "get"
    /\ LET b == balance[call[c].wallet]
       IN  IF call[c].op \in {"withdraw", "consume"} /\ b < call[c].amount
           THEN Done(c)
           ELSE call' = [call EXCEPT ![c].before = b,
                             ![c].step = IF call[c].op = "transfer" THEN "get_to" ELSE "read"]
    /\ UNCHANGED <<holder, balance, ledger, net, ops, faults, disturbed>>

\* transfer reads the other wallet too and only then compares.
GetTo(c) ==
    /\ call[c].step = "get_to"
    /\ IF call[c].before < call[c].amount
       THEN Done(c)
       ELSE call' = [call EXCEPT ![c].before_to = balance[call[c].to], ![c].step = "read"]
    /\ UNCHANGED <<holder, balance, ledger, net, ops, faults, disturbed>>

-----------------------------------------------------------------------------
(* update_balance                                                          *)

\* The wallet and the direction of the update that is going on.
Target(c) == IF call[c].step \in {"read_to", "write_to"} THEN call[c].to ELSE call[c].wallet
Subtracts(c) == Deducts(call[c].op) /\ call[c].step \in {"read", "write"}

\* A plausible bug: the balance that get_wallet found is trusted.
CoveredUnchecked(c) == TRUE

\* "if wallet.balance < amount: return None", on the balance just read.
Covered(c) == Subtracts(c) => balance[Target(c)] >= call[c].amount

\* What the balance read becomes.
Changed(c, b) == IF Subtracts(c) THEN b - call[c].amount ELSE b + call[c].amount

WriteAfter(step) ==
    CASE step = "read" -> "write" [] step = "read_to" -> "write_to" [] OTHER -> "write_back"

\* A plausible bug: a transfer that fails half-way is not rolled back.
AfterFailureNoRollback(c) == Idle

\* update_balance answered None: the operation ends; a transfer that has taken
\* the money from its source puts it back first.
AfterFailure(c) ==
    IF call[c].step \in {"read_to", "write_to"}
    THEN [call[c] EXCEPT !.step = "read_back"]
    ELSE Idle

ReadBalance(c) ==
    /\ call[c].step \in ReadSteps
    /\ call' = [call EXCEPT ![c] =
           IF Covered(c)
           THEN [@ EXCEPT !.new = Changed(c, balance[Target(c)]),
                          !.step = WriteAfter(call[c].step)]
           ELSE AfterFailure(c)]
    /\ UNCHANGED <<holder, balance, ledger, net, ops, faults, disturbed>>

\* Somebody changed the balance after it was read for the update, or after it
\* was read for balance_before.
Raced(c) ==
    LET b == balance[Target(c)]
    IN  \/ call[c].new # Changed(c, b)
        \/ call[c].step = "write" /\ call[c].before # b
        \/ call[c].step = "write_to" /\ call[c].before_to # b

NetAfter(c) == IF call[c].op = "transfer" THEN net ELSE Changed(c, net)

\* What follows an update that was made.
AfterWrite(c) ==
    CASE call[c].step = "write_back" -> Idle
      [] call[c].step = "write_to" -> [call[c] EXCEPT !.step = "book"]
      [] OTHER -> [call[c] EXCEPT !.after = call[c].new,
                       !.step = IF call[c].op = "transfer" THEN "read_to" ELSE "book"]

WriteBalance(c) ==
    /\ call[c].step \in WriteSteps
    /\ balance' = [balance EXCEPT ![Target(c)] = call[c].new]
    /\ net' = NetAfter(c)
    /\ call' = [call EXCEPT ![c] = AfterWrite(c)]
    /\ disturbed' = (disturbed \/ Raced(c))
    /\ UNCHANGED <<holder, ledger, ops, faults>>

-----------------------------------------------------------------------------
(* _create_transaction                                                     *)

\* transaction_type: the initial funding of a wallet is a deposit.
TypeOf(op) == IF op = "create" THEN "deposit" ELSE op

Row(c) == [wallet |-> call[c].wallet, type |-> TypeOf(call[c].op),
           amount |-> call[c].amount, before |-> call[c].before,
           after |-> call[c].after, ref |-> call[c].ref]

\* The row of the wallet that receives a transfer.
RowTo(c) == [Row(c) EXCEPT !.wallet = call[c].to, !.before = call[c].before_to,
                           !.after = call[c].new]

AfterBook(c) == IF call[c].step = "book" /\ call[c].op = "transfer"
                THEN Goto(c, "book_to") ELSE Done(c)

Book(c) ==
    /\ call[c].step \in {"book", "book_to"}
    /\ ledger' = Append(ledger, IF call[c].step = "book" THEN Row(c) ELSE RowTo(c))
    /\ AfterBook(c)
    /\ UNCHANGED <<holder, balance, net, ops, faults, disturbed>>

-----------------------------------------------------------------------------
(* Faults                                                                  *)

\* A statement raises before it has done anything; the repository catches the
\* exception and answers None.
StatementFails(c) ==
    /\ call[c].step \in {"insert", "get", "get_to"} \cup ReadSteps \cup WriteSteps
    /\ Fault
    /\ call' = [call EXCEPT ![c] = AfterFailure(c)]
    /\ disturbed' = (disturbed \/ call[c].step \in {"read_back", "write_back"})
    /\ UNCHANGED <<holder, balance, ledger, net, ops>>

\* The UPDATE was made, but the answer is lost.
AnswerLost(c) ==
    /\ call[c].step \in WriteSteps
    /\ Fault
    /\ balance' = [balance EXCEPT ![Target(c)] = call[c].new]
    /\ net' = NetAfter(c)
    /\ call' = [call EXCEPT ![c] = AfterFailure(c)]
    /\ disturbed' = TRUE
    /\ UNCHANGED <<holder, ledger, ops>>

\* The INSERT of a transaction fails: the money has moved all the same.
BookFails(c) ==
    /\ call[c].step \in {"book", "book_to"}
    /\ Fault
    /\ AfterBook(c)
    /\ disturbed' = TRUE
    /\ UNCHANGED <<holder, balance, ledger, net, ops>>

\* The pod dies, or the coroutine is cancelled.
Vanish(c) ==
    /\ call[c].step # "idle"
    /\ Fault
    /\ Done(c)
    /\ disturbed' = (disturbed \/ call[c].step \in {"read_to", "write_to", "read_back",
                                                    "write_back", "book", "book_to"})
    /\ UNCHANGED <<holder, balance, ledger, net, ops>>

-----------------------------------------------------------------------------
Init ==
    /\ holder = [w \in Wallets |-> NoUser]
    /\ balance = [w \in Wallets |-> 0]
    /\ ledger = <<>>
    /\ net = 0
    /\ call = [c \in Calls |-> Idle]
    /\ ops = 0
    /\ faults = 0
    /\ disturbed = FALSE

Next ==
    \E c \in Calls :
        \/ StartCreate(c) \/ StartChange(c) \/ StartTransfer(c) \/ StartRefund(c)
        \/ CheckExisting(c) \/ InsertWallet(c) \/ GetWallet(c) \/ GetTo(c)
        \/ ReadBalance(c) \/ WriteBalance(c) \/ Book(c)
        \/ CheckFails(c) \/ StatementFails(c) \/ AnswerLost(c) \/ BookFails(c)
        \/ Vanish(c)

Spec == Init /\ [][Next]_vars

-----------------------------------------------------------------------------
\* Type invariant; balances are integers here, their sign is a property.
TypeOK ==
    /\ holder \in [Wallets -> Users \cup {NoUser}]
    /\ balance \in [Wallets -> Int]
    /\ ledger \in Seq(RowType)
    /\ net \in Int
    /\ call \in [Calls -> CallType]
    /\ ops \in 0 .. MaxOps
    /\ faults \in 0 .. MaxFaults
    /\ disturbed \in BOOLEAN

\* The code alone keeps balances from becoming negative, however operations
\* interleave between the check of the balance and the write: no balance is
\* negative and no UPDATE about to be sent would make it so (the CHECK
\* constraint of the table never fires).
NonNegative ==
    /\ \A w \in Wallets : balance[w] >= 0
    /\ \A c \in Calls : call[c].step \in WriteSteps => call[c].new >= 0

RowsOf(w) == {i \in DOMAIN ledger : ledger[i].wallet = w}
Booked(w) ==
    SumFunctionOnSet([i \in DOMAIN ledger |-> ledger[i].after - ledger[i].before], RowsOf(w))
Quiet == \A c \in Calls : call[c].step = "idle"

\* The transactions of a wallet account for its balance whenever nothing is in
\* progress, even after failed operations and rolled back transfers, as long
\* as no two operations overlapped on the wallet (a transfer from a wallet to
\* itself overlaps with itself) and no statement was lost after the first UPDATE
\* of its operation.
LedgerAccounts == Quiet /\ ~ disturbed => \A w \in Wallets : balance[w] = Booked(w)

\* What the domain rules say of withdrawals: "No overdraft allowed", not more
\* is spent than was paid in.  Two operations that read the same balance both
\* spend it.
NoOverdraft == net >= 0

\* What the domain rules say of transfers: "Debit and credit must both succeed.
\* Failure rolls back both.  No partial transfers": transfers neither make nor
\* destroy credits.
NoPartialTransfers == Quiet => SumFunctionOnSet(balance, Wallets) = net

\* What the domain rules say of refunds: "Multiple partial refunds until
\* total": together they do not exceed the original transaction.
RefundsWithinOriginal ==
    \A i \in DOMAIN ledger :
        SumFunctionOnSet([j \in DOMAIN ledger |-> ledger[j].amount],
                         {j \in DOMAIN ledger : ledger[j].type = "refund" /\ ledger[j].ref = i})
            <= ledger[i].amount

=============================================================================
