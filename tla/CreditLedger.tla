---------------------------- MODULE CreditLedger ----------------------------
(***************************************************************************)
(* The accounts, allocations and campaigns of credit_service: how          *)
(* CreditService allocates, consumes, expires and transfers credits, and   *)
(* how a deleted user's rows go.                                           *)
(*                                                                         *)
(* An operation reads what it needs and then runs single statements of     *)
(* CreditRepository one after the other, with an await between them and no *)
(* transaction around them.  The balance of an account and what is left of *)
(* its allocations are two records of the same credits: consume checks the *)
(* first and spends the second.                                            *)
(*                                                                         *)
(* Abstractions: rows are identified by their position, which is the order *)
(* of created_at; the credit_transactions are kept as their sum per        *)
(* account (balance_before and balance_after are copies of what was read); *)
(* the allocations of all accounts of a user are read in one step; an      *)
(* allocation that never expires expires after the last moment of the      *)
(* model; is_active is left out, as deactivate_account changes nothing;    *)
(* a campaign may refuse a user, or be over, at any time.  Left out: the   *)
(* administrator's PUT on a campaign, which can lower its total_budget;    *)
(* the count of a user's allocations that fails and reads as 0.            *)
(***************************************************************************)
EXTENDS Sequences, FiniteSetsExt

CONSTANTS
    Calls,         \* operations in progress: requests, handlers, daily jobs
    Users,
    NoUser,        \* the user field of an idle slot
    Types,         \* credit types
    Priority,      \* CREDIT_TYPE_PRIORITY
    Fixed,         \* NON_TRANSFERABLE_TYPES
    Amounts,       \* credits consumed or transferred at a time, positive
    Grants,        \* credits allocated at a time, positive
    Expiries,      \* expires_at of new allocations
    Campaigns,     \* credit campaigns
    NoCampaign,    \* a manual allocation
    Budget,        \* total_budget of a campaign
    Limit,         \* max_allocations_per_user of a campaign
    Never,         \* the moment after the last: expires_at IS NULL
    MaxAccounts,   \* bound: rows of credit.credit_accounts
    MaxAllocs,     \* bound: rows of credit.credit_allocations
    MaxOps,        \* bound: operations called in a behaviour
    MaxFaults      \* bound: raising statements and lost coroutines

ASSUME LedgerAssumption ==
    /\ IsFiniteSet(Calls) /\ Types # {}
    /\ NoUser \notin Users /\ NoCampaign \notin Campaigns
    /\ Priority \in [Types -> Nat] /\ Fixed \subseteq Types
    /\ Amounts \subseteq Nat \ {0} /\ Grants \subseteq Nat \ {0}
    /\ Never \in Nat /\ Expiries \subseteq 0..Never
    /\ Budget \in [Campaigns -> Nat] /\ Limit \in [Campaigns -> Nat]
    /\ {MaxAccounts, MaxAllocs, MaxOps, MaxFaults} \subseteq Nat

VARIABLES
    now,          \* the time
    accounts,     \* the credit accounts, oldest first
    ledger,       \* the sum of the transactions of each account
    allocs,       \* the credit allocations, oldest first
    allocated,    \* allocated_amount of each campaign
    call,         \* what each operation in progress is doing
    shared,       \* allocations two operations had planned to use at a time
    excuse,       \* why the records of an account may disagree
    ops,          \* operations called so far
    faults        \* faults so far

vars == <<now, accounts, ledger, allocs, allocated, call, shared, excuse, ops, faults>>
books == <<accounts, ledger, allocs, allocated>>
ghosts == <<shared, excuse>>

Kinds == {"none", "allocate", "consume", "expire", "transfer", "delete"}
Steps == {"idle", "open", "check", "plan", "run"}
Writes == {"txn", "balance", "alloc", "budget", "consumed", "expired",
           "del_allocs", "del_txns", "del_accounts"}
Excuses == {"refused", "lapsed", "moved", "lost", "overrun"}

Account == [user : Users, type : Types, balance : Nat, live : BOOLEAN]
Allocation == [account : Nat \ {0}, campaign : Campaigns \cup {NoCampaign}, amount : Nat,
               consumed : Nat, expired : Nat, expires : 0..Never, live : BOOLEAN]
Statement == [write : Writes, account : Nat, n : Int, alloc : Nat]
Call == [kind : Kinds, step : Steps, user : Users \cup {NoUser}, type : Types,
         n : Nat, campaign : Campaigns \cup {NoCampaign}, expires : 0..Never,
         from : Nat, todo : Seq(Statement)]

AnyType == CHOOSE t \in Types : TRUE
Idle == [kind |-> "none", step |-> "idle", user |-> NoUser, type |-> AnyType, n |-> 0,
         campaign |-> NoCampaign, expires |-> 0, from |-> 0, todo |-> <<>>]

TypeOK ==
    /\ now \in 0..Never
    /\ accounts \in Seq(Account)
    /\ ledger \in [DOMAIN accounts -> Int]
    /\ allocs \in Seq(Allocation)
    /\ \A i \in DOMAIN allocs : allocs[i].account \in DOMAIN accounts
    /\ allocated \in [Campaigns -> Nat]
    /\ call \in [Calls -> Call]
    /\ shared \subseteq DOMAIN allocs
    /\ excuse \in [DOMAIN accounts -> SUBSET Excuses]
    /\ ops \in 0..MaxOps /\ faults \in 0..MaxFaults

Init ==
    /\ now = 0
    /\ accounts = <<>> /\ ledger = <<>> /\ allocs = <<>>
    /\ allocated = [k \in Campaigns |-> 0]
    /\ call = [c \in Calls |-> Idle]
    /\ shared = {} /\ excuse = <<>>
    /\ ops = 0 /\ faults = 0

-----------------------------------------------------------------------------
Fault == faults < MaxFaults /\ faults' = faults + 1
Called(c) == call[c].step = "idle" /\ ops < MaxOps /\ ops' = ops + 1
Goto(c, step) == call' = [call EXCEPT ![c].step = step]
Return(c) == call' = [call EXCEPT ![c] = Idle]

\* get_account_by_user_type and get_user_accounts.
AccountsOf(u) == {a \in DOMAIN accounts : accounts[a].live /\ accounts[a].user = u}
AccountOf(u, t) == {a \in AccountsOf(u) : accounts[a].type = t}
The(S) == CHOOSE x \in S : TRUE

Balance(S) == SumFunctionOnSet([a \in DOMAIN accounts |-> accounts[a].balance], S)
Left(i) == allocs[i].amount - allocs[i].consumed - allocs[i].expired
LeftIn(S) == SumFunctionOnSet([i \in DOMAIN allocs |-> Left(i)], S)

Do(write, a, n, i) == [write |-> write, account |-> a, n |-> n, alloc |-> i]

\* The rest of a call is a sequence of statements.
Run(c, todo) == call' = [call EXCEPT ![c].step = "run", ![c].todo = todo]
Proceed(c, todo) == IF todo = <<>> THEN Return(c) ELSE Run(c, todo)

-----------------------------------------------------------------------------
\* allocate_credits: the account is looked up, or opened.
Allocate(c) ==
    /\ Called(c)
    /\ \E u \in Users, t \in Types, n \in Grants, k \in Campaigns \cup {NoCampaign},
          e \in Expiries :
        call' = [call EXCEPT ![c] =
            [Idle EXCEPT !.kind = "allocate", !.user = u, !.type = t, !.n = n,
                         !.campaign = k, !.expires = e,
                         !.step = IF AccountOf(u, t) = {} THEN "open" ELSE "check"]]
    /\ UNCHANGED <<now, books, ghosts, faults>>

\* create_account: the INSERT, or the account that somebody opened meanwhile.
\* When that happens after its SELECT, UNIQUE(user_id, credit_type) raises.
Open(c) ==
    LET u == call[c].user  t == call[c].type IN
    /\ call[c].step = "open"
    /\ \/ /\ AccountOf(u, t) = {} /\ Len(accounts) < MaxAccounts
          /\ accounts' = Append(accounts, [user |-> u, type |-> t, balance |-> 0, live |-> TRUE])
          /\ ledger' = Append(ledger, 0)
          /\ excuse' = Append(excuse, {})
          /\ Goto(c, "check")
       \/ /\ AccountOf(u, t) # {}
          /\ Goto(c, "check") \/ Return(c)
          /\ UNCHANGED <<accounts, ledger, excuse>>
    /\ UNCHANGED <<now, allocs, allocated, shared, ops, faults>>

\* _validate_campaign_for_allocation: the remaining budget, and the number of
\* allocations the user already got.
Eligible(u, k, n) ==
    /\ Budget[k] - allocated[k] >= n
    /\ Cardinality({i \in DOMAIN allocs : /\ allocs[i].live /\ allocs[i].campaign = k
                                          /\ accounts[allocs[i].account].user = u}) < Limit[k]

\* Mutant: no transaction is written.
GrantUnbooked(c, a) ==
    LET n == call[c].n IN
    <<Do("balance", a, n, 0), Do("alloc", a, n, 0)>>

\* The statements of an allocation; a manual one has no budget to update.
Grant(c, a) ==
    LET n == call[c].n IN
    <<Do("txn", a, n, 0), Do("balance", a, n, 0), Do("alloc", a, n, 0)>>
      \o IF call[c].campaign = NoCampaign THEN <<>> ELSE <<Do("budget", a, n, 0)>>

\* The statements of a transfer: paired transactions, then both balances.
Move(c, a) ==
    LET s == call[c].from  n == call[c].n IN
    <<Do("txn", s, -n, 0), Do("txn", a, n, 0), Do("balance", s, -n, 0), Do("balance", a, n, 0)>>

\* With the account at hand, a transfer goes on; an allocation also needs its
\* campaign's consent, which may be refused for other reasons, too.
Check(c) ==
    LET u == call[c].user  k == call[c].campaign  a == The(AccountOf(u, call[c].type)) IN
    /\ call[c].step = "check"
    /\ \/ /\ AccountOf(u, call[c].type) # {}
          /\ call[c].kind = "allocate" /\ k # NoCampaign => Eligible(u, k, call[c].n)
          /\ Run(c, IF call[c].kind = "allocate" THEN Grant(c, a) ELSE Move(c, a))
       \/ /\ AccountOf(u, call[c].type) = {} \/ (call[c].kind = "allocate" /\ k # NoCampaign)
          /\ Return(c)
    /\ UNCHANGED <<now, books, ghosts, ops, faults>>

\* transfer_credits up to the recipient's account.
Transfer(c) ==
    /\ Called(c)
    /\ \E a \in DOMAIN accounts, v \in Users, n \in Amounts :
        LET t == accounts[a].type IN
        /\ accounts[a].live /\ accounts[a].user # v /\ t \notin Fixed
        /\ call' = IF accounts[a].balance < n THEN call
                   ELSE [call EXCEPT ![c] =
                        [Idle EXCEPT !.kind = "transfer", !.user = v, !.type = t, !.n = n,
                                     !.from = a,
                                     !.step = IF AccountOf(v, t) = {} THEN "open" ELSE "check"]]
    /\ UNCHANGED <<now, books, ghosts, faults>>

-----------------------------------------------------------------------------
\* consume_credits: the balances of all accounts must cover the amount.
Consume(c) ==
    /\ Called(c)
    /\ \E u \in Users, n \in Amounts :
        call' = IF AccountsOf(u) = {} \/ Balance(AccountsOf(u)) < n THEN call
                ELSE [call EXCEPT ![c] = [Idle EXCEPT !.kind = "consume", !.step = "plan",
                                                      !.user = u, !.n = n]]
    /\ UNCHANGED <<now, books, ghosts, faults>>

\* get_available_credits_fifo
Available(u) == {i \in DOMAIN allocs : /\ allocs[i].live /\ Left(i) > 0
                                       /\ allocs[i].expires > now
                                       /\ allocs[i].account \in AccountsOf(u)}

\* Mutant: the credit type comes before the expiration date.
TypeFirst(i, j) ==
    LET p(x) == Priority[accounts[allocs[x].account].type] IN
    \/ p(i) < p(j)
    \/ p(i) = p(j) /\ allocs[i].expires < allocs[j].expires
    \/ p(i) = p(j) /\ allocs[i].expires = allocs[j].expires /\ i < j

\* The sort key of _build_consumption_plan: expires_at, priority, created_at.
\* Only allocations that are Sortable are compared by it.
Sooner(i, j) ==
    LET p(x) == Priority[accounts[allocs[x].account].type] IN
    \/ allocs[i].expires < allocs[j].expires
    \/ /\ allocs[i].expires = allocs[j].expires
       /\ p(i) < p(j) \/ (p(i) = p(j) /\ i < j)

Sorted(S) == {s \in [1..Cardinality(S) -> S] :
                 \A i, j \in DOMAIN s : i < j => Sooner(s[i], s[j])}

\* The key of an allocation that never expires is a datetime, that of any other
\* is the string _row_to_dict made of one: comparing the two raises TypeError.
Sortable(S) == \A i, j \in S : allocs[i].expires = Never <=> allocs[j].expires = Never

\* _build_consumption_plan: each allocation gives what it has until nothing
\* remains to be paid; so what remains at i is what those before it do not cover.
Owed(u, n, i) == n - LeftIn({j \in Available(u) : Sooner(j, i)})
Used(u, n) == {i \in Available(u) : Owed(u, n, i) > 0}
Part(u, n, i) == IF Left(i) < Owed(u, n, i) THEN Left(i) ELSE Owed(u, n, i)

ConsumptionPlan(u, n) ==
    {[j \in DOMAIN s |-> [alloc |-> s[j], n |-> Part(u, n, s[j])]] : s \in Sorted(Used(u, n))}

\* Per item of a plan: a transaction, the balance, the allocation.
Item(write, i, n) ==
    LET a == allocs[i].account IN
    <<Do("txn", a, -n, i), Do("balance", a, -n, i), Do(write, a, n, i)>>
PlanStatements(write, plan) ==
    [j \in 1..3 * Len(plan) |->
        LET item == plan[(j + 2) \div 3] IN Item(write, item.alloc, item.n)[((j + 2) % 3) + 1]]

Planned(c) == {call[c].todo[j].alloc : j \in DOMAIN call[c].todo} \ {0}
Share(c, used) ==
    shared' = shared \cup {i \in used : \E d \in Calls \ {c} : i \in Planned(d)}

\* No plan: CreditConsumptionFailedError.  A plan may cover less than the
\* amount; it is carried out all the same.  The TypeError of a sort ends the
\* call, too.
Plan(c) ==
    /\ call[c].step = "plan"
    /\ \/ /\ Sortable(Available(call[c].user))
          /\ \E plan \in ConsumptionPlan(call[c].user, call[c].n) :
              /\ Proceed(c, PlanStatements("consumed", plan))
              /\ Share(c, {plan[j].alloc : j \in DOMAIN plan})
       \/ ~Sortable(Available(call[c].user)) /\ Return(c) /\ UNCHANGED shared
    /\ UNCHANGED <<now, books, excuse, ops, faults>>

\* Mutant: what was consumed expires as well.
RemainingAll(i) == allocs[i].amount
\* Partial expiration: what an allocation that runs out still has.
Remaining(i) == allocs[i].amount - allocs[i].consumed - allocs[i].expired

\* get_expiring_allocations
Expiring == {i \in DOMAIN allocs : allocs[i].live /\ allocs[i].expires <= now /\ Left(i) > 0}

\* process_expirations, the daily job of each replica, or a retry by hand.
Expire(c) ==
    /\ Called(c)
    /\ \E s \in Sorted(Expiring) :
        LET plan == [j \in DOMAIN s |-> [alloc |-> s[j], n |-> Remaining(s[j])]] IN
        call' = IF Expiring = {} THEN call
                ELSE [call EXCEPT ![c] = [Idle EXCEPT !.kind = "expire", !.step = "run",
                                              !.todo = PlanStatements("expired", plan)]]
    /\ Share(c, Expiring)
    /\ UNCHANGED <<now, books, excuse, faults>>

\* handle_user_deleted calls delete_user_data.
Delete(c) ==
    /\ Called(c)
    /\ \E u \in Users :
        call' = [call EXCEPT ![c] =
            [Idle EXCEPT !.kind = "delete", !.step = "run", !.user = u,
                         !.todo = <<Do("del_allocs", 0, 0, 0), Do("del_txns", 0, 0, 0),
                                    Do("del_accounts", 0, 0, 0)>>]]
    /\ UNCHANGED <<now, books, ghosts, faults>>

-----------------------------------------------------------------------------
Todo(c) == call[c].todo
Writing(c, write) == call[c].step = "run" /\ Head(Todo(c)).write = write
Account1(c) == Head(Todo(c)).account

\* The exception ends the call; process_expirations goes on to its next item.
AfterError(c) ==
    LET items == {j \in 2..Len(Todo(c)) : Todo(c)[j].write = "txn"} IN
    IF call[c].kind = "expire" /\ items # {}
    THEN SubSeq(Todo(c), Min(items), Len(Todo(c))) ELSE <<>>

Excuse(S, why) == excuse' = [a \in DOMAIN excuse |->
                               IF a \in S THEN excuse[a] \cup {why} ELSE excuse[a]]

\* create_transaction.  consume and expire look at the account first.
WriteTxn(c) ==
    LET a == Account1(c)
        gone == call[c].kind \in {"consume", "expire"} /\ ~accounts[a].live IN
    /\ Writing(c, "txn")
    /\ \/ /\ ~gone
          /\ ledger' = [ledger EXCEPT ![a] = @ + Head(Todo(c)).n]
          /\ Proceed(c, Tail(Todo(c)))
       \/ /\ gone
          /\ Proceed(c, AfterError(c))
          /\ UNCHANGED ledger
    /\ UNCHANGED <<now, accounts, allocs, allocated, ghosts, ops, faults>>

\* Mutant: the UPDATE does not look at the balance.
GuardlessUpdate(a, n) == accounts[a].live
\* update_account_balance: one UPDATE with a guard.
Applies(a, n) == accounts[a].live /\ accounts[a].balance + n >= 0

\* Mutant: a refused consumption goes on with the allocation.
PressesOnAlways(c) == TRUE
\* allocate and consume raise when the UPDATE matched no row; process_expirations
\* does not look, and a transfer updates both sides before it does.
PressesOn(c) == call[c].kind \in {"expire", "transfer"}

WriteBalance(c) ==
    LET a == Account1(c)  n == Head(Todo(c)).n IN
    /\ Writing(c, "balance")
    /\ \/ /\ Applies(a, n)
          /\ accounts' = [accounts EXCEPT ![a].balance = @ + n]
          /\ Proceed(c, Tail(Todo(c)))
          /\ IF call[c].kind = "transfer" THEN Excuse({a}, "moved") ELSE UNCHANGED excuse
       \/ /\ ~Applies(a, n)
          /\ Proceed(c, IF PressesOn(c) THEN Tail(Todo(c)) ELSE <<>>)
          /\ Excuse({a}, IF call[c].kind = "expire" THEN "lapsed" ELSE "refused")
          /\ UNCHANGED accounts
    /\ UNCHANGED <<now, ledger, allocs, allocated, shared, ops, faults>>

\* create_allocation
WriteAlloc(c) ==
    LET a == Account1(c) IN
    /\ Writing(c, "alloc") /\ Len(allocs) < MaxAllocs
    /\ allocs' = Append(allocs, [account |-> a, campaign |-> call[c].campaign,
                                 amount |-> call[c].n, consumed |-> 0, expired |-> 0,
                                 expires |-> call[c].expires, live |-> TRUE])
    /\ Proceed(c, Tail(Todo(c)))
    /\ UNCHANGED <<now, accounts, ledger, allocated, ghosts, ops, faults>>

\* Mutant: the budget is updated without its guard.
FitsAlways(k, n) == TRUE
\* update_campaign_budget: one UPDATE with a guard.
Fits(k, n) == allocated[k] + n <= Budget[k]

\* Nobody looks at what update_campaign_budget returns.
WriteBudget(c) ==
    LET k == call[c].campaign  n == Head(Todo(c)).n IN
    /\ Writing(c, "budget")
    /\ \/ /\ Fits(k, n)
          /\ allocated' = [allocated EXCEPT ![k] = @ + n]
          /\ UNCHANGED excuse
       \/ /\ ~Fits(k, n)
          /\ Excuse({Account1(c)}, "overrun")
          /\ UNCHANGED allocated
    /\ Proceed(c, Tail(Todo(c)))
    /\ UNCHANGED <<now, accounts, ledger, allocs, shared, ops, faults>>

\* update_allocation_consumed and update_allocation_expired: no guard.
WriteUse(c) ==
    LET i == Head(Todo(c)).alloc  n == Head(Todo(c)).n IN
    /\ \/ /\ Writing(c, "consumed")
          /\ allocs' = [allocs EXCEPT ![i].consumed = IF allocs[i].live THEN @ + n ELSE @]
       \/ /\ Writing(c, "expired")
          /\ allocs' = [allocs EXCEPT ![i].expired = IF allocs[i].live THEN @ + n ELSE @]
    /\ Proceed(c, Tail(Todo(c)))
    /\ UNCHANGED <<now, accounts, ledger, allocated, ghosts, ops, faults>>

\* delete_user_data: three DELETEs.
WriteDelete(c) ==
    LET u == call[c].user IN
    /\ \/ /\ Writing(c, "del_allocs")
          /\ allocs' = [i \in DOMAIN allocs |->
                          IF accounts[allocs[i].account].user = u
                          THEN [allocs[i] EXCEPT !.live = FALSE] ELSE allocs[i]]
          /\ UNCHANGED <<accounts, ledger>>
       \/ /\ Writing(c, "del_txns")
          /\ ledger' = [a \in DOMAIN ledger |-> IF accounts[a].user = u THEN 0 ELSE ledger[a]]
          /\ UNCHANGED <<accounts, allocs>>
       \/ /\ Writing(c, "del_accounts")
          /\ accounts' = [a \in DOMAIN accounts |->
                            IF accounts[a].user = u THEN [accounts[a] EXCEPT !.live = FALSE]
                            ELSE accounts[a]]
          /\ UNCHANGED <<ledger, allocs>>
    /\ Proceed(c, Tail(Todo(c)))
    /\ UNCHANGED <<now, allocated, ghosts, ops, faults>>

-----------------------------------------------------------------------------
\* The accounts whose rows a call has still to change.
Touched(c) ==
    IF call[c].kind = "delete" THEN {a \in DOMAIN accounts : accounts[a].user = call[c].user}
    ELSE {s.account : s \in Range(Todo(c))} \cup ({call[c].from} \ {0})

\* A statement raises, or the coroutine is lost: what is written stays.
StatementRaises(c) ==
    /\ call[c].step = "run"
    /\ Fault
    /\ Proceed(c, AfterError(c)) \/ Return(c)
    /\ Excuse(Touched(c), "lost")
    /\ UNCHANGED <<now, books, shared, ops>>

Tick ==
    /\ now < Never - 1
    /\ now' = now + 1
    /\ UNCHANGED <<books, call, ghosts, ops, faults>>

Step(c) == \/ Allocate(c) \/ Open(c) \/ Check(c) \/ Transfer(c) \/ Consume(c) \/ Plan(c)
           \/ Expire(c) \/ Delete(c)
           \/ WriteTxn(c) \/ WriteBalance(c) \/ WriteAlloc(c) \/ WriteBudget(c)
           \/ WriteUse(c) \/ WriteDelete(c)
           \/ StatementRaises(c)

Next == Tick \/ \E c \in Calls : Step(c)

Spec == Init /\ [][Next]_vars

-----------------------------------------------------------------------------
Busy(a) == \E c \in Calls : a \in Touched(c)
AllocsOf(a) == {i \in DOMAIN allocs : allocs[i].account = a /\ allocs[i].live}

\* The column drift of credit.v_account_reconciliation.
Drift(a) == accounts[a].balance - LeftIn(AllocsOf(a))

\* The two records of an account's credits agree, except while a call is at
\* them, after a lost one, after an expiration the balance could not pay, and
\* in an account that took part in a transfer.
DriftExplained ==
    \A a \in DOMAIN accounts :
        accounts[a].live /\ Drift(a) # 0 =>
            Busy(a) \/ excuse[a] \cap {"lapsed", "moved", "lost"} # {}

\* The transactions of an account add up to its balance, except while a call
\* is at them, after a lost one, and after a refused change, whose transaction
\* is written first and stays.
LedgerAgrees ==
    \A a \in DOMAIN accounts :
        accounts[a].live /\ ledger[a] # accounts[a].balance =>
            Busy(a) \/ excuse[a] \cap {"lapsed", "refused", "lost"} # {}

\* No credit of an allocation is used twice, by consumers or by the daily job,
\* unless two of them had it in their plans at the same time.
UsedOnceUnlessShared ==
    \A i \in DOMAIN allocs : Left(i) < 0 => i \in shared

\* A campaign is charged for what it allocated and never beyond its budget; an
\* allocation it is not charged for is the work of a race or of a lost call.
CampaignPays ==
    \A k \in Campaigns :
        LET of == {i \in DOMAIN allocs : allocs[i].campaign = k}
            granted == SumFunctionOnSet([i \in DOMAIN allocs |-> allocs[i].amount], of) IN
        /\ allocated[k] <= Budget[k]
        /\ allocated[k] <= granted
        /\ allocated[k] < granted =>
              \E i \in of : \/ excuse[allocs[i].account] \cap {"overrun", "lost"} # {}
                            \/ \E c \in Calls : /\ call[c].campaign = k /\ Todo(c) # <<>>
                                                /\ Head(Todo(c)).write = "budget"

\* What is spent is what would be lost first: a plan leaves nothing in an
\* allocation that expires before one it takes from, or at the same time with
\* a higher priority.  It is made only where both allocations have a moment of
\* expiration or neither has: a user who holds both kinds can consume nothing.
SoonestFirst ==
    [][\A c \in Calls :
          call[c].step = "plan" /\ call'[c].step = "run" =>
            \A i \in Available(call[c].user), s \in Range(call'[c].todo) :
                \/ ~(\/ allocs[i].expires < allocs[s.alloc].expires
                     \/ /\ allocs[i].expires = allocs[s.alloc].expires
                        /\ Priority[accounts[allocs[i].account].type]
                             < Priority[accounts[s.account].type])
                \/ \E t \in Range(call'[c].todo) :
                      t.alloc = i /\ t.write = "consumed" /\ t.n = Left(i)]_vars

-----------------------------------------------------------------------------
\* migrations/003_add_reconciliation_view.sql: "Any non-zero row indicates a bug
\* or a manual DB mutation that bypassed the credit_service grant flow".
NoDrift ==
    (\A c \in Calls : call[c].step = "idle") /\ faults = 0 =>
        \A a \in DOMAIN accounts : accounts[a].live => Drift(a) = 0

\* BR-CON-003 and BR-EXP-008 of credit_service.py: credits are consumed in the
\* order they expire, those that never expire after the others.  A user with both
\* kinds of allocation cannot consume at all.
CoveredIsConsumed ==
    [][\A c \in Calls :
          /\ call[c].step = "plan" /\ call'[c].step # "plan"
          /\ LeftIn(Available(call[c].user)) >= call[c].n
          => call'[c].step = "run"]_vars

\* BR-EXP-001: "Expired credits cannot be consumed".
ExpiredNotConsumed ==
    [][\A i \in DOMAIN allocs :
          allocs[i].expires <= now => allocs'[i].consumed = allocs[i].consumed]_vars
=============================================================================
