------------------------ MODULE SubscriptionCredits ------------------------
(***************************************************************************)
(* The subscriptions of subscription_service and the credits on them: how  *)
(* SubscriptionService and SubscriptionRepository create and cancel        *)
(* subscriptions, consume credits, and hold credits for a request until    *)
(* the real usage is known (reserve, reconcile, release).                  *)
(*                                                                         *)
(* create, cancel, consume and an administrator's adjustment of credits    *)
(* are sequences of single statements with an await after each.            *)
(* reserve_credits looks for the request's reservation and then locks the  *)
(* subscription's row for the rest of its transaction; reconcile and       *)
(* release lock the reservation before they do anything, and are one step  *)
(* each.                                                                   *)
(*                                                                         *)
(* Abstractions: a payer stands for the billing account that               *)
(* _resolve_billing_scope finds (a user, or an organization); the tier,    *)
(* the billing cycle and the seats only decide the credits of a            *)
(* subscription; rows are identified by their position, which is the order *)
(* of created_at; the history is kept as the sum of its credits_change per *)
(* subscription; cancel_at_period_end and auto_renew are left out, as no   *)
(* code reads them.                                                        *)
(***************************************************************************)
EXTENDS Integers, Sequences, FiniteSets, Functions

CONSTANTS
    Calls,        \* operations in progress (one slot per request or handler)
    Payers,       \* billing accounts
    Requests,     \* request ids of the callers of reserve
    NoRequest,    \* a reserve without request_id (the column is NULL)
    NoPayer,      \* the payer field of an idle slot
    Plans,        \* credits a new subscription can come with
    Amounts,      \* credits asked for; the request models require > 0
    Actuals,      \* credits really used; the request model requires >= 0
    Adjustments,  \* credits an administrator adds or takes
    MaxSubs,      \* bound: rows of subscription.user_subscriptions
    MaxHolds,     \* bound: rows of subscription.credit_reservations
    MaxOps,       \* bound: operations called in a behaviour
    MaxFaults     \* bound: failing statements and lost coroutines

ASSUME CreditsAssumption ==
    /\ IsFiniteSet(Calls)
    /\ NoRequest \notin Requests
    /\ NoPayer \notin Payers
    /\ Plans \subseteq Nat
    /\ Amounts \subseteq Nat \ {0}
    /\ Actuals \subseteq Nat
    /\ Adjustments \subseteq Nat
    /\ MaxSubs \in Nat /\ MaxHolds \in Nat /\ MaxOps \in Nat /\ MaxFaults \in Nat

VARIABLES
    subs,         \* the subscriptions, oldest first
    holds,        \* the credit reservations, oldest first
    logged,       \* the sum of credits_change over a subscription's history
    spent,        \* credits taken by consume_credits (a history variable)
    events,       \* the subscription.credits.* events about a reservation
    receipt,      \* credits_consumed in the last reconcile answer
    adjusted,     \* subscriptions whose columns an administrator put out of step
    call,         \* what each operation in progress is doing
    ops,          \* operations called so far
    faults        \* faults so far

vars == <<subs, holds, logged, spent, events, receipt, adjusted, call, ops, faults>>

SubStatus == {"trialing", "active", "canceled"}
HoldStatus == {"pending", "reconciled", "released"}
Announcements == {"reserved", "reconciled", "released"}
Steps == {"idle", "insert", "update", "adjust", "take", "begin", "commit", "log"}

Subscription == [payer : Payers, status : SubStatus,
                 allocated : Nat, used : Nat, remaining : Nat]
Reservation == [request : Requests \cup {NoRequest}, sub : Nat \ {0},
                estimated : Nat, status : HoldStatus,
                actual : Nat, refunded : Nat, extra : Nat]
Call == [step : Steps, payer : Payers \cup {NoPayer}, sub : Nat, n : Int,
         request : Requests \cup {NoRequest}, remaining : Nat, allocated : Nat]

Idle == [step |-> "idle", payer |-> NoPayer, sub |-> 0, n |-> 0,
         request |-> NoRequest, remaining |-> 0, allocated |-> 0]

TypeOK ==
    /\ subs \in Seq(Subscription)
    /\ holds \in Seq(Reservation)
    /\ \A h \in DOMAIN holds : holds[h].sub \in DOMAIN subs
    /\ logged \in [DOMAIN subs -> Int]
    /\ spent \in [DOMAIN subs -> Nat]
    /\ events \subseteq Announcements \X DOMAIN holds
    /\ receipt \in [DOMAIN holds -> {-1} \cup Nat]
    /\ adjusted \subseteq DOMAIN subs
    /\ call \in [Calls -> Call]
    /\ \A c \in Calls : call[c].step \in {"update", "adjust", "take", "log"}
                            => call[c].sub \in DOMAIN subs
    /\ ops \in 0..MaxOps
    /\ faults \in 0..MaxFaults

Init ==
    /\ subs = <<>> /\ holds = <<>>
    /\ logged = <<>> /\ spent = <<>>
    /\ events = {} /\ receipt = <<>> /\ adjusted = {}
    /\ call = [c \in Calls |-> Idle]
    /\ ops = 0 /\ faults = 0

-----------------------------------------------------------------------------
Fault == faults < MaxFaults /\ faults' = faults + 1

\* A request arrives, or an event handler is called, in a free slot.
Called(c) == call[c].step = "idle" /\ ops < MaxOps /\ ops' = ops + 1

\* get_user_subscription(active_only): the newest subscription with status
\* 'active'; a trialing one is not found.
ActiveOf(p) == {i \in DOMAIN subs : subs[i].payer = p /\ subs[i].status = "active"}
Newest(S) == CHOOSE i \in S : \A j \in S : j <= i
Covered(p, n) == ActiveOf(p) # {} /\ subs[Newest(ActiveOf(p))].remaining >= n

Monus(a, b) == IF a > b THEN a - b ELSE 0

\* The writes of the credit columns that add and subtract.
Take(s, n) == [s EXCEPT !.used = @ + n, !.remaining = @ - n]
\* Mutant: the refund leaves credits_used as it is.
KeepUsed(s, n) == [s EXCEPT !.remaining = @ + n]
GiveBack(s, n) == [s EXCEPT !.used = IF @ > n THEN @ - n ELSE 0, !.remaining = @ + n]

-----------------------------------------------------------------------------
\* create_subscription: SELECT an active subscription of the payer, INSERT if
\* there is none.
CreateRead(c) ==
    /\ Called(c)
    /\ \E p \in Payers :
        call' = IF ActiveOf(p) # {} THEN call
                ELSE [call EXCEPT ![c] = [Idle EXCEPT !.step = "insert", !.payer = p]]
    /\ UNCHANGED <<subs, holds, logged, spent, events, receipt, adjusted, faults>>

CreateInsert(c) ==
    /\ call[c].step = "insert"
    /\ Len(subs) < MaxSubs
    /\ \E plan \in Plans, trial \in BOOLEAN :
        /\ subs' = Append(subs, [payer |-> call[c].payer,
                                 status |-> IF trial THEN "trialing" ELSE "active",
                                 allocated |-> plan, used |-> 0, remaining |-> plan])
        /\ call' = [call EXCEPT ![c] = [Idle EXCEPT !.step = "log",
                                                    !.sub = Len(subs) + 1, !.n = plan]]
    /\ logged' = Append(logged, 0)
    /\ spent' = Append(spent, 0)
    /\ UNCHANGED <<holds, events, receipt, adjusted, ops, faults>>

\* add_history, and the end of create, cancel and consume (their events carry
\* copies of the row and are left out).
AddHistory(c) ==
    /\ call[c].step = "log"
    /\ logged' = [logged EXCEPT ![call[c].sub] = @ + call[c].n]
    /\ call' = [call EXCEPT ![c] = Idle]
    /\ UNCHANGED <<subs, holds, spent, events, receipt, adjusted, ops, faults>>

\* cancel_subscription: only the owner gets past the SELECT, whatever the
\* status is; cancelling at the period's end changes no column anybody reads.
CancelRead(c) ==
    /\ Called(c)
    /\ \E i \in DOMAIN subs, immediate \in BOOLEAN :
        call' = [call EXCEPT ![c] = [Idle EXCEPT !.sub = i,
                                     !.step = IF immediate THEN "update" ELSE "log"]]
    /\ UNCHANGED <<subs, holds, logged, spent, events, receipt, adjusted, faults>>

CancelUpdate(c) ==
    /\ call[c].step = "update"
    /\ subs' = [subs EXCEPT ![call[c].sub].status = "canceled"]
    /\ call' = [call EXCEPT ![c] = [@ EXCEPT !.step = "log"]]
    /\ UNCHANGED <<holds, logged, spent, events, receipt, adjusted, ops, faults>>

\* update_subscription fails and returns None: the history row is written and
\* the caller is told that the subscription is canceled all the same.
CancelUpdateFails(c) ==
    /\ call[c].step = "update"
    /\ Fault
    /\ call' = [call EXCEPT ![c] = [@ EXCEPT !.step = "log"]]
    /\ UNCHANGED <<subs, holds, logged, spent, events, receipt, adjusted, ops>>

\* admin_credit_adjustment: the row is read, and remaining (with credits added,
\* allocated too) is written back as a value.
AdjustRead(c) ==
    /\ Called(c)
    /\ \E i \in DOMAIN subs, n \in Adjustments \cup {-m : m \in Adjustments} :
        call' = [call EXCEPT ![c] = [Idle EXCEPT !.step = "adjust", !.sub = i, !.n = n,
                                                 !.remaining = subs[i].remaining,
                                                 !.allocated = subs[i].allocated]]
    /\ UNCHANGED <<subs, holds, logged, spent, events, receipt, adjusted, faults>>

\* The row is no longer what was read, or gets out of step in itself.
PutsOutOfStep(s, seen) ==
    seen.n < 0 \/ s.remaining # seen.remaining \/ s.allocated # seen.allocated

Adjusted(s, seen) ==
    [s EXCEPT !.remaining = Monus(seen.remaining, -seen.n),
              !.allocated = IF seen.n > 0 THEN seen.allocated + seen.n ELSE @]

AdjustWrite(c) ==
    LET i == call[c].sub IN
    /\ call[c].step = "adjust"
    /\ subs' = [subs EXCEPT ![i] = Adjusted(@, call[c])]
    /\ adjusted' = IF PutsOutOfStep(subs[i], call[c]) THEN adjusted \cup {i} ELSE adjusted
    /\ call' = [call EXCEPT ![c] = [Idle EXCEPT !.step = "log", !.sub = i, !.n = call[c].n]]
    /\ UNCHANGED <<holds, logged, spent, events, receipt, ops, faults>>

\* update_subscription fails and returns None, which is not looked at.
AdjustWriteFails(c) ==
    /\ call[c].step = "adjust"
    /\ Fault
    /\ call' = [call EXCEPT ![c] = [Idle EXCEPT !.step = "log", !.sub = call[c].sub,
                                                 !.n = call[c].n]]
    /\ UNCHANGED <<subs, holds, logged, spent, events, receipt, adjusted, ops>>

\* consume_credits, for a request or for a billing.credits.consume event: the
\* balance is read, then an UPDATE of the row that was read.
ConsumeRead(c) ==
    /\ Called(c)
    /\ \E p \in Payers, n \in Amounts :
        call' = IF ~Covered(p, n) THEN call
                ELSE [call EXCEPT ![c] = [Idle EXCEPT !.step = "take", !.n = n,
                                                      !.sub = Newest(ActiveOf(p))]]
    /\ UNCHANGED <<subs, holds, logged, spent, events, receipt, adjusted, faults>>

\* Mutant: the consumption is not written to the history.
TakeUnlogged(c) ==
    LET i == call[c].sub  n == call[c].n IN
    /\ call[c].step = "take"
    /\ subs[i].remaining >= n
    /\ subs' = [subs EXCEPT ![i] = Take(@, n)]
    /\ spent' = [spent EXCEPT ![i] = @ + n]
    /\ call' = [call EXCEPT ![c] = Idle]
    /\ UNCHANGED <<holds, logged, events, receipt, adjusted, ops, faults>>

ConsumeTake(c) ==
    LET i == call[c].sub  n == call[c].n IN
    /\ call[c].step = "take"
    /\ \/ /\ subs[i].remaining >= n
          /\ subs' = [subs EXCEPT ![i] = Take(@, n)]
          /\ spent' = [spent EXCEPT ![i] = @ + n]
          /\ call' = [call EXCEPT ![c] = [@ EXCEPT !.step = "log", !.n = -n]]
       \/ /\ subs[i].remaining < n
          /\ call' = [call EXCEPT ![c] = Idle]
          /\ UNCHANGED <<subs, spent>>
    /\ UNCHANGED <<holds, logged, events, receipt, adjusted, ops, faults>>

-----------------------------------------------------------------------------
\* reserve_credits: the service looks for an active subscription, then the
\* transaction looks for a reservation of the same request.
ReserveRead(c) ==
    /\ Called(c)
    /\ \E p \in Payers, n \in Amounts, q \in Requests \cup {NoRequest} :
        call' = IF ActiveOf(p) = {} THEN call
                ELSE [call EXCEPT ![c] = [Idle EXCEPT !.step = "begin", !.payer = p,
                                                      !.n = n, !.request = q]]
    /\ UNCHANGED <<subs, holds, logged, spent, events, receipt, adjusted, faults>>

HoldsFor(q) == {h \in DOMAIN holds : holds[h].request = q /\ q # NoRequest}

\* An event that may not get out: publish_event returns False, or raises.
Announce(kind, h) == events' \in {events, events \cup {<<kind, h>>}}

ReserveBegin(c) ==
    /\ call[c].step = "begin"
    /\ \/ /\ HoldsFor(call[c].request) = {}
          /\ call' = [call EXCEPT ![c] = [@ EXCEPT !.step = "commit"]]
          /\ UNCHANGED events
       \/ \E h \in HoldsFor(call[c].request) :
          /\ call' = [call EXCEPT ![c] = Idle]
          /\ Announce("reserved", h)
    /\ UNCHANGED <<subs, holds, logged, spent, receipt, adjusted, ops, faults>>

\* Mutant: request_id has no UNIQUE constraint.
NeverTaken(q) == FALSE

\* A reservation of the request has appeared since: the UNIQUE constraint on
\* request_id makes the INSERT fail, and the UPDATE is rolled back with it.
Taken(q) == HoldsFor(q) # {}

\* The rest of the transaction, under the lock on the subscription's row.
ReserveCommit(c) ==
    LET p == call[c].payer  n == call[c].n  i == Newest(ActiveOf(p))
        granted == Covered(p, n) /\ ~Taken(call[c].request) IN
    /\ call[c].step = "commit"
    /\ call' = [call EXCEPT ![c] = Idle]
    /\ \/ /\ granted /\ Len(holds) < MaxHolds
          /\ subs' = [subs EXCEPT ![i] = Take(@, n)]
          /\ holds' = Append(holds, [request |-> call[c].request, sub |-> i, estimated |-> n,
                                     status |-> "pending", actual |-> 0, refunded |-> 0,
                                     extra |-> 0])
          /\ receipt' = Append(receipt, -1)
          /\ Announce("reserved", Len(holds) + 1)
       \/ /\ ~granted
          /\ UNCHANGED <<subs, holds, events, receipt>>
    /\ UNCHANGED <<logged, spent, adjusted, ops, faults>>

\* credits_consumed of the answer: "actual_credits or estimated_credits", so an
\* actual usage of 0 is answered with the estimate.
CreditsConsumed(row) == IF row.actual # 0 THEN row.actual ELSE row.estimated

\* reconcile_credit_reservation: the refund, or the overage if it is covered.
Reconciled(row, actual) ==
    [row EXCEPT !.status = "reconciled", !.actual = actual,
                !.refunded = Monus(row.estimated, actual),
                !.extra = Monus(actual, row.estimated)]

\* Mutant: the overage is taken whether it is covered or not.
ReconcileUncovered(h, actual) ==
    LET row == holds[h]  i == row.sub
        done == Reconciled(row, actual) IN
    /\ ops < MaxOps /\ ops' = ops + 1
    /\ row.status = "pending"
    /\ subs' = [subs EXCEPT ![i] = Take(@, actual - row.estimated)]
    /\ holds' = [holds EXCEPT ![h] = done]
    /\ receipt' = [receipt EXCEPT ![h] = CreditsConsumed(done)]
    /\ Announce("reconciled", h)
    /\ UNCHANGED <<logged, spent, adjusted, call, faults>>

\* The pending reservation is settled; the answer and the event report it.
Reconcile(h, actual) ==
    LET row == holds[h]  i == row.sub
        done == Reconciled(row, actual) IN
    /\ ops < MaxOps /\ ops' = ops + 1
    /\ row.status = "pending"
    /\ \/ done.extra = 0 /\ subs' = [subs EXCEPT ![i] = GiveBack(@, done.refunded)]
       \/ /\ done.extra > 0 /\ subs[i].remaining >= done.extra
          /\ subs' = [subs EXCEPT ![i] = Take(@, done.extra)]
    /\ holds' = [holds EXCEPT ![h] = done]
    /\ receipt' = [receipt EXCEPT ![h] = CreditsConsumed(done)]
    /\ Announce("reconciled", h)
    /\ UNCHANGED <<logged, spent, adjusted, call, faults>>

\* A retry: a reservation that is already reconciled is answered, and
\* announced, once more.
ReconcileAgain(h) ==
    /\ ops < MaxOps /\ ops' = ops + 1
    /\ holds[h].status = "reconciled"
    /\ receipt' = [receipt EXCEPT ![h] = CreditsConsumed(holds[h])]
    /\ Announce("reconciled", h)
    /\ UNCHANGED <<subs, holds, logged, spent, adjusted, call, faults>>

\* release_credit_reservation.
Release(h) ==
    LET row == holds[h] IN
    /\ ops < MaxOps /\ ops' = ops + 1
    /\ row.status = "pending"
    /\ subs' = [subs EXCEPT ![row.sub] = GiveBack(@, row.estimated)]
    /\ holds' = [holds EXCEPT ![h] = [@ EXCEPT !.status = "released",
                                               !.refunded = row.estimated]]
    /\ Announce("released", h)
    /\ UNCHANGED <<logged, spent, receipt, adjusted, call, faults>>

\* Mutant: any finished reservation is announced as released.
ReleaseAnyAgain(h) ==
    /\ ops < MaxOps /\ ops' = ops + 1
    /\ holds[h].status # "pending"
    /\ Announce("released", h)
    /\ UNCHANGED <<subs, holds, logged, spent, receipt, adjusted, call, faults>>

ReleaseAgain(h) ==
    /\ ops < MaxOps /\ ops' = ops + 1
    /\ holds[h].status = "released"
    /\ Announce("released", h)
    /\ UNCHANGED <<subs, holds, logged, spent, receipt, adjusted, call, faults>>

\* A statement fails and is reported as a failure, or the coroutine is lost:
\* what was committed stays.  (A failing INSERT of the history is the same.)
Lose(c) ==
    /\ call[c].step # "idle"
    /\ Fault
    /\ call' = [call EXCEPT ![c] = Idle]
    /\ UNCHANGED <<subs, holds, logged, spent, events, receipt, adjusted, ops>>

Step(c) == \/ CreateRead(c) \/ CreateInsert(c) \/ AddHistory(c)
           \/ CancelRead(c) \/ CancelUpdate(c) \/ CancelUpdateFails(c)
           \/ AdjustRead(c) \/ AdjustWrite(c) \/ AdjustWriteFails(c)
           \/ ConsumeRead(c) \/ ConsumeTake(c)
           \/ ReserveRead(c) \/ ReserveBegin(c) \/ ReserveCommit(c)
           \/ Lose(c)

Finalize(h) == \/ \E actual \in Actuals : Reconcile(h, actual)
               \/ ReconcileAgain(h) \/ Release(h) \/ ReleaseAgain(h)

Next == \/ \E c \in Calls : Step(c)
        \/ \E h \in DOMAIN holds : Finalize(h)

Spec == Init /\ [][Next]_vars

-----------------------------------------------------------------------------
\* What a reservation costs its subscription at the moment.
Cost(row) == CASE row.status = "pending" -> row.estimated
               [] row.status = "reconciled" -> row.actual
               [] row.status = "released" -> 0

HoldsOn(i) == {h \in DOMAIN holds : holds[h].sub = i}
CostOf(i) == SumFunctionOnSet([h \in DOMAIN holds |-> Cost(holds[h])], HoldsOn(i))

\* Whatever order requests, retries, reconciliations and releases come in, no
\* credit is lost or made: credits_used is what was consumed plus what the
\* reservations cost, whatever an administrator does, and with credits_remaining
\* it adds up to the allocation until an adjustment takes credits away or
\* writes back a row that has changed since it was read.
\* (GREATEST(credits_used - $1, 0) of the refunds never has to cut anything.)
CreditsAddUp ==
    \A i \in DOMAIN subs :
        /\ subs[i].used + subs[i].remaining = subs[i].allocated \/ i \in adjusted
        /\ subs[i].used = spent[i] + CostOf(i)

\* A request holds credits at most once, however many of its reserve calls
\* pass the look-up of the existing reservation before the first one commits.
OneHoldPerRequest ==
    \A g, h \in DOMAIN holds :
        holds[g].request = holds[h].request /\ holds[g].request # NoRequest => g = h

\* Listeners never hear that a reservation was both charged and given back,
\* and they hear only what the row says.
EventsAgree ==
    \A h \in DOMAIN holds :
        /\ ~ ({<<"reconciled", h>>, <<"released", h>>} \subseteq events)
        /\ <<"reconciled", h>> \in events => holds[h].status = "reconciled"
        /\ <<"released", h>> \in events => holds[h].status = "released"

\* The answer to a reconcile of a real usage names what the reservation costs
\* its subscription in the end: what was held, less the refund, plus the
\* overage.
ReceiptsMatchCharges ==
    \A h \in DOMAIN holds :
        receipt[h] # -1 /\ holds[h].actual > 0 =>
            receipt[h] = holds[h].estimated - holds[h].refunded + holds[h].extra

\* The history adds up to the credits allocated less those that were consumed
\* directly (consume_credits), unless a row is still to be written, a fault lost
\* one, or an adjustment took credits away or wrote a stale row back: either
\* excuses its subscription for good.  What is charged through a reservation is
\* not in it: reserve, reconcile and release write no history.
HistoryAccounts ==
    \A i \in DOMAIN subs :
        \/ logged[i] = subs[i].allocated - spent[i]
        \/ \E c \in Calls : call[c].step = "log" /\ call[c].sub = i
        \/ faults > 0 \/ i \in adjusted

\* A reservation that is reconciled or released stays as it is: a late
\* release after the reconciliation, or the other way round, has no effect.
FinalIsFinal ==
    [][\A h \in DOMAIN holds :
          holds[h].status # "pending" => holds'[h] = holds[h]]_vars

\* The escrow's view of the rows.  (The column actual_credits of a released and
\* a pending row is NULL, 0 here.)
Free == [i \in DOMAIN subs |-> subs[i].remaining]
View(row) == [account |-> row.sub, held |-> row.estimated,
              open |-> row.status = "pending", charge |-> row.actual]
Held == [h \in DOMAIN holds |-> View(holds[h])]

\* The rows and the statements on them implement the escrow of CreditEscrow.
Escrow == INSTANCE CreditEscrow WITH
    Credits <- Plans \cup Amounts \cup Actuals \cup {0}, free <- Free, hold <- Held

\* Every step of the service is a step of the escrow, or does not touch it.
ImplementsEscrow == Escrow!Spec

-----------------------------------------------------------------------------
\* docs/domain/subscription_service.md:326 promises one active subscription
\* per user and organization; two creates can pass the check together.
OneActivePerPayer ==
    \A p \in Payers : Cardinality(ActiveOf(p)) <= 1

\* docs/domain/subscription_service.md:399 says that every consumption creates a
\* history entry.  A reservation that is charged does not.
EveryUseLogged ==
    \A i \in DOMAIN subs :
        \/ logged[i] = subs[i].allocated - spent[i] - CostOf(i)
        \/ \E h \in HoldsOn(i) : holds[h].status = "pending"
        \/ \E c \in Calls : call[c].step = "log" /\ call[c].sub = i
        \/ faults > 0 \/ i \in adjusted

\* An administrator's adjustment is the only change between reading and
\* writing: what others consumed meanwhile is not handed out again.
AdjustmentsLoseNothing ==
    \A i \in DOMAIN subs : subs[i].used + subs[i].remaining <= subs[i].allocated

=============================================================================
