---------------------------- MODULE UsageBilling ----------------------------
(***************************************************************************)
(* How billing_service turns usage events into charges: the handlers of    *)
(* events/handlers.py, the durable claims of billing_repository.py, and    *)
(* record_usage_and_bill / process_billing of billing_service.py with the  *)
(* subscription, credit and wallet services they charge.                   *)
(*                                                                         *)
(* A billing.usage.recorded event is guarded by the distributed lock on    *)
(* its event id, by a set of processed ids in the memory of each replica,  *)
(* and by a claim in the database on its idempotency key, which events     *)
(* that a producer publishes again share.  The older handlers              *)
(* (session.tokens_used, order.completed) have the lock and the set only.  *)
(*                                                                         *)
(* Abstractions: prices are in half credits, the smallest fraction that    *)
(* shows int() at work; the guard of core/distributed_lock.py, modelled in *)
(* detail by EventIdempotency, is entered and left in one step each; a     *)
(* replica handles one delivery at a time; usage records, billing events   *)
(* and published events are left out; quota and pricing may refuse at any  *)
(* time.                                                                   *)
(***************************************************************************)
EXTENDS Integers, Sequences, FiniteSets, Functions

CONSTANTS
    Replicas,       \* pods of billing_service
    Nobody,         \* the owner of a free lock
    Usage,          \* billing.usage.recorded events (event.id)
    Legacy,         \* session.tokens_used and order.completed events
    Upstream,       \* usage events with credit_consumption_handled
    Key,            \* idempotency_key of a usage event, or its id
    Price,          \* what an event costs, if it costs anything, in half credits
    Funds,          \* what the user has: source |-> half credits
    MaxDeliveries,  \* bound: deliveries, of all events together
    MaxFaults       \* bound: lost answers, failing statements, crashes, stalls

Events == Usage \cup Legacy
Keys == {Key[e] : e \in Events}
Sources == {"subscription", "purchased", "wallet"}

ASSUME BillingAssumption ==
    /\ Usage \cap Legacy = {} /\ Upstream \subseteq Usage
    /\ IsFiniteSet(Replicas) /\ Nobody \notin Replicas
    /\ DOMAIN Key = Events
    /\ \A e \in Legacy : Key[e] = e
    /\ \A e \in Usage : Key[e] \notin Legacy
    /\ Price \in [Events -> Nat \ {0}]
    /\ Funds \in [Sources -> Nat]
    /\ MaxDeliveries \in Nat /\ MaxFaults \in Nat

VARIABLES
    delivered,   \* deliveries so far
    processed,   \* _processed_event_ids of each replica (ids and keys)
    lock,        \* the holder of the distributed lock on each event id
    cached,      \* events with an entry in the result cache
    claim,       \* the row of billing.event_processing_claims of each key
    records,     \* the rows of billing.billing_records, oldest first
    funds,       \* what is left to the user at each source, in half credits
    work,        \* what each replica is doing
    charges,     \* how often each key was really charged
    blame,       \* faults that can make a key be charged once more
    faults       \* faults so far

vars == <<delivered, processed, lock, cached, claim, records, funds, work, charges,
          blame, faults>>

ClaimStatus == {"absent", "processing", "completed", "failed"}
RecordStatus == {"processing", "completed", "failed", "pending"}
Methods == Sources \cup {"included", "payment"}
Steps == {"idle", "claim", "bill", "charge", "paid", "unpaid", "payment", "done",
          "failed"}

Record == [key : Keys, total : Nat, method : Methods, status : RecordStatus,
           paid : BOOLEAN]
Work == [step : Steps, event : Events \cup {Nobody}, row : Nat]
Idle == [step |-> "idle", event |-> Nobody, row |-> 0]

TypeOK ==
    /\ delivered \in 0..MaxDeliveries
    /\ processed \in [Replicas -> SUBSET (Events \cup Keys)]
    /\ lock \in [Events -> Replicas \cup {Nobody}]
    /\ cached \subseteq Events
    /\ claim \in [Keys -> [status : ClaimStatus, stale : BOOLEAN]]
    /\ records \in Seq(Record)
    /\ funds \in [Sources -> Nat]
    /\ work \in [Replicas -> Work]
    /\ \A w \in Replicas :
        /\ work[w].step # "idle" => work[w].event \in Events
        /\ work[w].step \in {"charge", "paid", "unpaid", "payment"} => work[w].row \in DOMAIN records
    /\ charges \in [Keys -> Nat]
    /\ blame \in [Keys -> Nat]
    /\ faults \in 0..MaxFaults

Init ==
    /\ delivered = 0
    /\ processed = [w \in Replicas |-> {}]
    /\ lock = [e \in Events |-> Nobody]
    /\ cached = {}
    /\ claim = [k \in Keys |-> [status |-> "absent", stale |-> FALSE]]
    /\ records = <<>>
    /\ funds = Funds
    /\ work = [w \in Replicas |-> Idle]
    /\ charges = [k \in Keys |-> 0]
    /\ blame = [k \in Keys |-> 0]
    /\ faults = 0

-----------------------------------------------------------------------------
Fault == faults < MaxFaults /\ faults' = faults + 1

KeyOf(w) == Key[work[w].event]
Go(w, step) == work' = [work EXCEPT ![w].step = step]
At(w, step) == work[w].step = step

\* Faults that can make a key be charged again: only where the ghost counts.
Blame(k) == blame' = [blame EXCEPT ![k] = @ + 1]
BlameIf(P, k) == blame' = IF P THEN [blame EXCEPT ![k] = @ + 1] ELSE blame

\* mark_event_processed
Remember(w, ids) == processed' = [processed EXCEPT ![w] = @ \cup ids]

\* Leaving the guard: the lock is released if it is still ours.
Unlock(w) == lock' = [e \in Events |-> IF e = work[w].event /\ lock[e] = w
                                       THEN Nobody ELSE lock[e]]
Leave(w) == Unlock(w) /\ work' = [work EXCEPT ![w] = Idle]

\* Some replica works on the key, under a claim or a lock it got.
Working(w, k) == work[w].step \notin {"idle", "claim"} /\ Key[work[w].event] = k

-----------------------------------------------------------------------------
\* The handler up to the body that runs under the lock: processed already,
\* cached, contended (the event is dropped), or the lock is taken.
Deliver(w, e) ==
    /\ At(w, "idle") /\ delivered < MaxDeliveries
    /\ delivered' = delivered + 1
    /\ \/ /\ e \in processed[w] \/ (e \notin cached /\ lock[e] # Nobody)
          /\ UNCHANGED <<processed, lock, work>>
       \/ /\ e \notin processed[w] /\ e \in cached
          /\ Remember(w, {e})
          /\ UNCHANGED <<lock, work>>
       \/ /\ e \notin processed[w] /\ e \notin cached /\ lock[e] = Nobody
          /\ lock' = [lock EXCEPT ![e] = w]
          /\ work' = [work EXCEPT ![w] = [step |-> IF e \in Legacy THEN "bill" ELSE "claim",
                                          event |-> e, row |-> 0]]
          /\ UNCHANGED processed
    /\ UNCHANGED <<cached, claim, records, funds, charges, blame, faults>>

\* Mutant: any unfinished row is taken over.
ClaimableUnfinished(k) == claim[k].status # "completed"

\* claim_event_processing: INSERT ... ON CONFLICT DO NOTHING, then an UPDATE
\* that takes over a failed or a stale row.
Claimable(k) == \/ claim[k].status \in {"absent", "failed"}
                \/ claim[k].status = "processing" /\ claim[k].stale

\* The claim is asked for; when another replica has it, or finished, the event
\* counts as processed here from now on.
Claim(w) ==
    LET k == KeyOf(w) IN
    /\ At(w, "claim")
    /\ \/ /\ k \notin processed[w] /\ Claimable(k)
          /\ claim' = [claim EXCEPT ![k] = [status |-> "processing", stale |-> FALSE]]
          /\ Go(w, "bill")
          /\ UNCHANGED <<processed, lock>>
       \/ /\ k \in processed[w] \/ ~Claimable(k)
          /\ Remember(w, {work[w].event, k})
          /\ Leave(w)
          /\ UNCHANGED claim
    /\ UNCHANGED <<delivered, cached, records, funds, charges, blame, faults>>

\* The claim statement raises: the except branch goes on to mark the key as
\* failed, whoever holds the claim.
ClaimRaises(w) ==
    /\ At(w, "claim")
    /\ Fault
    /\ Go(w, "failed")
    /\ UNCHANGED <<delivered, processed, lock, cached, claim, records, funds, charges, blame>>

-----------------------------------------------------------------------------
\* The cost in whole credits, rounded down: what the balances are compared with.
Credits(e) == Price[e] \div 2

\* _get_user_balances: a look-up that fails leaves 0, or no wallet at all.
Balances(known) == [s \in Sources |-> IF s \in known THEN funds[s] ELSE 0]

\* _determine_billing_method
Method(e, balance) ==
    LET enough(s) == balance[s] \div 2 >= Credits(e) IN
    CASE enough("subscription") -> "subscription"
      [] ~enough("subscription") /\ enough("purchased") -> "purchased"
      [] /\ ~enough("subscription") /\ ~enough("purchased")
         /\ balance["wallet"] > 0 /\ balance["wallet"] >= 2 * Credits(e) -> "wallet"
      [] OTHER -> "payment"

NewRecord(w, total, method, status) ==
    records' = Append(records, [key |-> KeyOf(w), total |-> total, method |-> method,
                                status |-> status, paid |-> FALSE])

\* record_usage_with_external_billing: charged upstream, only recorded here.
BillExternally(w) ==
    /\ At(w, "bill") /\ work[w].event \in Upstream
    /\ NewRecord(w, Price[work[w].event], "included", "completed")
    /\ Go(w, "done")
    /\ UNCHANGED <<delivered, processed, lock, cached, claim, funds, charges, blame, faults>>

\* record_usage_and_bill when the usage is free or included, which depends on
\* the product and the subscription at that moment.
BillIncluded(w) ==
    /\ At(w, "bill") /\ work[w].event \notin Upstream
    /\ NewRecord(w, 0, "included", "completed")
    /\ Go(w, "done")
    /\ UNCHANGED <<delivered, processed, lock, cached, claim, funds, charges, blame, faults>>

\* record_usage_and_bill up to the charge.  Every balance is read, or, as a
\* fault, some are not.
Bill(w, known) ==
    LET method == Method(work[w].event, Balances(known)) IN
    /\ At(w, "bill") /\ work[w].event \notin Upstream
    /\ IF known = Sources THEN UNCHANGED faults ELSE Fault
    /\ NewRecord(w, Price[work[w].event], method, "processing")
    /\ work' = [work EXCEPT ![w].row = Len(records) + 1,
                            ![w].step = IF method = "payment" THEN "payment" ELSE "charge"]
    /\ UNCHANGED <<delivered, processed, lock, cached, claim, funds, charges, blame>>

\* No price, no quota or a failing INSERT: no record and success = False.
BillRefused(w) ==
    /\ At(w, "bill")
    /\ Go(w, "failed")
    /\ UNCHANGED <<delivered, processed, lock, cached, claim, records, funds, charges, blame,
                   faults>>

\* Mutant: the service takes the credits without looking at the balance.
CoveredAlways(w) == TRUE

\* What is asked for: the cost itself of a wallet, and of the others whole
\* credits, at least one (_convert_to_credits).
ToCharge(record) ==
    CASE record.method = "wallet" -> record.total
      [] record.method # "wallet" /\ record.total < 2 -> 2
      [] OTHER -> 2 * (record.total \div 2)

\* The service that is charged takes it, if it is there.
Row(w) == records[work[w].row]
Covered(w) == funds[Row(w).method] >= ToCharge(Row(w))

\* Mutant: the cost is charged as it is, not in whole credits.
TakeFraction(w) ==
    /\ funds' = [funds EXCEPT ![Row(w).method] = @ - Row(w).total]
    /\ records' = [records EXCEPT ![work[w].row].paid = TRUE]
    /\ charges' = [charges EXCEPT ![KeyOf(w)] = @ + 1]

TakeCredits(w) ==
    /\ funds' = [funds EXCEPT ![Row(w).method] = @ - ToCharge(Row(w))]
    /\ records' = [records EXCEPT ![work[w].row].paid = TRUE]
    /\ charges' = [charges EXCEPT ![KeyOf(w)] = @ + 1]

\* _process_subscription_credit_consumption, _process_purchased_credit_consumption
\* and _process_wallet_deduction (whose client has no consume method, so that
\* its HTTP fallback makes the only call).
Charge(w) ==
    /\ At(w, "charge")
    /\ \/ Covered(w) /\ TakeCredits(w) /\ Go(w, "paid")
       \/ ~Covered(w) /\ Go(w, "unpaid") /\ UNCHANGED <<funds, records, charges>>
    /\ UNCHANGED <<delivered, processed, lock, cached, claim, blame, faults>>

\* The call times out or fails: the credits may have been taken.
ChargeFails(w) ==
    /\ At(w, "charge")
    /\ Fault
    /\ Go(w, "unpaid")
    /\ \/ Covered(w) /\ TakeCredits(w) /\ Blame(KeyOf(w))
       \/ UNCHANGED <<funds, records, charges, blame>>
    /\ UNCHANGED <<delivered, processed, lock, cached, claim>>

\* Mutant: a refused charge is booked as completed.
OutcomeAlwaysCompleted == [paid |-> "completed", unpaid |-> "completed", payment |-> "pending"]

\* update_billing_record_status, and the answer of process_billing.  (Payment
\* is not implemented: the record is left pending and billing has failed.)
Outcome == [paid |-> "completed", unpaid |-> "failed", payment |-> "pending"]

UpdateRecord(w) ==
    /\ work[w].step \in DOMAIN Outcome
    /\ records' = [records EXCEPT ![work[w].row].status = Outcome[work[w].step]]
    /\ Go(w, IF At(w, "paid") THEN "done" ELSE "failed")
    /\ UNCHANGED <<delivered, processed, lock, cached, claim, funds, charges, blame, faults>>

\* The UPDATE raises: process_billing answers success = False.
UpdateRecordFails(w) ==
    /\ work[w].step \in DOMAIN Outcome
    /\ Fault
    /\ Go(w, "failed")
    /\ BlameIf(At(w, "paid"), KeyOf(w))
    /\ UNCHANGED <<delivered, processed, lock, cached, claim, records, funds, charges>>

-----------------------------------------------------------------------------
\* mark_event_processing_completed, mark_event_processed, and the result that
\* the guard caches before it releases the lock.
Complete(w) ==
    LET e == work[w].event IN
    /\ At(w, "done")
    /\ claim' = IF e \in Legacy THEN claim
                ELSE [claim EXCEPT ![KeyOf(w)].status = "completed"]
    /\ Remember(w, IF e \in Legacy THEN {e} ELSE {e, KeyOf(w)})
    /\ cached' = cached \cup {e}
    /\ Leave(w)
    /\ UNCHANGED <<delivered, records, funds, charges, blame, faults>>

\* The statement raises, before or after the row was written; the except
\* branch then marks the key as failed.
CompleteRaises(w) ==
    /\ At(w, "done") /\ work[w].event \notin Legacy
    /\ Fault
    /\ Go(w, "failed")
    /\ \/ UNCHANGED claim /\ BlameIf(charges[KeyOf(w)] > 0, KeyOf(w))
       \/ claim' = [claim EXCEPT ![KeyOf(w)].status = "completed"] /\ UNCHANGED blame
    /\ UNCHANGED <<delivered, processed, lock, cached, records, funds, charges>>

\* Mutant: a failure overwrites a completed claim.
FailAnyClaim(k) == claim[k].status # "absent"

\* mark_event_processing_failed: not a completed row, but anybody's.
FailsClaim(k) == claim[k].status \notin {"absent", "completed"}

\* Billing failed.  A usage event can be claimed again; an older event counts
\* as processed on this replica.
MarkFailed(w) ==
    LET e == work[w].event  k == KeyOf(w) IN
    /\ At(w, "failed")
    /\ \/ /\ e \in Legacy
          /\ Remember(w, {e})
          /\ UNCHANGED <<claim, blame>>
       \/ /\ e \notin Legacy
          /\ claim' = IF FailsClaim(k) THEN [claim EXCEPT ![k].status = "failed"] ELSE claim
          /\ BlameIf(FailsClaim(k) /\ \E v \in Replicas \ {w} : Working(v, k), k)
          /\ UNCHANGED processed
    /\ Leave(w)
    /\ UNCHANGED <<delivered, cached, records, funds, charges, faults>>

-----------------------------------------------------------------------------
\* A replica dies (or the last statement of the handler fails): its memory is
\* gone, its lock stays until it expires, its claim stays "processing".
Crash(w) ==
    /\ Fault
    /\ work' = [work EXCEPT ![w] = Idle]
    /\ processed' = [processed EXCEPT ![w] = {}]
    /\ IF At(w, "idle") THEN UNCHANGED blame
       ELSE BlameIf(charges[KeyOf(w)] > 0 /\ work[w].step \in {"paid", "unpaid", "done", "failed"},
                    KeyOf(w))
    /\ UNCHANGED <<delivered, lock, cached, claim, records, funds, charges>>

\* The lock's TTL runs out.  The claim protects usage events all the same; an
\* older event may now be handled twice.
LockExpires(e) ==
    /\ lock[e] # Nobody
    /\ lock' = [lock EXCEPT ![e] = Nobody]
    /\ BlameIf(e \in Legacy /\ work[lock[e]].event = e, Key[e])
    /\ UNCHANGED <<delivered, processed, cached, claim, records, funds, work, charges, faults>>

\* So does the TTL of a cached result.
CacheExpires(e) ==
    /\ e \in cached
    /\ cached' = cached \ {e}
    /\ BlameIf(e \in Legacy, Key[e])
    /\ UNCHANGED <<delivered, processed, lock, claim, records, funds, work, charges, faults>>

\* 300 seconds pass: the claim of a replica that died, or, as a fault, of one
\* that is still at it (the timeouts of its calls add up to less than that).
ClaimGoesStale(k) ==
    /\ claim[k].status = "processing" /\ ~claim[k].stale
    /\ claim' = [claim EXCEPT ![k].stale = TRUE]
    /\ IF \E w \in Replicas : Working(w, k) THEN Fault /\ Blame(k)
       ELSE UNCHANGED <<faults, blame>>
    /\ UNCHANGED <<delivered, processed, lock, cached, records, funds, work, charges>>

Handle(w) == \/ \E e \in Events : Deliver(w, e)
             \/ \E known \in SUBSET Sources : Bill(w, known)
             \/ Claim(w) \/ BillExternally(w) \/ BillIncluded(w) \/ BillRefused(w)
             \/ Charge(w) \/ UpdateRecord(w)
             \/ Complete(w) \/ MarkFailed(w)
Fail(w) == \/ ClaimRaises(w) \/ ChargeFails(w) \/ UpdateRecordFails(w)
           \/ CompleteRaises(w) \/ Crash(w)

Next == \/ \E w \in Replicas : Handle(w) \/ Fail(w)
        \/ \E e \in Events : LockExpires(e) \/ CacheExpires(e)
        \/ \E k \in Keys : ClaimGoesStale(k)

Spec == Init /\ [][Next]_vars

-----------------------------------------------------------------------------
\* A key is charged once, plus at most once for every fault that hit it
\* between a charge and its completed claim, or took its claim from a replica
\* that was at work: neither redeliveries on other replicas, nor producers that
\* publish again, nor expiring locks are enough.
ChargesAreExplained ==
    \A k \in Keys : /\ charges[k] <= 1 + blame[k]
                    /\ k \notin Legacy /\ blame[k] > 0 => faults > 0

\* billing_records never claims a payment that was not made, nor that a
\* payment failed that was made, unless an answer was lost.
RecordsTellTheTruth ==
    \A i \in DOMAIN records :
        records[i].method \in Sources =>
            /\ records[i].status = "completed" => records[i].paid
            /\ records[i].status = "failed" /\ records[i].paid => blame[records[i].key] > 0

PaidRows(s) == {i \in DOMAIN records : records[i].method = s /\ records[i].paid}

\* What is missing at a source is what the paid records of that source add up
\* to: no charge without its record, none twice, none at another source.
FundsAccountedFor ==
    \A s \in Sources :
        Funds[s] - funds[s] =
            SumFunctionOnSet([i \in DOMAIN records |-> ToCharge(records[i])], PaidRows(s))

\* A completed key is never handed out again: not by a late failure of another
\* replica, not by an error after the row was written, not by its age.
CompletedIsFinal ==
    [][\A k \in Keys : claim[k].status = "completed" => claim'[k].status = "completed"]_vars

-----------------------------------------------------------------------------
\* BR-USG-006 of docs/domain/billing_service.md: "Duplicate events are ignored
\* (no re-billing)".
NoRebilling == \A k \in Keys : charges[k] <= 1

\* is_event_processed (handlers.py:124): "Check if event has already been
\* processed"; a replica that skips an event relies on it being billed.
SkippedIsBilled ==
    \A w \in Replicas, e \in Usage :
        e \in processed[w] => claim[Key[e]].status = "completed"
=============================================================================
