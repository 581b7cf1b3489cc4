-------------------------- MODULE EventIdempotency --------------------------
(***************************************************************************)
(* Exactly-once processing of one event by several replicas: the handler   *)
(* handle_payment_completed of wallet_service (events/handlers.py), which  *)
(* nests                                                                   *)
(*                                                                         *)
(*   - the pod's in-memory set _processed_event_ids,                       *)
(*   - DistributedLock.guard (core/distributed_lock.py): result cache,     *)
(*     Redis lock with TTL and token, cache re-check, release,             *)
(*   - the durable claim row of wallet_repository.claim_event_processing,  *)
(*   - the deposit itself, mark_event_processing_completed / _failed.      *)
(*                                                                         *)
(* The event is delivered any number of times, to any pod, concurrently.   *)
(* Every await is an interleaving point, so each Redis or database call is *)
(* one action.  The lock key, the cache key and the claim key all contain  *)
(* the event id, so events do not interact and one is enough.              *)
(*                                                                         *)
(* Time: AgeTick ages the lock, the cache entry and the claim.  The wait   *)
(* of 0.5 s for a contended lock is short against every TTL and counted in *)
(* polls.  Faults (a crash of a pod, a cancelled coroutine, a Redis or a   *)
(* database error) are bounded by MaxFaults.                               *)
(***************************************************************************)
EXTENDS Integers

CONSTANTS
    Pods,            \* replicas of wallet_service
    Workers,         \* handler invocations that may run at the same time
    NoOwner,         \* the lock key is not set
    PodOf,           \* the pod each invocation runs in
    LockTTL,         \* WALLET_EVENT_LOCK_TTL_SECONDS (120)
    StaleAfter,      \* stale_after_seconds (300): first age at which a claim is stale
    CacheTTL,        \* WALLET_EVENT_RESULT_CACHE_TTL_SECONDS (900)
    MaxPolls,        \* wait_seconds / wait_poll_interval
    MaxProcessing,   \* the longest a handler keeps its claim, in ticks
    MaxFaults,       \* bound on the faults of a behaviour
    FaultKinds,      \* the faults that may happen
    EventKinds       \* the kinds of event delivered

ASSUME IdempotencyAssumption ==
    /\ PodOf \in [Workers -> Pods]
    /\ NoOwner \notin Workers
    /\ LockTTL \in Nat \ {0}
    /\ StaleAfter \in Nat \ {0}
    /\ CacheTTL \in Nat \ {0}
    /\ MaxPolls \in Nat
    /\ MaxProcessing \in Nat
    /\ MaxFaults \in Nat
    /\ FaultKinds \subseteq {"crash", "cancel", "redis", "db"}
    /\ EventKinds \subseteq {"valid", "incomplete", "invalid", "no_wallet"}

VARIABLES
    kind,      \* what is in the event: fixed
    lock,      \* the Redis lock key: who owns the token stored there, and its TTL
    cache,     \* the result cache entry and its TTL
    claim,     \* the claim row: processing_status, and the age of updated_at
    seen,      \* pods whose _processed_event_ids contains the event
    pc,        \* per invocation: the call it is about to make
    res,       \* per invocation: outcome._result, or the exception on its way out
    polls,     \* per invocation: polls of a contended lock
    run,       \* per invocation: ticks since it won the claim it holds, else 0
    deposits,  \* how often the wallet was credited
    credited,  \* invocations that credited it and have yet to record completion
    unacked,   \* credits whose completion was never recorded, because of a fault
    faults     \* faults so far

vars == <<kind, lock, cache, claim, seen, pc, res, polls, run, deposits, credited,
          unacked, faults>>

\* The state that lives in Redis or PostgreSQL.
stores == <<lock, cache, claim>>

ghosts == <<deposits, credited, unacked>>

HandlerSteps ==
    {"idle", "cache_get", "acquire", "contended", "recheck", "drop", "claim",
     "work", "mark", "mark_failed", "store", "unlock", "mark_failed_late"}

IdempotencyTypeOK ==
    /\ kind \in {"valid", "incomplete", "invalid", "no_wallet"}
    /\ lock \in [owner : Workers \cup {NoOwner}, ttl : 0 .. LockTTL]
    /\ cache \in [val : {"none", "deposited", "skipped"}, ttl : 0 .. CacheTTL]
    /\ claim \in [status : {"absent", "processing", "failed", "completed"},
                  age : 0 .. StaleAfter]
    /\ seen \subseteq Pods
    /\ pc \in [Workers -> HandlerSteps]
    /\ res \in [Workers -> {"none", "deposited", "skipped", "error"}]
    /\ polls \in [Workers -> 0 .. MaxPolls]
    /\ run \in [Workers -> 0 .. MaxProcessing]
    /\ deposits \in Nat
    /\ credited \subseteq Workers
    /\ unacked \in Nat
    /\ faults \in 0 .. MaxFaults

IdempotencyInit ==
    /\ kind \in EventKinds
    /\ lock = [owner |-> NoOwner, ttl |-> 0]
    /\ cache = [val |-> "none", ttl |-> 0]
    /\ claim = [status |-> "absent", age |-> 0]
    /\ seen = {}
    /\ pc = [w \in Workers |-> "idle"]
    /\ res = [w \in Workers |-> "none"]
    /\ polls = [w \in Workers |-> 0]
    /\ run = [w \in Workers |-> 0]
    /\ deposits = 0
    /\ credited = {}
    /\ unacked = 0
    /\ faults = 0

-----------------------------------------------------------------------------
Goto(w, step) == pc' = [pc EXCEPT ![w] = step]

EndCall(w) ==
    /\ pc' = [pc EXCEPT ![w] = "idle"]
    /\ res' = [res EXCEPT ![w] = "none"]
    /\ polls' = [polls EXCEPT ![w] = 0]
    /\ run' = [run EXCEPT ![w] = 0]

\* The invocations in W end without recording what they did.
Abandon(W) ==
    /\ unacked' = IF W \cap credited = {} THEN unacked ELSE unacked + 1
    /\ credited' = credited \ W
    /\ UNCHANGED deposits

Fault(k) == k \in FaultKinds /\ faults < MaxFaults /\ faults' = faults + 1

\* w won the claim and has not yet given up its right to settle the row.
Holding(w) == \/ pc[w] \in {"work", "mark", "mark_failed", "mark_failed_late"}
              \/ pc[w] = "unlock" /\ res[w] = "error"

-----------------------------------------------------------------------------
(* Delivery and DistributedLock.guard up to its yield.                     *)

\* The consumer loop calls the handler; a pod that has the event in its
\* in-memory set returns at once.
Deliver(w) ==
    /\ pc[w] = "idle"
    /\ PodOf[w] \notin seen
    /\ Goto(w, "cache_get")
    /\ UNCHANGED <<kind, stores, seen, res, polls, run, ghosts, faults>>

\* result_cache.get hits: the handler marks the event processed and returns.
CacheHit(w) ==
    /\ pc[w] \in {"cache_get", "contended"}
    /\ cache.val # "none"
    /\ seen' = seen \cup {PodOf[w]}
    /\ EndCall(w)
    /\ UNCHANGED <<kind, stores, ghosts, faults>>

\* result_cache.get misses, or fails (which counts as a miss).
CacheMiss(w) ==
    /\ pc[w] = "cache_get"
    /\ \/ cache.val = "none" /\ UNCHANGED faults
       \/ Fault("redis")
    /\ Goto(w, "acquire")
    /\ UNCHANGED <<kind, stores, seen, res, polls, run, ghosts>>

\* acquire: SET key token NX EX ttl.
Acquire(w) ==
    /\ pc[w] = "acquire"
    /\ IF lock.owner = NoOwner
       THEN /\ lock' = [owner |-> w, ttl |-> LockTTL]
            /\ Goto(w, "recheck")
       ELSE /\ Goto(w, "contended")
            /\ UNCHANGED lock
    /\ UNCHANGED <<kind, cache, claim, seen, res, polls, run, ghosts, faults>>

\* SET raises DistributedLockError: the handler aborts.  The key may have been
\* written before the reply was lost; nobody knows its token then.
AcquireFails(w) ==
    /\ pc[w] = "acquire"
    /\ Fault("redis")
    /\ lock' \in {lock} \cup
          (IF lock.owner = NoOwner THEN {[owner |-> w, ttl |-> LockTTL]} ELSE {})
    /\ EndCall(w)
    /\ UNCHANGED <<kind, cache, claim, seen, ghosts>>

\* Mutant: the deadline is computed anew on every poll.
ContendedNewDeadline(w) ==
    /\ pc[w] = "contended"
    /\ cache.val = "none"
    /\ Goto(w, "acquire")
    /\ UNCHANGED <<kind, stores, seen, res, polls, run, ghosts, faults>>

\* Contended and not in the cache: poll again, or give up at the deadline.
Contended(w) ==
    /\ pc[w] = "contended"
    /\ \/ cache.val = "none" /\ UNCHANGED faults
       \/ Fault("redis")
    /\ IF polls[w] < MaxPolls
       THEN /\ Goto(w, "acquire")
            /\ polls' = [polls EXCEPT ![w] = @ + 1]
            /\ UNCHANGED <<res, run>>
       ELSE EndCall(w)
    /\ UNCHANGED <<kind, stores, seen, ghosts>>

\* The cache is read once more under the lock.
Recheck(w) ==
    /\ pc[w] = "recheck"
    /\ \/ cache.val # "none" /\ Goto(w, "drop") /\ UNCHANGED faults
       \/ cache.val = "none" /\ Goto(w, "claim") /\ UNCHANGED faults
       \/ Fault("redis") /\ Goto(w, "claim")
    /\ UNCHANGED <<kind, stores, seen, res, polls, run, ghosts>>

-----------------------------------------------------------------------------
(* The durable claim.                                                      *)

\* Mutant: the reclaim does not exclude completed rows.
ClaimableCompleted == claim.status # "processing" \/ claim.age >= StaleAfter

\* Mutant: the reclaim does not ask whether the row is stale.
ClaimableNotStale == claim.status # "completed"

\* INSERT ... ON CONFLICT DO NOTHING, else UPDATE of a failed or stale row.
Claimable == \/ claim.status = "absent"
             \/ claim.status = "failed"
             \/ claim.status = "processing" /\ claim.age >= StaleAfter

\* claim_event_processing is won ...
ClaimWon(w) ==
    /\ pc[w] = "claim"
    /\ Claimable
    /\ claim' = [status |-> "processing", age |-> 0]
    /\ Goto(w, "work")
    /\ UNCHANGED <<kind, lock, cache, seen, res, polls, run, ghosts, faults>>

\* ... or lost, or raises (possibly after the row was written): in the last two
\* cases the handler records "already_claimed" as the result and returns.
ClaimLost(w) ==
    /\ pc[w] = "claim"
    /\ \/ ~Claimable /\ UNCHANGED <<claim, faults>>
       \/ /\ Fault("db")
          /\ \/ UNCHANGED claim
             \/ Claimable /\ claim' = [status |-> "processing", age |-> 0]
    /\ res' = [res EXCEPT ![w] = "skipped"]
    /\ Goto(w, "store")
    /\ UNCHANGED <<kind, lock, cache, seen, polls, run, ghosts>>

-----------------------------------------------------------------------------
(* The body of handle_payment_completed under lock and claim.              *)

\* The wallet is found and credited.
Deposit(w) ==
    /\ pc[w] = "work"
    /\ kind = "valid"
    /\ deposits' = deposits + 1
    /\ credited' = credited \cup {w}
    /\ res' = [res EXCEPT ![w] = "deposited"]
    /\ seen' = seen \cup {PodOf[w]}
    /\ Goto(w, "mark")
    /\ UNCHANGED <<kind, stores, polls, run, unacked, faults>>

\* A database error.  get_user_wallets returns [] (the handler sees no wallet)
\* and wallet_service.deposit returns success=False, which is not looked at:
\* either way the handler goes on as if the work were done.
DepositSwallowed(w) ==
    /\ pc[w] = "work"
    /\ kind = "valid"
    /\ Fault("db")
    /\ \E r \in {"deposited", "skipped"} : res' = [res EXCEPT ![w] = r]
    /\ seen' = seen \cup {PodOf[w]}
    /\ Goto(w, "mark")
    /\ UNCHANGED <<kind, stores, polls, run, ghosts>>

\* The user has no wallet: skipped, and completed.
NoWallet(w) ==
    /\ pc[w] = "work"
    /\ kind = "no_wallet"
    /\ res' = [res EXCEPT ![w] = "skipped"]
    /\ seen' = seen \cup {PodOf[w]}
    /\ Goto(w, "mark")
    /\ UNCHANGED <<kind, stores, polls, run, ghosts, faults>>

\* user_id or amount is missing: marked failed, nothing cached.
Incomplete(w) ==
    /\ pc[w] = "work"
    /\ kind = "incomplete"
    /\ Goto(w, "mark_failed")
    /\ UNCHANGED <<kind, stores, seen, res, polls, run, ghosts, faults>>

\* Decimal() or DepositRequest rejects the amount: the exception leaves the
\* guard, which releases the lock, and the row is marked failed after that.
Invalid(w) ==
    /\ pc[w] = "work"
    /\ kind = "invalid"
    /\ res' = [res EXCEPT ![w] = "error"]
    /\ Goto(w, "unlock")
    /\ UNCHANGED <<kind, stores, seen, polls, run, ghosts, faults>>

\* mark_event_processing_completed: unconditional; an error is only logged.
MarkCompleted(w) ==
    /\ pc[w] = "mark"
    /\ \/ /\ claim' = [status |-> "completed", age |-> 0]
          /\ credited' = credited \ {w}
          /\ UNCHANGED <<deposits, unacked, faults>>
       \/ /\ Fault("db")
          /\ Abandon({w})
          /\ UNCHANGED claim
    /\ run' = [run EXCEPT ![w] = 0]
    /\ Goto(w, "store")
    /\ UNCHANGED <<kind, lock, cache, seen, res, polls>>

\* mark_event_processing_failed never reopens a completed row.
Failed == IF claim.status = "completed" THEN claim
          ELSE [status |-> "failed", age |-> 0]

MarkFailed(w) ==
    /\ pc[w] \in {"mark_failed", "mark_failed_late"}
    /\ \/ claim' = Failed /\ UNCHANGED faults
       \/ Fault("db") /\ UNCHANGED claim
    /\ IF pc[w] = "mark_failed"
       THEN /\ Goto(w, "unlock")
            /\ run' = [run EXCEPT ![w] = 0]
            /\ UNCHANGED <<res, polls>>
       ELSE EndCall(w)
    /\ UNCHANGED <<kind, lock, cache, seen, ghosts>>

-----------------------------------------------------------------------------
(* DistributedLock.guard after its yield.                                  *)

\* The result is cached before the lock is released; an error is only logged.
Store(w) ==
    /\ pc[w] = "store"
    /\ \/ cache' = [val |-> res[w], ttl |-> CacheTTL] /\ UNCHANGED faults
       \/ Fault("redis") /\ UNCHANGED cache
    /\ Goto(w, "unlock")
    /\ UNCHANGED <<kind, lock, claim, seen, res, polls, run, ghosts>>

\* Mutant: a plain DEL instead of the Lua compare-and-delete.
ReleaseAny(w) == [owner |-> NoOwner, ttl |-> 0]

\* _RELEASE_SCRIPT: delete the key only while it still holds our token.
Release(w) == IF lock.owner = w THEN [owner |-> NoOwner, ttl |-> 0] ELSE lock

\* release() in the finally clause; on a Redis error the TTL has to free it.
Unlock(w) ==
    /\ pc[w] = "unlock"
    /\ \/ lock' = Release(w) /\ UNCHANGED faults
       \/ Fault("redis") /\ UNCHANGED lock
    /\ IF res[w] = "error"
       THEN Goto(w, "mark_failed_late") /\ UNCHANGED <<res, polls, run>>
       ELSE EndCall(w)
    /\ UNCHANGED <<kind, cache, claim, seen, ghosts>>

\* The release after a cache hit under the lock; the handler then returns.
DropLock(w) ==
    /\ pc[w] = "drop"
    /\ \/ lock' = Release(w) /\ UNCHANGED faults
       \/ Fault("redis") /\ UNCHANGED lock
    /\ seen' = seen \cup {PodOf[w]}
    /\ EndCall(w)
    /\ UNCHANGED <<kind, cache, claim, ghosts>>

-----------------------------------------------------------------------------
(* The environment.                                                        *)

\* The coroutine is cancelled inside the guard (NATSEventBus.close): neither
\* set_result nor "except Exception" sees it, only the release runs.
Cancel(w) ==
    /\ pc[w] \in {"claim", "work", "mark", "mark_failed", "store"}
    /\ Fault("cancel")
    /\ Abandon({w})
    /\ res' = [res EXCEPT ![w] = "none"]
    /\ run' = [run EXCEPT ![w] = 0]
    /\ Goto(w, "unlock")
    /\ UNCHANGED <<kind, stores, seen, polls>>

\* A pod dies with all its invocations and restarts with an empty memory.
Crash(p) ==
    LET mine == {w \in Workers : PodOf[w] = p} IN
    /\ Fault("crash")
    /\ Abandon(mine)
    /\ seen' = seen \ {p}
    /\ pc' = [w \in Workers |-> IF w \in mine THEN "idle" ELSE pc[w]]
    /\ res' = [w \in Workers |-> IF w \in mine THEN "none" ELSE res[w]]
    /\ polls' = [w \in Workers |-> IF w \in mine THEN 0 ELSE polls[w]]
    /\ run' = [w \in Workers |-> IF w \in mine THEN 0 ELSE run[w]]
    /\ UNCHANGED <<kind, stores>>

\* _mark_event_processed trims the set to half of it after 10000 events; a
\* Python set has no order, so any event may be dropped.
Forget(p) ==
    /\ p \in seen
    /\ seen' = seen \ {p}
    /\ UNCHANGED <<kind, stores, pc, res, polls, run, ghosts, faults>>

\* The TTL of the lock.
Aged(l) == IF l.ttl > 1 THEN [l EXCEPT !.ttl = @ - 1]
                        ELSE [owner |-> NoOwner, ttl |-> 0]

AgeTick ==
    /\ \A w \in Workers : Holding(w) => run[w] < MaxProcessing
    /\ lock' = Aged(lock)
    /\ cache' = IF cache.ttl > 1 THEN [cache EXCEPT !.ttl = @ - 1]
                                 ELSE [val |-> "none", ttl |-> 0]
    /\ claim' = IF claim.status = "processing" /\ claim.age < StaleAfter
                THEN [claim EXCEPT !.age = @ + 1] ELSE claim
    /\ run' = [w \in Workers |-> IF Holding(w) THEN run[w] + 1 ELSE run[w]]
    /\ UNCHANGED <<kind, seen, pc, res, polls, ghosts, faults>>

-----------------------------------------------------------------------------
\* The next step of a running invocation.
Step(w) == \/ CacheHit(w) \/ CacheMiss(w) \/ Acquire(w) \/ AcquireFails(w)
           \/ Contended(w) \/ Recheck(w) \/ ClaimWon(w) \/ ClaimLost(w)
           \/ Deposit(w) \/ DepositSwallowed(w) \/ NoWallet(w)
           \/ Incomplete(w) \/ Invalid(w)
           \/ MarkCompleted(w) \/ MarkFailed(w)
           \/ Store(w) \/ Unlock(w) \/ DropLock(w)

IdempotencyNext ==
    \/ \E w \in Workers : Deliver(w) \/ Step(w) \/ Cancel(w)
    \/ \E p \in Pods : Crash(p) \/ Forget(p)
    \/ AgeTick

IdempotencySpec == IdempotencyInit /\ [][IdempotencyNext]_vars

\* Coroutines are scheduled, time passes, and NATS keeps redelivering.
IdempotencyFairness ==
    /\ WF_vars(AgeTick)
    /\ \A w \in Workers : WF_vars(Step(w)) /\ WF_vars(Deliver(w))

FairIdempotencySpec == IdempotencySpec /\ IdempotencyFairness

-----------------------------------------------------------------------------
\* A handler that keeps its claim for less than stale_after_seconds is the only
\* one that may run the work or settle the row, even when its lock has expired
\* meanwhile and whatever faults hit Redis, the database and the pods.
WorkExclusive ==
    \A v, w \in Workers : Holding(v) /\ Holding(w) => v = w

\* At most one credit per event, but for those whose completion a fault kept
\* from being recorded: each of these allows one more.
DuplicatesExplained == deposits <= 1 + unacked

\* The row and its holder behave as the abstract claim of module EventClaim:
\* no second grant while somebody holds it, only the holder settles it.
Holder == IF \E w \in Workers : Holding(w)
          THEN CHOOSE w \in Workers : Holding(w) ELSE NoOwner

Claim == INSTANCE EventClaim WITH status <- claim.status, holder <- Holder

ImplementsClaim == Claim!Spec

\* A completed claim is final (mark_event_processing_failed and the reclaim
\* both exclude it) and the wallet is not credited after it.
CompletedIsFinal ==
    [][claim.status = "completed" =>
         claim'.status = "completed" /\ deposits' = deposits]_vars

\* The token protects a live lock: before its TTL runs out it only disappears
\* in a step of its owner, never by the late release of an earlier holder.
OnlyOwnerReleases ==
    [][\A w \in Workers :
         lock.owner = w /\ lock.ttl > 1 /\ lock'.owner # w => pc'[w] # pc[w]]_vars

\* Every invocation returns: contention is bounded by the wait deadline and no
\* error path leaves the handler stuck.
HandlerReturns == \A w \in Workers : (pc[w] # "idle") ~> (pc[w] = "idle")

\* events/handlers.py:14-20: "A worker that crashes between a successful DB
\* commit and the lock release is therefore safe".
CreditedAtMostOnce == deposits <= 1

\* wallet_repository.py:110-112: a quiet claim "is reclaimed in place so a
\* crashed processor cannot wedge the row indefinitely".
CrashedClaimReclaimed == (claim.status = "processing") ~> (claim.status # "processing")

\* distributed_lock.py, LockOutcome: a cached result "means the work was
\* already done by an earlier attempt".
CachedMeansDone == cache.val = "deposited" => deposits > 0

=============================================================================
