--------------------------- MODULE CircuitBreaker ---------------------------
(***************************************************************************)
(* The per-service circuit breaker of core/circuit_breaker.py as it is     *)
(* driven by BaseServiceClient._request (core/service_client_base.py).     *)
(*                                                                         *)
(* Several coroutines of one asyncio process share a breaker.  check() and *)
(* record_*() never await, so each is one atomic step; the only            *)
(* interleaving point is the awaited HTTP exchange between the two.        *)
(*                                                                         *)
(* Abstractions:                                                           *)
(*   - _opened_at is kept as the time elapsed since it was set, clipped at *)
(*     recovery_timeout (the code only asks whether elapsed >= timeout),   *)
(*     and NotOpened stands for None;                                      *)
(*   - _failure_count is clipped at failure_threshold (the code only asks  *)
(*     whether it has reached it);                                         *)
(*   - _success_count is write-only metrics and is left out.               *)
(***************************************************************************)
EXTENDS Integers, FiniteSets

CONSTANTS
    Callers,              \* coroutines sharing one client
    failure_threshold,    \* constructor arguments of CircuitBreaker
    recovery_timeout,     \* in ticks of the model's clock
    half_open_max_calls

ASSUME BreakerAssumption ==
    /\ failure_threshold \in Nat \ {0}
    /\ recovery_timeout \in Nat \ {0}
    /\ half_open_max_calls \in Nat \ {0}

VARIABLES
    cb,        \* the CircuitBreaker object
    attempt    \* per caller: no request, or an admitted request awaiting its answer

breakerVars == <<cb, attempt>>

NotOpened == -1

CircuitState == {"closed", "open", "half_open"}

Breaker == [state : CircuitState,
            failure_count : 0 .. failure_threshold,
            elapsed : NotOpened .. recovery_timeout,
            half_open_calls : 0 .. half_open_max_calls]

\* "normal" and "probe" say in which state check() admitted the request.
CallState == {"idle", "normal", "probe"}

BreakerTypeOK ==
    /\ cb \in Breaker
    /\ attempt \in [Callers -> CallState]

BreakerInit ==
    /\ cb = [state |-> "closed", failure_count |-> 0,
             elapsed |-> NotOpened, half_open_calls |-> 0]
    /\ attempt = [c \in Callers |-> "idle"]

-----------------------------------------------------------------------------
\* Mutant: the lazy OPEN -> HALF_OPEN transition is missing.
RefreshNever(b) == b

\* The state property: reading it turns an expired OPEN into HALF_OPEN.
Refresh(b) ==
    IF b.state = "open" /\ b.elapsed # NotOpened /\ b.elapsed >= recovery_timeout
    THEN [b EXCEPT !.state = "half_open", !.half_open_calls = 0]
    ELSE b

\* check() lets the request through.
Admits(b) == \/ b.state = "closed"
             \/ b.state = "half_open" /\ b.half_open_calls < half_open_max_calls

\* Mutant: a success does not reset the failure count.
RecordSuccessKeepsCount(b) ==
    [b EXCEPT !.state = "closed", !.elapsed = NotOpened, !.half_open_calls = 0]

\* record_success() closes the circuit whatever its state is.
RecordSuccess(b) ==
    [b EXCEPT !.state = "closed", !.failure_count = 0,
              !.elapsed = NotOpened, !.half_open_calls = 0]

\* record_failure(): reopen from half-open, or open at the threshold.
RecordFailure(b) ==
    LET count == IF b.failure_count < failure_threshold
                 THEN b.failure_count + 1 ELSE failure_threshold
        r     == [Refresh(b) EXCEPT !.failure_count = count]
    IN  IF r.state = "half_open"
        THEN [r EXCEPT !.state = "open", !.elapsed = 0, !.half_open_calls = 0]
        ELSE IF count >= failure_threshold
             THEN [r EXCEPT !.state = "open", !.elapsed = 0]
             ELSE r

-----------------------------------------------------------------------------
\* _request up to its await: check() admits the call ...
StartRequest(c) ==
    LET b == Refresh(cb) IN
    /\ attempt[c] = "idle"
    /\ Admits(b)
    /\ IF b.state = "half_open"
       THEN /\ cb' = [b EXCEPT !.half_open_calls = @ + 1]
            /\ attempt' = [attempt EXCEPT ![c] = "probe"]
       ELSE /\ cb' = b
            /\ attempt' = [attempt EXCEPT ![c] = "normal"]

\* ... or metrics()/state is read, which may also move OPEN to HALF_OPEN.
ReadState ==
    /\ cb' = Refresh(cb)
    /\ UNCHANGED attempt

\* The response arrives with a status below 500.
FinishSuccess(c) ==
    /\ attempt[c] # "idle"
    /\ cb' = RecordSuccess(cb)
    /\ attempt' = [attempt EXCEPT ![c] = "idle"]

\* A status of 500 or more, a ConnectError or a TimeoutException.
FinishFailure(c) ==
    /\ attempt[c] # "idle"
    /\ cb' = RecordFailure(cb)
    /\ attempt' = [attempt EXCEPT ![c] = "idle"]

\* Any other exception out of client.request (a dropped connection while
\* reading, cancellation of the coroutine): nothing is recorded.
FinishUnrecorded(c) ==
    /\ attempt[c] # "idle"
    /\ attempt' = [attempt EXCEPT ![c] = "idle"]
    /\ UNCHANGED cb

\* time.monotonic() advances.
ClockTick ==
    /\ cb.elapsed # NotOpened
    /\ cb.elapsed < recovery_timeout
    /\ cb' = [cb EXCEPT !.elapsed = @ + 1]
    /\ UNCHANGED attempt

FinishRequest(c) == FinishSuccess(c) \/ FinishFailure(c) \/ FinishUnrecorded(c)

BreakerNext ==
    \/ \E c \in Callers : \/ StartRequest(c)
                          \/ FinishSuccess(c)
                          \/ FinishFailure(c)
                          \/ FinishUnrecorded(c)
    \/ ReadState
    \/ ClockTick

BreakerSpec == BreakerInit /\ [][BreakerNext]_breakerVars

\* Time passes, callers keep calling, and httpx's timeout bounds every call.
BreakerFairness ==
    /\ WF_breakerVars(ClockTick)
    /\ \A c \in Callers : /\ WF_breakerVars(StartRequest(c))
                          /\ WF_breakerVars(FinishRequest(c))

FairBreakerSpec == BreakerSpec /\ BreakerFairness

-----------------------------------------------------------------------------
\* A CLOSED circuit has not accumulated a threshold's worth of failures, and
\* any other circuit carries the timestamp from which its recovery is counted
\* (check() subtracts it, circuit_breaker.py:96): otherwise the breaker would
\* either fail to trip or stay OPEN for ever.
TripAndRecoverySound ==
    IF cb.state = "closed"
    THEN cb.failure_count < failure_threshold /\ cb.elapsed = NotOpened
    ELSE cb.elapsed # NotOpened

\* Fail-fast: while the recovery timeout of an OPEN circuit runs, no request
\* is admitted, whatever late answers of earlier requests do to the breaker
\* in that step.
OpenFailsFast ==
    [][\A c \in Callers :
         (cb.state = "open" /\ cb.elapsed < recovery_timeout /\ attempt[c] = "idle")
             => attempt'[c] = "idle"]_breakerVars

\* An OPEN circuit does not stay OPEN: late failures of requests admitted
\* before it opened push _opened_at forward, but only finitely often.
OpenEventuallyProbes == (cb.state = "open") ~> (cb.state # "open")

\* What the module docstring says of the transitions (circuit_breaker.py:4):
\* an OPEN circuit only closes through a HALF_OPEN probe.
ClosesOnlyThroughProbe ==
    [][cb.state = "open" => cb'.state # "closed"]_breakerVars

\* What the same line says of HALF_OPEN: the probe decides, so the state is
\* left again.
HalfOpenResolves == (cb.state = "half_open") ~> (cb.state # "half_open")
=============================================================================
