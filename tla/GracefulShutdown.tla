-------------------------- MODULE GracefulShutdown --------------------------
(***************************************************************************)
(* One process of a microservice from start to exit: GracefulShutdown and  *)
(* its middleware (core/graceful_shutdown.py), driven by a lifespan that   *)
(* calls initiate_shutdown, wait_for_drain and run_cleanups one by one, or *)
(* shutdown_with_timeout, like project_service.  (Most services run their  *)
(* own cleanups in place of run_cleanups, and never give the manager their *)
(* Consul registry: the deregistration is one of those cleanups.)          *)
(*                                                                         *)
(* Everything runs on one event loop, except the timer thread that         *)
(* _handle_signal starts.  A cleanup that blocks takes the loop with it,   *)
(* and so does the deregistration, a synchronous call to Consul that need  *)
(* never return; a timer that was started still fires.                     *)
(*                                                                         *)
(* Time is counted in ticks, one per poll of wait_for_drain: a tick is the *)
(* longest the loop may sleep, and it may wake late.  When the server      *)
(* leaves the lifespan (a signal it sees, a reload, an error) and what it  *)
(* does afterwards is external.  Health requests touch no state and are    *)
(* left out.                                                               *)
(***************************************************************************)
EXTENDS Integers, FiniteSets

CONSTANTS
    Requests,        \* requests that are not for a health path
    Cleanups,        \* number of cleanups of the lifespan
    Grace,           \* grace_period, 30 s
    ForceExit,       \* _FORCE_EXIT_TIMEOUT, 10 s
    CleanupTimeout,  \* _CLEANUP_TIMEOUT, 5 s
    HardTimeout,     \* timeout of shutdown_with_timeout, 10 s
    MaxStarts        \* bound: runs of the lifespan in one process

ASSUME ShutdownAssumption ==
    /\ IsFiniteSet(Requests)
    /\ Cleanups \in Nat /\ MaxStarts \in Nat \ {0}
    /\ {Grace, ForceExit, CleanupTimeout, HardTimeout} \subseteq Nat \ {0}

Off == -1            \* a timer that is not running

VARIABLES
    bounded,     \* the lifespan uses shutdown_with_timeout
    phase,       \* where the lifespan is
    shutting,    \* _shutting_down
    inFlight,    \* _in_flight
    request,     \* the state of each request
    registry,    \* the manager's Consul registry: of this run of the lifespan?
    calling,     \* who waits in deregister(), with the event loop
    listed,      \* Consul routes traffic to this process
    tried,       \* cleanups that were run, in order
    elapsed,     \* elapsed of wait_for_drain
    woken,       \* its sleep is over
    patience,    \* ticks until the running cleanup times out
    hard,        \* ticks until shutdown_with_timeout gives up
    timer,       \* ticks until the first timer thread ends the process
    signalled,   \* a signal was handled (a history variable)
    outlived,    \* requests that were running when the lifespan started again
    strays,      \* those of them whose end took a request of this run from the count
    missed,      \* why Consul may not know: a failed call, an early signal
    cut,         \* the hard timeout cut the shutdown short
    starts       \* runs of the lifespan so far

shutdownVars ==
    <<bounded, phase, shutting, inFlight, request, registry, calling, listed, tried, elapsed,
      woken, patience, hard, timer, signalled, outlived, strays, missed, cut, starts>>
drain == <<tried, elapsed, woken, patience, hard, cut>>
consul == <<registry, calling, listed, missed>>
history == <<bounded, outlived, starts>>

Phases == {"starting", "serving", "draining", "cleaning", "stuck", "closed", "exited"}

\* A request is "running" until call_next has returned its response; then its
\* body may still be "sending", and background tasks follow, all uncounted.
RequestStates == {"new", "running", "sending", "done", "rejected"}
Running == {r \in Requests : request[r] = "running"}

\* The running requests that arrived in this run of the lifespan.
Own == Running \ outlived

ShutdownTypeOK ==
    /\ bounded \in BOOLEAN /\ shutting \in BOOLEAN
    /\ listed \in BOOLEAN /\ woken \in BOOLEAN /\ signalled \in BOOLEAN /\ cut \in BOOLEAN
    /\ registry \in {"none", "earlier", "current"}
    /\ calling \in {"none", "signal", "lifespan"}
    /\ phase \in Phases
    /\ inFlight \in Nat
    /\ request \in [Requests -> RequestStates]
    /\ tried \in 0..Cleanups
    /\ elapsed \in 0..Grace
    /\ patience \in 0..CleanupTimeout
    /\ hard \in Off..HardTimeout
    /\ timer \in Off..ForceExit
    /\ outlived \subseteq Requests /\ strays \subseteq Requests
    /\ missed \subseteq {"failed", "early"}
    /\ starts \in 0..MaxStarts

\* The process has entered the lifespan; install_signal_handlers is done.
ShutdownInit ==
    /\ bounded \in BOOLEAN
    /\ phase = "starting"
    /\ shutting = FALSE /\ inFlight = 0
    /\ request = [r \in Requests |-> "new"]
    /\ registry = "none" /\ calling = "none" /\ listed = FALSE
    /\ tried = 0 /\ elapsed = 0 /\ woken = TRUE /\ patience = CleanupTimeout /\ hard = Off
    /\ timer = Off /\ signalled = FALSE
    /\ outlived = {} /\ strays = {} /\ missed = {} /\ cut = FALSE /\ starts = 1

-----------------------------------------------------------------------------
\* Callbacks, requests and coroutines run only while the loop does.
LoopRuns == phase \notin {"stuck", "exited"} /\ calling = "none"

\* The rest of the startup: register with Consul, perhaps set_consul_registry,
\* yield.  The registration may fail, or be switched off; most services never
\* call set_consul_registry, and the others may raise before it.
Start ==
    /\ phase = "starting" /\ LoopRuns
    /\ phase' = "serving"
    /\ \/ /\ listed' = TRUE /\ registry' = "current"
          /\ missed' = IF shutting THEN missed \cup {"early"} ELSE missed
       \/ listed' = TRUE /\ UNCHANGED <<registry, missed>>
       \/ UNCHANGED <<registry, listed, missed>>
    /\ UNCHANGED <<shutting, inFlight, request, calling, drain, timer, signalled, strays,
                   history>>

\* Mutant: no timer is started.
ArmedNever == Off

\* threading.Timer; a later signal's timer comes too late to matter.
Armed == IF timer = Off THEN ForceExit ELSE timer

\* What follows initiate_shutdown in _handle_signal and in the lifespan, which
\* looks at the counter next.
AfterSignal ==
    /\ timer' = Armed
    /\ UNCHANGED <<phase, drain>>
AfterStop ==
    /\ phase' = "draining"
    /\ tried' = 0 /\ elapsed' = 0 /\ woken' = TRUE /\ cut' = FALSE
    /\ hard' = IF bounded THEN HardTimeout ELSE Off
    /\ UNCHANGED <<patience, timer>>

\* Mutant: the flag goes up before Consul has answered.
InitiateFlagFirst(who, After) ==
    IF ~shutting /\ registry # "none"
    THEN calling' = who /\ shutting' = TRUE /\ UNCHANGED <<phase, drain, timer>>
    ELSE shutting' = TRUE /\ After /\ UNCHANGED calling

\* initiate_shutdown: the first time it asks Consul first, and waits for the
\* answer.
InitiateShutdown(who, After) ==
    IF ~shutting /\ registry # "none"
    THEN /\ calling' = who
         /\ UNCHANGED <<shutting, phase, drain, timer>>
    ELSE shutting' = TRUE /\ After /\ UNCHANGED calling

\* _handle_signal.
Signal ==
    /\ LoopRuns
    /\ InitiateShutdown("signal", AfterSignal)
    /\ signalled' = TRUE
    /\ UNCHANGED <<inFlight, request, registry, listed, missed, strays, history>>

\* deregister() returns, or raises, which is logged.  A registry of an earlier
\* run may or may not name the instance that is listed now.
Deregistered ==
    /\ calling # "none" /\ phase # "exited"
    /\ calling' = "none"
    /\ shutting' = TRUE
    /\ \/ listed' = FALSE /\ UNCHANGED missed
       \/ registry = "earlier" /\ UNCHANGED <<listed, missed>>
       \/ missed' = missed \cup {"failed"} /\ UNCHANGED listed
    /\ IF calling = "signal" THEN AfterSignal ELSE AfterStop
    /\ UNCHANGED <<inFlight, request, registry, signalled, strays, history>>

\* The middleware's dispatch: rejected with 503, or tracked.
Arrive(r) ==
    /\ phase \in {"serving", "draining", "cleaning"} /\ LoopRuns
    /\ request[r] = "new"
    /\ \/ /\ shutting
          /\ request' = [request EXCEPT ![r] = "rejected"]
          /\ UNCHANGED inFlight
       \/ /\ ~shutting
          /\ request' = [request EXCEPT ![r] = "running"]
          /\ inFlight' = inFlight + 1
    /\ UNCHANGED <<phase, shutting, consul, drain, timer, signalled, strays, history>>

\* Mutant: it only counts answers, not exceptions.
CountdownSometimes == inFlight' \in {inFlight, IF inFlight > 0 THEN inFlight - 1 ELSE 0}

\* track_request_end
Countdown == inFlight' = IF inFlight > 0 THEN inFlight - 1 ELSE 0

\* call_next returns a response, whose body may be still to come, or raises.
Finish(r) ==
    /\ LoopRuns
    /\ request[r] = "running"
    /\ \E state \in {"sending", "done"} : request' = [request EXCEPT ![r] = state]
    /\ Countdown
    /\ strays' = CASE Own \subseteq {r} -> {}
                   [] r \in outlived /\ inFlight > 0 -> strays \cup {r}
                   [] OTHER -> strays
    /\ UNCHANGED <<phase, shutting, consul, drain, timer, signalled, history>>

\* The body is sent and the background tasks are over.
Sent(r) ==
    /\ LoopRuns
    /\ request[r] = "sending"
    /\ request' = [request EXCEPT ![r] = "done"]
    /\ UNCHANGED <<phase, shutting, inFlight, consul, drain, timer, signalled, strays, history>>

-----------------------------------------------------------------------------
\* The server leaves the lifespan.
Stop ==
    /\ phase = "serving" /\ LoopRuns
    /\ InitiateShutdown("lifespan", AfterStop)
    /\ UNCHANGED <<inFlight, request, registry, listed, missed, signalled, strays, history>>

\* Mutants: the grace period is not looked at; the counter is read once.
WaitsForever == inFlight > 0
WaitsNever == FALSE

\* The condition of the loop of wait_for_drain.
Waits == inFlight > 0 /\ elapsed < Grace

Poll ==
    /\ phase = "draining" /\ woken
    /\ \/ /\ Waits
          /\ woken' = FALSE
          /\ UNCHANGED <<phase, elapsed, patience>>
       \/ /\ ~Waits
          /\ phase' = "cleaning"
          /\ patience' = CleanupTimeout
          /\ UNCHANGED <<elapsed, woken>>
    /\ UNCHANGED <<shutting, inFlight, request, consul, tried, hard, timer,
                   signalled, strays, cut, history>>

\* The except branches of run_cleanups swallow everything.
GoesOn(fine) == TRUE

\* A cleanup returns, raises, or is given up after its timeout.  It may be the
\* lifespan's own deregistration.
Cleanup(fine) ==
    /\ phase = "cleaning" /\ tried < Cleanups
    /\ tried' = tried + 1
    /\ patience' = CleanupTimeout
    /\ phase' = IF GoesOn(fine) THEN "cleaning" ELSE "closed"
    /\ listed' \in {listed, FALSE}
    /\ UNCHANGED <<shutting, inFlight, request, registry, calling, elapsed, woken, hard, timer,
                   signalled, strays, missed, cut, history>>

\* A cleanup that is not a coroutine, or does not await, and never returns.
CleanupBlocks ==
    /\ phase = "cleaning" /\ tried < Cleanups
    /\ phase' = "stuck"
    /\ UNCHANGED <<shutting, inFlight, request, consul, drain, timer, signalled,
                   strays, history>>

Close ==
    /\ phase = "cleaning" /\ tried = Cleanups
    /\ phase' = "closed"
    /\ UNCHANGED <<shutting, inFlight, request, consul, drain, timer, signalled,
                   strays, history>>

\* asyncio.timeout of shutdown_with_timeout: whatever is left is skipped.
HardStop ==
    /\ phase \in {"draining", "cleaning"} /\ hard = 0
    /\ phase' = "closed"
    /\ cut' = TRUE
    /\ UNCHANGED <<shutting, inFlight, request, consul, tried, elapsed, woken, patience,
                   hard, timer, signalled, strays, history>>

\* The process ends once the lifespan is over.
Exit ==
    /\ phase = "closed"
    /\ phase' = "exited"
    /\ UNCHANGED <<shutting, inFlight, request, consul, drain, timer, signalled,
                   strays, history>>

\* A reload runs the lifespan again: install_signal_handlers resets the flag
\* and the counter, whatever is still running, and leaves the timer and the
\* registry alone.  Requests of earlier runs count down what they never were in.
Reload ==
    /\ phase = "closed" /\ starts < MaxStarts
    /\ phase' = "starting"
    /\ shutting' = FALSE /\ inFlight' = 0
    /\ outlived' = outlived \cup Running /\ strays' = {}
    /\ registry' = IF registry = "none" THEN "none" ELSE "earlier"
    /\ missed' = {}
    /\ starts' = starts + 1
    /\ UNCHANGED <<bounded, request, calling, listed, drain, timer, signalled>>

\* _force_exit: os._exit(1), from a thread of its own.
ForcedExit ==
    /\ timer = 0 /\ phase # "exited"
    /\ phase' = "exited"
    /\ UNCHANGED <<shutting, inFlight, request, consul, drain, timer, signalled,
                   strays, history>>

Elapse(t) == IF t > 0 THEN t - 1 ELSE t

\* Time passes.  A timer that is due is served first.
Tick ==
    /\ phase # "exited" /\ timer # 0
    /\ hard = 0 => phase \notin {"draining", "cleaning"}
    /\ patience = 0 => phase # "cleaning"
    /\ timer' = Elapse(timer)
    /\ hard' = Elapse(hard)
    /\ patience' = IF phase = "cleaning" THEN Elapse(patience) ELSE patience
    /\ IF phase = "draining" /\ ~woken
       THEN woken' = TRUE /\ elapsed' = IF elapsed < Grace THEN elapsed + 1 ELSE elapsed
       ELSE UNCHANGED <<woken, elapsed>>
    /\ UNCHANGED <<phase, shutting, inFlight, request, consul, tried, signalled,
                   strays, cut, history>>

Handler == Poll \/ (\E fine \in BOOLEAN : Cleanup(fine)) \/ Close \/ HardStop
ShutdownNext ==
    \/ Start \/ Signal \/ Deregistered \/ Stop \/ Handler \/ CleanupBlocks \/ Exit \/ Reload
    \/ ForcedExit \/ Tick
    \/ \E r \in Requests : Arrive(r) \/ Finish(r) \/ Sent(r)

\* Time passes, the timer thread runs, and so do the coroutines of the loop.
\* Requests need not end, Consul need not answer, the server need not stop, the
\* process need not exit.
ShutdownFairness ==
    WF_shutdownVars(Tick) /\ WF_shutdownVars(ForcedExit) /\ WF_shutdownVars(Handler)

ShutdownSpec == ShutdownInit /\ [][ShutdownNext]_shutdownVars /\ ShutdownFairness

-----------------------------------------------------------------------------
\* The counter that wait_for_drain trusts is the number of requests of this run
\* of the lifespan that call_next works on, whatever arrives, fails or is
\* rejected.  It is short by at most the ends of older requests, which lived
\* through a reload and were counted down as if they were of this run; once this
\* run has no request left, it is exact again.
CountIsExact ==
    /\ inFlight <= Cardinality(Own)
    /\ Cardinality(Own) <= inFlight + Cardinality(strays)

\* When the cleanups begin, before the grace period is over, no request of this
\* run is unanswered, except for as many as ends of older requests were taken
\* for theirs; and none starts from then on: it is rejected.
CleanAfterDrain ==
    phase = "cleaning" => elapsed = Grace \/ Cardinality(Own) <= Cardinality(strays)

\* A process that rejects requests gets none routed to it, if its manager has
\* the registry of this run, unless Consul could not be told or the signal came
\* before the registration.
RejectsUnrouted == registry = "current" /\ shutting /\ listed => missed # {}

\* Every cleanup was run, in spite of those that failed, unless the hard
\* timeout cut the shutdown short.
CleanupsTried == phase = "closed" => tried = Cleanups \/ cut

\* A signal ends the process once Consul has answered the deregistration, even
\* when requests hang, a cleanup blocks the loop, the server never learns of the
\* signal or a reload comes in between.
SignalEnds == signalled /\ calling # "signal" ~> phase = "exited"

\* A shutdown that was begun comes to an end without a signal, too, although
\* requests may never end; only a blocking cleanup can prevent it.
ShutdownEnds == phase = "draining" ~> phase \in {"closed", "exited", "stuck"}

-----------------------------------------------------------------------------
\* tests/integration/k8s/manifests/auth-stub.yaml:86: "the production manager
\* waits up to ~30s for in-flight to drain".
GraceGranted ==
    [][phase = "draining" /\ phase' = "exited" => (Running = {} \/ elapsed = Grace)]_shutdownVars

\* _handle_signal: the hard exit is there "so the process never hangs during
\* shutdown"; the call to Consul comes before it.
NeverHangs == signalled ~> phase = "exited"

\* initiate_shutdown: "traffic stops being routed before we start rejecting
\* requests".  Most services never hand their registry to the manager.
UnroutedFirst == shutting /\ listed => missed # {}

\* The module's head: "in-flight request draining".  A response whose body is
\* streamed is not waited for.
BodiesDrained ==
    phase = "cleaning" => elapsed = Grace \/ \A r \in Requests : request[r] # "sending"

\* install_signal_handlers: a reload "starts fresh"; a process that serves is
\* not ended by the timer of an earlier shutdown.
ReloadStartsFresh ==
    [][(phase \in {"starting", "serving"} /\ phase' = "exited") => (shutting = TRUE)]_shutdownVars
=============================================================================
