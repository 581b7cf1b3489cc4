-------------------------- MODULE ComponentProofs --------------------------
(***************************************************************************)
(* Proofs about the components of src/core and the two services that use   *)
(* them most plainly: GracefulShutdown for every number of requests,       *)
(* cleanups and reloads and all timeouts; CircuitBreaker for every number  *)
(* of callers, threshold, timeout and probe limit; Inventory for any set   *)
(* of orders and of requests; EventIdempotency for any number of pods,     *)
(* invocations and faults and all TTLs.  The four share no variable and no *)
(* definition: each part below is about one of them.                       *)
(***************************************************************************)
EXTENDS GracefulShutdown, CircuitBreaker, Inventory, EventIdempotency,
        FiniteSetTheorems, TLAPS

-----------------------------------------------------------------------------
(* The life of a process.                                                  *)

\* What the properties rest on: once the lifespan is being left the flag is up,
\* a stray is a request of an earlier run that has ended, and a run starts without
\* a registry of its own.
Leaving == phase \in {"draining", "cleaning", "stuck", "closed"} => shutting
StraysEnded == /\ strays \subseteq outlived \ Running
               /\ \A r \in outlived : request[r] # "new"
StartsBare == phase = "starting" => registry # "current"

IInv == /\ ShutdownTypeOK /\ Leaving /\ StraysEnded /\ StartsBare
        /\ CountIsExact /\ CleanAfterDrain /\ RejectsUnrouted /\ CleanupsTried

\* The two halves of the type invariant: flags, and the rest.
Flags == /\ bounded \in BOOLEAN /\ shutting \in BOOLEAN
         /\ listed \in BOOLEAN /\ woken \in BOOLEAN /\ signalled \in BOOLEAN
         /\ cut \in BOOLEAN
Counts == /\ registry \in {"none", "earlier", "current"}
          /\ calling \in {"none", "signal", "lifespan"}
          /\ phase \in Phases
          /\ inFlight \in Nat
          /\ request \in [Requests -> RequestStates]
          /\ tried \in 0..Cleanups
          /\ elapsed \in 0..Grace
          /\ patience \in 0..CleanupTimeout
          /\ hard \in Off..HardTimeout
          /\ timer \in Off..ForceExit
          /\ outlived \subseteq Requests /\ strays \subseteq Requests
          /\ missed \subseteq {"failed", "early"}
          /\ starts \in 0..MaxStarts

LEMMA TypeParts == /\ ShutdownTypeOK <=> Flags /\ Counts
                   /\ ShutdownTypeOK' <=> Flags' /\ Counts'
  BY DEF ShutdownTypeOK, Flags, Counts

\* The timeouts, one by one.
LEMMA Timeouts ==
    /\ Grace \in Nat /\ Grace > 0 /\ ForceExit \in Nat /\ ForceExit > 0
    /\ CleanupTimeout \in Nat /\ CleanupTimeout > 0 /\ HardTimeout \in Nat /\ HardTimeout > 0
    /\ Cleanups \in Nat /\ MaxStarts \in Nat /\ MaxStarts > 0
  <1>1. {Grace, ForceExit, CleanupTimeout, HardTimeout} \subseteq Nat \ {0}
    BY ShutdownAssumption
  <1>2. /\ Grace \in Nat \ {0} /\ ForceExit \in Nat \ {0}
        /\ CleanupTimeout \in Nat \ {0} /\ HardTimeout \in Nat \ {0}
    BY <1>1
  <1>3. QED
    BY <1>2, ShutdownAssumption

\* The requests of this run, and the strays, are finitely many.
LEMMA OwnFinite ==
    ASSUME strays \subseteq Requests
    PROVE  /\ IsFiniteSet(Own) /\ Cardinality(Own) \in Nat
           /\ IsFiniteSet(strays) /\ Cardinality(strays) \in Nat
  <1>1. Own \in SUBSET Requests
    BY DEF Own, Running
  <1>2. QED
    BY <1>1, ShutdownAssumption, FS_Subset, FS_CardinalityType

\* A step that leaves the requests and their count alone keeps what is said of
\* them.
LEMMA SameRequests ==
    ASSUME IInv, UNCHANGED <<request, outlived, strays, inFlight>>
    PROVE  /\ Running' = Running /\ Own' = Own
           /\ StraysEnded' /\ CountIsExact'
           /\ Cardinality(Own') <= inFlight + Cardinality(strays')
  <1>1. Running' = Running /\ Own' = Own
    BY DEF Running, Own
  <1>2. QED
    BY <1>1 DEF IInv, StraysEnded, CountIsExact

\* The process starts with everything in order.
LEMMA InitIInv == ShutdownInit => IInv
  <1> SUFFICES ASSUME ShutdownInit PROVE IInv
    OBVIOUS
  <1>1. Own = {} /\ strays = {}
    BY DEF ShutdownInit, Running, Own
  <1>2. Cardinality(Own) = 0 /\ Cardinality(strays) = 0
    BY <1>1, FS_EmptySet
  <1>3. ShutdownTypeOK
    <2>1. Flags
      BY DEF ShutdownInit, Flags
    <2>2. Counts
      BY Timeouts DEF ShutdownInit, Counts, Phases, RequestStates, Off
    <2>3. QED
      BY <2>1, <2>2, TypeParts
  <1>4. QED
    BY <1>1, <1>2, <1>3
    DEF ShutdownInit, IInv, Leaving, StartsBare, StraysEnded, CountIsExact, CleanAfterDrain,
       RejectsUnrouted, CleanupsTried

\* What follows initiate_shutdown keeps the phase or starts the drain.
LEMMA AfterSound ==
    ASSUME ShutdownTypeOK, AfterSignal \/ AfterStop
    PROVE  /\ phase' \in Phases /\ timer' \in Off..ForceExit
           /\ tried' \in 0..Cleanups /\ elapsed' \in 0..Grace /\ woken' \in BOOLEAN
           /\ patience' \in 0..CleanupTimeout /\ hard' \in Off..HardTimeout /\ cut' \in BOOLEAN
           /\ phase' = "draining" \/ UNCHANGED <<phase, drain>>
  <1>1. CASE AfterSignal
    BY <1>1, TypeParts, Timeouts DEF AfterSignal, Armed, Off, drain, Flags, Counts
  <1>2. CASE AfterStop
    <2>1. /\ phase' = "draining" /\ tried' = 0 /\ elapsed' = 0 /\ woken' = TRUE /\ cut' = FALSE
          /\ UNCHANGED <<patience, timer>>
      BY <1>2 DEF AfterStop
    <2>2. hard' \in Off..HardTimeout
      BY <1>2, Timeouts DEF AfterStop, Off
    <2>3. patience \in 0..CleanupTimeout /\ timer \in Off..ForceExit
      BY TypeParts DEF Counts
    <2>4. 0 \in 0..Cleanups /\ 0 \in 0..Grace
      BY Timeouts
    <2>5. QED
      BY <2>1, <2>2, <2>3, <2>4 DEF Phases
  <1>3. QED
    BY <1>1, <1>2

\* A step that leaves phase and drain alone, or starts the drain, has nothing to
\* clean up.
LEMMA DrainKept ==
    ASSUME IInv, UNCHANGED <<request, outlived, strays>>,
           phase' = "draining" \/ UNCHANGED <<phase, drain>>
    PROVE  CleanAfterDrain' /\ CleanupsTried'
  <1>1. Own' = Own
    BY DEF Running, Own
  <1>2. CASE phase' = "draining"
    BY <1>2 DEF CleanAfterDrain, CleanupsTried
  <1>3. CASE UNCHANGED <<phase, drain>>
    BY <1>1, <1>3 DEF IInv, CleanAfterDrain, CleanupsTried, drain
  <1>4. QED
    BY <1>2, <1>3

\* initiate_shutdown, up to the call to Consul or to its end.
LEMMA InitiateSound ==
    ASSUME IInv, NEW who \in {"signal", "lifespan"},
           \/ InitiateShutdown(who, AfterSignal)
           \/ InitiateShutdown(who, AfterStop),
           signalled' \in BOOLEAN,
           UNCHANGED <<inFlight, request, registry, listed, missed, strays, history>>
    PROVE  IInv'
  <1>1. StraysEnded' /\ CountIsExact'
    BY SameRequests DEF history
  <1>2. CASE ~shutting /\ registry # "none"
    <2>1. calling' = who /\ UNCHANGED <<shutting, phase, drain, timer>>
      BY <1>2 DEF InitiateShutdown
    <2>2. ShutdownTypeOK'
      <3>1. Flags'
        BY <2>1, TypeParts DEF IInv, Flags, drain, history
      <3>2. Counts'
        BY <2>1, TypeParts DEF IInv, Counts, drain, history
      <3>3. QED
        BY <3>1, <3>2, TypeParts
    <2>3. CleanAfterDrain' /\ CleanupsTried'
      BY <2>1, DrainKept DEF history
    <2>4. Leaving' /\ StartsBare' /\ RejectsUnrouted'
      BY <2>1 DEF IInv, Leaving, StartsBare, RejectsUnrouted
    <2>5. QED
      BY <1>1, <2>2, <2>3, <2>4 DEF IInv
  <1>3. CASE ~(~shutting /\ registry # "none")
    <2>1. shutting' = TRUE /\ (AfterSignal \/ AfterStop) /\ UNCHANGED calling
      BY <1>3 DEF InitiateShutdown
    <2>2. /\ phase' \in Phases /\ timer' \in Off..ForceExit
          /\ tried' \in 0..Cleanups /\ elapsed' \in 0..Grace /\ woken' \in BOOLEAN
          /\ patience' \in 0..CleanupTimeout /\ hard' \in Off..HardTimeout /\ cut' \in BOOLEAN
          /\ phase' = "draining" \/ UNCHANGED <<phase, drain>>
      BY <2>1, AfterSound DEF IInv
    <2>3. ShutdownTypeOK'
      <3>1. Flags'
        BY <2>1, <2>2, TypeParts DEF IInv, Flags, history
      <3>2. Counts'
        BY <2>1, <2>2, TypeParts DEF IInv, Counts, history
      <3>3. QED
        BY <3>1, <3>2, TypeParts
    <2>4. CleanAfterDrain' /\ CleanupsTried'
      BY <2>2, DrainKept DEF history
    <2>5. Leaving' /\ StartsBare' /\ RejectsUnrouted'
      BY <1>3, <2>1, <2>2 DEF IInv, Leaving, StartsBare, RejectsUnrouted
    <2>6. QED
      BY <1>1, <2>3, <2>4, <2>5 DEF IInv
  <1>4. QED
    BY <1>2, <1>3

\* The answer of Consul, or its refusal.
LEMMA DeregisteredSound == ASSUME IInv, Deregistered PROVE IInv'
  <1>1. StraysEnded' /\ CountIsExact'
    BY SameRequests DEF Deregistered, history
  <1>2. /\ phase' \in Phases /\ timer' \in Off..ForceExit
        /\ tried' \in 0..Cleanups /\ elapsed' \in 0..Grace /\ woken' \in BOOLEAN
        /\ patience' \in 0..CleanupTimeout /\ hard' \in Off..HardTimeout /\ cut' \in BOOLEAN
        /\ phase' = "draining" \/ UNCHANGED <<phase, drain>>
    <2>1. AfterSignal \/ AfterStop
      BY DEF Deregistered
    <2>2. QED
      BY <2>1, AfterSound DEF IInv
  <1>3. listed' \in BOOLEAN /\ missed' \subseteq {"failed", "early"} /\ calling' = "none"
    BY TypeParts DEF Deregistered, IInv, Flags, Counts
  <1>4. ShutdownTypeOK'
    <2>1. Flags'
      BY <1>2, <1>3, TypeParts DEF Deregistered, IInv, Flags, history
    <2>2. Counts'
      BY <1>2, <1>3, TypeParts DEF Deregistered, IInv, Counts, history
    <2>3. QED
      BY <2>1, <2>2, TypeParts
  <1>5. CleanAfterDrain' /\ CleanupsTried'
    BY <1>2, DrainKept DEF Deregistered, history
  <1>6. Leaving' /\ StartsBare' /\ RejectsUnrouted'
    BY <1>2 DEF IInv, Deregistered, Leaving, StartsBare, RejectsUnrouted
  <1>7. QED
    BY <1>1, <1>4, <1>5, <1>6 DEF IInv

\* A request that ends, of this run or of an earlier one.
LEMMA FinishSound ==
    ASSUME IInv, NEW r \in Requests, Finish(r) PROVE IInv'
  <1> DEFINE own == Cardinality(Own)  older == Cardinality(strays)
  <1>1. /\ IsFiniteSet(Own) /\ own \in Nat /\ IsFiniteSet(strays) /\ older \in Nat
        /\ strays \subseteq Requests /\ inFlight \in Nat /\ outlived \subseteq Requests
    BY OwnFinite, TypeParts DEF IInv, Counts
  <1>2. PICK state \in {"sending", "done"} : request' = [request EXCEPT ![r] = state]
    BY DEF Finish
  <1>3. Running' = Running \ {r} /\ r \in Running /\ request' \in [Requests -> RequestStates]
    BY <1>2, TypeParts DEF IInv, Counts, Finish, Running, RequestStates
  <1>4. /\ Own' = Own \ {r} /\ (r \in Own <=> r \notin outlived)
        /\ UNCHANGED outlived
    BY <1>3 DEF Own, Finish, history
  <1>5. inFlight' = IF inFlight > 0 THEN inFlight - 1 ELSE 0
    BY DEF Finish, Countdown
  <1>6. inFlight' \in Nat
    BY <1>1, <1>5
  <1>7. strays' \subseteq Requests /\ StraysEnded'
    <2>1. \A q \in outlived' : request'[q] # "new"
      BY <1>1, <1>2, <1>4, TypeParts DEF IInv, Counts, StraysEnded
    <2>2. strays' \subseteq strays \cup ({r} \cap outlived)
      BY DEF Finish
    <2>3. strays' \subseteq outlived' \ Running'
      BY <1>3, <1>4, <2>2 DEF IInv, StraysEnded
    <2>4. QED
      BY <1>1, <2>1, <2>2, <2>3 DEF StraysEnded
  <1>8. /\ IsFiniteSet(Own') /\ Cardinality(Own') \in Nat
        /\ IsFiniteSet(strays') /\ Cardinality(strays') \in Nat
    <2>1. Own' \in SUBSET Requests /\ strays' \in SUBSET Requests
      BY <1>7 DEF Own, Running
    <2>2. QED
      BY <2>1, ShutdownAssumption, FS_Subset, FS_CardinalityType
  <1>9. /\ CountIsExact'
        /\ own <= older => Cardinality(Own') <= Cardinality(strays')
    <2>1. inFlight <= own /\ own <= inFlight + older
      BY DEF IInv, CountIsExact
    <2>2. CASE Own \subseteq {r}
      <3>1. Cardinality(Own') = 0
        BY <1>4, <2>2, FS_EmptySet
      <3>2. own <= 1
        <4>1. CASE Own = {}
          BY <4>1, FS_EmptySet
        <4>2. CASE Own # {}
          BY <2>2, <4>2, FS_Singleton
        <4>3. QED
          BY <4>1, <4>2
      <3>3. inFlight' = 0
        BY <1>1, <1>5, <2>1, <3>2
      <3>4. QED
        BY <1>8, <3>1, <3>3 DEF CountIsExact
    <2>3. CASE ~(Own \subseteq {r}) /\ r \in Own
      <3>1. strays' = strays
        BY <1>4, <2>3 DEF Finish
      <3>2. Cardinality(Own') = own - 1
        BY <1>1, <1>4, <2>3, FS_RemoveElement
      <3>3. own > 0
        BY <1>1, <2>3, FS_EmptySet
      <3>4. QED
        BY <1>1, <1>5, <2>1, <3>1, <3>2, <3>3 DEF CountIsExact
    <2>4. CASE ~(Own \subseteq {r}) /\ r \notin Own
      <3>1. Own' = Own /\ r \in outlived
        BY <1>4, <2>4
      <3>2. CASE inFlight > 0
        <4>1. strays' = strays \cup {r} /\ r \notin strays
          BY <1>3, <2>4, <3>1, <3>2 DEF Finish, IInv, StraysEnded
        <4>2. Cardinality(strays') = older + 1
          BY <1>1, <4>1, FS_AddElement
        <4>3. QED
          BY <1>1, <1>5, <2>1, <3>1, <3>2, <4>2 DEF CountIsExact
      <3>3. CASE ~(inFlight > 0)
        <4>1. strays' = strays
          BY <2>4, <3>3 DEF Finish
        <4>2. QED
          BY <1>1, <1>5, <2>1, <3>1, <3>3, <4>1 DEF CountIsExact
      <3>4. QED
        BY <3>2, <3>3
    <2>5. QED
      BY <2>2, <2>3, <2>4
  <1>10. CleanAfterDrain'
    BY <1>9 DEF IInv, CleanAfterDrain, Finish, drain
  <1>11. ShutdownTypeOK'
    <2>1. Flags'
      BY TypeParts DEF IInv, Flags, Finish, drain, consul, history
    <2>2. Counts'
      BY <1>3, <1>6, <1>7, TypeParts DEF IInv, Counts, Finish, drain, consul, history
    <2>3. QED
      BY <2>1, <2>2, TypeParts
  <1>12. Leaving' /\ StartsBare' /\ RejectsUnrouted' /\ CleanupsTried'
    BY DEF IInv, Finish, drain, consul, Leaving, StartsBare, RejectsUnrouted, CleanupsTried
  <1>13. QED
    BY <1>7, <1>9, <1>10, <1>11, <1>12 DEF IInv

\* A request that arrives: rejected, or one more of this run.
LEMMA ArriveSound ==
    ASSUME IInv, NEW r \in Requests, Arrive(r) PROVE IInv'
  <1>1. request' \in [Requests -> RequestStates] /\ inFlight' \in Nat
    BY TypeParts DEF IInv, Counts, Arrive, RequestStates
  <1>2. ShutdownTypeOK'
    <2>1. Flags'
      BY TypeParts DEF IInv, Flags, Arrive, drain, consul, history
    <2>2. Counts'
      BY <1>1, TypeParts DEF IInv, Counts, Arrive, drain, consul, history
    <2>3. QED
      BY <2>1, <2>2, TypeParts
  <1>3. Leaving' /\ StartsBare' /\ RejectsUnrouted' /\ CleanupsTried'
    BY DEF IInv, Arrive, drain, consul, Leaving, StartsBare, RejectsUnrouted, CleanupsTried
  <1>4. r \in Requests /\ request[r] = "new" /\ request \in [Requests -> RequestStates]
    BY TypeParts DEF IInv, Counts, Arrive
  <1>5. StraysEnded' /\ CountIsExact' /\ CleanAfterDrain'
    <2>1. CASE shutting
      <3>1. /\ request' = [request EXCEPT ![r] = "rejected"]
            /\ UNCHANGED <<inFlight, outlived, strays, phase, drain>>
        BY <2>1 DEF Arrive, history
      <3>2. Running' = Running /\ Own' = Own
        BY <1>4, <3>1 DEF Running, Own
      <3>3. QED
        BY <3>1, <3>2 DEF IInv, StraysEnded, CountIsExact, CleanAfterDrain, drain
    <2>2. CASE ~shutting
      <3>1. /\ request' = [request EXCEPT ![r] = "running"] /\ inFlight' = inFlight + 1
            /\ UNCHANGED <<outlived, strays, phase>>
        BY <2>2 DEF Arrive, history
      <3>2. Running' = Running \cup {r} /\ r \notin Running
        BY <1>4, <3>1 DEF Running
      <3>3. r \notin outlived /\ r \notin strays
        BY <1>4 DEF IInv, StraysEnded
      <3>4. Own' = Own \cup {r} /\ r \notin Own
        BY <3>1, <3>2, <3>3 DEF Own
      <3>5. /\ IsFiniteSet(Own) /\ Cardinality(Own) \in Nat /\ Cardinality(strays) \in Nat
            /\ inFlight \in Nat
        BY OwnFinite, TypeParts DEF IInv, Counts
      <3>6. Cardinality(Own') = Cardinality(Own) + 1
        BY <3>4, <3>5, FS_AddElement
      <3>7. phase' # "cleaning"
        BY <2>2, <3>1 DEF IInv, Leaving, StartsBare
      <3>8. CountIsExact'
        BY <3>1, <3>5, <3>6 DEF IInv, CountIsExact
      <3>9. StraysEnded'
        BY <3>1, <3>2, <3>3 DEF IInv, StraysEnded
      <3>10. QED
        BY <3>7, <3>8, <3>9 DEF CleanAfterDrain
    <2>3. QED
      BY <2>1, <2>2
  <1>6. QED
    BY <1>2, <1>3, <1>5 DEF IInv

\* The lifespan starts again: no request is of this run yet.
LEMMA ReloadSound == ASSUME IInv, Reload PROVE IInv'
  <1>1. Running' = Running /\ outlived' = outlived \cup Running /\ strays' = {}
    BY DEF Reload, Running
  <1>2. Own' = {} /\ Cardinality(Own') = 0
    BY <1>1, FS_EmptySet DEF Own
  <1>3. Cardinality(strays') = 0 /\ inFlight' = 0
    BY <1>1, FS_EmptySet DEF Reload
  <1>4. CountIsExact'
    BY <1>2, <1>3 DEF CountIsExact
  <1>5. StraysEnded'
    BY <1>1 DEF Reload, IInv, StraysEnded, Running
  <1>6. ShutdownTypeOK'
    <2>1. Flags'
      BY TypeParts DEF IInv, Flags, Reload, drain
    <2>2. Counts'
      BY <1>1, TypeParts, Timeouts DEF IInv, Counts, Reload, Phases, drain, Running
    <2>3. QED
      BY <2>1, <2>2, TypeParts
  <1>7. Leaving' /\ StartsBare' /\ CleanAfterDrain' /\ CleanupsTried' /\ RejectsUnrouted'
    BY DEF Reload, Leaving, StartsBare, CleanAfterDrain, CleanupsTried, RejectsUnrouted
  <1>8. QED
    BY <1>4, <1>5, <1>6, <1>7 DEF IInv

\* The last look of wait_for_drain.
LEMMA PollSound == ASSUME IInv, Poll PROVE IInv'
  <1>1. /\ StraysEnded' /\ CountIsExact'
        /\ Cardinality(Own') <= inFlight + Cardinality(strays')
        /\ Cardinality(strays') \in Nat
    <2>1. UNCHANGED <<request, outlived, strays, inFlight>>
      BY DEF Poll, history
    <2>2. QED
      BY <2>1, SameRequests, OwnFinite, TypeParts DEF IInv, Counts
  <1>2. phase' \in Phases /\ patience' \in 0..CleanupTimeout /\ woken' \in BOOLEAN
    <2>1. CASE Waits
      BY <2>1, TypeParts DEF IInv, Flags, Counts, Poll
    <2>2. CASE ~Waits
      <3>1. phase' = "cleaning" /\ patience' = CleanupTimeout /\ woken' = woken
        BY <2>2 DEF Poll
      <3>2. QED
        BY <3>1, Timeouts, TypeParts DEF IInv, Flags, Phases
    <2>3. QED
      BY <2>1, <2>2
  <1>3. ShutdownTypeOK'
    <2>1. Flags'
      BY <1>2, TypeParts DEF IInv, Flags, Poll, consul, history
    <2>2. Counts'
      <3>1. elapsed' = elapsed
        BY DEF Poll
      <3>2. QED
        BY <1>2, <3>1, TypeParts DEF IInv, Counts, Poll, consul, history
    <2>3. QED
      BY <2>1, <2>2, TypeParts
  <1>4. CleanAfterDrain'
    <2>1. CASE Waits
      BY <2>1 DEF Poll, CleanAfterDrain
    <2>2. CASE ~Waits
      <3>1. inFlight = 0 \/ elapsed = Grace
        BY <2>2, Timeouts, TypeParts DEF IInv, Waits, Counts
      <3>2. elapsed' = elapsed
        BY DEF Poll
      <3>3. CASE inFlight = 0
        BY <1>1, <3>3, OwnFinite DEF CleanAfterDrain
      <3>4. CASE elapsed = Grace
        BY <3>2, <3>4 DEF CleanAfterDrain
      <3>5. QED
        BY <3>1, <3>3, <3>4
    <2>3. QED
      BY <2>1, <2>2
  <1>5. CleanupsTried' /\ Leaving' /\ StartsBare' /\ RejectsUnrouted'
    BY DEF IInv, Poll, consul, history, CleanupsTried, Leaving, StartsBare, RejectsUnrouted
  <1>6. QED
    BY <1>1, <1>3, <1>4, <1>5 DEF IInv

\* Every step keeps the invariant.
LEMMA NextIInv == IInv /\ [ShutdownNext]_shutdownVars => IInv'
  <1> SUFFICES ASSUME IInv, [ShutdownNext]_shutdownVars PROVE IInv'
    OBVIOUS
  <1>1. CASE Start
    <2>1. StraysEnded' /\ CountIsExact'
      BY <1>1, SameRequests DEF Start, history
    <2>2. ShutdownTypeOK'
      <3>1. Flags'
        BY <1>1, TypeParts DEF IInv, Flags, Start, drain, history
      <3>2. Counts'
        BY <1>1, TypeParts DEF IInv, Counts, Start, Phases, drain, history
      <3>3. QED
        BY <3>1, <3>2, TypeParts
    <2>3. CleanAfterDrain' /\ CleanupsTried' /\ Leaving' /\ StartsBare'
      BY <1>1 DEF Start, CleanAfterDrain, CleanupsTried, Leaving, StartsBare
    <2>4. RejectsUnrouted'
      <3>1. registry' = "current" /\ shutting' => missed' # {} \/ (registry = "current")
        BY <1>1 DEF Start
      <3>2. QED
        BY <1>1, <3>1 DEF Start, RejectsUnrouted, IInv, StartsBare
    <2>5. QED
      BY <2>1, <2>2, <2>3, <2>4 DEF IInv
  <1>2. CASE Signal
    <2>1. signalled' \in BOOLEAN
      BY <1>2 DEF Signal
    <2>2. QED
      BY <1>2, <2>1, InitiateSound DEF Signal
  <1>3. CASE Stop
    <2>1. signalled' \in BOOLEAN
      BY <1>3, TypeParts DEF Stop, IInv, Flags
    <2>2. QED
      BY <1>3, <2>1, InitiateSound DEF Stop
  <1>4. CASE Deregistered
    BY <1>4, DeregisteredSound
  <1>5. CASE \E r \in Requests : Arrive(r) \/ Finish(r)
    BY <1>5, ArriveSound, FinishSound
  <1>6. ASSUME NEW r \in Requests, Sent(r) PROVE IInv'
    <2>1. /\ request' = [request EXCEPT ![r] = "done"] /\ request[r] = "sending"
          /\ request \in [Requests -> RequestStates]
      BY <1>6, TypeParts DEF Sent, IInv, Counts
    <2>2. Running' = Running
      BY <2>1 DEF Running
    <2>3. Own' = Own
      BY <1>6, <2>2 DEF Own, Sent, history
    <2>4. ShutdownTypeOK'
      <3>1. Flags'
        BY <1>6, TypeParts DEF IInv, Flags, Sent, drain, consul, history
      <3>2. request' \in [Requests -> RequestStates]
        BY <2>1 DEF RequestStates
      <3>3. Counts'
        BY <1>6, <3>2, TypeParts DEF IInv, Counts, Sent, drain, consul, history
      <3>4. QED
        BY <3>1, <3>3, TypeParts
    <2>5. StraysEnded'
      BY <1>6, <2>1, <2>2 DEF IInv, Sent, history, StraysEnded
    <2>6. QED
      BY <1>6, <2>3, <2>4, <2>5 DEF IInv, Sent, drain, consul, history, CountIsExact,
         CleanAfterDrain, CleanupsTried, Leaving, StartsBare, RejectsUnrouted
  <1>7. CASE Poll
    BY <1>7, PollSound
  <1>8. ASSUME NEW fine \in BOOLEAN, Cleanup(fine) PROVE IInv'
    <2>1. StraysEnded' /\ CountIsExact' /\ Own' = Own
      BY <1>8, SameRequests DEF Cleanup, history
    <2>2. tried' \in 0..Cleanups /\ listed' \in BOOLEAN /\ phase' = "cleaning"
      <3>1. tried \in 0..Cleanups /\ listed \in BOOLEAN
        BY TypeParts DEF IInv, Flags, Counts
      <3>2. tried' = tried + 1 /\ tried < Cleanups /\ listed' \in {listed, FALSE}
            /\ phase' = "cleaning"
        BY <1>8 DEF Cleanup, GoesOn
      <3>3. tried' \in 0..Cleanups
        BY <3>1, <3>2, Timeouts
      <3>4. QED
        BY <3>1, <3>2, <3>3
    <2>3. ShutdownTypeOK'
      <3>1. Flags'
        BY <1>8, <2>2, TypeParts DEF IInv, Flags, Cleanup, history
      <3>2. Counts'
        BY <1>8, <2>2, Timeouts, TypeParts DEF IInv, Counts, Cleanup, Phases, history
      <3>3. QED
        BY <3>1, <3>2, TypeParts
    <2>4. RejectsUnrouted'
      BY <1>8 DEF IInv, Cleanup, RejectsUnrouted
    <2>5. QED
      BY <1>8, <2>1, <2>2, <2>3, <2>4 DEF IInv, Cleanup, history, CleanAfterDrain, CleanupsTried,
         Leaving, StartsBare
  <1>9. CASE CleanupBlocks \/ Close \/ HardStop \/ Exit \/ ForcedExit
    <2>1. StraysEnded' /\ CountIsExact'
      BY <1>9, SameRequests DEF CleanupBlocks, Close, HardStop, Exit, ForcedExit, history
    <2>2. ShutdownTypeOK'
      <3>1. Flags'
        BY <1>9, TypeParts DEF IInv, Flags, CleanupBlocks, Close, HardStop, Exit, ForcedExit,
           drain, consul, history
      <3>2. Counts'
        BY <1>9, TypeParts DEF IInv, Counts, CleanupBlocks, Close, HardStop, Exit, ForcedExit,
           Phases, drain, consul, history
      <3>3. QED
        BY <3>1, <3>2, TypeParts
    <2>3. CleanAfterDrain' /\ RejectsUnrouted'
      BY <1>9 DEF IInv, CleanupBlocks, Close, HardStop, Exit, ForcedExit, consul,
         CleanAfterDrain, RejectsUnrouted
    <2>4. CleanupsTried' /\ Leaving' /\ StartsBare'
      BY <1>9 DEF IInv, CleanupBlocks, Close, HardStop, Exit, ForcedExit, drain,
         CleanupsTried, Leaving, StartsBare
    <2>5. QED
      BY <2>1, <2>2, <2>3, <2>4 DEF IInv
  <1>10. CASE Reload
    BY <1>10, ReloadSound
  <1>11. CASE Tick
    <2>1. StraysEnded' /\ CountIsExact' /\ Own' = Own
      BY <1>11, SameRequests DEF Tick, history
    <2>2. ShutdownTypeOK'
      <3>1. Flags'
        BY <1>11, TypeParts DEF IInv, Flags, Tick, Elapse, Off, consul, history
      <3>2. Counts'
        BY <1>11, TypeParts, Timeouts DEF IInv, Counts, Tick, Elapse, Off, consul, history
      <3>3. QED
        BY <3>1, <3>2, TypeParts
    <2>3. QED
      BY <1>11, <2>1, <2>2 DEF IInv, Tick, consul, history, CleanAfterDrain, CleanupsTried,
         Leaving, StartsBare, RejectsUnrouted
  <1>12. CASE UNCHANGED shutdownVars
    <2>1. StraysEnded' /\ CountIsExact' /\ Own' = Own
      BY <1>12, SameRequests DEF shutdownVars
    <2>2. ShutdownTypeOK'
      BY <1>12 DEF IInv, shutdownVars, ShutdownTypeOK
    <2>3. QED
      BY <1>12, <2>1, <2>2 DEF IInv, shutdownVars, CleanAfterDrain, CleanupsTried,
         Leaving, StartsBare, RejectsUnrouted
  <1>13. QED
    BY <1>1, <1>2, <1>3, <1>4, <1>5, <1>6, <1>7, <1>8, <1>9, <1>10, <1>11, <1>12
    DEF ShutdownNext, Handler

\* The invariant holds throughout, with or without fairness.
LEMMA Invariance == ShutdownSpec => []IInv
  <1>1. QED
    BY InitIInv, NextIInv, PTL DEF ShutdownSpec

\* Every value of the manager and its lifespan stays well-formed.
THEOREM TypeCorrect == ShutdownSpec => []ShutdownTypeOK
  <1>1. IInv => ShutdownTypeOK
    BY DEF IInv
  <1>2. QED
    BY <1>1, Invariance, PTL

\* wait_for_drain trusts a counter that is never too large, and too small by at
\* most the ends of requests that lived through a reload and were counted down
\* while requests of this run were running.
THEOREM CountCorrect == ShutdownSpec => []CountIsExact
  <1>1. IInv => CountIsExact
    BY DEF IInv
  <1>2. QED
    BY <1>1, Invariance, PTL

\* Resources are cleaned up before the grace period is over only when call_next
\* has returned for every request of this run of the lifespan, but for as many as
\* ends of older requests were counted down for them.  Bodies that are still sent
\* and older requests are not waited for.
THEOREM DrainCorrect == ShutdownSpec => []CleanAfterDrain
  <1>1. IInv => CleanAfterDrain
    BY DEF IInv
  <1>2. QED
    BY <1>1, Invariance, PTL

\* A process that rejects requests and gave its manager the registry of this run
\* is off Consul, unless Consul could not be told or the signal came before the
\* registration.
THEOREM RoutingCorrect == ShutdownSpec => []RejectsUnrouted
  <1>1. IInv => RejectsUnrouted
    BY DEF IInv
  <1>2. QED
    BY <1>1, Invariance, PTL

\* No cleanup is skipped because another one failed.
THEOREM CleanupCorrect == ShutdownSpec => []CleanupsTried
  <1>1. IInv => CleanupsTried
    BY DEF IInv
  <1>2. QED
    BY <1>1, Invariance, PTL

-----------------------------------------------------------------------------
(* The circuit breaker.                                                    *)

\* The values the code resets the counters and the timestamp to.
LEMMA ResetValues ==
    /\ 0 \in 0 .. half_open_max_calls
    /\ 0 \in NotOpened .. recovery_timeout
    /\ NotOpened \in NotOpened .. recovery_timeout
    /\ 0 \in 0 .. failure_threshold
    /\ NotOpened # 0
  BY BreakerAssumption DEF NotOpened

\* Reading the state property keeps the breaker well-formed and timed.
LEMMA RefreshSound ==
    ASSUME NEW b \in Breaker,
           b.state # "closed" => b.elapsed # NotOpened
    PROVE  /\ Refresh(b) \in Breaker
           /\ Refresh(b).state = "closed" <=> b.state = "closed"
           /\ Refresh(b).failure_count = b.failure_count
           /\ Refresh(b).elapsed = b.elapsed
  <1>1. CASE b.state = "open" /\ b.elapsed # NotOpened /\ b.elapsed >= recovery_timeout
    <2>1. Refresh(b) = [b EXCEPT !.state = "half_open", !.half_open_calls = 0]
      BY <1>1 DEF Refresh
    <2>2. [b EXCEPT !.state = "half_open", !.half_open_calls = 0] \in Breaker
      BY ResetValues DEF Breaker, CircuitState
    <2>3. QED
      BY <1>1, <2>1, <2>2 DEF Breaker
  <1>2. CASE ~(b.state = "open" /\ b.elapsed # NotOpened /\ b.elapsed >= recovery_timeout)
    BY <1>2 DEF Refresh
  <1>3. QED
    BY <1>1, <1>2

\* Recording a failure keeps it well-formed, and trips it at the threshold.
LEMMA RecordFailureSound ==
    ASSUME NEW b \in Breaker,
           IF b.state = "closed"
           THEN b.failure_count < failure_threshold /\ b.elapsed = NotOpened
           ELSE b.elapsed # NotOpened
    PROVE  /\ RecordFailure(b) \in Breaker
           /\ IF RecordFailure(b).state = "closed"
              THEN /\ RecordFailure(b).failure_count < failure_threshold
                   /\ RecordFailure(b).elapsed = NotOpened
              ELSE RecordFailure(b).elapsed # NotOpened
  <1> DEFINE count == IF b.failure_count < failure_threshold
                      THEN b.failure_count + 1 ELSE failure_threshold
             r     == [Refresh(b) EXCEPT !.failure_count = count]
  <1>1. count \in 0 .. failure_threshold
    BY BreakerAssumption DEF Breaker
  <1>2. /\ r \in Breaker
        /\ r.failure_count = count
        /\ r.state = "closed" <=> b.state = "closed"
        /\ r.elapsed = b.elapsed
    BY <1>1, RefreshSound DEF Breaker
  <1> HIDE DEF r
  <1>3. RecordFailure(b) = IF r.state = "half_open"
        THEN [r EXCEPT !.state = "open", !.elapsed = 0, !.half_open_calls = 0]
        ELSE IF count >= failure_threshold
             THEN [r EXCEPT !.state = "open", !.elapsed = 0]
             ELSE r
    BY DEF RecordFailure, r
  <1> HIDE DEF count
  <1>4. CASE r.state = "half_open"
    <2>1. [r EXCEPT !.state = "open", !.elapsed = 0, !.half_open_calls = 0] \in Breaker
      BY <1>2, ResetValues DEF Breaker, CircuitState
    <2>2. QED
      BY <1>2, <1>3, <1>4, <2>1, ResetValues DEF Breaker
  <1>5. CASE r.state # "half_open" /\ count >= failure_threshold
    <2>1. [r EXCEPT !.state = "open", !.elapsed = 0] \in Breaker
      BY <1>2, ResetValues DEF Breaker, CircuitState
    <2>2. QED
      BY <1>2, <1>3, <1>5, <2>1, ResetValues DEF Breaker
  <1>6. CASE r.state # "half_open" /\ ~(count >= failure_threshold)
    <2>1. RecordFailure(b) = r
      BY <1>3, <1>6
    <2>2. count < failure_threshold
      BY <1>1, <1>6, BreakerAssumption
    <2>3. QED
      BY <1>2, <2>1, <2>2
  <1>7. QED
    BY <1>4, <1>5, <1>6

\* The inductive invariant: the typing and the trip/recovery invariant need
\* each other (the timestamp decides which states Refresh may produce).
BreakerInv == BreakerTypeOK /\ TripAndRecoverySound

LEMMA BreakerInvInductive ==
    BreakerInv /\ [BreakerNext]_breakerVars => BreakerInv'
  <1> SUFFICES ASSUME BreakerInv, [BreakerNext]_breakerVars PROVE BreakerInv'
    OBVIOUS
  <1> USE DEF BreakerInv, BreakerTypeOK, TripAndRecoverySound
  <1>0. /\ Refresh(cb) \in Breaker
        /\ Refresh(cb).state = "closed" <=> cb.state = "closed"
        /\ Refresh(cb).failure_count = cb.failure_count
        /\ Refresh(cb).elapsed = cb.elapsed
    BY RefreshSound
  <1>1. ASSUME NEW c \in Callers, StartRequest(c) PROVE BreakerInv'
    <2>1. CASE Refresh(cb).state = "half_open"
      BY <1>0, <1>1, <2>1, BreakerAssumption
      DEF StartRequest, Admits, Breaker, CallState, CircuitState
    <2>2. CASE Refresh(cb).state # "half_open"
      BY <1>0, <1>1, <2>2 DEF StartRequest, CallState
    <2>3. QED BY <2>1, <2>2
  <1>2. ASSUME NEW c \in Callers, FinishSuccess(c) PROVE BreakerInv'
    <2>1. RecordSuccess(cb) \in Breaker
      BY ResetValues DEF RecordSuccess, Breaker, CircuitState
    <2>2. RecordSuccess(cb).failure_count < failure_threshold
      BY BreakerAssumption DEF RecordSuccess, Breaker
    <2>3. RecordSuccess(cb).elapsed = NotOpened
      BY DEF RecordSuccess, Breaker
    <2>4. attempt' \in [Callers -> CallState]
      BY <1>2 DEF FinishSuccess, CallState
    <2>5. QED
      BY <1>2, <2>1, <2>2, <2>3, <2>4, ResetValues
      DEF FinishSuccess, RecordSuccess, Breaker
  <1>3. ASSUME NEW c \in Callers, FinishFailure(c) PROVE BreakerInv'
    BY <1>3, RecordFailureSound DEF FinishFailure, CallState
  <1>4. ASSUME NEW c \in Callers, FinishUnrecorded(c) PROVE BreakerInv'
    BY <1>4 DEF FinishUnrecorded, CallState
  <1>5. CASE ReadState
    BY <1>0, <1>5 DEF ReadState
  <1>6. CASE ClockTick
    BY <1>6, BreakerAssumption DEF ClockTick, Breaker, NotOpened
  <1>7. CASE UNCHANGED breakerVars
    BY <1>7 DEF breakerVars
  <1>8. QED
    BY <1>1, <1>2, <1>3, <1>4, <1>5, <1>6, <1>7 DEF BreakerNext

\* Every reachable breaker is well-formed, trips at its threshold and, once
\* tripped, always has the timestamp its recovery is counted from.
THEOREM BreakerSafe ==
    BreakerSpec => [](BreakerTypeOK /\ TripAndRecoverySound)
  <1>1. BreakerInit => BreakerInv
    BY BreakerAssumption DEF BreakerInit, BreakerInv, BreakerTypeOK, TripAndRecoverySound,
        Breaker, CallState, CircuitState, NotOpened
  <1>2. QED
    BY <1>1, BreakerInvInductive, PTL DEF BreakerSpec, BreakerInv

\* No request is admitted while the recovery timeout of an OPEN circuit runs.
THEOREM BreakerFailsFast ==
    BreakerSpec => OpenFailsFast
  <1>1. BreakerInv /\ [BreakerNext]_breakerVars =>
          [\A c \in Callers :
             (cb.state = "open" /\ cb.elapsed < recovery_timeout /\ attempt[c] = "idle")
                => attempt'[c] = "idle"]_breakerVars
    <2> SUFFICES ASSUME BreakerInv, BreakerNext, NEW c \in Callers,
                        cb.state = "open", cb.elapsed < recovery_timeout,
                        attempt[c] = "idle"
                 PROVE  attempt'[c] = "idle"
      OBVIOUS
    <2>0. Refresh(cb) = cb
      BY BreakerAssumption DEF Refresh, BreakerInv, BreakerTypeOK, Breaker, NotOpened
    <2>1. ASSUME NEW d \in Callers, StartRequest(d) PROVE FALSE
      BY <2>0, <2>1 DEF StartRequest, Admits
    <2>2. ASSUME NEW d \in Callers, FinishRequest(d) PROVE attempt'[c] = "idle"
      BY <2>2 DEF FinishRequest, FinishSuccess, FinishFailure, FinishUnrecorded,
                  BreakerInv, BreakerTypeOK
    <2>3. CASE ReadState \/ ClockTick
      BY <2>3 DEF ReadState, ClockTick
    <2>4. QED
      BY <2>1, <2>2, <2>3 DEF BreakerNext, FinishRequest
  <1>2. QED
    BY <1>1, BreakerSafe, PTL DEF BreakerSpec, OpenFailsFast, BreakerInv

-----------------------------------------------------------------------------
(* The reservation table of the inventory service.                         *)

\* An UPDATE of the status of a row gives a row.
LEMMA RowUpdate ==
    ASSUME NEW r \in RowType, NEW s \in Statuses
    PROVE  [r EXCEPT !.status = s] \in RowType
BY DEF RowType

\* A lookup that found a row gives a call that holds it.
LEMMA CallUpdate ==
    ASSUME NEW k \in CallType, NEW i \in Nat
    PROVE  /\ [k EXCEPT !.row = i, !.step = "update"] \in CallType
           /\ [k EXCEPT !.row = i, !.step = "update"].row = i
BY DEF CallType, Steps

\* A finished call carries nothing but its outcome, and is still a call.
LEMMA OutcomeType ==
    ASSUME NEW result \in Steps
    PROVE  /\ Outcome(result) \in CallType
           /\ Outcome(result).step = result
BY InventoryAssumption DEF Outcome, Operations, CallType

\* Ending a call leaves the types alone.
LEMMA FinishedCall ==
    ASSUME TypeOK, NEW c \in Calls, NEW result \in Steps \ {"update"},
           call' = [call EXCEPT ![c] = Outcome(result)]
    PROVE  /\ call' \in [Calls -> CallType]
           /\ \A d \in Calls : call'[d].step = "update" =>
                  call[d].step = "update" /\ call'[d] = call[d]
BY OutcomeType DEF TypeOK

\* The type invariant is inductive.
LEMMA TypeInductive ==
    TypeOK /\ [Next]_inventoryVars => TypeOK'
<1> SUFFICES ASSUME TypeOK, [Next]_inventoryVars PROVE TypeOK'
  OBVIOUS
<1>1. ASSUME NEW c \in Calls, NEW op \in Operations, NEW o \in Orders,
             NEW id \in 0 .. Len(reservations), Request(c, op, o, id)
      PROVE  TypeOK'
  <2>1. [op |-> op, order |-> o, row |-> id, step |-> "start"] \in CallType
    BY DEF Steps, TypeOK, CallType
  <2>2. call' \in [Calls -> CallType]
    BY <1>1, <2>1 DEF Request, TypeOK
  <2>3. \A d \in Calls : call'[d].step = "update" => call'[d] = call[d]
    BY <1>1 DEF Request, TypeOK
  <2> QED
    BY <1>1, <2>2, <2>3 DEF Request, TypeOK
<1>2. ASSUME NEW c \in Calls, CreateReservation(c) PROVE TypeOK'
  <2>1. /\ call' \in [Calls -> CallType]
        /\ \A d \in Calls : call'[d].step = "update" =>
               call[d].step = "update" /\ call'[d] = call[d]
    BY <1>2, FinishedCall DEF CreateReservation, Steps
  <2>2. [order |-> call[c].order, status |-> "active"] \in RowType
    BY DEF TypeOK, Statuses, RowType, CallType
  <2>3. /\ reservations' \in Seq(RowType)
        /\ Len(reservations') = Len(reservations) + 1
        /\ DOMAIN reservations \subseteq DOMAIN reservations'
    BY <1>2, <2>2 DEF CreateReservation, TypeOK
  <2>4. Len(reservations') <= MaxReservations /\ Len(reservations) + 1 \in Rows
    BY <1>2, <2>3, InventoryAssumption DEF CreateReservation, TypeOK, Rows
  <2>5. stock' \subseteq [kind : {"reserved", "committed", "released"}, row : Rows]
    BY <1>2, <2>4 DEF CreateReservation, TypeOK
  <2> QED
    BY <2>1, <2>3, <2>4, <2>5 DEF TypeOK
<1>3. ASSUME NEW c \in Calls, LookUp(c) PROVE TypeOK'
  <2>1. PICK row \in 0 .. Len(reservations) :
            /\ FindReservation(call[c].order, call[c].row, row)
            /\ call' = [call EXCEPT ![c] =
                   IF row # 0 THEN [@ EXCEPT !.row = row, !.step = "update"]
                   ELSE Outcome(IF call[c].op = "commit" THEN "missing" ELSE "ok")]
    BY <1>3 DEF LookUp
  <2>2. CASE row = 0
    <3>1. \/ call' = [call EXCEPT ![c] = Outcome("missing")]
          \/ call' = [call EXCEPT ![c] = Outcome("ok")]
      BY <2>1, <2>2
    <3>2. /\ call' \in [Calls -> CallType]
          /\ \A d \in Calls : call'[d].step = "update" =>
                 call[d].step = "update" /\ call'[d] = call[d]
      BY <3>1, FinishedCall DEF Steps
    <3>3. UNCHANGED <<reservations, stock>>
      BY <1>3 DEF LookUp
    <3> QED
      BY <3>2, <3>3 DEF TypeOK
  <2>3. CASE row # 0
    <3>1. call' = [call EXCEPT ![c] = [call[c] EXCEPT !.row = row, !.step = "update"]]
      BY <2>1, <2>3
    <3>2. [call[c] EXCEPT !.row = row, !.step = "update"] \in CallType
      <4>1. call[c] \in CallType /\ row \in Nat
        BY DEF TypeOK
      <4> QED BY <4>1, CallUpdate
    <3>3. row \in DOMAIN reservations
      BY <2>3 DEF TypeOK
    <3>4. [call[c] EXCEPT !.row = row, !.step = "update"].row = row
      <4>1. call[c] \in CallType /\ row \in Nat
        BY DEF TypeOK
      <4> QED BY <4>1, CallUpdate
    <3>5. call' \in [Calls -> CallType]
      BY <3>1, <3>2 DEF TypeOK
    <3>6. ASSUME NEW d \in Calls, call'[d].step = "update"
          PROVE  call'[d].row \in DOMAIN reservations
      <4>1. CASE d = c
        <5>1. call'[d] = [call[c] EXCEPT !.row = row, !.step = "update"]
          BY <3>1, <4>1 DEF TypeOK
        <5> QED BY <3>3, <3>4, <5>1
      <4>2. CASE d # c
        <5>1. call'[d] = call[d]
          BY <3>1, <4>2 DEF TypeOK
        <5> QED BY <3>6, <5>1 DEF TypeOK
      <4> QED BY <4>1, <4>2
    <3> QED
      BY <1>3, <3>5, <3>6 DEF LookUp, TypeOK
  <2> QED BY <2>2, <2>3
<1>4. ASSUME NEW c \in Calls, Settle(c) PROVE TypeOK'
  <2>1. /\ call' \in [Calls -> CallType]
        /\ \A d \in Calls : call'[d].step = "update" =>
               call[d].step = "update" /\ call'[d] = call[d]
    BY <1>4, FinishedCall DEF Settle, Steps
  <2>2. call[c].row \in DOMAIN reservations /\ call[c].row \in Rows
    BY <1>4, InventoryAssumption DEF Settle, TypeOK, Rows
  <2>3. Settled(call[c].op) \in {"committed", "released"}
    BY DEF Settled
  <2>4. /\ reservations' \in Seq(RowType)
        /\ Len(reservations') = Len(reservations)
        /\ DOMAIN reservations' = DOMAIN reservations
    <3>1. CASE reservations' = reservations
      BY <3>1 DEF TypeOK
    <3>2. CASE reservations' = [reservations EXCEPT ![call[c].row].status =
                                                      Settled(call[c].op)]
      <4>1. [reservations[call[c].row] EXCEPT !.status = Settled(call[c].op)]
               \in RowType
        <5>1. reservations[call[c].row] \in RowType
          BY <2>2 DEF TypeOK
        <5>2. Settled(call[c].op) \in Statuses
          BY <2>3 DEF Statuses
        <5> QED BY <5>1, <5>2, RowUpdate
      <4> QED
        BY <3>2, <2>2, <4>1 DEF TypeOK
    <3> QED BY <1>4, <3>1, <3>2 DEF Settle
  <2>5. stock' \subseteq [kind : {"reserved", "committed", "released"}, row : Rows]
    BY <1>4, <2>2, <2>3 DEF Settle, TypeOK
  <2> QED
    BY <2>1, <2>4, <2>5 DEF TypeOK
<1>5. ASSUME NEW c \in Calls, RepositoryError(c) \/ Return(c) PROVE TypeOK'
  <2>1. \/ call' = [call EXCEPT ![c] = Outcome("error")]
        \/ call' = [call EXCEPT ![c] = Outcome("idle")]
    BY <1>5 DEF RepositoryError, Return
  <2> QED
    BY <1>5, <2>1, FinishedCall DEF RepositoryError, Return, TypeOK, Steps
<1>6. CASE UNCHANGED inventoryVars
  BY <1>6 DEF inventoryVars, TypeOK
<1> QED
  BY <1>1, <1>2, <1>3, <1>4, <1>5, <1>6 DEF Next, ServerStep

\* What one step does to the table: rows are only appended, and a row that is
\* not active any more stays as it is.
LEMMA TableStep ==
    ASSUME TypeOK, [Next]_inventoryVars
    PROVE  \A i \in DOMAIN reservations :
               /\ i \in DOMAIN reservations'
               /\ reservations[i].status # "active" => reservations'[i] = reservations[i]
<1>1. CASE \E c \in Calls : CreateReservation(c)
  BY <1>1 DEF CreateReservation, TypeOK
<1>2. ASSUME NEW c \in Calls, Settle(c)
      PROVE  \A i \in DOMAIN reservations :
               /\ i \in DOMAIN reservations'
               /\ reservations[i].status # "active" => reservations'[i] = reservations[i]
  <2>1. CASE reservations' = reservations
    BY <2>1
  <2>2. CASE /\ reservations[call[c].row].status = "active"
             /\ reservations' = [reservations EXCEPT ![call[c].row].status =
                                                       Settled(call[c].op)]
    BY <2>2 DEF TypeOK
  <2> QED BY <1>2, <2>1, <2>2 DEF Settle, Updatable
<1>3. CASE reservations' = reservations
  BY <1>3
<1> QED
  BY <1>1, <1>2, <1>3 DEF Next, ServerStep, Request, LookUp, RepositoryError, Return,
                          inventoryVars

\* Publishing a settled event leaves its row settled.
LEMMA AnnouncedInductive ==
    TypeOK /\ AnnouncedIsSettled /\ [Next]_inventoryVars => AnnouncedIsSettled'
<1> SUFFICES ASSUME TypeOK, AnnouncedIsSettled, [Next]_inventoryVars,
                    NEW e \in stock', e.kind # "reserved"
             PROVE  /\ e.row \in DOMAIN reservations'
                    /\ reservations'[e.row].status # "active"
  BY DEF AnnouncedIsSettled
<1>1. CASE e \in stock
  <2>1. e.row \in DOMAIN reservations /\ reservations[e.row].status # "active"
    BY <1>1 DEF AnnouncedIsSettled
  <2> QED BY <2>1, TableStep
<1>2. CASE e \notin stock
  <2>1. CASE \E c \in Calls : CreateReservation(c)
    BY <1>2, <2>1 DEF CreateReservation
  <2>2. ASSUME NEW c \in Calls, Settle(c)
        PROVE  /\ e.row \in DOMAIN reservations'
               /\ reservations'[e.row].status # "active"
    <3>1. e.row = call[c].row /\ call[c].row \in DOMAIN reservations
      BY <1>2, <2>2 DEF Settle, TypeOK
    <3>2. CASE reservations[call[c].row].status = "active"
      <4>1. reservations' = [reservations EXCEPT ![call[c].row].status =
                                                  Settled(call[c].op)]
        BY <2>2, <3>2 DEF Settle, Updatable
      <4>2. Settled(call[c].op) # "active"
        BY DEF Settled
      <4>3. reservations[call[c].row] \in RowType
        BY <3>1 DEF TypeOK
      <4> QED BY <3>1, <4>1, <4>2, <4>3 DEF TypeOK, RowType
    <3>3. CASE reservations[call[c].row].status # "active"
      BY <2>2, <3>1, <3>3 DEF Settle, Updatable
    <3> QED BY <3>2, <3>3
  <2>3. CASE stock' = stock
    BY <1>2, <2>3
  <2> QED
    BY <2>1, <2>2, <2>3 DEF Next, ServerStep, Request, LookUp, RepositoryError, Return,
                            inventoryVars
<1> QED BY <1>1, <1>2

\* The empty table satisfies both parts of the invariant.
LEMMA InitiallySafe ==
    Init => TypeOK /\ AnnouncedIsSettled
<1> SUFFICES ASSUME Init PROVE TypeOK /\ AnnouncedIsSettled
  OBVIOUS
<1>1. Outcome("idle") \in CallType /\ Outcome("idle").step = "idle"
  BY OutcomeType DEF Steps
<1> QED
  BY <1>1, InventoryAssumption DEF Init, TypeOK, AnnouncedIsSettled

\* For any number of requests, orders and rows: the types hold, a request at
\* its UPDATE holds an existing row, and a published inventory.committed or
\* inventory.released event is about a row that has left 'active'.
THEOREM InventorySafe ==
    Spec => [](TypeOK /\ AnnouncedIsSettled)
<1>1. TypeOK /\ AnnouncedIsSettled /\ [Next]_inventoryVars
        => (TypeOK /\ AnnouncedIsSettled)'
  BY TypeInductive, AnnouncedInductive
<1> QED BY <1>1, InitiallySafe, PTL DEF Spec

\* For any number of requests that commit and release concurrently: a row that
\* was committed or released never changes again.
THEOREM SettledStaysSettled ==
    Spec => SettledIsFinal
<1>1. TypeOK /\ [Next]_inventoryVars =>
        [\A i \in DOMAIN reservations :
            reservations[i].status # "active" =>
                /\ i \in DOMAIN reservations'
                /\ reservations'[i] = reservations[i]]_inventoryVars
  BY TableStep
<1> QED BY <1>1, InventorySafe, PTL DEF Spec, SettledIsFinal

-----------------------------------------------------------------------------
(* One event, several replicas: if no handler keeps its claim for          *)
(* stale_after_seconds, the work is exclusive, duplicates are explained by *)
(* lost completions, a completed claim is final, and the handlers          *)
(* implement the abstract claim.                                           *)

\* A result is set by the time the guard stores it, and no earlier than the
\* work is done or refused.
ResultSet == \A w \in Workers :
    /\ pc[w] \in {"mark", "store"} => res[w] \in {"deposited", "skipped"}
    /\ pc[w] \in HandlerSteps \ {"mark", "store", "unlock", "mark_failed_late"}
          => res[w] = "none"

\* A holder's row is its own, and not older than the holder's run.
HolderOwnsRow == \A w \in Workers :
    Holding(w) => claim.status = "processing" /\ claim.age <= run[w]

\* A credit waits for its completion only between the deposit and the mark.
CreditedAtMark == \A w \in credited : pc[w] = "mark"

\* Each credit is recorded, about to be recorded, or lost to a fault.
CreditCount ==
    deposits <= unacked + (IF claim.status = "completed" \/ credited # {} THEN 1 ELSE 0)

ClaimInv == /\ IdempotencyTypeOK
            /\ ResultSet
            /\ WorkExclusive
            /\ HolderOwnsRow
            /\ CreditedAtMark
            /\ CreditCount

-----------------------------------------------------------------------------
\* Typing needs ResultSet: what Store writes to the cache is a result.
LEMMA IdempotencyTypeInductive ==
    IdempotencyTypeOK /\ ResultSet /\ [IdempotencyNext]_vars
        => IdempotencyTypeOK' /\ ResultSet'
  <1> SUFFICES ASSUME IdempotencyTypeOK, ResultSet, [IdempotencyNext]_vars
               PROVE  IdempotencyTypeOK' /\ ResultSet'
    OBVIOUS
  <1> USE IdempotencyAssumption DEF IdempotencyTypeOK, ResultSet, HandlerSteps, Goto, EndCall, Fault,
          stores, ghosts
  <1>1. ASSUME NEW w \in Workers, Deliver(w) PROVE IdempotencyTypeOK' /\ ResultSet'
    BY <1>1 DEF Deliver
  <1>2. ASSUME NEW w \in Workers, CacheHit(w) PROVE IdempotencyTypeOK' /\ ResultSet'
    BY <1>2 DEF CacheHit
  <1>3. ASSUME NEW w \in Workers, CacheMiss(w) PROVE IdempotencyTypeOK' /\ ResultSet'
    BY <1>3 DEF CacheMiss
  <1>4. ASSUME NEW w \in Workers, Acquire(w) PROVE IdempotencyTypeOK' /\ ResultSet'
    BY <1>4 DEF Acquire
  <1>5. ASSUME NEW w \in Workers, AcquireFails(w) PROVE IdempotencyTypeOK' /\ ResultSet'
    BY <1>5 DEF AcquireFails
  <1>6. ASSUME NEW w \in Workers, Contended(w) PROVE IdempotencyTypeOK' /\ ResultSet'
    BY <1>6 DEF Contended
  <1>7. ASSUME NEW w \in Workers, Recheck(w) PROVE IdempotencyTypeOK' /\ ResultSet'
    BY <1>7 DEF Recheck
  <1>8. ASSUME NEW w \in Workers, ClaimWon(w) PROVE IdempotencyTypeOK' /\ ResultSet'
    BY <1>8 DEF ClaimWon
  <1>9. ASSUME NEW w \in Workers, ClaimLost(w) PROVE IdempotencyTypeOK' /\ ResultSet'
    BY <1>9 DEF ClaimLost
  <1>10. ASSUME NEW w \in Workers, Deposit(w) PROVE IdempotencyTypeOK' /\ ResultSet'
    BY <1>10 DEF Deposit
  <1>11. ASSUME NEW w \in Workers, DepositSwallowed(w) PROVE IdempotencyTypeOK' /\ ResultSet'
    BY <1>11 DEF DepositSwallowed
  <1>12. ASSUME NEW w \in Workers, NoWallet(w) PROVE IdempotencyTypeOK' /\ ResultSet'
    BY <1>12 DEF NoWallet
  <1>13. ASSUME NEW w \in Workers, Incomplete(w) PROVE IdempotencyTypeOK' /\ ResultSet'
    BY <1>13 DEF Incomplete
  <1>14. ASSUME NEW w \in Workers, Invalid(w) PROVE IdempotencyTypeOK' /\ ResultSet'
    BY <1>14 DEF Invalid
  <1>15. ASSUME NEW w \in Workers, MarkCompleted(w) PROVE IdempotencyTypeOK' /\ ResultSet'
    BY <1>15 DEF MarkCompleted, Abandon
  <1>16. ASSUME NEW w \in Workers, MarkFailed(w) PROVE IdempotencyTypeOK' /\ ResultSet'
    BY <1>16 DEF MarkFailed, Failed
  <1>17. ASSUME NEW w \in Workers, Store(w) PROVE IdempotencyTypeOK' /\ ResultSet'
    BY <1>17 DEF Store
  <1>18. ASSUME NEW w \in Workers, Unlock(w) PROVE IdempotencyTypeOK' /\ ResultSet'
    BY <1>18 DEF Unlock, Release
  <1>19. ASSUME NEW w \in Workers, DropLock(w) PROVE IdempotencyTypeOK' /\ ResultSet'
    BY <1>19 DEF DropLock, Release
  <1>20. ASSUME NEW w \in Workers, Cancel(w) PROVE IdempotencyTypeOK' /\ ResultSet'
    BY <1>20 DEF Cancel, Abandon
  <1>21. ASSUME NEW p \in Pods, Crash(p) PROVE IdempotencyTypeOK' /\ ResultSet'
    BY <1>21 DEF Crash, Abandon
  <1>22. ASSUME NEW p \in Pods, Forget(p) PROVE IdempotencyTypeOK' /\ ResultSet'
    BY <1>22 DEF Forget
  <1>23. CASE AgeTick
    BY <1>23 DEF AgeTick, Aged, Holding
  <1>24. CASE UNCHANGED vars
    BY <1>24 DEF vars
  <1>25. QED
    BY <1>1, <1>2, <1>3, <1>4, <1>5, <1>6, <1>7, <1>8, <1>9, <1>10, <1>11, <1>12,
       <1>13, <1>14, <1>15, <1>16, <1>17, <1>18, <1>19, <1>20, <1>21, <1>22, <1>23,
       <1>24 DEF IdempotencyNext, Step

-----------------------------------------------------------------------------
\* HandlerSteps that neither touch the row nor credit anybody, and make nobody a
\* holder, preserve the claim's invariant.
LEMMA QuietStep ==
    ASSUME ClaimInv, IdempotencyTypeOK', ResultSet',
           UNCHANGED <<claim, deposits, credited, unacked>>,
           \A w \in Workers : Holding(w)' => Holding(w) /\ run'[w] = run[w],
           \A w \in Workers : pc[w] = "mark" => pc'[w] = "mark"
    PROVE  ClaimInv'
  BY DEF ClaimInv, WorkExclusive, HolderOwnsRow, CreditedAtMark, CreditCount, IdempotencyTypeOK

LEMMA ClaimInvInductive ==
    MaxProcessing < StaleAfter /\ ClaimInv /\ [IdempotencyNext]_vars => ClaimInv'
  <1> SUFFICES ASSUME MaxProcessing < StaleAfter, ClaimInv, [IdempotencyNext]_vars PROVE ClaimInv'
    OBVIOUS
  <1>0. IdempotencyTypeOK' /\ ResultSet'
    BY IdempotencyTypeInductive DEF ClaimInv
  <1>T. IdempotencyTypeOK
    BY DEF ClaimInv
  <1> USE DEF Goto, EndCall, stores, ghosts
  <1>1. ASSUME NEW w \in Workers, Deliver(w) PROVE ClaimInv'
    BY <1>0, <1>1, <1>T, QuietStep DEF Deliver, Holding, IdempotencyTypeOK
  <1>2. ASSUME NEW w \in Workers, CacheHit(w) PROVE ClaimInv'
    BY <1>0, <1>2, <1>T, QuietStep DEF CacheHit, Holding, IdempotencyTypeOK
  <1>3. ASSUME NEW w \in Workers, CacheMiss(w) PROVE ClaimInv'
    BY <1>0, <1>3, <1>T, QuietStep DEF CacheMiss, Holding, IdempotencyTypeOK
  <1>4. ASSUME NEW w \in Workers, Acquire(w) PROVE ClaimInv'
    BY <1>0, <1>4, <1>T, QuietStep DEF Acquire, Holding, IdempotencyTypeOK
  <1>5. ASSUME NEW w \in Workers, AcquireFails(w) PROVE ClaimInv'
    BY <1>0, <1>5, <1>T, QuietStep DEF AcquireFails, Holding, IdempotencyTypeOK
  <1>6. ASSUME NEW w \in Workers, Contended(w) PROVE ClaimInv'
    BY <1>0, <1>6, <1>T, QuietStep DEF Contended, Holding, IdempotencyTypeOK
  <1>7. ASSUME NEW w \in Workers, Recheck(w) PROVE ClaimInv'
    BY <1>0, <1>7, <1>T, QuietStep DEF Recheck, Holding, IdempotencyTypeOK
  <1>8. ASSUME NEW w \in Workers, ClaimWon(w) PROVE ClaimInv'
    <2>1. \A v \in Workers : ~Holding(v)
      BY <1>8, <1>T, IdempotencyAssumption
      DEF ClaimWon, Claimable, ClaimInv, HolderOwnsRow, IdempotencyTypeOK
    <2>2. \A v \in Workers : Holding(v)' => v = w
      BY <1>8, <1>T, <2>1 DEF ClaimWon, Holding, IdempotencyTypeOK
    <2>3. QED
      BY <1>0, <1>8, <1>T, <2>1, <2>2
      DEF ClaimWon, Claimable, ClaimInv, WorkExclusive, HolderOwnsRow,
          CreditedAtMark, CreditCount, IdempotencyTypeOK
  <1>9. ASSUME NEW w \in Workers, ClaimLost(w) PROVE ClaimInv'
    <2>1. \A v \in Workers : Holding(v)' => Holding(v)
      BY <1>9, <1>T DEF ClaimLost, Holding, IdempotencyTypeOK
    <2>2. CASE UNCHANGED claim
      BY <1>0, <1>9, <1>T, <2>1, <2>2, QuietStep DEF ClaimLost, IdempotencyTypeOK
    <2>3. CASE Claimable /\ claim' = [status |-> "processing", age |-> 0]
      <3>1. \A v \in Workers : ~Holding(v)
        BY <2>3, <1>T, IdempotencyAssumption
        DEF Claimable, ClaimInv, HolderOwnsRow, IdempotencyTypeOK
      <3>2. QED
        BY <1>0, <1>9, <1>T, <2>1, <2>3, <3>1
        DEF ClaimLost, Claimable, ClaimInv, WorkExclusive, HolderOwnsRow,
            CreditedAtMark, CreditCount, IdempotencyTypeOK
    <2>4. QED
      BY <1>9, <2>2, <2>3 DEF ClaimLost
  <1>10. ASSUME NEW w \in Workers, Deposit(w) PROVE ClaimInv'
    <2>1. Holding(w)
      BY <1>10 DEF Deposit, Holding
    <2>2. credited = {}
      BY <1>10, <1>T, <2>1
      DEF Deposit, ClaimInv, CreditedAtMark, WorkExclusive, Holding, IdempotencyTypeOK
    <2>3. \A v \in Workers : Holding(v)' <=> Holding(v)
      BY <1>10, <1>T DEF Deposit, Holding, IdempotencyTypeOK
    <2>4. WorkExclusive' /\ HolderOwnsRow'
      BY <1>10, <1>T, <2>3 DEF Deposit, ClaimInv, WorkExclusive, HolderOwnsRow
    <2>5. CreditedAtMark' /\ CreditCount'
      BY <1>10, <1>T, <2>1, <2>2
      DEF Deposit, ClaimInv, HolderOwnsRow, CreditedAtMark, CreditCount, IdempotencyTypeOK
    <2>6. QED
      BY <1>0, <2>4, <2>5 DEF ClaimInv
  <1>11. ASSUME NEW w \in Workers, DepositSwallowed(w) PROVE ClaimInv'
    BY <1>0, <1>11, <1>T, QuietStep DEF DepositSwallowed, Holding, IdempotencyTypeOK
  <1>12. ASSUME NEW w \in Workers, NoWallet(w) PROVE ClaimInv'
    BY <1>0, <1>12, <1>T, QuietStep DEF NoWallet, Holding, IdempotencyTypeOK
  <1>13. ASSUME NEW w \in Workers, Incomplete(w) PROVE ClaimInv'
    BY <1>0, <1>13, <1>T, QuietStep DEF Incomplete, Holding, IdempotencyTypeOK
  <1>14. ASSUME NEW w \in Workers, Invalid(w) PROVE ClaimInv'
    BY <1>0, <1>14, <1>T, QuietStep DEF Invalid, Holding, IdempotencyTypeOK
  <1>15. ASSUME NEW w \in Workers, MarkCompleted(w) PROVE ClaimInv'
    <2>1. Holding(w) /\ \A v \in Workers : Holding(v) => v = w
      BY <1>15, <1>T DEF MarkCompleted, ClaimInv, WorkExclusive, Holding
    <2>2. \A v \in Workers : ~Holding(v)'
      BY <1>15, <1>T, <2>1 DEF MarkCompleted, Holding, IdempotencyTypeOK
    <2>3. credited \subseteq {w}
      BY <1>T, <2>1 DEF ClaimInv, CreditedAtMark, Holding, IdempotencyTypeOK
    <2>4. credited' = {}
      BY <1>15, <2>3 DEF MarkCompleted, Abandon
    <2>5. CreditCount'
      BY <1>15, <1>T, <2>1, <2>3, <2>4
      DEF MarkCompleted, Abandon, ClaimInv, HolderOwnsRow, CreditCount, IdempotencyTypeOK
    <2>6. QED
      BY <1>0, <2>2, <2>4, <2>5
      DEF ClaimInv, WorkExclusive, HolderOwnsRow, CreditedAtMark
  <1>16. ASSUME NEW w \in Workers, MarkFailed(w) PROVE ClaimInv'
    <2>1. Holding(w) /\ \A v \in Workers : Holding(v) => v = w
      BY <1>16, <1>T DEF MarkFailed, ClaimInv, WorkExclusive, Holding
    <2>2. \A v \in Workers : ~Holding(v)'
      BY <1>16, <1>T, <2>1
      DEF MarkFailed, Holding, IdempotencyTypeOK, ClaimInv, ResultSet, HandlerSteps
    <2>3. credited = {}
      BY <1>16, <1>T, <2>1 DEF MarkFailed, ClaimInv, CreditedAtMark, Holding, IdempotencyTypeOK
    <2>4. QED
      BY <1>0, <1>16, <1>T, <2>1, <2>2, <2>3
      DEF MarkFailed, Failed, ClaimInv, WorkExclusive, HolderOwnsRow,
          CreditedAtMark, CreditCount, IdempotencyTypeOK
  <1>17. ASSUME NEW w \in Workers, Store(w) PROVE ClaimInv'
    BY <1>0, <1>17, <1>T, QuietStep DEF Store, Holding, IdempotencyTypeOK, ClaimInv, ResultSet
  <1>18. ASSUME NEW w \in Workers, Unlock(w) PROVE ClaimInv'
    BY <1>0, <1>18, <1>T, QuietStep DEF Unlock, Holding, IdempotencyTypeOK
  <1>19. ASSUME NEW w \in Workers, DropLock(w) PROVE ClaimInv'
    BY <1>0, <1>19, <1>T, QuietStep DEF DropLock, Holding, IdempotencyTypeOK
  <1>20. ASSUME NEW w \in Workers, Cancel(w) PROVE ClaimInv'
    <2>1. \A v \in Workers : Holding(v)' => Holding(v) /\ v # w
      BY <1>20, <1>T DEF Cancel, Holding, IdempotencyTypeOK
    <2>2. WorkExclusive' /\ HolderOwnsRow'
      BY <1>20, <1>T, <2>1
      DEF Cancel, ClaimInv, WorkExclusive, HolderOwnsRow, IdempotencyTypeOK
    <2>3. CreditedAtMark'
      BY <1>20, <1>T DEF Cancel, Abandon, ClaimInv, CreditedAtMark, IdempotencyTypeOK
    <2>4. CreditCount'
      BY <1>20, <1>T DEF Cancel, Abandon, ClaimInv, CreditCount, IdempotencyTypeOK
    <2>5. QED
      BY <1>0, <2>2, <2>3, <2>4 DEF ClaimInv
  <1>21. ASSUME NEW p \in Pods, Crash(p) PROVE ClaimInv'
    <2>1. \A v \in Workers : Holding(v)' => Holding(v) /\ PodOf[v] # p
      BY <1>21, <1>T DEF Crash, Holding, IdempotencyTypeOK
    <2>2. WorkExclusive' /\ HolderOwnsRow'
      BY <1>21, <1>T, <2>1
      DEF Crash, ClaimInv, WorkExclusive, HolderOwnsRow, IdempotencyTypeOK
    <2>3. CreditedAtMark'
      BY <1>21, <1>T DEF Crash, Abandon, ClaimInv, CreditedAtMark, IdempotencyTypeOK
    <2>4. CreditCount'
      BY <1>21, <1>T DEF Crash, Abandon, ClaimInv, CreditCount, IdempotencyTypeOK
    <2>5. QED
      BY <1>0, <2>2, <2>3, <2>4 DEF ClaimInv
  <1>22. ASSUME NEW p \in Pods, Forget(p) PROVE ClaimInv'
    BY <1>0, <1>22, <1>T, QuietStep DEF Forget, Holding, IdempotencyTypeOK
  <1>23. CASE AgeTick
    <2>1. \A v \in Workers : Holding(v)' <=> Holding(v)
      BY <1>23 DEF AgeTick, Holding
    <2>2. HolderOwnsRow'
      BY <1>23, <1>T, <2>1, IdempotencyAssumption
      DEF AgeTick, ClaimInv, HolderOwnsRow, IdempotencyTypeOK
    <2>3. WorkExclusive' /\ CreditedAtMark' /\ CreditCount'
      BY <1>23, <1>T, <2>1
      DEF AgeTick, ClaimInv, WorkExclusive, CreditedAtMark, CreditCount, IdempotencyTypeOK
    <2>4. QED
      BY <1>0, <2>2, <2>3 DEF ClaimInv
  <1>24. CASE UNCHANGED vars
    BY <1>0, <1>24, <1>T, QuietStep DEF vars, Holding, IdempotencyTypeOK
  <1>25. QED
    BY <1>1, <1>2, <1>3, <1>4, <1>5, <1>6, <1>7, <1>8, <1>9, <1>10, <1>11, <1>12,
       <1>13, <1>14, <1>15, <1>16, <1>17, <1>18, <1>19, <1>20, <1>21, <1>22, <1>23,
       <1>24 DEF IdempotencyNext, Step

LEMMA ClaimInvInitially == IdempotencyInit => ClaimInv
  BY IdempotencyAssumption
  DEF IdempotencyInit, ClaimInv, IdempotencyTypeOK, HandlerSteps, ResultSet,
      WorkExclusive, HolderOwnsRow,
      CreditedAtMark, CreditCount, Holding

LEMMA ClaimInvHolds ==
    ASSUME MaxProcessing < StaleAfter PROVE IdempotencySpec => []ClaimInv
  BY ClaimInvInitially, ClaimInvInductive, PTL DEF IdempotencySpec

\* While no handler keeps its claim for stale_after_seconds, at most one of them
\* is at work on an event, and there is at most one credit more than there are
\* completions lost to a fault.
THEOREM ClaimSafe ==
    ASSUME MaxProcessing < StaleAfter
    PROVE  IdempotencySpec => [](IdempotencyTypeOK /\ WorkExclusive /\ DuplicatesExplained)
  <1>1. ClaimInv => IdempotencyTypeOK /\ WorkExclusive /\ DuplicatesExplained
    BY DEF ClaimInv, CreditCount, DuplicatesExplained, IdempotencyTypeOK
  <1>2. QED
    BY <1>1, ClaimInvHolds, PTL

\* A wallet is credited again only for a completion that a crash, a cancelled
\* coroutine or a failed statement lost.
THEOREM ClaimExplained ==
    ASSUME MaxProcessing < StaleAfter PROVE IdempotencySpec => []DuplicatesExplained
  BY ClaimSafe, PTL

\* Under the same condition a completed claim is never reopened and the wallet
\* is not credited again.
THEOREM CompletedClaimIsFinal ==
    ASSUME MaxProcessing < StaleAfter PROVE IdempotencySpec => CompletedIsFinal
  <1>1. ClaimInv /\ [IdempotencyNext]_vars =>
          [claim.status = "completed" =>
             claim'.status = "completed" /\ deposits' = deposits]_vars
    <2> SUFFICES ASSUME ClaimInv, IdempotencyNext, claim.status = "completed"
                 PROVE  claim'.status = "completed" /\ deposits' = deposits
      OBVIOUS
    <2>1. \A w \in Workers : ~Holding(w)
      BY DEF ClaimInv, HolderOwnsRow
    <2>2. ~Claimable
      BY DEF Claimable
    <2> USE DEF stores, ghosts
    <2>3. ASSUME NEW w \in Workers, Step(w)
          PROVE  claim'.status = "completed" /\ deposits' = deposits
      BY <2>1, <2>2, <2>3
      DEF Step, Holding, CacheHit, CacheMiss, Acquire, AcquireFails, Contended,
          Recheck, ClaimWon, ClaimLost, Deposit, DepositSwallowed, NoWallet,
          Incomplete, Invalid, MarkCompleted, MarkFailed, Store, Unlock, DropLock
    <2>4. CASE AgeTick
      BY <2>4 DEF AgeTick
    <2>5. QED
      BY <2>3, <2>4 DEF IdempotencyNext, Deliver, Cancel, Crash, Forget, Abandon
  <1>2. QED
    BY <1>1, ClaimInvHolds, PTL DEF IdempotencySpec, CompletedIsFinal

\* A live lock is only ever released by its owner: this rests on the token
\* alone, whatever the processing times are.
THEOREM TokenProtectsLock == IdempotencySpec => OnlyOwnerReleases
  <1>1. IdempotencyInit => IdempotencyTypeOK /\ ResultSet
    BY ClaimInvInitially DEF ClaimInv
  <1>2. IdempotencySpec => [](IdempotencyTypeOK /\ ResultSet)
    BY <1>1, IdempotencyTypeInductive, PTL DEF IdempotencySpec
  <1>3. IdempotencyTypeOK /\ ResultSet /\ [IdempotencyNext]_vars =>
          [\A w \in Workers :
             lock.owner = w /\ lock.ttl > 1 /\ lock'.owner # w => pc'[w] # pc[w]]_vars
    <2> SUFFICES ASSUME IdempotencyTypeOK, IdempotencyNext, NEW w \in Workers, lock.owner = w,
                        lock.ttl > 1, lock'.owner # w
                 PROVE  pc'[w] # pc[w]
      OBVIOUS
    <2> USE DEF stores, Goto, EndCall
    <2>1. ASSUME NEW v \in Workers, Step(v) PROVE pc'[w] # pc[w]
      <3>1. CASE Unlock(v) \/ DropLock(v)
        BY <3>1 DEF Unlock, DropLock, Release, IdempotencyTypeOK
      <3>2. CASE Acquire(v) \/ AcquireFails(v)
        BY <3>2, IdempotencyAssumption DEF Acquire, AcquireFails, IdempotencyTypeOK
      <3>3. CASE ~(Unlock(v) \/ DropLock(v) \/ Acquire(v) \/ AcquireFails(v))
        BY <2>1, <3>3
        DEF Step, CacheHit, CacheMiss, Contended, Recheck, ClaimWon, ClaimLost,
            Deposit, DepositSwallowed, NoWallet, Incomplete, Invalid,
            MarkCompleted, MarkFailed, Store
      <3>4. QED
        BY <3>1, <3>2, <3>3
    <2>2. CASE AgeTick
      BY <2>2 DEF AgeTick, Aged, IdempotencyTypeOK
    <2>3. QED
      BY <2>1, <2>2 DEF IdempotencyNext, Deliver, Cancel, Crash, Forget
  <1>4. QED
    BY <1>2, <1>3, PTL DEF IdempotencySpec, OnlyOwnerReleases

-----------------------------------------------------------------------------
(* Refinement: each step maps to a step of EventClaim or leaves it alone.  *)

\* Under WorkExclusive the mapping names the one holder.
LEMMA HolderIs ==
    ASSUME WorkExclusive
    PROVE  /\ \A w \in Workers : Holding(w) => Holder = w
           /\ (\A w \in Workers : ~Holding(w)) => Holder = NoOwner
  BY DEF WorkExclusive, Holder

\* A step that leaves the row alone and makes nobody a holder is a stutter of
\* the abstract claim, or the holder's disappearance.
LEMMA QuietStepMaps ==
    ASSUME WorkExclusive, WorkExclusive', UNCHANGED claim,
           \A w \in Workers : Holding(w)' => Holding(w)
    PROVE  [Claim!Next]_(Claim!vars)
  <1>1. CASE \E w \in Workers : Holding(w)'
    <2>1. PICK w \in Workers : Holding(w)'
      BY <1>1
    <2>2. Holder = w /\ Holder' = w
      BY <2>1, HolderIs DEF WorkExclusive, Holder
    <2>3. QED
      BY <2>2 DEF Claim!vars
  <1>2. CASE \A w \in Workers : ~Holding(w)'
    <2>1. Holder' = NoOwner
      BY <1>2 DEF Holder
    <2>2. CASE \A w \in Workers : ~Holding(w)
      BY <2>1, <2>2, HolderIs DEF Claim!vars
    <2>3. CASE \E w \in Workers : Holding(w)
      <3>1. PICK w \in Workers : Holding(w)
        BY <2>3
      <3>2. Claim!Vanish(w)
        BY <2>1, <3>1, HolderIs DEF Claim!Vanish
      <3>3. QED
        BY <3>2 DEF Claim!Next
    <2>4. QED
      BY <2>2, <2>3
  <1>3. QED
    BY <1>1, <1>2

LEMMA StepMaps ==
    ASSUME MaxProcessing < StaleAfter, ClaimInv, ClaimInv', [IdempotencyNext]_vars
    PROVE  [Claim!Next]_(Claim!vars)
  <1>W. WorkExclusive /\ WorkExclusive' /\ IdempotencyTypeOK
    BY DEF ClaimInv
  <1> USE DEF Goto, EndCall, stores, ghosts
  <1>1. ASSUME NEW w \in Workers, ClaimWon(w) PROVE Claim!Next
    <2>1. \A v \in Workers : ~Holding(v)
      BY <1>1, <1>W, IdempotencyAssumption
      DEF ClaimWon, Claimable, ClaimInv, HolderOwnsRow, IdempotencyTypeOK
    <2>2. Holding(w)'
      BY <1>1, <1>W DEF ClaimWon, Holding, IdempotencyTypeOK
    <2>3. Holder = NoOwner /\ Holder' = w
      BY <1>W, <2>1, <2>2, HolderIs DEF WorkExclusive, Holder
    <2>4. Claim!Grant(w)
      BY <1>1, <2>3 DEF ClaimWon, Claimable, Claim!Grant
    <2>5. QED
      BY <2>4 DEF Claim!Next
  <1>2. ASSUME NEW w \in Workers, ClaimLost(w) PROVE [Claim!Next]_(Claim!vars)
    <2>1. \A v \in Workers : Holding(v)' => Holding(v)
      BY <1>2, <1>W DEF ClaimLost, Holding, IdempotencyTypeOK
    <2>2. CASE UNCHANGED claim
      BY <1>W, <2>1, <2>2, QuietStepMaps
    <2>3. CASE Claimable /\ claim' = [status |-> "processing", age |-> 0]
      <3>1. \A v \in Workers : ~Holding(v)
        BY <2>3, <1>W, IdempotencyAssumption
        DEF Claimable, ClaimInv, HolderOwnsRow, IdempotencyTypeOK
      <3>2. Holder = NoOwner /\ Holder' = NoOwner
        BY <2>1, <3>1 DEF Holder
      <3>3. Claim!GrantLost
        BY <2>3, <3>2 DEF Claimable, Claim!GrantLost
      <3>4. QED
        BY <3>3 DEF Claim!Next
    <2>4. QED
      BY <1>2, <2>2, <2>3 DEF ClaimLost
  <1>3. ASSUME NEW w \in Workers, MarkCompleted(w) PROVE [Claim!Next]_(Claim!vars)
    <2>1. Holding(w) /\ \A v \in Workers : Holding(v) => v = w
      BY <1>3, <1>W DEF MarkCompleted, WorkExclusive, Holding
    <2>2. \A v \in Workers : ~Holding(v)'
      BY <1>3, <1>W, <2>1 DEF MarkCompleted, Holding, IdempotencyTypeOK
    <2>3. CASE UNCHANGED claim
      BY <1>W, <2>2, <2>3, QuietStepMaps
    <2>4. CASE claim' = [status |-> "completed", age |-> 0]
      <3>1. Holder = w /\ Holder' = NoOwner
        BY <1>W, <2>1, <2>2, HolderIs DEF Holder
      <3>2. Claim!Complete(w)
        BY <2>4, <3>1 DEF Claim!Complete
      <3>3. QED
        BY <3>2 DEF Claim!Next
    <2>5. QED
      BY <1>3, <2>3, <2>4 DEF MarkCompleted
  <1>4. ASSUME NEW w \in Workers, MarkFailed(w) PROVE [Claim!Next]_(Claim!vars)
    <2>1. Holding(w) /\ \A v \in Workers : Holding(v) => v = w
      BY <1>4, <1>W DEF MarkFailed, WorkExclusive, Holding
    <2>2. \A v \in Workers : ~Holding(v)'
      BY <1>4, <1>W, <2>1
      DEF MarkFailed, Holding, IdempotencyTypeOK, ClaimInv, ResultSet, HandlerSteps
    <2>3. CASE UNCHANGED claim
      BY <1>W, <2>2, <2>3, QuietStepMaps
    <2>4. CASE claim' = Failed
      <3>1. Holder = w /\ Holder' = NoOwner
        BY <1>W, <2>1, <2>2, HolderIs DEF Holder
      <3>2. claim'.status = "failed"
        BY <2>1, <2>4 DEF Failed, ClaimInv, HolderOwnsRow
      <3>3. Claim!Fail(w)
        BY <3>1, <3>2 DEF Claim!Fail
      <3>4. QED
        BY <3>3 DEF Claim!Next
    <2>5. QED
      BY <1>4, <2>3, <2>4 DEF MarkFailed
  <1>5. CASE AgeTick
    <2>1. \A v \in Workers : Holding(v)' <=> Holding(v)
      BY <1>5 DEF AgeTick, Holding
    <2>2. claim'.status = claim.status
      BY <1>5, <1>W DEF AgeTick, IdempotencyTypeOK
    <2>3. Holder' = Holder
      <3>1. CASE \A v \in Workers : ~Holding(v)
        BY <2>1, <3>1 DEF Holder
      <3>2. CASE \E v \in Workers : Holding(v)
        <4>1. PICK v \in Workers : Holding(v)
          BY <3>2
        <4>2. QED
          BY <1>W, <2>1, <4>1, HolderIs DEF WorkExclusive, Holder
      <3>3. QED
        BY <3>1, <3>2
    <2>4. QED
      BY <2>2, <2>3 DEF Claim!vars
  <1>6. ASSUME NEW w \in Workers,
               \/ Deliver(w) \/ CacheHit(w) \/ CacheMiss(w) \/ Acquire(w)
               \/ AcquireFails(w) \/ Contended(w) \/ Recheck(w)
        PROVE [Claim!Next]_(Claim!vars)
    <2>1. UNCHANGED claim /\ \A v \in Workers : Holding(v)' => Holding(v)
      BY <1>6, <1>W
      DEF Deliver, CacheHit, CacheMiss, Acquire, AcquireFails, Contended, Recheck,
          Holding, IdempotencyTypeOK
    <2>2. QED
      BY <1>W, <2>1, QuietStepMaps
  <1>7. ASSUME NEW w \in Workers,
               \/ Deposit(w) \/ DepositSwallowed(w) \/ NoWallet(w)
               \/ Incomplete(w) \/ Invalid(w)
        PROVE [Claim!Next]_(Claim!vars)
    <2>1. UNCHANGED claim /\ \A v \in Workers : Holding(v)' => Holding(v)
      BY <1>7, <1>W
      DEF Deposit, DepositSwallowed, NoWallet, Incomplete, Invalid, Holding, IdempotencyTypeOK
    <2>2. QED
      BY <1>W, <2>1, QuietStepMaps
  <1>8. ASSUME NEW w \in Workers, Store(w) \/ Unlock(w) \/ DropLock(w) \/ Cancel(w)
        PROVE [Claim!Next]_(Claim!vars)
    <2>1. UNCHANGED claim /\ \A v \in Workers : Holding(v)' => Holding(v)
      BY <1>8, <1>W
      DEF Store, Unlock, DropLock, Cancel, Holding, IdempotencyTypeOK, ClaimInv, ResultSet
    <2>2. QED
      BY <1>W, <2>1, QuietStepMaps
  <1>9. ASSUME NEW p \in Pods, Crash(p) \/ Forget(p) PROVE [Claim!Next]_(Claim!vars)
    <2>1. UNCHANGED claim /\ \A v \in Workers : Holding(v)' => Holding(v)
      BY <1>9, <1>W DEF Crash, Forget, Holding, IdempotencyTypeOK
    <2>2. QED
      BY <1>W, <2>1, QuietStepMaps
  <1>10. CASE UNCHANGED vars
    <2>1. UNCHANGED claim /\ \A v \in Workers : Holding(v)' => Holding(v)
      BY <1>10 DEF vars, Holding
    <2>2. QED
      BY <1>W, <2>1, QuietStepMaps
  <1>11. QED
    BY <1>1, <1>2, <1>3, <1>4, <1>5, <1>6, <1>7, <1>8, <1>9, <1>10 DEF IdempotencyNext, Step

\* The handlers implement the abstract claim: whatever Redis, the lock and the
\* cache do, the row is granted to one holder at a time and settled by it alone.
THEOREM HandlersImplementClaim ==
    ASSUME MaxProcessing < StaleAfter PROVE IdempotencySpec => ImplementsClaim
  <1>1. IdempotencyInit => Claim!Init
    BY DEF IdempotencyInit, Claim!Init, Holder, Holding
  <1>2. ClaimInv /\ ClaimInv' /\ [IdempotencyNext]_vars => [Claim!Next]_(Claim!vars)
    BY StepMaps
  <1>3. QED
    BY <1>1, <1>2, ClaimInvHolds, PTL DEF IdempotencySpec, ImplementsClaim, Claim!Spec
=============================================================================
