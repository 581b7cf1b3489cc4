--------------------- MODULE NotificationDeliveryProofs ---------------------
(***************************************************************************)
(* The safety properties of NotificationDelivery for every number of       *)
(* notifications, devices, replicas and faults.                            *)
(***************************************************************************)
EXTENDS NotificationDelivery, TLAPS

\* The type invariant in three parts, for the provers' sake.
Job == [at : Steps, todo : SUBSET Devices, reached : Nat]
SendType ==
  /\ kind \in [Notes -> [channel : Channels, schedule : Schedules]]
  /\ row \in [Notes -> Statuses]
  /\ job \in [Workers -> [Notes -> Job]]
  /\ \A r \in Replicas, n \in Notes : job[r][n].at \in {"idle"} \cup Holding
BatchType ==
  /\ batch \in [at : {"none", "parked", "begin", "loop", "done", "abandoned", "dead"},
                cur : Batched \cup {NoNote}, left : SUBSET Batched,
                sent : Nat, delivered : Nat, failed : Nat]
  /\ stats \in [sent : Nat, delivered : Nat, failed : Nat, done : BOOLEAN]
HistoryType ==
  /\ due \in BOOLEAN
  /\ calls \in [Notes -> [Targets -> Nat]]
  /\ accepted \in [Notes -> SUBSET Targets]
  /\ announced \in [Notes -> {"none", "pending", "sending"}]
  /\ blame \in [Notes -> SUBSET {"claim", "status", "answer", "crash", "assumed", "unread"}]
  /\ faults \in 0..MaxFaults

LEMMA TypeParts == /\ TypeOK <=> SendType /\ BatchType /\ HistoryType
                   /\ TypeOK' <=> SendType' /\ BatchType' /\ HistoryType'
  BY DEF TypeOK, SendType, BatchType, HistoryType, Job

\* Nothing has happened to the notification yet.
Fresh(n) == accepted[n] = {} /\ \A t \in Targets : calls[n][t] = 0

\* It went out, or an iOS device was taken for reached.
Out(n) == accepted[n] # {} \/ "assumed" \in blame[n]

\* It did not, or nobody heard that it did.
NotOut(n) == accepted[n] = {} \/ "answer" \in blame[n]

\* What a coroutine knows of its notification at each of its steps.
Knows(w, n) ==
  /\ job[w][n].at \in Holding => row[n] \in {"sending", "deleted"} /\ Due(n)
  /\ job[w][n].at = "claim" => Due(n)
  /\ w = Request /\ job[w][n].at = "idle" => row[n] = "none"
  /\ job[w][n].at = "send" => Fresh(n)
  /\ job[w][n].at = "pushing" =>
       /\ \A d \in job[w][n].todo : calls[n][d] = 0
       /\ IF job[w][n].reached > 0 THEN Out(n) ELSE NotOut(n)
  /\ job[w][n].at = "good" => Out(n)
  /\ job[w][n].at = "bad" => NotOut(n)

\* A claim is exclusive.
OneHolder(n) ==
  \A v, w \in Workers :
    job[v][n].at \in Holding /\ job[w][n].at \in Holding => v = w

\* What the row of a notification says.
Says(n) ==
  /\ row[n] \in {"none", "pending"} => Fresh(n)
  /\ \A t \in Targets : calls[n][t] <= 1
  /\ ~Due(n) => /\ row[n] \in {"none", "pending", "deleted"}
                /\ \A t \in Targets : calls[n][t] = 0
  /\ row[n] \in {"sent", "delivered"} \/ announced[n] # "none" => Out(n)
  /\ row[n] = "failed" => NotOut(n)

Sound(n) == OneHolder(n) /\ Says(n) /\ \A w \in Workers : Knows(w, n)

\* The inductive invariant.
DeliveryInv == TypeOK /\ \A n \in Notes : Sound(n)

\* The properties are parts of it.
LEMMA InvImplies == DeliveryInv => OfferedOnce /\ StatusIsTrue /\ NotBeforeTime
  BY DEF DeliveryInv, Sound, Says, OfferedOnce, StatusIsTrue, NotBeforeTime, Out, NotOut

\* At first nothing has happened.
LEMMA InitInv == Init => DeliveryInv
  <1> SUFFICES ASSUME Init PROVE DeliveryInv
    OBVIOUS
  <1>1. SendType
    <2>1. kind \in [Notes -> [channel : Channels, schedule : Schedules]]
      <3> DEFINE All == UNION {Kinds[n] : n \in Notes}
      <3>1. All \subseteq [channel : Channels, schedule : Schedules]
        BY ConstantsAssumption
      <3>2. kind \in [Notes -> All]
        BY DEF Init
      <3> HIDE DEF All
      <3>3. QED
        BY <3>1, <3>2
    <2>2. \A w \in Workers, n \in Notes : job[w][n] = At("idle")
      BY DEF Init
    <2>3. At("idle") \in Job
      BY DEF At, Job, Steps
    <2>4. QED
      BY <2>1, <2>3 DEF Init, SendType, Statuses, Workers, At
  <1>2. BatchType
    BY DEF Init, BatchType
  <1>3. HistoryType
    <2>1. due \in BOOLEAN
      BY DEF Init
    <2>2. faults \in 0..MaxFaults
      BY ConstantsAssumption DEF Init
    <2>3. QED
      BY <2>1, <2>2 DEF Init, HistoryType
  <1>4. ASSUME NEW n \in Notes PROVE Sound(n)
    <2>1. \A w \in Workers : job[w][n].at = "idle"
      BY DEF Init, At
    <2>2. Fresh(n) /\ row[n] = "none" /\ announced[n] = "none"
      BY DEF Init, Fresh
    <2>3. OneHolder(n)
      BY <2>1 DEF OneHolder, Holding
    <2>4. Says(n)
      BY <2>2 DEF Says, Fresh
    <2>5. \A w \in Workers : Knows(w, n)
      BY <2>1, <2>2 DEF Knows, Holding
    <2>6. QED
      BY <2>3, <2>4, <2>5 DEF Sound
  <1>5. QED
    BY <1>1, <1>2, <1>3, <1>4, TypeParts DEF DeliveryInv

(***************************************************************************)
(* Steps that leave a notification alone                                   *)
(***************************************************************************)

\* The coroutine of worker w is left alone or stops working on n.
Calm(w, n) == \/ job'[w][n] = job[w][n]
              \/ /\ job'[w][n].at \notin Holding \cup {"claim"}
                 /\ w = Request => job'[w][n].at # "idle"

\* A step that changes neither the row of n nor what happened to n, and in
\* which no coroutine takes n up, keeps what is known of n.
LEMMA Frame ==
    ASSUME NEW n \in Notes, Sound(n),
           kind'[n] = kind[n], due => due', row'[n] = row[n],
           calls'[n] = calls[n], accepted'[n] = accepted[n],
           announced'[n] = announced[n], blame[n] \subseteq blame'[n],
           \A w \in Workers : Calm(w, n)
    PROVE  Sound(n)'
  <1>1. Due(n) => Due(n)'
    BY DEF Due
  <1>2. (Fresh(n) => Fresh(n)') /\ (Out(n) => Out(n)') /\ (NotOut(n) => NotOut(n)')
    BY DEF Fresh, Out, NotOut
  <1>3. OneHolder(n)'
    BY DEF OneHolder, Sound, Calm
  <1>4. Says(n)'
    BY <1>1, <1>2 DEF Says, Sound
  <1>5. ASSUME NEW w \in Workers PROVE Knows(w, n)'
    <2>1. CASE job'[w][n] = job[w][n]
      BY <1>1, <1>2, <2>1 DEF Knows, Sound
    <2>2. CASE job'[w][n] # job[w][n]
      <3>1. /\ job'[w][n].at \notin Holding \cup {"claim"}
            /\ w = Request => job'[w][n].at # "idle"
        BY <2>2 DEF Calm
      <3>2. QED
        BY <3>1 DEF Knows, Holding
    <2>3. QED
      BY <2>1, <2>2
  <1>6. QED
    BY <1>3, <1>4, <1>5 DEF Sound

\* One coroutine moves on.
LEMMA Move ==
    ASSUME SendType, NEW w \in Workers, NEW n \in Notes, NEW j \in Job,
           w \in Replicas => j.at \in {"idle"} \cup Holding,
           job' = [job EXCEPT ![w][n] = j]
    PROVE  /\ job' \in [Workers -> [Notes -> Job]]
           /\ \A r \in Replicas, m \in Notes : job'[r][m].at \in {"idle"} \cup Holding
           /\ job'[w][n] = j
           /\ \A v \in Workers, m \in Notes : v # w \/ m # n => job'[v][m] = job[v][m]
  <1>1. job' \in [Workers -> [Notes -> Job]]
    BY DEF SendType
  <1>2. job'[w][n] = j /\ \A v \in Workers, m \in Notes : v # w \/ m # n => job'[v][m] = job[v][m]
    BY DEF SendType
  <1>3. \A r \in Replicas, m \in Notes : job'[r][m].at \in {"idle"} \cup Holding
    BY <1>2 DEF SendType, Workers
  <1>4. QED
    BY <1>1, <1>2, <1>3

LEMMA AtJob ==
    ASSUME NEW s \in Steps
    PROVE  /\ At(s) \in Job /\ At(s).at = s /\ At(s).todo = {} /\ At(s).reached = 0
  BY DEF At, Job

(***************************************************************************)
(* Steps that do something to a notification                               *)
(***************************************************************************)

\* What happened to n, and the time, stay as they are.
Same(n) == /\ kind'[n] = kind[n] /\ due' = due
           /\ calls'[n] = calls[n] /\ accepted'[n] = accepted[n]
           /\ announced'[n] = announced[n] /\ blame[n] \subseteq blame'[n]

LEMMA SameFacts ==
    ASSUME NEW n \in Notes, Same(n)
    PROVE  /\ Due(n)' <=> Due(n)
           /\ Fresh(n) => Fresh(n)'
           /\ Out(n) => Out(n)'
           /\ NotOut(n) => NotOut(n)'
  BY DEF Same, Due, Fresh, Out, NotOut

\* A request stores a row, or raises while it does.
LEMMA Store ==
    ASSUME NEW n \in Notes, Sound(n), Same(n), Request \in Workers,
           job[Request][n].at = "idle",
           row'[n] \in {row[n], "pending"},
           job'[Request][n].at \in {"check", "raised"},
           \A v \in Workers : v # Request => job'[v][n] = job[v][n]
    PROVE  Sound(n)'
  <1>1. row[n] = "none" /\ Fresh(n)
    BY DEF Sound, Knows, Says
  <1>2. \A v \in Workers : job[v][n].at \notin Holding
    BY <1>1 DEF Sound, Knows
  <1>3. \A v \in Workers : job'[v][n].at \notin Holding
    BY <1>2 DEF Holding
  <1>4. OneHolder(n)'
    BY <1>3 DEF OneHolder
  <1>5. Says(n)'
    <2>1. row'[n] \in {"none", "pending"} /\ Fresh(n)'
      BY <1>1, SameFacts
    <2>2. announced[n] # "none" => Out(n)
      BY DEF Sound, Says
    <2>3. announced'[n] # "none" => Out(n)'
      BY <2>2, SameFacts DEF Same
    <2>4. QED
      BY <2>1, <2>3 DEF Says, Fresh
  <1>6. ASSUME NEW v \in Workers PROVE Knows(v, n)'
    <2>1. CASE v = Request
      BY <1>3, <2>1 DEF Knows, Holding
    <2>2. CASE v # Request
      <3>1. job'[v][n] = job[v][n]
        BY <2>2
      <3>2. job[v][n].at = "claim" => Due(n)'
        BY SameFacts DEF Sound, Knows
      <3>3. QED
        BY <1>3, <2>2, <3>1, <3>2 DEF Knows, Holding
    <2>3. QED
      BY <2>1, <2>2
  <1>7. QED
    BY <1>4, <1>5, <1>6 DEF Sound

\* A worker claims a pending row whose time has come.
LEMMA TakeUp ==
    ASSUME NEW n \in Notes, Sound(n), Same(n), Request \in Workers,
           NEW w \in Workers, row[n] = "pending", Due(n),
           row'[n] = "sending", job'[w][n].at = "send",
           \A v \in Workers : v # w => job'[v][n] = job[v][n]
    PROVE  Sound(n)'
  <1>1. Fresh(n)'
    BY SameFacts DEF Sound, Says
  <1>2. Due(n)'
    BY SameFacts
  <1>3. \A v \in Workers : job[v][n].at \notin Holding
    BY DEF Sound, Knows
  <1>4. job[Request][n].at # "idle"
    BY DEF Sound, Knows
  <1>5. OneHolder(n)'
    BY <1>3 DEF OneHolder
  <1>6. Says(n)'
    <2>1. announced[n] # "none" => Out(n)
      BY DEF Sound, Says
    <2>2. announced'[n] # "none" => Out(n)'
      BY <2>1, SameFacts DEF Same
    <2>3. QED
      BY <1>1, <1>2, <2>2 DEF Says, Fresh
  <1>7. ASSUME NEW v \in Workers PROVE Knows(v, n)'
    <2>1. CASE v = w
      BY <1>1, <1>2, <2>1 DEF Knows
    <2>2. CASE v # w
      <3>1. job'[v][n] = job[v][n]
        BY <2>2
      <3>2. QED
        BY <1>2, <1>3, <1>4, <3>1 DEF Knows, Holding
    <2>3. QED
      BY <2>1, <2>2
  <1>8. QED
    BY <1>5, <1>6, <1>7 DEF Sound

\* A row is deleted, or claimed without anybody to hold the claim.
LEMMA Strand ==
    ASSUME NEW n \in Notes, Sound(n), Same(n), Request \in Workers,
           \/ row[n] # "none" /\ row'[n] = "deleted"
           \/ row[n] = "pending" /\ Due(n) /\ row'[n] = "sending",
           \A w \in Workers : Calm(w, n)
    PROVE  Sound(n)'
  <1>1. OneHolder(n)'
    BY DEF OneHolder, Sound, Calm
  <1>2. Says(n)'
    <2>1. (announced'[n] # "none" => Out(n)')
      BY SameFacts DEF Sound, Says, Same
    <2>2. \A t \in Targets : calls'[n][t] <= 1
      BY DEF Sound, Says, Same
    <2>3. ~Due(n)' => \A t \in Targets : calls'[n][t] = 0
      BY SameFacts DEF Sound, Says, Same
    <2>4. ~Due(n)' => row'[n] \in {"none", "pending", "deleted"}
      BY SameFacts
    <2>5. row'[n] \in {"deleted", "sending"}
      OBVIOUS
    <2>6. QED
      BY <2>1, <2>2, <2>3, <2>4, <2>5 DEF Says
  <1>3. ASSUME NEW w \in Workers PROVE Knows(w, n)'
    <2>1. CASE job'[w][n] = job[w][n]
      <3>1. Knows(w, n)
        BY DEF Sound
      <3>2. ~(w = Request /\ job[w][n].at = "idle")
        BY <3>1 DEF Knows
      <3>3. (job[w][n].at \in Holding \cup {"claim"}) => Due(n)'
        BY <3>1, SameFacts DEF Knows
      <3>4. row'[n] \in {"deleted", "sending"}
        OBVIOUS
      <3>5. calls'[n] = calls[n]
        BY DEF Same
      <3>6. QED
        BY <2>1, <3>1, <3>2, <3>3, <3>4, <3>5, SameFacts DEF Knows
    <2>2. CASE job'[w][n] # job[w][n]
      <3>1. /\ job'[w][n].at \notin Holding \cup {"claim"}
            /\ w = Request => job'[w][n].at # "idle"
        BY <2>2 DEF Calm
      <3>2. QED
        BY <3>1 DEF Knows, Holding
    <2>3. QED
      BY <2>1, <2>2
  <1>4. QED
    BY <1>1, <1>2, <1>3 DEF Sound

\* The holder of the claim does something.
LEMMA Holder ==
    ASSUME NEW n \in Notes, Sound(n), Request \in Workers,
           NEW w \in Workers, job[w][n].at \in Holding,
           \A v \in Workers : v # w => job'[v][n] = job[v][n],
           kind'[n] = kind[n], due' = due,
           Says(n)', Knows(w, n)'
    PROVE  Sound(n)'
  <1>1. row[n] \in {"sending", "deleted"}
    BY DEF Sound, Knows
  <1>2. \A v \in Workers : v # w => job[v][n].at \notin Holding
    BY DEF Sound, OneHolder
  <1>3. OneHolder(n)'
    BY <1>2 DEF OneHolder
  <1>4. job[Request][n].at # "idle"
    BY <1>1 DEF Sound, Knows
  <1>5. ASSUME NEW v \in Workers, v # w PROVE Knows(v, n)'
    <2>1. job'[v][n] = job[v][n] /\ job[v][n].at \notin Holding
      BY <1>2, <1>5
    <2>2. job[v][n].at = "claim" => Due(n)
      BY DEF Sound, Knows
    <2>3. Due(n)' <=> Due(n)
      BY DEF Due
    <2>4. QED
      BY <1>4, <2>1, <2>2, <2>3 DEF Knows, Holding
  <1>6. QED
    BY <1>3, <1>5 DEF Sound

(***************************************************************************)
(* The actions                                                             *)
(***************************************************************************)

\* The step has nothing to do with notification m.
Untouched(m) == /\ Same(m) /\ row'[m] = row[m]
                /\ \A w \in Workers : job'[w][m] = job[w][m]

LEMMA UntouchedSound ==
    ASSUME DeliveryInv, NEW m \in Notes, Untouched(m)
    PROVE  Sound(m)'
  <1>1. Sound(m)
    BY DEF DeliveryInv
  <1>2. \A w \in Workers : Calm(w, m)
    BY DEF Untouched, Calm
  <1>3. QED
    BY <1>1, <1>2, Frame DEF Untouched, Same

LEMMA RequestIn == Request \in Workers
  BY DEF Workers

LEMMA Typed == DeliveryInv => SendType /\ BatchType /\ HistoryType
  BY TypeParts DEF DeliveryInv

\* send_notification stores the row.
LEMMA SendSound ==
    ASSUME DeliveryInv, NEW n \in Notes, Send(n) \/ SendRaises(n)
    PROVE  \A m \in Notes : Sound(m)'
  <1>1. SendType
    BY Typed
  <1>2. PICK s \in {"check", "raised"} : job' = [job EXCEPT ![Request][n] = At(s)]
    BY DEF Send, SendRaises, Go
  <1>3. /\ job'[Request][n] = At(s)
        /\ \A v \in Workers, m \in Notes : v # Request \/ m # n => job'[v][m] = job[v][m]
    BY <1>1, <1>2, RequestIn DEF SendType
  <1>4. At(s).at = s
    BY DEF At
  <1>5. \A m \in Notes : Same(m)
    BY DEF Send, SendRaises, Same
  <1>6. row'[n] \in {row[n], "pending"} /\ \A m \in Notes : m # n => row'[m] = row[m]
    BY <1>1 DEF Send, SendRaises, SendType
  <1>7. Sound(n)'
    <2>1. job[Request][n].at = "idle"
      BY DEF Send, SendRaises
    <2>2. Sound(n)
      BY DEF DeliveryInv
    <2>3. QED
      BY <1>3, <1>4, <1>5, <1>6, <2>1, <2>2, RequestIn, Store
  <1>8. \A m \in Notes : m # n => Untouched(m)
    BY <1>3, <1>5, <1>6 DEF Untouched
  <1>9. QED
    BY <1>7, <1>8, UntouchedSound

\* It looks at the schedule.
LEMMA CheckSound ==
    ASSUME DeliveryInv, NEW n \in Notes, Check(n)
    PROVE  \A m \in Notes : Sound(m)'
  <1>1. SendType
    BY Typed
  <1>2. PICK s \in {"raised", "claim", "done"} :
          /\ job' = [job EXCEPT ![Request][n] = At(s)]
          /\ s = "claim" => Due(n)
    <2>1. CASE kind[n].schedule = "zoned"
      BY <2>1 DEF Check, Go
    <2>2. CASE kind[n].schedule # "zoned" /\ Due(n)
      BY <2>2 DEF Check, Go
    <2>3. CASE kind[n].schedule # "zoned" /\ ~Due(n)
      BY <2>3 DEF Check, Go
    <2>4. QED
      BY <2>1, <2>2, <2>3
  <1>3. /\ job'[Request][n] = At(s)
        /\ \A v \in Workers, m \in Notes : v # Request \/ m # n => job'[v][m] = job[v][m]
    BY <1>1, <1>2, RequestIn DEF SendType
  <1>4. At(s).at = s
    BY DEF At
  <1>5. \A m \in Notes : Same(m) /\ row'[m] = row[m]
    BY DEF Check, Same
  <1>6. Sound(n)'
    <2>1. Sound(n) /\ Same(n)
      BY <1>5 DEF DeliveryInv
    <2>2. OneHolder(n)'
      BY <1>2, <1>3, <1>4, <2>1 DEF Sound, OneHolder, Holding
    <2>3. Says(n)'
      BY <1>5, <2>1, SameFacts DEF Sound, Says, Same
    <2>4. ASSUME NEW w \in Workers PROVE Knows(w, n)'
      <3>1. CASE w = Request
        <4>1. Due(n) => Due(n)'
          BY <2>1, SameFacts
        <4>2. job'[w][n].at = s
          BY <1>3, <1>4, <3>1
        <4>3. QED
          BY <1>2, <4>1, <4>2 DEF Knows, Holding
      <3>2. CASE w # Request
        <4>1. job'[w][n] = job[w][n] /\ row'[n] = row[n] /\ calls'[n] = calls[n]
          BY <1>3, <1>5, <3>2 DEF Same
        <4>2. Knows(w, n)
          BY <2>1 DEF Sound
        <4>3. QED
          BY <2>1, <4>1, <4>2, SameFacts DEF Knows
      <3>3. QED
        BY <3>1, <3>2
    <2>5. QED
      BY <2>2, <2>3, <2>4 DEF Sound
  <1>7. \A m \in Notes : m # n => Untouched(m)
    BY <1>3, <1>5 DEF Untouched
  <1>8. QED
    BY <1>6, <1>7, UntouchedSound

\* It claims the row, or finds it claimed.
LEMMA ClaimSound ==
    ASSUME DeliveryInv, NEW n \in Notes, Claim(n) \/ ClaimFails(n)
    PROVE  \A m \in Notes : Sound(m)'
  <1>1. SendType /\ HistoryType
    BY Typed
  <1>2. PICK s \in {"send", "done"} :
          /\ job' = [job EXCEPT ![Request][n] = At(s)]
          /\ \/ row[n] = "pending" /\ row' = [row EXCEPT ![n] = "sending"]
             \/ s = "done" /\ row' = row
    BY DEF Claim, ClaimFails, Go, Claimable
  <1>3. /\ job'[Request][n] = At(s)
        /\ \A v \in Workers, m \in Notes : v # Request \/ m # n => job'[v][m] = job[v][m]
    BY <1>1, <1>2, RequestIn DEF SendType
  <1>4. At(s).at = s
    BY DEF At
  <1>5. \A m \in Notes : Same(m)
    BY <1>1 DEF Claim, ClaimFails, Same, Blame, HistoryType
  <1>6. /\ \/ row[n] = "pending" /\ row'[n] = "sending"
           \/ s = "done" /\ row'[n] = row[n]
        /\ \A m \in Notes : m # n => row'[m] = row[m]
    BY <1>1, <1>2 DEF SendType
  <1>7. Sound(n)'
    <2>1. Sound(n) /\ Same(n)
      BY <1>5 DEF DeliveryInv
    <2>2. Due(n)
      BY <2>1, RequestIn DEF Sound, Knows, Claim, ClaimFails
    <2>3. CASE s = "send"
      BY <1>3, <1>4, <1>6, <2>1, <2>2, <2>3, RequestIn, TakeUp
    <2>4. CASE s = "done"
      <3>1. \A w \in Workers : Calm(w, n)
        BY <1>3, <1>4, <2>4 DEF Calm, Holding
      <3>2. CASE row[n] = "pending" /\ row'[n] = "sending"
        BY <2>1, <2>2, <3>1, <3>2, RequestIn, Strand
      <3>3. CASE row'[n] = row[n]
        BY <2>1, <3>1, <3>3, Frame DEF Same
      <3>4. QED
        BY <1>6, <3>2, <3>3
    <2>5. QED
      BY <2>3, <2>4
  <1>8. \A m \in Notes : m # n => Untouched(m)
    BY <1>3, <1>5, <1>6 DEF Untouched
  <1>9. QED
    BY <1>7, <1>8, UntouchedSound

\* A loop claims a set of rows, and may not learn that it did.
LEMMA PollSound ==
    ASSUME DeliveryInv, NEW r \in Replicas, Poll(r) \/ PollFails(r)
    PROVE  \A m \in Notes : Sound(m)'
  <1>1. SendType /\ HistoryType /\ r \in Workers
    BY Typed DEF Workers
  <1>2. PICK S \in SUBSET Notes, R \in SUBSET Notes :
          /\ Round(S)
          /\ R \subseteq S
          /\ \/ job' = [job EXCEPT ![r] =
                          [n \in Notes |-> IF n \in R THEN At("send") ELSE @[n]]]
             \/ job' = job
    BY DEF Poll, PollFails
  <1>3. \A m \in Notes : Same(m)
    BY <1>1 DEF Poll, PollFails, Same, HistoryType
  <1>4. ASSUME NEW m \in Notes PROVE Sound(m)'
    <2>1. Sound(m) /\ Same(m)
      BY <1>3 DEF DeliveryInv
    <2>2. CASE m \in S
      <3>1. row[m] = "pending" /\ Due(m) /\ row'[m] = "sending"
        BY <1>2, <2>2 DEF Round, Waiting
      <3>2. CASE \A w \in Workers : job'[w][m] = job[w][m]
        <4>1. \A w \in Workers : Calm(w, m)
          BY <3>2 DEF Calm
        <4>2. QED
          BY <2>1, <3>1, <4>1, RequestIn, Strand
      <3>3. CASE m \in R /\ job' = [job EXCEPT ![r] =
                          [n \in Notes |-> IF n \in R THEN At("send") ELSE @[n]]]
        <4>1. /\ job'[r][m] = At("send")
              /\ \A v \in Workers : v # r => job'[v][m] = job[v][m]
          BY <1>1, <3>3 DEF SendType
        <4>2. At("send").at = "send"
          BY DEF At
        <4>3. QED
          BY <1>1, <2>1, <3>1, <4>1, <4>2, RequestIn, TakeUp
      <3>4. CASE m \notin R /\ job' = [job EXCEPT ![r] =
                          [n \in Notes |-> IF n \in R THEN At("send") ELSE @[n]]]
        <4>1. \A w \in Workers : job'[w][m] = job[w][m]
          BY <1>1, <3>4 DEF SendType
        <4>2. QED
          BY <3>2, <4>1
      <3>5. CASE job' = job
        BY <3>2, <3>5
      <3>6. QED
        BY <1>2, <3>3, <3>4, <3>5
    <2>3. CASE m \notin S
      <3>1. row'[m] = row[m]
        <4>1. Round(S)
          BY <1>2
        <4>2. QED
          BY <1>4, <2>3, <4>1 DEF Round
      <3>2. \A w \in Workers : job'[w][m] = job[w][m]
        <4>1. m \notin R
          BY <1>2, <2>3
        <4>2. QED
          BY <1>1, <1>2, <4>1 DEF SendType
      <3>3. QED
        BY <1>3, <3>1, <3>2, UntouchedSound DEF Untouched
    <2>4. QED
      BY <2>2, <2>3
  <1>5. QED
    BY <1>4

\* The holder moves on and nothing happens to the notification.
LEMMA OnwardSound ==
    ASSUME DeliveryInv, NEW w \in Workers, NEW n \in Notes,
           SendSms(w, n) \/ StartPush(w, n) \/ EndPush(w, n)
    PROVE  \A m \in Notes : Sound(m)'
  <1>1. SendType
    BY Typed
  <1>2. PICK j \in Job :
          /\ job' = [job EXCEPT ![w][n] = j]
          /\ \/ j.at = "bad" /\ NotOut(n)
             \/ j.at = "good" /\ Out(n)
             \/ /\ j.at = "pushing" /\ j.reached = 0 /\ NotOut(n)
                /\ j.todo \subseteq Devices /\ Fresh(n)
    <2>1. Knows(w, n)
      BY DEF DeliveryInv, Sound
    <2>2. At("bad") \in Job /\ At("bad").at = "bad" /\ At("good") \in Job /\ At("good").at = "good"
      BY DEF At, Job, Steps
    <2>3. CASE SendSms(w, n)
      <3>1. job' = [job EXCEPT ![w][n] = At("bad")] /\ NotOut(n)
        BY <2>1, <2>3 DEF SendSms, Go, Knows, Fresh, NotOut
      <3>2. QED
        BY <2>2, <3>1
    <2>4. CASE StartPush(w, n)
      <3>1. PICK active \in SUBSET Devices :
              job' = [job EXCEPT ![w][n] = IF active = {} THEN At("bad")
                                 ELSE [At("pushing") EXCEPT !.todo = active]]
        BY <2>4 DEF StartPush
      <3>2. Fresh(n) /\ NotOut(n)
        BY <2>1, <2>4 DEF StartPush, Knows, Fresh, NotOut
      <3> DEFINE k == [At("pushing") EXCEPT !.todo = active]
      <3>3. k \in Job /\ k.at = "pushing" /\ k.reached = 0 /\ k.todo = active
        BY DEF At, Job, Steps
      <3>4. CASE active = {}
        <4>1. job' = [job EXCEPT ![w][n] = At("bad")]
          BY <3>1, <3>4
        <4>2. QED
          BY <2>2, <3>2, <4>1
      <3>5. CASE active # {}
        <4>1. job' = [job EXCEPT ![w][n] = k]
          BY <3>1, <3>5
        <4> HIDE DEF k
        <4>2. QED
          BY <3>2, <3>3, <4>1
      <3>6. QED
        BY <3>4, <3>5
    <2>5. CASE EndPush(w, n)
      <3>1. job[w][n].at = "pushing"
        BY <2>5 DEF EndPush
      <3>2. CASE job[w][n].reached > 0
        <4>1. job' = [job EXCEPT ![w][n] = At("good")] /\ Out(n)
          BY <2>1, <2>5, <3>1, <3>2 DEF EndPush, Go, Verdict, Knows
        <4>2. QED
          BY <2>2, <4>1
      <3>3. CASE ~(job[w][n].reached > 0)
        <4>1. job' = [job EXCEPT ![w][n] = At("bad")] /\ NotOut(n)
          BY <2>1, <2>5, <3>1, <3>3 DEF EndPush, Go, Verdict, Knows
        <4>2. QED
          BY <2>2, <4>1
      <3>4. QED
        BY <3>2, <3>3
    <2>6. QED
      BY <2>3, <2>4, <2>5
  <1>3. /\ job'[w][n] = j
        /\ \A v \in Workers, m \in Notes : v # w \/ m # n => job'[v][m] = job[v][m]
    BY <1>1, <1>2 DEF SendType
  <1>4. \A m \in Notes : Same(m) /\ row'[m] = row[m]
    BY DEF SendSms, StartPush, EndPush, Same
  <1>5. Sound(n)'
    <2>1. Sound(n) /\ Same(n) /\ job[w][n].at \in Holding
      BY <1>4 DEF DeliveryInv, Holding, SendSms, StartPush, EndPush
    <2>2. Says(n)'
      BY <1>4, <2>1, SameFacts DEF Sound, Says, Same
    <2>3. row'[n] \in {"sending", "deleted"} /\ Due(n)'
      BY <1>4, <2>1, SameFacts DEF Sound, Knows
    <2>4. Knows(w, n)'
      <3>1. CASE j.at \in {"bad", "good"}
        BY <1>2, <1>3, <2>1, <2>3, <3>1, SameFacts DEF Knows
      <3>2. CASE j.at = "pushing"
        <4>1. Fresh(n)' /\ NotOut(n)'
          BY <1>2, <2>1, <3>2, SameFacts
        <4>2. \A d \in j.todo : calls'[n][d] = 0
          BY <1>2, <3>2, <4>1 DEF Fresh, Targets
        <4>3. ~(j.reached > 0)
          BY <1>2, <3>2
        <4>4. QED
          BY <1>3, <2>3, <3>2, <4>1, <4>2, <4>3 DEF Knows
      <3>3. QED
        BY <1>2, <3>1, <3>2
    <2>5. QED
      BY <1>3, <2>1, <2>2, <2>4, RequestIn, Holder DEF Same
  <1>6. \A m \in Notes : m # n => Untouched(m)
    BY <1>3, <1>4 DEF Untouched
  <1>7. QED
    BY <1>5, <1>6, UntouchedSound

\* The notification goes to a provider.
LEMMA HandSound ==
    ASSUME DeliveryInv, NEW w \in Workers, NEW n \in Notes, Hand(w, n)
    PROVE  \A m \in Notes : Sound(m)'
  <1>1. SendType /\ HistoryType /\ Sound(n) /\ Provider \in Targets
    BY Typed DEF DeliveryInv, Targets
  <1>2. Knows(w, n) /\ job[w][n].at = "send"
    BY <1>1 DEF Sound, Hand
  <1>3. PICK s \in {"good", "bad"} :
          /\ job' = [job EXCEPT ![w][n] = At(s)]
          /\ s = "good" => Take(n, Provider) /\ blame' = blame
          /\ s = "bad" => \/ accepted' = accepted /\ blame' = blame
                          \/ Take(n, Provider) /\ Blame(n, "answer")
    BY DEF Hand, Go
  <1>4. /\ job'[w][n] = At(s) /\ At(s).at = s
        /\ \A v \in Workers, m \in Notes : v # w \/ m # n => job'[v][m] = job[v][m]
    BY <1>1, <1>3 DEF SendType, At
  <1>5. /\ calls'[n][Provider] = calls[n][Provider] + 1
        /\ \A t \in Targets : t # Provider => calls'[n][t] = calls[n][t]
        /\ \A m \in Notes : m # n => calls'[m] = calls[m]
    BY <1>1 DEF Hand, Offer, HistoryType
  <1>6. /\ row' = row /\ kind' = kind /\ due' = due /\ announced' = announced
    BY DEF Hand
  <1>7. /\ s = "good" => Out(n)'
        /\ s = "bad" => NotOut(n)'
    <2>1. accepted[n] = {}
      BY <1>2 DEF Knows, Fresh
    <2>2. Take(n, Provider) => accepted'[n] # {}
      BY <1>1 DEF Take, HistoryType
    <2>3. Blame(n, "answer") => "answer" \in blame'[n]
      BY <1>1 DEF Blame, HistoryType
    <2>4. QED
      BY <1>3, <2>1, <2>2, <2>3 DEF Out, NotOut
  <1>8. row[n] \in {"sending", "deleted"} /\ Due(n) /\ Due(n)'
    BY <1>2, <1>6 DEF Knows, Holding, Due
  <1>9. Sound(n)'
    <2>1. \A t \in Targets : calls'[n][t] <= 1
      BY <1>2, <1>5 DEF Knows, Fresh
    <2>2. announced[n] # "none" => Out(n)'
      <3>1. /\ accepted[n] \subseteq accepted'[n] /\ blame[n] \subseteq blame'[n]
        BY <1>1, <1>3 DEF Take, Blame, HistoryType
      <3>2. announced[n] # "none" => Out(n)
        BY <1>1 DEF Sound, Says
      <3>3. QED
        BY <3>1, <3>2 DEF Out
    <2>3. Says(n)'
      BY <1>6, <1>8, <2>1, <2>2 DEF Says
    <2>4. Knows(w, n)'
      BY <1>4, <1>6, <1>7, <1>8 DEF Knows
    <2>5. QED
      BY <1>1, <1>2, <1>4, <1>6, <2>3, <2>4, RequestIn, Holder DEF Holding
  <1>10. \A m \in Notes : m # n => Untouched(m)
    <2>1. \A m \in Notes : m # n => accepted'[m] = accepted[m] /\ blame'[m] = blame[m]
      BY <1>1, <1>3 DEF Take, Blame, HistoryType
    <2>2. QED
      BY <1>4, <1>5, <1>6, <2>1 DEF Untouched, Same
  <1>11. QED
    BY <1>9, <1>10, UntouchedSound

\* The notification goes to a device.
LEMMA PushSound ==
    ASSUME DeliveryInv, NEW w \in Workers, NEW n \in Notes, NEW d \in Devices,
           PushTo(w, n, d)
    PROVE  \A m \in Notes : Sound(m)'
  <1>1. SendType /\ HistoryType /\ Sound(n) /\ d \in Targets
    BY Typed DEF DeliveryInv, Targets
  <1>2. Knows(w, n) /\ job[w][n].at = "pushing" /\ d \in job[w][n].todo
        /\ job[w][n] \in Job /\ job[w][n].reached \in Nat
        /\ job[w][n].todo \subseteq Devices
    BY <1>1 DEF Sound, PushTo, SendType, Job
  <1>3. PICK c \in {0, 1} :
          /\ Pushed(w, n, d, c)
          /\ \/ c = 1 /\ Blame(n, "assumed") /\ accepted' = accepted
             \/ c = 1 /\ Take(n, d) /\ blame' = blame
             \/ c = 0 /\ accepted' = accepted /\ blame' = blame
             \/ c = 0 /\ Take(n, d) /\ Blame(n, "answer")
    BY DEF PushTo
  <1>4. /\ job'[w][n].at = "pushing"
        /\ job'[w][n].todo = job[w][n].todo \ {d}
        /\ job'[w][n].reached = job[w][n].reached + c
        /\ \A v \in Workers, m \in Notes : v # w \/ m # n => job'[v][m] = job[v][m]
    BY <1>1, <1>2, <1>3 DEF Pushed, SendType, Job
  <1>5. /\ calls' = calls \/ Offer(n, d)
    BY DEF PushTo
  <1>6. /\ calls'[n][d] \in {calls[n][d], calls[n][d] + 1}
        /\ \A t \in Targets : t # d => calls'[n][t] = calls[n][t]
        /\ \A m \in Notes : m # n => calls'[m] = calls[m]
    BY <1>1, <1>5 DEF Offer, HistoryType
  <1>7. /\ row' = row /\ kind' = kind /\ due' = due /\ announced' = announced
    BY DEF PushTo
  <1>8. row[n] \in {"sending", "deleted"} /\ Due(n) /\ Due(n)'
    BY <1>2, <1>7 DEF Knows, Holding, Due
  <1>9. /\ accepted[n] \subseteq accepted'[n] /\ blame[n] \subseteq blame'[n]
    BY <1>1, <1>3 DEF Take, Blame, HistoryType
  <1>10. IF job'[w][n].reached > 0 THEN Out(n)' ELSE NotOut(n)'
    <2>1. Take(n, d) => accepted'[n] # {}
      BY <1>1 DEF Take, HistoryType
    <2>2. /\ Blame(n, "answer") => "answer" \in blame'[n]
          /\ Blame(n, "assumed") => "assumed" \in blame'[n]
      BY <1>1 DEF Blame, HistoryType
    <2>3. IF job[w][n].reached > 0 THEN Out(n) ELSE NotOut(n)
      BY <1>2 DEF Knows
    <2>4. CASE job'[w][n].reached > 0
      <3>1. c = 1 \/ job[w][n].reached > 0
        BY <1>2, <1>4, <2>4
      <3>2. CASE c = 1
        BY <1>3, <2>1, <2>2, <2>4, <3>2 DEF Out
      <3>3. CASE job[w][n].reached > 0
        BY <1>9, <2>3, <2>4, <3>3 DEF Out
      <3>4. QED
        BY <3>1, <3>2, <3>3
    <2>5. CASE ~(job'[w][n].reached > 0)
      <3>1. c = 0 /\ ~(job[w][n].reached > 0)
        BY <1>2, <1>4, <2>5
      <3>2. QED
        BY <1>3, <1>9, <2>2, <2>3, <2>5, <3>1 DEF NotOut
    <2>6. QED
      BY <2>4, <2>5
  <1>11. Sound(n)'
    <2>1. \A t \in Targets : calls[n][t] <= 1
      BY <1>1 DEF Sound, Says
    <2>2. calls[n][d] = 0
      BY <1>2 DEF Knows
    <2>3. \A t \in Targets : calls'[n][t] <= 1
      BY <1>6, <2>1, <2>2
    <2>4. announced[n] # "none" => Out(n)'
      BY <1>1, <1>9 DEF Sound, Says, Out
    <2>5. Says(n)'
      BY <1>7, <1>8, <2>3, <2>4 DEF Says
    <2>6. \A x \in job'[w][n].todo : calls'[n][x] = 0
      BY <1>2, <1>4, <1>6 DEF Knows, Targets
    <2>7. Knows(w, n)'
      BY <1>4, <1>7, <1>8, <1>10, <2>6 DEF Knows
    <2>8. QED
      BY <1>1, <1>2, <1>4, <1>7, <2>5, <2>7, RequestIn, Holder DEF Holding
  <1>12. \A m \in Notes : m # n => Untouched(m)
    <2>1. \A m \in Notes : m # n => accepted'[m] = accepted[m] /\ blame'[m] = blame[m]
      BY <1>1, <1>3 DEF Take, Blame, HistoryType
    <2>2. QED
      BY <1>4, <1>6, <1>7, <2>1 DEF Untouched, Same
  <1>13. QED
    BY <1>11, <1>12, UntouchedSound

\* The outcome is recorded, or that fails.
LEMMA RecordSound ==
    ASSUME DeliveryInv, NEW w \in Workers, NEW n \in Notes,
           Record(w, n) \/ RecordFails(w, n)
    PROVE  \A m \in Notes : Sound(m)'
  <1>1. SendType /\ HistoryType /\ Sound(n)
    BY Typed DEF DeliveryInv
  <1>2. Knows(w, n) /\ job[w][n].at \in {"good", "bad"}
    BY <1>1 DEF Sound, Record, RecordFails
  <1>3. job' = [job EXCEPT ![w][n] = At(Rest(w))]
    BY DEF Record, RecordFails, Go
  <1>4. /\ job'[w][n] = At(Rest(w)) /\ At(Rest(w)).at = Rest(w)
        /\ \A v \in Workers, m \in Notes : v # w \/ m # n => job'[v][m] = job[v][m]
    BY <1>1, <1>3 DEF SendType, At
  <1>5. Rest(w) \in {"idle", "done"} /\ (w = Request => Rest(w) = "done")
    BY DEF Rest
  <1>6. /\ kind' = kind /\ due' = due /\ calls' = calls /\ accepted' = accepted
        /\ \A m \in Notes : blame[m] \subseteq blame'[m]
    BY <1>1 DEF Record, RecordFails, Blame, HistoryType
  <1>7. /\ row' = row \/ row' = [row EXCEPT ![n] = IF @ = "deleted" THEN @ ELSE Result(w, n)]
        /\ Publish(w, n)
    BY DEF Record, RecordFails
  <1>8. /\ row'[n] \in {row[n], Result(w, n)}
        /\ \A m \in Notes : m # n => row'[m] = row[m]
    BY <1>1, <1>7 DEF SendType
  <1>9. /\ announced'[n] # announced[n] => job[w][n].at = "good"
        /\ \A m \in Notes : m # n => announced'[m] = announced[m]
    BY <1>1, <1>2, <1>7 DEF Publish, HistoryType
  <1>10. /\ job[w][n].at = "bad" => Result(w, n) = "failed"
         /\ job[w][n].at = "good" => Result(w, n) \in {"sent", "delivered"}
    BY DEF Result
  <1>11. row[n] \in {"sending", "deleted"} /\ Due(n) /\ Due(n)'
    BY <1>2, <1>6 DEF Knows, Holding, Due
  <1>12. (Out(n) => Out(n)') /\ (NotOut(n) => NotOut(n)')
    BY <1>6 DEF Out, NotOut
  <1>13. Sound(n)'
    <2>1. \A t \in Targets : calls'[n][t] <= 1
      BY <1>1, <1>6 DEF Sound, Says
    <2>2. announced'[n] # "none" => Out(n)'
      <3>1. announced[n] # "none" => Out(n)
        BY <1>1 DEF Sound, Says
      <3>2. job[w][n].at = "good" => Out(n)
        BY <1>2 DEF Knows
      <3>3. QED
        BY <1>9, <1>12, <3>1, <3>2
    <2>3. /\ row'[n] \in {"sent", "delivered"} => Out(n)'
          /\ row'[n] = "failed" => NotOut(n)'
      BY <1>2, <1>8, <1>10, <1>11, <1>12 DEF Knows
    <2>4. row'[n] \notin {"none", "pending"}
      BY <1>2, <1>8, <1>10, <1>11
    <2>5. Says(n)'
      BY <1>11, <2>1, <2>2, <2>3, <2>4 DEF Says
    <2>6. Knows(w, n)'
      BY <1>4, <1>5 DEF Knows, Holding
    <2>7. QED
      BY <1>1, <1>2, <1>4, <1>6, <2>5, <2>6, RequestIn, Holder DEF Holding
  <1>14. \A m \in Notes : m # n => Untouched(m)
    BY <1>4, <1>6, <1>8, <1>9 DEF Untouched, Same
  <1>15. QED
    BY <1>13, <1>14, UntouchedSound

\* A notification is deleted.
LEMMA DeleteSound ==
    ASSUME DeliveryInv, NEW n \in Notes, Delete(n)
    PROVE  \A m \in Notes : Sound(m)'
  <1>1. SendType /\ Sound(n)
    BY Typed DEF DeliveryInv
  <1>2. /\ row[n] # "none" /\ row'[n] = "deleted"
        /\ \A m \in Notes : m # n => row'[m] = row[m]
    BY <1>1 DEF Delete, SendType
  <1>3. /\ \A m \in Notes : Same(m)
        /\ \A w \in Workers, m \in Notes : job'[w][m] = job[w][m]
    BY DEF Delete, Same
  <1>4. Sound(n)'
    <2>1. \A w \in Workers : Calm(w, n)
      BY <1>3 DEF Calm
    <2>2. QED
      BY <1>1, <1>2, <1>3, <2>1, RequestIn, Strand
  <1>5. \A m \in Notes : m # n => Untouched(m)
    BY <1>2, <1>3 DEF Untouched
  <1>6. QED
    BY <1>4, <1>5, UntouchedSound

\* A replica crashes.
LEMMA CrashSound ==
    ASSUME DeliveryInv, NEW r \in Replicas, NEW S \in SUBSET Notes,
           NEW hitsBatch \in BOOLEAN, Crash(r, S, hitsBatch)
    PROVE  \A m \in Notes : Sound(m)'
  <1>1. SendType /\ r \in Workers /\ r # Request
    BY Typed, ConstantsAssumption DEF Workers
  <1>2. ASSUME NEW m \in Notes PROVE Sound(m)'
    <2>1. Sound(m)
      BY DEF DeliveryInv
    <2>2. /\ kind'[m] = kind[m] /\ due' = due /\ row'[m] = row[m]
          /\ calls'[m] = calls[m] /\ accepted'[m] = accepted[m]
          /\ announced'[m] = announced[m]
      BY DEF Crash
    <2>3. blame[m] \subseteq blame'[m]
      BY DEF Crash
    <2>4. ASSUME NEW w \in Workers PROVE Calm(w, m)
      <3>1. job'[w][m] = IF w = r THEN At("idle")
                         ELSE IF w = Request /\ m \in S THEN At("dead") ELSE job[w][m]
        BY DEF Crash
      <3>2. At("idle").at = "idle" /\ At("dead").at = "dead"
        BY DEF At
      <3>3. QED
        BY <1>1, <3>1, <3>2 DEF Calm, Holding
    <2>5. QED
      BY <2>1, <2>2, <2>3, <2>4, Frame
  <1>3. QED
    BY <1>2

\* The clock, the batch's bookkeeping and a step of nobody.
LEMMA ElseSound ==
    ASSUME DeliveryInv, kind' = kind, due => due', row' = row, job' = job, calls' = calls,
           accepted' = accepted, announced' = announced, blame' = blame
    PROVE  \A m \in Notes : Sound(m)'
  <1>1. ASSUME NEW m \in Notes PROVE Sound(m)'
    <2>1. Sound(m) /\ \A w \in Workers : Calm(w, m)
      BY DEF DeliveryInv, Calm
    <2>2. QED
      BY <2>1, Frame
  <1>2. QED
    BY <1>1

(***************************************************************************)
(* Types                                                                   *)
(***************************************************************************)

\* A worker's step keeps the types of jobs, whatever the job becomes.
LEMMA SendTypes ==
    ASSUME TypeOK, Next
    PROVE  SendType'
  <1>1. SendType /\ Request \in Workers /\ Request \notin Replicas
    BY TypeParts, ConstantsAssumption DEF Workers
  <1>2. \A s \in Steps : At(s) \in Job /\ At(s).at = s
    BY DEF At, Job
  <1>3. kind' = kind
    <2>1. \A n \in Notes :
            Send(n) \/ SendRaises(n) \/ Check(n) \/ Claim(n) \/ ClaimFails(n)
              \/ CountRecipient(n) \/ Delete(n) => kind' = kind
      BY DEF Send, SendRaises, Check, Claim, ClaimFails, CountRecipient, Delete
    <2>2. \A w \in Workers, n \in Notes :
            Work(w, n) \/ RecordFails(w, n) => kind' = kind
      BY DEF Work, SendSms, Hand, StartPush, PushTo, EndPush, Record, RecordFails
    <2>3. \A r \in Replicas : Poll(r) \/ PollFails(r) => kind' = kind
      BY DEF Poll, PollFails
    <2>4. \A yes \in BOOLEAN : SendBatch(yes) \/ BeginBatch(yes) => kind' = kind
      BY DEF SendBatch, BeginBatch
    <2>5. EndBatch \/ Tick => kind' = kind
      BY DEF EndBatch, Tick
    <2>6. \A r \in Replicas, S \in SUBSET Notes, hitsBatch \in BOOLEAN :
            Crash(r, S, hitsBatch) => kind' = kind
      BY DEF Crash
    <2>7. QED
      BY <2>1, <2>2, <2>3, <2>4, <2>5, <2>6 DEF Next
  <1> DEFINE JobsOK == /\ job' \in [Workers -> [Notes -> Job]]
                       /\ \A r \in Replicas, m \in Notes :
                            job'[r][m].at \in {"idle"} \cup Holding
             RowsOK == row' \in [Notes -> Statuses]
  <1>4. SUFFICES JobsOK /\ RowsOK
    BY <1>1, <1>3 DEF SendType
  <1>5. job' = job => JobsOK
    BY <1>1 DEF SendType
  <1>6. row' = row => RowsOK
    BY <1>1 DEF SendType
  <1>7. ASSUME NEW w \in Workers, NEW n \in Notes, NEW s \in Steps, Go(w, n, s),
               w \in Replicas => s \in {"idle"} \cup Holding
        PROVE  JobsOK
    BY <1>1, <1>2, <1>7, Move DEF Go
  <1>8. ASSUME NEW n \in Notes, NEW s \in Statuses, row' = [row EXCEPT ![n] = s]
        PROVE  RowsOK
    BY <1>1, <1>8 DEF SendType
  <1>9. ASSUME NEW n \in Notes, Send(n) \/ SendRaises(n) PROVE JobsOK /\ RowsOK
    <2>1. RowsOK
      BY <1>6, <1>8, <1>9 DEF Send, SendRaises, Statuses
    <2>2. Go(Request, n, "check") \/ Go(Request, n, "raised")
      BY <1>9 DEF Send, SendRaises
    <2>3. QED
      BY <1>1, <1>7, <2>1, <2>2 DEF Steps
  <1>10. ASSUME NEW n \in Notes, Check(n) PROVE JobsOK /\ RowsOK
    <2>1. PICK s \in {"raised", "claim", "done"} : Go(Request, n, s)
      <3>1. CASE kind[n].schedule = "zoned"
        BY <1>10, <3>1 DEF Check
      <3>2. CASE kind[n].schedule # "zoned" /\ Due(n)
        BY <1>10, <3>2 DEF Check
      <3>3. CASE kind[n].schedule # "zoned" /\ ~Due(n)
        BY <1>10, <3>3 DEF Check
      <3>4. QED
        BY <3>1, <3>2, <3>3
    <2>2. s \in Steps
      BY DEF Steps
    <2>3. QED
      BY <1>1, <1>6, <1>7, <1>10, <2>1, <2>2 DEF Check
  <1>11. ASSUME NEW n \in Notes, Claim(n) \/ ClaimFails(n) PROVE JobsOK /\ RowsOK
    <2>1. RowsOK
      BY <1>6, <1>8, <1>11 DEF Claim, ClaimFails, Statuses
    <2>2. Go(Request, n, "send") \/ Go(Request, n, "done")
      BY <1>11 DEF Claim, ClaimFails
    <2>3. QED
      BY <1>1, <1>7, <2>1, <2>2 DEF Steps
  <1>12. ASSUME NEW r \in Replicas, Poll(r) \/ PollFails(r) PROVE JobsOK /\ RowsOK
    <2>1. PICK S \in SUBSET Notes, R \in SUBSET Notes :
            /\ Round(S)
            /\ \/ job' = [job EXCEPT ![r] =
                            [n \in Notes |-> IF n \in R THEN At("send") ELSE @[n]]]
               \/ job' = job
      BY <1>12 DEF Poll, PollFails
    <2>2. RowsOK
      BY <1>1, <2>1 DEF Round, SendType, Statuses
    <2>3. CASE job' = job
      BY <1>5, <2>2, <2>3
    <2>4. CASE job' = [job EXCEPT ![r] =
                         [n \in Notes |-> IF n \in R THEN At("send") ELSE @[n]]]
      <3>1. At("send") \in Job /\ At("send").at = "send"
        BY <1>2 DEF Steps
      <3>2. job' \in [Workers -> [Notes -> Job]]
        BY <1>1, <2>4, <3>1 DEF SendType
      <3>3. ASSUME NEW q \in Replicas, NEW m \in Notes
            PROVE  job'[q][m].at \in {"idle"} \cup Holding
        <4>1. job'[q][m] \in {At("send"), job[q][m]}
          BY <1>1, <2>4 DEF SendType, Workers
        <4>2. QED
          BY <1>1, <3>1, <4>1 DEF SendType, Holding
      <3>4. QED
        BY <2>2, <3>2, <3>3
    <2>5. QED
      BY <2>1, <2>3, <2>4
  <1>13. ASSUME NEW w \in Workers, NEW n \in Notes, Work(w, n) \/ RecordFails(w, n)
         PROVE  JobsOK /\ RowsOK
    <2>1. CASE SendSms(w, n) \/ EndPush(w, n) \/ Hand(w, n)
      <3>1. Go(w, n, "good") \/ Go(w, n, "bad")
        BY <2>1 DEF SendSms, EndPush, Verdict, Hand
      <3>2. QED
        BY <1>6, <1>7, <2>1, <3>1 DEF SendSms, EndPush, Hand, Steps, Holding
    <2>2. CASE StartPush(w, n)
      <3>1. PICK active \in SUBSET Devices :
              job' = [job EXCEPT ![w][n] = IF active = {} THEN At("bad")
                                 ELSE [At("pushing") EXCEPT !.todo = active]]
        BY <2>2 DEF StartPush
      <3> DEFINE j == IF active = {} THEN At("bad") ELSE [At("pushing") EXCEPT !.todo = active]
      <3>2. j \in Job /\ j.at \in Holding
        BY DEF At, Job, Steps, Holding
      <3>3. job' = [job EXCEPT ![w][n] = j]
        BY <3>1
      <3> HIDE DEF j
      <3>4. QED
        BY <1>1, <1>6, <2>2, <3>2, <3>3, Move DEF StartPush
    <2>3. ASSUME NEW d \in Devices, PushTo(w, n, d) PROVE JobsOK /\ RowsOK
      <3>1. PICK c \in {0, 1} : Pushed(w, n, d, c)
        BY <2>3 DEF PushTo
      <3> DEFINE j == [job[w][n] EXCEPT !.todo = @ \ {d}, !.reached = @ + c]
      <3>2. job[w][n] \in Job /\ job[w][n].at = "pushing"
        BY <1>1, <2>3 DEF SendType, PushTo
      <3>3. j \in Job /\ j.at \in Holding
        <4>1. /\ job[w][n].reached + c \in Nat
              /\ job[w][n].todo \ {d} \in SUBSET Devices
              /\ job[w][n].at \in Steps
          BY <3>2 DEF Job
        <4>2. ASSUME NEW q \in Job, NEW X \in SUBSET Devices, NEW Y \in Nat
              PROVE  /\ [q EXCEPT !.todo = X, !.reached = Y] \in Job
                     /\ [q EXCEPT !.todo = X, !.reached = Y].at = q.at
          BY DEF Job
        <4>3. j \in Job /\ j.at = job[w][n].at
          BY <3>2, <4>1, <4>2
        <4>4. QED
          BY <3>2, <4>3 DEF Holding
      <3>4. job' = [job EXCEPT ![w][n] = j]
        BY <1>1, <3>1, <3>2 DEF Pushed, SendType, Job
      <3> HIDE DEF j
      <3>5. QED
        BY <1>1, <1>6, <2>3, <3>3, <3>4, Move DEF PushTo
    <2>4. CASE Record(w, n) \/ RecordFails(w, n)
      <3>1. Go(w, n, Rest(w))
        BY <2>4 DEF Record, RecordFails
      <3>2. Rest(w) \in Steps /\ (w \in Replicas => Rest(w) = "idle")
        BY <1>1 DEF Rest, Steps
      <3>3. JobsOK
        BY <1>7, <3>1, <3>2
      <3>4. Result(w, n) \in Statuses /\ "deleted" \in Statuses
        BY DEF Result, Statuses, Final
      <3>5. \/ row' = row
            \/ row' = [row EXCEPT ![n] = IF row[n] = "deleted" THEN row[n] ELSE Result(w, n)]
        BY <2>4 DEF Record, RecordFails
      <3>6. RowsOK
        BY <1>1, <3>4, <3>5 DEF SendType
      <3>7. QED
        BY <3>3, <3>6
    <2>5. QED
      BY <1>13, <2>1, <2>2, <2>3, <2>4 DEF Work
  <1>14. ASSUME NEW n \in Notes, Delete(n) PROVE JobsOK /\ RowsOK
    BY <1>5, <1>8, <1>14 DEF Delete, Statuses
  <1>15. ASSUME NEW r \in Replicas, NEW S \in SUBSET Notes, NEW hitsBatch \in BOOLEAN,
                Crash(r, S, hitsBatch)
         PROVE  JobsOK /\ RowsOK
    <2>1. job' = [w \in Workers |-> [n \in Notes |->
                   IF w = r THEN At("idle")
                   ELSE IF w = Request /\ n \in S THEN At("dead") ELSE job[w][n]]]
      BY <1>15 DEF Crash
    <2>2. At("idle") \in Job /\ At("dead") \in Job /\ At("idle").at = "idle"
      BY <1>2 DEF Steps
    <2>3. job' \in [Workers -> [Notes -> Job]]
      BY <1>1, <2>1, <2>2 DEF SendType
    <2>4. ASSUME NEW q \in Replicas, NEW m \in Notes
          PROVE  job'[q][m].at \in {"idle"} \cup Holding
      <3>1. job'[q][m] \in {At("idle"), job[q][m]}
        BY <1>1, <2>1 DEF Workers
      <3>2. QED
        BY <1>1, <2>2, <3>1 DEF SendType
    <2>5. QED
      BY <1>6, <1>15, <2>3, <2>4 DEF Crash
  <1>16. ASSUME \/ \E n \in Notes : CountRecipient(n)
                \/ \E yes \in BOOLEAN : SendBatch(yes) \/ BeginBatch(yes)
                \/ EndBatch \/ Tick
         PROVE  JobsOK /\ RowsOK
    BY <1>5, <1>6, <1>16 DEF CountRecipient, SendBatch, BeginBatch, EndBatch, Tick
  <1>17. QED
    BY <1>9, <1>10, <1>11, <1>12, <1>13, <1>14, <1>15, <1>16 DEF Next

\* A step keeps the types of the batch.
LEMMA BatchTypes ==
    ASSUME TypeOK, Next
    PROVE  BatchType'
  <1>1. BatchType
    BY TypeParts
  <1>2. batch' = batch /\ stats' = stats => BatchType'
    BY <1>1 DEF BatchType
  <1> DEFINE Phases == {"none", "parked", "begin", "loop", "done", "abandoned", "dead"}
             Batch == [at : Phases, cur : Batched \cup {NoNote}, left : SUBSET Batched,
                       sent : Nat, delivered : Nat, failed : Nat]
             Stat == [sent : Nat, delivered : Nat, failed : Nat, done : BOOLEAN]
  <1>3. batch \in Batch /\ stats \in Stat
    BY <1>1 DEF BatchType
  <1>4. ASSUME batch' \in Batch, stats' \in Stat PROVE BatchType'
    BY <1>4 DEF BatchType
  <1>5. ASSUME NEW b \in Batch, NEW done \in BOOLEAN, SaveStats(b, done)
        PROVE  stats' \in Stat
    <2>1. CASE stats' = stats
      BY <1>3, <2>1
    <2>2. CASE stats' = [sent |-> b.sent, delivered |-> b.delivered,
                         failed |-> b.failed, done |-> done]
      <3>1. b.sent \in Nat /\ b.delivered \in Nat /\ b.failed \in Nat
        OBVIOUS
      <3>2. QED
        BY <2>2, <3>1
    <2>3. QED
      BY <1>5, <2>1, <2>2 DEF SaveStats
  <1>6. ASSUME NEW a \in Phases PROVE [batch EXCEPT !.at = a] \in Batch
    BY <1>3
  <1>7. ASSUME NEW n \in Notes, Send(n) \/ SendRaises(n) PROVE BatchType'
    <2>1. batch' \in Batch
      <3>1. Turn(n)
        BY <1>7 DEF Send, SendRaises
      <3>2. CASE n \in Batched
        BY <1>3, <3>1, <3>2 DEF Turn
      <3>3. CASE n \notin Batched
        BY <1>3, <3>1, <3>3 DEF Turn
      <3>4. QED
        BY <3>2, <3>3
    <2>2. stats' = stats
      BY <1>7 DEF Send, SendRaises
    <2>3. QED
      BY <1>3, <1>4, <2>1, <2>2
  <1>8. ASSUME NEW n \in Notes, CountRecipient(n) PROVE BatchType'
    <2>1. Counted(n) \in Batch
      <3>1. ASSUME NEW x \in Nat, NEW y \in Nat, NEW z \in Nat
            PROVE  [batch EXCEPT !.cur = NoNote, !.sent = x, !.delivered = y,
                                 !.failed = z] \in Batch
        BY <1>3
      <3>2. ASSUME NEW z \in Nat
            PROVE  [batch EXCEPT !.cur = NoNote, !.failed = z] \in Batch
        BY <1>3
      <3>3. /\ batch.sent + 1 \in Nat /\ batch.failed + 1 \in Nat
            /\ batch.delivered + (IF Returned = "sent" THEN 1 ELSE 0) \in Nat
            /\ batch.failed + (IF Returned = "failed" THEN 1 ELSE 0) \in Nat
        BY <1>3
      <3>4. CASE job[Request][n].at = "done"
        BY <3>1, <3>3, <3>4 DEF Counted
      <3>5. CASE job[Request][n].at # "done"
        BY <3>2, <3>3, <3>5 DEF Counted
      <3>6. QED
        BY <3>4, <3>5
    <2>2. SaveStats(Counted(n), FALSE) \/ stats' = stats
      BY <1>8 DEF CountRecipient
    <2>3. stats' \in Stat
      BY <1>3, <1>5, <2>1, <2>2
    <2>4. batch' = Counted(n)
      BY <1>8 DEF CountRecipient
    <2>5. QED
      BY <1>4, <2>1, <2>3, <2>4
  <1>9. ASSUME EndBatch PROVE BatchType'
    <2>1. batch' \in Batch
      BY <1>6, <1>9 DEF EndBatch
    <2>2. stats' \in Stat
      BY <1>3, <1>5, <1>9 DEF EndBatch
    <2>3. QED
      BY <1>4, <2>1, <2>2
  <1>10. ASSUME NEW yes \in BOOLEAN, SendBatch(yes) \/ BeginBatch(yes) PROVE BatchType'
    <2>1. PICK a \in {"parked", "begin", "loop", "abandoned"} :
            batch' = [batch EXCEPT !.at = a]
      BY <1>10 DEF SendBatch, BeginBatch
    <2>2. batch' \in Batch
      BY <1>6, <2>1
    <2>3. QED
      BY <1>3, <1>4, <1>10, <2>2 DEF SendBatch, BeginBatch
  <1>11. ASSUME NEW r \in Replicas, NEW S \in SUBSET Notes, NEW hitsBatch \in BOOLEAN,
                Crash(r, S, hitsBatch)
         PROVE  BatchType'
    <2>1. batch' = batch \/ batch' = [batch EXCEPT !.at = "dead"]
      BY <1>11 DEF Crash
    <2>2. batch' \in Batch
      BY <1>3, <1>6, <2>1
    <2>3. QED
      BY <1>3, <1>4, <1>11, <2>2 DEF Crash
  <1>12. ASSUME NEW n \in Notes,
                Check(n) \/ Claim(n) \/ ClaimFails(n) \/ Delete(n)
         PROVE  BatchType'
    BY <1>2, <1>12 DEF Check, Claim, ClaimFails, Delete, batching
  <1>13. ASSUME NEW w \in Workers, NEW n \in Notes, Work(w, n) \/ RecordFails(w, n)
         PROVE  BatchType'
    BY <1>2, <1>13 DEF Work, SendSms, Hand, StartPush, PushTo, EndPush, Record, RecordFails,
       batching
  <1>14. ASSUME (\E r \in Replicas : Poll(r) \/ PollFails(r)) \/ Tick
         PROVE  BatchType'
    BY <1>2, <1>14 DEF Poll, PollFails, Tick, batching
  <1>15. QED
    BY <1>7, <1>8, <1>9, <1>10, <1>11, <1>12, <1>13, <1>14 DEF Next

\* A step keeps the types of what is remembered of the past.
LEMMA HistoryTypes ==
    ASSUME TypeOK, Next
    PROVE  HistoryType'
  <1>1. HistoryType /\ MaxFaults \in Nat
    BY TypeParts, ConstantsAssumption
  <1> DEFINE Faults == {"claim", "status", "answer", "crash", "assumed", "unread"}
  <1>2. Fault => faults' \in 0..MaxFaults
    BY <1>1 DEF Fault, HistoryType
  <1>3. /\ faults' = faults => faults' \in 0..MaxFaults
        /\ calls' = calls => calls' \in [Notes -> [Targets -> Nat]]
        /\ accepted' = accepted => accepted' \in [Notes -> SUBSET Targets]
        /\ announced' = announced => announced' \in [Notes -> {"none", "pending", "sending"}]
        /\ blame' = blame => blame' \in [Notes -> SUBSET Faults]
        /\ due' = due => due' \in BOOLEAN
    BY <1>1 DEF HistoryType
  <1>4. \A n \in Notes, t \in Targets : Offer(n, t) => calls' \in [Notes -> [Targets -> Nat]]
    BY <1>1 DEF Offer, HistoryType
  <1>5. \A n \in Notes, t \in Targets : Take(n, t) => accepted' \in [Notes -> SUBSET Targets]
    BY <1>1 DEF Take, HistoryType
  <1>6. \A n \in Notes, why \in Faults : Blame(n, why) => blame' \in [Notes -> SUBSET Faults]
    BY <1>1 DEF Blame, HistoryType
  <1>7. \A w \in Workers, n \in Notes :
          Publish(w, n) => announced' \in [Notes -> {"none", "pending", "sending"}]
    BY <1>1 DEF Publish, HistoryType
  <1>8. Provider \in Targets /\ Devices \subseteq Targets
    BY DEF Targets
  <1>9. SUFFICES /\ due' \in BOOLEAN
                 /\ calls' \in [Notes -> [Targets -> Nat]]
                 /\ accepted' \in [Notes -> SUBSET Targets]
                 /\ announced' \in [Notes -> {"none", "pending", "sending"}]
                 /\ blame' \in [Notes -> SUBSET Faults]
                 /\ faults' \in 0..MaxFaults
    BY DEF HistoryType
  <1>10. CASE \E n \in Notes : Send(n) \/ Check(n) \/ Claim(n) \/ Delete(n)
    BY <1>3, <1>10 DEF Send, Check, Claim, Delete
  <1>11. ASSUME NEW n \in Notes, SendRaises(n) \/ ClaimFails(n)
         PROVE  HistoryType'
    <2>1. blame' \in [Notes -> SUBSET Faults]
      BY <1>3, <1>6, <1>11 DEF SendRaises, ClaimFails
    <2>2. QED
      BY <1>2, <1>3, <1>11, <2>1 DEF SendRaises, ClaimFails, HistoryType
  <1>12. ASSUME NEW n \in Notes, CountRecipient(n) PROVE HistoryType'
    <2>1. faults' \in 0..MaxFaults
      BY <1>2, <1>3, <1>12 DEF CountRecipient, SaveStats
    <2>2. QED
      BY <1>3, <1>12, <2>1 DEF CountRecipient, HistoryType
  <1>13. CASE EndBatch
    <2>1. faults' \in 0..MaxFaults
      BY <1>2, <1>3, <1>13 DEF EndBatch, SaveStats
    <2>2. QED
      BY <1>3, <1>13, <2>1 DEF EndBatch
  <1>14. ASSUME NEW w \in Workers, NEW n \in Notes, Work(w, n) \/ RecordFails(w, n)
         PROVE  HistoryType'
    <2>1. CASE SendSms(w, n) \/ StartPush(w, n) \/ EndPush(w, n)
      BY <1>3, <2>1 DEF SendSms, StartPush, EndPush, HistoryType
    <2>2. CASE Hand(w, n)
      <3>1. calls' \in [Notes -> [Targets -> Nat]]
        BY <1>4, <1>8, <2>2 DEF Hand
      <3>2. accepted' \in [Notes -> SUBSET Targets]
        BY <1>3, <1>5, <1>8, <2>2 DEF Hand
      <3>3. blame' \in [Notes -> SUBSET Faults]
        BY <1>3, <1>6, <2>2 DEF Hand
      <3>4. QED
        BY <1>3, <2>2, <3>1, <3>2, <3>3 DEF Hand, HistoryType
    <2>3. ASSUME NEW d \in Devices, PushTo(w, n, d) PROVE HistoryType'
      <3>1. calls' \in [Notes -> [Targets -> Nat]]
        BY <1>3, <1>4, <1>8, <2>3 DEF PushTo
      <3>2. accepted' \in [Notes -> SUBSET Targets]
        BY <1>3, <1>5, <1>8, <2>3 DEF PushTo
      <3>3. blame' \in [Notes -> SUBSET Faults]
        BY <1>3, <1>6, <2>3 DEF PushTo
      <3>4. QED
        BY <1>3, <2>3, <3>1, <3>2, <3>3 DEF PushTo, HistoryType
    <2>4. CASE Record(w, n)
      BY <1>3, <1>7, <2>4 DEF Record, HistoryType
    <2>5. CASE RecordFails(w, n)
      <3>1. blame' \in [Notes -> SUBSET Faults]
        BY <1>6, <2>5 DEF RecordFails
      <3>2. QED
        BY <1>2, <1>3, <1>7, <2>5, <3>1 DEF RecordFails, HistoryType
    <2>6. QED
      BY <1>14, <2>1, <2>2, <2>3, <2>4, <2>5 DEF Work
  <1>15. ASSUME NEW r \in Replicas, Poll(r) PROVE HistoryType'
    <2>1. blame' \in [Notes -> SUBSET Faults]
      BY <1>1, <1>15 DEF Poll, HistoryType
    <2>2. QED
      BY <1>3, <1>15, <2>1 DEF Poll, HistoryType
  <1>16. ASSUME NEW r \in Replicas, PollFails(r) PROVE HistoryType'
    <2>1. blame' \in [Notes -> SUBSET Faults]
      BY <1>1, <1>16 DEF PollFails, HistoryType
    <2>2. QED
      BY <1>2, <1>3, <1>16, <2>1 DEF PollFails, HistoryType
  <1>17. CASE \E yes \in BOOLEAN : SendBatch(yes) \/ BeginBatch(yes)
    BY <1>3, <1>17 DEF SendBatch, BeginBatch
  <1>18. CASE Tick
    <2>1. due' \in BOOLEAN
      BY <1>18 DEF Tick
    <2>2. QED
      BY <1>3, <1>18, <2>1 DEF Tick
  <1>19. ASSUME NEW r \in Replicas, NEW S \in SUBSET Notes, NEW hitsBatch \in BOOLEAN,
                Crash(r, S, hitsBatch)
         PROVE  HistoryType'
    <2>1. blame' \in [Notes -> SUBSET Faults]
      BY <1>1, <1>19 DEF Crash, HistoryType
    <2>2. QED
      BY <1>2, <1>3, <1>19, <2>1 DEF Crash, HistoryType
  <1>20. QED
    BY <1>10, <1>11, <1>12, <1>13, <1>14, <1>15, <1>16, <1>17, <1>18, <1>19
       DEF Next, HistoryType

(***************************************************************************)
(* The theorems                                                            *)
(***************************************************************************)

\* Every step keeps the invariant.
LEMMA NextInv == DeliveryInv /\ [Next]_vars => DeliveryInv'
  <1> SUFFICES ASSUME DeliveryInv, [Next]_vars PROVE DeliveryInv'
    OBVIOUS
  <1>1. TypeOK
    BY DEF DeliveryInv
  <1>2. CASE Next
    <2>1. TypeOK'
      BY <1>1, <1>2, SendTypes, BatchTypes, HistoryTypes, TypeParts
    <2>2. \A m \in Notes : Sound(m)'
      <3>1. CASE \E n \in Notes : Send(n) \/ SendRaises(n) \/ Check(n) \/ Claim(n)
                                  \/ ClaimFails(n) \/ Delete(n)
        BY <3>1, SendSound, CheckSound, ClaimSound, DeleteSound
      <3>2. CASE \E w \in Workers, n \in Notes : Work(w, n) \/ RecordFails(w, n)
        BY <3>2, OnwardSound, HandSound, PushSound, RecordSound DEF Work
      <3>3. CASE \E r \in Replicas : Poll(r) \/ PollFails(r)
        BY <3>3, PollSound
      <3>4. CASE \E r \in Replicas, S \in SUBSET Notes, hitsBatch \in BOOLEAN :
                   Crash(r, S, hitsBatch)
        BY <3>4, CrashSound
      <3>5. CASE \E yes \in BOOLEAN : SendBatch(yes) \/ BeginBatch(yes)
        BY <3>5, ElseSound DEF SendBatch, BeginBatch
      <3>6. CASE (\E n \in Notes : CountRecipient(n)) \/ EndBatch
        <4>1. /\ kind' = kind /\ due' = due /\ row' = row /\ job' = job /\ calls' = calls
              /\ accepted' = accepted /\ announced' = announced /\ blame' = blame
          BY <3>6 DEF CountRecipient, EndBatch
        <4>2. QED
          BY <4>1, ElseSound
      <3>7. CASE Tick
        <4>1. /\ kind' = kind /\ row' = row /\ job' = job /\ calls' = calls
              /\ accepted' = accepted /\ announced' = announced /\ blame' = blame
          BY <3>7 DEF Tick
        <4>2. due'
          BY <3>7 DEF Tick
        <4>3. QED
          BY <4>1, <4>2, ElseSound
      <3>8. QED
        BY <1>2, <3>1, <3>2, <3>3, <3>4, <3>5, <3>6, <3>7 DEF Next
    <2>3. QED
      BY <2>1, <2>2 DEF DeliveryInv
  <1>3. CASE UNCHANGED vars
    <2>1. \A m \in Notes : Sound(m)'
      BY <1>3, ElseSound DEF vars
    <2>2. TypeOK'
      BY <1>1, <1>3 DEF TypeOK, vars
    <2>3. QED
      BY <2>1, <2>2 DEF DeliveryInv
  <1>4. QED
    BY <1>2, <1>3

LEMMA AlwaysInv == Spec => []DeliveryInv
  BY InitInv, NextInv, PTL DEF Spec

\* Whatever is claimed, lost or crashes, the tables keep their types, and a
\* background loop is either at rest or holds a claim.
THEOREM DeliveryTyped == Spec => []TypeOK
  <1>1. DeliveryInv => TypeOK
    BY DEF DeliveryInv
  <1>2. QED
    BY <1>1, AlwaysInv, PTL

\* Requests and any number of background loops compete for the same rows, and
\* crash: no target is offered a notification twice.
THEOREM NobodyNotifiedTwice == Spec => []OfferedOnce
  BY InvImplies, AlwaysInv, PTL

\* SENT, DELIVERED and an announcement mean that a target took the notification
\* or that an iOS device was counted as reached, to which the code sends nothing
\* ("assumed"); FAILED means that no target took it, or that the answer of one
\* that did was lost ("answer").
THEOREM StatusesTrue == Spec => []StatusIsTrue
  BY InvImplies, AlwaysInv, PTL

\* Nothing is claimed or handed over before its scheduled time.
THEOREM NothingEarly == Spec => []NotBeforeTime
  BY InvImplies, AlwaysInv, PTL

\* A step that changes a final status deletes the row.
LEMMA StatusStep ==
    ASSUME DeliveryInv, [Next]_vars, NEW n \in Notes, row[n] \in Final
    PROVE  row'[n] \in {row[n], "deleted"}
  <1>1. SendType
    BY Typed
  <1>2. \A w \in Workers : job[w][n].at \notin Holding
    BY DEF DeliveryInv, Sound, Knows, Final
  <1>3. job[Request][n].at # "idle"
    BY RequestIn DEF DeliveryInv, Sound, Knows, Final
  <1>4. row[n] # "pending"
    BY DEF Final
  <1>5. ASSUME NEW m \in Notes, Send(m) \/ SendRaises(m) PROVE row'[n] = row[n]
    <2>1. m # n
      BY <1>3, <1>5 DEF Send, SendRaises
    <2>2. QED
      BY <1>1, <1>5, <2>1 DEF Send, SendRaises, SendType
  <1>6. ASSUME NEW m \in Notes, Claim(m) \/ ClaimFails(m) PROVE row'[n] = row[n]
    BY <1>1, <1>4, <1>6 DEF Claim, ClaimFails, Claimable, SendType
  <1>7. ASSUME NEW m \in Notes, Delete(m) PROVE row'[n] \in {row[n], "deleted"}
    BY <1>1, <1>7 DEF Delete, SendType
  <1>8. ASSUME NEW r \in Replicas, Poll(r) \/ PollFails(r) PROVE row'[n] = row[n]
    <2>1. PICK S \in SUBSET Notes : Round(S)
      BY <1>8 DEF Poll, PollFails
    <2>2. n \notin S
      BY <1>4, <2>1 DEF Round, Waiting
    <2>3. QED
      BY <2>1, <2>2 DEF Round
  <1>9. ASSUME NEW w \in Workers, NEW m \in Notes, Work(w, m) \/ RecordFails(w, m)
        PROVE  row'[n] = row[n]
    <2>1. CASE Record(w, m)
      <3>1. m # n
        BY <1>2, <2>1 DEF Record, Holding
      <3>2. QED
        BY <1>1, <2>1, <3>1 DEF Record, SendType
    <2>2. CASE ~Record(w, m)
      BY <1>9, <2>2 DEF Work, SendSms, Hand, StartPush, PushTo, EndPush, RecordFails
    <2>3. QED
      BY <2>1, <2>2
  <1>10. ASSUME NEW m \in Notes, Check(m) \/ CountRecipient(m) PROVE row'[n] = row[n]
    BY <1>10 DEF Check, CountRecipient
  <1>11. ASSUME \/ \E yes \in BOOLEAN : SendBatch(yes) \/ BeginBatch(yes)
                \/ EndBatch \/ Tick \/ UNCHANGED vars
         PROVE  row'[n] = row[n]
    BY <1>11 DEF SendBatch, BeginBatch, EndBatch, Tick, vars
  <1>12. ASSUME NEW r \in Replicas, NEW S \in SUBSET Notes, NEW hitsBatch \in BOOLEAN,
                Crash(r, S, hitsBatch)
         PROVE  row'[n] = row[n]
    BY <1>12 DEF Crash
  <1>13. QED
    BY <1>5, <1>6, <1>7, <1>8, <1>9, <1>10, <1>11, <1>12 DEF Next

\* No late coroutine of another worker overwrites a final status, although
\* update_notification_status goes by the id alone.
THEOREM FinalStatusStays == Spec => FinalStays
  <1>1. DeliveryInv /\ [Next]_vars =>
          [\A n \in Notes : row[n] \in Final => row'[n] \in {row[n], "deleted"}]_vars
    BY StatusStep
  <1>2. QED
    BY <1>1, AlwaysInv, PTL DEF Spec, FinalStays
=============================================================================
