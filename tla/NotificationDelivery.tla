------------------------ MODULE NotificationDelivery ------------------------
(***************************************************************************)
(* Sending notifications (microservices/notification_service).  A request  *)
(* stores a notification as PENDING, claims it and hands it to the channel *)
(* of its type; every replica also runs a loop that claims what is pending *)
(* and due and hands that over.  A batch is a background task that sends   *)
(* one notification after the other.  Every step below ends where the code *)
(* awaits the database or a provider.                                      *)
(***************************************************************************)
EXTENDS Naturals, FiniteSets

CONSTANTS
  Notes,        \* notifications, one send_notification call each
  Kinds,        \* what each of them may be: a type and a scheduled_at
  Batched,      \* the notifications that are sent by the batch
  NoNote,       \* the batch is between two notifications
  Devices,      \* push devices a recipient may have
  Ios,          \* those of them whose platform is iOS
  Provider,     \* where an email, a webhook or an in-app row goes
  Request,      \* the coroutines that serve requests and the batch
  Replicas,     \* the background loops, one per replica
  Limit,        \* rows claimed by one round of a loop (50 in the code)
  StatEvery,    \* the batch saves its counts every so often (10 in the code)
  MaxFaults     \* bound on database errors and crashes

Workers == Replicas \cup {Request}
Targets == Devices \cup {Provider}
Channels == {"email", "in_app", "sms", "push", "webhook"}

\* A time to send at is absent, later, or later and given with a time zone.
Schedules == {"none", "later", "zoned"}

ASSUME ConstantsAssumption ==
  /\ Kinds \in [Notes -> SUBSET [channel : Channels, schedule : Schedules]]
  /\ Batched \subseteq Notes
  /\ \A n \in Batched : \A k \in Kinds[n] : k.schedule = "none"
  /\ NoNote \notin Notes
  /\ Ios \subseteq Devices
  /\ Provider \notin Devices
  /\ Request \notin Replicas
  /\ IsFiniteSet(Notes)
  /\ Limit \in Nat \ {0}
  /\ StatEvery \in Nat \ {0}
  /\ MaxFaults \in Nat

VARIABLES
  kind,         \* the type and the scheduled_at of a notification
  due,          \* the scheduled time has come
  row,          \* status column of a notification's row
  job,          \* what a worker's coroutine does with a notification
  batch,        \* the batch task and its local counts
  stats,        \* the counts stored in the row of the batch
  calls,        \* history: deliveries attempted, per notification and target
  accepted,     \* history: targets that took the notification
  announced,    \* history: the status published with notification.sent
  blame,        \* history: what went wrong with a notification
  faults        \* faults so far

batching == <<batch, stats>>
vars == <<kind, due, row, job, batch, stats, calls, accepted, announced,
          blame, faults>>

Final == {"sent", "delivered", "failed"}
Statuses == {"none", "pending", "sending", "deleted"} \cup Final
Steps == {"idle", "check", "claim", "send", "pushing", "good", "bad",
          "done", "raised", "dead"}
Over == {"done", "raised", "dead"}

\* The coroutine is at step s of a notification.
At(s) == [at |-> s, todo |-> {}, reached |-> 0]

\* One of these coroutines has claimed the notification and not yet
\* recorded how it went.
Holding == {"send", "pushing", "good", "bad"}

Init ==
  /\ kind \in {k \in [Notes -> UNION {Kinds[n] : n \in Notes}] :
                \A n \in Notes : k[n] \in Kinds[n]}
  /\ due = FALSE
  /\ row = [n \in Notes |-> "none"]
  /\ job = [w \in Workers |-> [n \in Notes |-> At("idle")]]
  /\ batch = [at |-> "none", cur |-> NoNote, left |-> Batched,
              sent |-> 0, delivered |-> 0, failed |-> 0]
  /\ stats = [sent |-> 0, delivered |-> 0, failed |-> 0, done |-> FALSE]
  /\ calls = [n \in Notes |-> [t \in Targets |-> 0]]
  /\ accepted = [n \in Notes |-> {}]
  /\ announced = [n \in Notes |-> "none"]
  /\ blame = [n \in Notes |-> {}]
  /\ faults = 0

Go(w, n, s) == job' = [job EXCEPT ![w][n] = At(s)]

Fault ==
  /\ faults < MaxFaults
  /\ faults' = faults + 1

Blame(n, why) == blame' = [blame EXCEPT ![n] = @ \cup {why}]

-----------------------------------------------------------------------------
(* send_notification                                                       *)

\* A notification of the batch is sent when its turn has come.
Turn(n) ==
  IF n \in Batched
  THEN /\ batch.at = "loop"
       /\ batch.cur = NoNote
       /\ n \in batch.left
       /\ batch' = [batch EXCEPT !.cur = n, !.left = @ \ {n}]
  ELSE UNCHANGED batch

\* The row is stored as PENDING.
Send(n) ==
  /\ job[Request][n].at = "idle"
  /\ Turn(n)
  /\ row' = [row EXCEPT ![n] = "pending"]
  /\ Go(Request, n, "check")
  /\ UNCHANGED <<kind, due, stats, calls, accepted, announced, blame, faults>>

\* The INSERT raises, before or after it has taken effect.
SendRaises(n) ==
  /\ Fault
  /\ job[Request][n].at = "idle"
  /\ Turn(n)
  /\ row' \in {row, [row EXCEPT ![n] = "pending"]}
  /\ Go(Request, n, "raised")
  /\ UNCHANGED <<kind, due, stats, calls, accepted, announced, blame>>

Due(n) == kind[n].schedule = "none" \/ due

(* After the INSERT.  Comparing a time that has a zone with utcnow() raises, *)
(* which leaves the row to the loops.                                        *)
Check(n) ==
  /\ job[Request][n].at = "check"
  /\ Go(Request, n, CASE kind[n].schedule = "zoned" -> "raised"
                      [] kind[n].schedule # "zoned" /\ Due(n) -> "claim"
                      [] OTHER -> "done")
  /\ UNCHANGED <<kind, due, row, batching, calls, accepted, announced, blame,
                 faults>>

\* Mutant: the claim does not look at the status of the row.
ClaimableAlways(n) == row[n] \in {"pending", "sending"}

\* The UPDATE of claim_notification finds the row.
Claimable(n) == row[n] = "pending"

Claim(n) ==
  /\ job[Request][n].at = "claim"
  /\ IF Claimable(n)
     THEN /\ row' = [row EXCEPT ![n] = "sending"]
          /\ Go(Request, n, "send")
     ELSE /\ UNCHANGED row
          /\ Go(Request, n, "done")
  /\ UNCHANGED <<kind, due, batching, calls, accepted, announced, blame, faults>>

(* The claim raises and counts as refused, whether or not the row has been *)
(* changed.                                                                *)
ClaimFails(n) ==
  /\ Fault
  /\ job[Request][n].at = "claim"
  /\ Go(Request, n, "done")
  /\ \/ UNCHANGED <<row, blame>>
     \/ /\ Claimable(n)
        /\ row' = [row EXCEPT ![n] = "sending"]
        /\ Blame(n, "claim")
  /\ UNCHANGED <<kind, due, batching, calls, accepted, announced>>

-----------------------------------------------------------------------------
(* process_pending_notifications                                           *)

\* Mutant: rows with a schedule are never looked for.
WaitingUnscheduled ==
  {n \in Notes : row[n] = "pending" /\ kind[n].schedule = "none"}

\* Rows the loops may claim.
Waiting == {n \in Notes : row[n] = "pending" /\ Due(n)}

\* What one round claims: all of them or, past the limit, some of them.
Round(S) ==
  /\ S \subseteq Waiting
  /\ S # {}
  /\ IF Cardinality(Waiting) <= Limit THEN S = Waiting
                                      ELSE Cardinality(S) = Limit
  /\ row' = [n \in Notes |-> IF n \in S THEN "sending" ELSE row[n]]

\* A loop starts a round after everything of its last one has been handled.
Resting(r) == \A n \in Notes : job[r][n].at = "idle"

(* The rows are claimed by one UPDATE and parsed after it.  One that does   *)
(* not parse is dropped, and nobody puts its status back.                  *)
Poll(r) ==
  /\ Resting(r)
  /\ \E S \in SUBSET Notes : \E parsed \in SUBSET S :
       /\ Round(S)
       /\ job' = [job EXCEPT ![r] =
                    [n \in Notes |-> IF n \in parsed THEN At("send") ELSE @[n]]]
       /\ blame' = [n \in Notes |-> IF n \in S \ parsed
                                   THEN blame[n] \cup {"unread"} ELSE blame[n]]
  /\ UNCHANGED <<kind, due, batching, calls, accepted, announced, faults>>

\* The rows are claimed, the answer is lost and the round finds nothing to do.
PollFails(r) ==
  /\ Fault
  /\ Resting(r)
  /\ \E S \in SUBSET Notes :
       /\ Round(S)
       /\ blame' = [n \in Notes |->
                      IF n \in S THEN blame[n] \cup {"claim"} ELSE blame[n]]
  /\ UNCHANGED <<kind, due, job, batching, calls, accepted, announced>>

-----------------------------------------------------------------------------
(* _process_notification, once the row is claimed                          *)

\* The notification is offered to a target.
Offer(n, t) == calls' = [calls EXCEPT ![n][t] = @ + 1]

Take(n, t) == accepted' = [accepted EXCEPT ![n] = @ \cup {t}]

\* SMS is not implemented: the notification fails.
SendSms(w, n) ==
  /\ job[w][n].at = "send"
  /\ kind[n].channel = "sms"
  /\ Go(w, n, "bad")
  /\ UNCHANGED <<kind, due, row, batching, calls, accepted, announced, blame,
                 faults>>

(* An email, a webhook or an in-app row: taken, refused, or taken although *)
(* the answer says otherwise or never arrives.                             *)
Hand(w, n) ==
  /\ job[w][n].at = "send"
  /\ kind[n].channel \in {"email", "webhook", "in_app"}
  /\ Offer(n, Provider)
  /\ \/ /\ Take(n, Provider)
        /\ Go(w, n, "good")
        /\ UNCHANGED blame
     \/ /\ Go(w, n, "bad")
        /\ UNCHANGED <<accepted, blame>>
     \/ /\ Take(n, Provider)
        /\ Go(w, n, "bad")
        /\ Blame(n, "answer")
  /\ UNCHANGED <<kind, due, row, batching, announced, faults>>

(* The active subscriptions are read.  Devices come and go by requests of  *)
(* their own, and a read that fails looks like no subscription at all: the *)
(* answer is any set, and without a device the notification fails.         *)
StartPush(w, n) ==
  /\ job[w][n].at = "send"
  /\ kind[n].channel = "push"
  /\ \E active \in SUBSET Devices :
       job' = [job EXCEPT ![w][n] = IF active = {} THEN At("bad")
                                    ELSE [At("pushing") EXCEPT !.todo = active]]
  /\ UNCHANGED <<kind, due, row, batching, calls, accepted, announced, blame,
                 faults>>

\* The device is done with; it counts as reached or not.
Pushed(w, n, d, count) ==
  job' = [job EXCEPT ![w][n].todo = @ \ {d}, ![w][n].reached = @ + count]

\* One device after the other.  Nothing is sent to an iOS device: the code
\* logs what it would send and counts the device as reached.
PushTo(w, n, d) ==
  /\ job[w][n].at = "pushing"
  /\ d \in job[w][n].todo
  /\ IF d \in Ios
     THEN /\ Pushed(w, n, d, 1)
          /\ Blame(n, "assumed")
          /\ UNCHANGED <<calls, accepted>>
     ELSE /\ Offer(n, d)
          /\ \/ /\ Take(n, d)
                /\ Pushed(w, n, d, 1)
                /\ UNCHANGED blame
             \/ /\ Pushed(w, n, d, 0)
                /\ UNCHANGED <<accepted, blame>>
             \/ /\ Take(n, d)
                /\ Pushed(w, n, d, 0)
                /\ Blame(n, "answer")
  /\ UNCHANGED <<kind, due, row, batching, announced, faults>>

\* Mutant: the push counts as delivered when it failed on every device.
VerdictAlwaysGood(w, n) == "good"

\* A push is delivered when it reached at least one device.
Verdict(w, n) == IF job[w][n].reached > 0 THEN "good" ELSE "bad"

EndPush(w, n) ==
  /\ job[w][n].at = "pushing"
  /\ job[w][n].todo = {}
  /\ Go(w, n, Verdict(w, n))
  /\ UNCHANGED <<kind, due, row, batching, calls, accepted, announced, blame,
                 faults>>

\* The status that update_notification_status writes.
Result(w, n) ==
  CASE job[w][n].at = "bad" -> "failed"
    [] job[w][n].at # "bad" /\ kind[n].channel = "email" -> "sent"
    [] OTHER -> "delivered"

\* A request's coroutine returns; a loop's one is ready for the next round.
Rest(w) == IF w = Request THEN "done" ELSE "idle"

(* notification.sent carries the status of the object at hand: PENDING as  *)
(* the request made it, or SENDING as the loop's claim returned it.        *)
Publish(w, n) ==
  announced' = IF job[w][n].at = "bad" THEN announced
               ELSE [announced EXCEPT ![n] = IF w = Request THEN "pending"
                                                            ELSE "sending"]

\* The UPDATE goes by the id alone; it finds no row once that is deleted.
Record(w, n) ==
  /\ job[w][n].at \in {"good", "bad"}
  /\ row' = [row EXCEPT ![n] = IF @ = "deleted" THEN @ ELSE Result(w, n)]
  /\ Publish(w, n)
  /\ Go(w, n, Rest(w))
  /\ UNCHANGED <<kind, due, batching, calls, accepted, blame, faults>>

\* The UPDATE fails; nobody looks at its result.
RecordFails(w, n) ==
  /\ Fault
  /\ job[w][n].at \in {"good", "bad"}
  /\ Publish(w, n)
  /\ Go(w, n, Rest(w))
  /\ Blame(n, "status")
  /\ UNCHANGED <<kind, due, row, batching, calls, accepted>>

-----------------------------------------------------------------------------
(* _process_batch                                                          *)

(* The row of the batch is stored.  Only a batch without a schedule gets a *)
(* task; nothing ever looks for the others.                                *)
SendBatch(scheduled) ==
  /\ batch.at = "none"
  /\ batch' = [batch EXCEPT !.at = IF scheduled THEN "parked" ELSE "begin"]
  /\ UNCHANGED <<kind, due, row, job, stats, calls, accepted, announced, blame,
                 faults>>

\* Without its template the batch is given up.
BeginBatch(found) ==
  /\ batch.at = "begin"
  /\ batch' = [batch EXCEPT !.at = IF found THEN "loop" ELSE "abandoned"]
  /\ UNCHANGED <<kind, due, row, job, stats, calls, accepted, announced, blame,
                 faults>>

\* The status in the answer of send_notification: the object is never updated.
Returned == "pending"

\* The recipient is counted as sent or as failed.
Counted(n) ==
  IF job[Request][n].at = "done"
  THEN [batch EXCEPT !.cur = NoNote, !.sent = @ + 1,
                     !.delivered = @ + (IF Returned = "sent" THEN 1 ELSE 0),
                     !.failed = @ + (IF Returned = "failed" THEN 1 ELSE 0)]
  ELSE [batch EXCEPT !.cur = NoNote, !.failed = @ + 1]

\* update_batch_stats, which may fail without anybody noticing.
SaveStats(b, done) ==
  \/ /\ stats' = [sent |-> b.sent, delivered |-> b.delivered,
                  failed |-> b.failed, done |-> done]
     /\ UNCHANGED faults
  \/ /\ Fault
     /\ UNCHANGED stats

CountRecipient(n) ==
  /\ batch.at = "loop"
  /\ batch.cur = n
  /\ job[Request][n].at \in {"done", "raised"}
  /\ batch' = Counted(n)
  /\ IF (Counted(n).sent + Counted(n).failed) % StatEvery = 0
     THEN SaveStats(Counted(n), FALSE)
     ELSE UNCHANGED <<stats, faults>>
  /\ UNCHANGED <<kind, due, row, job, calls, accepted, announced, blame>>

EndBatch ==
  /\ batch.at = "loop"
  /\ batch.cur = NoNote
  /\ batch.left = {}
  /\ batch' = [batch EXCEPT !.at = "done"]
  /\ SaveStats(batch, TRUE)
  /\ UNCHANGED <<kind, due, row, job, calls, accepted, announced, blame>>

-----------------------------------------------------------------------------
(* The surroundings                                                        *)

\* DELETE /notifications/{id}, at any time.
Delete(n) ==
  /\ row[n] \notin {"none", "deleted"}
  /\ row' = [row EXCEPT ![n] = "deleted"]
  /\ UNCHANGED <<kind, due, job, batching, calls, accepted, announced, blame,
                 faults>>

Tick ==
  /\ ~due
  /\ due' = TRUE
  /\ UNCHANGED <<kind, row, job, batching, calls, accepted, announced, blame,
                 faults>>

(* A replica goes down and comes back: its loop's coroutines are gone and, *)
(* with them, the requests (and perhaps the batch task) it was serving.    *)
(* A loop that is cancelled at shutdown does not resume either.            *)
Crash(r, S, hitsBatch) ==
  /\ Fault
  /\ S \subseteq {n \in Notes : job[Request][n].at \notin {"idle"} \cup Over}
  /\ hitsBatch => batch.at \in {"begin", "loop"}
  /\ batch.cur # NoNote /\ job[Request][batch.cur].at \notin Over
       => (hitsBatch <=> batch.cur \in S)
  /\ job' = [w \in Workers |-> [n \in Notes |->
               IF w = r THEN At("idle")
               ELSE IF w = Request /\ n \in S THEN At("dead") ELSE job[w][n]]]
  /\ blame' = [n \in Notes |->
                 IF job[r][n].at \in Holding \/ (n \in S /\ job[Request][n].at \in Holding)
                 THEN blame[n] \cup {"crash"} ELSE blame[n]]
  /\ batch' = IF hitsBatch THEN [batch EXCEPT !.at = "dead"] ELSE batch
  /\ UNCHANGED <<kind, due, row, stats, calls, accepted, announced>>

\* What a coroutine does next with a notification when nothing fails.
Work(w, n) ==
  \/ SendSms(w, n)
  \/ Hand(w, n)
  \/ StartPush(w, n)
  \/ \E d \in Devices : PushTo(w, n, d)
  \/ EndPush(w, n)
  \/ Record(w, n)

Next ==
  \/ \E n \in Notes :
       \/ Send(n) \/ SendRaises(n) \/ Check(n) \/ Claim(n) \/ ClaimFails(n)
       \/ CountRecipient(n) \/ Delete(n)
  \/ \E w \in Workers, n \in Notes :
       Work(w, n) \/ RecordFails(w, n)
  \/ \E r \in Replicas : Poll(r) \/ PollFails(r)
  \/ \E yes \in BOOLEAN : SendBatch(yes) \/ BeginBatch(yes)
  \/ EndBatch
  \/ Tick
  \/ \E r \in Replicas, S \in SUBSET Notes, hitsBatch \in BOOLEAN :
       Crash(r, S, hitsBatch)

Spec == Init /\ [][Next]_vars

\* The coroutine of a request, up to the point where it works on its claim.
Serve(n) == Check(n) \/ Claim(n) \/ Work(Request, n)

BatchTask ==
  \/ \E found \in BOOLEAN : BeginBatch(found)
  \/ \E n \in Batched : Send(n) \/ CountRecipient(n)
  \/ EndBatch

(* A coroutine that can run does run: that of a request, that of a         *)
(* notification of a round, the batch task; and every loop wakes up after  *)
(* its sleep.  Nothing makes requests, time, deletions or faults happen.   *)
Fairness ==
  /\ \A n \in Notes : WF_vars(Serve(n))
  /\ \A r \in Replicas, n \in Notes : WF_vars(Work(r, n))
  /\ \A r \in Replicas : WF_vars(Poll(r))
  /\ WF_vars(BatchTask)

FairSpec == Spec /\ Fairness

-----------------------------------------------------------------------------
(* Properties                                                              *)

TypeOK ==
  /\ kind \in [Notes -> [channel : Channels, schedule : Schedules]]
  /\ due \in BOOLEAN
  /\ row \in [Notes -> Statuses]
  /\ job \in [Workers -> [Notes ->
                [at : Steps, todo : SUBSET Devices, reached : Nat]]]
  /\ \A r \in Replicas, n \in Notes : job[r][n].at \in {"idle"} \cup Holding
  /\ batch \in [at : {"none", "parked", "begin", "loop", "done", "abandoned", "dead"},
                cur : Batched \cup {NoNote}, left : SUBSET Batched,
                sent : Nat, delivered : Nat, failed : Nat]
  /\ stats \in [sent : Nat, delivered : Nat, failed : Nat, done : BOOLEAN]
  /\ calls \in [Notes -> [Targets -> Nat]]
  /\ accepted \in [Notes -> SUBSET Targets]
  /\ announced \in [Notes -> {"none", "pending", "sending"}]
  /\ blame \in [Notes -> SUBSET {"claim", "status", "answer", "crash", "assumed",
                                 "unread"}]
  /\ faults \in 0..MaxFaults

(* Request and loops, and the loops of several replicas, compete for the   *)
(* same rows, and crash: nobody is ever notified twice, because a claim    *)
(* (claim_notification, get_pending_notifications) is never given back.    *)
OfferedOnce == \A n \in Notes, t \in Targets : calls[n][t] <= 1

(* A status that is final says what happened, but for two excuses: SENT or *)
(* DELIVERED that a target took the notification, or that an iOS device    *)
(* was counted as reached although the code only logs what it would send   *)
(* ("assumed"); FAILED that no target took it, or that its answer was lost *)
(* ("answer").  notification.sent is published on the same terms.          *)
StatusIsTrue ==
  \A n \in Notes :
    /\ row[n] \in {"sent", "delivered"} \/ announced[n] # "none" =>
         accepted[n] # {} \/ "assumed" \in blame[n]
    /\ row[n] = "failed" => accepted[n] = {} \/ "answer" \in blame[n]

(* Nothing is handed over before its scheduled time, whether the request   *)
(* or a loop claims it (send_notification and get_pending_notifications    *)
(* decide that separately).                                                *)
NotBeforeTime ==
  \A n \in Notes : ~Due(n) => /\ row[n] \in {"none", "pending", "deleted"}
                              /\ \A t \in Targets : calls[n][t] = 0

(* A final status is final: no late coroutine of another worker overwrites *)
(* it, although update_notification_status goes by the id alone.           *)
FinalStays ==
  [][\A n \in Notes : row[n] \in Final => row'[n] \in {row[n], "deleted"}]_vars

(* A stored notification that is due gets a final status, unless it is     *)
(* deleted, its row is dropped by a loop that cannot parse it or a fault   *)
(* hits it: also one whose request raised or ended before its time.        *)
Settles ==
  \A n \in Notes : row[n] = "pending" /\ Due(n)
    ~> \/ row[n] \in Final \cup {"deleted"}
       \/ blame[n] \cap {"claim", "status", "crash", "unread"} # {}

(* What the docs lead one to expect of an interrupted send: it is taken up *)
(* again.  The code never looks at a row in SENDING.                       *)
AlwaysSettles ==
  \A n \in Notes : row[n] = "sending" ~> row[n] \in Final \cup {"deleted"}

=============================================================================
