--------------------- MODULE SubscriptionCreditsProofs ---------------------
(***************************************************************************)
(* For any number of callers, payers, requests and amounts: the credit     *)
(* columns and the reservations keep their types (no balance is negative), *)
(* a request holds credits once, events and answers agree with the rows, a *)
(* finished reservation is final, and the rows implement CreditEscrow.     *)
(*                                                                         *)
(* Over any number of rows, what was charged and what is held add up to    *)
(* what is used and reserved, and the history adds up to what was taken;   *)
(* the facts about sums come from SumTheorems.                             *)
(***************************************************************************)
EXTENDS SubscriptionCredits, SumTheorems, SequenceTheorems

\* An operation in progress carries what its next statement needs.
GoodCall(x, D) ==
    /\ x \in Call
    /\ x.step \in {"update", "adjust", "take", "log"} => x.sub \in D
    /\ x.step \in {"insert", "begin", "commit"} => x.payer \in Payers
    /\ x.step \in {"take", "begin", "commit"} => x.n \in Amounts

CallsInv == /\ call \in [Calls -> Call]
            /\ \A c \in Calls : GoodCall(call[c], DOMAIN subs)

\* The columns of a reservation and its last answer, status by status.
GoodHold(row, answer) ==
    /\ row.status = "pending" => row.actual = 0 /\ answer = -1
    /\ row.status = "reconciled" => /\ row.refunded = Monus(row.estimated, row.actual)
                                    /\ row.extra = Monus(row.actual, row.estimated)
                                    /\ answer = CreditsConsumed(row)
    /\ row.status = "pending" => row.refunded = 0 /\ row.extra = 0
    /\ row.status = "released" => row.actual = 0 /\ answer = -1

HoldsInv == \A h \in DOMAIN holds : GoodHold(holds[h], receipt[h])

SubsInv == /\ subs \in Seq(Subscription)
           /\ logged \in [DOMAIN subs -> Int]
           /\ spent \in [DOMAIN subs -> Nat]
           /\ adjusted \subseteq DOMAIN subs

RowsInv == /\ holds \in Seq(Reservation)
           /\ \A h \in DOMAIN holds : holds[h].sub \in DOMAIN subs
           /\ receipt \in [DOMAIN holds -> {-1} \cup Nat]
           /\ events \subseteq Announcements \X DOMAIN holds
           /\ HoldsInv
           /\ OneHoldPerRequest
           /\ EventsAgree

CountsInv == ops \in 0..MaxOps /\ faults \in 0..MaxFaults

CreditsInv == SubsInv /\ RowsInv /\ CallsInv /\ CountsInv

-----------------------------------------------------------------------------
\* Newest finds a member of any non-empty set of positions.
LEMMA NewestIn ==
    ASSUME NEW n \in Nat, NEW S \in SUBSET (1..n), S # {}
    PROVE Newest(S) \in S
  <1> DEFINE T == {n - i : i \in S}
  <1>1. T \subseteq Nat /\ T # {}
    <2>1. \A i \in S : n - i \in Nat
      OBVIOUS
    <2>2. QED
      BY <2>1, Zenon
  <1>2. PICK x \in T : \A y \in T : ~(<<y, x>> \in OpToRel(<, Nat))
    BY <1>1, NatLessThanWellFounded, WFMin
  <1>3. PICK i \in S : x = n - i
    OBVIOUS
  <1>4. ASSUME NEW j \in S PROVE j <= i
    <2>1. n - j \in T /\ n - j \in Nat /\ x \in Nat
      BY <1>1
    <2>2. ~(n - j < x)
      BY <1>2, <2>1 DEF OpToRel
    <2>3. i \in Int /\ j \in Int
      OBVIOUS
    <2>4. QED
      BY <1>3, <2>2, <2>3
  <1>5. QED
    BY <1>4 DEF Newest

LEMMA NewestActive ==
    ASSUME SubsInv, NEW p, ActiveOf(p) # {}
    PROVE Newest(ActiveOf(p)) \in DOMAIN subs
  <1>1. Len(subs) \in Nat /\ DOMAIN subs = 1..Len(subs)
    BY LenProperties DEF SubsInv
  <1>2. ActiveOf(p) \in SUBSET (1..Len(subs))
    BY <1>1 DEF ActiveOf
  <1>3. QED
    BY <1>1, <1>2, NewestIn

\* One call goes on and subscriptions are only added: the calls stay good.
LEMMA CallGoesOn ==
    ASSUME CallsInv, NEW c \in Calls, NEW x,
           call' = [call EXCEPT ![c] = x], DOMAIN subs \subseteq DOMAIN subs',
           GoodCall(x, DOMAIN subs')
    PROVE CallsInv'
  BY DEF CallsInv, GoodCall

\* So they do when no call is touched.
LEMMA CallsStay ==
    ASSUME CallsInv, UNCHANGED call, DOMAIN subs \subseteq DOMAIN subs'
    PROVE CallsInv'
  BY DEF CallsInv, GoodCall

LEMMA IdleIsGood == \A D : GoodCall(Idle, D)
  <1>1. Idle \in Call
    BY DEF Idle, Call, Steps
  <1>2. QED
    BY <1>1 DEF GoodCall, Idle

\* Only the calls change.
LEMMA DataStays ==
    ASSUME UNCHANGED <<subs, holds, logged, spent, events, receipt, adjusted>>
    PROVE /\ SubsInv => SubsInv'
          /\ RowsInv => RowsInv'
  BY DEF SubsInv, RowsInv, HoldsInv, OneHoldPerRequest, EventsAgree

-----------------------------------------------------------------------------
\* One subscription's row is overwritten.
LEMMA SubWritten ==
    ASSUME SubsInv, NEW i \in DOMAIN subs, NEW s \in Subscription,
           subs' = [subs EXCEPT ![i] = s]
    PROVE /\ subs' \in Seq(Subscription)
          /\ DOMAIN subs' = DOMAIN subs
  <1>1. DOMAIN subs = 1..Len(subs)
    BY LenProperties DEF SubsInv
  <1>2. QED
    BY <1>1, ExceptSeq, LenProperties DEF SubsInv

\* A row keeps its type when credits it has are taken, when credits are given
\* back, and when an administrator writes it.
LEMMA WritesTyped ==
    ASSUME NEW s \in Subscription, NEW n \in Nat
    PROVE /\ n <= s.remaining => Take(s, n) \in Subscription
          /\ GiveBack(s, n) \in Subscription
  <1> DEFINE row(u, r) == [s EXCEPT !.used = u, !.remaining = r]
  <1>0. s.used \in Nat /\ s.remaining \in Nat
    BY DEF Subscription
  <1>1. \A u, r \in Nat : row(u, r) \in Subscription
    BY DEF Subscription
  <1>2. ASSUME n <= s.remaining PROVE Take(s, n) \in Subscription
    <2>1. s.used + n \in Nat /\ s.remaining - n \in Nat
      BY <1>0, <1>2
    <2>2. row(s.used + n, s.remaining - n) \in Subscription
      <3> HIDE DEF row
      <3> QED BY <1>1, <2>1
    <2>3. QED
      BY <2>2, Zenon DEF Take
  <1>3. GiveBack(s, n) \in Subscription
    <2> DEFINE u == IF s.used > n THEN s.used - n ELSE 0
    <2>1. u \in Nat /\ s.remaining + n \in Nat
      BY <1>0
    <2>2. row(u, s.remaining + n) \in Subscription
      <3> HIDE DEF row, u
      <3> QED BY <1>1, <2>1
    <2>3. QED
      BY <2>2, Zenon DEF GiveBack
  <1>4. QED
    BY <1>2, <1>3

LEMMA AdjustedTyped ==
    ASSUME NEW s \in Subscription, NEW seen \in Call
    PROVE Adjusted(s, seen) \in Subscription
  <1> DEFINE row(r, a) == [s EXCEPT !.remaining = r, !.allocated = a]
             r1 == Monus(seen.remaining, -seen.n)
             a1 == IF seen.n > 0 THEN seen.allocated + seen.n ELSE s.allocated
  <1>0. s.allocated \in Nat
    BY DEF Subscription
  <1>1. \A r, a \in Nat : row(r, a) \in Subscription
    BY DEF Subscription
  <1>2. seen.n \in Int /\ seen.remaining \in Nat /\ seen.allocated \in Nat
    BY DEF Call
  <1>3. r1 \in Nat /\ a1 \in Nat
    BY <1>0, <1>2 DEF Monus
  <1>4. row(r1, a1) \in Subscription
    <2> HIDE DEF row, r1, a1
    <2> QED BY <1>1, <1>3
  <1>5. QED
    BY <1>4, Zenon DEF Adjusted

\* The reservations stay; nobody hears of a settlement.
LEMMA RowsStay ==
    ASSUME RowsInv, UNCHANGED <<holds, receipt>>, DOMAIN subs \subseteq DOMAIN subs',
           events' = events \/ \E h \in DOMAIN holds : Announce("reserved", h)
    PROVE RowsInv'
  <1>1. events' \subseteq Announcements \X DOMAIN holds
    BY DEF RowsInv, Announce, Announcements
  <1>2. \A h \in DOMAIN holds, k \in {"reconciled", "released"} :
            <<k, h>> \in events' => <<k, h>> \in events
    BY DEF Announce
  <1>3. EventsAgree'
    BY <1>2 DEF RowsInv, EventsAgree
  <1>4. QED
    BY <1>1, <1>3 DEF RowsInv, HoldsInv, OneHoldPerRequest

\* A pending reservation is settled, and that is what is announced.
LEMMA HoldSettled ==
    ASSUME RowsInv, NEW h \in DOMAIN holds, holds[h].status = "pending",
           NEW row \in Reservation, row.status \in {"reconciled", "released"},
           row.request = holds[h].request, row.sub = holds[h].sub,
           NEW answer \in {-1} \cup Nat, GoodHold(row, answer),
           holds' = [holds EXCEPT ![h] = row], receipt' = [receipt EXCEPT ![h] = answer],
           Announce(row.status, h), DOMAIN subs \subseteq DOMAIN subs'
    PROVE RowsInv'
  <1>1. DOMAIN holds = 1..Len(holds)
    BY LenProperties DEF RowsInv
  <1>2. /\ holds' \in Seq(Reservation)
        /\ DOMAIN holds' = DOMAIN holds
        /\ \A g \in DOMAIN holds : holds'[g] = IF g = h THEN row ELSE holds[g]
    BY <1>1, ExceptSeq, LenProperties DEF RowsInv
  <1>3. /\ receipt' \in [DOMAIN holds -> {-1} \cup Nat]
        /\ \A g \in DOMAIN holds : receipt'[g] = IF g = h THEN answer ELSE receipt[g]
    BY DEF RowsInv
  <1>4. \A g \in DOMAIN holds' : holds'[g].sub \in DOMAIN subs'
    BY <1>2 DEF RowsInv
  <1>5. events' \subseteq Announcements \X DOMAIN holds'
    BY <1>2 DEF RowsInv, Announce, Announcements
  <1>6. HoldsInv'
    BY <1>2, <1>3 DEF RowsInv, HoldsInv
  <1>7. OneHoldPerRequest'
    BY <1>2 DEF RowsInv, OneHoldPerRequest
  <1>8. EventsAgree'
    <2>1. <<"reconciled", h>> \notin events /\ <<"released", h>> \notin events
      BY DEF RowsInv, EventsAgree
    <2>2. \A g \in DOMAIN holds, k \in {"reconciled", "released"} :
            <<k, g>> \in events' => <<k, g>> \in events \/ (k = row.status /\ g = h)
      BY DEF Announce
    <2>3. SUFFICES ASSUME NEW g \in DOMAIN holds
          PROVE /\ ~ ({<<"reconciled", g>>, <<"released", g>>} \subseteq events')
                /\ <<"reconciled", g>> \in events' => holds'[g].status = "reconciled"
                /\ <<"released", g>> \in events' => holds'[g].status = "released"
      BY <1>2 DEF EventsAgree
    <2>4. CASE g = h
      BY <1>2, <2>1, <2>2, <2>4
    <2>5. CASE g # h
      BY <1>2, <2>2, <2>5 DEF RowsInv, EventsAgree
    <2>6. QED
      BY <2>4, <2>5
  <1>9. QED
    BY <1>2, <1>3, <1>4, <1>5, <1>6, <1>7, <1>8 DEF RowsInv

\* A retry answers and announces a reconciled reservation once more.
LEMMA HoldAnnounced ==
    ASSUME RowsInv, NEW h \in DOMAIN holds, holds[h].status \in {"reconciled", "released"},
           UNCHANGED <<holds, receipt>>, DOMAIN subs \subseteq DOMAIN subs',
           Announce(holds[h].status, h)
    PROVE RowsInv'
  <1>1. events' \subseteq Announcements \X DOMAIN holds
    BY DEF RowsInv, Announce, Announcements
  <1>2. \A g \in DOMAIN holds, k \in {"reconciled", "released"} :
          <<k, g>> \in events' => <<k, g>> \in events \/ (k = holds[h].status /\ g = h)
    BY DEF Announce
  <1>3. SUFFICES ASSUME NEW g \in DOMAIN holds
        PROVE /\ ~ ({<<"reconciled", g>>, <<"released", g>>} \subseteq events')
              /\ <<"reconciled", g>> \in events' => holds[g].status = "reconciled"
              /\ <<"released", g>> \in events' => holds[g].status = "released"
    BY <1>1 DEF RowsInv, HoldsInv, OneHoldPerRequest, EventsAgree
  <1>4. CASE g = h
    BY <1>2, <1>4 DEF RowsInv, EventsAgree
  <1>5. CASE g # h
    BY <1>2, <1>5 DEF RowsInv, EventsAgree
  <1>6. QED
    BY <1>4, <1>5

-----------------------------------------------------------------------------
LEMMA CountsGoOn ==
    ASSUME CountsInv, \/ ops < MaxOps /\ ops' = ops + 1 /\ UNCHANGED faults
                      \/ Fault /\ UNCHANGED ops
                      \/ UNCHANGED <<ops, faults>>
    PROVE CountsInv'
  BY CreditsAssumption DEF CountsInv, Fault

\* The steps that change nothing but the call: look-ups, failed statements.
LEMMA QuietStep ==
    ASSUME CreditsInv, NEW c \in Calls,
           \/ CreateRead(c) \/ CancelRead(c) \/ CancelUpdateFails(c)
           \/ AdjustRead(c) \/ AdjustWriteFails(c)
           \/ ConsumeRead(c) \/ ReserveRead(c) \/ Lose(c)
    PROVE CreditsInv'
  <1>0. Amounts \subseteq Int /\ Adjustments \subseteq Nat
    BY CreditsAssumption
  <1>1. UNCHANGED <<subs, holds, logged, spent, events, receipt, adjusted>>
    BY DEF CreateRead, CancelRead, CancelUpdateFails, AdjustRead, AdjustWriteFails,
           ConsumeRead, ReserveRead, Lose
  <1>2. SubsInv' /\ RowsInv'
    BY <1>1, DataStays DEF CreditsInv
  <1>3. CountsInv'
    <2>1. (Called(c) /\ UNCHANGED faults) \/ (Fault /\ UNCHANGED ops)
      BY DEF CreateRead, CancelRead, CancelUpdateFails,
             AdjustRead, AdjustWriteFails, ConsumeRead, ReserveRead, Lose
    <2>2. QED
      BY <2>1, CountsGoOn DEF CreditsInv, Called
  <1>4. ASSUME NEW x, call' = [call EXCEPT ![c] = x], GoodCall(x, DOMAIN subs)
        PROVE CallsInv'
    BY <1>1, <1>4, CallGoesOn DEF CreditsInv
  <1>5. ASSUME call' = call PROVE CallsInv'
    BY <1>1, <1>5, CallsStay DEF CreditsInv
  <1>6. GoodCall(call[c], DOMAIN subs)
    BY DEF CreditsInv, CallsInv
  <1>7. CallsInv'
    <2>1. CASE CreateRead(c)
      <3>1. PICK p \in Payers :
               call' = IF ActiveOf(p) # {} THEN call
                       ELSE [call EXCEPT ![c] = [Idle EXCEPT !.step = "insert", !.payer = p]]
        BY <2>1 DEF CreateRead
      <3> DEFINE x == [Idle EXCEPT !.step = "insert", !.payer = p]
      <3>2. GoodCall(x, DOMAIN subs)
        <4>0. Idle \in Call
          BY IdleIsGood DEF GoodCall
        <4>1. x \in Call
          BY <4>0 DEF Call, Steps
        <4>2. x.step = "insert" /\ x.payer = p
          BY DEF Idle
        <4>3. QED
          BY <4>1, <4>2 DEF GoodCall
      <3>3. QED
        BY <1>4, <1>5, <3>1, <3>2
    <2>2. CASE CancelRead(c)
      <3>1. PICK i \in DOMAIN subs, k \in {"update", "log"} :
               call' = [call EXCEPT ![c] = [Idle EXCEPT !.sub = i, !.step = k]]
        BY <2>2 DEF CancelRead
      <3>2. i \in Nat
        BY LenProperties DEF CreditsInv, SubsInv
      <3> DEFINE x == [Idle EXCEPT !.sub = i, !.step = k]
      <3>3. GoodCall(x, DOMAIN subs)
        <4>0. Idle \in Call
          BY IdleIsGood DEF GoodCall
        <4>1. x \in Call
          BY <3>2, <4>0 DEF Call, Steps
        <4>2. x.step = k /\ x.sub = i
          BY DEF Idle
        <4>3. QED
          BY <4>1, <4>2 DEF GoodCall
      <3>4. QED
        BY <1>4, <3>1, <3>3
    <2>3. CASE CancelUpdateFails(c)
      <3>1. GoodCall([call[c] EXCEPT !.step = "log"], DOMAIN subs)
        BY <1>6, <2>3 DEF GoodCall, Call, Steps, CancelUpdateFails
      <3>2. QED
        BY <1>4, <2>3, <3>1 DEF CancelUpdateFails
    <2>4. CASE AdjustRead(c)
      <3>1. PICK i \in DOMAIN subs, n \in Adjustments \cup {-m : m \in Adjustments} :
               call' = [call EXCEPT ![c] = [Idle EXCEPT !.step = "adjust", !.sub = i, !.n = n,
                                                        !.remaining = subs[i].remaining,
                                                        !.allocated = subs[i].allocated]]
        BY <2>4 DEF AdjustRead
      <3>2. n \in Int
        BY <1>0
      <3>3. i \in Nat /\ subs[i] \in Subscription
        BY LenProperties DEF CreditsInv, SubsInv
      <3>4. subs[i].remaining \in Nat /\ subs[i].allocated \in Nat
        BY <3>3 DEF Subscription
      <3>5. GoodCall([Idle EXCEPT !.step = "adjust", !.sub = i, !.n = n,
                                  !.remaining = subs[i].remaining,
                                  !.allocated = subs[i].allocated], DOMAIN subs)
        BY <3>2, <3>3, <3>4 DEF GoodCall, Idle, Call, Steps
      <3>6. QED
        BY <1>4, <3>1, <3>5
    <2>5. CASE AdjustWriteFails(c)
      <3>1. GoodCall([Idle EXCEPT !.step = "log", !.sub = call[c].sub, !.n = call[c].n],
                     DOMAIN subs)
        BY <1>6, <2>5 DEF GoodCall, Idle, Call, Steps, AdjustWriteFails
      <3>2. QED
        BY <1>4, <2>5, <3>1 DEF AdjustWriteFails
    <2>6. CASE ConsumeRead(c)
      <3>1. PICK p \in Payers, n \in Amounts :
              call' = IF ~Covered(p, n) THEN call
                      ELSE [call EXCEPT ![c] = [Idle EXCEPT !.step = "take", !.n = n,
                                                            !.sub = Newest(ActiveOf(p))]]
        BY <2>6 DEF ConsumeRead
      <3>2. ASSUME Covered(p, n)
            PROVE GoodCall([Idle EXCEPT !.step = "take", !.n = n,
                                        !.sub = Newest(ActiveOf(p))], DOMAIN subs)
        <4>1. Newest(ActiveOf(p)) \in DOMAIN subs
          BY <3>2, NewestActive DEF Covered, CreditsInv
        <4>2. DOMAIN subs \subseteq Nat
          BY LenProperties DEF CreditsInv, SubsInv
        <4>3. n \in Int
          BY <1>0
        <4>4. QED
          BY <4>1, <4>2, <4>3 DEF GoodCall, Idle, Call, Steps
      <3>3. QED
        BY <1>4, <1>5, <3>1, <3>2
    <2>7. CASE ReserveRead(c)
      <3>1. PICK p \in Payers, n \in Amounts, q \in Requests \cup {NoRequest} :
               call' = IF ActiveOf(p) = {} THEN call
                       ELSE [call EXCEPT ![c] = [Idle EXCEPT !.step = "begin", !.payer = p,
                                                             !.n = n, !.request = q]]
        BY <2>7 DEF ReserveRead
      <3>2. n \in Int
        BY <1>0
      <3>3. GoodCall([Idle EXCEPT !.step = "begin", !.payer = p, !.n = n, !.request = q],
                     DOMAIN subs)
        BY <3>2 DEF GoodCall, Idle, Call, Steps
      <3>4. QED
        BY <1>4, <1>5, <3>1, <3>3
    <2>8. CASE Lose(c)
      BY <1>4, <2>8, IdleIsGood DEF Lose
    <2>9. QED
      BY <2>1, <2>2, <2>3, <2>4, <2>5, <2>6, <2>7, <2>8
  <1>8. QED
    BY <1>2, <1>3, <1>7 DEF CreditsInv

\* A subscription is added.
LEMMA InsertStep ==
    ASSUME CreditsInv, NEW c \in Calls, CreateInsert(c)
    PROVE CreditsInv'
  <1>1. PICK plan \in Plans, trial \in BOOLEAN :
          /\ subs' = Append(subs, [payer |-> call[c].payer,
                                   status |-> IF trial THEN "trialing" ELSE "active",
                                   allocated |-> plan, used |-> 0, remaining |-> plan])
          /\ call' = [call EXCEPT ![c] = [Idle EXCEPT !.step = "log",
                                                      !.sub = Len(subs) + 1, !.n = plan]]
    BY DEF CreateInsert
  <1> DEFINE s == [payer |-> call[c].payer,
                   status |-> IF trial THEN "trialing" ELSE "active",
                   allocated |-> plan, used |-> 0, remaining |-> plan]
             x == [Idle EXCEPT !.step = "log", !.sub = Len(subs) + 1, !.n = plan]
  <1>2. plan \in Nat
    BY CreditsAssumption
  <1>3. s \in Subscription
    <2>1. call[c].payer \in Payers
      BY DEF CreateInsert, CreditsInv, CallsInv, GoodCall
    <2>2. QED
      BY <1>2, <2>1 DEF Subscription, SubStatus
  <1>4. /\ Len(subs) \in Nat
        /\ DOMAIN subs = 1..Len(subs)
    BY LenProperties DEF CreditsInv, SubsInv
  <1>5. /\ subs' \in Seq(Subscription)
        /\ DOMAIN subs' = 1..(Len(subs) + 1)
    <2> HIDE DEF s
    <2>1. subs' = Append(subs, s) /\ subs \in Seq(Subscription)
      BY <1>1 DEF s, CreditsInv, SubsInv
    <2>2. subs' \in Seq(Subscription) /\ Len(subs') = Len(subs) + 1
      BY <1>3, <2>1, AppendProperties
    <2>3. QED
      BY <2>2, LenProperties
  <1>6. SubsInv'
    <2>1. /\ logged' = Append(logged, 0) /\ spent' = Append(spent, 0)
          /\ adjusted' = adjusted
      BY DEF CreateInsert
    <2>2. logged \in Seq(Int) /\ Len(logged) = Len(subs)
      BY <1>4 DEF CreditsInv, SubsInv
    <2>3. spent \in Seq(Nat) /\ Len(spent) = Len(subs)
      BY <1>4 DEF CreditsInv, SubsInv
    <2>4. logged' \in Seq(Int) /\ Len(logged') = Len(subs) + 1
      BY <2>1, <2>2, AppendProperties
    <2>5. spent' \in Seq(Nat) /\ Len(spent') = Len(subs) + 1
      BY <2>1, <2>3, AppendProperties
    <2>6. logged' \in [DOMAIN subs' -> Int] /\ spent' \in [DOMAIN subs' -> Nat]
      BY <1>5, <2>4, <2>5, LenProperties
    <2>7. adjusted' \subseteq DOMAIN subs'
      BY <1>4, <1>5, <2>1 DEF CreditsInv, SubsInv
    <2>8. QED
      BY <1>5, <2>6, <2>7 DEF SubsInv
  <1>7. DOMAIN subs \subseteq DOMAIN subs'
    BY <1>4, <1>5
  <1>8. RowsInv'
    BY <1>7, RowsStay DEF CreateInsert, CreditsInv
  <1>9. CallsInv'
    <2>1. GoodCall(x, DOMAIN subs')
      <3>1. plan \in Int /\ Len(subs) + 1 \in Nat /\ Len(subs) + 1 \in DOMAIN subs'
        BY <1>2, <1>4, <1>5
      <3>2. x \in Call
        BY <3>1 DEF Idle, Call, Steps
      <3>3. x.step = "log" /\ x.sub = Len(subs) + 1
        BY DEF Idle
      <3>4. QED
        BY <3>1, <3>2, <3>3 DEF GoodCall
    <2>2. QED
      BY <1>1, <1>7, <2>1, CallGoesOn DEF CreditsInv
  <1>10. CountsInv'
    BY CountsGoOn DEF CreateInsert, CreditsInv
  <1>11. QED
    BY <1>6, <1>8, <1>9, <1>10 DEF CreditsInv

\* A subscription's status, history or credits change.
LEMMA UpdateStep ==
    ASSUME CreditsInv, NEW c \in Calls,
           AddHistory(c) \/ CancelUpdate(c) \/ AdjustWrite(c) \/ ConsumeTake(c)
    PROVE CreditsInv'
  <1> DEFINE i == call[c].sub
             n == call[c].n
  <1>1. i \in DOMAIN subs /\ call[c] \in Call /\ n \in Int
    BY DEF AddHistory, CancelUpdate, AdjustWrite, ConsumeTake, CreditsInv, CallsInv,
           GoodCall, Call
  <1>2. subs[i] \in Subscription
    BY <1>1, LenProperties DEF CreditsInv, SubsInv
  <1>3. SubsInv' /\ DOMAIN subs' = DOMAIN subs
    <2>1. CASE AddHistory(c)
      <3>1. logged' \in [DOMAIN subs -> Int]
        BY <1>1, <2>1 DEF AddHistory, CreditsInv, SubsInv
      <3>2. QED
        BY <2>1, <3>1 DEF AddHistory, CreditsInv, SubsInv
    <2>2. CASE CancelUpdate(c)
      <3>1. [subs[i] EXCEPT !.status = "canceled"] \in Subscription
        BY <1>2 DEF Subscription, SubStatus
      <3>2. subs' = [subs EXCEPT ![i] = [subs[i] EXCEPT !.status = "canceled"]]
        BY <2>2, <1>1 DEF CancelUpdate
      <3>3. subs' \in Seq(Subscription) /\ DOMAIN subs' = DOMAIN subs
        BY <1>1, <3>1, <3>2, SubWritten DEF CreditsInv
      <3>4. QED
        BY <2>2, <3>3 DEF CancelUpdate, CreditsInv, SubsInv
    <2>3. CASE AdjustWrite(c)
      <3>1. Adjusted(subs[i], call[c]) \in Subscription
        BY <1>1, <1>2, AdjustedTyped
      <3>2. subs' = [subs EXCEPT ![i] = Adjusted(subs[i], call[c])]
        BY <2>3 DEF AdjustWrite
      <3>3. subs' \in Seq(Subscription) /\ DOMAIN subs' = DOMAIN subs
        BY <1>1, <3>1, <3>2, SubWritten DEF CreditsInv
      <3>4. adjusted' \subseteq DOMAIN subs
        BY <1>1, <2>3 DEF AdjustWrite, CreditsInv, SubsInv
      <3>5. QED
        BY <2>3, <3>3, <3>4 DEF AdjustWrite, CreditsInv, SubsInv
    <2>4. CASE ConsumeTake(c)
      <3>1. n \in Nat
        BY <2>4, CreditsAssumption DEF ConsumeTake, CreditsInv, CallsInv, GoodCall
      <3>2. CASE /\ subs[i].remaining >= n
                 /\ subs' = [subs EXCEPT ![i] = Take(@, n)]
                 /\ spent' = [spent EXCEPT ![i] = @ + n]
        <4>1. subs[i].remaining \in Nat
          BY <1>2 DEF Subscription
        <4>2. n <= subs[i].remaining
          BY <1>1, <3>2, <4>1
        <4>3. Take(subs[i], n) \in Subscription
          BY <1>2, <3>1, <4>2, WritesTyped
        <4>4. subs' \in Seq(Subscription) /\ DOMAIN subs' = DOMAIN subs
          BY <1>1, <3>2, <4>3, SubWritten DEF CreditsInv
        <4>5. spent' \in [DOMAIN subs -> Nat]
          BY <1>1, <3>1, <3>2 DEF CreditsInv, SubsInv
        <4>6. QED
          BY <2>4, <4>4, <4>5 DEF ConsumeTake, CreditsInv, SubsInv
      <3>3. CASE UNCHANGED <<subs, spent>>
        BY <2>4, <3>3 DEF ConsumeTake, CreditsInv, SubsInv
      <3>4. QED
        BY <2>4, <3>2, <3>3 DEF ConsumeTake
    <2>5. QED
      BY <2>1, <2>2, <2>3, <2>4
  <1>4. RowsInv'
    <2>1. UNCHANGED <<holds, receipt, events>>
      BY DEF AddHistory, CancelUpdate, AdjustWrite, ConsumeTake
    <2>2. QED
      BY <1>3, <2>1, RowsStay DEF CreditsInv
  <1>5. CountsInv'
    <2>1. UNCHANGED <<ops, faults>>
      BY DEF AddHistory, CancelUpdate, AdjustWrite, ConsumeTake
    <2>2. QED
      BY <2>1, CountsGoOn DEF CreditsInv
  <1>6. CallsInv'
    <2>1. PICK x \in {Idle, [call[c] EXCEPT !.step = "log"],
                      [call[c] EXCEPT !.step = "log", !.n = -n],
                      [Idle EXCEPT !.step = "log", !.sub = i, !.n = n]} :
             call' = [call EXCEPT ![c] = x]
      BY DEF AddHistory, CancelUpdate, AdjustWrite, ConsumeTake
    <2>2. GoodCall([call[c] EXCEPT !.step = "log"], DOMAIN subs)
      BY <1>1 DEF GoodCall, Call, Steps
    <2>3. \A m \in Int : GoodCall([call[c] EXCEPT !.step = "log", !.n = m], DOMAIN subs)
      BY <1>1 DEF GoodCall, Call, Steps
    <2>m. -n \in Int
      BY <1>1
    <2>4. GoodCall([Idle EXCEPT !.step = "log", !.sub = i, !.n = n], DOMAIN subs)
      BY <1>1 DEF GoodCall, Idle, Call, Steps
    <2>5. GoodCall(x, DOMAIN subs)
      BY <2>1, <2>2, <2>3, <2>m, <2>4, IdleIsGood
    <2>6. QED
      BY <1>3, <2>1, <2>5, CallGoesOn DEF CreditsInv
  <1>7. QED
    BY <1>3, <1>4, <1>5, <1>6 DEF CreditsInv

\* The look-up of the request's reservation.
LEMMA BeginStep ==
    ASSUME CreditsInv, NEW c \in Calls, ReserveBegin(c)
    PROVE CreditsInv'
  <1>1. GoodCall([call[c] EXCEPT !.step = "commit"], DOMAIN subs)
    BY DEF ReserveBegin, CreditsInv, CallsInv, GoodCall, Call, Steps
  <1>2. UNCHANGED <<subs, holds, logged, spent, receipt, adjusted, ops, faults>>
    BY DEF ReserveBegin
  <1>3. SubsInv'
    BY <1>2 DEF CreditsInv, SubsInv
  <1>4. CallsInv'
    BY <1>1, <1>2, CallGoesOn, IdleIsGood DEF ReserveBegin, CreditsInv
  <1>5. RowsInv'
    <2>1. events' = events \/ \E h \in DOMAIN holds : Announce("reserved", h)
      BY DEF ReserveBegin, HoldsFor
    <2>2. QED
      BY <1>2, <2>1, RowsStay DEF CreditsInv
  <1>6. CountsInv'
    BY <1>2, CountsGoOn DEF CreditsInv
  <1>7. QED
    BY <1>3, <1>4, <1>5, <1>6 DEF CreditsInv

\* A reservation is added: it is pending, nobody heard of a settlement of it,
\* and the request has no other.
LEMMA HoldAdded ==
    ASSUME RowsInv, NEW row \in Reservation, row.status = "pending", row.actual = 0,
           row.refunded = 0, row.extra = 0, row.sub \in DOMAIN subs, ~Taken(row.request),
           holds' = Append(holds, row), receipt' = Append(receipt, -1),
           Announce("reserved", Len(holds) + 1), DOMAIN subs \subseteq DOMAIN subs'
    PROVE RowsInv'
  <1> DEFINE new == Len(holds) + 1
  <1>1. Len(holds) \in Nat /\ DOMAIN holds = 1..Len(holds) /\ holds \in Seq(Reservation)
    BY LenProperties DEF RowsInv
  <1>2. /\ holds' \in Seq(Reservation) /\ Len(holds') = new
        /\ \A h \in DOMAIN holds : holds'[h] = holds[h]
        /\ holds'[new] = row
    BY <1>1, AppendProperties
  <1>3. DOMAIN holds' = 1..new
    BY <1>2, LenProperties
  <1>4. DOMAIN holds' = DOMAIN holds \cup {new} /\ new \notin DOMAIN holds
    BY <1>1, <1>3
  <1>5. /\ receipt' \in [DOMAIN holds' -> {-1} \cup Nat]
        /\ \A h \in DOMAIN holds : receipt'[h] = receipt[h]
        /\ receipt'[new] = -1
    <2>1. receipt \in Seq({-1} \cup Nat) /\ Len(receipt) = Len(holds)
      BY <1>1 DEF RowsInv
    <2>2. /\ receipt' \in Seq({-1} \cup Nat) /\ Len(receipt') = new
          /\ \A h \in 1..Len(holds) : receipt'[h] = receipt[h]
          /\ receipt'[new] = -1
      BY <2>1, AppendProperties
    <2>3. QED
      BY <1>1, <1>3, <2>2, LenProperties
  <1>6. \A h \in DOMAIN holds' : holds'[h].sub \in DOMAIN subs'
    BY <1>2, <1>4 DEF RowsInv
  <1>7. events' \subseteq Announcements \X DOMAIN holds'
    BY <1>4 DEF RowsInv, Announce, Announcements
  <1>8. HoldsInv'
    <2>1. GoodHold(row, -1)
      BY DEF GoodHold
    <2>2. QED
      BY <1>2, <1>4, <1>5, <2>1 DEF RowsInv, HoldsInv
  <1>9. OneHoldPerRequest'
    <2>1. \A h \in DOMAIN holds : holds[h].request = row.request => row.request = NoRequest
      BY DEF Taken, HoldsFor
    <2>2. QED
      BY <1>2, <1>4, <2>1 DEF RowsInv, OneHoldPerRequest
  <1>10. EventsAgree'
    <2>1. \A h \in DOMAIN holds', k \in {"reconciled", "released"} :
             <<k, h>> \in events' => <<k, h>> \in events /\ h \in DOMAIN holds
      BY <1>4 DEF Announce, RowsInv
    <2>2. QED
      BY <1>2, <2>1 DEF RowsInv, EventsAgree
  <1>11. QED
    BY <1>2, <1>5, <1>6, <1>7, <1>8, <1>9, <1>10 DEF RowsInv

LEMMA CommitStep ==
    ASSUME CreditsInv, NEW c \in Calls, ReserveCommit(c)
    PROVE CreditsInv'
  <1> DEFINE q == call[c].request
             n == call[c].n
             i == Newest(ActiveOf(call[c].payer))
             row == [request |-> q, sub |-> i, estimated |-> n, status |-> "pending",
                     actual |-> 0, refunded |-> 0, extra |-> 0]
  <1>1. UNCHANGED <<logged, spent, adjusted, ops, faults>> /\ call' = [call EXCEPT ![c] = Idle]
    BY DEF ReserveCommit
  <1>2. CountsInv'
    BY <1>1, CountsGoOn DEF CreditsInv
  <1>3. CASE UNCHANGED <<subs, holds, events, receipt>>
    <2>1. SubsInv' /\ RowsInv'
      BY <1>1, <1>3, DataStays DEF CreditsInv
    <2>2. CallsInv'
      BY <1>1, <1>3, CallGoesOn, IdleIsGood DEF CreditsInv
    <2>3. QED
      BY <1>2, <2>1, <2>2 DEF CreditsInv
  <1>4. CASE /\ Covered(call[c].payer, n) /\ ~Taken(q)
             /\ subs' = [subs EXCEPT ![i] = Take(@, n)]
             /\ holds' = Append(holds, row)
             /\ receipt' = Append(receipt, -1)
             /\ Announce("reserved", Len(holds) + 1)
    <2>1. i \in DOMAIN subs
      BY <1>4, NewestActive DEF Covered, CreditsInv
    <2>2. subs[i] \in Subscription /\ i \in Nat \ {0}
      BY <2>1, LenProperties DEF CreditsInv, SubsInv
    <2>3. n \in Amounts /\ q \in Requests \cup {NoRequest}
      BY DEF ReserveCommit, CreditsInv, CallsInv, GoodCall, Call
    <2>4. n \in Nat
      BY <2>3, CreditsAssumption
    <2>5. n <= subs[i].remaining
      <3>1. subs[i].remaining \in Nat /\ subs[i].remaining >= n
        BY <1>4, <2>2 DEF Covered, Subscription
      <3>2. QED
        BY <2>4, <3>1
    <2>6. Take(subs[i], n) \in Subscription
      BY <2>2, <2>4, <2>5, WritesTyped
    <2>7. subs' \in Seq(Subscription) /\ DOMAIN subs' = DOMAIN subs
      BY <1>4, <2>1, <2>6, SubWritten DEF CreditsInv
    <2>8. SubsInv'
      BY <1>1, <2>7 DEF CreditsInv, SubsInv
    <2>9. row \in Reservation
      BY <2>2, <2>3, <2>4 DEF Reservation, HoldStatus
    <2>10. RowsInv'
      <3> DEFINE r == row
      <3>1. /\ r.status = "pending" /\ r.actual = 0 /\ r.refunded = 0 /\ r.extra = 0
            /\ r.sub = i /\ r.request = q
        OBVIOUS
      <3> HIDE DEF r
      <3>2. r \in Reservation /\ holds' = Append(holds, r)
        BY <1>4, <2>9 DEF r
      <3>3. QED
        BY <1>4, <2>1, <2>7, <3>1, <3>2, HoldAdded DEF CreditsInv
    <2>11. CallsInv'
      BY <1>1, <2>7, CallGoesOn, IdleIsGood DEF CreditsInv
    <2>12. QED
      BY <1>2, <2>8, <2>10, <2>11 DEF CreditsInv
  <1>5. QED
    BY <1>3, <1>4 DEF ReserveCommit

\* What a reconciliation makes of a reservation.
LEMMA ReconciledRow ==
    ASSUME NEW row \in Reservation, NEW actual \in Nat
    PROVE LET done == Reconciled(row, actual) IN
          /\ done \in Reservation
          /\ done.status = "reconciled" /\ done.actual = actual
          /\ done.request = row.request /\ done.sub = row.sub
          /\ done.estimated = row.estimated
          /\ done.refunded = Monus(row.estimated, actual)
          /\ done.extra = Monus(actual, row.estimated)
          /\ CreditsConsumed(done) \in Nat
          /\ GoodHold(done, CreditsConsumed(done))
  <1> DEFINE done == Reconciled(row, actual)
  <1>1. /\ row.request \in Requests \cup {NoRequest} /\ row.sub \in Nat \ {0}
        /\ row.estimated \in Nat
    BY DEF Reservation
  <1>2. Monus(row.estimated, actual) \in Nat /\ Monus(actual, row.estimated) \in Nat
    BY <1>1 DEF Monus
  <1>3. /\ done.request = row.request /\ done.sub = row.sub
        /\ done.estimated = row.estimated
        /\ done.status = "reconciled" /\ done.actual = actual
        /\ done.refunded = Monus(row.estimated, actual)
        /\ done.extra = Monus(actual, row.estimated)
    BY DEF Reconciled, Reservation
  <1>4. done \in Reservation
    <2> DEFINE new(r, x) == [row EXCEPT !.status = "reconciled", !.actual = actual,
                                        !.refunded = r, !.extra = x]
    <2>1. \A r, x \in Nat : new(r, x) \in Reservation
      BY DEF Reservation, HoldStatus
    <2>2. new(Monus(row.estimated, actual), Monus(actual, row.estimated)) \in Reservation
      <3> HIDE DEF new
      <3> QED BY <1>2, <2>1
    <2>3. QED
      BY <2>2, Zenon DEF Reconciled
  <1>5. CreditsConsumed(done) \in Nat
    BY <1>1, <1>3 DEF CreditsConsumed
  <1>6. GoodHold(done, CreditsConsumed(done))
    <2> DEFINE answer == CreditsConsumed(done)
    <2> HIDE DEF answer
    <2>1. /\ done.status = "reconciled" /\ done.refunded = Monus(done.estimated, done.actual)
          /\ done.extra = Monus(done.actual, done.estimated)
      BY <1>3
    <2>2. QED
      BY <2>1 DEF GoodHold
  <1>7. QED
    BY <1>3, <1>4, <1>5, <1>6

\* A finished reservation, or one that gets finished.
LEMMA FinalizeStep ==
    ASSUME CreditsInv, NEW h \in DOMAIN holds, Finalize(h)
    PROVE CreditsInv'
  <1> DEFINE row == holds[h]
             i == row.sub
  <1>1. row \in Reservation /\ i \in DOMAIN subs /\ row.estimated \in Nat
    <2>1. row \in Reservation
      BY LenProperties DEF CreditsInv, RowsInv
    <2>2. QED
      BY <2>1 DEF CreditsInv, RowsInv, Reservation
  <1>2. subs[i] \in Subscription /\ subs[i].remaining \in Nat
    <2>1. subs[i] \in Subscription
      BY <1>1, LenProperties DEF CreditsInv, SubsInv
    <2>2. QED
      BY <2>1 DEF Subscription
  <1>3. /\ UNCHANGED <<logged, spent, adjusted, call, faults>>
        /\ ops < MaxOps /\ ops' = ops + 1
    BY DEF Finalize, Reconcile, ReconcileAgain, Release, ReleaseAgain
  <1>4. CountsInv'
    BY <1>3, CountsGoOn DEF CreditsInv
  <1>5. ASSUME NEW s \in Subscription, subs' = [subs EXCEPT ![i] = s]
        PROVE SubsInv' /\ DOMAIN subs' = DOMAIN subs /\ CallsInv'
    <2>1. subs' \in Seq(Subscription) /\ DOMAIN subs' = DOMAIN subs
      BY <1>1, <1>5, SubWritten DEF CreditsInv
    <2>2. SubsInv'
      BY <1>3, <2>1 DEF CreditsInv, SubsInv
    <2>3. QED
      BY <1>3, <2>1, <2>2, CallsStay DEF CreditsInv
  <1>6. ASSUME UNCHANGED subs PROVE SubsInv' /\ CallsInv'
    BY <1>3, <1>6, CallsStay DEF CreditsInv, SubsInv
  <1>7. ASSUME NEW actual \in Actuals, Reconcile(h, actual) PROVE CreditsInv'
    <2> DEFINE done == Reconciled(row, actual)
    <2>1. actual \in Nat
      BY CreditsAssumption
    <2>2. /\ done \in Reservation
          /\ done.status = "reconciled" /\ done.request = row.request /\ done.sub = i
          /\ done.refunded = Monus(row.estimated, actual)
          /\ done.extra = Monus(actual, row.estimated)
          /\ CreditsConsumed(done) \in Nat
          /\ GoodHold(done, CreditsConsumed(done))
      BY <1>1, <2>1, ReconciledRow
    <2>3. /\ row.status = "pending"
          /\ \/ done.extra = 0 /\ subs' = [subs EXCEPT ![i] = GiveBack(@, done.refunded)]
             \/ /\ done.extra > 0 /\ subs[i].remaining >= done.extra
                /\ subs' = [subs EXCEPT ![i] = Take(@, done.extra)]
          /\ holds' = [holds EXCEPT ![h] = done]
          /\ receipt' = [receipt EXCEPT ![h] = CreditsConsumed(done)]
          /\ Announce("reconciled", h)
      BY <1>7 DEF Reconcile
    <2>4. done.refunded \in Nat /\ done.extra \in Nat
      <3>1. Monus(row.estimated, actual) \in Nat /\ Monus(actual, row.estimated) \in Nat
        BY <1>1, <2>1 DEF Monus
      <3>2. QED
        BY <2>2, <3>1
    <2>5. GiveBack(subs[i], done.refunded) \in Subscription
      BY <1>2, <2>4, WritesTyped
    <2>6. subs[i].remaining >= done.extra => Take(subs[i], done.extra) \in Subscription
      <3>1. subs[i].remaining >= done.extra => done.extra <= subs[i].remaining
        BY <1>2, <2>4
      <3>2. QED
        BY <1>2, <2>4, <3>1, WritesTyped
    <2>7. SubsInv' /\ DOMAIN subs' = DOMAIN subs /\ CallsInv'
      BY <1>5, <2>3, <2>5, <2>6
    <2>8. RowsInv'
      <3> HIDE DEF done
      <3> QED
        BY <2>2, <2>3, <2>7, HoldSettled DEF CreditsInv
    <2>9. QED
      BY <1>4, <2>7, <2>8 DEF CreditsInv
  <1>8. CASE Release(h)
    <2> DEFINE done == [row EXCEPT !.status = "released", !.refunded = row.estimated]
    <2>1. /\ row.status = "pending"
          /\ subs' = [subs EXCEPT ![i] = GiveBack(@, row.estimated)]
          /\ holds' = [holds EXCEPT ![h] = done]
          /\ Announce("released", h)
          /\ receipt' = receipt
      BY <1>8 DEF Release
    <2>2. GiveBack(subs[i], row.estimated) \in Subscription
      BY <1>1, <1>2, WritesTyped
    <2>3. SubsInv' /\ DOMAIN subs' = DOMAIN subs /\ CallsInv'
      BY <1>5, <2>1, <2>2
    <2>4. /\ done \in Reservation /\ done.status = "released"
          /\ done.request = row.request /\ done.sub = row.sub /\ done.actual = row.actual
      BY <1>1 DEF Reservation, HoldStatus
    <2>5. row.actual = 0 /\ receipt[h] = -1
      BY <2>1 DEF CreditsInv, RowsInv, HoldsInv, GoodHold
    <2>6. GoodHold(done, -1)
      BY <2>4, <2>5 DEF GoodHold
    <2>7. receipt' = [receipt EXCEPT ![h] = -1]
      BY <2>1, <2>5 DEF CreditsInv, RowsInv
    <2>8. RowsInv'
      <3> HIDE DEF done
      <3> QED
        BY <2>1, <2>3, <2>4, <2>6, <2>7, HoldSettled DEF CreditsInv
    <2>9. QED
      BY <1>4, <2>3, <2>8 DEF CreditsInv
  <1>9. CASE ReconcileAgain(h)
    <2>1. /\ row.status = "reconciled" /\ UNCHANGED <<subs, holds>>
          /\ receipt' = [receipt EXCEPT ![h] = CreditsConsumed(row)]
          /\ Announce("reconciled", h)
      BY <1>9 DEF ReconcileAgain
    <2>2. receipt[h] = CreditsConsumed(row)
      BY <2>1 DEF CreditsInv, RowsInv, HoldsInv, GoodHold
    <2>3. receipt' = receipt
      BY <2>1, <2>2 DEF CreditsInv, RowsInv
    <2>4. RowsInv'
      BY <2>1, <2>3, HoldAnnounced DEF CreditsInv
    <2>5. QED
      BY <1>4, <1>6, <2>1, <2>4 DEF CreditsInv
  <1>10. CASE ReleaseAgain(h)
    <2>1. /\ row.status = "released" /\ UNCHANGED <<subs, holds, receipt>>
          /\ Announce("released", h)
      BY <1>10 DEF ReleaseAgain
    <2>2. RowsInv'
      BY <2>1, HoldAnnounced DEF CreditsInv
    <2>3. QED
      BY <1>4, <1>6, <2>1, <2>2 DEF CreditsInv
  <1>11. QED
    BY <1>7, <1>8, <1>9, <1>10 DEF Finalize

-----------------------------------------------------------------------------
LEMMA CreditsInitially == Init => CreditsInv
  <1> SUFFICES ASSUME Init PROVE CreditsInv
    OBVIOUS
  <1>1. DOMAIN subs = {} /\ DOMAIN holds = {} /\ subs \in Seq(Subscription)
        /\ holds \in Seq(Reservation)
    BY EmptySeq DEF Init
  <1>2. SubsInv
    BY <1>1 DEF Init, SubsInv
  <1>3. RowsInv
    BY <1>1 DEF Init, RowsInv, HoldsInv, OneHoldPerRequest, EventsAgree
  <1>4. CallsInv
    <2>1. GoodCall(Idle, DOMAIN subs) /\ Idle \in Call
      BY IdleIsGood DEF GoodCall
    <2>2. QED
      BY <2>1 DEF Init, CallsInv
  <1>5. CountsInv
    BY CreditsAssumption DEF Init, CountsInv
  <1>6. QED
    BY <1>2, <1>3, <1>4, <1>5 DEF CreditsInv

LEMMA CreditsInductive == CreditsInv /\ [Next]_vars => CreditsInv'
  <1> SUFFICES ASSUME CreditsInv, [Next]_vars PROVE CreditsInv'
    OBVIOUS
  <1>1. ASSUME NEW c \in Calls, Step(c) PROVE CreditsInv'
    BY <1>1, QuietStep, InsertStep, UpdateStep, BeginStep, CommitStep DEF Step
  <1>2. ASSUME NEW h \in DOMAIN holds, Finalize(h) PROVE CreditsInv'
    BY <1>2, FinalizeStep
  <1>3. CASE UNCHANGED vars
    BY <1>3 DEF vars, CreditsInv, SubsInv, RowsInv, HoldsInv, OneHoldPerRequest, EventsAgree,
                CallsInv, CountsInv
  <1>4. QED
    BY <1>1, <1>2, <1>3 DEF Next

LEMMA CreditsInvHolds == Spec => []CreditsInv
  BY CreditsInitially, CreditsInductive, PTL DEF Spec

\* Whatever requests, retries, cancellations, adjustments and faults interleave,
\* no balance is ever negative, every row is well formed and refers to a
\* subscription: the conditions in the UPDATEs are enough.
THEOREM CreditsTyped == Spec => []TypeOK
  <1>1. CreditsInv => TypeOK
    BY DEF CreditsInv, SubsInv, RowsInv, CallsInv, GoodCall, CountsInv, TypeOK
  <1>2. QED
    BY <1>1, CreditsInvHolds, PTL

\* For any number of concurrent reserve calls of a request, one of them holds
\* credits.
THEOREM HeldOnce == Spec => []OneHoldPerRequest
  <1>1. CreditsInv => OneHoldPerRequest
    BY DEF CreditsInv, RowsInv
  <1>2. QED
    BY <1>1, CreditsInvHolds, PTL

\* No listener is ever told that one reservation was charged and given back.
THEOREM AnnouncedAsIs == Spec => []EventsAgree
  <1>1. CreditsInv => EventsAgree
    BY DEF CreditsInv, RowsInv
  <1>2. QED
    BY <1>1, CreditsInvHolds, PTL

\* The answer to the reconciliation of a real usage is what it costs.
THEOREM AnswersAreCharges == Spec => []ReceiptsMatchCharges
  <1>1. CreditsInv => ReceiptsMatchCharges
    <2> SUFFICES ASSUME CreditsInv, NEW h \in DOMAIN holds,
                        receipt[h] # -1, holds[h].actual > 0
                 PROVE receipt[h] = holds[h].estimated - holds[h].refunded + holds[h].extra
      BY DEF ReceiptsMatchCharges
    <2>1. holds[h] \in Reservation
      BY LenProperties DEF CreditsInv, RowsInv
    <2>2. holds[h].estimated \in Nat /\ holds[h].actual \in Nat /\ holds[h].actual # 0
      BY <2>1 DEF Reservation
    <2>3. holds[h].status = "reconciled"
      BY <2>1, <2>2 DEF CreditsInv, RowsInv, HoldsInv, GoodHold, Reservation, HoldStatus
    <2>4. /\ holds[h].refunded = Monus(holds[h].estimated, holds[h].actual)
          /\ holds[h].extra = Monus(holds[h].actual, holds[h].estimated)
          /\ receipt[h] = holds[h].actual
      BY <2>2, <2>3 DEF CreditsInv, RowsInv, HoldsInv, GoodHold, CreditsConsumed
    <2>5. QED
      BY <2>2, <2>4 DEF Monus
  <1>2. QED
    BY <1>1, CreditsInvHolds, PTL

-----------------------------------------------------------------------------
\* The steps that leave both the balances and the reservations alone.
Aside(c) == \/ CreateRead(c) \/ AddHistory(c)
            \/ CancelRead(c) \/ CancelUpdateFails(c) \/ AdjustRead(c) \/ AdjustWriteFails(c)
            \/ ConsumeRead(c) \/ ReserveRead(c) \/ ReserveBegin(c) \/ Lose(c)

LEMMA AsideStep == \A c : Aside(c) => UNCHANGED <<subs, holds>>
  BY DEF Aside, CreateRead, AddHistory, CancelRead, CancelUpdateFails, AdjustRead,
         AdjustWriteFails, ConsumeRead, ReserveRead, ReserveBegin, Lose

\* A late release after the reconciliation, a late reconciliation after the
\* release and every retry leave a finished reservation as it is.
THEOREM FinishedIsFinal == Spec => FinalIsFinal
  <1>1. ASSUME CreditsInv, [Next]_vars, NEW g \in DOMAIN holds, holds[g].status # "pending"
        PROVE holds'[g] = holds[g]
    <2>1. holds \in Seq(Reservation) /\ g \in 1..Len(holds)
      BY <1>1, LenProperties DEF CreditsInv, RowsInv
    <2>2. ASSUME NEW c \in Calls, Step(c) PROVE holds'[g] = holds[g]
      <3>1. CASE ReserveCommit(c)
        <4>1. ASSUME CreditsInv' PROVE holds'[g] = holds[g]
          <5>1. UNCHANGED holds \/ \E r : holds' = Append(holds, r)
            BY <3>1 DEF ReserveCommit
          <5>2. CASE UNCHANGED holds
            BY <5>2
          <5>3. ASSUME NEW r, holds' = Append(holds, r) PROVE holds'[g] = holds[g]
            BY <2>1, <5>3
          <5>4. QED
            BY <5>1, <5>2, <5>3
        <4>2. QED
          BY <1>1, <2>2, <4>1, CreditsInductive DEF Next
      <3>2. CASE ~ReserveCommit(c)
        BY <2>2, <3>2, AsideStep DEF Step, Aside, CreateInsert, CancelUpdate, AdjustWrite, ConsumeTake
      <3>3. QED
        BY <3>1, <3>2
    <2>3. ASSUME NEW h \in DOMAIN holds, Finalize(h) PROVE holds'[g] = holds[g]
      <3>1. UNCHANGED holds \/ (holds[h].status = "pending" /\ \E r : holds' = [holds EXCEPT ![h] = r])
        BY <2>3 DEF Finalize, Reconcile, ReconcileAgain, Release, ReleaseAgain
      <3>2. QED
        BY <1>1, <3>1
    <2>4. CASE UNCHANGED vars
      BY <2>4 DEF vars
    <2>5. QED
      BY <1>1, <2>2, <2>3, <2>4 DEF Next
  <1>2. CreditsInv /\ [Next]_vars => [\A h \in DOMAIN holds :
            holds[h].status # "pending" => holds'[h] = holds[h]]_vars
    BY <1>1
  <1>3. QED
    BY <1>2, CreditsInvHolds, PTL DEF Spec, FinalIsFinal

-----------------------------------------------------------------------------
LEMMA FreeIs ==
    ASSUME SubsInv
    PROVE /\ Free \in Seq(Nat) /\ Len(Free) = Len(subs) /\ DOMAIN Free = DOMAIN subs
          /\ \A i \in DOMAIN subs : Free[i] = subs[i].remaining /\ subs[i] \in Subscription
  <1>1. subs \in Seq(Subscription) /\ Len(subs) \in Nat /\ DOMAIN subs = 1..Len(subs)
    BY LenProperties DEF SubsInv
  <1>2. \A i \in DOMAIN subs : subs[i] \in Subscription
    BY <1>1
  <1>3. \A i \in DOMAIN subs : subs[i].remaining \in Nat
    BY <1>2 DEF Subscription
  <1>4. Free \in [1..Len(subs) -> Nat]
    BY <1>1, <1>3 DEF Free
  <1>5. QED
    BY <1>1, <1>2, <1>4 DEF Free

LEMMA FreeWritten ==
    ASSUME SubsInv, NEW i \in DOMAIN subs, NEW s \in Subscription,
           subs' = [subs EXCEPT ![i] = s]
    PROVE /\ Free' = [Free EXCEPT ![i] = s.remaining]
          /\ s.remaining \in Nat
  <1>1. s.remaining \in Nat
    BY DEF Subscription
  <1>2. DOMAIN subs' = DOMAIN subs
    OBVIOUS
  <1>3. \A j \in DOMAIN subs : subs'[j] = IF j = i THEN s ELSE subs[j]
    BY DEF SubsInv
  <1>4. Free' = [j \in DOMAIN subs |-> IF j = i THEN s.remaining ELSE subs[j].remaining]
    BY <1>2, <1>3 DEF Free
  <1>5. QED
    BY <1>1, <1>4 DEF Free

LEMMA TakeSpends ==
    ASSUME SubsInv, NEW i \in DOMAIN subs, NEW n \in Nat,
           subs[i].remaining >= n, subs' = [subs EXCEPT ![i] = Take(@, n)]
    PROVE /\ n <= Free[i]
          /\ Free' = [Free EXCEPT ![i] = Free[i] - n]
  <1>1. subs[i] \in Subscription /\ Free[i] = subs[i].remaining
    BY FreeIs
  <1>2. subs[i].remaining \in Nat
    BY <1>1 DEF Subscription
  <1>3. n <= subs[i].remaining
    BY <1>2
  <1>4. Take(subs[i], n) \in Subscription
    BY <1>1, <1>3, WritesTyped
  <1>5. Take(subs[i], n).remaining = subs[i].remaining - n
    BY <1>1 DEF Take, Subscription
  <1>6. QED
    BY <1>1, <1>3, <1>4, <1>5, FreeWritten

LEMMA GiveBackFrees ==
    ASSUME SubsInv, NEW i \in DOMAIN subs, NEW n \in Nat,
           subs' = [subs EXCEPT ![i] = GiveBack(@, n)]
    PROVE Free' = [Free EXCEPT ![i] = Free[i] + n]
  <1>1. subs[i] \in Subscription /\ Free[i] = subs[i].remaining
    BY FreeIs
  <1>2. GiveBack(subs[i], n) \in Subscription
    BY <1>1, WritesTyped
  <1>3. GiveBack(subs[i], n).remaining = subs[i].remaining + n
    BY <1>1 DEF GiveBack, Subscription
  <1>4. QED
    BY <1>1, <1>2, <1>3, FreeWritten

LEMMA HeldWritten ==
    ASSUME NEW h \in DOMAIN holds, NEW row, holds' = [holds EXCEPT ![h] = row],
           row.sub = holds[h].sub, row.estimated = holds[h].estimated, row.status # "pending"
    PROVE Held' = [Held EXCEPT ![h] = [account |-> Held[h].account, held |-> Held[h].held,
                                       open |-> FALSE, charge |-> row.actual]]
  <1>1. DOMAIN holds' = DOMAIN holds /\ \A g \in DOMAIN holds :
            holds'[g] = IF g = h THEN row ELSE holds[g]
    OBVIOUS
  <1>2. View(row) = [account |-> Held[h].account, held |-> Held[h].held,
                     open |-> FALSE, charge |-> row.actual]
    BY DEF View, Held
  <1>3. Held' = [g \in DOMAIN holds |-> IF g = h THEN View(row) ELSE View(holds[g])]
    BY <1>1 DEF Held
  <1>4. QED
    BY <1>2, <1>3 DEF Held

\* Every write of a balance is a step of the escrow: opened, spent, adjusted.
LEMMA BalanceSteps ==
    ASSUME CreditsInv, NEW c \in Calls,
           \/ CreateInsert(c) \/ CancelUpdate(c) \/ AdjustWrite(c) \/ ConsumeTake(c)
    PROVE [Escrow!Next]_(Escrow!vars)
  <1> DEFINE i == call[c].sub
             n == call[c].n
  <1>1. Held' = Held
    BY DEF Held, CreateInsert, CancelUpdate, AdjustWrite, ConsumeTake
  <1>2. SubsInv
    BY DEF CreditsInv
  <1>3. CASE CreateInsert(c)
    <2>1. PICK plan \in Plans, trial \in BOOLEAN :
            subs' = Append(subs, [payer |-> call[c].payer,
                                  status |-> IF trial THEN "trialing" ELSE "active",
                                  allocated |-> plan, used |-> 0, remaining |-> plan])
      BY <1>3 DEF CreateInsert
    <2>2. plan \in Nat
      BY CreditsAssumption
    <2>3. SubsInv'
      BY <1>3, InsertStep DEF CreditsInv
    <2>4. /\ Free \in Seq(Nat) /\ Len(Free) = Len(subs)
          /\ \A j \in 1..Len(subs) : Free[j] = subs[j].remaining
          /\ Len(subs) \in Nat
      BY <1>2, FreeIs, LenProperties DEF SubsInv
    <2>5. /\ Free' \in Seq(Nat) /\ Len(Free') = Len(subs')
          /\ \A j \in 1..Len(subs') : Free'[j] = subs'[j].remaining
      <3>1. \A j \in DOMAIN subs' : Free'[j] = subs'[j].remaining
        BY DEF Free
      <3>2. subs' \in Seq(Subscription) /\ DOMAIN subs' = 1..Len(subs') /\ Len(subs') \in Nat
        BY <2>3, LenProperties DEF SubsInv
      <3>3. \A j \in DOMAIN subs' : subs'[j].remaining \in Nat
        <4>1. \A j \in DOMAIN subs' : subs'[j] \in Subscription
          BY <3>2
        <4>2. QED
          BY <4>1 DEF Subscription
      <3>4. Free' \in [1..Len(subs') -> Nat]
        BY <3>2, <3>3 DEF Free
      <3>5. QED
        BY <3>1, <3>2, <3>4
    <2> DEFINE s == [payer |-> call[c].payer,
                     status |-> IF trial THEN "trialing" ELSE "active",
                     allocated |-> plan, used |-> 0, remaining |-> plan]
    <2>6. /\ Len(subs') = Len(subs) + 1
          /\ \A j \in 1..Len(subs) : subs'[j] = subs[j]
          /\ subs'[Len(subs) + 1] = s
      <3>1. s \in Subscription
        <4>1. call[c].payer \in Payers
          BY <1>3 DEF CreateInsert, CreditsInv, CallsInv, GoodCall
        <4>2. QED
          BY <2>2, <4>1 DEF Subscription, SubStatus
      <3>2. subs' = Append(subs, s)
        BY <2>1
      <3> HIDE DEF s
      <3>3. QED
        BY <1>2, <3>1, <3>2, AppendProperties DEF SubsInv
    <2>7. s.remaining = plan
      OBVIOUS
    <2>8. Free' = Append(Free, plan)
      <3> HIDE DEF s
      <3>1. /\ Append(Free, plan) \in Seq(Nat) /\ Len(Append(Free, plan)) = Len(subs) + 1
            /\ \A j \in 1..Len(subs) : Append(Free, plan)[j] = Free[j]
            /\ Append(Free, plan)[Len(subs) + 1] = plan
        BY <2>2, <2>4, AppendProperties
      <3>2. \A j \in 1..(Len(subs) + 1) : Free'[j] = Append(Free, plan)[j]
        BY <2>4, <2>5, <2>6, <2>7, <3>1
      <3>3. QED
        BY <2>5, <2>6, <3>1, <3>2, SeqEqual
    <2>9. Escrow!OpenAccount(plan)
      BY <1>1, <2>8 DEF Escrow!OpenAccount
    <2>10. QED
      BY <2>9 DEF Escrow!Next
  <1>4. i \in DOMAIN subs \/ CreateInsert(c)
    BY DEF CancelUpdate, AdjustWrite, ConsumeTake, CreditsInv, CallsInv, GoodCall
  <1>5. CASE CancelUpdate(c)
    <2>1. i \in DOMAIN subs
      BY <1>5 DEF CancelUpdate, CreditsInv, CallsInv, GoodCall
    <2>2. subs[i] \in Subscription /\ Free[i] = subs[i].remaining
      BY <1>2, <2>1, FreeIs
    <2>3. /\ [subs[i] EXCEPT !.status = "canceled"] \in Subscription
          /\ [subs[i] EXCEPT !.status = "canceled"].remaining = subs[i].remaining
      BY <2>2 DEF Subscription, SubStatus
    <2>4. subs' = [subs EXCEPT ![i] = [subs[i] EXCEPT !.status = "canceled"]]
      BY <1>5, <2>1 DEF CancelUpdate
    <2>5. Free' = [Free EXCEPT ![i] = Free[i]]
      BY <1>2, <2>1, <2>2, <2>3, <2>4, FreeWritten
    <2>6. Free' = Free
      BY <2>5 DEF Free
    <2>7. QED
      BY <1>1, <2>6 DEF Escrow!vars
  <1>6. CASE AdjustWrite(c)
    <2>1. i \in DOMAIN subs /\ call[c] \in Call
      BY <1>6 DEF AdjustWrite, CreditsInv, CallsInv, GoodCall
    <2>2. Adjusted(subs[i], call[c]) \in Subscription
      BY <1>2, <2>1, FreeIs, AdjustedTyped
    <2>3. subs' = [subs EXCEPT ![i] = Adjusted(subs[i], call[c])]
      BY <1>6 DEF AdjustWrite
    <2>4. PICK r \in Nat : Free' = [Free EXCEPT ![i] = r]
      BY <1>2, <2>1, <2>2, <2>3, FreeWritten
    <2>5. i \in DOMAIN Free
      BY <2>1 DEF Free
    <2>6. Escrow!Adjust(i)
      BY <1>1, <2>4, <2>5 DEF Escrow!Adjust
    <2>7. QED
      BY <2>5, <2>6 DEF Escrow!Next
  <1>7. CASE ConsumeTake(c)
    <2>1. i \in DOMAIN subs /\ n \in Amounts
      BY <1>7 DEF ConsumeTake, CreditsInv, CallsInv, GoodCall
    <2>2. n \in Nat
      BY <2>1, CreditsAssumption
    <2>3. CASE UNCHANGED subs
      BY <1>1, <2>3 DEF Escrow!vars, Free
    <2>4. CASE subs[i].remaining >= n /\ subs' = [subs EXCEPT ![i] = Take(@, n)]
      <3>1. n <= Free[i] /\ Free' = [Free EXCEPT ![i] = Free[i] - n]
        BY <1>2, <2>1, <2>2, <2>4, TakeSpends
      <3>2. i \in DOMAIN Free
        BY <2>1 DEF Free
      <3>3. Escrow!Spend(i, n)
        BY <1>1, <3>1 DEF Escrow!Spend
      <3>4. QED
        BY <2>1, <3>2, <3>3 DEF Escrow!Next
    <2>5. QED
      BY <1>7, <2>3, <2>4 DEF ConsumeTake
  <1>8. QED
    BY <1>3, <1>5, <1>6, <1>7

LEMMA HeldAdded ==
    ASSUME RowsInv, NEW row \in Reservation, holds' = Append(holds, row)
    PROVE Held' = Append(Held, View(row))
  <1> DEFINE V == {View(r) : r \in Reservation}
             n == Len(holds)
  <1>1. n \in Nat /\ DOMAIN holds = 1..n /\ \A g \in 1..n : holds[g] \in Reservation
    BY LenProperties DEF RowsInv
  <1>2. /\ holds' \in Seq(Reservation) /\ Len(holds') = n + 1
        /\ \A g \in 1..n : holds'[g] = holds[g]
        /\ holds'[n + 1] = row
    BY AppendProperties DEF RowsInv
  <1>3. DOMAIN holds' = 1..(n + 1) /\ \A g \in 1..(n + 1) : holds'[g] \in Reservation
    BY <1>1, <1>2, LenProperties
  <1> HIDE DEF n
  <1>4. /\ \A g \in 1..n : Held[g] = View(holds[g]) /\ Held[g] \in V
        /\ DOMAIN Held = 1..n
        /\ Held = [g \in 1..n |-> Held[g]]
    BY <1>1 DEF Held
  <1>5. /\ \A g \in 1..(n + 1) : Held'[g] = View(holds'[g]) /\ Held'[g] \in V
        /\ DOMAIN Held' = 1..(n + 1)
        /\ Held' = [g \in 1..(n + 1) |-> Held'[g]]
    BY <1>3 DEF Held
  <1>6. View(row) \in V
    OBVIOUS
  <1> HIDE DEF V
  <1>7. Held \in Seq(V) /\ Len(Held) = n
    BY <1>1, <1>4
  <1>8. Held' \in Seq(V) /\ Len(Held') = n + 1
    BY <1>1, <1>5
  <1>9. /\ Append(Held, View(row)) \in Seq(V) /\ Len(Append(Held, View(row))) = n + 1
        /\ \A g \in 1..n : Append(Held, View(row))[g] = Held[g]
        /\ Append(Held, View(row))[n + 1] = View(row)
    BY <1>6, <1>7, AppendProperties
  <1>10. \A g \in 1..(n + 1) : Held'[g] = Append(Held, View(row))[g]
    BY <1>1, <1>2, <1>4, <1>5, <1>9
  <1>11. QED
    BY <1>8, <1>9, <1>10, SeqEqual

\* A reservation that commits is a hold; one that does not changes nothing.
LEMMA CommitHolds ==
    ASSUME CreditsInv, NEW c \in Calls, ReserveCommit(c)
    PROVE [Escrow!Next]_(Escrow!vars)
  <1> DEFINE q == call[c].request
             n == call[c].n
             i == Newest(ActiveOf(call[c].payer))
             row == [request |-> q, sub |-> i, estimated |-> n, status |-> "pending",
                     actual |-> 0, refunded |-> 0, extra |-> 0]
  <1>1. CASE UNCHANGED <<subs, holds>>
    BY <1>1 DEF Escrow!vars, Free, Held
  <1>2. CASE /\ Covered(call[c].payer, n)
             /\ subs' = [subs EXCEPT ![i] = Take(@, n)]
             /\ holds' = Append(holds, row)
    <2>1. n \in Amounts /\ call[c] \in Call
      BY DEF ReserveCommit, CreditsInv, CallsInv, GoodCall
    <2>2. n \in Nat
      BY <2>1, CreditsAssumption
    <2>3. i \in DOMAIN subs /\ i \in Nat \ {0}
      <3>1. i \in DOMAIN subs
        BY <1>2, NewestActive DEF Covered, CreditsInv
      <3>2. QED
        BY <3>1, LenProperties DEF CreditsInv, SubsInv
    <2>4. n <= Free[i] /\ Free' = [Free EXCEPT ![i] = Free[i] - n]
      BY <1>2, <2>2, <2>3, TakeSpends DEF Covered, CreditsInv
    <2>5. row \in Reservation
      <3>1. q \in Requests \cup {NoRequest}
        BY <2>1 DEF Call
      <3>2. QED
        BY <2>2, <2>3, <3>1 DEF Reservation, HoldStatus
    <2>6. View(row) = [account |-> i, held |-> n, open |-> TRUE, charge |-> 0]
      BY DEF View
    <2>7. Held' = Append(Held, View(row))
      <3> HIDE DEF row
      <3> QED BY <1>2, <2>5, HeldAdded DEF CreditsInv
    <2>8. Escrow!Hold(i, n)
      BY <2>4, <2>6, <2>7 DEF Escrow!Hold
    <2>9. i \in DOMAIN Free
      BY <2>3 DEF Free
    <2>10. QED
      BY <2>1, <2>8, <2>9 DEF Escrow!Next
  <1>3. QED
    BY <1>1, <1>2 DEF ReserveCommit

\* A reconciliation or a release settles the hold; a retry changes nothing.
LEMMA FinalizeSettles ==
    ASSUME CreditsInv, NEW h \in DOMAIN holds, Finalize(h)
    PROVE [Escrow!Next]_(Escrow!vars)
  <1> DEFINE row == holds[h]
             i == row.sub
             est == row.estimated
  <1>1. row \in Reservation /\ i \in DOMAIN subs /\ est \in Nat
    <2>1. row \in Reservation
      BY LenProperties DEF CreditsInv, RowsInv
    <2>2. QED
      BY <2>1 DEF CreditsInv, RowsInv, Reservation
  <1>2. SubsInv /\ i \in DOMAIN Free /\ Free[i] \in Nat /\ Free[i] = subs[i].remaining
    BY <1>1, FreeIs DEF CreditsInv
  <1>3. /\ h \in DOMAIN Held /\ Held[h].account = i /\ Held[h].held = est
        /\ row.status = "pending" => Held[h].open
    BY DEF Held, View
  <1>4. ASSUME NEW actual \in Actuals, Reconcile(h, actual) PROVE Escrow!Settle(h, actual)
    <2> DEFINE done == Reconciled(row, actual)
    <2>1. actual \in Nat
      BY CreditsAssumption
    <2>2. /\ done.status = "reconciled" /\ done.sub = i /\ done.estimated = est
          /\ done.actual = actual
          /\ done.refunded = Monus(est, actual) /\ done.extra = Monus(actual, est)
      BY <1>1, <2>1, ReconciledRow
    <2>3. /\ row.status = "pending"
          /\ \/ done.extra = 0 /\ subs' = [subs EXCEPT ![i] = GiveBack(@, done.refunded)]
             \/ /\ done.extra > 0 /\ subs[i].remaining >= done.extra
                /\ subs' = [subs EXCEPT ![i] = Take(@, done.extra)]
          /\ holds' = [holds EXCEPT ![h] = done]
      BY <1>4 DEF Reconcile
    <2> HIDE DEF done
    <2>4. Held' = [Held EXCEPT ![h] = [account |-> Held[h].account, held |-> Held[h].held,
                                       open |-> FALSE, charge |-> actual]]
      BY <2>2, <2>3, HeldWritten
    <2>5. /\ actual <= Free[i] + est
          /\ Free' = [Free EXCEPT ![i] = Free[i] + est - actual]
      <3>1. CASE done.extra = 0 /\ subs' = [subs EXCEPT ![i] = GiveBack(@, done.refunded)]
        <4>1. actual <= est /\ done.refunded = est - actual /\ done.refunded \in Nat
          BY <1>1, <2>1, <2>2, <3>1 DEF Monus
        <4>2. Free' = [Free EXCEPT ![i] = Free[i] + done.refunded]
          BY <1>1, <1>2, <3>1, <4>1, GiveBackFrees
        <4>3. Free[i] + done.refunded = Free[i] + est - actual /\ actual <= Free[i] + est
          BY <1>1, <1>2, <2>1, <4>1
        <4>4. QED
          BY <4>2, <4>3
      <3>2. CASE /\ done.extra > 0 /\ subs[i].remaining >= done.extra
                 /\ subs' = [subs EXCEPT ![i] = Take(@, done.extra)]
        <4>1. est < actual /\ done.extra = actual - est /\ done.extra \in Nat
          BY <1>1, <2>1, <2>2, <3>2 DEF Monus
        <4>2. done.extra <= Free[i] /\ Free' = [Free EXCEPT ![i] = Free[i] - done.extra]
          BY <1>1, <1>2, <3>2, <4>1, TakeSpends
        <4>3. Free[i] - done.extra = Free[i] + est - actual /\ actual <= Free[i] + est
          BY <1>1, <1>2, <2>1, <4>1, <4>2
        <4>4. QED
          BY <4>2, <4>3
      <3>3. QED
        BY <2>3, <3>1, <3>2
    <2>6. QED
      BY <1>3, <2>3, <2>4, <2>5 DEF Escrow!Settle
  <1>5. CASE Release(h)
    <2> DEFINE done == [row EXCEPT !.status = "released", !.refunded = row.estimated]
    <2>1. /\ row.status = "pending"
          /\ subs' = [subs EXCEPT ![i] = GiveBack(@, est)]
          /\ holds' = [holds EXCEPT ![h] = done]
      BY <1>5 DEF Release
    <2>2. row.actual = 0
      BY <2>1 DEF CreditsInv, RowsInv, HoldsInv, GoodHold
    <2>3. done.status = "released" /\ done.sub = i /\ done.estimated = est /\ done.actual = 0
      BY <1>1, <2>2 DEF Reservation
    <2> HIDE DEF done
    <2>4. Held' = [Held EXCEPT ![h] = [account |-> Held[h].account, held |-> Held[h].held,
                                       open |-> FALSE, charge |-> 0]]
      BY <2>1, <2>3, HeldWritten
    <2>5. Free' = [Free EXCEPT ![i] = Free[i] + est]
      BY <1>1, <1>2, <2>1, GiveBackFrees
    <2>6. Free[i] + est = Free[i] + est - 0 /\ 0 <= Free[i] + est
      BY <1>1, <1>2
    <2>7. Escrow!Settle(h, 0)
      BY <1>3, <2>1, <2>4, <2>5, <2>6 DEF Escrow!Settle
    <2>8. QED
      BY <1>3, <2>7 DEF Escrow!Next
  <1>6. CASE ReconcileAgain(h) \/ ReleaseAgain(h)
    BY <1>6 DEF ReconcileAgain, ReleaseAgain, Escrow!vars, Free, Held
  <1>7. QED
    BY <1>3, <1>4, <1>5, <1>6 DEF Finalize, Escrow!Next

\* The subscription and reservation rows, with all the look-ups, retries, lost
\* coroutines and failed statements around them, behave as the escrow: no
\* credit is spent or held that is not free, and a hold is settled once, for
\* what was really used.
THEOREM ServiceImplementsEscrow == Spec => ImplementsEscrow
  <1>1. Init => Escrow!Init
    BY SMT DEF Init, Escrow!Init, Free, Held
  <1>2. CreditsInv /\ [Next]_vars => [Escrow!Next]_(Escrow!vars)
    <2> SUFFICES ASSUME CreditsInv, [Next]_vars PROVE [Escrow!Next]_(Escrow!vars)
      OBVIOUS
    <2>1. ASSUME NEW c \in Calls, Step(c) PROVE [Escrow!Next]_(Escrow!vars)
      <3>1. CASE Aside(c)
        BY <3>1, AsideStep DEF Escrow!vars, Free, Held
      <3>2. CASE ~Aside(c)
        BY <2>1, <3>2, BalanceSteps, CommitHolds DEF Step, Aside
      <3>3. QED
        BY <3>1, <3>2
    <2>2. ASSUME NEW h \in DOMAIN holds, Finalize(h) PROVE [Escrow!Next]_(Escrow!vars)
      BY <2>2, FinalizeSettles
    <2>3. CASE UNCHANGED vars
      BY <2>3 DEF vars, Escrow!vars, Free, Held
    <2>4. QED
      BY <2>1, <2>2, <2>3 DEF Next
  <1>3. QED
    BY <1>1, <1>2, CreditsInvHolds, PTL DEF Spec, ImplementsEscrow, Escrow!Spec

-----------------------------------------------------------------------------
(* The credits of a subscription add up.                                   *)

LEMMA CostIs ==
    ASSUME NEW row \in Reservation
    PROVE  /\ Cost(row) \in Nat
           /\ row.status = "pending" => Cost(row) = row.estimated
           /\ row.status = "reconciled" => Cost(row) = row.actual
           /\ row.status = "released" => Cost(row) = 0
  <1>1. row.status \in HoldStatus /\ row.estimated \in Nat /\ row.actual \in Nat
    BY DEF Reservation
  <1> QED
    BY <1>1 DEF Cost, HoldStatus

LEMMA CostTyped ==
    ASSUME CreditsInv, NEW i
    PROVE  /\ IsFiniteSet(HoldsOn(i)) /\ HoldsOn(i) \subseteq DOMAIN holds
           /\ \A h \in DOMAIN holds : Cost(holds[h]) \in Nat
           /\ CostOf(i) \in Nat
           /\ \A h \in HoldsOn(i) : Cost(holds[h]) <= CostOf(i)
  <1>1. holds \in Seq(Reservation) /\ DOMAIN holds = 1..Len(holds) /\ Len(holds) \in Nat
    BY LenProperties DEF CreditsInv, RowsInv
  <1>2. IsFiniteSet(DOMAIN holds) /\ HoldsOn(i) \subseteq DOMAIN holds
    BY <1>1, FS_Interval DEF HoldsOn
  <1>3. IsFiniteSet(HoldsOn(i))
    BY <1>2, FS_Subset
  <1>4. \A h \in DOMAIN holds : Cost(holds[h]) \in Nat
    <2>1. \A h \in DOMAIN holds : holds[h] \in Reservation
      BY <1>1
    <2> QED
      BY <2>1, CostIs
  <1> DEFINE f == [h \in DOMAIN holds |-> Cost(holds[h])]
  <1>5. \A h \in HoldsOn(i) : f[h] \in Nat /\ f[h] = Cost(holds[h])
    BY <1>2, <1>4
  <1>6. CostOf(i) = SumFunctionOnSet(f, HoldsOn(i))
    BY DEF CostOf
  <1> HIDE DEF f
  <1>7. SumFunctionOnSet(f, HoldsOn(i)) \in Nat
    BY <1>3, <1>5, SumNat
  <1>8. \A h \in HoldsOn(i) : f[h] <= SumFunctionOnSet(f, HoldsOn(i))
    BY <1>3, <1>5, SumBounds
  <1> QED
    BY <1>2, <1>3, <1>4, <1>5, <1>6, <1>7, <1>8

\* A reservation is added.
LEMMA CostAdded ==
    ASSUME CreditsInv, NEW row \in Reservation, holds' = Append(holds, row), NEW i
    PROVE  CostOf(i)' = CostOf(i) + (IF row.sub = i THEN Cost(row) ELSE 0)
  <1> DEFINE n == Len(holds) + 1
             f == [h \in DOMAIN holds |-> Cost(holds[h])]
             g == [h \in DOMAIN holds' |-> Cost(holds'[h])]
  <1>1. holds \in Seq(Reservation)
    BY DEF CreditsInv, RowsInv
  <1>2. /\ DOMAIN holds' = DOMAIN holds \cup {n} /\ n \notin DOMAIN holds
        /\ \A h \in DOMAIN holds : holds'[h] = holds[h]
        /\ holds'[n] = row
    BY <1>1
  <1>3. /\ IsFiniteSet(HoldsOn(i)) /\ HoldsOn(i) \subseteq DOMAIN holds
        /\ \A h \in DOMAIN holds : Cost(holds[h]) \in Nat
        /\ CostOf(i) \in Nat
    BY CostTyped
  <1>4. Cost(row) \in Nat
    BY CostIs
  <1> HIDE DEF n
  <1>5. \A h \in HoldsOn(i) : f[h] = g[h] /\ g[h] \in Nat
    BY <1>2, <1>3
  <1>6. g[n] = Cost(row)
    BY <1>2
  <1>7. CostOf(i) = SumFunctionOnSet(f, HoldsOn(i))
    BY DEF CostOf
  <1>8. CostOf(i)' = SumFunctionOnSet(g, HoldsOn(i)')
    BY DEF CostOf
  <1> HIDE DEF f, g
  <1>9. SumFunctionOnSet(f, HoldsOn(i)) = SumFunctionOnSet(g, HoldsOn(i))
    BY <1>3, <1>5, SumSame
  <1>10. CASE row.sub = i
    <2>1. HoldsOn(i)' = HoldsOn(i) \cup {n} /\ n \notin HoldsOn(i)
      BY <1>2, <1>3, <1>10 DEF HoldsOn
    <2>2. \A h \in HoldsOn(i) \cup {n} : g[h] \in Int
      BY <1>4, <1>5, <1>6
    <2>3. SumFunctionOnSet(g, HoldsOn(i) \cup {n}) = SumFunctionOnSet(g, HoldsOn(i)) + g[n]
      BY <1>3, <2>1, <2>2, SumAdd
    <2> QED
      BY <1>6, <1>7, <1>8, <1>9, <1>10, <2>1, <2>3
  <1>11. CASE row.sub # i
    <2>1. HoldsOn(i)' = HoldsOn(i)
      BY <1>2, <1>11 DEF HoldsOn
    <2> QED
      BY <1>3, <1>7, <1>8, <1>9, <1>11, <2>1
  <1> QED
    BY <1>10, <1>11

\* A reservation is settled.
LEMMA CostSettled ==
    ASSUME CreditsInv, NEW h \in DOMAIN holds, NEW row \in Reservation,
           row.sub = holds[h].sub, holds' = [holds EXCEPT ![h] = row], NEW i
    PROVE  CostOf(i)' = IF row.sub = i THEN CostOf(i) + Cost(row) - Cost(holds[h]) ELSE CostOf(i)
  <1> DEFINE f == [g \in DOMAIN holds |-> Cost(holds[g])]
             g == [k \in DOMAIN holds' |-> Cost(holds'[k])]
  <1>1. holds \in Seq(Reservation)
    BY DEF CreditsInv, RowsInv
  <1>2. /\ DOMAIN holds' = DOMAIN holds /\ holds'[h] = row
        /\ \A k \in DOMAIN holds : k # h => holds'[k] = holds[k]
    BY <1>1
  <1>3. HoldsOn(i)' = HoldsOn(i)
    BY <1>2 DEF HoldsOn
  <1>4. /\ IsFiniteSet(HoldsOn(i)) /\ HoldsOn(i) \subseteq DOMAIN holds
        /\ \A k \in DOMAIN holds : Cost(holds[k]) \in Nat
    BY CostTyped
  <1>5. Cost(row) \in Nat /\ g[h] = Cost(row) /\ f[h] = Cost(holds[h])
    BY <1>2, CostIs
  <1>6. \A k \in HoldsOn(i) : f[k] \in Nat /\ (k # h => g[k] = f[k])
    BY <1>2, <1>4
  <1>7. CostOf(i) = SumFunctionOnSet(f, HoldsOn(i))
    BY DEF CostOf
  <1>8. CostOf(i)' = SumFunctionOnSet(g, HoldsOn(i))
    BY <1>3 DEF CostOf
  <1> HIDE DEF f, g
  <1>9. CASE row.sub = i
    <2>1. h \in HoldsOn(i)
      BY <1>9 DEF HoldsOn
    <2>2. SumFunctionOnSet(g, HoldsOn(i)) = SumFunctionOnSet(f, HoldsOn(i)) + g[h] - f[h]
      <3>1. g[h] \in Int /\ \A k \in HoldsOn(i) : f[k] \in Int
        BY <1>5, <1>6
      <3> QED
        BY <1>4, <1>6, <2>1, <3>1, SumReplace
    <2> QED
      BY <1>5, <1>7, <1>8, <1>9, <2>2
  <1>10. CASE row.sub # i
    <2>1. \A k \in HoldsOn(i) : f[k] = g[k]
      BY <1>6, <1>10 DEF HoldsOn
    <2>2. SumFunctionOnSet(f, HoldsOn(i)) = SumFunctionOnSet(g, HoldsOn(i))
      BY <1>4, <2>1, SumSame
    <2> QED
      BY <1>7, <1>8, <1>10, <2>2
  <1> QED
    BY <1>9, <1>10

\* One row is written so that it adds up; nothing changes for the others.
LEMMA AddsUpWritten ==
    ASSUME CreditsInv, CreditsAddUp, NEW i \in DOMAIN subs, NEW s,
           subs' = [subs EXCEPT ![i] = s],
           \A j \in DOMAIN subs \ {i} : /\ spent'[j] = spent[j] /\ CostOf(j)' = CostOf(j)
                                        /\ j \in adjusted => j \in adjusted',
           s.used + s.remaining = s.allocated \/ i \in adjusted',
           s.used = spent'[i] + CostOf(i)'
    PROVE  CreditsAddUp'
  <1>1. DOMAIN subs' = DOMAIN subs /\ subs'[i] = s
        /\ \A j \in DOMAIN subs \ {i} : subs'[j] = subs[j]
    BY LenProperties DEF CreditsInv, SubsInv
  <1>2. \A j \in DOMAIN subs \ {i} :
            /\ subs[j].used + subs[j].remaining = subs[j].allocated \/ j \in adjusted
            /\ subs[j].used = spent[j] + CostOf(j)
    BY DEF CreditsAddUp
  <1>3. \A j \in DOMAIN subs' :
            /\ subs'[j].used + subs'[j].remaining = subs'[j].allocated \/ j \in adjusted'
            /\ subs'[j].used = spent'[j] + CostOf(j)'
    BY <1>1, <1>2
  <1> QED
    BY <1>3 DEF CreditsAddUp

\* Nothing that the sums are about changes.
LEMMA AddsUpAside ==
    ASSUME CreditsAddUp, UNCHANGED <<subs, holds, spent, adjusted>>
    PROVE  CreditsAddUp'
  BY DEF CreditsAddUp, CostOf, HoldsOn

LEMMA WritesAre ==
    ASSUME NEW s \in Subscription, NEW n
    PROVE  /\ Take(s, n).used = s.used + n /\ Take(s, n).remaining = s.remaining - n
           /\ Take(s, n).allocated = s.allocated
           /\ GiveBack(s, n).used = (IF s.used > n THEN s.used - n ELSE 0)
           /\ GiveBack(s, n).remaining = s.remaining + n
           /\ GiveBack(s, n).allocated = s.allocated
  BY DEF Take, GiveBack, Subscription

-----------------------------------------------------------------------------
\* A new row has all of its credits and no reservation.
LEMMA InsertAddsUp ==
    ASSUME CreditsInv, CreditsAddUp, NEW c \in Calls, CreateInsert(c)
    PROVE  CreditsAddUp'
  <1>0. PICK n : n = Len(subs) + 1
    OBVIOUS
  <1>1. PICK plan \in Plans, trial \in BOOLEAN :
          subs' = Append(subs, [payer |-> call[c].payer,
                                status |-> IF trial THEN "trialing" ELSE "active",
                                allocated |-> plan, used |-> 0, remaining |-> plan])
    BY DEF CreateInsert
  <1> DEFINE s == [payer |-> call[c].payer, status |-> IF trial THEN "trialing" ELSE "active",
                   allocated |-> plan, used |-> 0, remaining |-> plan]
  <1>2. plan \in Nat /\ s.used = 0 /\ s.remaining = plan /\ s.allocated = plan
    BY CreditsAssumption
  <1>3. UNCHANGED <<holds, adjusted>> /\ spent' = Append(spent, 0) /\ subs' = Append(subs, s)
    BY <1>1 DEF CreateInsert
  <1> HIDE DEF s
  <1>4. subs \in Seq(Subscription) /\ DOMAIN subs = 1..Len(subs) /\ Len(subs) \in Nat
        /\ spent \in [DOMAIN subs -> Nat]
    BY LenProperties DEF CreditsInv, SubsInv
  <1>5. spent \in Seq(Nat) /\ Len(spent) = Len(subs)
    BY <1>4
  <1>6. /\ DOMAIN subs' = DOMAIN subs \cup {n} /\ n \notin DOMAIN subs /\ subs'[n] = s
        /\ \A i \in DOMAIN subs : subs'[i] = subs[i]
    BY <1>0, <1>3, <1>4
  <1>7. spent'[n] = 0 /\ \A i \in DOMAIN subs : spent'[i] = spent[i]
    BY <1>0, <1>3, <1>4, <1>5
  <1>8. \A i : CostOf(i)' = CostOf(i)
    BY <1>3 DEF CostOf, HoldsOn
  <1>9. CostOf(n) = 0
    <2>1. HoldsOn(n) = {}
      BY <1>6 DEF HoldsOn, CreditsInv, RowsInv
    <2> QED
      BY <2>1, SumEmpty DEF CostOf
  <1>10. \A i \in DOMAIN subs' :
            /\ subs'[i].used + subs'[i].remaining = subs'[i].allocated \/ i \in adjusted'
            /\ subs'[i].used = spent'[i] + CostOf(i)'
    <2>1. ASSUME NEW i \in DOMAIN subs
          PROVE  /\ subs'[i].used + subs'[i].remaining = subs'[i].allocated \/ i \in adjusted'
                 /\ subs'[i].used = spent'[i] + CostOf(i)'
      BY <1>3, <1>6, <1>7, <1>8 DEF CreditsAddUp
    <2>2. /\ subs'[n].used + subs'[n].remaining = subs'[n].allocated
          /\ subs'[n].used = spent'[n] + CostOf(n)'
      BY <1>2, <1>6, <1>7, <1>8, <1>9
    <2> QED
      BY <1>6, <2>1, <2>2
  <1> QED
    BY <1>10 DEF CreditsAddUp

\* What a row is before it is written.
LEMMA RowBefore ==
    ASSUME CreditsInv, CreditsAddUp, NEW i \in DOMAIN subs
    PROVE  /\ subs[i] \in Subscription /\ subs[i].used \in Nat /\ subs[i].remaining \in Nat
           /\ subs[i].allocated \in Nat /\ spent[i] \in Nat /\ CostOf(i) \in Nat
           /\ subs[i].used + subs[i].remaining = subs[i].allocated \/ i \in adjusted
           /\ subs[i].used = spent[i] + CostOf(i)
  <1>1. subs[i] \in Subscription /\ spent[i] \in Nat
    BY LenProperties DEF CreditsInv, SubsInv
  <1>2. CostOf(i) \in Nat
    BY CostTyped
  <1> QED
    BY <1>1, <1>2 DEF CreditsAddUp, Subscription

\* Writes of one row: its status, what an administrator adds, what is consumed.
LEMMA UpdateAddsUp ==
    ASSUME CreditsInv, CreditsAddUp, NEW c \in Calls,
           CancelUpdate(c) \/ AdjustWrite(c) \/ ConsumeTake(c)
    PROVE  CreditsAddUp'
  <1>0. PICK i, n : i = call[c].sub /\ n = call[c].n
    OBVIOUS
  <1>1. i \in DOMAIN subs /\ call[c] \in Call /\ n \in Int
        /\ call[c].remaining \in Nat /\ call[c].allocated \in Nat
    BY <1>0 DEF CancelUpdate, AdjustWrite, ConsumeTake, CreditsInv, CallsInv, GoodCall, Call
  <1>2. \A j : CostOf(j)' = CostOf(j)
    BY DEF CancelUpdate, AdjustWrite, ConsumeTake, CostOf, HoldsOn
  <1>3. /\ subs[i] \in Subscription /\ subs[i].used \in Nat /\ subs[i].remaining \in Nat
        /\ subs[i].allocated \in Nat /\ spent[i] \in Nat /\ CostOf(i) \in Nat
        /\ subs[i].used + subs[i].remaining = subs[i].allocated \/ i \in adjusted
        /\ subs[i].used = spent[i] + CostOf(i)
    BY <1>1, RowBefore
  <1>4. CASE CancelUpdate(c)
    <2> DEFINE s == [subs[i] EXCEPT !.status = "canceled"]
    <2>1. subs' = [subs EXCEPT ![i] = s] /\ UNCHANGED <<spent, adjusted>>
      BY <1>0, <1>1, <1>4 DEF CancelUpdate
    <2>2. s.used = subs[i].used /\ s.remaining = subs[i].remaining
          /\ s.allocated = subs[i].allocated
      BY <1>3 DEF Subscription
    <2> HIDE DEF s
    <2> QED
      BY <1>1, <1>2, <1>3, <2>1, <2>2, AddsUpWritten
  <1>5. CASE AdjustWrite(c)
    <2> DEFINE s == Adjusted(subs[i], call[c])
    <2>1. subs' = [subs EXCEPT ![i] = s] /\ UNCHANGED spent
          /\ adjusted' = IF PutsOutOfStep(subs[i], call[c]) THEN adjusted \cup {i} ELSE adjusted
      BY <1>0, <1>5 DEF AdjustWrite
    <2>2. /\ s.used = subs[i].used /\ s.remaining = Monus(call[c].remaining, -n)
          /\ s.allocated = IF n > 0 THEN call[c].allocated + n ELSE subs[i].allocated
      BY <1>0, <1>3 DEF Adjusted, Subscription
    <2>3. s.used + s.remaining = s.allocated \/ i \in adjusted'
      <3>1. CASE PutsOutOfStep(subs[i], call[c])
        BY <2>1, <3>1
      <3>2. CASE ~PutsOutOfStep(subs[i], call[c])
        <4>1. n >= 0 /\ subs[i].remaining = call[c].remaining
              /\ subs[i].allocated = call[c].allocated
          BY <1>0, <1>1, <3>2 DEF PutsOutOfStep
        <4>2. s.remaining = subs[i].remaining + n /\ s.allocated = subs[i].allocated + n
          BY <1>1, <1>3, <2>2, <4>1 DEF Monus
        <4> HIDE DEF s
        <4> QED
          BY <1>1, <1>3, <2>1, <2>2, <3>2, <4>2
      <3> QED
        BY <3>1, <3>2
    <2> HIDE DEF s
    <2> QED
      BY <1>1, <1>2, <1>3, <2>1, <2>2, <2>3, AddsUpWritten
  <1>6. CASE ConsumeTake(c)
    <2> DEFINE s == Take(subs[i], n)
    <2>1. CASE subs' = [subs EXCEPT ![i] = s] /\ spent' = [spent EXCEPT ![i] = @ + n]
      <3>1. s.used = subs[i].used + n /\ s.remaining = subs[i].remaining - n
            /\ s.allocated = subs[i].allocated
        BY <1>3, WritesAre
      <3>2. spent'[i] = spent[i] + n /\ \A j \in DOMAIN subs \ {i} : spent'[j] = spent[j]
        BY <1>1, <2>1 DEF CreditsInv, SubsInv
      <3>3. adjusted' = adjusted
        BY <1>6 DEF ConsumeTake
      <3> HIDE DEF s
      <3>4. (s.used + s.remaining = s.allocated \/ i \in adjusted')
            /\ s.used = spent'[i] + CostOf(i)'
        BY <1>1, <1>2, <1>3, <3>1, <3>2, <3>3
      <3> QED
        BY <1>1, <1>2, <2>1, <3>2, <3>3, <3>4, AddsUpWritten
    <2>2. CASE UNCHANGED <<subs, spent>>
      BY <1>6, <2>2, AddsUpAside DEF ConsumeTake
    <2> QED
      BY <1>0, <1>6, <2>1, <2>2 DEF ConsumeTake
  <1> QED
    BY <1>4, <1>5, <1>6

\* What is held is used, and costs.
LEMMA CommitAddsUp ==
    ASSUME CreditsInv, CreditsAddUp, NEW c \in Calls, ReserveCommit(c)
    PROVE  CreditsAddUp'
  <1>0. PICK i, n : i = Newest(ActiveOf(call[c].payer)) /\ n = call[c].n
    OBVIOUS
  <1> DEFINE row == [request |-> call[c].request, sub |-> i, estimated |-> n,
                     status |-> "pending", actual |-> 0, refunded |-> 0, extra |-> 0]
  <1>1. UNCHANGED <<spent, adjusted>>
    BY DEF ReserveCommit
  <1>2. CASE UNCHANGED <<subs, holds>>
    BY <1>1, <1>2, AddsUpAside
  <1>3. CASE /\ Covered(call[c].payer, n) /\ subs' = [subs EXCEPT ![i] = Take(@, n)]
             /\ holds' = Append(holds, row)
    <2> DEFINE s == Take(subs[i], n)
    <2>1. i \in DOMAIN subs
      BY <1>0, <1>3, NewestActive DEF Covered, CreditsInv
    <2>2. n \in Nat /\ call[c].request \in Requests \cup {NoRequest} /\ i \in Nat \ {0}
      BY <1>0, <2>1, CreditsAssumption, LenProperties
         DEF ReserveCommit, CreditsInv, CallsInv, GoodCall, Call, SubsInv
    <2>3. row \in Reservation /\ row.sub = i /\ row.status = "pending" /\ row.estimated = n
      BY <2>2 DEF Reservation, HoldStatus
    <2>4. /\ subs[i] \in Subscription /\ subs[i].used \in Nat /\ subs[i].remaining \in Nat
          /\ subs[i].allocated \in Nat /\ spent[i] \in Nat /\ CostOf(i) \in Nat
          /\ subs[i].used + subs[i].remaining = subs[i].allocated \/ i \in adjusted
          /\ subs[i].used = spent[i] + CostOf(i)
      BY <2>1, RowBefore
    <2>5. s.used = subs[i].used + n /\ s.remaining = subs[i].remaining - n
          /\ s.allocated = subs[i].allocated
      BY <2>4, WritesAre
    <2>6. holds' = Append(holds, row) /\ subs' = [subs EXCEPT ![i] = s]
      BY <1>3
    <2> HIDE DEF s, row
    <2>7. Cost(row) = n
      BY <2>3, CostIs
    <2>8. CostOf(i)' = CostOf(i) + n
      BY <2>3, <2>6, <2>7, CostAdded
    <2>9. \A j \in DOMAIN subs \ {i} : CostOf(j)' = CostOf(j)
      <3> SUFFICES ASSUME NEW j \in DOMAIN subs \ {i} PROVE CostOf(j)' = CostOf(j)
        OBVIOUS
      <3>1. CostOf(j)' = CostOf(j) + 0
        BY <2>3, <2>6, CostAdded
      <3>2. CostOf(j) \in Nat
        BY CostTyped
      <3> QED
        BY <3>1, <3>2
    <2>10. (s.used + s.remaining = s.allocated \/ i \in adjusted')
           /\ s.used = spent'[i] + CostOf(i)'
      BY <1>1, <2>2, <2>4, <2>5, <2>8
    <2> QED
      BY <1>1, <2>1, <2>6, <2>9, <2>10, AddsUpWritten
  <1> QED
    BY <1>0, <1>2, <1>3 DEF ReserveCommit

\* A pending reservation is settled: used changes as its cost does.
LEMMA SettleAddsUp ==
    ASSUME CreditsInv, CreditsAddUp, NEW h \in DOMAIN holds, holds[h].status = "pending",
           NEW i, i = holds[h].sub, i \in DOMAIN subs, NEW row \in Reservation, row.sub = i,
           holds' = [holds EXCEPT ![h] = row], NEW s, subs' = [subs EXCEPT ![i] = s],
           UNCHANGED <<spent, adjusted>>,
           \/ /\ Cost(row) <= holds[h].estimated
              /\ s = GiveBack(subs[i], holds[h].estimated - Cost(row))
           \/ /\ Cost(row) > holds[h].estimated
              /\ s = Take(subs[i], Cost(row) - holds[h].estimated)
    PROVE  CreditsAddUp'
  <1>1. /\ subs[i] \in Subscription /\ subs[i].used \in Nat /\ subs[i].remaining \in Nat
        /\ subs[i].allocated \in Nat /\ spent[i] \in Nat /\ CostOf(i) \in Nat
        /\ subs[i].used + subs[i].remaining = subs[i].allocated \/ i \in adjusted
        /\ subs[i].used = spent[i] + CostOf(i)
    BY RowBefore
  <1>2. holds[h] \in Reservation /\ h \in HoldsOn(i)
    BY LenProperties DEF CreditsInv, RowsInv, HoldsOn
  <1>3. Cost(row) \in Nat /\ Cost(holds[h]) = holds[h].estimated /\ holds[h].estimated \in Nat
    BY <1>2, CostIs DEF Reservation
  <1>4. holds[h].estimated <= CostOf(i)
    BY <1>2, <1>3, CostTyped
  <1>5. CostOf(i)' = CostOf(i) + Cost(row) - holds[h].estimated
    BY <1>3, CostSettled
  <1>6. \A j \in DOMAIN subs \ {i} : CostOf(j)' = CostOf(j)
    BY CostSettled
  <1>7. /\ s.used = subs[i].used + Cost(row) - holds[h].estimated
        /\ s.remaining = subs[i].remaining + holds[h].estimated - Cost(row)
        /\ s.allocated = subs[i].allocated
    <2>1. CASE /\ Cost(row) <= holds[h].estimated
               /\ s = GiveBack(subs[i], holds[h].estimated - Cost(row))
      <3> DEFINE n == holds[h].estimated - Cost(row)
      <3>1. n \in Nat /\ n <= subs[i].used
        BY <1>1, <1>3, <1>4, <2>1
      <3>2. /\ s.used = IF subs[i].used > n THEN subs[i].used - n ELSE 0
            /\ s.remaining = subs[i].remaining + n /\ s.allocated = subs[i].allocated
        BY <1>1, <2>1, WritesAre
      <3>3. s.used = subs[i].used - n
        BY <1>1, <3>1, <3>2
      <3> QED
        BY <1>1, <1>3, <3>2, <3>3
    <2>2. CASE /\ Cost(row) > holds[h].estimated
               /\ s = Take(subs[i], Cost(row) - holds[h].estimated)
      <3> DEFINE n == Cost(row) - holds[h].estimated
      <3>1. /\ s.used = subs[i].used + n /\ s.remaining = subs[i].remaining - n
            /\ s.allocated = subs[i].allocated
        BY <1>1, <2>2, WritesAre
      <3> QED
        BY <1>1, <1>3, <3>1
    <2> QED
      BY <2>1, <2>2
  <1>8. (s.used + s.remaining = s.allocated \/ i \in adjusted')
        /\ s.used = spent'[i] + CostOf(i)'
    BY <1>1, <1>3, <1>5, <1>7
  <1> QED
    BY <1>6, <1>8, AddsUpWritten

LEMMA FinalizeAddsUp ==
    ASSUME CreditsInv, CreditsAddUp, NEW h \in DOMAIN holds, Finalize(h)
    PROVE  CreditsAddUp'
  <1> DEFINE i == holds[h].sub
  <1>1. holds[h] \in Reservation /\ i \in DOMAIN subs /\ holds[h].estimated \in Nat
    <2>1. holds[h] \in Reservation
      BY LenProperties DEF CreditsInv, RowsInv
    <2> QED
      BY <2>1 DEF CreditsInv, RowsInv, Reservation
  <1>2. UNCHANGED <<spent, adjusted>>
    BY DEF Finalize, Reconcile, ReconcileAgain, Release, ReleaseAgain
  <1>3. ASSUME NEW actual \in Actuals, Reconcile(h, actual) PROVE CreditsAddUp'
    <2> DEFINE done == Reconciled(holds[h], actual)
    <2>1. actual \in Nat
      BY CreditsAssumption
    <2>2. /\ done \in Reservation /\ done.status = "reconciled" /\ done.actual = actual
          /\ done.sub = i /\ done.refunded = Monus(holds[h].estimated, actual)
          /\ done.extra = Monus(actual, holds[h].estimated)
      BY <1>1, <2>1, ReconciledRow
    <2>3. /\ holds[h].status = "pending"
          /\ \/ done.extra = 0 /\ subs' = [subs EXCEPT ![i] = GiveBack(@, done.refunded)]
             \/ done.extra > 0 /\ subs' = [subs EXCEPT ![i] = Take(@, done.extra)]
          /\ holds' = [holds EXCEPT ![h] = done]
      BY <1>3 DEF Reconcile
    <2> HIDE DEF done, i
    <2>4. Cost(done) = actual
      BY <2>2, CostIs
    <2>5. PICK s : /\ subs' = [subs EXCEPT ![i] = s]
                   /\ \/ done.extra = 0 /\ s = GiveBack(subs[i], done.refunded)
                      \/ done.extra > 0 /\ s = Take(subs[i], done.extra)
      BY <2>3
    <2>6. \/ /\ Cost(done) <= holds[h].estimated
             /\ s = GiveBack(subs[i], holds[h].estimated - Cost(done))
          \/ /\ Cost(done) > holds[h].estimated
             /\ s = Take(subs[i], Cost(done) - holds[h].estimated)
      <3>1. CASE actual <= holds[h].estimated
        <4>1. done.extra = 0 /\ done.refunded = holds[h].estimated - actual
          BY <1>1, <2>1, <2>2, <3>1 DEF Monus
        <4> QED
          BY <2>4, <2>5, <3>1, <4>1
      <3>2. CASE actual > holds[h].estimated
        <4>1. done.extra > 0 /\ done.extra = actual - holds[h].estimated
          BY <1>1, <2>1, <2>2, <3>2 DEF Monus
        <4> QED
          BY <2>4, <2>5, <3>2, <4>1
      <3> QED
        BY <1>1, <2>1, <3>1, <3>2
    <2>7. i = holds[h].sub
      BY DEF i
    <2> QED
      BY <1>1, <1>2, <2>2, <2>3, <2>5, <2>6, <2>7, SettleAddsUp
  <1>4. CASE Release(h)
    <2> DEFINE done == [holds[h] EXCEPT !.status = "released", !.refunded = holds[h].estimated]
               s == GiveBack(subs[i], holds[h].estimated)
    <2>1. /\ holds[h].status = "pending" /\ subs' = [subs EXCEPT ![i] = s]
          /\ holds' = [holds EXCEPT ![h] = done]
      BY <1>4 DEF Release
    <2>2. done \in Reservation /\ done.status = "released" /\ done.sub = i
      BY <1>1 DEF Reservation, HoldStatus
    <2>3. i = holds[h].sub
      OBVIOUS
    <2> HIDE DEF done, i
    <2>4. Cost(done) = 0
      BY <2>2, CostIs
    <2>5. Cost(done) <= holds[h].estimated /\ holds[h].estimated - Cost(done) = holds[h].estimated
      BY <1>1, <2>4
    <2>6. s = GiveBack(subs[i], holds[h].estimated - Cost(done))
      BY <2>5
    <2> HIDE DEF s
    <2> QED
      BY <1>1, <1>2, <2>1, <2>2, <2>3, <2>5, <2>6, SettleAddsUp
  <1>5. CASE ReconcileAgain(h) \/ ReleaseAgain(h)
    BY <1>2, <1>5, AddsUpAside DEF ReconcileAgain, ReleaseAgain
  <1> QED
    BY <1>3, <1>4, <1>5 DEF Finalize

\* However requests, retries, reconciliations, releases and adjustments
\* interleave, credits_used is what was consumed and what the reservations
\* cost, and with credits_remaining it is the allocation unless an adjustment
\* put the row out of step: a refund never has to be cut to 0.
THEOREM CreditsAreKept == Spec => []CreditsAddUp
  <1>1. Init => CreditsAddUp
    BY DEF Init, CreditsAddUp
  <1>2. ASSUME CreditsInv, CreditsAddUp, [Next]_vars PROVE CreditsAddUp'
    <2>1. ASSUME NEW c \in Calls, Step(c) PROVE CreditsAddUp'
      <3>1. CASE Aside(c)
        <4>1. UNCHANGED <<subs, holds, spent, adjusted>>
          BY <3>1 DEF Aside, CreateRead, AddHistory, CancelRead, CancelUpdateFails, AdjustRead,
                      AdjustWriteFails, ConsumeRead, ReserveRead, ReserveBegin, Lose
        <4> QED
          BY <1>2, <4>1, AddsUpAside
      <3>2. CASE ~Aside(c)
        BY <1>2, <2>1, <3>2, InsertAddsUp, UpdateAddsUp, CommitAddsUp DEF Step, Aside
      <3> QED
        BY <3>1, <3>2
    <2>2. ASSUME NEW h \in DOMAIN holds, Finalize(h) PROVE CreditsAddUp'
      BY <1>2, <2>2, FinalizeAddsUp
    <2>3. CASE UNCHANGED vars
      BY <1>2, <2>3, AddsUpAside DEF vars
    <2> QED
      BY <1>2, <2>1, <2>2, <2>3 DEF Next
  <1> QED
    BY <1>1, <1>2, CreditsInvHolds, PTL DEF Spec

-----------------------------------------------------------------------------
(* The history accounts for the credits.                                   *)

\* What the operations in progress are still going to write to the history of
\* a subscription.
LogOf(k, i) == IF k.step = "log" /\ k.sub = i THEN k.n ELSE 0
ToLog(i) == SumFunctionOnSet([c \in Calls |-> LogOf(call[c], i)], Calls)

Accounted(i) == \/ faults > 0 \/ i \in adjusted
                \/ logged[i] + ToLog(i) = subs[i].allocated - spent[i]

LogInv == /\ \A i \in DOMAIN subs : Accounted(i)
          /\ \A c \in Calls : call[c].step = "update" => call[c].n = 0

LEMMA LogTyped ==
    ASSUME CreditsInv
    PROVE  /\ \A i : \A c \in Calls : LogOf(call[c], i) \in Int
           /\ \A i : ToLog(i) \in Int
  <1>1. \A i : \A c \in Calls : LogOf(call[c], i) \in Int
    BY DEF LogOf, CreditsInv, CallsInv, Call
  <1>2. ASSUME NEW i PROVE ToLog(i) \in Int
    <2> DEFINE f == [c \in Calls |-> LogOf(call[c], i)]
    <2>1. \A c \in Calls : f[c] \in Int
      BY <1>1
    <2> HIDE DEF f
    <2>2. SumFunctionOnSet(f, Calls) \in Int
      BY <2>1, SumInt, CreditsAssumption
    <2> QED
      BY <2>2 DEF ToLog, f
  <1> QED
    BY <1>1, <1>2

\* One call goes on.
LEMMA LogMoves ==
    ASSUME CreditsInv, NEW c \in Calls, NEW x, x.n \in Int,
           call' = [call EXCEPT ![c] = x], NEW i
    PROVE  ToLog(i)' = ToLog(i) + LogOf(x, i) - LogOf(call[c], i)
  <1> DEFINE f == [d \in Calls |-> LogOf(call[d], i)]
             g == [d \in Calls |-> LogOf(call'[d], i)]
  <1>1. \A d \in Calls : f[d] \in Int
    BY LogTyped
  <1>2. call'[c] = x /\ \A d \in Calls : d # c => call'[d] = call[d]
    BY DEF CreditsInv, CallsInv
  <1>3. g[c] \in Int
    BY <1>2 DEF LogOf
  <1>4. \A d \in Calls : d # c => g[d] = f[d]
    BY <1>2
  <1>5. f[c] = LogOf(call[c], i) /\ g[c] = LogOf(x, i)
    BY <1>2
  <1>6. ToLog(i) = SumFunctionOnSet(f, Calls) /\ ToLog(i)' = SumFunctionOnSet(g, Calls)
    BY DEF ToLog
  <1> HIDE DEF f, g
  <1>7. SumFunctionOnSet(g, Calls) = SumFunctionOnSet(f, Calls) + g[c] - f[c]
    BY <1>1, <1>3, <1>4, SumReplace, CreditsAssumption
  <1> QED
    BY <1>5, <1>6, <1>7

\* What is known of a subscription before a step.
LEMMA LogBefore ==
    ASSUME CreditsInv, LogInv, NEW i \in DOMAIN subs, faults = 0, i \notin adjusted
    PROVE  /\ logged[i] \in Int /\ spent[i] \in Int /\ subs[i].allocated \in Int
           /\ ToLog(i) \in Int
           /\ logged[i] + ToLog(i) = subs[i].allocated - spent[i]
  <1>1. subs[i] \in Subscription
    BY LenProperties DEF CreditsInv, SubsInv
  <1>2. logged[i] \in Int /\ spent[i] \in Int /\ subs[i].allocated \in Int
    BY <1>1 DEF CreditsInv, SubsInv, Subscription
  <1> QED
    BY <1>2, LogTyped DEF LogInv, Accounted

\* One call goes on: what its log entries and the columns gain is the same.
LEMMA LogStep ==
    ASSUME CreditsInv, CreditsInv', LogInv, NEW c \in Calls, NEW x, x.n \in Int,
           x.step = "update" => x.n = 0, call' = [call EXCEPT ![c] = x],
           DOMAIN subs' = DOMAIN subs, adjusted \subseteq adjusted',
           faults' = 0 => faults = 0,
           \A i \in DOMAIN subs : faults = 0 /\ i \notin adjusted' =>
               logged'[i] - logged[i] + LogOf(x, i) - LogOf(call[c], i)
                   = subs'[i].allocated - subs[i].allocated - (spent'[i] - spent[i])
    PROVE  LogInv'
  <1>1. \A d \in Calls : call'[d].step = "update" => call'[d].n = 0
    BY DEF LogInv, CreditsInv, CallsInv
  <1>2. ASSUME NEW i \in DOMAIN subs PROVE Accounted(i)'
    <2> SUFFICES ASSUME faults' = 0, i \notin adjusted'
                 PROVE  logged'[i] + ToLog(i)' = subs'[i].allocated - spent'[i]
      BY DEF Accounted, CreditsInv, CountsInv
    <2>1. /\ logged[i] \in Int /\ spent[i] \in Int /\ subs[i].allocated \in Int
          /\ ToLog(i) \in Int /\ logged[i] + ToLog(i) = subs[i].allocated - spent[i]
      BY LogBefore
    <2>2. logged'[i] \in Int /\ spent'[i] \in Int /\ subs'[i].allocated \in Int
      <3>1. subs'[i] \in Subscription
        BY LenProperties DEF CreditsInv, SubsInv
      <3> QED
        BY <3>1 DEF CreditsInv, SubsInv, Subscription
    <2>3. ToLog(i)' = ToLog(i) + LogOf(x, i) - LogOf(call[c], i)
      BY LogMoves
    <2>4. LogOf(x, i) \in Int /\ LogOf(call[c], i) \in Int
      BY LogTyped DEF LogOf
    <2>5. logged'[i] - logged[i] + LogOf(x, i) - LogOf(call[c], i)
              = subs'[i].allocated - subs[i].allocated - (spent'[i] - spent[i])
      OBVIOUS
    <2> DEFINE l == logged[i]  l1 == logged'[i]  t == ToLog(i)  u == LogOf(x, i)
               v == LogOf(call[c], i)  a == subs[i].allocated  a1 == subs'[i].allocated
               p == spent[i]  p1 == spent'[i]
    <2>6. /\ l \in Int /\ l1 \in Int /\ t \in Int /\ u \in Int /\ v \in Int
          /\ a \in Int /\ a1 \in Int /\ p \in Int /\ p1 \in Int
          /\ l + t = a - p /\ l1 - l + u - v = a1 - a - (p1 - p)
      BY <2>1, <2>2, <2>4, <2>5
    <2> HIDE DEF l, l1, t, u, v, a, a1, p, p1
    <2>7. l1 + (t + u - v) = a1 - p1
      BY <2>6
    <2> QED
      BY <2>3, <2>7 DEF l, l1, t, u, v, a, a1, p, p1
  <1> QED
    BY <1>1, <1>2 DEF LogInv

\* A step that touches no column the history is about, to or from a call that
\* logs nothing.
LEMMA LogAside ==
    ASSUME CreditsInv, CreditsInv', LogInv, NEW c \in Calls, NEW x,
           call' = [call EXCEPT ![c] = x], x.n \in Int, x.step = "update" => x.n = 0,
           \A i : LogOf(x, i) = 0, \A i : LogOf(call[c], i) = 0,
           UNCHANGED <<logged, spent, adjusted>>, faults' = 0 => faults = 0,
           DOMAIN subs' = DOMAIN subs,
           \A i \in DOMAIN subs : subs'[i].allocated = subs[i].allocated
    PROVE  LogInv'
  <1>1. ASSUME NEW i \in DOMAIN subs, faults = 0, i \notin adjusted'
        PROVE  logged'[i] - logged[i] + LogOf(x, i) - LogOf(call[c], i)
                   = subs'[i].allocated - subs[i].allocated - (spent'[i] - spent[i])
    <2>1. logged[i] \in Int /\ spent[i] \in Int /\ subs[i].allocated \in Int
      BY <1>1, LogBefore
    <2> QED
      BY <2>1
  <1> QED
    BY <1>1, LogStep

LEMMA LogStays ==
    ASSUME CreditsInv, LogInv, UNCHANGED <<call, logged, spent, adjusted, faults>>,
           DOMAIN subs' = DOMAIN subs,
           \A i \in DOMAIN subs : subs'[i].allocated = subs[i].allocated
    PROVE  LogInv'
  BY DEF LogInv, Accounted, ToLog

\* Nobody counts after a fault.
LEMMA LogFault ==
    ASSUME CreditsInv, LogInv, Fault, NEW c \in Calls, NEW x,
           x.step = "update" => x.n = 0, call' = [call EXCEPT ![c] = x]
    PROVE  LogInv'
  <1>1. faults' > 0
    BY DEF Fault, CreditsInv, CountsInv
  <1> QED
    BY <1>1 DEF LogInv, Accounted, CreditsInv, CallsInv

-----------------------------------------------------------------------------
\* The calls start, look things up, or end without a word to the history.
LEMMA AsideLogs ==
    ASSUME CreditsInv, CreditsInv', LogInv, NEW c \in Calls,
           \/ CreateRead(c) \/ CancelRead(c) \/ AdjustRead(c) \/ ConsumeRead(c)
           \/ ReserveRead(c) \/ ReserveBegin(c)
    PROVE  LogInv'
  <1>1. UNCHANGED <<subs, logged, spent, adjusted, faults>> /\ call[c].step \in {"idle", "begin"}
    BY DEF CreateRead, CancelRead, AdjustRead, ConsumeRead, ReserveRead, ReserveBegin, Called
  <1>2. \A i : LogOf(call[c], i) = 0
    BY <1>1 DEF LogOf
  <1>3. ASSUME NEW x, call' = [call EXCEPT ![c] = x], x.n \in Int,
               x.step = "update" => x.n = 0, x.step = "log" => x.n = 0
        PROVE  LogInv'
    <2>1. \A i : LogOf(x, i) = 0
      BY <1>3 DEF LogOf
    <2> QED
      BY <1>1, <1>2, <1>3, <2>1, LogAside
  <1>4. ASSUME call' = call PROVE LogInv'
    BY <1>1, <1>4, LogStays
  <1>5. CASE CreateRead(c)
    <2>1. PICK p \in Payers :
             call' = IF ActiveOf(p) # {} THEN call
                     ELSE [call EXCEPT ![c] = [Idle EXCEPT !.step = "insert", !.payer = p]]
      BY <1>5 DEF CreateRead
    <2> DEFINE x == [Idle EXCEPT !.step = "insert", !.payer = p]
    <2>2. x.step = "insert" /\ x.n \in Int
      BY DEF Idle
    <2> HIDE DEF x
    <2> QED
      BY <1>3, <1>4, <2>1, <2>2 DEF x
  <1>6. CASE CancelRead(c)
    <2>1. PICK i \in DOMAIN subs, immediate \in BOOLEAN :
             call' = [call EXCEPT ![c] = [Idle EXCEPT !.sub = i,
                                          !.step = IF immediate THEN "update" ELSE "log"]]
      BY <1>6 DEF CancelRead
    <2> DEFINE x == [Idle EXCEPT !.sub = i, !.step = IF immediate THEN "update" ELSE "log"]
    <2>2. x.n = 0 /\ x.n \in Int
      BY DEF Idle
    <2> HIDE DEF x
    <2> QED
      BY <1>3, <2>1, <2>2 DEF x
  <1>7. CASE AdjustRead(c)
    <2>1. PICK i \in DOMAIN subs, n \in Adjustments \cup {-m : m \in Adjustments} :
             call' = [call EXCEPT ![c] = [Idle EXCEPT !.step = "adjust", !.sub = i, !.n = n,
                                                      !.remaining = subs[i].remaining,
                                                      !.allocated = subs[i].allocated]]
      BY <1>7 DEF AdjustRead
    <2> DEFINE x == [Idle EXCEPT !.step = "adjust", !.sub = i, !.n = n,
                                 !.remaining = subs[i].remaining,
                                 !.allocated = subs[i].allocated]
    <2>2. n \in Int
      BY CreditsAssumption
    <2>3. x.step = "adjust" /\ x.n = n
      BY DEF Idle
    <2> HIDE DEF x
    <2> QED
      BY <1>3, <2>1, <2>2, <2>3 DEF x
  <1>8. CASE ConsumeRead(c)
    <2>1. PICK p \in Payers, n \in Amounts :
             call' = IF ~Covered(p, n) THEN call
                     ELSE [call EXCEPT ![c] = [Idle EXCEPT !.step = "take", !.n = n,
                                                           !.sub = Newest(ActiveOf(p))]]
      BY <1>8 DEF ConsumeRead
    <2> DEFINE x == [Idle EXCEPT !.step = "take", !.n = n, !.sub = Newest(ActiveOf(p))]
    <2>2. x.step = "take" /\ x.n = n /\ n \in Int
      BY CreditsAssumption DEF Idle
    <2> HIDE DEF x
    <2> QED
      BY <1>3, <1>4, <2>1, <2>2 DEF x
  <1>9. CASE ReserveRead(c)
    <2>1. PICK p \in Payers, n \in Amounts, q \in Requests \cup {NoRequest} :
             call' = IF ActiveOf(p) = {} THEN call
                     ELSE [call EXCEPT ![c] = [Idle EXCEPT !.step = "begin", !.payer = p,
                                                           !.n = n, !.request = q]]
      BY <1>9 DEF ReserveRead
    <2> DEFINE x == [Idle EXCEPT !.step = "begin", !.payer = p, !.n = n, !.request = q]
    <2>2. x.step = "begin" /\ x.n = n /\ n \in Int
      BY CreditsAssumption DEF Idle
    <2> HIDE DEF x
    <2> QED
      BY <1>3, <1>4, <2>1, <2>2 DEF x
  <1>10. CASE ReserveBegin(c)
    <2>1. PICK x \in {Idle, [call[c] EXCEPT !.step = "commit"]} :
             call' = [call EXCEPT ![c] = x]
      BY <1>10 DEF ReserveBegin
    <2>2. call[c] \in Call
      BY DEF CreditsInv, CallsInv
    <2>3. x.step \in {"idle", "commit"} /\ x.n \in Int
      BY <2>1, <2>2 DEF Idle, Call
    <2> QED
      BY <1>3, <2>1, <2>3
  <1> QED
    BY <1>5, <1>6, <1>7, <1>8, <1>9, <1>10

\* Statements that fail.
LEMMA FaultLogs ==
    ASSUME CreditsInv, LogInv, NEW c \in Calls,
           CancelUpdateFails(c) \/ AdjustWriteFails(c) \/ Lose(c)
    PROVE  LogInv'
  <1>1. PICK x \in {Idle, [call[c] EXCEPT !.step = "log"],
                    [Idle EXCEPT !.step = "log", !.sub = call[c].sub, !.n = call[c].n]} :
           Fault /\ call' = [call EXCEPT ![c] = x]
    BY DEF CancelUpdateFails, AdjustWriteFails, Lose
  <1>2. call[c] \in Call
    BY DEF CreditsInv, CallsInv
  <1>3. /\ Idle.step = "idle" /\ [call[c] EXCEPT !.step = "log"].step = "log"
        /\ [Idle EXCEPT !.step = "log", !.sub = call[c].sub, !.n = call[c].n].step = "log"
    BY <1>2 DEF Idle, Call
  <1>4. x.step # "update"
    BY <1>1, <1>3
  <1> QED
    BY <1>1, <1>4, LogFault

\* A history row is written.
LEMMA HistoryLogs ==
    ASSUME CreditsInv, CreditsInv', LogInv, NEW c \in Calls, AddHistory(c)
    PROVE  LogInv'
  <1>1. /\ call[c].step = "log" /\ UNCHANGED <<subs, spent, adjusted, faults>>
        /\ logged' = [logged EXCEPT ![call[c].sub] = @ + call[c].n]
        /\ call' = [call EXCEPT ![c] = Idle]
    BY DEF AddHistory
  <1>2. Idle.n \in Int /\ Idle.step = "idle" /\ \A i : LogOf(Idle, i) = 0
    BY DEF Idle, LogOf
  <1>3. call[c].n \in Int /\ logged \in [DOMAIN subs -> Int]
    BY DEF CreditsInv, CallsInv, SubsInv, Call
  <1>4. ASSUME NEW i \in DOMAIN subs, faults = 0, i \notin adjusted'
        PROVE  logged'[i] - logged[i] + LogOf(Idle, i) - LogOf(call[c], i)
                   = subs'[i].allocated - subs[i].allocated - (spent'[i] - spent[i])
    <2>1. logged[i] \in Int /\ spent[i] \in Int /\ subs[i].allocated \in Int
      BY <1>1, <1>4, LogBefore
    <2>2. logged'[i] - logged[i] = LogOf(call[c], i)
      BY <1>1, <1>3, <2>1 DEF LogOf
    <2>3. LogOf(call[c], i) \in Int
      BY LogTyped
    <2> QED
      BY <1>1, <1>2, <2>1, <2>2, <2>3
  <1> HIDE DEF Idle
  <1> QED
    BY <1>1, <1>2, <1>4, LogStep

\* A row and the call that wrote it.
LEMMA UpdateLogs ==
    ASSUME CreditsInv, CreditsInv', LogInv, NEW c \in Calls,
           CancelUpdate(c) \/ AdjustWrite(c) \/ ConsumeTake(c)
    PROVE  LogInv'
  <1>0. PICK i, n : i = call[c].sub /\ n = call[c].n
    OBVIOUS
  <1>1. i \in DOMAIN subs /\ call[c] \in Call /\ n \in Int
        /\ call[c].remaining \in Nat /\ call[c].allocated \in Nat
    BY <1>0 DEF CancelUpdate, AdjustWrite, ConsumeTake, CreditsInv, CallsInv, GoodCall, Call
  <1>2. call[c].step \in {"update", "adjust", "take"} /\ UNCHANGED <<logged, faults>>
    BY DEF CancelUpdate, AdjustWrite, ConsumeTake
  <1>3. \A j : LogOf(call[c], j) = 0
    BY <1>2 DEF LogOf
  <1>4. subs[i] \in Subscription /\ DOMAIN subs = 1..Len(subs)
    BY <1>1, LenProperties DEF CreditsInv, SubsInv
  <1>5. ASSUME NEW s, subs' = [subs EXCEPT ![i] = s]
        PROVE  /\ DOMAIN subs' = DOMAIN subs /\ subs'[i] = s
               /\ \A j \in DOMAIN subs : j # i => subs'[j] = subs[j]
    BY <1>1, <1>5 DEF CreditsInv, SubsInv
  <1>6. CASE CancelUpdate(c)
    <2> DEFINE s == [subs[i] EXCEPT !.status = "canceled"]
               x == [call[c] EXCEPT !.step = "log"]
    <2>1. /\ subs' = [subs EXCEPT ![i] = s] /\ UNCHANGED <<spent, adjusted>>
          /\ call' = [call EXCEPT ![c] = x] /\ call[c].n = 0
      BY <1>0, <1>1, <1>6 DEF CancelUpdate, LogInv
    <2>2. s.allocated = subs[i].allocated /\ x.n = 0 /\ x.n \in Int /\ x.step = "log"
      BY <1>1, <1>4, <2>1 DEF Subscription, Call
    <2> HIDE DEF s, x
    <2>3. \A j : LogOf(x, j) = 0
      BY <2>2 DEF LogOf
    <2>4. DOMAIN subs' = DOMAIN subs
          /\ \A j \in DOMAIN subs : subs'[j].allocated = subs[j].allocated
      BY <1>5, <2>1, <2>2
    <2> QED
      BY <1>2, <1>3, <2>1, <2>2, <2>3, <2>4, LogAside
  <1>7. CASE AdjustWrite(c)
    <2> DEFINE s == Adjusted(subs[i], call[c])
               x == [Idle EXCEPT !.step = "log", !.sub = i, !.n = n]
    <2>1. /\ subs' = [subs EXCEPT ![i] = s] /\ UNCHANGED spent
          /\ adjusted' = IF PutsOutOfStep(subs[i], call[c]) THEN adjusted \cup {i} ELSE adjusted
          /\ call' = [call EXCEPT ![c] = x]
      BY <1>0, <1>7 DEF AdjustWrite
    <2>2. s.allocated = IF n > 0 THEN call[c].allocated + n ELSE subs[i].allocated
      BY <1>0, <1>4 DEF Adjusted, Subscription
    <2>3. x.n = n /\ x.step = "log" /\ x.sub = i
      BY DEF Idle
    <2> HIDE DEF s, x
    <2>4. ASSUME NEW j \in DOMAIN subs, faults = 0, j \notin adjusted'
          PROVE  logged'[j] - logged[j] + LogOf(x, j) - LogOf(call[c], j)
                     = subs'[j].allocated - subs[j].allocated - (spent'[j] - spent[j])
      <3>1. logged[j] \in Int /\ spent[j] \in Int /\ subs[j].allocated \in Int
        BY <2>1, <2>4, LogBefore
      <3>2. CASE j = i
        <4>1. ~PutsOutOfStep(subs[i], call[c])
          BY <2>1, <2>4, <3>2
        <4>2. n >= 0 /\ subs[i].allocated = call[c].allocated
          BY <1>0, <1>1, <4>1 DEF PutsOutOfStep
        <4>3. s.allocated = subs[i].allocated + n
          BY <1>1, <2>2, <3>1, <3>2, <4>2
        <4>4. LogOf(x, j) = n
          BY <2>3, <3>2 DEF LogOf
        <4> QED
          BY <1>1, <1>2, <1>3, <1>5, <2>1, <3>1, <3>2, <4>3, <4>4
      <3>3. CASE j # i
        <4>1. LogOf(x, j) = 0 /\ subs'[j] = subs[j]
          BY <1>5, <2>1, <2>3, <3>3 DEF LogOf
        <4> QED
          BY <1>2, <1>3, <2>1, <3>1, <4>1
      <3> QED
        BY <3>2, <3>3
    <2>5. DOMAIN subs' = DOMAIN subs /\ adjusted \subseteq adjusted'
      BY <1>5, <2>1
    <2> QED
      BY <1>1, <1>2, <2>1, <2>3, <2>4, <2>5, LogStep
  <1>8. CASE ConsumeTake(c)
    <2> DEFINE s == Take(subs[i], n)
               x == [call[c] EXCEPT !.step = "log", !.n = -n]
    <2>1. CASE /\ subs' = [subs EXCEPT ![i] = s] /\ spent' = [spent EXCEPT ![i] = @ + n]
               /\ call' = [call EXCEPT ![c] = x]
      <3>1. s.allocated = subs[i].allocated
        BY <1>4, WritesAre
      <3>2. x.n = -n /\ x.step = "log" /\ x.sub = i
        BY <1>0, <1>1 DEF Call
      <3>3. spent'[i] = spent[i] + n /\ \A j \in DOMAIN subs : j # i => spent'[j] = spent[j]
        BY <1>1, <2>1 DEF CreditsInv, SubsInv
      <3>4. adjusted' = adjusted
        BY <1>8 DEF ConsumeTake
      <3> HIDE DEF s, x
      <3>5. ASSUME NEW j \in DOMAIN subs, faults = 0, j \notin adjusted'
            PROVE  logged'[j] - logged[j] + LogOf(x, j) - LogOf(call[c], j)
                       = subs'[j].allocated - subs[j].allocated - (spent'[j] - spent[j])
        <4>1. logged[j] \in Int /\ spent[j] \in Int /\ subs[j].allocated \in Int
          BY <3>4, <3>5, LogBefore
        <4>2. CASE j = i
          <5>1. LogOf(x, j) = -n
            BY <3>2, <4>2 DEF LogOf
          <5> QED
            BY <1>1, <1>2, <1>3, <1>5, <2>1, <3>1, <3>3, <4>1, <4>2, <5>1
        <4>3. CASE j # i
          <5>1. LogOf(x, j) = 0 /\ subs'[j] = subs[j] /\ spent'[j] = spent[j]
            BY <1>5, <2>1, <3>2, <3>3, <4>3 DEF LogOf
          <5> QED
            BY <1>2, <1>3, <4>1, <5>1
        <4> QED
          BY <4>2, <4>3
      <3>6. DOMAIN subs' = DOMAIN subs /\ adjusted \subseteq adjusted' /\ x.n \in Int
            /\ x.step # "update"
        BY <1>1, <1>5, <2>1, <3>2, <3>4
      <3> QED
        BY <1>2, <2>1, <3>5, <3>6, LogStep
    <2>2. CASE UNCHANGED <<subs, spent>> /\ call' = [call EXCEPT ![c] = Idle]
      <3>1. Idle.n \in Int /\ Idle.step = "idle" /\ \A j : LogOf(Idle, j) = 0
        BY DEF Idle, LogOf
      <3>2. adjusted' = adjusted
        BY <1>8 DEF ConsumeTake
      <3> QED
        BY <1>2, <1>3, <2>2, <3>1, <3>2, LogAside
    <2> QED
      BY <1>0, <1>8, <2>1, <2>2 DEF ConsumeTake
  <1> QED
    BY <1>6, <1>7, <1>8

\* A reservation is not in the history, and does not change the allocation.
LEMMA CommitLogs ==
    ASSUME CreditsInv, CreditsInv', LogInv, NEW c \in Calls, ReserveCommit(c)
    PROVE  LogInv'
  <1>0. PICK i, n : i = Newest(ActiveOf(call[c].payer)) /\ n = call[c].n
    OBVIOUS
  <1>1. /\ call' = [call EXCEPT ![c] = Idle] /\ UNCHANGED <<logged, spent, adjusted, faults>>
        /\ call[c].step = "commit"
    BY DEF ReserveCommit
  <1>2. Idle.n \in Int /\ Idle.step = "idle" /\ \A j : LogOf(Idle, j) = 0
    BY DEF Idle, LogOf
  <1>3. \A j : LogOf(call[c], j) = 0
    BY <1>1 DEF LogOf
  <1>4. DOMAIN subs' = DOMAIN subs
        /\ \A j \in DOMAIN subs : subs'[j].allocated = subs[j].allocated
    <2>1. CASE Covered(call[c].payer, n) /\ subs' = [subs EXCEPT ![i] = Take(@, n)]
      <3>1. i \in DOMAIN subs
        BY <1>0, <2>1, NewestActive DEF Covered, CreditsInv
      <3>2. subs[i] \in Subscription
        BY <3>1, LenProperties DEF CreditsInv, SubsInv
      <3>3. Take(subs[i], n).allocated = subs[i].allocated
        BY <3>2, WritesAre
      <3>4. /\ DOMAIN subs' = DOMAIN subs /\ subs'[i] = Take(subs[i], n)
            /\ \A j \in DOMAIN subs : j # i => subs'[j] = subs[j]
        BY <2>1, <3>1 DEF CreditsInv, SubsInv
      <3> QED
        BY <3>3, <3>4
    <2> QED
      BY <1>0, <2>1 DEF ReserveCommit
  <1> QED
    BY <1>1, <1>2, <1>3, <1>4, LogAside

LEMMA FinalizeLogs ==
    ASSUME CreditsInv, CreditsInv', LogInv, NEW h \in DOMAIN holds, Finalize(h)
    PROVE  LogInv'
  <1>0. PICK i : i = holds[h].sub
    OBVIOUS
  <1>1. UNCHANGED <<call, logged, spent, adjusted, faults>>
    BY DEF Finalize, Reconcile, ReconcileAgain, Release, ReleaseAgain
  <1>2. i \in DOMAIN subs
    BY <1>0 DEF CreditsInv, RowsInv
  <1>3. subs[i] \in Subscription
    BY <1>2, LenProperties DEF CreditsInv, SubsInv
  <1>4. \/ UNCHANGED subs
        \/ \E n : \/ subs' = [subs EXCEPT ![i] = GiveBack(subs[i], n)]
                  \/ subs' = [subs EXCEPT ![i] = Take(subs[i], n)]
    BY <1>0 DEF Finalize, Reconcile, ReconcileAgain, Release, ReleaseAgain
  <1>5. \A n : /\ GiveBack(subs[i], n).allocated = subs[i].allocated
               /\ Take(subs[i], n).allocated = subs[i].allocated
    BY <1>3, WritesAre
  <1>6. DOMAIN subs' = DOMAIN subs
        /\ \A j \in DOMAIN subs : subs'[j].allocated = subs[j].allocated
    BY <1>2, <1>4, <1>5 DEF CreditsInv, SubsInv
  <1> QED
    BY <1>1, <1>6, LogStays

\* The creation of a subscription is logged with all of its credits.
LEMMA InsertLogs ==
    ASSUME CreditsInv, CreditsInv', LogInv, NEW c \in Calls, CreateInsert(c)
    PROVE  LogInv'
  <1>0. PICK n : n = Len(subs) + 1
    OBVIOUS
  <1>1. PICK plan \in Plans, trial \in BOOLEAN :
          /\ subs' = Append(subs, [payer |-> call[c].payer,
                                   status |-> IF trial THEN "trialing" ELSE "active",
                                   allocated |-> plan, used |-> 0, remaining |-> plan])
          /\ call' = [call EXCEPT ![c] = [Idle EXCEPT !.step = "log",
                                                      !.sub = Len(subs) + 1, !.n = plan]]
    BY DEF CreateInsert
  <1> DEFINE s == [payer |-> call[c].payer, status |-> IF trial THEN "trialing" ELSE "active",
                   allocated |-> plan, used |-> 0, remaining |-> plan]
             x == [Idle EXCEPT !.step = "log", !.sub = n, !.n = plan]
  <1>2. plan \in Nat /\ s.allocated = plan /\ x.step = "log" /\ x.sub = n /\ x.n = plan
    BY CreditsAssumption DEF Idle
  <1>3. /\ subs' = Append(subs, s) /\ call' = [call EXCEPT ![c] = x]
        /\ logged' = Append(logged, 0) /\ spent' = Append(spent, 0)
        /\ UNCHANGED <<adjusted, faults>> /\ call[c].step = "insert"
    BY <1>0, <1>1 DEF CreateInsert
  <1> HIDE DEF s, x
  <1>4. subs \in Seq(Subscription) /\ DOMAIN subs = 1..Len(subs) /\ Len(subs) \in Nat
        /\ spent \in [DOMAIN subs -> Nat] /\ logged \in [DOMAIN subs -> Int]
    BY LenProperties DEF CreditsInv, SubsInv
  <1>5. spent \in Seq(Nat) /\ Len(spent) = Len(subs) /\ logged \in Seq(Int)
        /\ Len(logged) = Len(subs)
    BY <1>4
  <1>6. /\ DOMAIN subs' = DOMAIN subs \cup {n} /\ n \notin DOMAIN subs /\ subs'[n] = s
        /\ \A i \in DOMAIN subs : subs'[i] = subs[i]
    BY <1>0, <1>3, <1>4
  <1>7. /\ spent'[n] = 0 /\ \A i \in DOMAIN subs : spent'[i] = spent[i]
        /\ logged'[n] = 0 /\ \A i \in DOMAIN subs : logged'[i] = logged[i]
    BY <1>0, <1>3, <1>4, <1>5
  <1>8. \A i : ToLog(i)' = ToLog(i) + LogOf(x, i)
    <2> SUFFICES ASSUME NEW i PROVE ToLog(i)' = ToLog(i) + LogOf(x, i)
      OBVIOUS
    <2>1. x.n \in Int /\ LogOf(call[c], i) = 0
      BY <1>2, <1>3 DEF LogOf
    <2>2. ToLog(i)' = ToLog(i) + LogOf(x, i) - LogOf(call[c], i)
      BY <1>3, <2>1, LogMoves
    <2>3. ToLog(i) \in Int /\ LogOf(x, i) \in Int
      BY <2>1, LogTyped DEF LogOf
    <2> QED
      BY <2>1, <2>2, <2>3
  <1>9. ToLog(n) = 0
    <2> DEFINE f == [d \in Calls |-> LogOf(call[d], n)]
    <2>1. \A d \in Calls : f[d] = 0
      BY <1>6 DEF LogOf, CreditsInv, CallsInv, GoodCall
    <2> HIDE DEF f
    <2>2. SumFunctionOnSet(f, Calls) = 0
      BY <2>1, SumZero, CreditsAssumption
    <2> QED
      BY <2>2 DEF ToLog, f
  <1>10. Accounted(n)'
    <2>1. ToLog(n)' = plan
      BY <1>2, <1>8, <1>9 DEF LogOf
    <2>2. logged'[n] + ToLog(n)' = subs'[n].allocated - spent'[n]
      BY <1>2, <1>6, <1>7, <2>1
    <2> QED
      BY <2>2 DEF Accounted
  <1>11. ASSUME NEW i \in DOMAIN subs PROVE Accounted(i)'
    <2>1. LogOf(x, i) = 0
      BY <1>2, <1>6 DEF LogOf
    <2>2. ToLog(i)' = ToLog(i)
      BY <1>8, <2>1, LogTyped
    <2>3. Accounted(i)
      BY DEF LogInv
    <2> QED
      BY <1>3, <1>6, <1>7, <2>2, <2>3 DEF Accounted
  <1>12. \A d \in Calls : call'[d].step = "update" => call'[d].n = 0
    BY <1>2, <1>3 DEF LogInv, CreditsInv, CallsInv
  <1>13. \A i \in DOMAIN subs' : Accounted(i)'
    BY <1>6, <1>10, <1>11
  <1> QED
    BY <1>12, <1>13 DEF LogInv

\* For any number of operations in progress, the history of a subscription adds
\* up to what was allocated to it less what consume_credits took, as soon as no
\* row is left to be written, as long as no statement was lost and no adjustment
\* took credits away or wrote a stale row back.  Credits charged through reserve
\* and reconcile are not in the history, and not in this theorem.
THEOREM DirectUseIsLogged == Spec => []HistoryAccounts
  <1>1. Init => LogInv
    BY DEF Init, LogInv, Idle
  <1>2. ASSUME CreditsInv, CreditsInv', LogInv, [Next]_vars PROVE LogInv'
    <2>1. ASSUME NEW c \in Calls, Step(c) PROVE LogInv'
      BY <1>2, <2>1, AsideLogs, FaultLogs, HistoryLogs, UpdateLogs, CommitLogs, InsertLogs DEF Step
    <2>2. ASSUME NEW h \in DOMAIN holds, Finalize(h) PROVE LogInv'
      BY <1>2, <2>2, FinalizeLogs
    <2>3. CASE UNCHANGED vars
      BY <1>2, <2>3, LogStays DEF vars
    <2> QED
      BY <1>2, <2>1, <2>2, <2>3 DEF Next
  <1>3. CreditsInv /\ LogInv => HistoryAccounts
    <2> SUFFICES ASSUME CreditsInv, LogInv, NEW i \in DOMAIN subs,
                        ~\E c \in Calls : call[c].step = "log" /\ call[c].sub = i,
                        faults = 0, i \notin adjusted
                 PROVE  logged[i] = subs[i].allocated - spent[i]
      BY DEF HistoryAccounts, CreditsInv, CountsInv
    <2> DEFINE f == [c \in Calls |-> LogOf(call[c], i)]
    <2>1. \A c \in Calls : f[c] = 0
      BY DEF LogOf
    <2> HIDE DEF f
    <2>2. SumFunctionOnSet(f, Calls) = 0
      BY <2>1, SumZero, CreditsAssumption
    <2>3. ToLog(i) = 0
      BY <2>2 DEF ToLog, f
    <2>4. logged[i] \in Int /\ logged[i] + ToLog(i) = subs[i].allocated - spent[i]
      BY LogBefore
    <2> QED
      BY <2>3, <2>4
  <1>4. CreditsInv /\ LogInv /\ [Next]_vars => LogInv'
    BY <1>2, CreditsInductive
  <1> QED
    BY <1>1, <1>3, <1>4, CreditsInvHolds, PTL DEF Spec
=============================================================================
