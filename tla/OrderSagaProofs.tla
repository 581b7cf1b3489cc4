--------------------------- MODULE OrderSagaProofs ---------------------------
(***************************************************************************)
(* Proofs about OrderSaga for every set of scenarios and all bounds.       *)
(*                                                                         *)
(* The inductive invariant says where things come from.  An event that     *)
(* waits, is handled or was handled has been published, so whoever commits *)
(* stock, ships or buys a label works for a payment that succeeded.  An    *)
(* order is announced to payment_service only with a reservation, and a    *)
(* reservation row is never deleted.  A shipment is accounted for by an    *)
(* event that is marked or about to be, and a label by the one event that  *)
(* fulfillment_service gets.                                               *)
(***************************************************************************)
EXTENDS OrderSaga, FiniteSetTheorems, TLAPS

-----------------------------------------------------------------------------
(* A payment counts as seen, and an order as abandoned, from the moment    *)
(* its event was published: both stay so.                                  *)

PaymentSeen == sent \cap Payments # {}
Abandoned == "failed" \in sent

\* The parts of TypeOK.
OrderRow == [status : OrderStatuses, pay : {"pending", "completed", "failed"},
             intent : BOOLEAN, shipped : BOOLEAN]
ShipmentRow == [tracked : BOOLEAN, status : {"created", "label_purchased"}, labels : Nat]
RowsTyped ==
    /\ scenario \in Scenarios
    /\ order \in OrderRow
    /\ stripe \in {"none", "pending", "failed", "succeeded"}
    /\ shipments \in Seq(ShipmentRow)
    /\ Len(shipments) <= MaxShipments
    /\ seen \in 0 .. Len(shipments)
QueuesTyped ==
    /\ sent \subseteq Messages
    /\ inbox \in [Messages -> Nat]
    /\ processed \subseteq Messages
    /\ msg \in Completions
    /\ pc \in [Tasks -> Points]
FaultsTyped == faults \in 0 .. scenario.faults /\ aborted \in BOOLEAN

\* What waits, is being handled or was handled has been published, and the
\* event that the handler of payment.completed works on is not marked yet.
Handlers == Tasks \ {"create", "cancel"}
Announced ==
    /\ \A m \in Messages : inbox[m] > 0 => m \in sent
    /\ processed \subseteq sent
    /\ \A t \in Handlers : pc[t] # "idle" => MessageOf(t) \in sent
    /\ pc["paid"] # "idle" => msg \notin processed

\* What money and goods have to do with the events published.
Paying ==
    /\ PaymentSeen => stripe = "succeeded"
    /\ stripe # "none" => "pay_created" \in sent
    /\ pc["pay_created"] = "intent" => stripe = "none"
    /\ scenario.kind = "goods" /\ (pc["create"] = "publish" \/ "pay_created" \in sent)
          => reservations # <<>>
    /\ order.status = "completed" => PaymentSeen
    /\ Tracked # {} \/ Labelled # {} => PaymentSeen

\* A request to inventory_service, and a row it settled, has its event; the
\* request of create_order only ever inserts.
CallsSound ==
    /\ \A t \in Callers :
        /\ call[t].op = "commit" => PaymentSeen
        /\ call[t].step \in {"start", "update"} /\ call[t].op = "release" => Abandoned
        /\ call[t].step = "update" => call[t].op # "reserve"
    /\ call["create"].step = "start" => call["create"].op = "reserve"
    /\ call["create"].step # "update"
    /\ call["create"].step = "ok" => reservations # <<>>
RowsSettled ==
    \A i \in DOMAIN reservations :
        /\ reservations[i].status = "committed" => PaymentSeen
        /\ reservations[i].status = "released" => Abandoned

\* The events that account for the shipments: those marked, and the one whose
\* handler has shipped and not yet marked it.
Handled == {m \in Completions : m \in processed \/ (m = msg /\ pc["paid"] = "track")}
Counted == aborted \/ Cardinality(Tracked) <= Cardinality(Handled)

StockInv == Inv!TypeOK /\ CallsSound /\ RowsSettled
SagaInv == /\ RowsTyped /\ QueuesTyped /\ FaultsTyped /\ StockInv
           /\ Announced /\ Paying /\ Counted

LEMMA SagaTypeParts ==
    TypeOK <=> RowsTyped /\ QueuesTyped /\ FaultsTyped /\ Inv!TypeOK
BY DEF TypeOK, RowsTyped, QueuesTyped, FaultsTyped, OrderRow, ShipmentRow

-----------------------------------------------------------------------------
(* The reservations of the order.                                          *)

\* Events are never unpublished.
LEMMA SeenGrows ==
    ASSUME sent \subseteq sent'
    PROVE  (PaymentSeen => PaymentSeen') /\ (Abandoned => Abandoned')
BY DEF PaymentSeen, Abandoned

\* A finished call of a task.
LEMMA OutcomeOfOrder ==
    ASSUME NEW result \in Inv!Steps
    PROVE  /\ Inv!Outcome(result) \in Inv!CallType
           /\ Inv!Outcome(result).step = result
           /\ Inv!Outcome(result).op = "release"
<1>1. (CHOOSE o \in {Order} : TRUE) = Order
  OBVIOUS
<1> QED BY <1>1 DEF Inv!Outcome, Inv!Operations, Inv!CallType

\* Where no task works on the reservations, nothing about them changes.
LEMMA StockKept ==
    ASSUME StockInv, UNCHANGED inventoryVars, sent \subseteq sent'
    PROVE  StockInv'
BY SeenGrows DEF StockInv, Inv!TypeOK, CallsSound, RowsSettled, inventoryVars

\* A request that its event justifies may start.
LEMMA RequestKeepsStock ==
    ASSUME StockInv, NEW t \in Callers, NEW op \in Inv!Operations,
           Inv!Request(t, op, Order, 0), sent \subseteq sent',
           op = "commit" => PaymentSeen', op = "release" => Abandoned',
           t = "create" => op = "reserve"
    PROVE  StockInv' /\ reservations' = reservations
<1>1. call' = [call EXCEPT ![t] = [op |-> op, order |-> Order, row |-> 0, step |-> "start"]]
  BY DEF Inv!Request
<1>2. [op |-> op, order |-> Order, row |-> 0, step |-> "start"] \in Inv!CallType
  BY DEF Inv!CallType, Inv!Steps
<1>3. call' \in [Callers -> Inv!CallType]
  BY <1>1, <1>2 DEF StockInv, Inv!TypeOK
<1>4. /\ call'[t].op = op /\ call'[t].step = "start"
      /\ \A u \in Callers \ {t} : call'[u] = call[u]
  BY <1>1 DEF StockInv, Inv!TypeOK
<1>5. reservations' = reservations
  BY DEF Inv!Request
<1>6. "create" \in Callers
  BY DEF Callers
<1> QED
  BY <1>3, <1>4, <1>5, <1>6, SeenGrows DEF StockInv, Inv!TypeOK, CallsSound, RowsSettled

\* A request that ends, the table being as it was.
LEMMA EndKeepsStock ==
    ASSUME StockInv, NEW t \in Callers, NEW result \in Inv!Steps \ {"start", "update"},
           call' = [call EXCEPT ![t] = Inv!Outcome(result)],
           UNCHANGED reservations, sent \subseteq sent',
           t = "create" /\ result = "ok" => reservations # <<>>
    PROVE  StockInv'
<1>1. Inv!Outcome(result) \in Inv!CallType
  BY OutcomeOfOrder
<1>2. call' \in [Callers -> Inv!CallType]
  BY <1>1 DEF StockInv, Inv!TypeOK
<1>3. /\ call'[t].op = "release" /\ call'[t].step = result
      /\ \A u \in Callers \ {t} : call'[u] = call[u]
  BY OutcomeOfOrder DEF StockInv, Inv!TypeOK
<1>4. "create" \in Callers
  BY DEF Callers
<1> QED
  BY <1>2, <1>3, <1>4, SeenGrows DEF StockInv, Inv!TypeOK, CallsSound, RowsSettled

\* reserve inserts an active row.
LEMMA ReserveKeepsStock ==
    ASSUME StockInv, NEW t \in Callers, Inv!CreateReservation(t), sent \subseteq sent'
    PROVE  StockInv' /\ reservations' # <<>>
<1>1. PICK result \in {"ok", "error"} : call' = [call EXCEPT ![t] = Inv!Outcome(result)]
  BY DEF Inv!CreateReservation
<1>2. [order |-> call[t].order, status |-> "active"] \in Inv!RowType
  BY DEF StockInv, Inv!TypeOK, Inv!Statuses, Inv!RowType, Inv!CallType
<1>3. reservations' = Append(reservations, [order |-> call[t].order, status |-> "active"])
  BY DEF Inv!CreateReservation
<1>4. /\ reservations' \in Seq(Inv!RowType)
      /\ Len(reservations') = Len(reservations) + 1
      /\ DOMAIN reservations \subseteq DOMAIN reservations'
      /\ \A i \in DOMAIN reservations' :
             reservations'[i].status = "active"
                \/ (i \in DOMAIN reservations /\ reservations'[i] = reservations[i])
  BY <1>2, <1>3 DEF StockInv, Inv!TypeOK
<1>5. Len(reservations') <= MaxReservations
  BY <1>4, SagaAssumption DEF StockInv, Inv!CreateReservation, Inv!TypeOK
<1>6. /\ Inv!Outcome(result) \in Inv!CallType
      /\ call' \in [Callers -> Inv!CallType]
      /\ call'[t].op = "release" /\ call'[t].step = result
      /\ \A u \in Callers \ {t} : call'[u] = call[u]
  BY <1>1, OutcomeOfOrder DEF StockInv, Inv!TypeOK, Inv!Steps
<1>7. reservations' # <<>>
  BY <1>4 DEF StockInv, Inv!TypeOK
<1>8. Inv!TypeOK'
  BY <1>4, <1>5, <1>6 DEF StockInv, Inv!TypeOK
<1>9. CallsSound'
  <2>1. "create" \in Callers
    BY DEF Callers
  <2> QED BY <1>6, <1>7, <2>1, SeenGrows DEF StockInv, CallsSound
<1>10. RowsSettled'
  BY <1>4, SeenGrows DEF StockInv, RowsSettled
<1> QED BY <1>7, <1>8, <1>9, <1>10 DEF StockInv

\* A lookup ends the call or gives it a row that exists.
LEMMA LookUpKeepsStock ==
    ASSUME StockInv, NEW t \in Callers, Inv!LookUp(t), sent \subseteq sent'
    PROVE  StockInv' /\ reservations' = reservations
<1>1. PICK row \in 0 .. Len(reservations) :
          /\ Inv!FindReservation(call[t].order, call[t].row, row)
          /\ call' = [call EXCEPT ![t] =
                 IF row # 0 THEN [@ EXCEPT !.row = row, !.step = "update"]
                 ELSE Inv!Outcome(IF call[t].op = "commit" THEN "missing" ELSE "ok")]
  BY DEF Inv!LookUp
<1>2. UNCHANGED reservations
  BY DEF Inv!LookUp
<1>3. t # "create"
  BY DEF Inv!LookUp, StockInv, CallsSound
<1>4. CASE row = 0
  <2>1. PICK result \in {"missing", "ok"} : call' = [call EXCEPT ![t] = Inv!Outcome(result)]
    BY <1>1, <1>4
  <2> QED
    BY <1>2, <1>3, <2>1, EndKeepsStock DEF Inv!Steps
<1>5. CASE row # 0
  <2>1. PICK k : k = [call[t] EXCEPT !.row = row, !.step = "update"]
    OBVIOUS
  <2>2. call' = [call EXCEPT ![t] = k]
    BY <1>1, <1>5, <2>1
  <2>3. call[t] \in Inv!CallType /\ call \in [Callers -> Inv!CallType] /\ row \in Nat
    BY DEF StockInv, Inv!TypeOK
  <2>4. k \in Inv!CallType /\ k.op = call[t].op /\ k.row = row /\ k.step = "update"
    BY <2>1, <2>3 DEF Inv!CallType, Inv!Steps
  <2>5. /\ call' \in [Callers -> Inv!CallType]
        /\ call'[t] = k
        /\ \A u \in Callers \ {t} : call'[u] = call[u]
    BY <2>2, <2>3, <2>4
  <2>6. row \in DOMAIN reservations
    BY <1>5 DEF StockInv, Inv!TypeOK
  <2>7. Inv!TypeOK'
    BY <1>2, <2>4, <2>5, <2>6 DEF StockInv, Inv!TypeOK
  <2>8. call[t].step = "start" /\ call[t].op # "reserve" /\ "create" \in Callers
    BY DEF Inv!LookUp, Callers
  <2>9. CallsSound'
    BY <1>2, <1>3, <2>4, <2>5, <2>8, SeenGrows DEF StockInv, CallsSound
  <2>10. RowsSettled'
    BY <1>2, SeenGrows DEF StockInv, RowsSettled
  <2> QED BY <1>2, <2>7, <2>9, <2>10 DEF StockInv
<1> QED BY <1>4, <1>5

\* The UPDATE of commit and release settles a row as its event says.
LEMMA SettleKeepsStock ==
    ASSUME StockInv, NEW t \in Callers, Inv!Settle(t), sent \subseteq sent'
    PROVE  StockInv' /\ (reservations # <<>> => reservations' # <<>>)
<1>1. PICK result \in {"ok", "error"} : call' = [call EXCEPT ![t] = Inv!Outcome(result)]
  BY DEF Inv!Settle
<1>2. PICK i : i = call[t].row
  OBVIOUS
<1>3. PICK status : status = Inv!Settled(call[t].op)
  OBVIOUS
<1>4. /\ i \in DOMAIN reservations
      /\ status \in {"committed", "released"}
      /\ status = "committed" => PaymentSeen
      /\ status = "released" => Abandoned
  <2>1. /\ call[t].op \in Inv!Operations
        /\ call[t].step = "update"
    BY DEF StockInv, Inv!TypeOK, Inv!CallType, Inv!Settle
  <2>2. call[t].op \in {"commit", "release"}
    BY <2>1 DEF StockInv, CallsSound, Inv!Operations
  <2> QED
    BY <1>2, <1>3, <2>1, <2>2 DEF StockInv, Inv!TypeOK, CallsSound, Inv!Settled
<1>5. t # "create" /\ "create" \in Callers
  BY DEF Inv!Settle, StockInv, CallsSound, Callers
<1>6. /\ call' \in [Callers -> Inv!CallType]
      /\ call'[t].op = "release" /\ call'[t].step = result
      /\ \A u \in Callers \ {t} : call'[u] = call[u]
  BY <1>1, OutcomeOfOrder DEF StockInv, Inv!TypeOK, Inv!Steps
<1>7. \/ reservations' = reservations
      \/ reservations' = [reservations EXCEPT ![i].status = status]
  BY <1>2, <1>3 DEF Inv!Settle
<1>8. /\ reservations' \in Seq(Inv!RowType)
      /\ Len(reservations') = Len(reservations)
      /\ DOMAIN reservations' = DOMAIN reservations
      /\ \A j \in DOMAIN reservations :
             reservations'[j].status \in {reservations[j].status, status}
  <2>1. CASE reservations' = reservations
    BY <2>1 DEF StockInv, Inv!TypeOK
  <2>2. CASE reservations' = [reservations EXCEPT ![i].status = status]
    <3>1. reservations[i] \in Inv!RowType
      BY <1>4 DEF StockInv, Inv!TypeOK
    <3>2. PICK r : r = [reservations[i] EXCEPT !.status = status]
      OBVIOUS
    <3>3. r \in Inv!RowType /\ r.status = status
      BY <1>4, <3>1, <3>2 DEF Inv!RowType, Inv!Statuses
    <3>4. reservations' = [reservations EXCEPT ![i] = r]
      BY <2>2, <3>2
    <3> QED
      BY <1>4, <3>3, <3>4 DEF StockInv, Inv!TypeOK
  <2> QED BY <1>7, <2>1, <2>2
<1>9. Inv!TypeOK'
  BY <1>6, <1>8 DEF StockInv, Inv!TypeOK
<1>10. reservations # <<>> => reservations' # <<>>
  BY <1>8 DEF StockInv, Inv!TypeOK
<1>11. CallsSound'
  BY <1>5, <1>6, <1>10, SeenGrows DEF StockInv, CallsSound
<1>12. RowsSettled'
  BY <1>4, <1>8, SeenGrows DEF StockInv, RowsSettled
<1> QED BY <1>9, <1>10, <1>11, <1>12 DEF StockInv

\* A call that fails or is answered ends.
LEMMA CallEnds ==
    ASSUME StockInv, NEW t \in Callers, Inv!RepositoryError(t) \/ Inv!Return(t),
           sent \subseteq sent'
    PROVE  StockInv' /\ reservations' = reservations
<1>1. PICK result \in {"error", "idle"} : call' = [call EXCEPT ![t] = Inv!Outcome(result)]
  BY DEF Inv!RepositoryError, Inv!Return
<1>2. UNCHANGED reservations
  BY DEF Inv!RepositoryError, Inv!Return
<1> QED
  BY <1>1, <1>2, EndKeepsStock DEF Inv!Steps

-----------------------------------------------------------------------------
(* The consumer loops and their queues.                                    *)

\* A task moves on; the others stay where they are.
LEMMA GotoStep ==
    ASSUME QueuesTyped, NEW t \in Tasks, NEW step \in Points, Goto(t, step)
    PROVE  /\ pc' \in [Tasks -> Points]
           /\ pc'[t] = step
           /\ \A u \in Tasks : u # t => pc'[u] = pc[u]
BY DEF QueuesTyped, Goto

\* Moving on takes no event and marks none.
LEMMA GotoKeeps ==
    ASSUME QueuesTyped, Announced, NEW t \in Tasks, NEW step \in Points, Goto(t, step),
           t \in {"create", "cancel"} \/ pc[t] # "idle" \/ step = "idle",
           UNCHANGED queueVars
    PROVE  QueuesTyped' /\ Announced'
<1>1. /\ pc' \in [Tasks -> Points] /\ pc'[t] = step
      /\ \A u \in Tasks : u # t => pc'[u] = pc[u]
  BY GotoStep
<1>2. UNCHANGED <<sent, inbox, processed, msg>>
  BY DEF queueVars
<1>3. \A u \in Handlers : pc'[u] # "idle" => pc[u] # "idle" \/ (u = t /\ step = "idle")
  BY <1>1 DEF Handlers
<1>4. \A u \in Handlers : pc'[u] # "idle" => MessageOf(u)' \in sent'
  BY <1>1, <1>2, <1>3 DEF Announced, MessageOf, Handlers
<1>5. "paid" \in Handlers
  BY DEF Handlers, Tasks, OrderHandlers
<1> QED
  BY <1>1, <1>2, <1>3, <1>4, <1>5 DEF QueuesTyped, Announced, Handlers

\* A handler of order_service marks the event it was woken by.
LEMMA FinishKeeps ==
    ASSUME QueuesTyped, Announced, NEW t \in OrderHandlers, pc[t] # "idle", Finish(t)
    PROVE  /\ QueuesTyped' /\ Announced'
           /\ processed' = processed \cup {MessageOf(t)}
           /\ pc'[t] = "idle" /\ \A u \in Tasks : u # t => pc'[u] = pc[u]
           /\ UNCHANGED <<sent, inbox, msg>>
<1>1. t \in Tasks /\ t \in Handlers /\ "idle" \in Points
  BY DEF OrderHandlers, Tasks, Handlers, Points
<1>2. /\ pc' \in [Tasks -> Points] /\ pc'[t] = "idle"
      /\ \A u \in Tasks : u # t => pc'[u] = pc[u]
  BY <1>1, GotoStep DEF Finish
<1>3. UNCHANGED <<sent, inbox, msg>> /\ processed' = processed \cup {MessageOf(t)}
  BY DEF Finish
<1>4. MessageOf(t) \in sent
  BY <1>1 DEF Announced
<1>5. \A u \in Handlers : pc'[u] # "idle" => pc[u] # "idle" /\ u # t
  BY <1>2 DEF Handlers
<1>6. \A u \in Handlers : pc'[u] # "idle" => MessageOf(u)' \in sent'
  BY <1>3, <1>5 DEF Announced, MessageOf
<1>7. pc'["paid"] # "idle" => msg' \notin processed'
  <2>1. SUFFICES ASSUME pc'["paid"] # "idle" PROVE msg \notin processed'
    BY <1>3
  <2>2. "paid" \in Handlers
    BY DEF Handlers, Tasks, OrderHandlers
  <2>3. t # "paid" /\ pc["paid"] # "idle"
    BY <1>2, <2>1, <2>2, <1>5
  <2>4. MessageOf(t) = t /\ t \notin Completions
    BY <2>3 DEF MessageOf, Completions, OrderHandlers
  <2> QED BY <1>3, <2>3, <2>4 DEF Announced, QueuesTyped
<1>8. QueuesTyped'
  BY <1>2, <1>3, <1>4 DEF QueuesTyped
<1>9. Announced'
  BY <1>3, <1>4, <1>6, <1>7 DEF Announced
<1> QED BY <1>2, <1>3, <1>8, <1>9

\* Both ways to go on, for the tasks that have them.
LEMMA GoOnKeeps ==
    ASSUME QueuesTyped, Announced, NEW t \in Tasks, NEW next \in Points \cup {"finish"},
           next = "finish" => t \in OrderHandlers,
           t = "create" \/ pc[t] # "idle", GoOn(t, next)
    PROVE  /\ QueuesTyped' /\ Announced'
           /\ processed \subseteq processed'
           /\ IF next = "finish"
              THEN pc'[t] = "idle" /\ processed' = processed \cup {MessageOf(t)}
              ELSE pc'[t] = next
           /\ \A u \in Tasks : u # t => pc'[u] = pc[u]
           /\ UNCHANGED <<sent, inbox, msg>>
<1>1. CASE next = "finish"
  <2>1. Finish(t) /\ t \in OrderHandlers /\ pc[t] # "idle"
    BY <1>1 DEF GoOn, OrderHandlers
  <2> QED BY <1>1, <2>1, FinishKeeps
<1>2. CASE next # "finish"
  <2>1. Goto(t, next) /\ UNCHANGED queueVars /\ next \in Points
    BY <1>2 DEF GoOn
  <2>2. QueuesTyped' /\ Announced'
    BY <2>1, GotoKeeps
  <2>3. pc'[t] = next /\ \A u \in Tasks : u # t => pc'[u] = pc[u]
    BY <2>1, GotoStep
  <2> QED BY <1>2, <2>1, <2>2, <2>3 DEF queueVars
<1> QED BY <1>1, <1>2

\* Publishing adds copies of what was published, and takes no event.
LEMMA PublishKeeps ==
    ASSUME QueuesTyped, Announced, NEW ms \in SUBSET Messages, Publish(ms),
           pc' \in [Tasks -> Points], pc'["paid"] = pc["paid"],
           \A u \in Handlers : pc'[u] \in {pc[u], "idle"}
    PROVE  /\ QueuesTyped' /\ Announced'
           /\ NoFault \/ Fault
           /\ UNCHANGED <<processed, msg>>
           /\ sent' = sent \cup ms
<1>1. sent' = sent \cup ms /\ UNCHANGED <<processed, msg>>
  BY DEF Publish
<1>3. NoFault \/ Fault
  BY DEF Publish
<1>2. PICK once \in SUBSET ms, again \in SUBSET ms :
        inbox' = [m \in Messages |-> inbox[m] + (IF m \in once THEN 1 ELSE 0)
                                              + (IF m \in again THEN 1 ELSE 0)]
  <2> DEFINE Delivered(x, y) ==
          inbox' = [m \in Messages |-> inbox[m] + (IF m \in x THEN 1 ELSE 0)
                                                + (IF m \in y THEN 1 ELSE 0)]
  <2>1. \/ Delivered(ms, {})
        \/ \E lost \in (SUBSET ms) \ {{}} : Delivered(ms \ lost, {})
        \/ \E twice \in ms : Delivered(ms, {twice})
    BY DEF Publish
  <2> HIDE DEF Delivered
  <2>2. {} \in SUBSET ms /\ ms \in SUBSET ms
    OBVIOUS
  <2>3. \A lost \in SUBSET ms : ms \ lost \in SUBSET ms
    OBVIOUS
  <2>4. \A twice \in ms : {twice} \in SUBSET ms
    OBVIOUS
  <2>5. \E once \in SUBSET ms, again \in SUBSET ms : Delivered(once, again)
    BY <2>1, <2>2, <2>3, <2>4, Zenon
  <2> QED BY <2>5 DEF Delivered
<1>4. /\ inbox' \in [Messages -> Nat]
      /\ \A m \in Messages : m \notin ms => inbox'[m] = inbox[m]
  <2>1. \A m \in Messages : inbox[m] \in Nat
    BY DEF QueuesTyped
  <2> QED BY <1>2, <2>1
<1>5. QueuesTyped'
  BY <1>1, <1>4 DEF QueuesTyped
<1>6. \A u \in Handlers : pc'[u] # "idle" => MessageOf(u)' \in sent'
  BY <1>1 DEF Announced, MessageOf
<1>7. Announced'
  BY <1>1, <1>4, <1>6 DEF Announced
<1> QED BY <1>1, <1>3, <1>5, <1>7

\* A fault more stays within the scenario's bound.
LEMMA FaultsKept ==
    ASSUME RowsTyped, FaultsTyped, NoFault \/ Fault, UNCHANGED scenario, aborted' \in BOOLEAN
    PROVE  FaultsTyped'
<1>1. scenario.faults \in Nat
  BY SagaAssumption DEF RowsTyped, Scenario
<1> QED BY <1>1 DEF FaultsTyped, NoFault, Fault

-----------------------------------------------------------------------------
(* The order, its payment and its shipments.                               *)

\* The shipments are finitely many.
LEMMA ShipmentsFinite ==
    ASSUME shipments \in Seq(ShipmentRow)
    PROVE  IsFiniteSet(Tracked) /\ Cardinality(Tracked) \in Nat
<1>1. Tracked \in SUBSET (1 .. Len(shipments)) /\ 1 \in Int /\ Len(shipments) \in Int
  BY DEF Tracked
<1>2. IsFiniteSet(1 .. Len(shipments))
  BY <1>1, FS_Interval
<1> QED
  BY <1>1, <1>2, FS_Subset, FS_CardinalityType

\* So are the events of a payment.
LEMMA EventsFinite ==
    ASSUME NEW S \in SUBSET Completions
    PROVE  IsFiniteSet(S) /\ Cardinality(S) \in Nat
<1>1. Completions = {"completed_a"} \cup {"completed_b"}
  BY DEF Completions
<1>2. IsFiniteSet({"completed_a"})
  BY FS_Singleton
<1>3. IsFiniteSet(Completions)
  BY <1>1, <1>2, FS_AddElement
<1> QED
  BY <1>3, FS_Subset, FS_CardinalityType

\* An event that accounts for a shipment keeps accounting for it.
LEMMA CountedKept ==
    ASSUME RowsTyped, QueuesTyped, QueuesTyped', Counted, UNCHANGED <<shipments, aborted>>,
           processed \subseteq processed',
           pc["paid"] = "track" =>
               msg \in processed' \/ (msg' = msg /\ pc'["paid"] = "track")
    PROVE  Counted'
<1>1. Tracked' = Tracked
  BY DEF Tracked
<1>2. Handled \subseteq Handled'
  BY DEF Handled, QueuesTyped
<1>3. /\ Cardinality(Tracked) \in Nat /\ Cardinality(Handled) \in Nat
      /\ IsFiniteSet(Handled') /\ Cardinality(Handled') \in Nat
  <2>1. Handled \in SUBSET Completions /\ Handled' \in SUBSET Completions
    BY DEF Handled
  <2> QED BY <2>1, ShipmentsFinite, EventsFinite DEF RowsTyped
<1>4. Cardinality(Handled) <= Cardinality(Handled')
  BY <1>2, <1>3, FS_Subset
<1> QED BY <1>1, <1>3, <1>4 DEF Counted

\* The UPDATEs of the order leave a row of the table, and none completes it.
LEMMA WrittenRow ==
    ASSUME RowsTyped, NEW t \in Tasks
    PROVE  /\ Written(t) \in OrderRow
           /\ Written(t).status = "completed" => order.status = "completed"
BY DEF RowsTyped, Written, OrderRow, OrderStatuses

\* The steps that touch neither payment nor shipments: what remains to be seen
\* of each.
LEMMA OrderStep ==
    ASSUME SagaInv, QueuesTyped', Announced', StockInv',
           UNCHANGED <<scenario, stripe, shipments, aborted>>,
           seen' \in 0 .. Len(shipments),
           order' \in OrderRow, order'.status = "completed" => PaymentSeen,
           NoFault \/ Fault,
           sent \subseteq sent', PaymentSeen' => PaymentSeen,
           "pay_created" \in sent' => "pay_created" \in sent \/ pc["create"] = "publish",
           pc'["pay_created"] = "intent" => stripe = "none",
           scenario.kind = "goods" /\ pc'["create"] = "publish" => reservations' # <<>>,
           reservations # <<>> => reservations' # <<>>,
           processed \subseteq processed',
           pc["paid"] = "track" =>
               msg \in processed' \/ (msg' = msg /\ pc'["paid"] = "track")
    PROVE  SagaInv'
<1>1. RowsTyped'
  BY DEF SagaInv, RowsTyped
<1>2. FaultsTyped'
  BY FaultsKept DEF SagaInv, FaultsTyped
<1>3. Paying'
  <2>1. Tracked' = Tracked /\ Labelled' = Labelled
    BY DEF Tracked, Labelled
  <2> QED BY <2>1, SeenGrows DEF SagaInv, Paying
<1>4. Counted'
  BY CountedKept DEF SagaInv
<1> QED BY <1>1, <1>2, <1>3, <1>4 DEF SagaInv

\* cancel_order goes on.
LEMMA CancelStepKeeps ==
    ASSUME SagaInv, QueuesTyped', Announced', StockInv',
           UNCHANGED <<scenario, stripe, shipments, aborted, sent, processed, msg, seen,
                       reservations>>,
           order' \in OrderRow, order'.status = "completed" => order.status = "completed",
           NoFault \/ Fault,
           \A u \in Tasks : u # "cancel" => pc'[u] = pc[u]
    PROVE  SagaInv'
<1>1. /\ pc'["create"] = pc["create"] /\ pc'["paid"] = pc["paid"]
      /\ pc'["pay_created"] = pc["pay_created"]
  BY DEF Tasks, OrderHandlers, PaymentHandlers
<1>2. PaymentSeen' = PaymentSeen /\ seen' \in 0 .. Len(shipments)
  BY DEF PaymentSeen, SagaInv, RowsTyped
<1> QED BY <1>1, <1>2, OrderStep DEF SagaInv, Paying

-----------------------------------------------------------------------------
(* create_order                                                            *)

LEMMA CreateTask ==
    /\ "create" \in Tasks /\ "cancel" \in Tasks /\ "paid" \in Tasks
    /\ "create" \in Callers /\ OrderHandlers \subseteq Tasks
    /\ "pay_created" \in Tasks /\ "pay_created" \notin OrderHandlers \cup Callers
    /\ "pay_created" \in Messages
BY DEF Tasks, Callers, OrderHandlers, PaymentHandlers, InventoryHandlers, Messages

\* create_order moves on, with an UPDATE of the order or without.
LEMMA CreateMoves ==
    ASSUME SagaInv, NEW step \in Points, Goto("create", step), StockInv',
           UNCHANGED <<scenario, stripe, shipments, queueVars, seen, aborted>>,
           order' \in OrderRow, order'.status = "completed" => order.status = "completed",
           NoFault \/ Fault,
           scenario.kind = "goods" /\ step = "publish" => reservations' # <<>>,
           reservations # <<>> => reservations' # <<>>
    PROVE  SagaInv'
<1>1. QueuesTyped' /\ Announced'
  BY CreateTask, GotoKeeps DEF SagaInv
<1>2. /\ pc'["create"] = step /\ pc'["paid"] = pc["paid"]
      /\ pc'["pay_created"] = pc["pay_created"]
  BY CreateTask, GotoStep DEF SagaInv
<1>3. UNCHANGED <<sent, processed, msg>>
  BY DEF queueVars
<1>4. PaymentSeen' => PaymentSeen
  BY <1>3 DEF PaymentSeen
<1>5. /\ order'.status = "completed" => PaymentSeen
      /\ pc["pay_created"] = "intent" => stripe = "none"
  BY DEF SagaInv, Paying
<1>6. seen' \in 0 .. Len(shipments)
  BY DEF SagaInv, RowsTyped
<1> QED BY <1>1, <1>2, <1>3, <1>4, <1>5, <1>6, OrderStep

LEMMA CreateKeeps ==
    ASSUME SagaInv, InsertOrder \/ ReservationFailed \/ ReserveStock
    PROVE  SagaInv'
<1>1. CASE InsertOrder
  <2>1. order' \in OrderRow /\ order'.status = "pending"
    BY <1>1 DEF InsertOrder, SagaInv, RowsTyped, OrderRow, OrderStatuses
  <2>2. StockInv'
    BY <1>1, StockKept DEF InsertOrder, SagaInv, queueVars
  <2>3. UNCHANGED reservations
    BY <1>1 DEF InsertOrder, inventoryVars
  <2>4. PICK step \in {"reserve", "publish"} :
            Goto("create", step) /\ (scenario.kind = "goods" => step = "reserve")
    BY <1>1 DEF InsertOrder
  <2> QED
    BY <1>1, <2>1, <2>2, <2>3, <2>4, CreateMoves DEF InsertOrder, Points, NoFault
<1>2. CASE ReservationFailed
  <2>1. /\ order' \in OrderRow
        /\ order'.status = "completed" => order.status = "completed"
    BY <1>2, CreateTask, WrittenRow
    DEF ReservationFailed, SagaInv, RowsTyped
  <2>2. StockInv'
    BY <1>2, StockKept DEF ReservationFailed, SagaInv, queueVars
  <2>3. UNCHANGED reservations
    BY <1>2 DEF ReservationFailed, inventoryVars
  <2>4. Goto("create", "done")
    BY <1>2 DEF ReservationFailed
  <2>5. /\ UNCHANGED <<scenario, stripe, shipments, queueVars, seen, aborted>>
        /\ NoFault
    BY <1>2 DEF ReservationFailed, NoFault
  <2> QED
    BY <2>1, <2>2, <2>3, <2>4, <2>5, CreateMoves DEF Points
<1>3. CASE ReserveStock
  <2>1. /\ pc["create"] = "reserve" /\ Inv!Request("create", "reserve", Order, 0)
        /\ Goto("create", "waiting")
        /\ UNCHANGED <<rowVars, queueVars, seen, faults, aborted>>
    BY <1>3 DEF ReserveStock, CallInventory
  <2>2. StockInv' /\ reservations' = reservations
    BY <2>1, CreateTask, RequestKeepsStock DEF SagaInv, Inv!Operations, queueVars
  <2>3. /\ order' \in OrderRow /\ order'.status = order.status
        /\ UNCHANGED <<scenario, stripe, shipments>>
    BY <2>1 DEF rowVars, SagaInv, RowsTyped
  <2> QED
    BY <2>1, <2>2, <2>3, CreateMoves DEF Points, NoFault
<1> QED BY <1>1, <1>2, <1>3

\* The steps that touch the payment: what remains to be seen of each.
LEMMA PaymentStep ==
    ASSUME SagaInv, QueuesTyped', Announced', StockInv', Paying',
           UNCHANGED <<scenario, order, shipments, seen, aborted, processed, msg>>,
           stripe' \in {"none", "pending", "failed", "succeeded"},
           NoFault \/ Fault,
           pc'["paid"] = pc["paid"]
    PROVE  SagaInv'
<1>1. RowsTyped'
  BY DEF SagaInv, RowsTyped
<1>2. FaultsTyped'
  BY FaultsKept DEF SagaInv, FaultsTyped
<1>3. Counted'
  BY CountedKept DEF SagaInv
<1> QED BY <1>1, <1>2, <1>3 DEF SagaInv

\* What publishing does to the payment and the order is up to its caller.
LEMMA PublishStep ==
    ASSUME SagaInv, NEW ms \in SUBSET Messages, Publish(ms),
           UNCHANGED pc \/ Goto("create", "done") \/ Goto("pay_created", "idle")
    PROVE  /\ QueuesTyped' /\ Announced'
           /\ NoFault \/ Fault
           /\ UNCHANGED <<processed, msg>>
           /\ sent' = sent \cup ms
           /\ pc'["paid"] = pc["paid"]
           /\ pc'["create"] \in {pc["create"], "done"}
           /\ pc'["pay_created"] \in {pc["pay_created"], "idle"}
           /\ ms \cap Payments = {} => PaymentSeen' = PaymentSeen
<1>1. /\ pc' \in [Tasks -> Points] /\ pc'["paid"] = pc["paid"]
      /\ \A u \in Handlers : pc'[u] \in {pc[u], "idle"}
      /\ pc'["create"] \in {pc["create"], "done"}
      /\ pc'["pay_created"] \in {pc["pay_created"], "idle"}
  BY CreateTask DEF Goto, SagaInv, QueuesTyped, Handlers, Points
<1>2. /\ QueuesTyped' /\ Announced'
      /\ NoFault \/ Fault
      /\ UNCHANGED <<processed, msg>>
      /\ sent' = sent \cup ms
  BY <1>1, PublishKeeps DEF SagaInv
<1>3. ms \cap Payments = {} => PaymentSeen' = PaymentSeen
  BY <1>2 DEF PaymentSeen
<1> QED BY <1>1, <1>2, <1>3

\* The intent is made for an order that was announced, and not twice.
LEMMA IntentKeeps == ASSUME SagaInv, CreateIntent PROVE SagaInv'
<1>1. /\ pc["pay_created"] = "intent" /\ Goto("pay_created", "idle")
      /\ UNCHANGED <<scenario, order, shipments, seen, aborted, inventoryVars>>
      /\ \/ stripe' = "pending" /\ Publish({"initiated"})
         \/ UNCHANGED <<stripe, queueVars>> /\ Fault
  BY DEF CreateIntent
<1>2. /\ QueuesTyped' /\ Announced' /\ (NoFault \/ Fault)
      /\ UNCHANGED <<processed, msg>>
      /\ sent \subseteq sent' /\ PaymentSeen' = PaymentSeen
      /\ "pay_created" \in sent' <=> "pay_created" \in sent
  <2>1. CASE Publish({"initiated"})
    <3>1. {"initiated"} \in SUBSET Messages /\ {"initiated"} \cap Payments = {}
      BY DEF Messages, Payments, Completions
    <3> QED BY <1>1, <2>1, <3>1, PublishStep
  <2>2. CASE UNCHANGED queueVars /\ Fault
    <3>1. QueuesTyped' /\ Announced'
      BY <1>1, <2>2, CreateTask, GotoKeeps DEF SagaInv, Points
    <3> QED BY <2>2, <3>1 DEF queueVars, PaymentSeen
  <2> QED BY <1>1, <2>1, <2>2
<1>3. /\ pc'["create"] = pc["create"] /\ pc'["paid"] = pc["paid"]
      /\ pc'["pay_created"] = "idle"
  BY <1>1, CreateTask, GotoStep DEF SagaInv, Points
<1>4. StockInv' /\ reservations' = reservations
  BY <1>1, <1>2, StockKept DEF SagaInv, inventoryVars
<1>5. stripe = "none" /\ ~ PaymentSeen /\ "pay_created" \in sent
  <2>1. "pay_created" \in Handlers
    BY DEF Handlers, Tasks, PaymentHandlers
  <2> QED BY <1>1, <2>1 DEF SagaInv, Paying, Announced, MessageOf
<1>6. Tracked' = Tracked /\ Labelled' = Labelled
  BY <1>1 DEF Tracked, Labelled
<1>7. Paying'
  BY <1>1, <1>2, <1>3, <1>4, <1>5, <1>6 DEF SagaInv, Paying
<1>8. stripe' \in {"none", "pending", "failed", "succeeded"}
  BY <1>1, <1>5
<1> QED
  BY <1>1, <1>2, <1>3, <1>4, <1>7, <1>8, PaymentStep

\* The steps that publish something else than a completed payment.
LEMMA AnnouncementStep ==
    ASSUME SagaInv, NEW ms \in SUBSET Messages, Publish(ms), ms \cap Payments = {},
           UNCHANGED pc \/ Goto("create", "done"),
           "pay_created" \in ms => pc["create"] = "publish",
           UNCHANGED <<scenario, order, stripe, shipments, seen, aborted>>,
           StockInv', reservations # <<>> => reservations' # <<>>
    PROVE  SagaInv'
<1>1. /\ QueuesTyped' /\ Announced'
      /\ NoFault \/ Fault
      /\ UNCHANGED <<processed, msg>>
      /\ sent' = sent \cup ms
      /\ pc'["paid"] = pc["paid"]
      /\ pc'["create"] \in {pc["create"], "done"}
      /\ pc'["pay_created"] \in {pc["pay_created"], "idle"}
      /\ PaymentSeen' = PaymentSeen
  BY PublishStep
<1>2. order' \in OrderRow /\ seen' \in 0 .. Len(shipments)
  BY DEF SagaInv, RowsTyped
<1> QED
  BY <1>1, <1>2, OrderStep DEF SagaInv, Paying

LEMMA AnnouncementKeeps ==
    ASSUME SagaInv, PublishCreated \/ UserDeleted
    PROVE  SagaInv'
<1>1. PICK ms \in SUBSET Messages :
          /\ Publish(ms) /\ ms \cap Payments = {}
          /\ "pay_created" \in ms => pc["create"] = "publish"
  BY DEF PublishCreated, UserDeleted, Messages, Payments, Completions
<1>2. UNCHANGED pc \/ Goto("create", "done")
  BY DEF PublishCreated, UserDeleted
<1>3. UNCHANGED <<scenario, order, stripe, shipments, seen, aborted, inventoryVars>>
  BY DEF PublishCreated, UserDeleted, rowVars
<1>4. StockInv' /\ reservations' = reservations
  BY <1>1, <1>3, StockKept DEF SagaInv, Publish, inventoryVars
<1> QED BY <1>1, <1>2, <1>3, <1>4, AnnouncementStep

\* payment.failed is published of an intent that was not paid,
LEMMA DeclineKeeps == ASSUME SagaInv, PaymentFails PROVE SagaInv'
<1>1. /\ stripe = "pending" /\ stripe' = "failed"
      /\ Publish({"failed"})
      /\ UNCHANGED <<scenario, order, shipments, pc, seen, aborted, inventoryVars>>
  BY DEF PaymentFails
<1>2. {"failed"} \in SUBSET Messages /\ {"failed"} \cap Payments = {}
  BY DEF Messages, Payments, Completions
<1>3. /\ QueuesTyped' /\ Announced'
      /\ NoFault \/ Fault
      /\ UNCHANGED <<processed, msg>>
      /\ sent' = sent \cup {"failed"}
      /\ PaymentSeen' = PaymentSeen
  BY <1>1, <1>2, PublishStep
<1>4. StockInv' /\ reservations' = reservations
  BY <1>1, <1>3, StockKept DEF SagaInv, inventoryVars
<1>5. Tracked' = Tracked /\ Labelled' = Labelled
  BY <1>1 DEF Tracked, Labelled
<1>6. Paying'
  BY <1>1, <1>3, <1>4, <1>5 DEF SagaInv, Paying
<1> QED
  BY <1>1, <1>3, <1>4, <1>6, PaymentStep

\* and payment.completed of one that then stays paid.
LEMMA SuccessKeeps == ASSUME SagaInv, PaymentSucceeds PROVE SagaInv'
<1>1. /\ stripe \in {"pending", "failed"} /\ stripe' = "succeeded"
      /\ Publish(Payments)
      /\ UNCHANGED <<scenario, order, shipments, pc, seen, aborted, inventoryVars>>
  BY DEF PaymentSucceeds
<1>2. Payments \in SUBSET Messages
  BY DEF Messages
<1>3. /\ QueuesTyped' /\ Announced'
      /\ NoFault \/ Fault
      /\ UNCHANGED <<processed, msg>>
      /\ sent' = sent \cup Payments
  BY <1>1, <1>2, PublishStep
<1>4. StockInv' /\ reservations' = reservations
  BY <1>1, <1>3, StockKept DEF SagaInv, inventoryVars
<1>5. Tracked' = Tracked /\ Labelled' = Labelled
  BY <1>1 DEF Tracked, Labelled
<1>6. Paying'
  BY <1>1, <1>3, <1>4, <1>5, SeenGrows DEF SagaInv, Paying
<1> QED
  BY <1>1, <1>3, <1>4, <1>6, PaymentStep

-----------------------------------------------------------------------------
(* cancel_order, and the calls to inventory_service                        *)

LEMMA CancelKeeps ==
    ASSUME SagaInv, CancelRead \/ CancelWrite \/ CancelFails PROVE SagaInv'
<1>1. PICK step \in {"write", "done"} : Goto("cancel", step)
  BY DEF CancelRead, CancelWrite, CancelFails
<1>2. /\ UNCHANGED <<scenario, stripe, shipments, queueVars, seen, aborted, inventoryVars>>
      /\ NoFault \/ Fault
  BY DEF CancelRead, CancelWrite, CancelFails, rowVars, NoFault
<1>3. order' \in OrderRow /\ (order'.status = "completed" => order.status = "completed")
  BY CreateTask, WrittenRow
  DEF CancelRead, CancelWrite, CancelFails, rowVars, SagaInv, RowsTyped
<1>4. QueuesTyped' /\ Announced' /\ \A u \in Tasks : u # "cancel" => pc'[u] = pc[u]
  BY <1>1, <1>2, CreateTask, GotoStep, GotoKeeps DEF SagaInv, Points
<1>5. StockInv' /\ reservations' = reservations
  BY <1>2, StockKept DEF SagaInv, queueVars, inventoryVars
<1>6. UNCHANGED <<sent, processed, msg>>
  BY <1>2 DEF queueVars
<1> QED
  BY <1>1, <1>2, <1>3, <1>4, <1>5, <1>6, CancelStepKeeps

\* The handlers that call are woken by the event their call needs.
LEMMA CallKeeps == ASSUME SagaInv, CommitStock \/ ReleaseStock PROVE SagaInv'
<1>1. PICK t \in {"paid", "failed"}, op \in {"commit", "release"} :
          CallInventory(t, op) /\ op = (IF t = "paid" THEN "commit" ELSE "release")
  BY DEF CommitStock, ReleaseStock
<1>2. /\ pc[t] = op /\ Inv!Request(t, op, Order, 0)
      /\ Goto(t, "waiting")
      /\ UNCHANGED <<rowVars, queueVars, seen, faults, aborted>>
  BY <1>1 DEF CallInventory
<1>3. t \in Tasks /\ t \in Callers /\ t \in Handlers /\ "waiting" \in Points
  BY DEF Tasks, Callers, Handlers, OrderHandlers, Points
<1>4. MessageOf(t) \in sent
  BY <1>1, <1>2, <1>3 DEF SagaInv, Announced
<1>5. (op = "commit" => PaymentSeen) /\ (op = "release" => Abandoned)
  BY <1>1, <1>4 DEF MessageOf, PaymentSeen, Abandoned, SagaInv, QueuesTyped, Payments
<1>6. UNCHANGED <<sent, processed, msg>> /\ PaymentSeen' = PaymentSeen /\ Abandoned' = Abandoned
  BY <1>2 DEF queueVars, PaymentSeen, Abandoned
<1>7. StockInv' /\ reservations' = reservations
  BY <1>2, <1>3, <1>5, <1>6, RequestKeepsStock DEF SagaInv, Inv!Operations
<1>8. QueuesTyped' /\ Announced' /\ pc'[t] = "waiting" /\ \A u \in Tasks : u # t => pc'[u] = pc[u]
  BY <1>1, <1>2, <1>3, GotoStep, GotoKeeps DEF SagaInv
<1>9. /\ pc'["create"] = pc["create"] /\ pc'["pay_created"] = pc["pay_created"]
      /\ pc["paid"] = "track" => pc'["paid"] = "track"
  BY <1>1, <1>2, <1>8, CreateTask
<1>10. /\ UNCHANGED <<scenario, order, stripe, shipments, seen, aborted>>
       /\ NoFault
       /\ order \in OrderRow /\ seen \in 0 .. Len(shipments)
  BY <1>2 DEF rowVars, NoFault, SagaInv, RowsTyped
<1> QED
  BY <1>6, <1>7, <1>8, <1>9, <1>10, OrderStep DEF SagaInv, Paying

\* What an answered or abandoned call leaves its task with.
LEMMA CallerGoesOn ==
    ASSUME SagaInv, NEW t \in Callers, NEW ok \in BOOLEAN, pc[t] = "waiting",
           GoOn(t, AfterCall(t, ok)), StockInv',
           UNCHANGED <<rowVars, seen, aborted, reservations>>,
           t = "create" /\ ok => reservations # <<>>,
           NoFault \/ Fault
    PROVE  SagaInv'
<1>1. t \in Tasks
  BY DEF Callers, Tasks, OrderHandlers
<1>2. PICK next : next = AfterCall(t, ok)
  OBVIOUS
<1>3. /\ next \in Points \cup {"finish"}
      /\ next = "finish" => t \in OrderHandlers
      /\ t = "create" => next = IF ok THEN "publish" ELSE "unreserved"
      /\ t = "paid" => next = "ship"
  BY <1>2 DEF AfterCall, Points, OrderHandlers, Callers
<1>4. GoOn(t, next)
  BY <1>2
<1>5. /\ QueuesTyped' /\ Announced'
      /\ processed \subseteq processed'
      /\ next # "finish" => pc'[t] = next
      /\ \A u \in Tasks : u # t => pc'[u] = pc[u]
      /\ UNCHANGED <<sent, inbox, msg>>
  BY <1>1, <1>3, <1>4, GoOnKeeps DEF SagaInv
<1>6. PaymentSeen' = PaymentSeen
  BY <1>5 DEF PaymentSeen
<1>7. /\ UNCHANGED <<scenario, order, stripe, shipments>>
      /\ order \in OrderRow /\ seen' \in 0 .. Len(shipments)
      /\ order.status = "completed" => PaymentSeen
  BY DEF rowVars, SagaInv, RowsTyped, Paying
<1>8. pc["paid"] = "track" => pc'["paid"] = "track"
  BY <1>5, CreateTask
<1>9. /\ pc'["pay_created"] = pc["pay_created"]
      /\ pc["pay_created"] = "intent" => stripe = "none"
      /\ scenario.kind = "goods" /\ pc'["create"] = "publish" => reservations' # <<>>
  BY <1>3, <1>5, CreateTask DEF SagaInv, Paying
<1> QED
  BY <1>5, <1>6, <1>7, <1>8, <1>9, OrderStep

LEMMA AnswerKeeps ==
    ASSUME SagaInv, NEW t \in Callers, InventoryAnswers(t) \/ CallTimesOut(t)
    PROVE  SagaInv'
<1>1. CASE InventoryAnswers(t)
  <2>1. /\ pc[t] = "waiting" /\ Inv!Return(t)
        /\ GoOn(t, AfterCall(t, call[t].step = "ok"))
        /\ UNCHANGED <<rowVars, seen, faults, aborted>>
    BY <1>1 DEF InventoryAnswers
  <2>2. sent' = sent
    BY <2>1 DEF GoOn, Finish, queueVars
  <2>3. StockInv' /\ reservations' = reservations
    BY <2>1, <2>2, CallEnds DEF SagaInv
  <2>4. t = "create" /\ call[t].step = "ok" => reservations # <<>>
    BY DEF SagaInv, StockInv, CallsSound
  <2>5. PICK ok \in BOOLEAN : ok = (call[t].step = "ok")
    OBVIOUS
  <2>6. GoOn(t, AfterCall(t, ok))
    BY <2>1, <2>5
  <2> QED
    BY <2>1, <2>3, <2>4, <2>5, <2>6, CallerGoesOn DEF NoFault
<1>2. CASE CallTimesOut(t)
  <2>1. /\ pc[t] = "waiting" /\ Fault
        /\ GoOn(t, AfterCall(t, FALSE))
        /\ UNCHANGED <<rowVars, seen, aborted, inventoryVars>>
    BY <1>2 DEF CallTimesOut
  <2>2. sent' = sent
    BY <2>1 DEF GoOn, Finish, queueVars
  <2>3. StockInv' /\ reservations' = reservations
    BY <2>1, <2>2, StockKept DEF SagaInv, inventoryVars
  <2> QED
    BY <2>1, <2>3, CallerGoesOn
<1> QED BY <1>1, <1>2

\* What inventory_service does on its own moves no task of the order.
LEMMA ServerStepKeeps ==
    ASSUME SagaInv, StockInv', UNCHANGED <<rowVars, queueVars, pc, seen, aborted>>,
           NoFault \/ Fault, reservations # <<>> => reservations' # <<>>
    PROVE  SagaInv'
<1>1. /\ UNCHANGED <<scenario, order, stripe, shipments, sent, inbox, processed, msg>>
      /\ PaymentSeen' = PaymentSeen
  BY DEF rowVars, queueVars, PaymentSeen
<1>2. QueuesTyped' /\ Announced'
  BY <1>1 DEF SagaInv, QueuesTyped, Announced, MessageOf
<1>3. order \in OrderRow /\ seen' \in 0 .. Len(shipments)
  BY DEF SagaInv, RowsTyped
<1> QED
  BY <1>1, <1>2, <1>3, OrderStep DEF SagaInv, Paying

LEMMA InventoryKeeps ==
    ASSUME SagaInv, NEW t \in Callers,
           AnswerDropped(t) \/ InventoryWorks(t) \/ InventoryFails(t)
    PROVE  SagaInv'
<1>1. UNCHANGED <<rowVars, queueVars, pc, seen, aborted>> /\ (NoFault \/ Fault)
  BY DEF AnswerDropped, InventoryWorks, InventoryFails, NoFault
<1>2. sent \subseteq sent'
  BY <1>1 DEF queueVars
<1>3. CASE AnswerDropped(t) \/ InventoryFails(t)
  <2>1. StockInv' /\ reservations' = reservations
    BY <1>2, <1>3, CallEnds DEF AnswerDropped, InventoryFails, SagaInv
  <2> QED BY <1>1, <2>1, ServerStepKeeps
<1>4. CASE InventoryWorks(t)
  <2>1. StockInv' /\ (reservations # <<>> => reservations' # <<>>)
    BY <1>2, <1>4, LookUpKeepsStock, SettleKeepsStock DEF InventoryWorks, SagaInv
  <2> QED BY <1>1, <2>1, ServerStepKeeps
<1> QED BY <1>3, <1>4

LEMMA StockReservedKeeps ==
    ASSUME SagaInv, NEW t \in Callers, StockReserved(t) PROVE SagaInv'
<1>1. /\ Inv!CreateReservation(t)
      /\ UNCHANGED <<rowVars, pc, seen, aborted>>
      /\ Publish({"ful_taxed"}) \/ (Fault /\ UNCHANGED queueVars)
  BY DEF StockReserved
<1>2. sent \subseteq sent'
  BY <1>1 DEF Publish, queueVars
<1>3. StockInv' /\ reservations' # <<>>
  BY <1>1, <1>2, ReserveKeepsStock DEF SagaInv
<1>4. CASE Publish({"ful_taxed"})
  <2>1. {"ful_taxed"} \in SUBSET Messages /\ {"ful_taxed"} \cap Payments = {}
    BY DEF Messages, Payments, Completions
  <2>2. UNCHANGED <<scenario, order, stripe, shipments>>
    BY <1>1 DEF rowVars
  <2> QED BY <1>1, <1>3, <1>4, <2>1, <2>2, AnnouncementStep
<1>5. CASE Fault /\ UNCHANGED queueVars
  BY <1>1, <1>3, <1>5, ServerStepKeeps
<1> QED BY <1>1, <1>4, <1>5

-----------------------------------------------------------------------------
(* The events taken from the queues                                        *)

\* An event taken is one that was published; its handler, if it starts, was idle.
LEMMA TakeKeeps ==
    ASSUME QueuesTyped, Announced, NEW m \in Messages, Take(m),
           pc' \in [Tasks -> Points],
           \A u \in Tasks : u # HandlerOf(m) => pc'[u] = pc[u],
           IF m \in Completions THEN msg' \in {msg, m} ELSE msg' = msg,
           processed' \in {processed, processed \cup {m}},
           pc'[HandlerOf(m)] # "idle" /\ m \in Completions => msg' = m /\ m \notin processed'
    PROVE  /\ QueuesTyped' /\ Announced'
           /\ m \in sent
           /\ pc["paid"] = "track" => msg' = msg /\ pc'["paid"] = "track"
<1>1. /\ pc[HandlerOf(m)] = "idle" /\ inbox[m] > 0
      /\ inbox' = [inbox EXCEPT ![m] = @ - 1]
      /\ UNCHANGED sent
  BY DEF Take
<1>2. m \in sent
  BY <1>1 DEF Announced
<1>3. /\ inbox' \in [Messages -> Nat]
      /\ \A n \in Messages : inbox'[n] > 0 => inbox[n] > 0
  BY <1>1 DEF QueuesTyped
<1>4. QueuesTyped'
  BY <1>1, <1>3 DEF QueuesTyped
<1>5. m \notin Completions => HandlerOf(m) # "paid"
  BY DEF HandlerOf, Messages, Payments
<1>6. m \in Completions => HandlerOf(m) = "paid"
  BY DEF HandlerOf
<1>7. \A u \in Handlers : pc'[u] # "idle" => MessageOf(u)' \in sent'
  <2>1. SUFFICES ASSUME NEW u \in Handlers, pc'[u] # "idle" PROVE MessageOf(u)' \in sent
    BY <1>1
  <2>2. CASE u = HandlerOf(m)
    <3>1. CASE m \in Completions
      BY <1>2, <1>6, <2>1, <2>2, <3>1 DEF MessageOf
    <3>2. CASE m \notin Completions
      BY <1>2, <1>5, <2>2, <3>2 DEF MessageOf, HandlerOf
    <3> QED BY <3>1, <3>2
  <2>3. CASE u # HandlerOf(m)
    <3>1. pc[u] # "idle" /\ MessageOf(u) \in sent
      BY <2>1, <2>3 DEF Handlers, Announced
    <3>2. u = "paid" => msg' = msg
      BY <1>6, <2>3
    <3> QED BY <3>1, <3>2 DEF MessageOf
  <2> QED BY <2>2, <2>3
<1>8. pc'["paid"] # "idle" => msg' \notin processed'
  <2>1. CASE HandlerOf(m) = "paid"
    BY <1>5, <2>1
  <2>2. CASE HandlerOf(m) # "paid"
    BY <1>6, <2>2, CreateTask DEF Announced, QueuesTyped
  <2> QED BY <2>1, <2>2
<1>9. Announced'
  BY <1>1, <1>2, <1>3, <1>7, <1>8 DEF Announced
<1>10. pc["paid"] = "track" => msg' = msg /\ pc'["paid"] = "track"
  BY <1>1, <1>5, <1>6, CreateTask
<1> QED BY <1>2, <1>4, <1>9, <1>10

LEMMA HandlerTasks ==
    ASSUME NEW m \in Messages
    PROVE  /\ HandlerOf(m) \in Tasks /\ HandlerOf(m) # "create"
           /\ HandlerOf(m) = "pay_created" => m = "pay_created"
BY DEF HandlerOf, Messages, Payments, Completions, Tasks, OrderHandlers,
       PaymentHandlers, InventoryHandlers, FulfilmentHandlers

\* Where a handler stands when it has started.
LEMMA OpeningPoints ==
    ASSUME NEW m \in Messages
    PROVE  /\ Opening(m) \in {"complete", "fail", "cancel", "intent", "attach", "prepare",
                               "label", "idle", "finish"}
           /\ m = "pay_created" => Opening(m) = IntentWanted
BY DEF Opening, FoundByIntent, PendingFound, IntentWanted, NoShipmentFound,
       UnlabelledFound, Completions

\* A handler starts, or the event is skipped.
LEMMA HandleKeeps == ASSUME SagaInv, NEW m \in Messages, Handle(m) PROVE SagaInv'
<1>1. Take(m) /\ UNCHANGED <<sent, rowVars, faults, aborted>>
  BY DEF Handle, SkipProcessed, StartHandler, StartInventoryHandler, Take
<1>2. PICK step \in Points :
          /\ pc' = pc \/ pc' = [pc EXCEPT ![HandlerOf(m)] = step]
          /\ m = "pay_created" => step \in {IntentWanted, "idle"}
  <2>1. HandlerOf(m) \in Tasks /\ (m \in InventoryHandlers => HandlerOf(m) = m)
    BY HandlerTasks DEF HandlerOf, InventoryHandlers, Completions
  <2>2. \/ pc' = pc
        \/ Goto(HandlerOf(m), Opening(m)) /\ Opening(m) # "finish"
        \/ Goto(HandlerOf(m), "waiting") /\ m \in InventoryHandlers
    BY <2>1 DEF Handle, SkipProcessed, StartHandler, StartInventoryHandler
  <2>3. "idle" \in Points
    BY DEF Points
  <2> QED BY <2>1, <2>2, <2>3, OpeningPoints DEF Goto, Points, InventoryHandlers
<1>3. /\ pc' \in [Tasks -> Points]
      /\ \A u \in Tasks : u # HandlerOf(m) => pc'[u] = pc[u]
  BY <1>2 DEF SagaInv, QueuesTyped
<1>4. /\ IF m \in Completions THEN msg' \in {msg, m} ELSE msg' = msg
      /\ processed' \in {processed, processed \cup {m}}
      /\ seen' \in {seen, Len(shipments)}
  BY DEF Handle, SkipProcessed, StartHandler, StartInventoryHandler
<1>5. pc'[HandlerOf(m)] # "idle" /\ m \in Completions => msg' = m /\ m \notin processed'
  BY <1>1 DEF Handle, SkipProcessed, StartHandler, StartInventoryHandler, Take,
              AlreadyProcessed, InventoryHandlers, Completions
<1>6. /\ QueuesTyped' /\ Announced'
      /\ m \in sent
      /\ pc["paid"] = "track" => msg' = msg /\ pc'["paid"] = "track"
  BY <1>1, <1>3, <1>4, <1>5, TakeKeeps DEF SagaInv
<1>7. StockInv' /\ reservations' = reservations
  <2>1. CASE UNCHANGED inventoryVars
    BY <1>1, <2>1, StockKept DEF SagaInv, inventoryVars
  <2>2. CASE m \in InventoryHandlers /\ Inv!Request(m, OperationOf(m), Order, 0)
    <3>1. PICK op : op = OperationOf(m)
      OBVIOUS
    <3>2. m \in Callers /\ m # "create" /\ op \in {"reserve", "commit"}
          /\ (op = "commit" => m = "inv_paid")
      BY <2>2, <3>1 DEF OperationOf, Callers, InventoryHandlers
    <3>3. op = "commit" => PaymentSeen'
      BY <1>1, <1>6, <3>2 DEF PaymentSeen, Payments
    <3>4. Inv!Request(m, op, Order, 0)
      BY <2>2, <3>1
    <3> QED
      BY <1>1, <3>2, <3>3, <3>4, RequestKeepsStock DEF SagaInv, Inv!Operations
  <2> QED
    BY <2>1, <2>2 DEF Handle, SkipProcessed, StartHandler, StartInventoryHandler
<1>8. /\ pc'["create"] = pc["create"]
      /\ pc'["pay_created"] = "intent" => stripe = "none"
  <2>1. pc'["create"] = pc["create"]
    BY <1>3, HandlerTasks, CreateTask
  <2>2. CASE HandlerOf(m) # "pay_created"
    BY <1>3, <2>1, <2>2, CreateTask DEF SagaInv, Paying
  <2>3. CASE HandlerOf(m) = "pay_created"
    <3>1. pc["pay_created"] = "idle" /\ m = "pay_created"
      BY <1>1, <2>3, HandlerTasks DEF Take
    <3>2. pc'["pay_created"] \in {"idle", IntentWanted}
      BY <1>2, <2>3, <3>1, CreateTask DEF SagaInv, QueuesTyped
    <3> QED BY <2>1, <3>2 DEF IntentWanted
  <2> QED BY <2>1, <2>2, <2>3
<1>9. /\ UNCHANGED <<scenario, order, stripe, shipments, aborted>> /\ NoFault
      /\ order \in OrderRow /\ PaymentSeen' = PaymentSeen
  BY <1>1 DEF rowVars, NoFault, SagaInv, RowsTyped, PaymentSeen
<1>10. seen' \in 0 .. Len(shipments)
  <2>1. Len(shipments) \in Nat
    BY DEF SagaInv, RowsTyped
  <2> QED BY <1>4, <2>1 DEF SagaInv, RowsTyped
<1> QED
  BY <1>1, <1>4, <1>6, <1>7, <1>8, <1>9, <1>10, OrderStep DEF SagaInv, Paying

-----------------------------------------------------------------------------
(* The handlers of order_service                                           *)

\* A handler of order_service goes on or marks its event.
LEMMA HandlerStep ==
    ASSUME SagaInv, NEW t \in OrderHandlers, NEW next \in Points \cup {"finish"},
           pc[t] # "idle", GoOn(t, next),
           UNCHANGED <<scenario, stripe, shipments, seen, aborted, inventoryVars>>,
           order' \in OrderRow, order'.status = "completed" => PaymentSeen,
           pc["paid"] = "track" => t # "paid" \/ next = "finish",
           NoFault \/ Fault
    PROVE  SagaInv'
<1>1. t \in Tasks /\ t # "create"
  BY DEF Tasks, OrderHandlers
<1>2. next = "finish" => t \in OrderHandlers
  OBVIOUS
<1>3. /\ QueuesTyped' /\ Announced'
      /\ processed \subseteq processed'
      /\ IF next = "finish"
         THEN pc'[t] = "idle" /\ processed' = processed \cup {MessageOf(t)}
         ELSE pc'[t] = next
      /\ \A u \in Tasks : u # t => pc'[u] = pc[u]
      /\ UNCHANGED <<sent, inbox, msg>>
  BY <1>1, <1>2, GoOnKeeps DEF SagaInv
<1>4. /\ pc'["create"] = pc["create"] /\ pc'["pay_created"] = pc["pay_created"]
  BY <1>1, <1>3, CreateTask
<1>5. pc["paid"] = "track" => msg \in processed' \/ (msg' = msg /\ pc'["paid"] = "track")
  BY <1>3, CreateTask DEF MessageOf
<1>6. PaymentSeen' = PaymentSeen /\ seen' \in 0 .. Len(shipments)
  BY <1>3 DEF PaymentSeen, SagaInv, RowsTyped
<1>7. StockInv' /\ reservations' = reservations
  BY <1>3, StockKept DEF SagaInv, inventoryVars
<1> QED
  BY <1>3, <1>4, <1>5, <1>6, <1>7, OrderStep DEF SagaInv, Paying

\* The event of the handler of payment.completed says what it is.
LEMMA PaidIsSeen ==
    ASSUME SagaInv, pc["paid"] # "idle" PROVE PaymentSeen /\ msg \in sent \ processed
<1>1. "paid" \in Handlers
  BY DEF Handlers, Tasks, OrderHandlers
<1> QED
  BY <1>1 DEF SagaInv, Announced, MessageOf, PaymentSeen, QueuesTyped, Payments

LEMMA HandlerKeeps ==
    ASSUME SagaInv,
           CompleteOrder \/ RecordTracking \/ FailOrder \/ DeletedWrite \/ AttachIntent
    PROVE  SagaInv'
<1>1. order \in OrderRow /\ (order.status = "completed" => PaymentSeen)
  BY DEF SagaInv, RowsTyped, Paying
<1>3. CASE CompleteOrder
  <2>1. PICK next \in {"commit", "finish"} : GoOn("paid", next)
    BY <1>3 DEF CompleteOrder
  <2>2. PaymentSeen /\ pc["paid"] = "complete"
    BY <1>3, PaidIsSeen DEF CompleteOrder
  <2>3. order' \in OrderRow
    BY <1>1, <1>3 DEF CompleteOrder, OrderRow, OrderStatuses
  <2>4. /\ UNCHANGED <<scenario, stripe, shipments, seen, aborted, inventoryVars>>
        /\ NoFault \/ Fault
    BY <1>3 DEF CompleteOrder
  <2> QED
    BY <2>1, <2>2, <2>3, <2>4, HandlerStep DEF Points, OrderHandlers
<1>4. CASE RecordTracking \/ FailOrder \/ DeletedWrite \/ AttachIntent
  <2>1. PICK t \in OrderHandlers, next \in {"release", "finish"} :
            /\ pc[t] # "idle" /\ GoOn(t, next)
            /\ pc["paid"] = "track" => t # "paid" \/ next = "finish"
    BY <1>4 DEF RecordTracking, FailOrder, DeletedWrite, AttachIntent, GoOn, OrderHandlers
  <2>2. order' \in OrderRow /\ (order'.status = "completed" => order.status = "completed")
    BY <1>1, <1>4, CreateTask, WrittenRow
    DEF RecordTracking, FailOrder, DeletedWrite, AttachIntent, SagaInv, OrderHandlers
  <2>3. /\ UNCHANGED <<scenario, stripe, shipments, seen, aborted, inventoryVars>>
        /\ NoFault \/ Fault
    BY <1>4 DEF RecordTracking, FailOrder, DeletedWrite, AttachIntent, NoFault
  <2> QED
    BY <1>1, <2>1, <2>2, <2>3, HandlerStep DEF Points
<1> QED BY <1>3, <1>4

\* An exception: the event is not marked, and what was shipped for it is not
\* accounted for any more.
LEMMA AbortKeeps == ASSUME SagaInv, NEW t \in Tasks, HandlerAborts(t) PROVE SagaInv'
<1>1. /\ t \in OrderHandlers \cup FulfilmentHandlers
      /\ Fault /\ aborted' = TRUE
      /\ order' \in {order, IF t \in OrderHandlers THEN Written(t) ELSE order}
      /\ Goto(t, "idle")
      /\ UNCHANGED <<scenario, stripe, shipments, queueVars, seen, inventoryVars>>
  BY DEF HandlerAborts
<1>2. QueuesTyped' /\ Announced' /\ \A u \in Tasks : u # t => pc'[u] = pc[u]
  BY <1>1, GotoStep, GotoKeeps DEF SagaInv, Points
<1>3. pc'["create"] = pc["create"] /\ pc'["pay_created"] = pc["pay_created"]
  BY <1>1, <1>2, CreateTask DEF OrderHandlers, FulfilmentHandlers
<1>4. order' \in OrderRow /\ (order'.status = "completed" => order.status = "completed")
  BY <1>1, WrittenRow DEF SagaInv, RowsTyped
<1>5. StockInv' /\ reservations' = reservations
  BY <1>1, StockKept DEF SagaInv, queueVars, inventoryVars
<1>6. PaymentSeen' = PaymentSeen /\ Tracked' = Tracked /\ Labelled' = Labelled
  BY <1>1 DEF PaymentSeen, Tracked, Labelled, queueVars
<1>7. RowsTyped'
  BY <1>1, <1>4 DEF SagaInv, RowsTyped
<1>8. FaultsTyped'
  BY <1>1, FaultsKept DEF SagaInv
<1>9. Paying'
  BY <1>1, <1>3, <1>4, <1>5, <1>6 DEF SagaInv, Paying, queueVars
<1> QED
  BY <1>1, <1>2, <1>5, <1>7, <1>8, <1>9 DEF SagaInv, Counted

\* Eviction forgets ids too, and touches nothing else.
LEMMA EvictKeeps == ASSUME SagaInv, Evict PROVE SagaInv'
<1>1. /\ processed' \subseteq processed /\ aborted' = TRUE
      /\ UNCHANGED <<scenario, order, stripe, shipments, sent, inbox, msg, pc, seen,
                     faults, inventoryVars>>
  BY DEF Evict, rowVars
<1>2. QueuesTyped' /\ Announced'
  BY <1>1 DEF SagaInv, QueuesTyped, Announced, MessageOf
<1>3. StockInv' /\ reservations' = reservations
  BY <1>1, StockKept DEF SagaInv, inventoryVars
<1>4. PaymentSeen' = PaymentSeen /\ Tracked' = Tracked /\ Labelled' = Labelled
  BY <1>1 DEF PaymentSeen, Tracked, Labelled
<1>5. RowsTyped' /\ FaultsTyped'
  BY <1>1 DEF SagaInv, RowsTyped, FaultsTyped
<1>6. Paying'
  BY <1>1, <1>3, <1>4 DEF SagaInv, Paying
<1> QED BY <1>1, <1>2, <1>3, <1>5, <1>6 DEF SagaInv, Counted

\* A restart forgets the events marked, and delivers again only what was published.
LEMMA RestartKeeps == ASSUME SagaInv, Restart PROVE SagaInv'
<1>1. /\ Fault /\ aborted' = TRUE /\ processed' = {}
      /\ pc' = [t \in Tasks |->
                 CASE t \in OrderHandlers -> "idle"
                   [] t \in {"create", "cancel"} /\ pc[t] # "idle" -> "done"
                   [] OTHER -> pc[t]]
      /\ UNCHANGED <<rowVars, sent, msg, seen, inventoryVars>>
  BY DEF Restart
<1>2. PICK again \in SUBSET {MessageOf(t) : t \in {u \in OrderHandlers : pc[u] # "idle"}} :
          inbox' = [m \in Messages |-> IF m \in again THEN inbox[m] + 1 ELSE inbox[m]]
  BY DEF Restart
<1>3. again \subseteq sent
  <2>1. OrderHandlers \subseteq Handlers
    BY DEF OrderHandlers, Handlers, Tasks
  <2> QED BY <2>1 DEF SagaInv, Announced
<1>4. /\ inbox' \in [Messages -> Nat]
      /\ \A m \in Messages : inbox'[m] > 0 => inbox[m] > 0 \/ m \in again
  BY <1>2 DEF SagaInv, QueuesTyped
<1>5. /\ pc' \in [Tasks -> Points]
      /\ \A u \in Handlers : pc'[u] # "idle" => pc[u] # "idle" /\ u # "paid"
      /\ pc'["paid"] = "idle"
      /\ pc'["create"] \in {pc["create"], "done"}
      /\ pc'["pay_created"] = pc["pay_created"]
  BY <1>1 DEF SagaInv, QueuesTyped, Handlers, Tasks, OrderHandlers, PaymentHandlers, Points
<1>6. QueuesTyped'
  BY <1>1, <1>4, <1>5 DEF SagaInv, QueuesTyped
<1>7. \A u \in Handlers : pc'[u] # "idle" => MessageOf(u)' \in sent'
  BY <1>1, <1>5 DEF SagaInv, Announced, MessageOf
<1>8. Announced'
  BY <1>1, <1>3, <1>4, <1>5, <1>7 DEF SagaInv, Announced
<1>9. UNCHANGED <<scenario, order, stripe, shipments>>
  BY <1>1 DEF rowVars
<1>10. StockInv' /\ reservations' = reservations
  BY <1>1, StockKept DEF SagaInv, inventoryVars
<1>11. PaymentSeen' = PaymentSeen /\ Tracked' = Tracked /\ Labelled' = Labelled
  BY <1>1, <1>9 DEF PaymentSeen, Tracked, Labelled
<1>12. RowsTyped'
  BY <1>1, <1>9 DEF SagaInv, RowsTyped
<1>13. FaultsTyped'
  BY <1>1, <1>9, FaultsKept DEF SagaInv
<1>14. Paying'
  BY <1>1, <1>5, <1>9, <1>10, <1>11 DEF SagaInv, Paying
<1> QED
  BY <1>1, <1>6, <1>8, <1>10, <1>12, <1>13, <1>14 DEF SagaInv, Counted

-----------------------------------------------------------------------------
(* The shipments                                                           *)

\* The steps that touch the shipments: what remains to be seen of each.
LEMMA ShipmentsStep ==
    ASSUME SagaInv, QueuesTyped', Announced', Counted',
           UNCHANGED <<scenario, order, stripe, sent, inventoryVars>>,
           aborted' \in BOOLEAN, NoFault \/ Fault,
           shipments' \in Seq(ShipmentRow), Len(shipments') <= MaxShipments,
           seen' \in 0 .. Len(shipments'),
           Tracked' # {} \/ Labelled' # {} => PaymentSeen,
           pc'["create"] = pc["create"], pc'["pay_created"] = pc["pay_created"]
    PROVE  SagaInv'
<1>1. RowsTyped'
  BY DEF SagaInv, RowsTyped
<1>2. FaultsTyped'
  BY FaultsKept DEF SagaInv, FaultsTyped
<1>3. StockInv' /\ reservations' = reservations
  BY StockKept DEF SagaInv, inventoryVars
<1>4. PaymentSeen' = PaymentSeen
  BY DEF PaymentSeen
<1>5. Paying'
  BY <1>3, <1>4 DEF SagaInv, Paying
<1> QED BY <1>1, <1>2, <1>3, <1>5 DEF SagaInv

\* A row appended to the shipments.
LEMMA Shipped ==
    ASSUME RowsTyped, NEW tracked \in BOOLEAN, Len(shipments) < MaxShipments,
           shipments' = Append(shipments, Shipment(tracked))
    PROVE  /\ shipments' \in Seq(ShipmentRow)
           /\ Len(shipments') <= MaxShipments
           /\ seen \in 0 .. Len(shipments')
           /\ Tracked' = IF tracked THEN Tracked \cup {Len(shipments) + 1} ELSE Tracked
           /\ Len(shipments) + 1 \notin Tracked
           /\ Labelled' = Labelled
<1>1. /\ Shipment(tracked) \in ShipmentRow
      /\ Shipment(tracked).tracked = tracked /\ Shipment(tracked).labels = 0
  BY DEF Shipment, ShipmentRow
<1>2. PICK row \in ShipmentRow : row = Shipment(tracked)
  BY <1>1
<1>3. /\ shipments' = Append(shipments, row)
      /\ shipments \in Seq(ShipmentRow) /\ Len(shipments) \in Nat
      /\ row.tracked = tracked /\ row.labels = 0
  BY <1>1, <1>2 DEF RowsTyped
<1>4. /\ shipments' \in Seq(ShipmentRow)
      /\ Len(shipments') = Len(shipments) + 1
      /\ \A i \in 1 .. Len(shipments) : shipments'[i] = shipments[i]
      /\ shipments'[Len(shipments) + 1] = row
  BY <1>3
<1>5. /\ Len(shipments') <= MaxShipments
      /\ seen \in 0 .. Len(shipments')
  BY <1>3, <1>4, SagaAssumption DEF RowsTyped
<1>6. /\ Tracked = {i \in 1 .. Len(shipments) : shipments[i].tracked}
      /\ Tracked' = {i \in 1 .. Len(shipments') : shipments'[i].tracked}
  BY <1>3, <1>4 DEF Tracked
<1>7. DOMAIN shipments' = 1 .. (Len(shipments) + 1)
  BY <1>4
<1>8. Tracked' = IF tracked THEN Tracked \cup {Len(shipments) + 1} ELSE Tracked
  <2>1. ASSUME NEW i PROVE i \in Tracked' <=> i \in Tracked \/ (tracked /\ i = Len(shipments) + 1)
    BY <1>3, <1>4, <1>6
  <2> QED BY <2>1
<1>9. Len(shipments) + 1 \notin Tracked
  BY <1>3, <1>6
<1>10. Labelled' = Labelled
  <2>1. ASSUME NEW i PROVE i \in Labelled' <=> i \in Labelled
    BY <1>3, <1>4 DEF Labelled
  <2> QED BY <2>1
<1> QED BY <1>4, <1>5, <1>8, <1>9, <1>10

\* handle_payment_completed ships, and its event accounts for it.
LEMMA ShipKeeps == ASSUME SagaInv, CreateShipment PROVE SagaInv'
<1>1. /\ pc["paid"] = "ship" /\ Len(shipments) < MaxShipments
      /\ UNCHANGED <<scenario, order, stripe, seen, aborted, inventoryVars>>
      /\ NoFault \/ Fault
      /\ shipments' \in {shipments, Append(shipments, Shipment(TRUE))}
  BY DEF CreateShipment
<1>2. PICK next \in {"track", "finish"} : GoOn("paid", next)
  BY DEF CreateShipment, GoOn
<1>3. /\ QueuesTyped' /\ Announced'
      /\ processed \subseteq processed'
      /\ IF next = "finish"
         THEN pc'["paid"] = "idle" /\ processed' = processed \cup {MessageOf("paid")}
         ELSE pc'["paid"] = next
      /\ \A u \in Tasks : u # "paid" => pc'[u] = pc[u]
      /\ UNCHANGED <<sent, inbox, msg>>
  <2>1. "paid" \in OrderHandlers /\ next \in Points \cup {"finish"}
    BY DEF OrderHandlers, Points
  <2> QED BY <1>1, <1>2, <2>1, CreateTask, GoOnKeeps DEF SagaInv
<1>4. pc'["create"] = pc["create"] /\ pc'["pay_created"] = pc["pay_created"]
  BY <1>3, CreateTask
<1>5. PaymentSeen /\ msg \in sent \ processed
  BY <1>1, PaidIsSeen
<1>6. msg \in Completions /\ msg \in Handled' /\ msg \notin Handled /\ Handled \subseteq Handled'
  <2>1. msg \in Completions
    BY DEF SagaInv, QueuesTyped
  <2>2. msg \in processed' \/ pc'["paid"] = "track"
    BY <1>3 DEF MessageOf
  <2> QED BY <1>1, <1>3, <1>5, <2>1, <2>2 DEF Handled
<1>7. /\ Cardinality(Handled) \in Nat /\ Cardinality(Handled') \in Nat
      /\ Cardinality(Tracked) \in Nat /\ IsFiniteSet(Tracked)
      /\ Cardinality(Handled) + 1 <= Cardinality(Handled')
  <2>1. Handled \in SUBSET Completions /\ Handled' \in SUBSET Completions
    BY DEF Handled
  <2>2. IsFiniteSet(Handled) /\ IsFiniteSet(Handled')
    BY <2>1, EventsFinite
  <2>3. Cardinality(Handled \cup {msg}) = Cardinality(Handled) + 1
    BY <1>6, <2>2, FS_AddElement
  <2>4. Handled \cup {msg} \subseteq Handled'
    BY <1>6
  <2>5. Cardinality(Handled \cup {msg}) <= Cardinality(Handled')
    BY <2>2, <2>4, FS_Subset
  <2> QED
    BY <2>1, <2>3, <2>5, ShipmentsFinite, EventsFinite DEF SagaInv, RowsTyped
<1>8. CASE shipments' = shipments
  <2>1. Tracked' = Tracked /\ Labelled' = Labelled /\ aborted' \in BOOLEAN
    BY <1>1, <1>8 DEF Tracked, Labelled, SagaInv, FaultsTyped
  <2>2. Counted'
    BY <1>1, <1>7, <2>1 DEF SagaInv, Counted
  <2> QED
    BY <1>1, <1>3, <1>4, <1>5, <1>8, <2>1, <2>2, ShipmentsStep DEF SagaInv, RowsTyped
<1>9. CASE shipments' = Append(shipments, Shipment(TRUE))
  <2>1. /\ shipments' \in Seq(ShipmentRow)
        /\ Len(shipments') <= MaxShipments
        /\ seen \in 0 .. Len(shipments')
        /\ Tracked' = Tracked \cup {Len(shipments) + 1}
        /\ Len(shipments) + 1 \notin Tracked
        /\ aborted' \in BOOLEAN
    BY <1>1, <1>9, Shipped DEF SagaInv, FaultsTyped
  <2>2. Cardinality(Tracked') = Cardinality(Tracked) + 1
    BY <1>7, <2>1, FS_AddElement
  <2>3. Counted'
    BY <1>1, <1>7, <2>2 DEF SagaInv, Counted
  <2> QED
    BY <1>1, <1>3, <1>4, <1>5, <2>1, <2>3, ShipmentsStep
<1> QED BY <1>1, <1>8, <1>9

\* A label bought, or marked, leaves a row of the table and ships nothing.
LEMMA LabelRow ==
    ASSUME RowsTyped, NEW row \in ShipmentRow, seen \in DOMAIN shipments,
           row.tracked = shipments[seen].tracked,
           shipments' = [shipments EXCEPT ![seen] = row]
    PROVE  /\ shipments' \in Seq(ShipmentRow) /\ Len(shipments') = Len(shipments)
           /\ Tracked' = Tracked
<1>1. shipments \in Seq(ShipmentRow)
  BY DEF RowsTyped
<1>2. /\ shipments' \in Seq(ShipmentRow)
      /\ Len(shipments') = Len(shipments)
      /\ DOMAIN shipments' = DOMAIN shipments
      /\ \A i \in DOMAIN shipments : shipments'[i].tracked = shipments[i].tracked
  BY <1>1
<1>3. Tracked' = Tracked
  BY <1>2 DEF Tracked
<1> QED BY <1>2, <1>3

\* What buying a label leaves in the row: that of the shipment read, if any.
LEMMA BoughtRow ==
    ASSUME RowsTyped, BuyLabel
    PROVE  \/ shipments' = shipments /\ (aborted' = aborted \/ seen \notin DOMAIN shipments)
           \/ /\ seen \in DOMAIN shipments
              /\ \E row \in ShipmentRow :
                  /\ row.tracked = shipments[seen].tracked
                  /\ row.labels = shipments[seen].labels + 1
                  /\ row.status = "label_purchased" \/ aborted'
                  /\ shipments' = [shipments EXCEPT ![seen] = row]
<1>1. PICK bought : bought = [shipments EXCEPT ![seen].labels = @ + 1]
  OBVIOUS
<1>2. PICK written : written = [bought EXCEPT ![seen].status = "label_purchased"]
  OBVIOUS
<1>3. \/ shipments' = written
      \/ shipments' = shipments /\ aborted' = aborted
      \/ shipments' = bought /\ aborted' = TRUE
  BY <1>1, <1>2 DEF BuyLabel
<1>4. shipments \in Seq(ShipmentRow)
  BY DEF RowsTyped
<1>5. CASE seen \notin DOMAIN shipments
  <2>1. bought = shipments
    BY <1>1, <1>4, <1>5
  <2>2. written = bought
    BY <1>2, <1>4, <1>5, <2>1
  <2> QED BY <1>3, <1>5, <2>1, <2>2
<1>6. CASE seen \in DOMAIN shipments
  <2>1. shipments[seen] \in ShipmentRow
    BY <1>4, <1>6
  <2>2. PICK one : one = [shipments[seen] EXCEPT !.labels = @ + 1]
    OBVIOUS
  <2>3. PICK two : two = [one EXCEPT !.status = "label_purchased"]
    OBVIOUS
  <2>4. /\ one \in ShipmentRow /\ one.tracked = shipments[seen].tracked
        /\ one.labels = shipments[seen].labels + 1
    BY <2>1, <2>2 DEF ShipmentRow
  <2>5. /\ two \in ShipmentRow /\ two.tracked = shipments[seen].tracked
        /\ two.labels = shipments[seen].labels + 1 /\ two.status = "label_purchased"
    BY <2>3, <2>4 DEF ShipmentRow
  <2>6. bought = [shipments EXCEPT ![seen] = one]
    BY <1>1, <2>2
  <2>7. written = [shipments EXCEPT ![seen] = two]
    BY <1>2, <1>4, <1>6, <2>3, <2>6
  <2> QED BY <1>3, <1>6, <2>4, <2>5, <2>6, <2>7
<1> QED BY <1>5, <1>6

\* fulfillment_service prepares shipments, and buys labels for a payment seen.
LEMMA FulfilmentKeeps == ASSUME SagaInv, FulfilmentStep PROVE SagaInv'
<1> USE DEF FulfilmentStep
<1>1. PICK t \in FulfilmentHandlers :
          /\ pc[t] # "idle" /\ Goto(t, "idle")
          /\ BuyLabel => t = "ful_paid"
  BY DEF BuyLabel, PrepareShipment, FulfilmentHandlers
<1>2. t \in Tasks /\ t \notin {"create", "paid", "pay_created"} /\ "idle" \in Points
  BY DEF FulfilmentHandlers, Tasks, Points
<1>3. /\ UNCHANGED <<scenario, order, stripe, queueVars, inventoryVars>>
      /\ NoFault \/ Fault
      /\ aborted' \in {aborted, TRUE}
  BY DEF BuyLabel, PrepareShipment, NoFault
<1>4. QueuesTyped' /\ Announced' /\ \A u \in Tasks : u # t => pc'[u] = pc[u]
  BY <1>1, <1>2, <1>3, GotoStep, GotoKeeps DEF SagaInv
<1>5. /\ pc'["create"] = pc["create"] /\ pc'["paid"] = pc["paid"]
      /\ pc'["pay_created"] = pc["pay_created"]
  BY <1>2, <1>4, CreateTask
<1>6. UNCHANGED <<sent, processed, msg>>
  BY <1>3 DEF queueVars
<1>7. /\ shipments' \in Seq(ShipmentRow) /\ Len(shipments') <= MaxShipments
      /\ seen' \in 0 .. Len(shipments')
      /\ Tracked' = Tracked
      /\ Labelled' # {} => PaymentSeen
  <2>1. CASE BuyLabel
    <3>1. PaymentSeen
      <4>1. "ful_paid" \in Handlers
        BY DEF Handlers, Tasks, FulfilmentHandlers
      <4> QED BY <1>1, <2>1, <4>1 DEF SagaInv, Announced, MessageOf, PaymentSeen, Payments
    <3>2. /\ shipments' \in Seq(ShipmentRow) /\ Len(shipments') = Len(shipments)
          /\ Tracked' = Tracked
      <4>1. CASE shipments' = shipments
        BY <4>1 DEF SagaInv, RowsTyped, Tracked
      <4>2. CASE shipments' # shipments
        <5>1. PICK row \in ShipmentRow :
                  /\ row.tracked = shipments[seen].tracked
                  /\ shipments' = [shipments EXCEPT ![seen] = row]
          BY <2>1, <4>2, BoughtRow DEF SagaInv
        <5>2. seen \in DOMAIN shipments
          BY <2>1, <4>2, BoughtRow DEF SagaInv
        <5> QED BY <5>1, <5>2, LabelRow DEF SagaInv
      <4> QED BY <4>1, <4>2
    <3>3. seen' = 0 /\ Len(shipments) \in Nat
      BY <2>1 DEF BuyLabel, SagaInv, RowsTyped
    <3> QED BY <3>1, <3>2, <3>3 DEF SagaInv, RowsTyped
  <2>2. CASE PrepareShipment
    <3>1. /\ Len(shipments) < MaxShipments
          /\ shipments' = Append(shipments, Shipment(FALSE)) /\ seen' = seen
      BY <2>2 DEF PrepareShipment
    <3> QED BY <3>1, Shipped DEF SagaInv, Paying
  <2> QED BY <2>1, <2>2
<1>8. Counted'
  <2>1. Handled' = Handled
    BY <1>5, <1>6 DEF Handled
  <2>2. CASE aborted' = TRUE
    BY <2>2 DEF Counted
  <2>3. CASE aborted' = aborted
    BY <1>7, <2>1, <2>3 DEF SagaInv, Counted
  <2> QED BY <1>3, <2>2, <2>3
<1>9. aborted' \in BOOLEAN
  BY <1>3 DEF SagaInv, FaultsTyped
<1> QED
  BY <1>3, <1>4, <1>5, <1>6, <1>7, <1>8, <1>9, ShipmentsStep DEF SagaInv, Paying

-----------------------------------------------------------------------------
(* The invariant and what follows from it                                  *)

LEMMA SagaStarts == Init => SagaInv
<1> SUFFICES ASSUME Init PROVE SagaInv
  OBVIOUS
<1>1. /\ scenario \in Scenarios /\ scenario.faults \in Nat /\ MaxShipments \in Nat
      /\ MaxReservations \in Nat
  BY SagaAssumption DEF Init, Scenario
<1>2. RowsTyped
  BY <1>1 DEF Init, RowsTyped, OrderRow, OrderStatuses
<1>3. QueuesTyped
  BY DEF Init, QueuesTyped, Completions, Points
<1>4. FaultsTyped
  <2>1. faults = 0 /\ aborted = FALSE
    BY DEF Init
  <2>2. faults \in 0 .. scenario.faults
    BY <1>1, <2>1
  <2> QED BY <2>1, <2>2 DEF FaultsTyped
<1>5. Tracked = {} /\ Labelled = {} /\ sent = {} /\ shipments = <<>>
  BY DEF Init, Tracked, Labelled
<1>6. StockInv
  <2>1. /\ reservations = <<>>
        /\ call = [c \in Callers |-> Inv!Outcome("idle")]
    BY DEF Init, Inv!Init
  <2>2. /\ Inv!Outcome("idle") \in Inv!CallType
        /\ Inv!Outcome("idle").step = "idle"
        /\ Inv!Outcome("idle").op = "release"
    BY OutcomeOfOrder DEF Inv!Steps
  <2>3. "create" \in Callers
    BY DEF Callers
  <2> QED
    BY <1>1, <2>1, <2>2, <2>3 DEF StockInv, Inv!TypeOK, CallsSound, RowsSettled
<1>7. Announced
  BY DEF Init, Announced, Handlers, Tasks, OrderHandlers
<1>8. Paying
  BY <1>5, CreateTask DEF Init, Paying, PaymentSeen
<1>9. Counted
  <2>1. Cardinality(Tracked) = 0
    BY <1>5, FS_EmptySet
  <2>2. Handled \in SUBSET Completions
    BY DEF Handled
  <2>3. Cardinality(Handled) \in Nat
    BY <2>2, EventsFinite
  <2> QED BY <2>1, <2>3 DEF Counted
<1> QED BY <1>2, <1>3, <1>4, <1>6, <1>7, <1>8, <1>9 DEF SagaInv

\* Every step of every task keeps the invariant.
LEMMA SagaInductive == SagaInv /\ [Next]_vars => SagaInv'
<1> SUFFICES ASSUME SagaInv, [Next]_vars PROVE SagaInv'
  OBVIOUS
<1>1. CASE Environment
  BY <1>1, CreateKeeps, CancelKeeps, SuccessKeeps, DeclineKeeps, AnnouncementKeeps
  DEF Environment
<1>2. CASE CreateStep \/ IntentStep
  BY <1>2, CreateKeeps, IntentKeeps, AnnouncementKeeps, HandlerKeeps
  DEF CreateStep, IntentStep
<1>3. CASE CancelStep
  BY <1>3, CancelKeeps DEF CancelStep
<1>4. CASE PaidStep
  BY <1>4, HandlerKeeps, CallKeeps, ShipKeeps DEF PaidStep
<1>5. CASE FailedStep \/ DeletedWrite
  BY <1>5, HandlerKeeps, CallKeeps DEF FailedStep
<1>6. CASE FulfilmentStep
  BY <1>6, FulfilmentKeeps
<1>7. CASE \E m \in Messages : Handle(m)
  BY <1>7, HandleKeeps
<1>8. CASE \E t \in Callers : InventoryStep(t) \/ InventoryFails(t) \/ CallTimesOut(t)
  BY <1>8, AnswerKeeps, InventoryKeeps, StockReservedKeeps DEF InventoryStep
<1>9. CASE (\E t \in Tasks : HandlerAborts(t)) \/ Evict \/ Restart
  BY <1>9, AbortKeeps, EvictKeeps, RestartKeeps
<1>10. CASE UNCHANGED vars
  <2>1. /\ UNCHANGED <<rowVars, queueVars, pc, seen, aborted, inventoryVars>> /\ NoFault
    BY <1>10 DEF vars, NoFault
  <2>2. sent' = sent
    BY <2>1 DEF queueVars
  <2>3. StockInv' /\ reservations' = reservations
    BY <2>1, <2>2, StockKept DEF SagaInv, inventoryVars
  <2> QED BY <2>1, <2>3, ServerStepKeeps
<1> QED
  BY <1>1, <1>2, <1>3, <1>4, <1>5, <1>6, <1>7, <1>8, <1>9, <1>10 DEF Next

-----------------------------------------------------------------------------
(* Labels.  Only the handler of ful_paid writes "label_purchased", and it   *)
(* works on a shipment that had another status when it was read.            *)

LabelInv ==
    /\ pc["ful_paid"] = "label" =>
          seen \in DOMAIN shipments /\ shipments[seen].status # "label_purchased"
    /\ aborted \/ \A i \in DOMAIN shipments :
          /\ shipments[i].labels <= 1
          /\ shipments[i].labels > 0 => shipments[i].status = "label_purchased"

\* The handler stands still or ends, and the shipments are as they were.
LEMMA LabelsKept ==
    ASSUME LabelInv, UNCHANGED <<shipments, seen>>, aborted' \in {aborted, TRUE},
           pc'["ful_paid"] \in {pc["ful_paid"], "idle"}
    PROVE  LabelInv'
<1>1. CASE aborted' = TRUE
  BY <1>1 DEF LabelInv
<1>2. CASE aborted' = aborted
  BY <1>2 DEF LabelInv
<1> QED BY <1>1, <1>2

\* A shipment more, without a label.
LEMMA LabelsGrow ==
    ASSUME SagaInv, LabelInv, NEW tracked \in BOOLEAN,
           shipments' = Append(shipments, Shipment(tracked)),
           UNCHANGED <<seen, aborted>>, pc'["ful_paid"] = pc["ful_paid"]
    PROVE  LabelInv'
<1>1. PICK row \in ShipmentRow : row = Shipment(tracked) /\ row.labels = 0
  BY DEF Shipment, ShipmentRow
<1>2. shipments \in Seq(ShipmentRow) /\ shipments' = Append(shipments, row)
  BY <1>1 DEF SagaInv, RowsTyped
<1>3. /\ DOMAIN shipments \subseteq DOMAIN shipments'
      /\ \A i \in DOMAIN shipments : shipments'[i] = shipments[i]
      /\ \A i \in DOMAIN shipments' : i \in DOMAIN shipments \/ shipments'[i] = row
  BY <1>2
<1> QED BY <1>1, <1>3 DEF LabelInv

\* A label bought for the shipment that was read.
LEMMA LabelsBought == ASSUME SagaInv, LabelInv, BuyLabel PROVE LabelInv'
<1>1. pc["ful_paid"] = "label" /\ Goto("ful_paid", "idle")
  BY DEF BuyLabel
<1>2. pc'["ful_paid"] # "label"
  <2>1. "ful_paid" \in Tasks /\ "idle" \in Points
    BY DEF Tasks, FulfilmentHandlers, Points
  <2>2. pc'["ful_paid"] = "idle"
    BY <1>1, <2>1, GotoStep DEF SagaInv
  <2> QED BY <2>2
<1>3. CASE aborted'
  BY <1>2, <1>3 DEF LabelInv
<1>4. CASE ~ aborted'
  <2>1. seen \in DOMAIN shipments /\ shipments[seen].status # "label_purchased"
    BY <1>1 DEF LabelInv
  <2>2. ~ aborted
    BY <1>4 DEF BuyLabel
  <2>3. shipments[seen].labels = 0
    <3> DEFINE row == shipments[seen]
    <3>0. row \in ShipmentRow
      <4>1. shipments \in Seq(ShipmentRow)
        BY DEF SagaInv, RowsTyped
      <4> QED BY <2>1, <4>1
    <3>1. row.labels \in Nat
      BY <3>0 DEF ShipmentRow
    <3>2. \A i \in DOMAIN shipments :
             /\ shipments[i].labels <= 1
             /\ shipments[i].labels > 0 => shipments[i].status = "label_purchased"
      BY <2>2 DEF LabelInv
    <3>3. ~ (shipments[seen].labels > 0)
      BY <2>1, <3>2
    <3> QED BY <3>1, <3>3
  <2>4. CASE shipments' = shipments
    BY <1>2, <2>2, <2>4 DEF LabelInv
  <2>5. CASE shipments' # shipments
    <3>1. PICK row \in ShipmentRow :
              /\ row.labels = shipments[seen].labels + 1
              /\ row.status = "label_purchased"
              /\ shipments' = [shipments EXCEPT ![seen] = row]
      BY <1>4, <2>5, BoughtRow DEF SagaInv
    <3>2. /\ DOMAIN shipments' = DOMAIN shipments
          /\ \A i \in DOMAIN shipments : shipments'[i] = IF i = seen THEN row ELSE shipments[i]
      BY <3>1 DEF SagaInv, RowsTyped
    <3> QED BY <1>2, <2>2, <2>3, <3>1, <3>2 DEF LabelInv
  <2> QED BY <2>4, <2>5
<1> QED BY <1>3, <1>4

\* The handler opens on the newest shipment, when that has no label.
LEMMA LabelsOpened ==
    ASSUME SagaInv, LabelInv, NEW m \in Messages, Handle(m) PROVE LabelInv'
<1>1. UNCHANGED <<shipments, aborted>> /\ pc[HandlerOf(m)] = "idle"
  BY DEF Handle, SkipProcessed, StartHandler, StartInventoryHandler, Take, rowVars
<1>2. HandlerOf(m) \in Tasks /\ "ful_paid" \in Tasks
  BY HandlerTasks DEF Tasks, FulfilmentHandlers
<1>3. m = "ful_paid" => HandlerOf(m) = "ful_paid" /\ m \notin InventoryHandlers
  BY DEF HandlerOf, Completions, InventoryHandlers
<1>4. CASE StartHandler(m) /\ m = "ful_paid"
  <2>1. /\ seen' = Len(shipments)
        /\ pc'["ful_paid"] = "label" => UnlabelledFound = "label"
    <3>1. seen' = Len(shipments)
      BY <1>4 DEF StartHandler
    <3>2. Opening(m) = UnlabelledFound
      BY <1>4 DEF Opening, Completions
    <3>3. pc' = pc \/ Goto("ful_paid", UnlabelledFound)
      BY <1>3, <1>4, <3>2 DEF StartHandler
    <3>4. UnlabelledFound \in Points
      BY DEF UnlabelledFound, Points
    <3>5. pc["ful_paid"] = "idle"
      BY <1>1, <1>3, <1>4
    <3> QED BY <1>2, <3>1, <3>3, <3>4, <3>5, GotoStep DEF SagaInv
  <2>2. UnlabelledFound = "label" =>
            /\ shipments # <<>>
            /\ shipments[Len(shipments)].status # "label_purchased"
    BY DEF UnlabelledFound
  <2>3. shipments # <<>> => Len(shipments) \in DOMAIN shipments
    BY DEF SagaInv, RowsTyped
  <2> QED BY <1>1, <2>1, <2>2, <2>3 DEF LabelInv
<1>5. CASE ~ (StartHandler(m) /\ m = "ful_paid")
  <2>1. seen' = seen
    BY <1>5 DEF Handle, SkipProcessed, StartHandler, StartInventoryHandler
  <2>2. pc'["ful_paid"] = pc["ful_paid"]
    <3>1. CASE UNCHANGED pc
      BY <3>1
    <3>2. CASE ~ UNCHANGED pc
      <4>1. PICK step : Goto(HandlerOf(m), step) /\ HandlerOf(m) # "ful_paid"
        <5>1. m # "ful_paid" => HandlerOf(m) # "ful_paid"
          BY DEF HandlerOf
        <5>2. CASE StartHandler(m)
          BY <1>5, <3>2, <5>1, <5>2 DEF StartHandler
        <5>3. CASE StartInventoryHandler(m)
          BY <3>2, <5>3 DEF StartInventoryHandler, InventoryHandlers, HandlerOf, Completions
        <5> QED BY <3>2, <5>2, <5>3 DEF Handle, SkipProcessed
      <4> QED BY <1>2, <4>1 DEF Goto, SagaInv, QueuesTyped
    <3> QED BY <3>1, <3>2
  <2> QED BY <1>1, <2>1, <2>2, LabelsKept
<1> QED BY <1>4, <1>5

LEMMA LabelsInductive == SagaInv /\ LabelInv /\ [Next]_vars => LabelInv'
<1> SUFFICES ASSUME SagaInv, LabelInv, [Next]_vars PROVE LabelInv'
  OBVIOUS
<1>1. "ful_paid" \in Tasks \ (OrderHandlers \cup Callers \cup {"create", "cancel", "pay_created"})
  BY DEF Tasks, FulfilmentHandlers, OrderHandlers, Callers, InventoryHandlers
<1>2. ASSUME NEW t \in Tasks \ {"ful_paid"}, NEW step, Goto(t, step)
      PROVE  pc'["ful_paid"] = pc["ful_paid"]
  BY <1>1, <1>2 DEF Goto, SagaInv, QueuesTyped
<1>3. ASSUME NEW t \in Tasks \ {"ful_paid"}, NEW step, GoOn(t, step)
      PROVE  pc'["ful_paid"] = pc["ful_paid"]
  BY <1>2, <1>3 DEF GoOn, Finish
<1>4. CASE Environment \/ CreateStep \/ CancelStep
  <2>1. UNCHANGED <<shipments, seen, aborted>>
    BY <1>4 DEF Environment, CreateStep, CancelStep, InsertOrder, CancelRead, PaymentSucceeds,
       PaymentFails, UserDeleted, ReserveStock, CallInventory, ReservationFailed,
       PublishCreated, CancelWrite, CancelFails, rowVars
  <2>2. pc' = pc \/ \E t \in {"create", "cancel"}, step \in Points : Goto(t, step)
    BY <1>4 DEF Environment, CreateStep, CancelStep, InsertOrder, CancelRead, PaymentSucceeds,
       PaymentFails, UserDeleted, ReserveStock, CallInventory, ReservationFailed,
       PublishCreated, CancelWrite, CancelFails, Points
  <2>3. pc'["ful_paid"] = pc["ful_paid"]
    BY <1>2, <2>2, CreateTask
  <2> QED BY <2>1, <2>3, LabelsKept
<1>5. CASE IntentStep \/ FailedStep \/ DeletedWrite \/ CompleteOrder \/ CommitStock
             \/ RecordTracking
  <2>1. UNCHANGED <<shipments, seen, aborted>>
    BY <1>5 DEF IntentStep, CreateIntent, AttachIntent, FailedStep, FailOrder, ReleaseStock,
       CommitStock, CallInventory, DeletedWrite, CompleteOrder, RecordTracking, rowVars
  <2>2. \E t \in Tasks \ {"ful_paid"}, step \in Points \cup {"finish"} :
            Goto(t, step) \/ GoOn(t, step)
    BY <1>1, <1>5, CreateTask
    DEF IntentStep, CreateIntent, AttachIntent, FailedStep, FailOrder, ReleaseStock,
        CommitStock, CallInventory, DeletedWrite, CompleteOrder, RecordTracking, Finish,
        Points, OrderHandlers
  <2>3. pc'["ful_paid"] = pc["ful_paid"]
    BY <1>2, <1>3, <2>2
  <2> QED BY <2>1, <2>3, LabelsKept
<1>6. CASE CreateShipment
  <2>1. /\ UNCHANGED <<seen, aborted>>
        /\ \E step \in {"track", "finish"} : GoOn("paid", step)
        /\ shipments' \in {shipments, Append(shipments, Shipment(TRUE))}
    BY <1>6 DEF CreateShipment, GoOn
  <2>2. pc'["ful_paid"] = pc["ful_paid"]
    BY <1>1, <1>3, <2>1, CreateTask DEF OrderHandlers
  <2> QED BY <2>1, <2>2, LabelsGrow, LabelsKept
<1>7. CASE PrepareShipment
  <2>1. "ful_taxed" \in Tasks \ {"ful_paid"}
    BY DEF Tasks, FulfilmentHandlers
  <2>2. pc'["ful_paid"] = pc["ful_paid"]
    BY <1>2, <1>7, <2>1 DEF PrepareShipment
  <2> QED BY <1>7, <2>2, LabelsGrow DEF PrepareShipment
<1>8. CASE \E m \in Messages : Handle(m)
  BY <1>8, LabelsOpened
<1>9. CASE \E t \in Callers : InventoryStep(t) \/ InventoryFails(t) \/ CallTimesOut(t)
  <2>1. PICK t \in Callers : InventoryStep(t) \/ InventoryFails(t) \/ CallTimesOut(t)
    BY <1>9
  <2>2. UNCHANGED <<shipments, seen, aborted>>
    BY <2>1 DEF InventoryStep, InventoryFails, CallTimesOut, InventoryAnswers, AnswerDropped,
       StockReserved, InventoryWorks, rowVars
  <2>3. pc' = pc \/ \E step : GoOn(t, step)
    BY <2>1 DEF InventoryStep, InventoryFails, CallTimesOut, InventoryAnswers, AnswerDropped,
       StockReserved, InventoryWorks
  <2>4. t \in Tasks \ {"ful_paid"}
    BY <1>1 DEF Callers, Tasks, OrderHandlers
  <2>5. pc'["ful_paid"] = pc["ful_paid"]
    BY <1>3, <2>3, <2>4
  <2> QED BY <2>2, <2>5, LabelsKept
<1>10. CASE \E t \in Tasks : HandlerAborts(t)
  <2>1. PICK t \in Tasks : HandlerAborts(t)
    BY <1>10
  <2>2. UNCHANGED <<shipments, seen>> /\ aborted' = TRUE /\ Goto(t, "idle")
    BY <2>1 DEF HandlerAborts
  <2>3. pc'["ful_paid"] \in {pc["ful_paid"], "idle"}
    BY <1>1, <2>2, GotoStep DEF SagaInv, Points
  <2> QED BY <2>2, <2>3, LabelsKept
<1>11. CASE Evict \/ Restart
  <2>1. UNCHANGED <<shipments, seen>> /\ aborted' = TRUE
    BY <1>11 DEF Evict, Restart, rowVars
  <2>2. pc'["ful_paid"] = pc["ful_paid"]
    BY <1>1, <1>11 DEF Evict, Restart
  <2> QED BY <2>1, <2>2, LabelsKept
<1>12. CASE UNCHANGED vars
  BY <1>12, LabelsKept DEF vars, rowVars
<1> QED
  BY <1>4, <1>5, <1>6, <1>7, <1>8, <1>9, <1>10, <1>11, <1>12, LabelsBought
  DEF Next, PaidStep, FulfilmentStep

LEMMA SagaInvariance == Spec => []SagaInv
BY SagaStarts, SagaInductive, PTL DEF Spec

\* For every set of scenarios and all bounds, whatever is lost, delivered twice
\* or interrupted: order, payment, shipments, queues and tasks stay well-formed.
THEOREM SagaTyped == Spec => []TypeOK
<1>1. SagaInv => TypeOK
  BY SagaTypeParts DEF SagaInv, StockInv
<1> QED BY <1>1, SagaInvariance, PTL

\* Nothing of value leaves before the money came in: a row is committed, a
\* shipment handed over or the order completed only for a payment that was seen.
THEOREM NothingUnpaid == Spec => []FulfilledOnlyIfPaid
<1>1. SagaInv => FulfilledOnlyIfPaid
  BY DEF SagaInv, StockInv, RowsSettled, Paying, FulfilledOnlyIfPaid, Committed
<1> QED BY <1>1, SagaInvariance, PTL

\* Goods are charged only after a reservation of them was made.
THEOREM ReservedBeforeCharge == Spec => []ChargedOnlyIfReserved
<1>1. SagaInv => ChargedOnlyIfReserved
  BY DEF SagaInv, Paying, ChargedOnlyIfReserved
<1> QED BY <1>1, SagaInvariance, PTL

\* As long as no handler was interrupted and no id forgotten, no more shipments
\* are made than there were payment.completed events, and at most one label is
\* bought for each shipment, however often every event is delivered.
THEOREM ShippedPerEvent == Spec => []OneShipmentPerEvent
<1>1. Init => LabelInv
  <2>1. ASSUME Init PROVE LabelInv
    <3>1. shipments = <<>> /\ pc["ful_paid"] = "idle"
      BY <2>1 DEF Init, Tasks, FulfilmentHandlers
    <3> QED BY <3>1 DEF LabelInv
  <2> QED BY <2>1
<1>2. SagaInv /\ LabelInv => OneShipmentPerEvent
  <2>1. SUFFICES ASSUME SagaInv, LabelInv, ~ aborted
                 PROVE  Cardinality(Tracked) <= Cardinality(sent \cap Completions)
    BY DEF OneShipmentPerEvent, LabelInv
  <2>2. Handled \subseteq sent \cap Completions
    BY <2>1, PaidIsSeen DEF Handled, SagaInv, Announced
  <2>3. /\ IsFiniteSet(sent \cap Completions)
        /\ Cardinality(sent \cap Completions) \in Nat
        /\ Cardinality(Handled) \in Nat
        /\ Cardinality(Tracked) \in Nat
    <3>1. sent \cap Completions \in SUBSET Completions /\ Handled \in SUBSET Completions
      BY DEF Handled
    <3> QED
      BY <2>1, <3>1, EventsFinite, ShipmentsFinite DEF SagaInv, RowsTyped
  <2>4. Cardinality(Handled) <= Cardinality(sent \cap Completions)
    BY <2>2, <2>3, FS_Subset
  <2> QED BY <2>1, <2>3, <2>4 DEF SagaInv, Counted
<1> QED BY <1>1, <1>2, SagaInvariance, LabelsInductive, PTL DEF Spec
=============================================================================
