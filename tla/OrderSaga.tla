------------------------------ MODULE OrderSaga ------------------------------
(***************************************************************************)
(* One order as it travels through order_service, inventory_service,       *)
(* payment_service and fulfillment_service.  Nothing spans the services    *)
(* but HTTP calls and NATS events: every service call is a sequence of     *)
(* awaits, every event handler runs in the consumer loop of its own        *)
(* subscription (one message at a time), and all of them interleave.       *)
(*                                                                         *)
(* The module composes Inventory (the reservation table and its requests)  *)
(* with the order row, the payment intent, the shipments and the event     *)
(* queues.  Rows of different orders do not interact: one order is enough. *)
(***************************************************************************)
EXTENDS Naturals, Sequences, FiniteSets

CONSTANTS
    Order,            \* the order id
    Scenarios,        \* the combinations that behaviours start from, see below
    MaxReservations,  \* bound: reservation rows of the order
    MaxShipments      \* bound: shipment rows of the order

\* A scenario: what the order is for (items to ship, or credits), what else may
\* happen to it or to the memory of its service, and a bound on its faults
\* (failed calls, lost and duplicated events, restarts).
Scenario == [kind : {"goods", "credits"},
             happens : SUBSET {"cancel", "decline", "delete", "evict"}, faults : Nat]

ASSUME SagaAssumption ==
    /\ \A s \in Scenarios : s \in Scenario
    /\ MaxReservations \in Nat /\ MaxShipments \in Nat

VARIABLES
    scenario,         \* the scenario: fixed
    order,            \* the row of order.orders
    stripe,           \* the payment intent, as payment_service sees it
    shipments,        \* the order's rows in fulfillment.shipments, oldest first
    sent,             \* messages published (or tried) so far
    inbox,            \* inbox[m]: copies of m waiting in the consumer of m
    processed,        \* processed_event_ids of order_service
    msg,              \* the payment.completed event its handler works on
    pc,               \* pc[t]: where task t stands
    seen,             \* the shipment fulfilment's payment.completed handler read
    faults,           \* faults so far
    aborted,          \* a handler ended in an exception, ids were evicted, or a restart
    reservations, call   \* the state of Inventory

inventoryVars == <<reservations, call>>
queueVars == <<sent, inbox, processed, msg>>
rowVars == <<scenario, order, stripe, shipments>>
vars == <<rowVars, queueVars, pc, seen, faults, aborted, inventoryVars>>

\* The two HTTP requests and the consumer loops that touch the order.
OrderHandlers == {"initiated", "paid", "failed", "deleted"}
PaymentHandlers == {"pay_created"}
InventoryHandlers == {"inv_created", "inv_paid"}
FulfilmentHandlers == {"ful_taxed", "ful_paid"}
Tasks == {"create", "cancel"} \cup OrderHandlers \cup PaymentHandlers
             \cup InventoryHandlers \cup FulfilmentHandlers
Callers == {"create", "paid", "failed"} \cup InventoryHandlers

\* payment.completed is published twice for a payment: by confirm_payment and
\* again by handle_stripe_webhook, as two events with ids of their own.  Both
\* carry the payment intent, by which order_service finds the order; only the
\* second carries Stripe's metadata with the order id, without which the
\* handlers of inventory_service and fulfillment_service return at once.
\* Every other message is named after the one handler that consumes it.
Completions == {"completed_a", "completed_b"}
Payments == Completions \cup {"inv_paid", "ful_paid"}
Messages == Payments \cup {"initiated", "failed", "deleted", "pay_created",
                           "inv_created", "ful_taxed"}
HandlerOfShared(m) == IF m \in Completions \cup {"failed", "deleted"} THEN "paid" ELSE m
HandlerOf(m) == IF m \in Completions THEN "paid" ELSE m
MessageOf(t) == IF t = "paid" THEN msg ELSE t

\* The log of published stock events is not needed here: the one event that
\* has a consumer (inventory.reserved) is sent by StockReserved below.
Inv == INSTANCE Inventory WITH Calls <- Callers, Orders <- {Order}, stock <- {}

-----------------------------------------------------------------------------
Goto(t, step) == pc' = [pc EXCEPT ![t] = step]

NoFault == UNCHANGED faults
Fault == faults < scenario.faults /\ faults' = faults + 1

\* publish_event for every message of ms: delivered once, or, as a fault, some
\* of them lost (publish or subscription failed) or one delivered twice.
Publish(ms) ==
    LET Delivered(once, again) ==
            [m \in Messages |-> inbox[m] + (IF m \in once THEN 1 ELSE 0)
                                        + (IF m \in again THEN 1 ELSE 0)]
    IN  /\ sent' = sent \cup ms
        /\ UNCHANGED <<processed, msg>>
        /\ \/ NoFault /\ inbox' = Delivered(ms, {})
           \/ Fault /\ \E lost \in (SUBSET ms) \ {{}} : inbox' = Delivered(ms \ lost, {})
           \/ Fault /\ \E twice \in ms : inbox' = Delivered(ms, {twice})

\* mark_event_processed, the last thing a handler of order_service does, with
\* no await after the step before it.
Finish(t) ==
    /\ processed' = processed \cup {MessageOf(t)}
    /\ UNCHANGED <<sent, inbox, msg>>
    /\ Goto(t, "idle")

\* A handler either goes on or, where next is "finish", finishes.
GoOn(t, next) ==
    IF next = "finish" THEN Finish(t) ELSE Goto(t, next) /\ UNCHANGED queueVars

\* The row that the UPDATE task t is about to make leaves behind.  update_order
\* SELECTs the row again after its UPDATE: when either raises, the row may or
\* may not have been written.
Written(t) ==
    CASE pc[t] = "unreserved" -> [order EXCEPT !.status = "failed"]
      [] t = "initiated" -> [order EXCEPT !.intent = TRUE]
      [] pc[t] = "track" -> [order EXCEPT !.shipped = TRUE]
      [] pc[t] = "fail" -> [order EXCEPT !.status = "failed", !.pay = "failed"]
      [] t \in {"cancel", "deleted"} -> [order EXCEPT !.status = "cancelled"]
      [] OTHER -> order

-----------------------------------------------------------------------------
(* order_service.create_order                                              *)

InsertOrder ==
    /\ pc["create"] = "idle"
    /\ order' = [order EXCEPT !.status = "pending"]
    /\ Goto("create", IF scenario.kind = "goods" THEN "reserve" ELSE "publish")
    /\ UNCHANGED <<scenario, stripe, shipments, queueVars, seen, faults,
                   aborted, inventoryVars>>

\* The reservation was refused or unknown: the order is FAILED.  The UPDATE may
\* raise too, which create_order answers with CREATE_ERROR, undoing nothing;
\* coming after a failure, it is not counted as a fault of its own.
ReservationFailed ==
    /\ pc["create"] = "unreserved"
    /\ order' \in {order, Written("create")}
    /\ Goto("create", "done")
    /\ UNCHANGED <<scenario, stripe, shipments, queueVars, seen, faults,
                   aborted, inventoryVars>>

\* The call to payment_service that precedes this, create_payment_intent_v2,
\* posts to a path that payment_service does not have, without credentials: its
\* answer is always None, so the event carries no intent.
PublishCreated ==
    /\ pc["create"] = "publish"
    /\ Publish({"inv_created", "pay_created"})
    /\ Goto("create", "done")
    /\ UNCHANGED <<rowVars, seen, aborted, inventoryVars>>

-----------------------------------------------------------------------------
(* order_service.cancel_order                                              *)

Cancellable(status) == status \notin {"completed", "cancelled", "refunded"}

CancelRead ==
    /\ "cancel" \in scenario.happens
    /\ pc["cancel"] = "idle"
    /\ order.status # "none"
    /\ Goto("cancel", IF Cancellable(order.status) THEN "write" ELSE "done")
    /\ UNCHANGED <<rowVars, queueVars, seen, faults, aborted, inventoryVars>>

\* The UPDATE does not look at the status again.  What follows it changes
\* nothing: the refund asks for a method that OrderService does not have, and
\* publish_order_canceled is called with an argument it does not take.  Both
\* exceptions are caught; no order.canceled event ever leaves the service.
CancelWrite ==
    /\ pc["cancel"] = "write"
    /\ order' = Written("cancel")
    /\ Goto("cancel", "done")
    /\ UNCHANGED <<scenario, stripe, shipments, queueVars, seen, faults, aborted,
                   inventoryVars>>

CancelFails ==
    /\ pc["cancel"] = "write"
    /\ Fault
    /\ order' \in {order, Written("cancel")}
    /\ Goto("cancel", "done")
    /\ UNCHANGED <<scenario, stripe, shipments, queueVars, seen, aborted, inventoryVars>>

-----------------------------------------------------------------------------
(* The calls of order_service to inventory_service                         *)

CallInventory(t, op) ==
    /\ pc[t] = op
    /\ Inv!Request(t, op, Order, 0)
    /\ Goto(t, "waiting")
    /\ UNCHANGED <<rowVars, queueVars, seen, faults, aborted>>

ReserveStock == CallInventory("create", "reserve")
CommitStock == CallInventory("paid", "commit")
ReleaseStock == CallInventory("failed", "release")

\* Plausible bugs for the mutation runs: the answer to the reservation is
\* ignored; goods are shipped only when the commit succeeded.
AfterCallIgnored(t, ok) ==
    CASE t = "create" -> "publish" [] t = "paid" -> "ship"
      [] t = "failed" -> "finish" [] OTHER -> "idle"
AfterCallStrict(t, ok) ==
    CASE t = "create" -> IF ok THEN "publish" ELSE "unreserved"
      [] t = "paid" -> IF ok THEN "ship" ELSE "finish"
      [] t = "failed" -> "finish" [] OTHER -> "idle"

\* What follows the call: create_order looks at the answer, the handlers of
\* order_service ignore it, the handlers of inventory_service are finished.
AfterCall(t, ok) ==
    CASE t = "create" -> IF ok THEN "publish" ELSE "unreserved"
      [] t = "paid" -> "ship"
      [] t = "failed" -> "finish"
      [] OTHER -> "idle"

InventoryAnswers(t) ==
    /\ pc[t] = "waiting"
    /\ Inv!Return(t)
    /\ GoOn(t, AfterCall(t, call[t].step = "ok"))
    /\ UNCHANGED <<rowVars, seen, faults, aborted>>

\* The client gives up (timeout, connection error) while inventory_service
\* still works on the request, whose answer is then dropped.
CallTimesOut(t) ==
    /\ Fault
    /\ pc[t] = "waiting"
    /\ t \notin InventoryHandlers
    /\ GoOn(t, AfterCall(t, FALSE))
    /\ UNCHANGED <<rowVars, seen, aborted, inventoryVars>>

AnswerDropped(t) ==
    /\ pc[t] # "waiting"
    /\ Inv!Return(t)
    /\ UNCHANGED <<rowVars, queueVars, pc, seen, faults, aborted>>

\* inventory.reserved makes tax_service calculate the tax of the order and
\* publish tax.calculated, which fulfillment_service consumes.
StockReserved(t) ==
    /\ Inv!CreateReservation(t)
    /\ IF call'[t].step = "ok" THEN Publish({"ful_taxed"}) ELSE Fault /\ UNCHANGED queueVars
    /\ UNCHANGED <<rowVars, pc, seen, aborted>>

InventoryWorks(t) ==
    /\ Inv!LookUp(t) \/ Inv!Settle(t)
    /\ IF call'[t].step = "error" THEN Fault ELSE NoFault
    /\ UNCHANGED <<rowVars, queueVars, pc, seen, aborted>>

InventoryFails(t) ==
    /\ Fault
    /\ Inv!RepositoryError(t)
    /\ UNCHANGED <<rowVars, queueVars, pc, seen, aborted>>

-----------------------------------------------------------------------------
(* Event delivery: one message at a time per consumer loop.  A handler      *)
(* starts with a read; taking the message and reading are one step, since   *)
(* nobody else looks at the message.  A read that raises ends the handler   *)
(* with nothing done, as if the message had been lost.                      *)

Take(m) ==
    /\ inbox[m] > 0
    /\ pc[HandlerOf(m)] = "idle"
    /\ inbox' = [inbox EXCEPT ![m] = @ - 1]
    /\ UNCHANGED <<sent, rowVars, faults, aborted>>

NeverProcessed(m) == FALSE
AlreadyProcessed(m) == m \in processed

\* is_event_processed of the handlers of order_service.
SkipProcessed(m) ==
    /\ AlreadyProcessed(m)
    /\ HandlerOf(m) \in OrderHandlers
    /\ Take(m)
    /\ UNCHANGED <<pc, msg, processed, seen, inventoryVars>>

\* handle_payment_completed and handle_payment_failed find the order by its
\* payment intent.  When none has it the event is marked and done with, although
\* payment.initiated may still be on its way.
FoundByIntent(next) == IF order.intent THEN next ELSE "finish"

\* handle_user_deleted looks for orders that are not settled.
PendingFound == IF order.status = "pending" THEN "cancel" ELSE "finish"

\* payment_service.handle_order_created claims the event for good: a claim that
\* was completed says that the intent was made.
IntentWanted == IF stripe = "none" THEN "intent" ELSE "idle"

\* fulfillment_service.handle_tax_calculated prepares a shipment unless the
\* order has one; handle_payment_completed buys a label for the newest shipment
\* unless it has one.
NoShipmentFound == IF shipments = <<>> THEN "prepare" ELSE "idle"
UnlabelledFound ==
    IF shipments # <<>> /\ shipments[Len(shipments)].status # "label_purchased"
    THEN "label" ELSE "idle"

\* Where the handler of m stands after its first read.
Opening(m) ==
    CASE m \in Completions -> FoundByIntent("complete")
      [] m = "failed" -> FoundByIntent("fail")
      [] m = "deleted" -> PendingFound
      [] m = "pay_created" -> IntentWanted
      [] m = "ful_taxed" -> NoShipmentFound
      [] m = "ful_paid" -> UnlabelledFound
      [] OTHER -> "attach"

StartHandler(m) ==
    /\ m \notin InventoryHandlers
    /\ ~ AlreadyProcessed(m)
    /\ Take(m)
    /\ IF Opening(m) = "finish"
       THEN processed' = processed \cup {m} /\ UNCHANGED <<pc, msg>>
       ELSE /\ Goto(HandlerOf(m), Opening(m))
            /\ msg' = IF m \in Completions THEN m ELSE msg
            /\ UNCHANGED processed
    /\ seen' = IF m = "ful_paid" THEN Len(shipments) ELSE seen
    /\ UNCHANGED inventoryVars

\* A plausible bug: the handler of payment.completed calls the wrong operation.
OperationSwapped(m) == IF m = "inv_created" THEN "reserve" ELSE "release"
OperationOf(m) == IF m = "inv_created" THEN "reserve" ELSE "commit"

\* inventory_service: handle_order_created reserves (an order for credits has
\* no items and is ignored), handle_payment_completed commits the newest active
\* reservation, if there is one.
StartInventoryHandler(m) ==
    /\ m \in InventoryHandlers
    /\ Take(m)
    /\ UNCHANGED <<msg, processed, seen>>
    /\ IF m = "inv_created" /\ scenario.kind # "goods"
       THEN UNCHANGED <<pc, inventoryVars>>
       ELSE /\ Inv!Request(m, OperationOf(m), Order, 0)
            /\ Goto(m, "waiting")

-----------------------------------------------------------------------------
(* payment_service.handle_order_created makes the payment intent, which     *)
(* payment.initiated announces; its handler attaches it to the order.       *)

\* As a fault the account or Stripe refuses and the claim is given back; an
\* intent that Stripe made without its answer arriving is known to nobody.
CreateIntent ==
    /\ pc["pay_created"] = "intent"
    /\ \/ stripe' = "pending" /\ Publish({"initiated"})
       \/ UNCHANGED <<stripe, queueVars>> /\ Fault
    /\ Goto("pay_created", "idle")
    /\ UNCHANGED <<scenario, order, shipments, seen, aborted, inventoryVars>>

AttachIntent ==
    /\ pc["initiated"] = "attach"
    /\ order' = Written("initiated")
    /\ Finish("initiated")
    /\ UNCHANGED <<scenario, stripe, shipments, seen, faults, aborted,
                   inventoryVars>>

-----------------------------------------------------------------------------
(* What the handlers of order_service do once they found the order.         *)

\* complete_order: no look at the current status.  Its failure is swallowed
\* and the handler goes on.  For an order of credits it then calls
\* _add_credits_to_wallet, which asks for self._get_service_url, a method that
\* OrderService does not have: the exception is logged and nothing is added.
CompleteOrder ==
    /\ pc["paid"] = "complete"
    /\ \/ order' = [order EXCEPT !.status = "completed", !.pay = "completed"] /\ NoFault
       \/ UNCHANGED order /\ Fault
    /\ GoOn("paid", IF scenario.kind = "goods" THEN "commit" ELSE "finish")
    /\ UNCHANGED <<scenario, stripe, shipments, seen, aborted, inventoryVars>>

\* A shipment row: whether it was inserted with the carrier's tracking number,
\* its status, and how often a label was bought for it.
Shipment(tracked) == [tracked |-> tracked, status |-> "created", labels |-> 0]

\* fulfillment_client.create_shipment always inserts a new row, with the
\* carrier's tracking number; as a fault the call fails, before or after that.
CreateShipment ==
    /\ pc["paid"] = "ship"
    /\ Len(shipments) < MaxShipments
    /\ \/ /\ shipments' = Append(shipments, Shipment(TRUE))
          /\ NoFault
          /\ GoOn("paid", "track")
       \/ /\ shipments' \in {shipments, Append(shipments, Shipment(TRUE))}
          /\ Fault
          /\ Finish("paid")
    /\ UNCHANGED <<scenario, order, stripe, seen, aborted, inventoryVars>>

RecordTracking ==
    /\ pc["paid"] = "track"
    /\ order' = Written("paid")
    /\ Finish("paid")
    /\ UNCHANGED <<scenario, stripe, shipments, seen, faults, aborted,
                   inventoryVars>>

\* handle_payment_failed: no look at the current status either.
FailOrder ==
    /\ pc["failed"] = "fail"
    /\ order' = Written("failed")
    /\ Goto("failed", "release")
    /\ UNCHANGED <<scenario, stripe, shipments, queueVars, seen, faults,
                   aborted, inventoryVars>>

\* handle_user_deleted: the order is cancelled, without an event.
\* An exception in the loop over the user's orders is logged, the event is
\* marked all the same.
DeletedWrite ==
    /\ pc["deleted"] = "cancel"
    /\ \/ order' = Written("deleted") /\ NoFault
       \/ order' = order /\ Fault
    /\ Finish("deleted")
    /\ UNCHANGED <<scenario, stripe, shipments, seen, aborted, inventoryVars>>

\* A repository call of a handler raises: the handler logs it and returns
\* without marking the event.
HandlerAborts(t) ==
    /\ Fault
    /\ pc[t] \in {"attach", "track", "fail", "prepare"}
    /\ t \in OrderHandlers \cup FulfilmentHandlers
    /\ aborted' = TRUE
    /\ order' \in {order, IF t \in OrderHandlers THEN Written(t) ELSE order}
    /\ Goto(t, "idle")
    /\ UNCHANGED <<scenario, stripe, shipments, queueVars, seen, inventoryVars>>

\* mark_event_processed, called for whatever order, keeps an arbitrary half of
\* processed_event_ids once they are more than 10000: ids of this one may go.
Evict ==
    /\ "evict" \in scenario.happens
    /\ processed' \in SUBSET processed \ {processed}
    /\ aborted' = TRUE
    /\ UNCHANGED <<rowVars, sent, inbox, msg, pc, seen, faults, inventoryVars>>

\* The process of order_service dies and comes back: requests and handlers are
\* gone, and with them processed_event_ids.  The events that were being handled
\* are delivered again or not.
Restart ==
    LET running == {t \in OrderHandlers : pc[t] # "idle"} IN
    /\ Fault
    /\ \/ running # {}
       \/ pc["create"] \notin {"idle", "done"}
       \/ pc["cancel"] \notin {"idle", "done"}
       \/ processed # {}
    /\ aborted' = TRUE
    /\ processed' = {}
    /\ pc' = [t \in Tasks |->
                 CASE t \in OrderHandlers -> "idle"
                   [] t \in {"create", "cancel"} /\ pc[t] # "idle" -> "done"
                   [] OTHER -> pc[t]]
    /\ \E again \in SUBSET {MessageOf(t) : t \in running} :
        inbox' = [m \in Messages |-> IF m \in again THEN inbox[m] + 1 ELSE inbox[m]]
    /\ UNCHANGED <<rowVars, sent, msg, seen, inventoryVars>>

-----------------------------------------------------------------------------
(* The writes of fulfillment_service, which follow the reads above.         *)

PrepareShipment ==
    /\ pc["ful_taxed"] = "prepare"
    /\ Len(shipments) < MaxShipments
    /\ shipments' = Append(shipments, Shipment(FALSE))
    /\ Goto("ful_taxed", "idle")
    /\ UNCHANGED <<scenario, order, stripe, queueVars, seen, faults,
                   aborted, inventoryVars>>

\* The carrier's create_shipment, then the UPDATE of the row.  As a fault the
\* carrier refuses; or the UPDATE raises after the carrier was paid, with or
\* without the row written.
BuyLabel ==
    LET bought == [shipments EXCEPT ![seen].labels = @ + 1]
        written == [bought EXCEPT ![seen].status = "label_purchased"]
    IN  /\ pc["ful_paid"] = "label"
        /\ \/ shipments' = written /\ NoFault /\ UNCHANGED aborted
           \/ UNCHANGED <<shipments, aborted>> /\ Fault
           \/ shipments' \in {bought, written} /\ Fault /\ aborted' = TRUE
        /\ seen' = 0
        /\ Goto("ful_paid", "idle")
        /\ UNCHANGED <<scenario, order, stripe, queueVars, inventoryVars>>

-----------------------------------------------------------------------------
(* payment_service's webhook, and the deletion of the user's account.  A   *)
(* declined intent can be paid later: Stripe keeps it open.                *)

PaymentSucceeds ==
    /\ stripe \in {"pending", "failed"}
    /\ stripe' = "succeeded"
    /\ Publish(Payments)
    /\ UNCHANGED <<scenario, order, shipments, pc, seen, aborted, inventoryVars>>

PaymentFails ==
    /\ "decline" \in scenario.happens
    /\ stripe = "pending"
    /\ stripe' = "failed"
    /\ Publish({"failed"})
    /\ UNCHANGED <<scenario, order, shipments, pc, seen, aborted, inventoryVars>>

UserDeleted ==
    /\ "delete" \in scenario.happens
    /\ order.status # "none"
    /\ "deleted" \notin sent
    /\ Publish({"deleted"})
    /\ UNCHANGED <<rowVars, pc, seen, aborted, inventoryVars>>

-----------------------------------------------------------------------------
Init ==
    /\ scenario \in Scenarios
    /\ order = [status |-> "none", pay |-> "pending", intent |-> FALSE, shipped |-> FALSE]
    /\ stripe = "none"
    /\ shipments = <<>>
    /\ sent = {}
    /\ inbox = [m \in Messages |-> 0]
    /\ processed = {}
    /\ msg = "completed_a"
    /\ pc = [t \in Tasks |-> "idle"]
    /\ seen = 0
    /\ faults = 0
    /\ aborted = FALSE
    /\ Inv!Init

\* The steps of create_order that run on once the request was accepted.
CreateStep ==
    ReserveStock \/ ReservationFailed \/ PublishCreated
CancelStep == CancelWrite \/ CancelFails
PaidStep == CompleteOrder \/ CommitStock \/ CreateShipment \/ RecordTracking
FailedStep == FailOrder \/ ReleaseStock
IntentStep == CreateIntent \/ AttachIntent
FulfilmentStep == PrepareShipment \/ BuyLabel
Handle(m) == SkipProcessed(m) \/ StartHandler(m) \/ StartInventoryHandler(m)
InventoryStep(t) ==
    InventoryAnswers(t) \/ AnswerDropped(t) \/ StockReserved(t) \/ InventoryWorks(t)
Environment == InsertOrder \/ CancelRead \/ PaymentSucceeds \/ PaymentFails \/ UserDeleted

Next ==
    \/ Environment \/ CreateStep \/ CancelStep \/ PaidStep \/ FailedStep
    \/ DeletedWrite \/ IntentStep \/ FulfilmentStep
    \/ \E m \in Messages : Handle(m)
    \/ \E t \in Callers : InventoryStep(t) \/ InventoryFails(t) \/ CallTimesOut(t)
    \/ \E t \in Tasks : HandlerAborts(t)
    \/ Evict \/ Restart

Spec == Init /\ [][Next]_vars

\* A request that was accepted, a handler that runs, a message that waits and
\* a call that inventory_service has received are not forgotten: the event
\* loops of the services keep running.  Users, Stripe and faults may do nothing.
Fairness ==
    /\ WF_vars(CreateStep) /\ WF_vars(CancelStep)
    /\ WF_vars(PaidStep) /\ WF_vars(FailedStep)
    /\ WF_vars(CreateIntent) /\ WF_vars(AttachIntent)
    /\ WF_vars(DeletedWrite) /\ WF_vars(PrepareShipment) /\ WF_vars(BuyLabel)
    /\ \A m \in Messages : WF_vars(Handle(m))
    /\ \A t \in Callers : WF_vars(InventoryStep(t))

FairSpec == Spec /\ Fairness

-----------------------------------------------------------------------------
OrderStatuses == {"none", "pending", "completed", "failed", "cancelled", "refunded"}
Points == {"idle", "done", "reserve", "waiting", "unreserved", "publish", "write",
           "intent", "attach", "complete", "commit", "ship", "track", "fail", "release",
           "cancel", "prepare", "label"}

\* Type invariant of the composed state.
TypeOK ==
    /\ scenario \in Scenarios
    /\ order \in [status : OrderStatuses, pay : {"pending", "completed", "failed"},
                  intent : BOOLEAN, shipped : BOOLEAN]
    /\ stripe \in {"none", "pending", "failed", "succeeded"}
    /\ shipments \in Seq([tracked : BOOLEAN, status : {"created", "label_purchased"},
                          labels : Nat])
    /\ Len(shipments) <= MaxShipments
    /\ sent \subseteq Messages
    /\ inbox \in [Messages -> Nat]
    /\ processed \subseteq Messages
    /\ msg \in Completions
    /\ pc \in [Tasks -> Points]
    /\ seen \in 0 .. Len(shipments)
    /\ faults \in 0 .. scenario.faults
    /\ aborted \in BOOLEAN
    /\ Inv!TypeOK

\* The shipments that order_service had made, each with a parcel of its own at
\* the carrier, and those for which fulfillment_service bought a label.
Tracked == {i \in DOMAIN shipments : shipments[i].tracked}
Labelled == {i \in DOMAIN shipments : shipments[i].labels > 0}

Committed == {i \in DOMAIN reservations : reservations[i].status = "committed"}

\* Nothing of value leaves before the money came in: stock is committed, a
\* shipment goes to the carrier, a label is bought or the order is COMPLETED only
\* when payment_service saw the payment succeed, however events are delayed,
\* duplicated or reordered, whichever calls fail and whenever order_service
\* restarts.
FulfilledOnlyIfPaid ==
    Committed # {} \/ Tracked # {} \/ Labelled # {} \/ order.status = "completed"
        => stripe = "succeeded"

\* What order_service ships was taken from stock: behind a shipment there is a
\* committed reservation, although the handler of payment.completed ignores the
\* answer to its commit and inventory_service's own handler may have taken the
\* row first.  Excepted are a payment that was declined before (its stock was
\* released, and a later success ships all the same) and a failed call.
ShippedFromStock ==
    Tracked # {} => Committed # {} \/ "failed" \in sent \/ faults > 0

\* A customer is asked to pay for goods only when stock was reserved first: an
\* order whose reservation failed or went unanswered is never announced to
\* payment_service, and a reservation row is never deleted.
ChargedOnlyIfReserved ==
    scenario.kind = "goods" /\ stripe # "none" => reservations # <<>>

\* A redelivered payment.completed event ships nothing again: order_service has
\* at most as many shipments made as there are distinct events, and
\* fulfillment_service buys at most one label for each; unless a handler ended
\* in an exception between its effect and the mark of it, or the ids of handled
\* events were evicted or lost in a restart.
OneShipmentPerEvent ==
    \/ aborted
    \/ /\ Cardinality(Tracked) <= Cardinality(sent \cap Completions)
       /\ \A i \in DOMAIN shipments : shipments[i].labels <= 1

\* A customer who paid gets the goods shipped: once a payment.completed event
\* waits for an order whose intent is recorded, a shipment is created, unless
\* a call failed or an event was lost on the way.
PaidGetsShipped ==
    (scenario.kind = "goods" /\ order.intent /\ inbox["completed_a"] > 0)
        ~> (Tracked # {} \/ faults > 0)

\* What the domain rules say of a cancelled order: "Cancellation is permanent.
\* Cannot be undone".  A payment.completed event that comes late completes the
\* order and ships it.
CancellationIsPermanent ==
    [][order.status = "cancelled" => order'.status = "cancelled"]_vars

\* What the domain rules say of a completed order: its status can only become
\* REFUNDED.  A late payment.failed event makes it FAILED, and a cancellation
\* that read the status before the payment arrived makes it CANCELLED.
CompletedOnlyRefunded ==
    [][order.status = "completed" => order'.status \in {"completed", "refunded"}]_vars

\* What the domain rules say of events: double processing is prevented.  One
\* payment is announced by two events with different ids: both ship the goods,
\* and fulfillment_service's own handler buys a label besides.
ShippedOnce == Cardinality(Tracked) <= 1

\* What the docstring of the handlers says: an order is completed automatically
\* after a successful payment.  payment.completed may be handled before
\* payment.initiated: no order has the intent yet, and the event is marked.
PaidIsCompleted == stripe = "succeeded" ~> order.status = "completed"

\* What the inventory scenarios promise: the stock of a cancelled order is
\* released.  Nothing announces the cancellation to inventory_service.
CancellationReleases ==
    \A i \in 1 .. MaxReservations :
        LET held == i \in DOMAIN reservations /\ reservations[i].status = "active"
        IN  order.status = "cancelled" /\ held ~> ~ held

=============================================================================
