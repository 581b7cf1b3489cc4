------------------------------ MODULE Inventory ------------------------------
(***************************************************************************)
(* The reservation table of inventory_service and the requests that work   *)
(* on it.  A request is an HTTP call (reserve, commit, release) or an      *)
(* event handler (order.created, payment.completed, order.canceled); both  *)
(* run the same repository statements, each of which is one atomic SQL     *)
(* statement, with an await between them.  In particular commit and        *)
(* release first LOOK UP a reservation and then UPDATE it, and another     *)
(* request may run in between.                                             *)
(***************************************************************************)
EXTENDS Naturals, Sequences, FiniteSets

CONSTANTS
    Calls,            \* the requests in flight (one slot per caller)
    Orders,           \* order ids
    MaxReservations   \* bound: rows ever inserted

ASSUME InventoryAssumption ==
    /\ Orders # {}
    /\ MaxReservations \in Nat

VARIABLES
    reservations,     \* the table, oldest row first: [order, status]
    call,             \* call[c]: what request c is doing
    stock             \* the inventory.* events published so far

inventoryVars == <<reservations, call, stock>>

Statuses == {"active", "committed", "released"}
Operations == {"reserve", "commit", "release"}
Steps == {"idle", "start", "update", "ok", "missing", "error"}
Rows == 1 .. MaxReservations
RowType == [order : Orders, status : Statuses]
CallType == [op : Operations, order : Orders, row : Nat, step : Steps]

\* The event kinds a settled row is announced with, by operation.
Settled(op) == IF op = "commit" THEN "committed" ELSE "released"

\* A call without a request: nothing but its outcome is kept.
Outcome(result) == [op |-> "release", order |-> CHOOSE o \in Orders : TRUE,
                    row |-> 0, step |-> result]

-----------------------------------------------------------------------------
\* get_active_reservation_for_order: ORDER BY created_at DESC LIMIT 1.
ActiveRows(o) ==
    {i \in DOMAIN reservations :
        reservations[i].order = o /\ reservations[i].status = "active"}

NewestActive(o, row) ==
    IF ActiveRows(o) = {} THEN row = 0
    ELSE row \in ActiveRows(o) /\ \A i \in ActiveRows(o) : i <= row

\* _find_reservation returns row: by reservation_id first, whatever its
\* status; then the newest active reservation of the order; 0 is None.
FindReservation(o, id, row) ==
    IF id \in DOMAIN reservations THEN row = id ELSE NewestActive(o, row)

\* A plausible bug for the mutation runs: the WHERE clause forgets the status.
UpdatableAlways(row) == TRUE

\* The WHERE clause of both UPDATE statements: only an active row is touched.
Updatable(row) == row.status = "active"

-----------------------------------------------------------------------------
(* A request arrives.  id is the optional reservation_id of the body; the  *)
(* event handlers and the order service never send one.                    *)
Request(c, op, o, id) ==
    /\ call[c].step = "idle"
    /\ call' = [call EXCEPT ![c] =
                    [op |-> op, order |-> o, row |-> id, step |-> "start"]]
    /\ UNCHANGED <<reservations, stock>>

(* reserve_inventory and handle_order_created: one INSERT with status      *)
(* 'active', then inventory.reserved is published (best effort).  What     *)
(* comes between the two (a SELECT of the row) may raise: the row stays.   *)
CreateReservation(c) ==
    /\ call[c].step = "start"
    /\ call[c].op = "reserve"
    /\ Len(reservations) < MaxReservations
    /\ reservations' = Append(reservations,
                              [order |-> call[c].order, status |-> "active"])
    /\ \/ /\ call' = [call EXCEPT ![c] = Outcome("ok")]
          /\ stock' \in {stock, stock \cup {[kind |-> "reserved",
                                             row |-> Len(reservations) + 1]}}
       \/ /\ call' = [call EXCEPT ![c] = Outcome("error")]
          /\ UNCHANGED stock

(* The lookup of commit and release.  Nothing found: commit raises         *)
(* LookupError (the handler only warns), release reports success.          *)
LookUp(c) ==
    /\ call[c].step = "start"
    /\ call[c].op # "reserve"
    /\ \E row \in 0 .. Len(reservations) :
        /\ FindReservation(call[c].order, call[c].row, row)
        /\ call' = [call EXCEPT ![c] =
               IF row # 0 THEN [@ EXCEPT !.row = row, !.step = "update"]
               ELSE Outcome(IF call[c].op = "commit" THEN "missing" ELSE "ok")]
    /\ UNCHANGED <<reservations, stock>>

\* A plausible bug for the mutation runs: the event goes out, the row stays.
SettleEventOnly(c) ==
    /\ call[c].step = "update"
    /\ stock' = stock \cup {[kind |-> Settled(call[c].op), row |-> call[c].row]}
    /\ call' = [call EXCEPT ![c] = Outcome("ok")]
    /\ UNCHANGED reservations

(* The UPDATE of commit and release.  It may match no row; the event is    *)
(* published (best effort) all the same.  What comes between the two (a    *)
(* SELECT, the conversion of the items) may raise: the row stays settled.  *)
Settle(c) ==
    /\ call[c].step = "update"
    /\ LET i == call[c].row
           status == Settled(call[c].op)
       IN  /\ reservations' =
                  IF Updatable(reservations[i])
                  THEN [reservations EXCEPT ![i].status = status]
                  ELSE reservations
           /\ \/ /\ call' = [call EXCEPT ![c] = Outcome("ok")]
                 /\ stock' \in {stock, stock \cup {[kind |-> status, row |-> i]}}
              \/ /\ call' = [call EXCEPT ![c] = Outcome("error")]
                 /\ UNCHANGED stock

(* A statement raises before it did anything: HTTP 500, or the handler     *)
(* logs the error.                                                         *)
RepositoryError(c) ==
    /\ call[c].step \in {"start", "update"}
    /\ call' = [call EXCEPT ![c] = Outcome("error")]
    /\ UNCHANGED <<reservations, stock>>

Return(c) ==
    /\ call[c].step \in {"ok", "missing", "error"}
    /\ call' = [call EXCEPT ![c] = Outcome("idle")]
    /\ UNCHANGED <<reservations, stock>>

-----------------------------------------------------------------------------
Init ==
    /\ reservations = <<>>
    /\ call = [c \in Calls |-> Outcome("idle")]
    /\ stock = {}

ServerStep(c) ==
    \/ CreateReservation(c)
    \/ LookUp(c)
    \/ Settle(c)
    \/ RepositoryError(c)

Next ==
    \E c \in Calls :
        \/ \E op \in Operations, o \in Orders, id \in 0 .. Len(reservations) :
               Request(c, op, o, id)
        \/ ServerStep(c)
        \/ Return(c)

Spec == Init /\ [][Next]_inventoryVars

-----------------------------------------------------------------------------
\* Type invariant; in particular a request that reached its UPDATE statement
\* holds the index of a row that exists.
TypeOK ==
    /\ reservations \in Seq(RowType)
    /\ Len(reservations) <= MaxReservations
    /\ call \in [Calls -> CallType]
    /\ stock \subseteq [kind : {"reserved", "committed", "released"}, row : Rows]
    /\ \A c \in Calls : call[c].step = "update" => call[c].row \in DOMAIN reservations

\* A reservation leaves 'active' once: however a commit and a release of the
\* same row interleave between their lookup and their UPDATE, the one that
\* comes second changes nothing (the "AND status = 'active'" of both).
SettledIsFinal ==
    [][\A i \in DOMAIN reservations :
          reservations[i].status # "active" =>
              /\ i \in DOMAIN reservations'
              /\ reservations'[i] = reservations[i]]_inventoryVars

\* A published inventory.committed or inventory.released event is never about
\* stock still held: its row exists and has left 'active'.
AnnouncedIsSettled ==
    \A e \in stock : e.kind # "reserved" =>
        /\ e.row \in DOMAIN reservations
        /\ reservations[e.row].status # "active"

\* What the design says of the events: inventory.committed is published after
\* the reservation was committed, inventory.released after it was released.
\* The code publishes them even when the UPDATE matched no row.
EventsTellTheStatus ==
    \A e \in stock : e.kind # "reserved" => reservations[e.row].status = e.kind

=============================================================================
