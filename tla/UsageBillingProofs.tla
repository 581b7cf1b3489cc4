------------------------- MODULE UsageBillingProofs -------------------------
(***************************************************************************)
(* Proofs about UsageBilling, for any number of replicas, events, keys,    *)
(* prices, deliveries and faults: its types, that a completed claim stays  *)
(* completed, that the billing records tell what was paid, that a second   *)
(* charge for an event has a fault to explain it, and that what left a     *)
(* source of funds is what the events were charged.                        *)
(***************************************************************************)
EXTENDS UsageBilling, SumTheorems

\* A handler at one of these steps has written a record and still has to
\* update it.
RowSteps == {"charge", "paid", "unpaid", "payment"}

\* What a handler knows of its record.  It may have been paid before an
\* "unpaid" only if the answer was lost.
Knows(w) ==
    work[w].step \in RowSteps =>
        /\ Row(w).key = KeyOf(w)
        /\ Row(w).status = "processing"
        /\ work[w].step = "charge" => Row(w).method \in Sources /\ ~Row(w).paid
        /\ work[w].step = "paid" => Row(w).paid
        /\ work[w].step = "unpaid" => (Row(w).paid => blame[Row(w).key] > 0)
        /\ work[w].step = "payment" => Row(w).method = "payment"

\* No two handlers are at the same record.
OwnRows ==
    \A v, w \in Replicas :
        /\ work[v].step \in RowSteps /\ work[w].step \in RowSteps
        /\ work[v].row = work[w].row
        => v = w

RowsInv == (\A w \in Replicas : Knows(w)) /\ OwnRows /\ RecordsTellTheTruth

BillingInv == TypeOK /\ RowsInv

-----------------------------------------------------------------------------
\* The key of an event that is being handled.
LEMMA KeyOfType ==
    ASSUME TypeOK, NEW w \in Replicas, work[w].step # "idle"
    PROVE  work[w].event \in Events /\ KeyOf(w) \in Keys
  BY DEF TypeOK, KeyOf, Keys

\* A charge is a number of half credits.
LEMMA ToChargeType ==
    ASSUME NEW record \in Record PROVE ToCharge(record) \in Nat
  <1>1. record.total \in Nat
    BY DEF Record
  <1>2. CASE record.method = "wallet"
    BY <1>1, <1>2 DEF ToCharge
  <1>3. CASE record.method # "wallet" /\ record.total < 2
    BY <1>1, <1>3 DEF ToCharge
  <1>4. CASE record.method # "wallet" /\ ~(record.total < 2)
    BY <1>1, <1>4 DEF ToCharge
  <1> QED
    BY <1>2, <1>3, <1>4

LEMMA OutcomeIs ==
    /\ DOMAIN Outcome = {"paid", "unpaid", "payment"}
    /\ Outcome["paid"] = "completed"
    /\ Outcome["unpaid"] = "failed"
    /\ Outcome["payment"] = "pending"
  BY DEF Outcome

LEMMA MethodIs ==
    ASSUME NEW e, NEW balance PROVE Method(e, balance) \in Sources \cup {"payment"}
  BY DEF Method, Sources

\* Ghost counters only grow.
LEMMA BlameGrows ==
    ASSUME TypeOK, blame' = blame \/ \E k \in Keys : Blame(k)
    PROVE  /\ blame' \in [Keys -> Nat]
           /\ \A j \in Keys : blame'[j] >= blame[j]
  <1>1. blame \in [Keys -> Nat]
    BY DEF TypeOK
  <1>2. CASE blame' = blame
    BY <1>1, <1>2
  <1>3. ASSUME NEW k \in Keys, Blame(k)
        PROVE  blame' \in [Keys -> Nat] /\ \A j \in Keys : blame'[j] >= blame[j]
    <2>1. blame' = [blame EXCEPT ![k] = blame[k] + 1]
      BY <1>3 DEF Blame
    <2>2. blame[k] + 1 \in Nat /\ blame[k] + 1 >= blame[k]
      BY <1>1
    <2> QED
      BY <1>1, <2>1, <2>2
  <1> QED
    BY <1>2, <1>3

LEMMA FaultType == ASSUME TypeOK, Fault PROVE faults' \in 0..MaxFaults
  BY BillingAssumption DEF TypeOK, Fault

\* The row that a handler updates is a record.
LEMMA RowType ==
    ASSUME TypeOK, NEW w \in Replicas, work[w].step \in RowSteps
    PROVE  work[w].row \in DOMAIN records /\ Row(w) \in Record
  BY DEF TypeOK, RowSteps, Row

-----------------------------------------------------------------------------
\* The parts of the type invariant that most steps are about: the handlers, and
\* what they write.
WorkType ==
    /\ work \in [Replicas -> Work]
    /\ \A w \in Replicas :
        /\ work[w].step # "idle" => work[w].event \in Events
        /\ work[w].step \in RowSteps => work[w].row \in DOMAIN records

TableType ==
    /\ claim \in [Keys -> [status : ClaimStatus, stale : BOOLEAN]]
    /\ records \in Seq(Record)
    /\ funds \in [Sources -> Nat]
    /\ charges \in [Keys -> Nat]
    /\ blame \in [Keys -> Nat]

MemoryType ==
    /\ delivered \in 0..MaxDeliveries
    /\ processed \in [Replicas -> SUBSET (Events \cup Keys)]
    /\ lock \in [Events -> Replicas \cup {Nobody}]
    /\ cached \subseteq Events
    /\ faults \in 0..MaxFaults

LEMMA TypeParts == TypeOK <=> WorkType /\ TableType /\ MemoryType
  BY DEF TypeOK, WorkType, TableType, MemoryType, RowSteps

LEMMA NextParts == TypeOK' <=> (WorkType /\ TableType /\ MemoryType)'
  BY DEF TypeOK, WorkType, TableType, MemoryType, RowSteps

\* A handler goes on with its event.
LEMMA GoType ==
    ASSUME WorkType, NEW w \in Replicas, NEW s \in Steps, Go(w, s),
           work[w].step # "idle", DOMAIN records \subseteq DOMAIN records',
           s \in RowSteps => work[w].row \in DOMAIN records
    PROVE  WorkType'
  <1>1. work[w] \in Work /\ work' = [work EXCEPT ![w] = [work[w] EXCEPT !.step = s]]
    BY DEF WorkType, Go
  <1>2. [work[w] EXCEPT !.step = s] \in Work
    BY <1>1 DEF Work
  <1>3. [work[w] EXCEPT !.step = s].event = work[w].event
        /\ [work[w] EXCEPT !.step = s].row = work[w].row
        /\ [work[w] EXCEPT !.step = s].step = s
    BY <1>1 DEF Work
  <1>4. work' \in [Replicas -> Work]
    BY <1>1, <1>2 DEF WorkType
  <1>5. ASSUME NEW v \in Replicas
        PROVE  /\ work'[v].step # "idle" => work'[v].event \in Events
               /\ work'[v].step \in RowSteps => work'[v].row \in DOMAIN records'
    BY <1>1, <1>3 DEF WorkType
  <1> QED
    BY <1>4, <1>5 DEF WorkType

\* A handler ends, or is lost.
LEMMA IdleType ==
    ASSUME WorkType, NEW w \in Replicas, work' = [work EXCEPT ![w] = Idle],
           DOMAIN records \subseteq DOMAIN records'
    PROVE  WorkType'
  <1>1. Idle \in Work /\ Idle.step = "idle"
    BY DEF Idle, Work, Steps
  <1>2. work' \in [Replicas -> Work]
    BY <1>1 DEF WorkType
  <1>3. ASSUME NEW v \in Replicas
        PROVE  /\ work'[v].step # "idle" => work'[v].event \in Events
               /\ work'[v].step \in RowSteps => work'[v].row \in DOMAIN records'
    BY <1>1 DEF WorkType, RowSteps
  <1> QED
    BY <1>2, <1>3 DEF WorkType

LEMMA LeaveType ==
    ASSUME WorkType, MemoryType, NEW w \in Replicas, Leave(w), UNCHANGED records
    PROVE  WorkType' /\ lock' \in [Events -> Replicas \cup {Nobody}]
  <1>1. WorkType'
    BY IdleType DEF Leave
  <1>2. lock' \in [Events -> Replicas \cup {Nobody}]
    BY DEF Leave, Unlock, MemoryType
  <1> QED
    BY <1>1, <1>2

\* A claim keeps its form when one of its columns is written.
LEMMA ClaimType ==
    ASSUME claim \in [Keys -> [status : ClaimStatus, stale : BOOLEAN]], NEW k \in Keys,
           NEW s \in ClaimStatus,
           \/ claim' = [claim EXCEPT ![k].status = s]
           \/ claim' = [claim EXCEPT ![k].stale = TRUE]
           \/ claim' = [claim EXCEPT ![k] = [status |-> s, stale |-> FALSE]]
           \/ claim' = claim
    PROVE  claim' \in [Keys -> [status : ClaimStatus, stale : BOOLEAN]]
  <1> DEFINE C == [status : ClaimStatus, stale : BOOLEAN]
  <1>1. claim[k] \in C
    OBVIOUS
  <1>2. /\ [claim[k] EXCEPT !.status = s] \in C
        /\ [claim[k] EXCEPT !.stale = TRUE] \in C
        /\ [status |-> s, stale |-> FALSE] \in C
    BY <1>1
  <1> HIDE DEF C
  <1>3. ASSUME NEW c \in C, claim' = [claim EXCEPT ![k] = c]
        PROVE  claim' \in [Keys -> C]
    BY <1>3 DEF C
  <1> QED
    BY <1>2, <1>3 DEF C

LEMMA RememberType ==
    ASSUME MemoryType, NEW w \in Replicas, NEW ids \in SUBSET (Events \cup Keys),
           Remember(w, ids)
    PROVE  processed' \in [Replicas -> SUBSET (Events \cup Keys)]
  BY DEF MemoryType, Remember

\* A record is added, or a column of one is written.
LEMMA AppendType ==
    ASSUME TypeOK, NEW w \in Replicas, work[w].step # "idle", NEW total \in Nat,
           NEW method \in Methods, NEW status \in RecordStatus,
           NewRecord(w, total, method, status)
    PROVE  /\ records' \in Seq(Record)
           /\ Len(records') = Len(records) + 1
           /\ DOMAIN records \subseteq DOMAIN records'
           /\ \A i \in DOMAIN records : records'[i] = records[i]
           /\ records'[Len(records) + 1] =
                [key |-> KeyOf(w), total |-> total, method |-> method,
                 status |-> status, paid |-> FALSE]
  <1> DEFINE r == [key |-> KeyOf(w), total |-> total, method |-> method,
                   status |-> status, paid |-> FALSE]
  <1>1. r \in Record
    BY KeyOfType DEF Record
  <1>2. records \in Seq(Record) /\ records' = Append(records, r)
    BY DEF TypeOK, NewRecord
  <1> HIDE DEF r
  <1>3. /\ records' \in Seq(Record)
        /\ Len(records') = Len(records) + 1
        /\ \A i \in 1..Len(records) : records'[i] = records[i]
        /\ records'[Len(records) + 1] = r
    BY <1>1, <1>2
  <1>4. DOMAIN records = 1..Len(records) /\ DOMAIN records' = 1..Len(records')
        /\ Len(records) \in Nat
    BY <1>2, <1>3
  <1> QED
    BY <1>3, <1>4 DEF r

LEMMA WriteType ==
    ASSUME TypeOK, NEW i \in DOMAIN records, NEW r \in Record,
           records' = [records EXCEPT ![i] = r]
    PROVE  /\ records' \in Seq(Record)
           /\ DOMAIN records' = DOMAIN records
           /\ records'[i] = r
           /\ \A j \in DOMAIN records : j # i => records'[j] = records[j]
  <1>1. records \in Seq(Record)
    BY DEF TypeOK
  <1> QED
    BY <1>1

\* The charge takes no more than there is.
LEMMA TakeType ==
    ASSUME TypeOK, NEW w \in Replicas, work[w].step = "charge",
           Row(w).method \in Sources, Covered(w), TakeCredits(w)
    PROVE  /\ funds' \in [Sources -> Nat]
           /\ charges' \in [Keys -> Nat]
           /\ [Row(w) EXCEPT !.paid = TRUE] \in Record
           /\ records' = [records EXCEPT ![work[w].row] = [Row(w) EXCEPT !.paid = TRUE]]
  <1>1. work[w].row \in DOMAIN records /\ Row(w) \in Record
    BY RowType DEF RowSteps
  <1>2. ToCharge(Row(w)) \in Nat
    BY <1>1, ToChargeType
  <1>3. funds \in [Sources -> Nat] /\ charges \in [Keys -> Nat]
    BY DEF TypeOK
  <1>4. funds[Row(w).method] - ToCharge(Row(w)) \in Nat
    BY <1>2, <1>3 DEF Covered
  <1>5. funds' = [funds EXCEPT ![Row(w).method] = funds[Row(w).method] - ToCharge(Row(w))]
    BY DEF TakeCredits
  <1>6. charges' = [charges EXCEPT ![KeyOf(w)] = charges[KeyOf(w)] + 1]
        /\ KeyOf(w) \in Keys
    BY KeyOfType DEF TakeCredits
  <1>7. [Row(w) EXCEPT !.paid = TRUE] \in Record
    BY <1>1 DEF Record
  <1>8. records' = [records EXCEPT ![work[w].row] = [Row(w) EXCEPT !.paid = TRUE]]
    BY DEF TakeCredits, Row
  <1>9. funds' \in [Sources -> Nat]
    BY <1>3, <1>4, <1>5
  <1>10. charges' \in [Keys -> Nat]
    BY <1>3, <1>6
  <1> QED
    BY <1>7, <1>8, <1>9, <1>10

-----------------------------------------------------------------------------
\* A step that writes no record, after which nobody is at a record anew.
LEMMA QuietRows ==
    ASSUME BillingInv, UNCHANGED records,
           \A k \in Keys : blame'[k] >= blame[k],
           blame' \in [Keys -> Nat],
           \A v \in Replicas : work'[v].step \in RowSteps => work'[v] = work[v]
    PROVE  RowsInv'
  <1>1. TypeOK /\ blame \in [Keys -> Nat]
    BY DEF BillingInv, TypeOK
  <1>2. ASSUME NEW i \in DOMAIN records PROVE records[i].key \in Keys
    <2>1. records \in Seq(Record)
      BY <1>1 DEF TypeOK
    <2>2. records[i] \in Record
      BY <2>1
    <2> QED
      BY <2>2 DEF Record
  <1>3. ASSUME NEW v \in Replicas PROVE Knows(v)'
    <2>0. CASE work'[v].step \notin RowSteps
      BY <2>0 DEF Knows
    <2> SUFFICES ASSUME work'[v].step \in RowSteps PROVE Knows(v)'
      BY <2>0
    <2>1. work'[v] = work[v] /\ work[v].step \in RowSteps /\ Knows(v)
      BY DEF BillingInv, RowsInv
    <2>2. Row(v)' = Row(v) /\ KeyOf(v)' = KeyOf(v)
      BY <2>1 DEF Row, KeyOf
    <2>3. Row(v).key \in Keys
      BY <1>1, <1>2, <2>1, RowType DEF Row
    <2>4. blame'[Row(v).key] >= blame[Row(v).key] /\ blame[Row(v).key] \in Nat
          /\ blame'[Row(v).key] \in Nat
      BY <1>1, <2>3
    <2> QED
      BY <2>1, <2>2, <2>4 DEF Knows
  <1>4. OwnRows'
    <2> SUFFICES ASSUME NEW u \in Replicas, NEW v \in Replicas,
                        work'[u].step \in RowSteps, work'[v].step \in RowSteps,
                        work'[u].row = work'[v].row
                 PROVE  u = v
      BY DEF OwnRows
    <2>1. work'[u] = work[u] /\ work'[v] = work[v]
      OBVIOUS
    <2> QED
      BY <2>1 DEF BillingInv, RowsInv, OwnRows
  <1>5. RecordsTellTheTruth'
    <2> SUFFICES ASSUME NEW i \in DOMAIN records, records[i].method \in Sources
                 PROVE  /\ records[i].status = "completed" => records[i].paid
                        /\ records[i].status = "failed" /\ records[i].paid
                             => blame'[records[i].key] > 0
      BY DEF RecordsTellTheTruth
    <2>1. /\ blame'[records[i].key] >= blame[records[i].key]
          /\ blame[records[i].key] \in Nat /\ blame'[records[i].key] \in Nat
      BY <1>1, <1>2
    <2> QED
      BY <2>1 DEF BillingInv, RowsInv, RecordsTellTheTruth
  <1> QED
    BY <1>3, <1>4, <1>5 DEF RowsInv

\* A new record is not claimed to be paid, and belongs to the handler that
\* wrote it.
LEMMA NewRows ==
    ASSUME BillingInv, NEW w \in Replicas, work[w].step # "idle", NEW total \in Nat,
           NEW method \in Methods, NEW status \in RecordStatus,
           NewRecord(w, total, method, status), UNCHANGED blame,
           method \in Sources => status = "processing",
           \A v \in Replicas \ {w} : work'[v] = work[v],
           work'[w].step \in RowSteps =>
               /\ work'[w].row = Len(records) + 1
               /\ work'[w].event = work[w].event
               /\ status = "processing"
               /\ \/ work'[w].step = "charge" /\ method \in Sources
                  \/ work'[w].step = "payment" /\ method = "payment"
    PROVE  RowsInv'
  <1> DEFINE r == [key |-> KeyOf(w), total |-> total, method |-> method,
                   status |-> status, paid |-> FALSE]
             n == Len(records) + 1
  <1>1. TypeOK
    BY DEF BillingInv
  <1>2. /\ DOMAIN records \subseteq DOMAIN records'
        /\ \A i \in DOMAIN records : records'[i] = records[i]
        /\ records'[n] = r
    BY <1>1, AppendType
  <1>3. DOMAIN records' = DOMAIN records \cup {n} /\ n \notin DOMAIN records
    <2>1. records \in Seq(Record) /\ records' \in Seq(Record) /\ Len(records') = n
      BY <1>1, AppendType DEF TypeOK
    <2>2. DOMAIN records = 1..Len(records) /\ DOMAIN records' = 1..n /\ Len(records) \in Nat
      BY <2>1
    <2> QED
      BY <2>2
  <1>4. /\ r.key = KeyOf(w) /\ r.method = method /\ r.status = status /\ r.paid = FALSE
    OBVIOUS
  <1> HIDE DEF r, n
  <1>5. ASSUME NEW v \in Replicas, v # w, work'[v].step \in RowSteps
        PROVE  /\ work[v].step \in RowSteps /\ work'[v] = work[v]
               /\ work[v].row \in DOMAIN records
               /\ Row(v)' = Row(v) /\ KeyOf(v)' = KeyOf(v)
    <2>1. work'[v] = work[v] /\ work[v].step \in RowSteps
      BY <1>5
    <2>2. work[v].row \in DOMAIN records
      BY <1>1, <2>1, RowType
    <2> QED
      BY <1>2, <2>1, <2>2 DEF Row, KeyOf
  <1>6. ASSUME work'[w].step \in RowSteps
        PROVE  work'[w].row = n /\ Row(w)' = r /\ KeyOf(w)' = KeyOf(w)
    BY <1>2, <1>6 DEF Row, KeyOf, n
  <1>7. ASSUME NEW v \in Replicas PROVE Knows(v)'
    <2>1. CASE v = w
      BY <1>4, <1>6, <2>1 DEF Knows
    <2>2. CASE v # w
      BY <1>5, <2>2 DEF Knows, BillingInv, RowsInv
    <2> QED
      BY <2>1, <2>2
  <1>8. OwnRows'
    <2> SUFFICES ASSUME NEW u \in Replicas, NEW v \in Replicas,
                        work'[u].step \in RowSteps, work'[v].step \in RowSteps,
                        work'[u].row = work'[v].row
                 PROVE  u = v
      BY DEF OwnRows
    <2>1. CASE u = w \/ v = w
      BY <1>3, <1>5, <1>6, <2>1
    <2>2. CASE u # w /\ v # w
      BY <1>5, <2>2 DEF OwnRows, BillingInv, RowsInv
    <2> QED
      BY <2>1, <2>2
  <1>9. RecordsTellTheTruth'
    <2> SUFFICES ASSUME NEW i \in DOMAIN records', records'[i].method \in Sources
                 PROVE  /\ records'[i].status = "completed" => records'[i].paid
                        /\ records'[i].status = "failed" /\ records'[i].paid
                             => blame'[records'[i].key] > 0
      BY DEF RecordsTellTheTruth
    <2>1. CASE i = n
      BY <1>2, <1>4, <2>1
    <2>2. CASE i \in DOMAIN records
      BY <1>2, <2>2 DEF RecordsTellTheTruth, BillingInv, RowsInv
    <2> QED
      BY <1>3, <2>1, <2>2
  <1> QED
    BY <1>7, <1>8, <1>9 DEF RowsInv

\* A handler writes a column of the record that is its own.
LEMMA WriteRows ==
    ASSUME BillingInv, NEW w \in Replicas, work[w].step \in RowSteps,
           NEW r \in Record, r.key = Row(w).key,
           records' = [records EXCEPT ![work[w].row] = r],
           blame' \in [Keys -> Nat], \A k \in Keys : blame'[k] >= blame[k],
           r.method \in Sources =>
               /\ r.status = "completed" => r.paid
               /\ r.status = "failed" /\ r.paid => blame'[r.key] > 0,
           \A v \in Replicas \ {w} : work'[v] = work[v],
           work'[w].row = work[w].row, work'[w].event = work[w].event,
           work'[w].step \in RowSteps =>
               /\ r.status = "processing"
               /\ \/ work'[w].step = "paid" /\ r.paid
                  \/ work'[w].step = "unpaid" /\ (r.paid => blame'[r.key] > 0)
    PROVE  RowsInv'
  <1> DEFINE n == work[w].row
  <1>1. TypeOK /\ records \in Seq(Record) /\ blame \in [Keys -> Nat]
    BY DEF BillingInv, TypeOK
  <1>2. n \in DOMAIN records
    BY <1>1, RowType
  <1>3. /\ DOMAIN records' = DOMAIN records
        /\ records'[n] = r
        /\ \A j \in DOMAIN records : j # n => records'[j] = records[j]
    BY <1>1, <1>2, WriteType
  <1>4. ASSUME NEW j \in DOMAIN records
        PROVE  /\ blame'[records[j].key] >= blame[records[j].key]
               /\ blame[records[j].key] \in Nat /\ blame'[records[j].key] \in Nat
    <2>1. records[j] \in Record
      BY <1>1
    <2>2. records[j].key \in Keys
      BY <2>1 DEF Record
    <2> QED
      BY <1>1, <2>2
  <1>5. ASSUME NEW v \in Replicas, v # w, work'[v].step \in RowSteps
        PROVE  /\ work[v].step \in RowSteps /\ work'[v] = work[v]
               /\ work[v].row \in DOMAIN records /\ work[v].row # n
               /\ Row(v)' = Row(v) /\ KeyOf(v)' = KeyOf(v)
    <2>1. work'[v] = work[v] /\ work[v].step \in RowSteps
      BY <1>5
    <2>2. work[v].row \in DOMAIN records
      BY <1>1, <2>1, RowType
    <2>3. work[v].row # n
      BY <1>5, <2>1 DEF BillingInv, RowsInv, OwnRows
    <2> QED
      BY <1>3, <2>1, <2>2, <2>3 DEF Row, KeyOf
  <1>6. Row(w)' = r /\ KeyOf(w)' = KeyOf(w)
    BY <1>3 DEF Row, KeyOf
  <1>7. Row(w).key = KeyOf(w)
    BY DEF BillingInv, RowsInv, Knows
  <1>8. ASSUME NEW v \in Replicas PROVE Knows(v)'
    <2>1. CASE v = w
      BY <1>6, <1>7, <2>1 DEF Knows
    <2>2. CASE v # w /\ work'[v].step \in RowSteps
      <3>1. Knows(v)
        BY DEF BillingInv, RowsInv
      <3>2. /\ blame'[Row(v).key] >= blame[Row(v).key]
            /\ blame[Row(v).key] \in Nat /\ blame'[Row(v).key] \in Nat
        BY <1>4, <1>5, <2>2 DEF Row
      <3> QED
        BY <1>5, <2>2, <3>1, <3>2 DEF Knows
    <2>3. CASE work'[v].step \notin RowSteps
      BY <2>3 DEF Knows
    <2> QED
      BY <2>1, <2>2, <2>3
  <1>9. OwnRows'
    <2> SUFFICES ASSUME NEW u \in Replicas, NEW v \in Replicas,
                        work'[u].step \in RowSteps, work'[v].step \in RowSteps,
                        work'[u].row = work'[v].row
                 PROVE  u = v
      BY DEF OwnRows
    <2>1. CASE u = w \/ v = w
      BY <1>5, <2>1
    <2>2. CASE u # w /\ v # w
      BY <1>5, <2>2 DEF OwnRows, BillingInv, RowsInv
    <2> QED
      BY <2>1, <2>2
  <1>10. RecordsTellTheTruth'
    <2> SUFFICES ASSUME NEW i \in DOMAIN records, records'[i].method \in Sources
                 PROVE  /\ records'[i].status = "completed" => records'[i].paid
                        /\ records'[i].status = "failed" /\ records'[i].paid
                             => blame'[records'[i].key] > 0
      BY <1>3 DEF RecordsTellTheTruth
    <2>1. CASE i = n
      BY <1>3, <2>1
    <2>2. CASE i # n
      BY <1>3, <1>4, <2>2 DEF RecordsTellTheTruth, BillingInv, RowsInv
    <2> QED
      BY <2>1, <2>2
  <1> QED
    BY <1>8, <1>9, <1>10 DEF RowsInv

-----------------------------------------------------------------------------
\* What going on with an event, or leaving it, does to the other handlers.
LEMMA GoFacts ==
    ASSUME TypeOK, NEW w \in Replicas, NEW s, Go(w, s)
    PROVE  /\ work'[w].step = s
           /\ work'[w].row = work[w].row /\ work'[w].event = work[w].event
           /\ \A v \in Replicas \ {w} : work'[v] = work[v]
  <1>1. work \in [Replicas -> Work] /\ work[w] \in Work
    BY DEF TypeOK
  <1> QED
    BY <1>1 DEF Go, Work

LEMMA IdleFacts ==
    ASSUME TypeOK, NEW w \in Replicas, work' = [work EXCEPT ![w] = Idle]
    PROVE  /\ work'[w].step \notin RowSteps
           /\ \A v \in Replicas \ {w} : work'[v] = work[v]
  BY DEF TypeOK, Idle, RowSteps

\* A step after which one handler at most has moved, and not to a record.
LEMMA QuietStep ==
    ASSUME BillingInv, UNCHANGED records, blame' = blame \/ \E k \in Keys : Blame(k),
           NEW w \in Replicas, \A v \in Replicas \ {w} : work'[v] = work[v],
           work'[w].step \notin RowSteps
    PROVE  RowsInv'
  <1>1. blame' \in [Keys -> Nat] /\ \A j \in Keys : blame'[j] >= blame[j]
    BY BlameGrows DEF BillingInv
  <1>2. \A v \in Replicas : work'[v].step \in RowSteps => work'[v] = work[v]
    OBVIOUS
  <1> QED
    BY <1>1, <1>2, QuietRows

\* The same, types included: the handler only writes claims, the memory of its
\* replica and the lock.
LEMMA QuietGo ==
    ASSUME BillingInv, UNCHANGED <<delivered, records, funds, charges>>,
           cached' = cached \/ \E e \in Events : cached' = cached \cup {e},
           blame' = blame \/ \E k \in Keys : Blame(k),
           NEW w \in Replicas, work[w].step # "idle",
           \/ \E s \in Steps \ RowSteps : Go(w, s) /\ UNCHANGED lock
           \/ Leave(w),
           claim' \in [Keys -> [status : ClaimStatus, stale : BOOLEAN]],
           processed' = processed \/ \E ids \in SUBSET (Events \cup Keys) : Remember(w, ids),
           faults' = faults \/ Fault
    PROVE  BillingInv'
  <1>1. TypeOK /\ WorkType /\ TableType /\ MemoryType
    BY TypeParts DEF BillingInv
  <1>2. WorkType' /\ lock' \in [Events -> Replicas \cup {Nobody}]
    <2>1. ASSUME NEW t \in Steps \ RowSteps, Go(w, t), UNCHANGED lock
          PROVE  WorkType' /\ lock' \in [Events -> Replicas \cup {Nobody}]
      BY <1>1, <2>1, GoType DEF MemoryType
    <2>2. CASE Leave(w)
      BY <1>1, <2>2, LeaveType
    <2> QED
      BY <2>1, <2>2
  <1>4. blame' \in [Keys -> Nat]
    BY <1>1, BlameGrows
  <1>5. TableType'
    BY <1>1, <1>4 DEF TableType
  <1>6. processed' \in [Replicas -> SUBSET (Events \cup Keys)]
    BY <1>1, RememberType DEF MemoryType
  <1>7. faults' \in 0..MaxFaults
    BY <1>1, FaultType DEF MemoryType
  <1>8. MemoryType'
    BY <1>1, <1>2, <1>6, <1>7 DEF MemoryType
  <1>9. TypeOK'
    BY <1>2, <1>5, <1>8, NextParts
  <1>10. work'[w].step \notin RowSteps /\ \A v \in Replicas \ {w} : work'[v] = work[v]
    <2>1. ASSUME NEW t \in Steps \ RowSteps, Go(w, t)
          PROVE  work'[w].step \notin RowSteps
                 /\ \A v \in Replicas \ {w} : work'[v] = work[v]
      BY <1>1, <2>1, GoFacts
    <2>2. CASE Leave(w)
      BY <1>1, <2>2, IdleFacts DEF Leave
    <2> QED
      BY <2>1, <2>2
  <1>11. RowsInv'
    BY <1>10, QuietStep
  <1> QED
    BY <1>9, <1>11 DEF BillingInv

\* A handler adds a record.
LEMMA AppendStep ==
    ASSUME BillingInv, NEW w \in Replicas, work[w].step # "idle",
           work[w].event \in Events, NEW total \in Nat,
           NEW method \in Methods, NEW status \in RecordStatus,
           NewRecord(w, total, method, status),
           method \in Sources => status = "processing",
           \/ Go(w, "done")
           \/ /\ status = "processing" /\ method # "included"
              /\ work' = [work EXCEPT
                            ![w].row = Len(records) + 1,
                            ![w].step = IF method = "payment" THEN "payment" ELSE "charge"],
           UNCHANGED <<delivered, processed, lock, cached, claim, funds, charges, blame>>,
           faults' = faults \/ Fault
    PROVE  BillingInv'
  <1>1. TypeOK /\ WorkType /\ TableType /\ MemoryType /\ work[w] \in Work
    BY TypeParts DEF BillingInv, WorkType
  <1>2. /\ records' \in Seq(Record)
        /\ DOMAIN records \subseteq DOMAIN records'
        /\ Len(records) + 1 \in DOMAIN records'
    <2>1. records \in Seq(Record)
      BY <1>1 DEF TableType
    <2>2. records' \in Seq(Record) /\ Len(records') = Len(records) + 1
          /\ DOMAIN records \subseteq DOMAIN records'
      BY <1>1, AppendType
    <2> QED
      BY <2>1, <2>2
  <1>3. Len(records) + 1 \in Nat
    BY <1>1 DEF TableType
  <1> DEFINE s == IF method = "payment" THEN "payment" ELSE "charge"
             y == [work[w] EXCEPT !.row = Len(records) + 1]
             x == [y EXCEPT !.step = s]
  <1>6. faults' \in 0..MaxFaults
    BY <1>1, FaultType DEF MemoryType
  <1>4. CASE Go(w, "done")
    <2>1. WorkType'
      BY <1>1, <1>2, <1>4, GoType DEF Steps, RowSteps
    <2>2. work'[w].step = "done" /\ \A v \in Replicas \ {w} : work'[v] = work[v]
      BY <1>1, <1>4, GoFacts
    <2>3. RowsInv'
      BY <2>2, NewRows DEF RowSteps
    <2> QED
      BY <1>1, <1>2, <1>6, <2>1, <2>3, NextParts DEF BillingInv, TableType, MemoryType
  <1>5. CASE /\ status = "processing" /\ method # "included"
             /\ work' = [work EXCEPT ![w].row = Len(records) + 1, ![w].step = s]
    <2>1. work' = [work EXCEPT ![w] = x]
      BY <1>1, <1>5 DEF WorkType
    <2>2. s \in Steps /\ s \in {"charge", "payment"}
      BY DEF Steps
    <2>7. (s = "charge" /\ method \in Sources) \/ (s = "payment" /\ method = "payment")
      <3>1. CASE method = "payment"
        BY <3>1
      <3>2. CASE method # "payment"
        <4>1. method \in Sources
          BY <1>5, <3>2 DEF Methods, Sources
        <4>2. s = "charge"
          BY <3>2
        <4> QED
          BY <4>1, <4>2
      <3> QED
        BY <3>1, <3>2
    <2> HIDE DEF s
    <2>3. x \in Work /\ x.step = s /\ x.row = Len(records) + 1 /\ x.event = work[w].event
      <3>1. /\ y \in Work /\ y.row = Len(records) + 1 /\ y.event = work[w].event
        BY <1>1, <1>3 DEF Work
      <3> HIDE DEF y
      <3> QED
        BY <2>2, <3>1 DEF Work
    <2> HIDE DEF x
    <2>4. work'[w] = x /\ \A v \in Replicas \ {w} : work'[v] = work[v]
      BY <1>1, <2>1 DEF WorkType
    <2>5. work' \in [Replicas -> Work]
      BY <1>1, <2>1, <2>3 DEF WorkType
    <2>6. WorkType'
      BY <1>1, <1>2, <2>3, <2>4, <2>5 DEF WorkType
    <2>8. RowsInv'
      BY <1>5, <2>3, <2>4, <2>7, NewRows
    <2> QED
      BY <1>1, <1>2, <1>6, <2>6, <2>8, NextParts DEF BillingInv, TableType, MemoryType
  <1> QED
    BY <1>4, <1>5

\* A handler writes a column of its record, or leaves the tables alone.
LEMMA WriteStep ==
    ASSUME BillingInv, NEW w \in Replicas, work[w].step \in RowSteps,
           NEW r \in Record, r.key = Row(w).key,
           records' = [records EXCEPT ![work[w].row] = r],
           blame' \in [Keys -> Nat], \A k \in Keys : blame'[k] >= blame[k],
           r.method \in Sources =>
               /\ r.status = "completed" => r.paid
               /\ r.status = "failed" /\ r.paid => blame'[r.key] > 0,
           NEW s \in Steps, Go(w, s),
           s \in RowSteps =>
               /\ r.status = "processing"
               /\ \/ s = "paid" /\ r.paid
                  \/ s = "unpaid" /\ (r.paid => blame'[r.key] > 0),
           funds' \in [Sources -> Nat], charges' \in [Keys -> Nat],
           UNCHANGED <<delivered, processed, lock, cached, claim>>,
           faults' = faults \/ Fault
    PROVE  BillingInv'
  <1>1. TypeOK /\ WorkType /\ TableType /\ MemoryType
    BY TypeParts DEF BillingInv
  <1>2. work[w].row \in DOMAIN records /\ work[w].step # "idle"
    BY <1>1, RowType DEF RowSteps
  <1>3. records' \in Seq(Record) /\ DOMAIN records' = DOMAIN records
    BY <1>1, <1>2, WriteType
  <1>4. WorkType'
    BY <1>1, <1>2, <1>3, GoType
  <1>5. /\ work'[w].step = s
        /\ work'[w].row = work[w].row /\ work'[w].event = work[w].event
        /\ \A v \in Replicas \ {w} : work'[v] = work[v]
    BY <1>1, GoFacts
  <1>6. RowsInv'
    BY <1>5, WriteRows
  <1>7. faults' \in 0..MaxFaults
    BY <1>1, FaultType DEF MemoryType
  <1> QED
    BY <1>1, <1>3, <1>4, <1>6, <1>7, NextParts DEF BillingInv, TableType, MemoryType

-----------------------------------------------------------------------------
\* A key is a key.
LEMMA KeyType == \A e \in Events : Key[e] \in Keys
  BY DEF Keys

LEMMA DeliverStep ==
    ASSUME BillingInv, NEW w \in Replicas, NEW e \in Events, Deliver(w, e)
    PROVE  BillingInv'
  <1>1. TypeOK /\ WorkType /\ TableType /\ MemoryType
    BY TypeParts DEF BillingInv
  <1>2. TableType'
    BY <1>1 DEF TableType, Deliver
  <1>3. delivered' \in 0..MaxDeliveries
    BY <1>1, BillingAssumption DEF MemoryType, Deliver
  <1> DEFINE x == [step |-> IF e \in Legacy THEN "bill" ELSE "claim", event |-> e, row |-> 0]
  <1>4. x \in Work /\ x.step \notin RowSteps /\ x.event = e
    BY DEF Work, Steps, RowSteps
  <1> HIDE DEF x
  <1>5. CASE UNCHANGED <<processed, lock, work>>
    <2>1. TypeOK'
      BY <1>1, <1>2, <1>3, <1>5, NextParts DEF WorkType, MemoryType, Deliver
    <2>2. RowsInv'
      BY <1>1, <1>5, QuietRows DEF Deliver, TypeOK
    <2> QED
      BY <2>1, <2>2 DEF BillingInv
  <1>6. CASE Remember(w, {e}) /\ UNCHANGED <<lock, work>>
    <2>1. processed' \in [Replicas -> SUBSET (Events \cup Keys)]
      BY <1>1, <1>6, RememberType
    <2>2. TypeOK'
      BY <1>1, <1>2, <1>3, <1>6, <2>1, NextParts DEF WorkType, MemoryType, Deliver
    <2>3. RowsInv'
      BY <1>1, <1>6, QuietRows DEF Deliver, TypeOK
    <2> QED
      BY <2>2, <2>3 DEF BillingInv
  <1>7. CASE /\ lock' = [lock EXCEPT ![e] = w]
             /\ work' = [work EXCEPT ![w] = x]
             /\ UNCHANGED processed
    <2>1. lock' \in [Events -> Replicas \cup {Nobody}]
      BY <1>1, <1>7 DEF MemoryType
    <2>2. work'[w] = x /\ \A v \in Replicas \ {w} : work'[v] = work[v]
      BY <1>1, <1>7 DEF WorkType
    <2>3. work' \in [Replicas -> Work]
      BY <1>1, <1>4, <1>7 DEF WorkType
    <2>4. WorkType'
      BY <1>1, <1>4, <2>2, <2>3 DEF WorkType, Deliver
    <2>5. TypeOK'
      BY <1>1, <1>2, <1>3, <1>7, <2>1, <2>4, NextParts DEF MemoryType, Deliver
    <2>6. RowsInv'
      BY <1>4, <2>2, QuietStep DEF Deliver
    <2> QED
      BY <2>5, <2>6 DEF BillingInv
  <1> QED
    BY <1>5, <1>6, <1>7 DEF Deliver, x

LEMMA ClaimStep ==
    ASSUME BillingInv, NEW w \in Replicas, Claim(w) PROVE BillingInv'
  <1>1. TypeOK /\ MemoryType /\ TableType /\ work[w].step # "idle"
    BY TypeParts DEF BillingInv, Claim, At
  <1>2. work[w].event \in Events /\ KeyOf(w) \in Keys
    BY <1>1, KeyOfType
  <1>3. "processing" \in ClaimStatus /\ "bill" \in Steps \ RowSteps
    BY DEF ClaimStatus, Steps, RowSteps
  <1>4. CASE /\ claim' = [claim EXCEPT ![KeyOf(w)] = [status |-> "processing", stale |-> FALSE]]
             /\ Go(w, "bill")
             /\ UNCHANGED <<processed, lock>>
    <2>1. claim' \in [Keys -> [status : ClaimStatus, stale : BOOLEAN]]
      BY <1>1, <1>2, <1>3, <1>4, ClaimType DEF TableType
    <2> QED
      BY <1>1, <1>3, <1>4, <2>1, QuietGo DEF Claim
  <1>5. CASE Remember(w, {work[w].event, KeyOf(w)}) /\ Leave(w) /\ UNCHANGED claim
    <2>1. {work[w].event, KeyOf(w)} \in SUBSET (Events \cup Keys)
      BY <1>2
    <2>2. claim' \in [Keys -> [status : ClaimStatus, stale : BOOLEAN]]
      BY <1>1, <1>5 DEF TableType
    <2> QED
      BY <1>1, <1>5, <2>1, <2>2, QuietGo DEF Claim
  <1> QED
    BY <1>4, <1>5 DEF Claim

LEMMA ClaimRaisesStep ==
    ASSUME BillingInv, NEW w \in Replicas, ClaimRaises(w) PROVE BillingInv'
  <1>1. TableType /\ work[w].step # "idle"
    BY TypeParts DEF BillingInv, ClaimRaises, At
  <1>2. "failed" \in Steps \ RowSteps
    BY DEF Steps, RowSteps
  <1>3. claim' \in [Keys -> [status : ClaimStatus, stale : BOOLEAN]]
    BY <1>1 DEF TableType, ClaimRaises
  <1> QED
    BY <1>1, <1>2, <1>3, QuietGo DEF ClaimRaises

LEMMA BillStep ==
    ASSUME BillingInv, NEW w \in Replicas,
           \/ BillExternally(w) \/ BillIncluded(w) \/ BillRefused(w)
           \/ \E known \in SUBSET Sources : Bill(w, known)
    PROVE  BillingInv'
  <1>1. TypeOK /\ TableType /\ work[w].step # "idle"
    BY TypeParts DEF BillingInv, BillExternally, BillIncluded, BillRefused, Bill, At
  <1>2. work[w].event \in Events /\ Price[work[w].event] \in Nat
    BY <1>1, KeyOfType, BillingAssumption
  <1>3. /\ "included" \in Methods /\ "included" \notin Sources /\ 0 \in Nat
        /\ "completed" \in RecordStatus /\ "processing" \in RecordStatus
    BY DEF Methods, Sources, RecordStatus
  <1>4. CASE BillExternally(w)
    BY <1>1, <1>2, <1>3, <1>4, AppendStep DEF BillExternally
  <1>5. CASE BillIncluded(w)
    BY <1>1, <1>2, <1>3, <1>5, AppendStep DEF BillIncluded
  <1>6. CASE BillRefused(w)
    <2>1. "failed" \in Steps \ RowSteps
      BY DEF Steps, RowSteps
    <2>2. claim' \in [Keys -> [status : ClaimStatus, stale : BOOLEAN]]
      BY <1>1, <1>6 DEF TableType, BillRefused
    <2> QED
      BY <1>1, <1>6, <2>1, <2>2, QuietGo DEF BillRefused
  <1>7. ASSUME NEW known \in SUBSET Sources, Bill(w, known) PROVE BillingInv'
    <2> DEFINE method == Method(work[w].event, Balances(known))
    <2>1. method \in Methods /\ method # "included"
      <3>1. method \in Sources \cup {"payment"}
        BY MethodIs
      <3> HIDE DEF method
      <3> QED
        BY <3>1, <1>3 DEF Methods
    <2>2. /\ NewRecord(w, Price[work[w].event], method, "processing")
          /\ work' = [work EXCEPT
                        ![w].row = Len(records) + 1,
                        ![w].step = IF method = "payment" THEN "payment" ELSE "charge"]
          /\ UNCHANGED <<delivered, processed, lock, cached, claim, funds, charges, blame>>
          /\ faults' = faults \/ Fault
      BY <1>7 DEF Bill
    <2> HIDE DEF method
    <2> QED
      BY <1>1, <1>2, <1>3, <2>1, <2>2, AppendStep
  <1> QED
    BY <1>4, <1>5, <1>6, <1>7

\* The service is asked for the credits: it has them and the answer arrives, it
\* has them not, or nobody knows.
LEMMA ChargeStep ==
    ASSUME BillingInv, NEW w \in Replicas, Charge(w) \/ ChargeFails(w)
    PROVE  BillingInv'
  <1>1. TypeOK /\ TableType /\ work[w].step = "charge" /\ work[w].step \in RowSteps
    BY TypeParts DEF BillingInv, Charge, ChargeFails, At, RowSteps
  <1>2. /\ work[w].row \in DOMAIN records /\ Row(w) \in Record
        /\ Row(w).key = KeyOf(w) /\ Row(w).status = "processing"
        /\ Row(w).method \in Sources /\ ~Row(w).paid
    BY <1>1, RowType DEF BillingInv, RowsInv, Knows
  <1>3. KeyOf(w) \in Keys /\ {"paid", "unpaid"} \subseteq Steps
    BY <1>1, KeyOfType DEF Steps
  <1>4. blame \in [Keys -> Nat]
    BY <1>1 DEF TableType
  <1> DEFINE r == [Row(w) EXCEPT !.paid = TRUE]
  <1>5. r.key = Row(w).key /\ r.status = "processing" /\ r.paid
    BY <1>2 DEF Record
  <1>6. UNCHANGED <<delivered, processed, lock, cached, claim>>
    BY DEF Charge, ChargeFails
  <1>7. CASE TakeCredits(w) /\ Covered(w)
    <2>1. /\ funds' \in [Sources -> Nat] /\ charges' \in [Keys -> Nat]
          /\ r \in Record /\ records' = [records EXCEPT ![work[w].row] = r]
      BY <1>1, <1>2, <1>7, TakeType
    <2> HIDE DEF r
    <2>2. CASE Go(w, "paid") /\ UNCHANGED <<blame, faults>>
      <3>1. \A k \in Keys : blame[k] >= blame[k]
        BY <1>4
      <3> QED
        BY <1>1, <1>3, <1>4, <1>5, <1>6, <2>1, <2>2, <3>1, WriteStep
    <2>3. CASE Go(w, "unpaid") /\ Blame(KeyOf(w)) /\ Fault
      <3>1. blame' \in [Keys -> Nat] /\ \A k \in Keys : blame'[k] >= blame[k]
        BY <1>1, <1>3, <2>3, BlameGrows
      <3>2. blame'[r.key] > 0
        BY <1>2, <1>3, <1>4, <1>5, <2>3 DEF Blame
      <3> QED
        BY <1>1, <1>3, <1>5, <1>6, <2>1, <2>3, <3>1, <3>2, WriteStep
    <2>4. \/ Go(w, "paid") /\ UNCHANGED <<blame, faults>>
          \/ Go(w, "unpaid") /\ Blame(KeyOf(w)) /\ Fault
      <3>1. records'[work[w].row].paid /\ ~records[work[w].row].paid
        <4>1. records'[work[w].row] = r
          BY <1>1, <1>2, <2>1, WriteType
        <4> QED
          BY <1>2, <1>5, <4>1 DEF Row
      <3>2. ~UNCHANGED records
        BY <3>1
      <3> QED
        BY <3>2 DEF Charge, ChargeFails
    <2> QED
      BY <2>2, <2>3, <2>4
  <1>8. CASE /\ UNCHANGED <<funds, records, charges, blame>> /\ Go(w, "unpaid")
             /\ faults' = faults \/ Fault
    <2>1. records' = [records EXCEPT ![work[w].row] = Row(w)]
      <3>1. records \in Seq(Record)
        BY <1>1 DEF TableType
      <3> QED
        BY <1>2, <1>8, <3>1 DEF Row
    <2>2. /\ blame' \in [Keys -> Nat] /\ \A k \in Keys : blame'[k] >= blame[k]
          /\ funds' \in [Sources -> Nat] /\ charges' \in [Keys -> Nat]
      BY <1>1, <1>4, <1>8 DEF TableType
    <2> QED
      BY <1>1, <1>2, <1>3, <1>6, <1>8, <2>1, <2>2, WriteStep
  <1> QED
    BY <1>7, <1>8 DEF Charge, ChargeFails

LEMMA UpdateRecordStep ==
    ASSUME BillingInv, NEW w \in Replicas, UpdateRecord(w)
    PROVE  BillingInv'
  <1>1. TypeOK /\ TableType
    BY TypeParts DEF BillingInv
  <1>2. work[w].step \in {"paid", "unpaid", "payment"} /\ work[w].step \in RowSteps
    BY OutcomeIs DEF UpdateRecord, RowSteps
  <1>3. work[w].row \in DOMAIN records /\ Row(w) \in Record /\ Knows(w)
    BY <1>1, <1>2, RowType DEF BillingInv, RowsInv
  <1> DEFINE o == Outcome[work[w].step]
             r == [Row(w) EXCEPT !.status = o]
             s == IF At(w, "paid") THEN "done" ELSE "failed"
  <1>4. o \in RecordStatus
    BY <1>2, OutcomeIs DEF RecordStatus
  <1>5. /\ work[w].step = "paid" => o = "completed"
        /\ work[w].step = "unpaid" => o = "failed"
        /\ work[w].step = "payment" => o = "pending"
    BY OutcomeIs
  <1>6. s \in Steps /\ s \notin RowSteps
    BY DEF Steps, RowSteps
  <1>7. Go(w, s) /\ UNCHANGED <<delivered, processed, lock, cached, claim, funds, charges,
                                blame, faults>>
    BY DEF UpdateRecord
  <1>8. records' = [records EXCEPT ![work[w].row] = r]
    BY DEF UpdateRecord, Row
  <1> HIDE DEF o, s
  <1>9. r \in Record /\ r.key = Row(w).key /\ r.status = o /\ r.paid = Row(w).paid
        /\ r.method = Row(w).method
    BY <1>3, <1>4 DEF Record
  <1> HIDE DEF r
  <1>10. r.method \in Sources =>
            /\ r.status = "completed" => r.paid
            /\ r.status = "failed" /\ r.paid => blame'[r.key] > 0
    BY <1>2, <1>3, <1>5, <1>7, <1>9 DEF Knows
  <1>11. /\ blame' \in [Keys -> Nat] /\ \A k \in Keys : blame'[k] >= blame[k]
         /\ funds' \in [Sources -> Nat] /\ charges' \in [Keys -> Nat]
    BY <1>1, <1>7 DEF TableType
  <1> QED
    BY <1>2, <1>6, <1>7, <1>8, <1>9, <1>10, <1>11, WriteStep

LEMMA UpdateRecordFailsStep ==
    ASSUME BillingInv, NEW w \in Replicas, UpdateRecordFails(w)
    PROVE  BillingInv'
  <1>1. TypeOK /\ TableType /\ work[w].step # "idle"
    BY TypeParts, OutcomeIs DEF BillingInv, UpdateRecordFails
  <1>2. "failed" \in Steps \ RowSteps /\ KeyOf(w) \in Keys
    BY <1>1, KeyOfType DEF Steps, RowSteps
  <1>3. claim' \in [Keys -> [status : ClaimStatus, stale : BOOLEAN]]
    BY <1>1 DEF TableType, UpdateRecordFails
  <1>4. blame' = blame \/ \E j \in Keys : Blame(j)
    BY <1>2 DEF UpdateRecordFails, BlameIf, Blame
  <1> QED
    BY <1>1, <1>2, <1>3, <1>4, QuietGo DEF UpdateRecordFails

LEMMA CompleteStep ==
    ASSUME BillingInv, NEW w \in Replicas, Complete(w) PROVE BillingInv'
  <1>1. TypeOK /\ TableType /\ work[w].step # "idle"
    BY TypeParts DEF BillingInv, Complete, At
  <1>2. work[w].event \in Events /\ KeyOf(w) \in Keys /\ "completed" \in ClaimStatus
    BY <1>1, KeyOfType DEF ClaimStatus
  <1>3. claim' \in [Keys -> [status : ClaimStatus, stale : BOOLEAN]]
    <2>1. claim' = claim \/ claim' = [claim EXCEPT ![KeyOf(w)].status = "completed"]
      BY DEF Complete
    <2> QED
      BY <1>1, <1>2, <2>1, ClaimType DEF TableType
  <1>4. \E ids \in SUBSET (Events \cup Keys) : Remember(w, ids)
    BY <1>2 DEF Complete
  <1> QED
    BY <1>1, <1>2, <1>3, <1>4, QuietGo DEF Complete

LEMMA CompleteRaisesStep ==
    ASSUME BillingInv, NEW w \in Replicas, CompleteRaises(w) PROVE BillingInv'
  <1>1. TypeOK /\ TableType /\ work[w].step # "idle"
    BY TypeParts DEF BillingInv, CompleteRaises, At
  <1>2. /\ work[w].event \in Events /\ KeyOf(w) \in Keys
        /\ "completed" \in ClaimStatus /\ "failed" \in Steps \ RowSteps
    BY <1>1, KeyOfType DEF ClaimStatus, Steps, RowSteps
  <1>3. claim' \in [Keys -> [status : ClaimStatus, stale : BOOLEAN]]
    <2>1. claim' = claim \/ claim' = [claim EXCEPT ![KeyOf(w)].status = "completed"]
      BY DEF CompleteRaises
    <2> QED
      BY <1>1, <1>2, <2>1, ClaimType DEF TableType
  <1>4. blame' = blame \/ \E j \in Keys : Blame(j)
    BY <1>2 DEF CompleteRaises, BlameIf, Blame
  <1> QED
    BY <1>1, <1>2, <1>3, <1>4, QuietGo DEF CompleteRaises

LEMMA MarkFailedStep ==
    ASSUME BillingInv, NEW w \in Replicas, MarkFailed(w) PROVE BillingInv'
  <1>1. TypeOK /\ TableType /\ work[w].step # "idle"
    BY TypeParts DEF BillingInv, MarkFailed, At
  <1>2. work[w].event \in Events /\ KeyOf(w) \in Keys /\ "failed" \in ClaimStatus
    BY <1>1, KeyOfType DEF ClaimStatus
  <1>3. claim' \in [Keys -> [status : ClaimStatus, stale : BOOLEAN]]
    <2>1. claim' = claim \/ claim' = [claim EXCEPT ![KeyOf(w)].status = "failed"]
      BY DEF MarkFailed
    <2> QED
      BY <1>1, <1>2, <2>1, ClaimType DEF TableType
  <1>4. blame' = blame \/ \E j \in Keys : Blame(j)
    BY <1>2 DEF MarkFailed, BlameIf, Blame
  <1>5. processed' = processed \/ \E ids \in SUBSET (Events \cup Keys) : Remember(w, ids)
    <2>1. {work[w].event} \in SUBSET (Events \cup Keys)
      BY <1>2
    <2> QED
      BY <2>1 DEF MarkFailed
  <1>6. Leave(w) /\ UNCHANGED <<delivered, cached, records, funds, charges, faults>>
    BY DEF MarkFailed
  <1> QED
    BY <1>1, <1>3, <1>4, <1>5, <1>6, QuietGo

LEMMA CrashStep ==
    ASSUME BillingInv, NEW w \in Replicas, Crash(w) PROVE BillingInv'
  <1>1. TypeOK /\ WorkType /\ TableType /\ MemoryType
    BY TypeParts DEF BillingInv
  <1>2. blame' = blame \/ \E j \in Keys : Blame(j)
    <2>1. CASE At(w, "idle")
      BY <2>1 DEF Crash
    <2>2. CASE ~At(w, "idle")
      <3>1. KeyOf(w) \in Keys
        BY <1>1, <2>2, KeyOfType DEF At
      <3> QED
        BY <2>2, <3>1 DEF Crash, BlameIf, Blame
    <2> QED
      BY <2>1, <2>2
  <1>3. blame' \in [Keys -> Nat]
    BY <1>1, <1>2, BlameGrows
  <1>4. work' = [work EXCEPT ![w] = Idle]
        /\ UNCHANGED <<delivered, lock, cached, claim, records, funds, charges>>
    BY DEF Crash
  <1>5. WorkType'
    BY <1>1, <1>4, IdleType
  <1>6. processed' \in [Replicas -> SUBSET (Events \cup Keys)]
    BY <1>1 DEF MemoryType, Crash
  <1>7. faults' \in 0..MaxFaults
    BY <1>1, FaultType DEF Crash
  <1>8. TypeOK'
    BY <1>1, <1>3, <1>4, <1>5, <1>6, <1>7, NextParts DEF TableType, MemoryType
  <1>9. RowsInv'
    BY <1>1, <1>2, <1>4, IdleFacts, QuietStep
  <1> QED
    BY <1>8, <1>9 DEF BillingInv

\* Time passes: a lock, a cached result or a claim expires.
LEMMA ExpireStep ==
    ASSUME BillingInv,
           \/ \E e \in Events : LockExpires(e) \/ CacheExpires(e)
           \/ \E k \in Keys : ClaimGoesStale(k)
    PROVE  BillingInv'
  <1>1. TypeOK /\ WorkType /\ TableType /\ MemoryType
    BY TypeParts DEF BillingInv
  <1>2. UNCHANGED <<delivered, processed, records, funds, work, charges>>
    BY DEF LockExpires, CacheExpires, ClaimGoesStale
  <1>3. lock' \in [Events -> Replicas \cup {Nobody}] /\ cached' \subseteq Events
    BY <1>1 DEF MemoryType, LockExpires, CacheExpires, ClaimGoesStale
  <1>4. claim' \in [Keys -> [status : ClaimStatus, stale : BOOLEAN]]
    <2>1. claim' = claim \/ \E k \in Keys : claim' = [claim EXCEPT ![k].stale = TRUE]
      BY DEF LockExpires, CacheExpires, ClaimGoesStale
    <2>2. "failed" \in ClaimStatus
      BY DEF ClaimStatus
    <2> QED
      BY <1>1, <2>1, <2>2, ClaimType DEF TableType
  <1>5. blame' = blame \/ \E j \in Keys : Blame(j)
    BY KeyType DEF LockExpires, CacheExpires, ClaimGoesStale, BlameIf, Blame
  <1>6. blame' \in [Keys -> Nat] /\ \A j \in Keys : blame'[j] >= blame[j]
    BY <1>1, <1>5, BlameGrows
  <1>7. faults' \in 0..MaxFaults
    <2>1. faults' = faults \/ Fault
      BY DEF LockExpires, CacheExpires, ClaimGoesStale
    <2> QED
      BY <1>1, <2>1, FaultType DEF MemoryType
  <1>8. TypeOK'
    BY <1>1, <1>2, <1>3, <1>4, <1>6, <1>7, NextParts DEF WorkType, TableType, MemoryType
  <1>9. RowsInv'
    BY <1>2, <1>6, QuietRows
  <1> QED
    BY <1>8, <1>9 DEF BillingInv

-----------------------------------------------------------------------------
LEMMA BillingInit == ASSUME Init PROVE BillingInv
  <1>1. Idle \in Work /\ Idle.step = "idle"
    BY DEF Idle, Work, Steps
  <1>2. WorkType
    BY <1>1 DEF Init, WorkType, RowSteps
  <1>3. records = <<>> /\ records \in Seq(Record) /\ DOMAIN records = {}
    BY DEF Init
  <1>4. claim \in [Keys -> [status : ClaimStatus, stale : BOOLEAN]]
    BY DEF Init, ClaimStatus
  <1>5. TableType
    BY <1>3, <1>4, BillingAssumption DEF Init, TableType
  <1>6. MemoryType
    BY BillingAssumption DEF Init, MemoryType
  <1>7. RowsInv
    BY <1>1, <1>3 DEF Init, RowsInv, Knows, OwnRows, RowSteps, RecordsTellTheTruth
  <1> QED
    BY <1>2, <1>5, <1>6, <1>7, TypeParts DEF BillingInv

LEMMA BillingStep == ASSUME BillingInv, [Next]_vars PROVE BillingInv'
  <1>1. CASE UNCHANGED vars
    <2>1. TypeOK'
      BY <1>1 DEF BillingInv, TypeOK, vars
    <2>2. RowsInv'
      BY <1>1, QuietRows DEF BillingInv, TypeOK, vars
    <2> QED
      BY <2>1, <2>2 DEF BillingInv
  <1>2. ASSUME NEW w \in Replicas, Handle(w) PROVE BillingInv'
    BY <1>2, DeliverStep, BillStep, ClaimStep, ChargeStep, UpdateRecordStep, CompleteStep,
       MarkFailedStep DEF Handle
  <1>3. ASSUME NEW w \in Replicas, Fail(w) PROVE BillingInv'
    BY <1>3, ClaimRaisesStep, ChargeStep, UpdateRecordFailsStep, CompleteRaisesStep,
       CrashStep DEF Fail
  <1>4. CASE \/ \E e \in Events : LockExpires(e) \/ CacheExpires(e)
             \/ \E k \in Keys : ClaimGoesStale(k)
    BY <1>4, ExpireStep
  <1> QED
    BY <1>1, <1>2, <1>3, <1>4 DEF Next

LEMMA BillingInvariant == Spec => []BillingInv
  <1>1. Init => BillingInv
    BY BillingInit
  <1>2. BillingInv /\ [Next]_vars => BillingInv'
    BY BillingStep
  <1> QED
    BY <1>1, <1>2, PTL DEF Spec

\* Whatever is delivered, fails or expires, and in whatever order: billing keeps
\* its types; in particular no source is charged below zero, and a handler that
\* still has to update a record has one.
THEOREM BillingTyped == Spec => []TypeOK
  <1>1. BillingInv => TypeOK
    BY DEF BillingInv
  <1> QED
    BY <1>1, BillingInvariant, PTL

\* The billing records of process_billing never show a payment that was not
\* made, and show a payment that was made as failed only if an answer was lost,
\* for any number of replicas that bill at the same time.
THEOREM RecordsTrue == Spec => []RecordsTellTheTruth
  <1>1. BillingInv => RecordsTellTheTruth
    BY DEF BillingInv, RowsInv
  <1> QED
    BY <1>1, BillingInvariant, PTL

\* What the statements on event_processing_claims can do to a row: the claim is
\* taken if it can be, completed, failed if it may be, or it ages.
LEMMA ClaimWrites ==
    ASSUME BillingInv, [Next]_vars
    PROVE  \/ claim' = claim
           \/ \E k \in Keys :
                \/ /\ Claimable(k)
                   /\ claim' = [claim EXCEPT ![k] = [status |-> "processing", stale |-> FALSE]]
                \/ claim' = [claim EXCEPT ![k].status = "completed"]
                \/ FailsClaim(k) /\ claim' = [claim EXCEPT ![k].status = "failed"]
                \/ claim' = [claim EXCEPT ![k].stale = TRUE]
  <1> DEFINE Written ==
           \/ claim' = claim
           \/ \E k \in Keys :
                \/ /\ Claimable(k)
                   /\ claim' = [claim EXCEPT ![k] = [status |-> "processing", stale |-> FALSE]]
                \/ claim' = [claim EXCEPT ![k].status = "completed"]
                \/ FailsClaim(k) /\ claim' = [claim EXCEPT ![k].status = "failed"]
                \/ claim' = [claim EXCEPT ![k].stale = TRUE]
  <1>1. ASSUME NEW w \in Replicas, work[w].step # "idle" PROVE KeyOf(w) \in Keys
    BY <1>1, KeyOfType DEF BillingInv
  <1>2. CASE UNCHANGED vars
    BY <1>2 DEF vars
  <1>3. ASSUME NEW w \in Replicas, Handle(w) PROVE Written
    <2>1. CASE Claim(w)
      BY <1>1, <2>1 DEF Claim, At
    <2>2. CASE Complete(w)
      BY <1>1, <2>2 DEF Complete, At
    <2>3. CASE MarkFailed(w)
      BY <1>1, <2>3 DEF MarkFailed, At
    <2>4. CASE \/ \E e \in Events : Deliver(w, e)
               \/ \E known \in SUBSET Sources : Bill(w, known)
               \/ BillExternally(w) \/ BillIncluded(w) \/ BillRefused(w)
               \/ Charge(w) \/ UpdateRecord(w)
      BY <2>4 DEF Deliver, Bill, BillExternally, BillIncluded, BillRefused, Charge,
                  UpdateRecord
    <2> QED
      BY <1>3, <2>1, <2>2, <2>3, <2>4 DEF Handle
  <1>4. ASSUME NEW w \in Replicas, Fail(w) PROVE Written
    <2>1. CASE CompleteRaises(w)
      BY <1>1, <2>1 DEF CompleteRaises, At
    <2>2. CASE ClaimRaises(w) \/ ChargeFails(w) \/ UpdateRecordFails(w) \/ Crash(w)
      BY <2>2 DEF ClaimRaises, ChargeFails, UpdateRecordFails, Crash
    <2> QED
      BY <1>4, <2>1, <2>2 DEF Fail
  <1>5. CASE \/ \E e \in Events : LockExpires(e) \/ CacheExpires(e)
             \/ \E k \in Keys : ClaimGoesStale(k)
    BY <1>5 DEF LockExpires, CacheExpires, ClaimGoesStale
  <1> QED
    BY <1>2, <1>3, <1>4, <1>5 DEF Next

\* A usage event that was completed is never handed out again, by whatever
\* statement on event_processing_claims, of whichever replica, comes next: the
\* conditions of its UPDATEs are enough, without any help of lock or cache.
THEOREM CompletedClaimStays == Spec => CompletedIsFinal
  <1> DEFINE Stays == \A k \in Keys : claim[k].status = "completed" => claim'[k].status = "completed"
  <1>1. ASSUME BillingInv, [Next]_vars PROVE Stays
    <2> SUFFICES ASSUME NEW k \in Keys, claim[k].status = "completed"
                 PROVE  claim'[k].status = "completed"
      OBVIOUS
    <2>1. claim \in [Keys -> [status : ClaimStatus, stale : BOOLEAN]]
      BY <1>1 DEF BillingInv, TypeOK
    <2>2. ~Claimable(k) /\ ~FailsClaim(k)
      BY DEF Claimable, FailsClaim
    <2>3. ASSUME NEW j \in Keys, claim' = [claim EXCEPT ![j].status = "completed"]
          PROVE  claim'[k].status = "completed"
      BY <2>1, <2>3
    <2>4. ASSUME NEW j \in Keys, claim' = [claim EXCEPT ![j].stale = TRUE]
          PROVE  claim'[k].status = "completed"
      BY <2>1, <2>4
    <2>5. ASSUME NEW j \in Keys, j # k,
                 \/ claim' = [claim EXCEPT ![j] = [status |-> "processing", stale |-> FALSE]]
                 \/ claim' = [claim EXCEPT ![j].status = "failed"]
          PROVE  claim'[k].status = "completed"
      BY <2>1, <2>5
    <2> QED
      BY <1>1, <2>2, <2>3, <2>4, <2>5, ClaimWrites
  <1> QED
    BY <1>1, BillingInvariant, PTL DEF Spec, CompletedIsFinal

-----------------------------------------------------------------------------
\* Why a key is not charged more often than its faults explain.

\* A handler is at an event with this key; it is one that keeps others away.
On(w, k) == work[w].step # "idle" /\ Key[work[w].event] = k
Owns(w, k) == On(w, k) /\ work[w].step \in {"bill", "charge", "paid", "done"}

\* The handlers that may still charge the key, or end without having charged
\* it while nobody has.
Chargers(k) ==
    {w \in Replicas :
        /\ On(w, k)
        /\ \/ work[w].step \in {"bill", "charge"}
           \/ work[w].step \in {"paid", "done"} /\ charges[k] = 0}

\* Nobody keeps a new handler of the key from charging it: not a cached result
\* or a lock (for an older event), not a claim (for usage).
Open(k) ==
    IF k \in Legacy
    THEN k \notin cached /\ ~\E w \in Replicas : lock[k] = w /\ Owns(w, k)
    ELSE \/ Claimable(k)
         \/ claim[k].status = "processing" /\ ~\E w \in Replicas : Owns(w, k)

\* Charges made, charges that can follow without another fault, and the faults.
ChargeBound(k) ==
    charges[k] + Cardinality(Chargers(k)) + (IF Open(k) THEN 1 ELSE 0) <= 1 + blame[k]

\* Only usage events are claimed.
ClaimsUsage == \A w \in Replicas : work[w].step = "claim" => work[w].event \in Usage

\* Without a fault the claim keeps all but one handler away.
FaultFree ==
    faults = 0 =>
        \A k \in Keys \ Legacy :
            /\ blame[k] = 0
            /\ \A v, w \in Replicas :
                Working(v, k) => /\ claim[k].status = "processing" /\ ~claim[k].stale
                                 /\ Working(w, k) => v = w

ChargeInv == ClaimsUsage /\ (\A k \in Keys : ChargeBound(k)) /\ FaultFree

-----------------------------------------------------------------------------
LEMMA ChargersFinite ==
    ASSUME NEW k
    PROVE  IsFiniteSet(Chargers(k)) /\ Cardinality(Chargers(k)) \in Nat
  <1>1. Chargers(k) \subseteq Replicas
    BY DEF Chargers
  <1> QED
    BY <1>1, BillingAssumption, FS_Subset, FS_CardinalityType

LEMMA NextChargersFinite ==
    ASSUME NEW k
    PROVE  IsFiniteSet(Chargers(k)') /\ Cardinality(Chargers(k)') \in Nat
  <1>1. Chargers(k)' \subseteq Replicas
    BY DEF Chargers
  <1> QED
    BY <1>1, BillingAssumption, FS_Subset, FS_CardinalityType

\* What a step can do to the bound of a key.  Nothing that counts:
Kept(k) ==
    /\ charges'[k] = charges[k] /\ blame'[k] >= blame[k]
    /\ Chargers(k)' \subseteq Chargers(k)
    /\ Open(k)' => Open(k)

\* A handler gives up charging it.
GivenUp(k, w) ==
    /\ charges'[k] = charges[k] /\ blame'[k] >= blame[k]
    /\ w \in Chargers(k) /\ Chargers(k)' \subseteq Chargers(k) \ {w}

\* A handler charges it, and it is not more open than before, or it is blamed.
Charged(k, w) ==
    /\ charges'[k] = charges[k] + 1
    /\ w \in Chargers(k) /\ Chargers(k)' \subseteq Chargers(k) \ {w}
    /\ \/ blame'[k] >= blame[k] /\ (Open(k)' => Open(k))
       \/ blame'[k] >= blame[k] + 1

\* It is blamed.
Blamed(k) ==
    /\ charges'[k] = charges[k] /\ blame'[k] >= blame[k] + 1
    /\ Chargers(k)' \subseteq Chargers(k)

\* A handler takes it.
Taken(k, w) ==
    /\ charges'[k] = charges[k] /\ blame'[k] >= blame[k]
    /\ Open(k) /\ ~Open(k)' /\ Chargers(k)' \subseteq Chargers(k) \cup {w}

LEMMA BoundMoves ==
    ASSUME BillingInv, BillingInv', NEW k \in Keys, ChargeBound(k), NEW w,
           Kept(k) \/ GivenUp(k, w) \/ Charged(k, w) \/ Blamed(k) \/ Taken(k, w)
    PROVE  ChargeBound(k)'
  <1> DEFINE m == Cardinality(Chargers(k))
             n == Cardinality(Chargers(k)')
             o == IF Open(k) THEN 1 ELSE 0
             p == IF Open(k)' THEN 1 ELSE 0
  <1>1. /\ charges[k] \in Nat /\ charges'[k] \in Nat
        /\ blame[k] \in Nat /\ blame'[k] \in Nat
    BY DEF BillingInv, TypeOK
  <1>2. m \in Nat /\ n \in Nat /\ IsFiniteSet(Chargers(k))
    BY ChargersFinite, NextChargersFinite
  <1>3. Chargers(k)' \subseteq Chargers(k) => n <= m
    BY <1>2, FS_Subset
  <1>4. w \in Chargers(k) /\ Chargers(k)' \subseteq Chargers(k) \ {w} => n <= m - 1
    <2> SUFFICES ASSUME w \in Chargers(k), Chargers(k)' \subseteq Chargers(k) \ {w}
                 PROVE  n <= m - 1
      OBVIOUS
    <2>1. /\ IsFiniteSet(Chargers(k) \ {w})
          /\ Cardinality(Chargers(k) \ {w}) = m - 1
      BY <1>2, FS_RemoveElement
    <2> QED
      BY <2>1, FS_Subset
  <1>5. Chargers(k)' \subseteq Chargers(k) \cup {w} => n <= m + 1
    <2> SUFFICES ASSUME Chargers(k)' \subseteq Chargers(k) \cup {w} PROVE n <= m + 1
      OBVIOUS
    <2>1. /\ IsFiniteSet(Chargers(k) \cup {w})
          /\ Cardinality(Chargers(k) \cup {w}) \in {m, m + 1}
      BY <1>2, FS_AddElement
    <2>2. n <= Cardinality(Chargers(k) \cup {w})
      BY <2>1, FS_Subset
    <2> QED
      BY <1>2, <2>1, <2>2
  <1>6. o \in 0..1 /\ p \in 0..1
    OBVIOUS
  <1>7. charges[k] + m + o <= 1 + blame[k]
    BY DEF ChargeBound
  <1>8. (Open(k)' => Open(k)) => p <= o
    OBVIOUS
  <1>9. Open(k) /\ ~Open(k)' => o = 1 /\ p = 0
    OBVIOUS
  <1> HIDE DEF m, n, o, p
  <1>10. charges'[k] + n + p <= 1 + blame'[k]
    <2>1. CASE Kept(k)
      BY <1>1, <1>2, <1>3, <1>6, <1>7, <1>8, <2>1 DEF Kept
    <2>2. CASE GivenUp(k, w)
      BY <1>1, <1>2, <1>4, <1>6, <1>7, <2>2 DEF GivenUp
    <2>3. CASE Charged(k, w)
      BY <1>1, <1>2, <1>4, <1>6, <1>7, <1>8, <2>3 DEF Charged
    <2>4. CASE Blamed(k)
      BY <1>1, <1>2, <1>3, <1>6, <1>7, <2>4 DEF Blamed
    <2>5. CASE Taken(k, w)
      BY <1>1, <1>2, <1>5, <1>6, <1>7, <1>9, <2>5 DEF Taken
    <2> QED
      BY <2>1, <2>2, <2>3, <2>4, <2>5
  <1> QED
    BY <1>10 DEF ChargeBound, n, p

\* One handler moves; nothing that keeps a new handler of the key away is lost.
Alone(w) == \A v \in Replicas \ {w} : work'[v] = work[v]
SameDoors(k) == IF k \in Legacy THEN cached \subseteq cached' /\ lock'[k] = lock[k]
                ELSE claim'[k] = claim[k]

LEMMA OthersCharge ==
    ASSUME NEW w \in Replicas, NEW k, Alone(w), charges'[k] = charges[k] \/ charges'[k] # 0
    PROVE  /\ Chargers(k)' \subseteq Chargers(k) \cup {w}
           /\ w \notin Chargers(k)' => Chargers(k)' \subseteq Chargers(k) \ {w}
  <1>1. ASSUME NEW v \in Replicas, v # w, v \in Chargers(k)' PROVE v \in Chargers(k)
    <2>1. work'[v] = work[v]
      BY <1>1 DEF Alone
    <2> QED
      BY <1>1, <2>1 DEF Chargers, On
  <1>2. Chargers(k)' \subseteq Replicas
    BY DEF Chargers
  <1> QED
    BY <1>1, <1>2

LEMMA DoorsStay ==
    ASSUME NEW w \in Replicas, NEW k, Alone(w), SameDoors(k), Owns(w, k) => Owns(w, k)'
    PROVE  Open(k)' => Open(k)
  <1>1. ASSUME NEW v \in Replicas, Owns(v, k) PROVE Owns(v, k)'
    <2>1. CASE v = w
      BY <1>1, <2>1
    <2>2. CASE v # w
      <3>1. work'[v] = work[v]
        BY <2>2 DEF Alone
      <3> QED
        BY <1>1, <3>1 DEF Owns, On
    <2> QED
      BY <2>1, <2>2
  <1>2. CASE k \in Legacy
    BY <1>1, <1>2 DEF Open, SameDoors
  <1>3. CASE k \notin Legacy
    BY <1>1, <1>3 DEF Open, SameDoors, Claimable
  <1> QED
    BY <1>2, <1>3

\* What a handler that moves does to a key, told by where it is and was.
LEMMA KeptIf ==
    ASSUME NEW w \in Replicas, NEW k, Alone(w), SameDoors(k),
           charges'[k] = charges[k], blame'[k] >= blame[k],
           Owns(w, k) => Owns(w, k)',
           w \in Chargers(k)' => w \in Chargers(k)
    PROVE  Kept(k)
  BY OthersCharge, DoorsStay DEF Kept

LEMMA GivenUpIf ==
    ASSUME NEW w \in Replicas, NEW k, Alone(w),
           charges'[k] = charges[k], blame'[k] >= blame[k],
           w \in Chargers(k), w \notin Chargers(k)'
    PROVE  GivenUp(k, w)
  BY OthersCharge DEF GivenUp

LEMMA BlamedIf ==
    ASSUME NEW w \in Replicas, NEW k, Alone(w),
           charges'[k] = charges[k], blame'[k] >= blame[k] + 1,
           w \in Chargers(k)' => w \in Chargers(k)
    PROVE  Blamed(k)
  BY OthersCharge DEF Blamed

\* It does nothing to the keys of other events.
LEMMA OtherKeys ==
    ASSUME NEW w \in Replicas, NEW k, Alone(w), SameDoors(k),
           charges'[k] = charges[k], blame'[k] >= blame[k],
           ~On(w, k), ~On(w, k)'
    PROVE  Kept(k)
  <1>1. ~Owns(w, k) /\ w \notin Chargers(k)'
    BY DEF Owns, Chargers
  <1> QED
    BY <1>1, KeptIf

Moves(k) == \E w \in Replicas :
    Kept(k) \/ GivenUp(k, w) \/ Charged(k, w) \/ Blamed(k) \/ Taken(k, w)

\* The key of a lock that is held for an older event is that event.
LEMMA LegacyKey ==
    ASSUME NEW e \in Events, NEW k \in Legacy, Key[e] = k PROVE e = k
  BY BillingAssumption DEF Events


\* A handler goes on, and stays one that may charge, or that keeps others away.
LEMMA GoKeeps ==
    ASSUME BillingInv, NEW w \in Replicas, NEW s \in Steps \ {"idle"}, Alone(w),
           work[w].step # "idle", work'[w].step = s, work'[w].event = work[w].event,
           UNCHANGED <<lock, cached, claim, charges>>,
           work[w].step \in {"bill", "charge", "paid", "done"}
               => s \in {"bill", "charge", "paid", "done"},
           s \in {"bill", "charge"} => work[w].step \in {"bill", "charge"},
           s \in {"paid", "done"} => work[w].step \in {"bill", "charge", "paid", "done"},
           NEW k \in Keys, blame'[k] >= blame[k]
    PROVE  Moves(k)
  <1>1. On(w, k)' <=> On(w, k)
    BY DEF On
  <1>2. SameDoors(k)
    BY DEF SameDoors
  <1>3. Owns(w, k) => Owns(w, k)'
    BY <1>1 DEF Owns
  <1>4. w \in Chargers(k)' => w \in Chargers(k)
    BY <1>1 DEF Chargers
  <1> QED
    BY <1>2, <1>3, <1>4, KeptIf DEF Moves

\* A handler goes on without charging.
LEMMA GoGivesUp ==
    ASSUME BillingInv, NEW w \in Replicas, NEW s \in {"unpaid", "payment", "failed"}, Alone(w),
           work[w].step \in {"bill", "charge"}, work'[w].step = s,
           work'[w].event = work[w].event,
           UNCHANGED <<lock, cached, claim, charges>>,
           NEW k \in Keys, blame'[k] >= blame[k]
    PROVE  Moves(k)
  <1>1. On(w, k)' <=> On(w, k)
    BY DEF On
  <1>2. CASE On(w, k)
    <2>1. w \in Chargers(k) /\ w \notin Chargers(k)'
      BY <1>2 DEF Chargers
    <2> QED
      BY <2>1, GivenUpIf DEF Moves
  <1>3. CASE ~On(w, k)
    BY <1>1, <1>3, OtherKeys DEF Moves, SameDoors
  <1> QED
    BY <1>2, <1>3

\* Counters that a step leaves alone, or only raises.
LEMMA SameBlame ==
    ASSUME BillingInv, NEW k \in Keys, blame' = blame \/ \E j \in Keys : Blame(j)
    PROVE  blame'[k] >= blame[k]
  BY BlameGrows DEF BillingInv

LEMMA ClaimRaisesMoves ==
    ASSUME BillingInv, NEW w \in Replicas, ClaimRaises(w), NEW k \in Keys PROVE Moves(k)
  <1>1. TypeOK /\ work[w].step = "claim" /\ Go(w, "failed")
        /\ UNCHANGED <<lock, cached, claim, charges, blame>>
    BY DEF BillingInv, ClaimRaises, At
  <1>2. blame'[k] >= blame[k]
    BY <1>1, SameBlame
  <1>3. "failed" \in Steps \ {"idle"}
    BY DEF Steps
  <1> QED
    BY <1>1, <1>2, <1>3, GoFacts, GoKeeps DEF Alone

LEMMA BillMoves ==
    ASSUME BillingInv, NEW w \in Replicas, NEW k \in Keys,
           \/ BillExternally(w) \/ BillIncluded(w) \/ BillRefused(w)
           \/ \E known \in SUBSET Sources : Bill(w, known)
    PROVE  Moves(k)
  <1>1. TypeOK /\ work[w].step = "bill" /\ UNCHANGED <<lock, cached, claim, charges, blame>>
    BY DEF BillingInv, BillExternally, BillIncluded, BillRefused, Bill, At
  <1>2. blame'[k] >= blame[k]
    BY <1>1, SameBlame
  <1>3. {"failed", "done", "charge", "payment"} \subseteq Steps \ {"idle"}
    BY DEF Steps
  <1>4. CASE BillExternally(w) \/ BillIncluded(w)
    <2>1. Go(w, "done")
      BY <1>4 DEF BillExternally, BillIncluded
    <2> QED
      BY <1>1, <1>2, <1>3, <2>1, GoFacts, GoKeeps DEF Alone
  <1>5. CASE BillRefused(w)
    <2>1. Go(w, "failed")
      BY <1>5 DEF BillRefused
    <2> QED
      BY <1>1, <1>2, <2>1, GoFacts, GoGivesUp DEF Alone
  <1>6. ASSUME NEW known \in SUBSET Sources, Bill(w, known) PROVE Moves(k)
    <2>1. work[w] \in Work /\ work \in [Replicas -> Work]
      BY <1>1 DEF TypeOK
    <2>2. Alone(w) /\ work'[w].event = work[w].event
          /\ work'[w].step \in {"payment", "charge"}
      BY <1>6, <2>1 DEF Bill, Alone, Work
    <2>3. CASE work'[w].step = "payment"
      BY <1>1, <1>2, <2>2, <2>3, GoGivesUp
    <2>4. CASE work'[w].step = "charge"
      BY <1>1, <1>2, <1>3, <2>2, <2>4, GoKeeps
    <2> QED
      BY <2>2, <2>3, <2>4
  <1> QED
    BY <1>4, <1>5, <1>6

LEMMA ChargeMoves ==
    ASSUME BillingInv, BillingInv', NEW w \in Replicas, Charge(w) \/ ChargeFails(w),
           NEW k \in Keys
    PROVE  Moves(k)
  <1>1. TypeOK /\ work[w].step = "charge" /\ UNCHANGED <<lock, cached, claim>>
    BY DEF BillingInv, Charge, ChargeFails, At
  <1>2. KeyOf(w) \in Keys /\ charges \in [Keys -> Nat] /\ blame \in [Keys -> Nat]
    BY <1>1, KeyOfType DEF TypeOK
  <1>3. blame' = blame \/ Blame(KeyOf(w))
    BY DEF Charge, ChargeFails
  <1>4. blame'[k] >= blame[k]
    BY <1>2, <1>3, SameBlame
  <1>5. PICK s \in {"paid", "unpaid"} : Go(w, s)
    BY DEF Charge, ChargeFails
  <1>6. Alone(w) /\ work'[w].step = s /\ work'[w].event = work[w].event
    BY <1>1, <1>5, GoFacts DEF Alone
  <1>7. CASE UNCHANGED charges
    <2>1. s = "unpaid"
      <3>1. ASSUME TakeCredits(w) PROVE FALSE
        BY <1>2, <1>7, <3>1 DEF TakeCredits
      <3>2. Go(w, "unpaid")
        BY <3>1 DEF Charge, ChargeFails
      <3> QED
        BY <1>1, <1>6, <3>2, GoFacts
    <2> QED
      BY <1>1, <1>4, <1>6, <1>7, <2>1, GoGivesUp
  <1>8. CASE TakeCredits(w)
    <2>1. charges' = [charges EXCEPT ![KeyOf(w)] = charges[KeyOf(w)] + 1]
      BY <1>8 DEF TakeCredits
    <2>2. On(w, k) <=> k = KeyOf(w)
      BY <1>1 DEF On, KeyOf
    <2>3. On(w, k)' <=> On(w, k)
      BY <1>1, <1>6 DEF On
    <2>4. SameDoors(k)
      BY <1>1 DEF SameDoors
    <2>5. CASE k # KeyOf(w)
      <3>1. charges'[k] = charges[k]
        BY <1>2, <2>1, <2>5
      <3> QED
        BY <1>4, <1>6, <2>2, <2>3, <2>4, <2>5, <3>1, OtherKeys DEF Moves
    <2>6. CASE k = KeyOf(w)
      <3>1. charges'[k] = charges[k] + 1 /\ charges'[k] # 0
        BY <1>2, <2>1, <2>6
      <3>2. w \in Chargers(k) /\ w \notin Chargers(k)'
        BY <1>1, <1>6, <2>2, <2>6, <3>1 DEF Chargers
      <3>3. Chargers(k)' \subseteq Chargers(k) \ {w}
        BY <1>6, <3>1, <3>2, OthersCharge
      <3>4. CASE s = "paid"
        <4>1. Owns(w, k) => Owns(w, k)'
          BY <1>6, <2>3, <3>4 DEF Owns
        <4> QED
          BY <1>4, <1>6, <2>4, <3>1, <3>2, <3>3, <4>1, DoorsStay DEF Moves, Charged
      <3>5. CASE s = "unpaid"
        <4>1. ~Go(w, "paid")
          BY <1>1, <1>6, <3>5, GoFacts
        <4>2. ChargeFails(w) /\ Blame(k)
          <5>1. ~UNCHANGED charges
            BY <1>2, <2>6, <3>1
          <5> QED
            BY <2>6, <4>1, <5>1 DEF Charge, ChargeFails
        <4>3. blame'[k] >= blame[k] + 1
          BY <1>2, <4>2 DEF Blame
        <4> QED
          BY <3>1, <3>2, <3>3, <4>3 DEF Moves, Charged
      <3> QED
        BY <3>4, <3>5
    <2> QED
      BY <2>5, <2>6
  <1> QED
    BY <1>7, <1>8 DEF Charge, ChargeFails

LEMMA UpdateMoves ==
    ASSUME BillingInv, NEW w \in Replicas, UpdateRecord(w) \/ UpdateRecordFails(w),
           NEW k \in Keys
    PROVE  Moves(k)
  <1>1. TypeOK /\ work[w].step \in {"paid", "unpaid", "payment"}
        /\ UNCHANGED <<lock, cached, claim, charges>>
    BY OutcomeIs DEF BillingInv, UpdateRecord, UpdateRecordFails
  <1>2. KeyOf(w) \in Keys /\ blame \in [Keys -> Nat]
    BY <1>1, KeyOfType DEF TypeOK
  <1>3. blame' = blame \/ Blame(KeyOf(w))
    BY DEF UpdateRecord, UpdateRecordFails, BlameIf, Blame
  <1>4. blame'[k] >= blame[k]
    BY <1>2, <1>3, SameBlame
  <1>5. {"failed", "done"} \subseteq Steps \ {"idle"}
    BY DEF Steps
  <1>6. CASE UpdateRecord(w)
    <2>1. Go(w, IF work[w].step = "paid" THEN "done" ELSE "failed")
      BY <1>6 DEF UpdateRecord, At
    <2> QED
      BY <1>1, <1>4, <1>5, <2>1, GoFacts, GoKeeps DEF Alone
  <1>7. CASE UpdateRecordFails(w) /\ work[w].step # "paid"
    <2>1. Go(w, "failed")
      BY <1>7 DEF UpdateRecordFails
    <2> QED
      BY <1>1, <1>4, <1>5, <1>7, <2>1, GoFacts, GoKeeps DEF Alone
  <1>8. CASE UpdateRecordFails(w) /\ work[w].step = "paid"
    <2>1. Go(w, "failed") /\ Blame(KeyOf(w))
      BY <1>8 DEF UpdateRecordFails, BlameIf, Blame, At
    <2>2. Alone(w) /\ work'[w].step = "failed" /\ work'[w].event = work[w].event
      BY <1>1, <2>1, GoFacts DEF Alone
    <2>3. w \notin Chargers(k)'
      BY <2>2 DEF Chargers
    <2>4. CASE k = KeyOf(w)
      <3>1. blame'[k] >= blame[k] + 1
        BY <1>2, <2>1, <2>4 DEF Blame
      <3> QED
        BY <1>1, <2>2, <2>3, <3>1, BlamedIf DEF Moves
    <2>5. CASE k # KeyOf(w)
      <3>1. ~On(w, k) /\ ~On(w, k)'
        BY <2>2, <2>5 DEF On, KeyOf
      <3> QED
        BY <1>1, <1>4, <2>2, <3>1, OtherKeys DEF Moves, SameDoors
    <2> QED
      BY <2>4, <2>5
  <1> QED
    BY <1>6, <1>7, <1>8

\* A handler ends, and has nothing to do with the key, or nothing that counts.
LEMMA LeaveMoves ==
    ASSUME BillingInv, NEW w \in Replicas, Leave(w), work[w].step # "idle", NEW k \in Keys
    PROVE  /\ Alone(w) /\ ~On(w, k)' /\ w \notin Chargers(k)'
           /\ k \in Legacy /\ k # KeyOf(w) => lock'[k] = lock[k]
  <1>1. TypeOK /\ work \in [Replicas -> Work] /\ work[w].event \in Events
        /\ work' = [work EXCEPT ![w] = Idle] /\ Idle.step = "idle"
    BY KeyOfType DEF BillingInv, TypeOK, Leave, Idle
  <1>2. Alone(w) /\ ~On(w, k)' /\ w \notin Chargers(k)'
    BY <1>1 DEF Alone, On, Chargers
  <1>3. ASSUME k \in Legacy, k # KeyOf(w) PROVE lock'[k] = lock[k]
    <2>1. k # work[w].event /\ k \in Events
      BY <1>3, BillingAssumption DEF KeyOf, Events
    <2> QED
      BY <1>1, <2>1 DEF Leave, Unlock
  <1> QED
    BY <1>2, <1>3

LEMMA CompleteMoves ==
    ASSUME BillingInv, NEW w \in Replicas, Complete(w), NEW k \in Keys PROVE Moves(k)
  <1>1. TypeOK /\ work[w].step = "done" /\ UNCHANGED <<charges, blame>> /\ Leave(w)
        /\ cached' = cached \cup {work[w].event}
    BY DEF BillingInv, Complete, At
  <1>2. KeyOf(w) \in Keys /\ work[w].event \in Events
        /\ claim \in [Keys -> [status : ClaimStatus, stale : BOOLEAN]]
    BY <1>1, KeyOfType DEF TypeOK
  <1>3. blame'[k] >= blame[k]
    BY <1>1, SameBlame
  <1>4. /\ Alone(w) /\ ~On(w, k)' /\ w \notin Chargers(k)'
        /\ k \in Legacy /\ k # KeyOf(w) => lock'[k] = lock[k]
    BY <1>1, LeaveMoves
  <1>5. CASE k # KeyOf(w)
    <2>1. ~On(w, k)
      BY <1>5 DEF On, KeyOf
    <2>2. claim'[k] = claim[k]
      BY <1>2, <1>5 DEF Complete
    <2> QED
      BY <1>1, <1>3, <1>4, <1>5, <2>1, <2>2, OtherKeys DEF Moves, SameDoors
  <1>6. CASE k = KeyOf(w)
    <2>1. ~Open(k)'
      <3>1. CASE k \in Legacy
        <4>1. work[w].event = k
          BY <1>2, <1>6, <3>1, LegacyKey DEF KeyOf
        <4> QED
          BY <1>1, <3>1, <4>1 DEF Open
      <3>2. CASE k \notin Legacy
        <4>1. work[w].event \notin Legacy
          BY <1>6, <3>2, BillingAssumption DEF KeyOf
        <4>2. claim'[k].status = "completed"
          BY <1>2, <1>6, <4>1 DEF Complete
        <4> QED
          BY <3>2, <4>2 DEF Open, Claimable
      <3> QED
        BY <3>1, <3>2
    <2>2. Chargers(k)' \subseteq Chargers(k)
      BY <1>1, <1>4, OthersCharge
    <2> QED
      BY <1>1, <1>3, <2>1, <2>2 DEF Moves, Kept
  <1> QED
    BY <1>5, <1>6

LEMMA CompleteRaisesMoves ==
    ASSUME BillingInv, NEW w \in Replicas, CompleteRaises(w), NEW k \in Keys PROVE Moves(k)
  <1>1. TypeOK /\ work[w].step = "done" /\ UNCHANGED <<lock, cached, charges>>
        /\ Go(w, "failed") /\ work[w].event \notin Legacy
    BY DEF BillingInv, CompleteRaises, At
  <1>2. KeyOf(w) \in Keys /\ KeyOf(w) \notin Legacy /\ blame \in [Keys -> Nat]
        /\ charges \in [Keys -> Nat]
        /\ claim \in [Keys -> [status : ClaimStatus, stale : BOOLEAN]]
    BY <1>1, KeyOfType, BillingAssumption DEF TypeOK, KeyOf, Events
  <1>3. blame' = blame \/ Blame(KeyOf(w))
    BY DEF CompleteRaises, BlameIf, Blame
  <1>4. blame'[k] >= blame[k]
    BY <1>2, <1>3, SameBlame
  <1>5. Alone(w) /\ work'[w].step = "failed" /\ work'[w].event = work[w].event
    BY <1>1, GoFacts DEF Alone
  <1>6. w \notin Chargers(k)'
    BY <1>5 DEF Chargers
  <1>7. CASE k # KeyOf(w)
    <2>1. ~On(w, k) /\ ~On(w, k)'
      BY <1>5, <1>7 DEF On, KeyOf
    <2>2. claim'[k] = claim[k]
      BY <1>2, <1>7 DEF CompleteRaises
    <2> QED
      BY <1>1, <1>4, <1>5, <2>1, <2>2, OtherKeys DEF Moves, SameDoors
  <1>8. CASE k = KeyOf(w) /\ UNCHANGED claim /\ BlameIf(charges[KeyOf(w)] > 0, KeyOf(w))
    <2>1. CASE charges[k] > 0
      <3>1. blame'[k] >= blame[k] + 1
        BY <1>2, <1>8, <2>1 DEF BlameIf
      <3> QED
        BY <1>1, <1>5, <1>6, <3>1, BlamedIf DEF Moves
    <2>2. CASE ~(charges[k] > 0)
      <3>1. charges[k] = 0
        BY <1>2, <2>2
      <3>2. w \in Chargers(k)
        BY <1>1, <1>8, <3>1 DEF Chargers, On, KeyOf
      <3> QED
        BY <1>1, <1>4, <1>5, <1>6, <3>2, GivenUpIf DEF Moves
    <2> QED
      BY <2>1, <2>2
  <1>9. CASE k = KeyOf(w) /\ claim' = [claim EXCEPT ![KeyOf(w)].status = "completed"]
    <2>1. claim'[k].status = "completed"
      BY <1>2, <1>9
    <2>2. ~Open(k)'
      BY <1>2, <1>9, <2>1 DEF Open, Claimable
    <2>3. Chargers(k)' \subseteq Chargers(k)
      BY <1>1, <1>5, <1>6, OthersCharge
    <2> QED
      BY <1>1, <1>4, <2>2, <2>3 DEF Moves, Kept
  <1> QED
    BY <1>7, <1>8, <1>9 DEF CompleteRaises

LEMMA MarkFailedMoves ==
    ASSUME BillingInv, NEW w \in Replicas, MarkFailed(w), NEW k \in Keys PROVE Moves(k)
  <1>1. TypeOK /\ work[w].step = "failed" /\ UNCHANGED <<cached, charges>> /\ Leave(w)
    BY DEF BillingInv, MarkFailed, At
  <1>2. KeyOf(w) \in Keys /\ work[w].event \in Events /\ blame \in [Keys -> Nat]
        /\ claim \in [Keys -> [status : ClaimStatus, stale : BOOLEAN]]
    BY <1>1, KeyOfType DEF TypeOK
  <1>3. blame' = blame \/ Blame(KeyOf(w))
    BY DEF MarkFailed, BlameIf, Blame
  <1>4. blame'[k] >= blame[k]
    BY <1>2, <1>3, SameBlame
  <1>5. /\ Alone(w) /\ ~On(w, k)' /\ w \notin Chargers(k)'
        /\ k \in Legacy /\ k # KeyOf(w) => lock'[k] = lock[k]
    BY <1>1, LeaveMoves
  <1>6. CASE k # KeyOf(w)
    <2>1. ~On(w, k)
      BY <1>6 DEF On, KeyOf
    <2>2. claim'[k] = claim[k]
      BY <1>2, <1>6 DEF MarkFailed
    <2> QED
      BY <1>1, <1>4, <1>5, <1>6, <2>1, <2>2, OtherKeys DEF Moves, SameDoors
  <1>7. Chargers(k)' \subseteq Chargers(k) /\ ~Owns(w, k)
    BY <1>1, <1>5, OthersCharge DEF Owns
  <1>8. ASSUME NEW v \in Replicas, Owns(v, k) PROVE Owns(v, k)' /\ v # w
    BY <1>5, <1>7, <1>8 DEF Owns, On, Alone
  <1>9. CASE k = KeyOf(w) /\ k \in Legacy
    <2>1. ASSUME NEW v \in Replicas, lock[k] = v, Owns(v, k) PROVE lock'[k] = v
      BY <1>1, <1>8, <1>9, <2>1, BillingAssumption DEF Leave, Unlock, Events
    <2>2. Open(k)' => Open(k)
      BY <1>1, <1>8, <1>9, <2>1 DEF Open
    <2> QED
      BY <1>1, <1>4, <1>7, <2>2 DEF Moves, Kept
  <1>10. CASE k = KeyOf(w) /\ k \notin Legacy
    <2>1. work[w].event \notin Legacy
      BY <1>10, BillingAssumption DEF KeyOf
    <2>2. /\ claim' = IF FailsClaim(k) THEN [claim EXCEPT ![k].status = "failed"] ELSE claim
          /\ BlameIf(FailsClaim(k) /\ \E v \in Replicas \ {w} : Working(v, k), k)
      BY <1>10, <2>1 DEF MarkFailed
    <2>3. CASE FailsClaim(k) /\ \E v \in Replicas \ {w} : Working(v, k)
      <3>1. blame'[k] >= blame[k] + 1
        BY <1>2, <2>2, <2>3 DEF BlameIf
      <3> QED
        BY <1>1, <1>7, <3>1 DEF Moves, Blamed
    <2>4. CASE FailsClaim(k) /\ ~\E v \in Replicas \ {w} : Working(v, k)
      <3>1. ~\E v \in Replicas : Owns(v, k)
        BY <1>8, <2>4 DEF Owns, On, Working
      <3>2. claim[k].status \in {"processing", "failed"}
        BY <1>2, <2>4 DEF FailsClaim, ClaimStatus
      <3>3. Open(k)
        BY <1>10, <3>1, <3>2 DEF Open, Claimable
      <3> QED
        BY <1>1, <1>4, <1>7, <3>3 DEF Moves, Kept
    <2>5. CASE ~FailsClaim(k)
      <3>1. claim' = claim
        BY <2>2, <2>5
      <3>2. Open(k)' => Open(k)
        BY <1>8, <1>10, <3>1 DEF Open, Claimable
      <3> QED
        BY <1>1, <1>4, <1>7, <3>2 DEF Moves, Kept
    <2> QED
      BY <2>3, <2>4, <2>5
  <1> QED
    BY <1>6, <1>9, <1>10

LEMMA CrashMoves ==
    ASSUME BillingInv, NEW w \in Replicas, Crash(w), NEW k \in Keys PROVE Moves(k)
  <1>1. TypeOK /\ UNCHANGED <<lock, cached, claim, charges>>
        /\ work' = [work EXCEPT ![w] = Idle]
    BY DEF BillingInv, Crash
  <1>2. work \in [Replicas -> Work] /\ blame \in [Keys -> Nat] /\ charges \in [Keys -> Nat]
        /\ Idle.step = "idle"
    BY <1>1 DEF TypeOK, Idle
  <1>3. Alone(w) /\ ~On(w, k)' /\ w \notin Chargers(k)'
    BY <1>1, <1>2 DEF Alone, On, Chargers
  <1>4. SameDoors(k)
    BY <1>1 DEF SameDoors
  <1>5. blame'[k] >= blame[k]
    <2>1. CASE At(w, "idle")
      BY <1>2, <2>1 DEF Crash
    <2>2. CASE ~At(w, "idle")
      <3>1. KeyOf(w) \in Keys
        BY <1>1, <2>2, KeyOfType DEF At
      <3>2. blame' = blame \/ Blame(KeyOf(w))
        BY <2>2 DEF Crash, BlameIf, Blame
      <3> QED
        BY <3>1, <3>2, SameBlame
    <2> QED
      BY <2>1, <2>2
  <1>6. CASE ~On(w, k)
    BY <1>1, <1>3, <1>4, <1>5, <1>6, OtherKeys DEF Moves
  <1>7. CASE w \in Chargers(k)
    BY <1>1, <1>3, <1>5, <1>7, GivenUpIf DEF Moves
  <1>8. CASE ~Owns(w, k)
    BY <1>1, <1>3, <1>4, <1>5, <1>8, KeptIf DEF Moves
  <1>9. CASE Owns(w, k) /\ w \notin Chargers(k)
    <2>1. k = KeyOf(w) /\ work[w].step \in {"paid", "done"} /\ charges[k] # 0
      BY <1>9 DEF Owns, On, Chargers, KeyOf
    <2>2. charges[k] > 0
      BY <1>2, <2>1
    <2>3. blame' = [blame EXCEPT ![k] = blame[k] + 1]
      BY <2>1, <2>2 DEF Crash, BlameIf, At
    <2>4. blame'[k] >= blame[k] + 1
      BY <1>2, <2>3
    <2> QED
      BY <1>1, <1>3, <2>4, BlamedIf DEF Moves
  <1> QED
    BY <1>6, <1>7, <1>8, <1>9

LEMMA DeliverMoves ==
    ASSUME BillingInv, BillingInv', NEW w \in Replicas, NEW e \in Events, Deliver(w, e),
           NEW k \in Keys
    PROVE  Moves(k)
  <1>1. TypeOK /\ work[w].step = "idle" /\ UNCHANGED <<cached, claim, charges, blame>>
    BY DEF BillingInv, Deliver, At
  <1>2. work \in [Replicas -> Work] /\ lock \in [Events -> Replicas \cup {Nobody}]
    BY <1>1 DEF TypeOK
  <1>3. blame'[k] >= blame[k]
    BY <1>1, SameBlame
  <1>4. ~On(w, k)
    BY <1>1 DEF On
  <1>5. CASE UNCHANGED <<lock, work>>
    <2>1. Alone(w) /\ ~On(w, k)' /\ SameDoors(k)
      BY <1>1, <1>4, <1>5 DEF Alone, On, SameDoors
    <2> QED
      BY <1>1, <1>3, <1>4, <2>1, OtherKeys DEF Moves
  <1>6. CASE e \notin cached /\ lock[e] = Nobody /\ lock' = [lock EXCEPT ![e] = w]
             /\ work' = [work EXCEPT ![w] = [step |-> IF e \in Legacy THEN "bill" ELSE "claim",
                                             event |-> e, row |-> 0]]
    <2>1. Alone(w) /\ work'[w].event = e
          /\ work'[w].step = IF e \in Legacy THEN "bill" ELSE "claim"
      BY <1>2, <1>6 DEF Alone
    <2>2. CASE k = e /\ e \in Legacy
      <3>1. Open(k)
        BY <1>6, <2>2, BillingAssumption DEF Open
      <3>2. lock'[k] = w /\ Owns(w, k)'
        BY <1>2, <1>6, <2>1, <2>2, BillingAssumption DEF Owns, On
      <3>3. ~Open(k)'
        BY <2>2, <3>2 DEF Open
      <3>4. Chargers(k)' \subseteq Chargers(k) \cup {w}
        BY <1>1, <2>1, OthersCharge
      <3> QED
        BY <1>1, <1>3, <3>1, <3>3, <3>4 DEF Moves, Taken
    <2>3. CASE k # e \/ e \notin Legacy
      <3>1. SameDoors(k)
        <4>1. CASE k \in Legacy
          <5>1. k # e /\ k \in Events
            BY <2>3, <4>1 DEF Events
          <5> QED
            BY <1>1, <1>2, <1>6, <4>1, <5>1 DEF SameDoors
        <4> QED
          BY <1>1, <4>1 DEF SameDoors
      <3>2. ~Owns(w, k)
        BY <1>4 DEF Owns
      <3>3. w \notin Chargers(k)'
        BY <2>1, <2>3, BillingAssumption DEF Chargers, On
      <3> QED
        BY <1>1, <1>3, <2>1, <3>1, <3>2, <3>3, KeptIf DEF Moves
    <2> QED
      BY <2>2, <2>3
  <1> QED
    BY <1>5, <1>6 DEF Deliver

LEMMA ClaimMoves ==
    ASSUME BillingInv, BillingInv', ClaimsUsage, NEW w \in Replicas, Claim(w), NEW k \in Keys
    PROVE  Moves(k)
  <1>1. TypeOK /\ work[w].step = "claim" /\ UNCHANGED <<cached, charges, blame>>
    BY DEF BillingInv, Claim, At
  <1>2. work[w].event \in Usage /\ KeyOf(w) \in Keys /\ KeyOf(w) \notin Legacy
        /\ work[w].event \notin Legacy
        /\ claim \in [Keys -> [status : ClaimStatus, stale : BOOLEAN]]
    BY <1>1, KeyOfType, BillingAssumption DEF ClaimsUsage, TypeOK, KeyOf
  <1>3. blame'[k] >= blame[k]
    BY <1>1, SameBlame
  <1>4. CASE Claimable(KeyOf(w)) /\ Go(w, "bill") /\ UNCHANGED lock
             /\ claim' = [claim EXCEPT ![KeyOf(w)] = [status |-> "processing", stale |-> FALSE]]
    <2>1. Alone(w) /\ work'[w].step = "bill" /\ work'[w].event = work[w].event
      BY <1>1, <1>4, GoFacts DEF Alone
    <2>2. CASE k = KeyOf(w)
      <3>1. Open(k)
        BY <1>2, <1>4, <2>2 DEF Open
      <3>2. Owns(w, k)'
        BY <2>1, <2>2 DEF Owns, On, KeyOf
      <3>3. claim'[k].status = "processing" /\ ~claim'[k].stale
        BY <1>2, <1>4, <2>2
      <3>4. ~Open(k)'
        BY <1>2, <2>2, <3>2, <3>3 DEF Open, Claimable
      <3>5. Chargers(k)' \subseteq Chargers(k) \cup {w}
        BY <1>1, <2>1, OthersCharge
      <3> QED
        BY <1>1, <1>3, <3>1, <3>4, <3>5 DEF Moves, Taken
    <2>3. CASE k # KeyOf(w)
      <3>1. ~On(w, k) /\ ~On(w, k)'
        BY <2>1, <2>3 DEF On, KeyOf
      <3>2. SameDoors(k)
        BY <1>1, <1>2, <1>4, <2>3 DEF SameDoors
      <3> QED
        BY <1>1, <1>3, <2>1, <3>1, <3>2, OtherKeys DEF Moves
    <2> QED
      BY <2>2, <2>3
  <1>5. CASE Leave(w) /\ UNCHANGED claim
    <2>1. /\ Alone(w) /\ ~On(w, k)' /\ w \notin Chargers(k)'
          /\ k \in Legacy /\ k # KeyOf(w) => lock'[k] = lock[k]
      BY <1>1, <1>5, LeaveMoves
    <2>2. ~Owns(w, k)
      BY <1>1 DEF Owns
    <2>3. SameDoors(k)
      BY <1>1, <1>2, <1>5, <2>1 DEF SameDoors
    <2> QED
      BY <1>1, <1>3, <2>1, <2>2, <2>3, KeptIf DEF Moves
  <1> QED
    BY <1>4, <1>5 DEF Claim

\* When time passes, a key is blamed if a handler could be robbed of it.
LEMMA ExpireMoves ==
    ASSUME BillingInv, NEW k \in Keys,
           \/ \E e \in Events : LockExpires(e) \/ CacheExpires(e)
           \/ \E j \in Keys : ClaimGoesStale(j)
    PROVE  Kept(k) \/ Blamed(k)
  <1>1. TypeOK /\ UNCHANGED <<work, charges>>
    BY DEF BillingInv, LockExpires, CacheExpires, ClaimGoesStale
  <1>2. blame \in [Keys -> Nat] /\ lock \in [Events -> Replicas \cup {Nobody}]
        /\ claim \in [Keys -> [status : ClaimStatus, stale : BOOLEAN]]
    BY <1>1 DEF TypeOK
  <1>3. blame' = blame \/ \E j \in Keys : Blame(j)
    BY KeyType DEF LockExpires, CacheExpires, ClaimGoesStale, BlameIf, Blame
  <1>4. blame'[k] >= blame[k]
    BY <1>3, SameBlame
  <1>5. Chargers(k)' = Chargers(k)
    BY <1>1 DEF Chargers, On
  <1>6. ASSUME NEW v \in Replicas PROVE Owns(v, k)' <=> Owns(v, k)
    BY <1>1 DEF Owns, On
  <1>7. ASSUME Open(k)' => Open(k) PROVE Kept(k)
    BY <1>1, <1>4, <1>5, <1>7 DEF Kept
  <1>8. ASSUME Blame(k) PROVE Blamed(k)
    BY <1>1, <1>2, <1>5, <1>8 DEF Blamed, Blame
  <1>9. ASSUME NEW e \in Events, LockExpires(e) PROVE Kept(k) \/ Blamed(k)
    <2>1. claim' = claim /\ cached' = cached /\ lock' = [lock EXCEPT ![e] = Nobody]
          /\ lock[e] \in Replicas
      BY <1>2, <1>9 DEF LockExpires
    <2>2. CASE k \notin Legacy
      BY <1>6, <1>7, <2>1, <2>2 DEF Open, Claimable
    <2>3. CASE k \in Legacy /\ k # e
      <3>1. lock'[k] = lock[k]
        BY <1>2, <2>1, <2>3 DEF Events
      <3> QED
        BY <1>6, <1>7, <2>1, <2>3, <3>1 DEF Open
    <2>4. CASE k \in Legacy /\ k = e /\ work[lock[e]].event = e
      <3>1. Blame(k)
        BY <1>9, <2>4, BillingAssumption DEF LockExpires, BlameIf, Blame
      <3> QED
        BY <1>8, <3>1
    <2>5. CASE k \in Legacy /\ k = e /\ work[lock[e]].event # e
      <3>1. ASSUME NEW v \in Replicas, lock[k] = v, Owns(v, k) PROVE FALSE
        <4>1. work[v].event \in Events
          BY <1>1, <3>1, KeyOfType DEF Owns, On
        <4>2. work[v].event = k
          BY <2>5, <3>1, <4>1, LegacyKey DEF Owns, On
        <4> QED
          BY <2>5, <3>1, <4>2
      <3>2. Open(k)' => Open(k)
        BY <2>1, <2>5, <3>1 DEF Open
      <3> QED
        BY <1>7, <3>2
    <2> QED
      BY <2>2, <2>3, <2>4, <2>5
  <1>10. ASSUME NEW e \in Events, CacheExpires(e) PROVE Kept(k) \/ Blamed(k)
    <2>1. claim' = claim /\ lock' = lock /\ cached' = cached \ {e}
      BY <1>10 DEF CacheExpires
    <2>2. CASE k \notin Legacy
      BY <1>6, <1>7, <2>1, <2>2 DEF Open, Claimable
    <2>3. CASE k \in Legacy /\ k # e
      BY <1>6, <1>7, <2>1, <2>3 DEF Open
    <2>4. CASE k \in Legacy /\ k = e
      <3>1. Blame(k)
        BY <1>10, <2>4, BillingAssumption DEF CacheExpires, BlameIf, Blame
      <3> QED
        BY <1>8, <3>1
    <2> QED
      BY <2>2, <2>3, <2>4
  <1>11. ASSUME NEW j \in Keys, ClaimGoesStale(j) PROVE Kept(k) \/ Blamed(k)
    <2>1. lock' = lock /\ cached' = cached /\ claim' = [claim EXCEPT ![j].stale = TRUE]
      BY <1>11 DEF ClaimGoesStale
    <2>2. CASE k \in Legacy
      BY <1>6, <1>7, <2>1, <2>2 DEF Open
    <2>3. CASE k \notin Legacy /\ k # j
      <3>1. claim'[k] = claim[k]
        BY <1>2, <2>1, <2>3
      <3> QED
        BY <1>6, <1>7, <2>3, <3>1 DEF Open, Claimable
    <2>4. CASE k = j /\ \E w \in Replicas : Working(w, k)
      BY <1>8, <1>11, <2>4 DEF ClaimGoesStale
    <2>5. CASE k \notin Legacy /\ k = j /\ ~\E w \in Replicas : Working(w, k)
      <3>1. claim[k].status = "processing" /\ ~\E w \in Replicas : Owns(w, k)
        BY <1>11, <2>5 DEF ClaimGoesStale, Owns, On, Working
      <3>2. Open(k)
        BY <2>5, <3>1 DEF Open
      <3> QED
        BY <1>7, <3>2
    <2> QED
      BY <2>2, <2>3, <2>4, <2>5
  <1> QED
    BY <1>9, <1>10, <1>11

\* The bound of every key, over a step.
LEMMA BoundStep ==
    ASSUME BillingInv, BillingInv', ChargeInv, [Next]_vars, NEW k \in Keys
    PROVE  ChargeBound(k)'
  <1>1. ChargeBound(k) /\ ClaimsUsage
    BY DEF ChargeInv
  <1>2. ASSUME Moves(k) PROVE ChargeBound(k)'
    BY <1>1, <1>2, BoundMoves DEF Moves
  <1>3. CASE UNCHANGED vars
    BY <1>1, <1>3 DEF ChargeBound, Chargers, On, Open, Owns, Claimable, vars
  <1>4. ASSUME NEW w \in Replicas, Handle(w) PROVE ChargeBound(k)'
    <2>1. Moves(k)
      BY <1>1, <1>4, DeliverMoves, BillMoves, ClaimMoves, ChargeMoves, UpdateMoves,
         CompleteMoves, MarkFailedMoves DEF Handle
    <2> QED
      BY <1>2, <2>1
  <1>5. ASSUME NEW w \in Replicas, Fail(w) PROVE ChargeBound(k)'
    <2>1. Moves(k)
      BY <1>5, ClaimRaisesMoves, ChargeMoves, UpdateMoves, CompleteRaisesMoves, CrashMoves
      DEF Fail
    <2> QED
      BY <1>2, <2>1
  <1>6. CASE \/ \E e \in Events : LockExpires(e) \/ CacheExpires(e)
             \/ \E j \in Keys : ClaimGoesStale(j)
    <2>1. Kept(k) \/ Blamed(k)
      BY <1>6, ExpireMoves
    <2> QED
      BY <1>1, <2>1, BoundMoves
  <1> QED
    BY <1>3, <1>4, <1>5, <1>6 DEF Next

-----------------------------------------------------------------------------
\* A step without a fault: no usage key is blamed, and nobody works on it anew
\* unless nobody worked on it before.
LEMMA StillFree ==
    ASSUME FaultFree, faults' = 0 => faults = 0,
           \A k \in Keys \ Legacy : faults = 0 => blame'[k] = blame[k],
           \A k \in Keys \ Legacy :
               \/ /\ claim'[k] = claim[k]
                  /\ \A v \in Replicas : Working(v, k)' => Working(v, k)
               \/ \A v \in Replicas : faults = 0 => ~Working(v, k)'
    PROVE  FaultFree'
  <1> SUFFICES ASSUME faults' = 0, NEW k \in Keys \ Legacy
               PROVE  /\ blame'[k] = 0
                      /\ \A v, w \in Replicas :
                            Working(v, k)' =>
                                /\ claim'[k].status = "processing" /\ ~claim'[k].stale
                                /\ Working(w, k)' => v = w
    BY DEF FaultFree
  <1>1. /\ faults = 0 /\ blame[k] = 0
        /\ \A v, w \in Replicas :
              Working(v, k) => /\ claim[k].status = "processing" /\ ~claim[k].stale
                               /\ Working(w, k) => v = w
    BY DEF FaultFree
  <1>2. CASE claim'[k] = claim[k] /\ \A v \in Replicas : Working(v, k)' => Working(v, k)
    BY <1>1, <1>2
  <1>3. CASE \A v \in Replicas : ~Working(v, k)'
    BY <1>1, <1>3
  <1> QED
    BY <1>1, <1>2, <1>3

\* A fault leaves nothing to show.
LEMMA FaultyStep == ASSUME BillingInv, Fault PROVE FaultFree'
  <1>1. faults \in Nat
    BY BillingAssumption DEF BillingInv, TypeOK
  <1>2. faults' # 0
    BY <1>1 DEF Fault
  <1> QED
    BY <1>2 DEF FaultFree

\* Only the handler that moves can start to work on a key, and it works on the
\* key of its event.
LEMMA AloneWorks ==
    ASSUME NEW w \in Replicas, Alone(w), NEW k, NEW v \in Replicas, v # w
    PROVE  Working(v, k)' <=> Working(v, k)
  BY DEF Alone, Working

LEMMA GoFree ==
    ASSUME BillingInv, FaultFree, NEW w \in Replicas, NEW s, Alone(w),
           work[w].step \notin {"idle", "claim"}, work'[w].event = work[w].event,
           UNCHANGED <<claim, blame>>, faults' = 0 => faults = 0
    PROVE  FaultFree'
  <1>1. ASSUME NEW k \in Keys, NEW v \in Replicas, Working(v, k)' PROVE Working(v, k)
    <2>1. CASE v = w
      BY <1>1, <2>1 DEF Working
    <2>2. CASE v # w
      BY <1>1, <2>2, AloneWorks
    <2> QED
      BY <2>1, <2>2
  <1> QED
    BY <1>1, StillFree

\* A handler of a usage event that ends was the only one, if there was no fault.
LEMMA LeaveFree ==
    ASSUME BillingInv, FaultFree, NEW w \in Replicas, Leave(w),
           work[w].step # "idle", UNCHANGED faults,
           \A k \in Keys \ Legacy : faults = 0 => blame'[k] = blame[k],
           \/ UNCHANGED claim
           \/ /\ work[w].step # "claim"
              /\ \A k \in Keys \ {KeyOf(w)} : claim'[k] = claim[k]
    PROVE  FaultFree'
  <1>1. ASSUME NEW k \in Keys PROVE Alone(w) /\ ~Working(w, k)'
    <2>1. Alone(w) /\ ~On(w, k)'
      BY LeaveMoves
    <2> QED
      BY <2>1 DEF On, Working
  <1>2. ASSUME NEW k \in Keys, NEW v \in Replicas, Working(v, k)'
        PROVE  Working(v, k) /\ v # w
    BY <1>1, <1>2, AloneWorks
  <1>3. ASSUME work[w].step # "claim", NEW v \in Replicas, faults = 0,
               NEW k \in Keys \ Legacy, k = KeyOf(w)
        PROVE  ~Working(v, k)'
    <2>1. Working(w, k)
      BY <1>3 DEF Working, KeyOf
    <2>2. ~(Working(v, k) /\ v # w)
      BY <1>3, <2>1 DEF FaultFree
    <2> QED
      BY <1>2, <2>2
  <1>4. ASSUME NEW k \in Keys \ Legacy
        PROVE  \/ /\ claim'[k] = claim[k]
                  /\ \A v \in Replicas : Working(v, k)' => Working(v, k)
               \/ \A v \in Replicas : faults = 0 => ~Working(v, k)'
    BY <1>2, <1>3
  <1> QED
    BY <1>4, StillFree

LEMMA FreeHandle ==
    ASSUME BillingInv, ClaimsUsage, FaultFree, NEW w \in Replicas, Handle(w)
    PROVE  FaultFree'
  <1>1. TypeOK /\ work \in [Replicas -> Work] /\ blame \in [Keys -> Nat]
        /\ claim \in [Keys -> [status : ClaimStatus, stale : BOOLEAN]]
    BY DEF BillingInv, TypeOK
  <1>2. ASSUME NEW e \in Events, Deliver(w, e) PROVE FaultFree'
    <2>1. ASSUME NEW k \in Keys \ Legacy, NEW v \in Replicas, Working(v, k)'
          PROVE  Working(v, k)
      <3>1. CASE UNCHANGED work
        BY <2>1, <3>1 DEF Working
      <3>2. CASE work' = [work EXCEPT ![w] = [step |-> IF e \in Legacy THEN "bill" ELSE "claim",
                                              event |-> e, row |-> 0]]
        <4>1. Alone(w) /\ work'[w].event = e
              /\ work'[w].step = IF e \in Legacy THEN "bill" ELSE "claim"
          BY <1>1, <3>2 DEF Alone
        <4>2. ~Working(w, k)'
          BY <2>1, <4>1, BillingAssumption DEF Working
        <4> QED
          BY <2>1, <4>1, <4>2, AloneWorks
      <3> QED
        BY <1>2, <3>1, <3>2 DEF Deliver
    <2>2. UNCHANGED <<claim, blame, faults>>
      BY <1>2 DEF Deliver
    <2> QED
      BY <2>1, <2>2, StillFree
  <1>3. CASE \/ BillExternally(w) \/ BillIncluded(w) \/ BillRefused(w) \/ Charge(w)
             \/ UpdateRecord(w)
    <2>1. work[w].step \notin {"idle", "claim"} /\ \E s : Go(w, s)
      BY <1>3, OutcomeIs DEF BillExternally, BillIncluded, BillRefused, Charge,
                             UpdateRecord, At
    <2>2. UNCHANGED <<claim, blame, faults>>
      BY <1>3 DEF BillExternally, BillIncluded, BillRefused, Charge, UpdateRecord
    <2> QED
      BY <1>1, <2>1, <2>2, GoFacts, GoFree DEF Alone
  <1>4. ASSUME NEW known \in SUBSET Sources, Bill(w, known) PROVE FaultFree'
    <2>1. work[w].step \notin {"idle", "claim"} /\ Alone(w) /\ work'[w].event = work[w].event
      <3>1. work[w] \in Work
        BY <1>1
      <3> QED
        BY <1>1, <1>4, <3>1 DEF Bill, At, Alone, Work
    <2>2. UNCHANGED <<claim, blame>> /\ (UNCHANGED faults \/ Fault)
      BY <1>4 DEF Bill
    <2> QED
      BY <2>1, <2>2, FaultyStep, GoFree
  <1>5. CASE Claim(w)
    <2>1. work[w].step = "claim" /\ KeyOf(w) \in Keys \ Legacy /\ UNCHANGED <<blame, faults>>
      BY <1>1, <1>5, KeyOfType, BillingAssumption DEF Claim, At, ClaimsUsage, KeyOf
    <2>2. CASE Claimable(KeyOf(w)) /\ Go(w, "bill")
               /\ claim' = [claim EXCEPT ![KeyOf(w)] = [status |-> "processing",
                                                        stale |-> FALSE]]
      <3>1. Alone(w) /\ work'[w].step = "bill" /\ work'[w].event = work[w].event
        BY <1>1, <2>2, GoFacts DEF Alone
      <3> SUFFICES ASSUME faults = 0, NEW k \in Keys \ Legacy
                   PROVE  /\ blame[k] = 0
                          /\ \A u, v \in Replicas :
                                Working(u, k)' =>
                                    /\ claim'[k].status = "processing" /\ ~claim'[k].stale
                                    /\ Working(v, k)' => u = v
        BY <2>1 DEF FaultFree
      <3>2. /\ blame[k] = 0
            /\ \A u, v \in Replicas :
                  Working(u, k) => /\ claim[k].status = "processing" /\ ~claim[k].stale
                                   /\ Working(v, k) => u = v
        BY DEF FaultFree
      <3>3. CASE k = KeyOf(w)
        <4>1. claim'[k].status = "processing" /\ ~claim'[k].stale
          BY <1>1, <2>1, <2>2, <3>3
        <4>2. ASSUME NEW v \in Replicas PROVE ~Working(v, k)
          BY <2>2, <3>2, <3>3 DEF Claimable
        <4>3. ASSUME NEW v \in Replicas, Working(v, k)' PROVE v = w
          BY <3>1, <4>2, <4>3, AloneWorks
        <4> QED
          BY <3>2, <4>1, <4>3
      <3>4. CASE k # KeyOf(w)
        <4>1. claim'[k] = claim[k]
          BY <1>1, <2>1, <2>2, <3>4
        <4>2. ~Working(w, k)'
          BY <3>1, <3>4 DEF Working, KeyOf
        <4>3. ASSUME NEW v \in Replicas, Working(v, k)' PROVE Working(v, k)
          BY <3>1, <4>2, <4>3, AloneWorks
        <4> QED
          BY <3>2, <4>1, <4>3
      <3> QED
        BY <3>3, <3>4
    <2>3. CASE Leave(w) /\ UNCHANGED claim
      BY <2>1, <2>3, LeaveFree
    <2> QED
      BY <1>5, <2>2, <2>3 DEF Claim
  <1>6. CASE Complete(w)
    <2>1. work[w].step = "done" /\ Leave(w) /\ UNCHANGED <<blame, faults>>
      BY <1>6 DEF Complete, At
    <2>2. \A k \in Keys \ {KeyOf(w)} : claim'[k] = claim[k]
      BY <1>1, <1>6 DEF Complete
    <2> QED
      BY <2>1, <2>2, LeaveFree
  <1>7. CASE MarkFailed(w)
    <2>1. work[w].step = "failed" /\ Leave(w) /\ UNCHANGED faults
      BY <1>7 DEF MarkFailed, At
    <2>2. \A k \in Keys \ {KeyOf(w)} : claim'[k] = claim[k]
      BY <1>1, <1>7 DEF MarkFailed
    <2>3. ASSUME NEW k \in Keys \ Legacy, faults = 0 PROVE blame'[k] = blame[k]
      <3>1. CASE k = KeyOf(w)
        <4>1. Working(w, k)
          BY <2>1, <3>1 DEF Working, KeyOf
        <4>2. ~\E v \in Replicas \ {w} : Working(v, k)
          BY <2>3, <4>1 DEF FaultFree
        <4> QED
          BY <1>7, <3>1, <4>2 DEF MarkFailed, BlameIf
      <3>2. CASE k # KeyOf(w)
        BY <1>1, <1>7, <3>2 DEF MarkFailed, BlameIf
      <3> QED
        BY <3>1, <3>2
    <2> QED
      BY <2>1, <2>2, <2>3, LeaveFree
  <1> QED
    BY <1>2, <1>3, <1>4, <1>5, <1>6, <1>7 DEF Handle

LEMMA FreeStep ==
    ASSUME BillingInv, ClaimsUsage, FaultFree, [Next]_vars PROVE FaultFree'
  <1>1. TypeOK /\ blame \in [Keys -> Nat]
        /\ claim \in [Keys -> [status : ClaimStatus, stale : BOOLEAN]]
    BY DEF BillingInv, TypeOK
  <1>2. CASE UNCHANGED vars
    BY <1>2 DEF FaultFree, Working, vars
  <1>3. ASSUME NEW w \in Replicas, Fail(w) PROVE FaultFree'
    <2>1. Fault
      BY <1>3 DEF Fail, ClaimRaises, ChargeFails, UpdateRecordFails, CompleteRaises, Crash
    <2> QED
      BY <2>1, FaultyStep
  <1>4. ASSUME NEW e \in Events, LockExpires(e) \/ CacheExpires(e) PROVE FaultFree'
    <2>1. UNCHANGED <<work, claim, faults>>
      BY <1>4 DEF LockExpires, CacheExpires
    <2>2. ASSUME NEW k \in Keys \ Legacy PROVE blame'[k] = blame[k]
      BY <1>1, <1>4, <2>2, BillingAssumption DEF LockExpires, CacheExpires, BlameIf
    <2>3. \A v \in Replicas, k \in Keys : Working(v, k)' <=> Working(v, k)
      BY <2>1 DEF Working
    <2> QED
      BY <2>1, <2>2, <2>3, StillFree
  <1>5. ASSUME NEW j \in Keys, ClaimGoesStale(j) PROVE FaultFree'
    <2>1. CASE Fault
      BY <2>1, FaultyStep
    <2>2. CASE ~Fault
      <3>1. UNCHANGED <<work, blame, faults>> /\ ~\E w \in Replicas : Working(w, j)
        BY <1>5, <2>2 DEF ClaimGoesStale
      <3>2. \A v \in Replicas, k \in Keys : Working(v, k)' <=> Working(v, k)
        BY <3>1 DEF Working
      <3>3. ASSUME NEW k \in Keys, k # j PROVE claim'[k] = claim[k]
        <4>1. claim' = [claim EXCEPT ![j].stale = TRUE]
          BY <1>5 DEF ClaimGoesStale
        <4> QED
          BY <1>1, <3>3, <4>1
      <3>4. ASSUME NEW k \in Keys \ Legacy
            PROVE  \/ /\ claim'[k] = claim[k]
                      /\ \A v \in Replicas : Working(v, k)' => Working(v, k)
                   \/ \A v \in Replicas : faults = 0 => ~Working(v, k)'
        <4>1. CASE k = j
          BY <3>1, <3>2, <4>1
        <4>2. CASE k # j
          BY <3>2, <3>3, <4>2
        <4> QED
          BY <4>1, <4>2
      <3> QED
        BY <3>1, <3>4, StillFree
    <2> QED
      BY <2>1, <2>2
  <1> QED
    BY <1>2, <1>3, <1>4, <1>5, FreeHandle DEF Next

-----------------------------------------------------------------------------
LEMMA ClaimsUsageStep ==
    ASSUME BillingInv, ClaimsUsage, [Next]_vars PROVE ClaimsUsage'
  <1>1. TypeOK /\ work \in [Replicas -> Work]
    BY DEF BillingInv, TypeOK
  <1>2. ASSUME NEW w \in Replicas, Alone(w), work'[w].step = "claim" => work'[w].event \in Usage
        PROVE  ClaimsUsage'
    BY <1>2 DEF ClaimsUsage, Alone
  <1>3. ASSUME NEW w \in Replicas, NEW s, s # "claim", Go(w, s) PROVE ClaimsUsage'
    BY <1>1, <1>2, <1>3, GoFacts DEF Alone
  <1>4. ASSUME NEW w \in Replicas, work' = [work EXCEPT ![w] = Idle] PROVE ClaimsUsage'
    BY <1>1, <1>2, <1>4 DEF Alone, Idle
  <1>5. CASE UNCHANGED work
    BY <1>5 DEF ClaimsUsage
  <1>6. ASSUME NEW w \in Replicas, NEW e \in Events, Deliver(w, e) PROVE ClaimsUsage'
    <2>1. CASE work' = [work EXCEPT ![w] = [step |-> IF e \in Legacy THEN "bill" ELSE "claim",
                                            event |-> e, row |-> 0]]
      BY <1>1, <1>2, <2>1 DEF Alone, Events
    <2> QED
      BY <1>5, <1>6, <2>1 DEF Deliver
  <1>7. ASSUME NEW w \in Replicas, NEW known \in SUBSET Sources, Bill(w, known)
        PROVE  ClaimsUsage'
    <2>1. work[w] \in Work
      BY <1>1
    <2>2. Alone(w) /\ work'[w].step # "claim"
      BY <1>1, <1>7, <2>1 DEF Bill, Alone, Work
    <2> QED
      BY <1>2, <2>2
  <1>8. ASSUME NEW w \in Replicas, Handle(w) PROVE ClaimsUsage'
    <2>1. CASE Claim(w) \/ Complete(w) \/ MarkFailed(w)
      BY <1>3, <1>4, <2>1 DEF Claim, Complete, MarkFailed, Leave
    <2>2. CASE \/ BillExternally(w) \/ BillIncluded(w) \/ BillRefused(w) \/ Charge(w)
               \/ UpdateRecord(w)
      <3>1. \E s \in {"done", "failed", "paid", "unpaid"} : Go(w, s)
        BY <2>2 DEF BillExternally, BillIncluded, BillRefused, Charge, UpdateRecord
      <3> QED
        BY <1>3, <3>1
    <2> QED
      BY <1>6, <1>7, <1>8, <2>1, <2>2 DEF Handle
  <1>9. ASSUME NEW w \in Replicas, Fail(w) PROVE ClaimsUsage'
    <2>1. (\E s \in {"failed", "unpaid"} : Go(w, s)) \/ work' = [work EXCEPT ![w] = Idle]
      BY <1>9 DEF Fail, ClaimRaises, ChargeFails, UpdateRecordFails, CompleteRaises, Crash
    <2> QED
      BY <1>3, <1>4, <2>1
  <1>10. CASE \/ \E e \in Events : LockExpires(e) \/ CacheExpires(e)
              \/ \E k \in Keys : ClaimGoesStale(k)
    BY <1>5, <1>10 DEF LockExpires, CacheExpires, ClaimGoesStale
  <1> QED
    BY <1>5, <1>8, <1>9, <1>10 DEF Next, vars

LEMMA ChargeInit == ASSUME Init PROVE ChargeInv
  <1>1. ASSUME NEW w \in Replicas PROVE work[w].step = "idle"
    BY <1>1 DEF Init, Idle
  <1>2. ASSUME NEW k \in Keys PROVE ChargeBound(k)
    <2>1. charges[k] = 0 /\ blame[k] = 0
      BY DEF Init
    <2>2. Chargers(k) = {}
      BY <1>1 DEF Chargers, On
    <2>3. Cardinality(Chargers(k)) = 0
      BY <2>2, FS_EmptySet
    <2> QED
      BY <2>1, <2>3 DEF ChargeBound
  <1>3. FaultFree
    BY <1>1 DEF Init, FaultFree, Working
  <1> QED
    BY <1>1, <1>2, <1>3 DEF ChargeInv, ClaimsUsage

LEMMA ChargeInvariant == Spec => [](BillingInv /\ ChargeInv)
  <1>1. Init => BillingInv /\ ChargeInv
    BY BillingInit, ChargeInit
  <1>2. ASSUME BillingInv, ChargeInv, [Next]_vars PROVE BillingInv' /\ ChargeInv'
    <2>1. BillingInv' /\ ClaimsUsage' /\ FaultFree'
      BY <1>2, BillingStep, ClaimsUsageStep, FreeStep DEF ChargeInv
    <2>2. \A k \in Keys : ChargeBound(k)'
      BY <1>2, <2>1, BoundStep
    <2> QED
      BY <2>1, <2>2 DEF ChargeInv
  <1> QED
    BY <1>1, <1>2, PTL DEF Spec

\* However often an event is delivered or published again, to however many
\* replicas, and whatever locks, cached results and claims expire: a key is
\* charged once, and once more at most for every fault that hit it while it was
\* being charged.  The bound also counts the handlers that are about to charge,
\* and the one that may start to.
THEOREM ChargesExplained == Spec => []ChargesAreExplained
  <1>1. ASSUME BillingInv, ChargeInv PROVE ChargesAreExplained
    <2> SUFFICES ASSUME NEW k \in Keys
                 PROVE  /\ charges[k] <= 1 + blame[k]
                        /\ k \notin Legacy /\ blame[k] > 0 => faults > 0
      BY DEF ChargesAreExplained
    <2>1. charges[k] \in Nat /\ blame[k] \in Nat /\ faults \in Nat
      BY <1>1, BillingAssumption DEF BillingInv, TypeOK
    <2> DEFINE n == Cardinality(Chargers(k))
               o == IF Open(k) THEN 1 ELSE 0
    <2>2. n \in Nat /\ o \in Nat /\ charges[k] + n + o <= 1 + blame[k]
      BY <1>1, ChargersFinite DEF ChargeInv, ChargeBound
    <2> HIDE DEF n, o
    <2>3. charges[k] <= 1 + blame[k]
      BY <2>1, <2>2
    <2>4. k \notin Legacy /\ faults = 0 => blame[k] = 0
      BY <1>1 DEF ChargeInv, FaultFree
    <2> QED
      BY <2>1, <2>3, <2>4
  <1> QED
    BY <1>1, ChargeInvariant, PTL

-----------------------------------------------------------------------------
\* What was charged to a source, by its paid records.
PaidTotal(s) == SumFunctionOnSet([i \in DOMAIN records |-> ToCharge(records[i])], PaidRows(s))
Accounted(s) == Funds[s] - funds[s] = PaidTotal(s)

LEMMA PaidFinite ==
    ASSUME TypeOK, NEW s
    PROVE  /\ IsFiniteSet(PaidRows(s)) /\ PaidRows(s) \subseteq DOMAIN records
           /\ \A i \in DOMAIN records : ToCharge(records[i]) \in Nat
           /\ PaidTotal(s) \in Int
  <1>1. records \in Seq(Record) /\ DOMAIN records = 1..Len(records) /\ Len(records) \in Nat
    BY DEF TypeOK
  <1>2. IsFiniteSet(DOMAIN records)
    BY <1>1, FS_Interval
  <1>3. PaidRows(s) \subseteq DOMAIN records
    BY DEF PaidRows
  <1>4. IsFiniteSet(PaidRows(s))
    BY <1>2, <1>3, FS_Subset
  <1>5. ASSUME NEW i \in DOMAIN records PROVE ToCharge(records[i]) \in Nat
    BY <1>1, ToChargeType
  <1> DEFINE f == [i \in DOMAIN records |-> ToCharge(records[i])]
  <1>6. \A i \in PaidRows(s) : f[i] \in Int
    BY <1>3, <1>5
  <1> HIDE DEF f
  <1>7. SumFunctionOnSet(f, PaidRows(s)) \in Int
    BY <1>4, <1>6, SumInt
  <1> QED
    BY <1>3, <1>4, <1>5, <1>7 DEF PaidTotal, f

\* A step that pays no record, and charges nobody.
LEMMA PaidSame ==
    ASSUME TypeOK, NEW s \in Sources, Accounted(s), funds'[s] = funds[s],
           DOMAIN records \subseteq DOMAIN records',
           \A i \in DOMAIN records : ToCharge(records[i])' = ToCharge(records[i]),
           PaidRows(s)' = PaidRows(s)
    PROVE  Accounted(s)'
  <1> DEFINE f == [i \in DOMAIN records |-> ToCharge(records[i])]
             g == [i \in DOMAIN records' |-> ToCharge(records[i])']
             S == PaidRows(s)
  <1>1. IsFiniteSet(S) /\ S \subseteq DOMAIN records
    BY PaidFinite
  <1>2. \A i \in S : f[i] = g[i]
    BY <1>1
  <1>3. PaidTotal(s) = SumFunctionOnSet(f, S) /\ PaidTotal(s)' = SumFunctionOnSet(g, S)
    BY DEF PaidTotal
  <1> HIDE DEF f, g, S
  <1>4. SumFunctionOnSet(f, S) = SumFunctionOnSet(g, S)
    BY <1>1, <1>2, SumSame
  <1> QED
    BY <1>3, <1>4 DEF Accounted

\* A charge.
LEMMA PaidMore ==
    ASSUME TypeOK, NEW s \in Sources, Accounted(s), NEW i \in DOMAIN records,
           i \notin PaidRows(s), PaidRows(s)' = PaidRows(s) \cup {i},
           DOMAIN records' = DOMAIN records,
           \A j \in DOMAIN records : ToCharge(records[j])' = ToCharge(records[j]),
           funds'[s] = funds[s] - ToCharge(records[i])
    PROVE  Accounted(s)'
  <1> DEFINE f == [j \in DOMAIN records |-> ToCharge(records[j])]
             S == PaidRows(s)
  <1>1. /\ IsFiniteSet(S) /\ S \subseteq DOMAIN records
        /\ \A j \in DOMAIN records : ToCharge(records[j]) \in Nat
        /\ PaidTotal(s) \in Int
    BY PaidFinite
  <1>2. \A j \in S \cup {i} : f[j] \in Int
    BY <1>1
  <1>3. f[i] = ToCharge(records[i])
    OBVIOUS
  <1>4. [j \in DOMAIN records' |-> ToCharge(records[j])'] = f
    OBVIOUS
  <1>5. PaidTotal(s) = SumFunctionOnSet(f, S)
        /\ PaidTotal(s)' = SumFunctionOnSet(f, S \cup {i})
    BY <1>4 DEF PaidTotal
  <1> HIDE DEF f, S
  <1>6. SumFunctionOnSet(f, S \cup {i}) = SumFunctionOnSet(f, S) + f[i]
    BY <1>1, <1>2, SumAdd DEF S
  <1>7. Funds[s] \in Nat /\ funds[s] \in Nat /\ ToCharge(records[i]) \in Nat
    BY <1>1, BillingAssumption DEF TypeOK
  <1> QED
    BY <1>1, <1>3, <1>5, <1>6, <1>7 DEF Accounted

\* What a step can do to the records and the funds.
LEMMA RecordWrites ==
    ASSUME BillingInv, [Next]_vars
    PROVE  \/ UNCHANGED <<records, funds>>
           \/ /\ UNCHANGED funds
              /\ \E w \in Replicas, total \in Nat, method \in Methods, status \in RecordStatus :
                    work[w].step # "idle" /\ NewRecord(w, total, method, status)
           \/ \E w \in Replicas :
                /\ work[w].step \in RowSteps
                /\ \/ /\ UNCHANGED funds
                      /\ \E s \in RecordStatus :
                            records' = [records EXCEPT ![work[w].row].status = s]
                   \/ work[w].step = "charge" /\ TakeCredits(w) /\ Covered(w)
  <1> DEFINE Written ==
           \/ UNCHANGED <<records, funds>>
           \/ /\ UNCHANGED funds
              /\ \E w \in Replicas, total \in Nat, method \in Methods, status \in RecordStatus :
                    work[w].step # "idle" /\ NewRecord(w, total, method, status)
           \/ \E w \in Replicas :
                /\ work[w].step \in RowSteps
                /\ \/ /\ UNCHANGED funds
                      /\ \E s \in RecordStatus :
                            records' = [records EXCEPT ![work[w].row].status = s]
                   \/ work[w].step = "charge" /\ TakeCredits(w) /\ Covered(w)
  <1>1. TypeOK
    BY DEF BillingInv
  <1>2. CASE UNCHANGED vars
    BY <1>2 DEF vars
  <1>3. ASSUME NEW w \in Replicas, Handle(w) PROVE Written
    <2>1. CASE Charge(w)
      BY <2>1 DEF Charge, At, RowSteps
    <2>2. CASE UpdateRecord(w)
      <3>1. work[w].step \in {"paid", "unpaid", "payment"}
            /\ Outcome[work[w].step] \in RecordStatus
        BY <2>2, OutcomeIs DEF UpdateRecord, RecordStatus
      <3>2. records' = [records EXCEPT ![work[w].row].status = Outcome[work[w].step]]
            /\ UNCHANGED funds
        BY <2>2 DEF UpdateRecord
      <3> QED
        BY <3>1, <3>2 DEF RowSteps
    <2>3. CASE \/ BillExternally(w) \/ BillIncluded(w)
               \/ \E known \in SUBSET Sources : Bill(w, known)
      <3>1. work[w].step # "idle" /\ UNCHANGED funds
        BY <2>3 DEF BillExternally, BillIncluded, Bill, At
      <3>2. Price[work[w].event] \in Nat
        BY <1>1, <3>1, KeyOfType, BillingAssumption
      <3>3. "included" \in Methods /\ "completed" \in RecordStatus /\ "processing" \in RecordStatus
            /\ Sources \cup {"payment"} \subseteq Methods
        BY DEF Methods, RecordStatus
      <3>4. CASE BillExternally(w) \/ BillIncluded(w)
        BY <3>1, <3>2, <3>3, <3>4 DEF BillExternally, BillIncluded
      <3>5. ASSUME NEW known \in SUBSET Sources, Bill(w, known) PROVE Written
        <4> DEFINE method == Method(work[w].event, Balances(known))
        <4>1. method \in Methods
          BY <3>3, MethodIs
        <4>2. NewRecord(w, Price[work[w].event], method, "processing")
          BY <3>5 DEF Bill
        <4> HIDE DEF method
        <4> QED
          BY <3>1, <3>2, <3>3, <4>1, <4>2
      <3> QED
        BY <2>3, <3>4, <3>5
    <2>4. CASE \/ \E e \in Events : Deliver(w, e)
               \/ Claim(w) \/ BillRefused(w) \/ Complete(w) \/ MarkFailed(w)
      BY <2>4 DEF Deliver, Claim, BillRefused, Complete, MarkFailed
    <2> QED
      BY <1>3, <2>1, <2>2, <2>3, <2>4 DEF Handle
  <1>4. ASSUME NEW w \in Replicas, Fail(w) PROVE Written
    <2>1. CASE ChargeFails(w)
      BY <2>1 DEF ChargeFails, At, RowSteps
    <2>2. CASE ClaimRaises(w) \/ UpdateRecordFails(w) \/ CompleteRaises(w) \/ Crash(w)
      BY <2>2 DEF ClaimRaises, UpdateRecordFails, CompleteRaises, Crash
    <2> QED
      BY <1>4, <2>1, <2>2 DEF Fail
  <1>5. CASE \/ \E e \in Events : LockExpires(e) \/ CacheExpires(e)
             \/ \E k \in Keys : ClaimGoesStale(k)
    BY <1>5 DEF LockExpires, CacheExpires, ClaimGoesStale
  <1> QED
    BY <1>2, <1>3, <1>4, <1>5 DEF Next

\* What is asked for a record depends on its total and its method only.
LEMMA ToChargeSame ==
    ASSUME NEW q, NEW r, q.total = r.total, q.method = r.method
    PROVE  ToCharge(q) = ToCharge(r)
  BY DEF ToCharge

LEMMA FundsStep ==
    ASSUME BillingInv, [Next]_vars, NEW s \in Sources, Accounted(s) PROVE Accounted(s)'
  <1>1. TypeOK /\ records \in Seq(Record)
    BY DEF BillingInv, TypeOK
  <1>2. CASE UNCHANGED <<records, funds>>
    BY <1>2 DEF Accounted, PaidTotal, PaidRows
  <1>3. ASSUME NEW w \in Replicas, NEW total \in Nat, NEW method \in Methods,
               NEW status \in RecordStatus, work[w].step # "idle",
               NewRecord(w, total, method, status), UNCHANGED funds
        PROVE  Accounted(s)'
    <2>1. /\ DOMAIN records \subseteq DOMAIN records'
          /\ \A i \in DOMAIN records : records'[i] = records[i]
          /\ DOMAIN records' = DOMAIN records \cup {Len(records) + 1}
          /\ ~records'[Len(records) + 1].paid
      <3>1. /\ records' \in Seq(Record) /\ Len(records') = Len(records) + 1
            /\ DOMAIN records \subseteq DOMAIN records'
            /\ \A i \in DOMAIN records : records'[i] = records[i]
            /\ records'[Len(records) + 1] =
                 [key |-> KeyOf(w), total |-> total, method |-> method,
                  status |-> status, paid |-> FALSE]
        BY <1>1, <1>3, AppendType
      <3>2. ~records'[Len(records) + 1].paid
        BY <3>1
      <3>3. DOMAIN records' = DOMAIN records \cup {Len(records) + 1}
        BY <1>1, <3>1
      <3> QED
        BY <3>1, <3>2, <3>3
    <2>2. PaidRows(s)' = PaidRows(s)
      BY <2>1 DEF PaidRows
    <2>3. \A i \in DOMAIN records : ToCharge(records[i])' = ToCharge(records[i])
      BY <2>1 DEF ToCharge
    <2> QED
      BY <1>1, <1>3, <2>1, <2>2, <2>3, PaidSame
  <1>4. ASSUME NEW w \in Replicas, work[w].step \in RowSteps, NEW t \in RecordStatus,
               records' = [records EXCEPT ![work[w].row].status = t], UNCHANGED funds
        PROVE  Accounted(s)'
    <2>1. work[w].row \in DOMAIN records /\ Row(w) \in Record
      BY <1>1, <1>4, RowType
    <2>2. /\ DOMAIN records' = DOMAIN records
          /\ \A i \in DOMAIN records : i # work[w].row => records'[i] = records[i]
          /\ records'[work[w].row] = [Row(w) EXCEPT !.status = t]
      BY <1>1, <1>4, <2>1 DEF Row
    <2>3. [Row(w) EXCEPT !.status = t].method = Row(w).method
          /\ [Row(w) EXCEPT !.status = t].total = Row(w).total
          /\ [Row(w) EXCEPT !.status = t].paid = Row(w).paid
      BY <2>1 DEF Record
    <2>4. \A i \in DOMAIN records : /\ records'[i].method = records[i].method
                                    /\ records'[i].total = records[i].total
                                    /\ records'[i].paid = records[i].paid
      BY <2>2, <2>3 DEF Row
    <2>5. PaidRows(s)' = PaidRows(s)
      BY <2>2, <2>4 DEF PaidRows
    <2>6. \A i \in DOMAIN records : ToCharge(records[i])' = ToCharge(records[i])
      BY <2>4 DEF ToCharge
    <2> QED
      BY <1>1, <1>4, <2>2, <2>5, <2>6, PaidSame
  <1>5. ASSUME NEW w \in Replicas, work[w].step = "charge", TakeCredits(w), Covered(w)
        PROVE  Accounted(s)'
    <2> DEFINE i == work[w].row
    <2>1. /\ i \in DOMAIN records /\ records[i] \in Record
          /\ records[i].method \in Sources /\ ~records[i].paid
      BY <1>1, <1>5, RowType DEF BillingInv, RowsInv, Knows, RowSteps, Row
    <2>2. records' = [records EXCEPT ![i] = [records[i] EXCEPT !.paid = TRUE]]
          /\ [records[i] EXCEPT !.paid = TRUE] \in Record
      BY <1>1, <1>5, <2>1, TakeType DEF Row
    <2>3. /\ [records[i] EXCEPT !.paid = TRUE].method = records[i].method
          /\ [records[i] EXCEPT !.paid = TRUE].total = records[i].total
          /\ [records[i] EXCEPT !.paid = TRUE].paid
      BY <2>1 DEF Record
    <2>4. /\ DOMAIN records' = DOMAIN records
          /\ \A j \in DOMAIN records : j # i => records'[j] = records[j]
          /\ records'[i] = [records[i] EXCEPT !.paid = TRUE]
      BY <1>1, <2>1, <2>2, WriteType
    <2>5. funds' = [funds EXCEPT ![records[i].method] =
                        funds[records[i].method] - ToCharge(records[i])]
      BY <1>5 DEF TakeCredits, Row
    <2> HIDE DEF i
    <2>6. \A j \in DOMAIN records : /\ records'[j].method = records[j].method
                                    /\ records'[j].total = records[j].total
      BY <2>3, <2>4
    <2>7. \A j \in DOMAIN records : ToCharge(records[j])' = ToCharge(records[j])
      BY <2>6 DEF ToCharge
    <2>8. funds \in [Sources -> Nat]
      BY <1>1 DEF TypeOK
    <2>9. CASE s = records[i].method
      <3>1. i \notin PaidRows(s) /\ PaidRows(s)' = PaidRows(s) \cup {i}
        BY <2>1, <2>3, <2>4, <2>9 DEF PaidRows
      <3>2. funds'[s] = funds[s] - ToCharge(records[i])
        BY <2>5, <2>8, <2>9
      <3> QED
        BY <1>1, <2>1, <2>4, <2>7, <3>1, <3>2, PaidMore
    <2>10. CASE s # records[i].method
      <3>1. PaidRows(s)' = PaidRows(s)
        BY <2>1, <2>3, <2>4, <2>10 DEF PaidRows
      <3>2. funds'[s] = funds[s]
        BY <2>5, <2>8, <2>10
      <3> QED
        BY <1>1, <2>4, <2>7, <3>1, <3>2, PaidSame
    <2> QED
      BY <2>9, <2>10
  <1> QED
    BY <1>2, <1>3, <1>4, <1>5, RecordWrites

\* What was taken from the user at each source is the sum of the records of that
\* source that were paid, for any number of handlers at work: no charge without
\* its record, none twice, none at another source.
THEOREM FundsAccounted == Spec => []FundsAccountedFor
  <1> DEFINE All == \A s \in Sources : Accounted(s)
  <1>1. Init => All
    <2> SUFFICES ASSUME Init, NEW s \in Sources PROVE Accounted(s)
      OBVIOUS
    <2>1. PaidRows(s) = {} /\ funds[s] = Funds[s]
      BY DEF Init, PaidRows
    <2>2. PaidTotal(s) = 0
      BY <2>1, SumEmpty DEF PaidTotal
    <2>3. Funds[s] \in Nat
      BY BillingAssumption
    <2> QED
      BY <2>1, <2>2, <2>3 DEF Accounted
  <1>2. BillingInv /\ All /\ [Next]_vars => All'
    BY FundsStep
  <1>3. All => FundsAccountedFor
    BY DEF FundsAccountedFor, Accounted, PaidTotal
  <1> QED
    BY <1>1, <1>2, <1>3, BillingInvariant, PTL DEF Spec
=============================================================================
