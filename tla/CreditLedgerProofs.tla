------------------------- MODULE CreditLedgerProofs -------------------------
(***************************************************************************)
(* Proofs about CreditLedger, for any users, types, campaigns, calls,      *)
(* amounts and bounds.  The invariant LedgerInv says what every call in    *)
(* progress still owes to its account: the difference between the records  *)
(* of an account is always the sum of what is owed to it.  Its parts are   *)
(* defined first; then come what a statement does to the call that runs it *)
(* (the ...Effect lemmas), how calls start (...Starts), and one section    *)
(* per part of the invariant with a lemma per kind of statement.  The      *)
(* theorems are at the end.                                                *)
(***************************************************************************)
EXTENDS CreditLedger, SumTheorems, SequenceTheorems

-----------------------------------------------------------------------------
(* The statements a call has before it.                                    *)

Uses == {"consumed", "expired"}

\* The statement of a grant, of a transfer and of a deletion after which r
\* more are to come.
GrantWrite(k, r) ==
    LET q == IF k.campaign = NoCampaign THEN r + 1 ELSE r IN
    IF q = 0 THEN "budget" ELSE IF q = 1 THEN "alloc" ELSE IF q = 2 THEN "balance" ELSE "txn"
MoveWrite(r) == IF r >= 2 THEN "txn" ELSE "balance"
DeleteWrite(r) == IF r = 0 THEN "del_accounts" ELSE IF r = 1 THEN "del_txns" ELSE "del_allocs"

\* In these definitions acc and all are the tables: the accounts and the
\* allocations, before or after a step.
GrantShape(k, acc) ==
    /\ Len(k.todo) <= IF k.campaign = NoCampaign THEN 3 ELSE 4
    /\ \E a \in DOMAIN acc : \A j \in DOMAIN k.todo :
          k.todo[j] = Do(GrantWrite(k, Len(k.todo) - j), a, k.n, 0)

MoveShape(k, acc) ==
    /\ Len(k.todo) <= 4
    /\ \E b \in DOMAIN acc :
          /\ b # k.from
          /\ \A j \in DOMAIN k.todo :
                LET r == Len(k.todo) - j IN
                k.todo[j] = IF r \in {0, 2} THEN Do(MoveWrite(r), b, k.n, 0)
                            ELSE Do(MoveWrite(r), k.from, -k.n, 0)

DeleteShape(k) ==
    /\ Len(k.todo) <= 3
    /\ \A j \in DOMAIN k.todo : k.todo[j] = Do(DeleteWrite(Len(k.todo) - j), 0, 0, 0)

\* A plan is a transaction, a balance and a use for each of some allocations.
ItemShape(t, j) ==
    /\ t[j].write \in {"txn", "balance"} \cup Uses
    /\ t[j].write = "txn" =>
          /\ j + 1 \in DOMAIN t /\ t[j + 1].write = "balance"
          /\ t[j + 1].account = t[j].account /\ t[j + 1].alloc = t[j].alloc
          /\ t[j + 1].n = t[j].n
    /\ t[j].write = "balance" =>
          /\ j + 1 \in DOMAIN t /\ t[j + 1].write \in Uses
          /\ t[j + 1].account = t[j].account /\ t[j + 1].alloc = t[j].alloc
          /\ t[j + 1].n = -t[j].n
    /\ t[j].write \in Uses =>
          /\ t[j].n \in Nat
          /\ j + 1 \in DOMAIN t => t[j + 1].write = "txn"
          /\ \A m \in DOMAIN t : m > j => t[m].alloc # t[j].alloc

PlanShape(t, all) ==
    \A j \in DOMAIN t :
        /\ t[j].alloc \in DOMAIN all /\ all[t[j].alloc].account = t[j].account
        /\ ItemShape(t, j)

\* Where a call can be: before its statements, or at them.
StepSound(k, acc) ==
    /\ k.step = "run" <=> k.todo # <<>>
    /\ k.step = "idle" <=> k.kind = "none"
    /\ k.step \in {"open", "check"} => k.kind \in {"allocate", "transfer"} /\ k.user \in Users
    /\ k.step = "plan" => k.kind = "consume"
    /\ k.kind \in {"allocate", "transfer", "consume"} => k.n > 0
    /\ k.kind = "transfer" => k.from \in DOMAIN acc /\ acc[k.from].user # k.user
    /\ k.kind # "transfer" => k.from = 0
    /\ k.kind # "allocate" => k.campaign = NoCampaign
    /\ k.kind \in {"delete", "expire"} => k.step = "run"

CallSound(k, acc, all) ==
    /\ StepSound(k, acc)
    /\ k.kind = "allocate" /\ k.step = "run" => GrantShape(k, acc)
    /\ k.kind = "transfer" /\ k.step = "run" => MoveShape(k, acc)
    /\ k.kind = "delete" => DeleteShape(k)
    /\ k.kind \in {"consume", "expire"} => PlanShape(k.todo, all)

CallsSound == \A c \in Calls : CallSound(call[c], accounts, allocs)

-----------------------------------------------------------------------------
(* The balance against the allocations and against the transactions.       *)

Deleting(a) == \E c \in Calls : call[c].kind = "delete" /\ call[c].user = accounts[a].user
Excused(a, whys) == ~accounts[a].live \/ Deleting(a) \/ excuse[a] \cap whys # {}

\* What a call has put on the balance and not yet on an allocation.
DriftOf(k, a) ==
    IF k.todo = <<>> \/ Head(k.todo).account # a THEN 0
    ELSE CASE Head(k.todo).write = "alloc" -> Head(k.todo).n
           [] Head(k.todo).write \in Uses  -> -Head(k.todo).n
           [] OTHER -> 0

\* What it has put into the transactions and not yet on the balance.
BookedOf(k, a) ==
    LET r == Len(k.todo) IN
    IF k.todo = <<>> THEN 0
    ELSE IF k.kind = "transfer"
         THEN (IF a = k.from /\ r \in {2, 3} THEN -k.n ELSE 0)
              + (IF a = k.todo[r].account /\ r \in {1, 2} THEN k.n ELSE 0)
         ELSE IF Head(k.todo).write = "balance" /\ Head(k.todo).account = a
              THEN Head(k.todo).n ELSE 0

Drifting(a) == SumFunctionOnSet([c \in Calls |-> DriftOf(call[c], a)], Calls)
Booked(a) == SumFunctionOnSet([c \in Calls |-> BookedOf(call[c], a)], Calls)

BalanceInv == \A a \in DOMAIN accounts :
    /\ Excused(a, {"lapsed", "moved", "lost"}) \/ Drift(a) = Drifting(a)
    /\ Excused(a, {"lapsed", "refused", "lost"}) \/ ledger[a] - accounts[a].balance = Booked(a)

\* An allocation is only gone with its user, or a deletion was lost.
AllocsInv == \A i \in DOMAIN allocs :
    allocs[i].live \/ Excused(allocs[i].account, {"lost"})

-----------------------------------------------------------------------------
(* Who uses an allocation.                                                 *)

UseInv ==
    \A i \in DOMAIN allocs \ shared :
        /\ Left(i) >= 0
        /\ \A c, d \in Calls : i \in Planned(c) /\ i \in Planned(d) => c = d
        /\ \A c \in Calls, j \in Nat :
              j \in DOMAIN Todo(c) /\ Todo(c)[j].write \in Uses /\ Todo(c)[j].alloc = i
                => Todo(c)[j].n <= Left(i)

-----------------------------------------------------------------------------
(* What a campaign pays for.                                               *)

ChargeOf(x, k) ==
    IF x.campaign = k /\ x.todo # <<>> /\ Head(x.todo).write = "budget" THEN x.n ELSE 0
ToCharge(k) == SumFunctionOnSet([c \in Calls |-> ChargeOf(call[c], k)], Calls)
GrantsOf(k) == {i \in DOMAIN allocs : allocs[i].campaign = k}
Granted(k) == SumFunctionOnSet([i \in DOMAIN allocs |-> allocs[i].amount], GrantsOf(k))

CampaignInv ==
    /\ \A k \in Campaigns :
          /\ allocated[k] <= Budget[k]
          /\ allocated[k] + ToCharge(k) <= Granted(k)
          /\ \/ allocated[k] + ToCharge(k) = Granted(k)
             \/ \E i \in GrantsOf(k) : excuse[allocs[i].account] \cap {"overrun", "lost"} # {}
    /\ \A c \in Calls :
          Todo(c) # <<>> /\ Head(Todo(c)).write = "budget" =>
            \E i \in GrantsOf(call[c].campaign) : allocs[i].account = Head(Todo(c)).account

-----------------------------------------------------------------------------
LedgerInv == TypeOK /\ CallsSound /\ BalanceInv /\ AllocsInv /\ UseInv /\ CampaignInv

-----------------------------------------------------------------------------

(* Calls and their statements.                                             *)

\* An idle slot is sound, whatever the tables hold.
LEMMA IdleSound ==
    ASSUME NEW acc, NEW all
    PROVE  /\ Idle \in Call /\ CallSound(Idle, acc, all)
           /\ Idle.todo = <<>> /\ Idle.kind = "none" /\ Idle.campaign = NoCampaign
  <1>1. AnyType \in Types
    BY LedgerAssumption DEF AnyType
  <1>2. <<>> \in Seq(Statement) /\ NoCampaign \in Campaigns \cup {NoCampaign} /\ 0 \in 0..Never
    BY LedgerAssumption
  <1>3. Idle \in Call
    BY <1>1, <1>2 DEF Idle, Call, Kinds, Steps
  <1> QED
    BY <1>3 DEF Idle, CallSound, StepSound, PlanShape

\* Every statement of the code is a statement.
LEMMA DoType ==
    ASSUME NEW w \in Writes, NEW a \in Nat, NEW n \in Int, NEW i \in Nat
    PROVE  /\ Do(w, a, n, i) \in Statement
           /\ Do(w, a, n, i).write = w /\ Do(w, a, n, i).account = a
           /\ Do(w, a, n, i).n = n /\ Do(w, a, n, i).alloc = i
  BY DEF Do, Statement

\* What Proceed makes of a call.
Advance(k, t) == IF t = <<>> THEN Idle ELSE [k EXCEPT !.step = "run", !.todo = t]

\* Proceed advances the call, or frees its slot when nothing is left to do.
LEMMA Proceeding ==
    ASSUME NEW c, NEW t, Proceed(c, t)
    PROVE  call' = [call EXCEPT ![c] = Advance(call[c], t)]
  BY DEF Proceed, Return, Run, Advance

\* What Advance keeps of a call.
LEMMA AdvanceFields ==
    ASSUME NEW k \in Call, NEW t \in Seq(Statement)
    PROVE  /\ Advance(k, t) \in Call
           /\ Advance(k, t).todo = t
           /\ t # <<>> => /\ Advance(k, t).kind = k.kind /\ Advance(k, t).step = "run"
                          /\ Advance(k, t).user = k.user /\ Advance(k, t).n = k.n
                          /\ Advance(k, t).campaign = k.campaign
                          /\ Advance(k, t).from = k.from
                          /\ Advance(k, t).expires = k.expires
           /\ t = <<>> => Advance(k, t) = Idle
  <1>1. CASE t = <<>>
    BY <1>1, IdleSound DEF Advance
  <1>2. CASE t # <<>>
    BY <1>2 DEF Advance, Call, Steps
  <1> QED
    BY <1>1, <1>2

\* The statements after the first.
LEMMA Rest ==
    ASSUME NEW t \in Seq(Statement), t # <<>>
    PROVE  /\ Len(t) \in Nat /\ Len(t) >= 1 /\ DOMAIN t = 1..Len(t)
           /\ Head(t) = t[1] /\ Head(t) \in Statement
           /\ Tail(t) \in Seq(Statement) /\ Len(Tail(t)) = Len(t) - 1
           /\ DOMAIN Tail(t) = 1..(Len(t) - 1)
           /\ \A j \in 1..(Len(t) - 1) : Tail(t)[j] = t[j + 1] /\ j + 1 \in DOMAIN t
           /\ Tail(t) = <<>> <=> Len(t) = 1
  <1>1. Len(t) \in Nat /\ DOMAIN t = 1..Len(t)
    BY LenProperties
  <1>2. Len(t) >= 1
    BY <1>1, EmptySeq
  <1>3. Head(t) = t[1] /\ t[1] \in Statement
    BY <1>1, <1>2, ElementOfSeq, HeadTailProperties
  <1>4. /\ Tail(t) \in Seq(Statement) /\ Len(Tail(t)) = Len(t) - 1
        /\ \A j \in 1..Len(Tail(t)) : Tail(t)[j] = t[j + 1]
    BY HeadTailProperties
  <1>5. DOMAIN Tail(t) = 1..(Len(t) - 1)
    BY <1>4, LenProperties
  <1>6. Tail(t) = <<>> <=> Len(Tail(t)) = 0
    BY <1>4, EmptySeq
  <1> QED
    BY <1>1, <1>2, <1>3, <1>4, <1>5, <1>6

\* A plan stays one when its first statement is done.
LEMMA PlanRest ==
    ASSUME NEW t \in Seq(Statement), t # <<>>, NEW all, PlanShape(t, all)
    PROVE  PlanShape(Tail(t), all)
  <1> DEFINE u == Tail(t)
  <1>1. /\ Len(t) \in Nat /\ Len(t) >= 1 /\ DOMAIN t = 1..Len(t)
        /\ DOMAIN u = 1..(Len(t) - 1)
        /\ \A j \in 1..(Len(t) - 1) : u[j] = t[j + 1] /\ j + 1 \in DOMAIN t
    BY Rest
  <1> HIDE DEF u
  <1>2. ASSUME NEW j \in DOMAIN u
        PROVE  /\ u[j].alloc \in DOMAIN all /\ all[u[j].alloc].account = u[j].account
               /\ ItemShape(u, j)
    <2>1. j \in Nat /\ j + 1 \in DOMAIN t /\ u[j] = t[j + 1]
      BY <1>1, <1>2
    <2>2. /\ t[j + 1].alloc \in DOMAIN all /\ all[t[j + 1].alloc].account = t[j + 1].account
          /\ ItemShape(t, j + 1)
      BY <2>1 DEF PlanShape
    <2>3. j + 1 \in DOMAIN u <=> j + 2 \in DOMAIN t
      BY <1>1, <2>1
    <2>4. j + 1 \in DOMAIN u => u[j + 1] = t[j + 2]
      BY <1>1, <2>1
    <2>5. (j + 1) + 1 = j + 2
      BY <2>1
    <2>6. ASSUME NEW m \in DOMAIN u, m > j, u[j].write \in Uses PROVE u[m].alloc # u[j].alloc
      <3>1. m \in Nat /\ m + 1 \in DOMAIN t /\ u[m] = t[m + 1] /\ m + 1 > j + 1
        BY <1>1, <2>1, <2>6
      <3> QED
        BY <2>1, <2>2, <2>6, <3>1 DEF ItemShape
    <2>7. ItemShape(u, j)
      BY <2>1, <2>2, <2>3, <2>4, <2>5, <2>6 DEF ItemShape
    <2> QED
      BY <2>1, <2>2, <2>7
  <1> QED
    BY <1>2 DEF PlanShape, u

\* So do the statements of an allocation.
LEMMA GrantRest ==
    ASSUME NEW k \in Call, k.todo # <<>>, NEW acc, GrantShape(k, acc), NEW x,
           x.todo = Tail(k.todo), x.n = k.n, x.campaign = k.campaign
    PROVE  GrantShape(x, acc)
  <1> DEFINE t == k.todo  u == x.todo
  <1>0. t \in Seq(Statement)
    BY DEF Call
  <1>1. /\ Len(t) \in Nat /\ Len(t) >= 1 /\ DOMAIN t = 1..Len(t)
        /\ Len(u) = Len(t) - 1 /\ DOMAIN u = 1..(Len(t) - 1)
        /\ \A j \in 1..(Len(t) - 1) : u[j] = t[j + 1] /\ j + 1 \in DOMAIN t
    BY <1>0, Rest
  <1>2. PICK a \in DOMAIN acc : \A j \in DOMAIN t :
            t[j] = Do(GrantWrite(k, Len(t) - j), a, k.n, 0)
    BY DEF GrantShape
  <1>3. Len(t) <= IF k.campaign = NoCampaign THEN 3 ELSE 4
    BY DEF GrantShape
  <1> HIDE DEF t, u
  <1>4. ASSUME NEW j \in DOMAIN u
        PROVE  u[j] = Do(GrantWrite(x, Len(u) - j), a, x.n, 0)
    <2>1. j \in Int /\ u[j] = t[j + 1] /\ j + 1 \in DOMAIN t /\ Len(u) - j = Len(t) - (j + 1)
      BY <1>1
    <2>2. GrantWrite(x, Len(u) - j) = GrantWrite(k, Len(t) - (j + 1))
      BY <2>1 DEF GrantWrite
    <2> QED
      BY <1>2, <2>1, <2>2
  <1>5. Len(u) <= IF x.campaign = NoCampaign THEN 3 ELSE 4
    BY <1>1, <1>3
  <1> QED
    BY <1>4, <1>5 DEF GrantShape, u

\* So do those of a transfer.
LEMMA MoveRest ==
    ASSUME NEW k \in Call, k.todo # <<>>, NEW acc, MoveShape(k, acc), NEW x,
           x.todo = Tail(k.todo), x.n = k.n, x.from = k.from
    PROVE  MoveShape(x, acc)
  <1> DEFINE t == k.todo  u == x.todo
  <1>0. t \in Seq(Statement)
    BY DEF Call
  <1>1. /\ Len(t) \in Nat /\ Len(t) >= 1 /\ DOMAIN t = 1..Len(t)
        /\ Len(u) = Len(t) - 1 /\ DOMAIN u = 1..(Len(t) - 1)
        /\ \A j \in 1..(Len(t) - 1) : u[j] = t[j + 1] /\ j + 1 \in DOMAIN t
    BY <1>0, Rest
  <1>2. PICK b \in DOMAIN acc :
            /\ b # k.from
            /\ \A j \in DOMAIN t :
                  t[j] = IF Len(t) - j \in {0, 2} THEN Do(MoveWrite(Len(t) - j), b, k.n, 0)
                         ELSE Do(MoveWrite(Len(t) - j), k.from, -k.n, 0)
    BY DEF MoveShape
  <1>3. Len(t) <= 4
    BY DEF MoveShape
  <1> HIDE DEF t, u
  <1>4. ASSUME NEW j \in DOMAIN u
        PROVE  u[j] = IF Len(u) - j \in {0, 2} THEN Do(MoveWrite(Len(u) - j), b, x.n, 0)
                      ELSE Do(MoveWrite(Len(u) - j), x.from, -x.n, 0)
    <2>1. j \in Int /\ u[j] = t[j + 1] /\ j + 1 \in DOMAIN t /\ Len(u) - j = Len(t) - (j + 1)
      BY <1>1
    <2> QED
      BY <1>2, <2>1
  <1>5. Len(u) <= 4
    BY <1>1, <1>3
  <1> QED
    BY <1>2, <1>4, <1>5 DEF MoveShape, u

\* And those of a deletion.
LEMMA DeleteRest ==
    ASSUME NEW k \in Call, k.todo # <<>>, DeleteShape(k), NEW x, x.todo = Tail(k.todo)
    PROVE  DeleteShape(x)
  <1> DEFINE t == k.todo  u == x.todo
  <1>0. t \in Seq(Statement)
    BY DEF Call
  <1>1. /\ Len(t) \in Nat /\ Len(t) >= 1 /\ DOMAIN t = 1..Len(t)
        /\ Len(u) = Len(t) - 1 /\ DOMAIN u = 1..(Len(t) - 1)
        /\ \A j \in 1..(Len(t) - 1) : u[j] = t[j + 1] /\ j + 1 \in DOMAIN t
    BY <1>0, Rest
  <1>2. Len(t) <= 3 /\ \A j \in DOMAIN t : t[j] = Do(DeleteWrite(Len(t) - j), 0, 0, 0)
    BY DEF DeleteShape
  <1> HIDE DEF t, u
  <1>4. ASSUME NEW j \in DOMAIN u PROVE u[j] = Do(DeleteWrite(Len(u) - j), 0, 0, 0)
    <2>1. j \in Int /\ u[j] = t[j + 1] /\ j + 1 \in DOMAIN t /\ Len(u) - j = Len(t) - (j + 1)
      BY <1>1
    <2> QED
      BY <1>2, <2>1
  <1> QED
    BY <1>1, <1>2, <1>4 DEF DeleteShape, u

\* A call that has run a statement goes on with the next.
LEMMA RestSound ==
    ASSUME NEW k \in Call, NEW acc, NEW all, CallSound(k, acc, all), k.step = "run"
    PROVE  /\ Advance(k, Tail(k.todo)) \in Call
           /\ CallSound(Advance(k, Tail(k.todo)), acc, all)
  <1> DEFINE u == Tail(k.todo)  x == Advance(k, u)
  <1>1. k.todo \in Seq(Statement) /\ k.todo # <<>>
    BY DEF Call, CallSound, StepSound
  <1>2. u \in Seq(Statement)
    BY <1>1, Rest
  <1>3. /\ x \in Call /\ x.todo = u
        /\ u # <<>> => /\ x.kind = k.kind /\ x.step = "run" /\ x.user = k.user /\ x.n = k.n
                       /\ x.campaign = k.campaign /\ x.from = k.from
        /\ u = <<>> => x = Idle
    BY <1>2, AdvanceFields
  <1> HIDE DEF x
  <1>4. CASE u = <<>>
    BY <1>3, <1>4, IdleSound DEF x
  <1>5. CASE u # <<>>
    <2>1. StepSound(x, acc)
      BY <1>3, <1>5 DEF CallSound, StepSound
    <2>2. k.kind = "allocate" => GrantShape(x, acc)
      BY <1>1, <1>3, <1>5, GrantRest DEF CallSound
    <2>3. k.kind = "transfer" => MoveShape(x, acc)
      BY <1>1, <1>3, <1>5, MoveRest DEF CallSound
    <2>4. k.kind = "delete" => DeleteShape(x)
      BY <1>1, <1>3, <1>5, DeleteRest DEF CallSound
    <2>5. k.kind \in {"consume", "expire"} => PlanShape(u, all)
      BY <1>1, PlanRest DEF CallSound
    <2>6. CallSound(x, acc, all)
      BY <1>3, <1>5, <2>1, <2>2, <2>3, <2>4, <2>5 DEF CallSound
    <2> QED
      BY <1>3, <2>6 DEF x
  <1> QED
    BY <1>4, <1>5

\* A job whose item failed goes on with its next item.
LEMMA SkipSound ==
    ASSUME NEW c \in Calls, call[c] \in Call, call[c].step = "run",
           CallSound(call[c], accounts, allocs)
    PROVE  /\ AfterError(c) \in Seq(Statement)
           /\ AfterError(c) # <<>> => call[c].kind = "expire" /\ Head(AfterError(c)).write = "txn"
           /\ \A j \in DOMAIN AfterError(c) :
                 \E m \in DOMAIN Todo(c) : AfterError(c)[j] = Todo(c)[m]
           /\ Advance(call[c], AfterError(c)) \in Call
           /\ CallSound(Advance(call[c], AfterError(c)), accounts, allocs)
  <1> DEFINE t == Todo(c)  u == AfterError(c)  x == Advance(call[c], u)
             items == {j \in 2..Len(t) : t[j].write = "txn"}
             m == Min(items)
  <1>1. t \in Seq(Statement) /\ t = call[c].todo
    BY DEF Call, Todo
  <1>2. Len(t) \in Nat /\ DOMAIN t = 1..Len(t)
    BY <1>1, LenProperties
  <1>3. u = IF call[c].kind = "expire" /\ items # {} THEN SubSeq(t, m, Len(t)) ELSE <<>>
    BY DEF AfterError
  <1> HIDE DEF t, u, x
  <1>4. CASE ~(call[c].kind = "expire" /\ items # {})
    <2>1. u = <<>>
      BY <1>3, <1>4
    <2>2. u \in Seq(Statement) /\ DOMAIN u = {}
      BY <2>1
    <2>3. x = Idle
      BY <2>1 DEF x, Advance
    <2> QED
      BY <2>1, <2>2, <2>3, IdleSound DEF u, x, t
  <1>5. CASE call[c].kind = "expire" /\ items # {}
    <2>1. items \in SUBSET Nat
      BY <1>2
    <2>2. \E n \in items : \A y \in items : n <= y
      BY <1>5, <2>1, LeastNumber
    <2>3. m \in items
      BY <2>2 DEF Min
    <2> HIDE DEF m
    <2>4. m \in Nat /\ m >= 2 /\ m <= Len(t) /\ t[m].write = "txn"
      BY <1>2, <2>3
    <2>5. u = SubSeq(t, m, Len(t))
      BY <1>3, <1>5
    <2>6. \A i \in m..Len(t) : t[i] \in Statement
      BY <1>1, <1>2, <2>4, ElementOfSeq
    <2>7. /\ u \in Seq(Statement) /\ Len(u) = Len(t) - m + 1
          /\ \A i \in 1..Len(t) - m + 1 : u[i] = t[m + i - 1]
      BY <1>2, <2>4, <2>5, <2>6, SubSeqProperties
    <2>8. DOMAIN u = 1..(Len(t) - m + 1) /\ u # <<>>
      BY <2>4, <2>7, LenProperties, EmptySeq, <1>2
    <2>9. u[1] = t[m] /\ Head(u) = u[1]
      BY <1>2, <2>4, <2>7, <2>8
    <2>10. \A j \in DOMAIN u : u[j] = t[m + j - 1] /\ m + j - 1 \in DOMAIN t
      BY <1>2, <2>4, <2>7, <2>8
    <2>11. PlanShape(t, allocs)
      BY <1>1, <1>5 DEF CallSound
    <2>12. ASSUME NEW j \in DOMAIN u
           PROVE  /\ u[j].alloc \in DOMAIN allocs
                  /\ allocs[u[j].alloc].account = u[j].account
                  /\ ItemShape(u, j)
      <3> DEFINE i == m + j - 1
      <3>1. j \in Nat /\ i \in DOMAIN t /\ u[j] = t[i] /\ i \in Nat
        BY <1>2, <2>4, <2>8, <2>10
      <3>2. /\ t[i].alloc \in DOMAIN allocs /\ allocs[t[i].alloc].account = t[i].account
            /\ ItemShape(t, i)
        BY <2>11, <3>1 DEF PlanShape
      <3>3. m + (j + 1) - 1 = i + 1
        BY <2>4, <3>1
      <3>4. j + 1 \in DOMAIN u <=> i + 1 \in DOMAIN t
        BY <1>2, <2>4, <2>8, <3>1
      <3>5. j + 1 \in DOMAIN u => u[j + 1] = t[i + 1]
        BY <2>10, <3>3
      <3>6. ASSUME NEW q \in DOMAIN u, q > j, u[j].write \in Uses
            PROVE  u[q].alloc # u[j].alloc
        <4>1. u[q] = t[m + q - 1] /\ m + q - 1 \in DOMAIN t /\ m + q - 1 > i
          BY <2>4, <2>8, <2>10, <3>1, <3>6, <1>2
        <4> QED
          BY <3>1, <3>2, <3>6, <4>1 DEF ItemShape
      <3> HIDE DEF i
      <3>7. ItemShape(u, j)
        BY <3>1, <3>2, <3>4, <3>5, <3>6 DEF ItemShape
      <3> QED
        BY <3>1, <3>2, <3>7
    <2>13. PlanShape(u, allocs)
      BY <2>12 DEF PlanShape
    <2>14. /\ x \in Call /\ x.todo = u /\ x.kind = "expire" /\ x.step = "run"
           /\ x.campaign = call[c].campaign /\ x.from = call[c].from
      BY <1>5, <2>7, <2>8, AdvanceFields DEF x
    <2>15. CallSound(x, accounts, allocs)
      BY <1>5, <2>8, <2>13, <2>14 DEF CallSound, StepSound
    <2>16. Head(u).write = "txn"
      BY <2>4, <2>9
    <2> QED
      BY <1>5, <2>7, <2>10, <2>14, <2>15, <2>16 DEF u, x, t
  <1> QED
    BY <1>4, <1>5

\* Rows are only ever added, and what identifies them stays.
KeepsUsers(acc, new) ==
    /\ DOMAIN acc \subseteq DOMAIN new
    /\ \A a \in DOMAIN acc : new[a].user = acc[a].user
KeepsRows(all, new) ==
    /\ DOMAIN all \subseteq DOMAIN new
    /\ \A i \in DOMAIN all : /\ new[i].account = all[i].account
                             /\ new[i].campaign = all[i].campaign
                             /\ new[i].amount = all[i].amount

\* A call stays sound when rows are added and no row changes its user or account.
LEMMA StaysSound ==
    ASSUME NEW k, NEW acc, NEW all, NEW acc2, NEW all2, CallSound(k, acc, all),
           KeepsUsers(acc, acc2), KeepsRows(all, all2)
    PROVE  CallSound(k, acc2, all2)
  <1>1. StepSound(k, acc2)
    BY DEF CallSound, StepSound, KeepsUsers
  <1>2. GrantShape(k, acc) => GrantShape(k, acc2)
    BY DEF GrantShape, KeepsUsers
  <1>3. MoveShape(k, acc) => MoveShape(k, acc2)
    BY DEF MoveShape, KeepsUsers
  <1>4. PlanShape(k.todo, all) => PlanShape(k.todo, all2)
    BY DEF PlanShape, KeepsRows
  <1> QED
    BY <1>1, <1>2, <1>3, <1>4 DEF CallSound

-----------------------------------------------------------------------------
(* The first statement, and the one after it.                              *)

\* Of an allocation.
LEMMA GrantHead ==
    ASSUME NEW k \in Call, k.todo # <<>>, NEW acc, GrantShape(k, acc)
    PROVE  LET h == Head(k.todo)  u == Tail(k.todo) IN
           /\ h.account \in DOMAIN acc /\ h.n = k.n /\ h.alloc = 0
           /\ h.write \in {"txn", "balance", "alloc", "budget"}
           /\ h.write \in {"txn", "balance"} =>
                 u # <<>> /\ Head(u).account = h.account /\ Head(u).n = h.n
           /\ h.write = "txn" => Head(u).write = "balance"
           /\ h.write = "balance" => Head(u).write = "alloc"
           /\ h.write = "alloc" =>
                 IF k.campaign = NoCampaign THEN u = <<>>
                 ELSE u # <<>> /\ Head(u).write = "budget" /\ Head(u).account = h.account
           /\ h.write = "budget" => u = <<>> /\ k.campaign # NoCampaign
  <1> DEFINE t == k.todo  u == Tail(k.todo)  r == Len(k.todo)
  <1>0. t \in Seq(Statement)
    BY DEF Call
  <1>1. /\ r \in Nat /\ r >= 1 /\ DOMAIN t = 1..r /\ Head(t) = t[1]
        /\ u \in Seq(Statement) /\ Len(u) = r - 1 /\ DOMAIN u = 1..(r - 1)
        /\ \A j \in 1..(r - 1) : u[j] = t[j + 1] /\ j + 1 \in DOMAIN t
        /\ u = <<>> <=> r = 1
    BY <1>0, Rest
  <1>2. PICK a \in DOMAIN acc : \A j \in DOMAIN t :
            t[j] = Do(GrantWrite(k, r - j), a, k.n, 0)
    BY DEF GrantShape
  <1>3. r <= IF k.campaign = NoCampaign THEN 3 ELSE 4
    BY DEF GrantShape
  <1>4. r >= 2 => u # <<>> /\ Head(u) = u[1] /\ u[1] = t[2]
    BY <1>1
  <1> HIDE DEF t, u, r
  <1>5. Head(t) = Do(GrantWrite(k, r - 1), a, k.n, 0)
    BY <1>1, <1>2
  <1>6. r >= 2 => u # <<>> /\ Head(u) = Do(GrantWrite(k, r - 2), a, k.n, 0)
    BY <1>1, <1>2, <1>4
  <1>7. /\ Head(t).write = GrantWrite(k, r - 1) /\ Head(t).account = a
        /\ Head(t).n = k.n /\ Head(t).alloc = 0
    BY <1>5 DEF Do
  <1>8. r >= 2 => /\ Head(u).write = GrantWrite(k, r - 2) /\ Head(u).account = a
                  /\ Head(u).n = k.n
    BY <1>6 DEF Do
  <1>9. CASE k.campaign = NoCampaign
    <2>1. r = 1 \/ r = 2 \/ r = 3
      BY <1>1, <1>3, <1>9
    <2>2. /\ r = 1 => GrantWrite(k, r - 1) = "alloc"
          /\ r = 2 => GrantWrite(k, r - 1) = "balance" /\ GrantWrite(k, r - 2) = "alloc"
          /\ r = 3 => GrantWrite(k, r - 1) = "txn" /\ GrantWrite(k, r - 2) = "balance"
      BY <1>9 DEF GrantWrite
    <2> QED
      BY <1>1, <1>6, <1>7, <1>8, <1>9, <2>1, <2>2 DEF t, u
  <1>10. CASE k.campaign # NoCampaign
    <2>1. r = 1 \/ r = 2 \/ r = 3 \/ r = 4
      BY <1>1, <1>3, <1>10
    <2>2. /\ r = 1 => GrantWrite(k, r - 1) = "budget"
          /\ r = 2 => GrantWrite(k, r - 1) = "alloc" /\ GrantWrite(k, r - 2) = "budget"
          /\ r = 3 => GrantWrite(k, r - 1) = "balance" /\ GrantWrite(k, r - 2) = "alloc"
          /\ r = 4 => GrantWrite(k, r - 1) = "txn" /\ GrantWrite(k, r - 2) = "balance"
      BY <1>10 DEF GrantWrite
    <2> QED
      BY <1>1, <1>6, <1>7, <1>8, <1>10, <2>1, <2>2 DEF t, u
  <1> QED
    BY <1>9, <1>10

\* Of a transfer: its last statement is about the recipient's account.
LEMMA MoveHead ==
    ASSUME NEW k \in Call, k.todo # <<>>, NEW acc, MoveShape(k, acc)
    PROVE  LET h == Head(k.todo)  u == Tail(k.todo)  r == Len(k.todo)
               b == k.todo[Len(k.todo)].account IN
           /\ r \in 1..4 /\ b \in DOMAIN acc /\ b # k.from /\ h.alloc = 0
           /\ h.write = IF r > 2 THEN "txn" ELSE "balance"
           /\ h.account = IF r \in {1, 3} THEN b ELSE k.from
           /\ h.n = IF r \in {1, 3} THEN k.n ELSE -k.n
           /\ IF r = 1 THEN u = <<>> ELSE /\ u # <<>> /\ Len(u) = r - 1
                                          /\ u[Len(u)].account = b
                                          /\ Head(u).write \in {"txn", "balance"}
           /\ \E j \in DOMAIN k.todo : k.todo[j].account = b
           /\ \A j \in DOMAIN k.todo :
                 k.todo[j].write \in {"txn", "balance"} /\ k.todo[j].alloc = 0
  <1> DEFINE t == k.todo  u == Tail(k.todo)  r == Len(k.todo)
  <1>0. t \in Seq(Statement)
    BY DEF Call
  <1>1. /\ r \in Nat /\ r >= 1 /\ DOMAIN t = 1..r /\ Head(t) = t[1]
        /\ u \in Seq(Statement) /\ Len(u) = r - 1 /\ DOMAIN u = 1..(r - 1)
        /\ \A j \in 1..(r - 1) : u[j] = t[j + 1] /\ j + 1 \in DOMAIN t
        /\ u = <<>> <=> r = 1
    BY <1>0, Rest
  <1>2. PICK b \in DOMAIN acc :
            /\ b # k.from
            /\ \A j \in DOMAIN t :
                  t[j] = IF r - j \in {0, 2} THEN Do(MoveWrite(r - j), b, k.n, 0)
                         ELSE Do(MoveWrite(r - j), k.from, -k.n, 0)
    BY DEF MoveShape
  <1>3. r <= 4
    BY DEF MoveShape
  <1>4. r >= 2 => u # <<>> /\ Head(u) = t[2] /\ u[Len(u)] = t[r]
    <2> SUFFICES ASSUME r >= 2 PROVE u # <<>> /\ Head(u) = t[2] /\ u[Len(u)] = t[r]
      OBVIOUS
    <2>1. u # <<>> /\ Head(u) = u[1] /\ u[1] = t[2]
      BY <1>1
    <2>2. u[r - 1] = t[r]
      BY <1>1
    <2> QED
      BY <1>1, <2>1, <2>2
  <1> HIDE DEF t, u, r
  <1>5. t[r].account = b /\ r \in DOMAIN t
    BY <1>1, <1>2 DEF Do
  <1>6. \A j \in DOMAIN t : t[j].write = MoveWrite(r - j) /\ t[j].alloc = 0
    BY <1>2 DEF Do
  <1>7. \A j \in Int : MoveWrite(j) \in {"txn", "balance"}
    BY DEF MoveWrite
  <1>8. \A j \in DOMAIN t : t[j].write \in {"txn", "balance"} /\ t[j].alloc = 0
    BY <1>1, <1>6, <1>7
  <1>9. r = 1 \/ r = 2 \/ r = 3 \/ r = 4
    BY <1>1, <1>3
  <1>10. Head(t).write = IF r > 2 THEN "txn" ELSE "balance"
    BY <1>1, <1>6, <1>9 DEF MoveWrite
  <1>11. /\ Head(t).account = IF r \in {1, 3} THEN b ELSE k.from
         /\ Head(t).n = IF r \in {1, 3} THEN k.n ELSE -k.n
    BY <1>1, <1>2, <1>9 DEF Do
  <1>12. r >= 2 => Head(u).write \in {"txn", "balance"}
    BY <1>1, <1>4, <1>8
  <1>13. Head(t).alloc = 0
    BY <1>1, <1>8
  <1>14. IF r = 1 THEN u = <<>> ELSE /\ u # <<>> /\ Len(u) = r - 1
                                     /\ u[Len(u)].account = b
                                     /\ Head(u).write \in {"txn", "balance"}
    BY <1>1, <1>4, <1>5, <1>9, <1>12
  <1> QED
    BY <1>2, <1>5, <1>8, <1>9, <1>10, <1>11, <1>13, <1>14 DEF t, u, r

\* Of a deletion.
LEMMA DeleteHead ==
    ASSUME NEW k \in Call, k.todo # <<>>, DeleteShape(k)
    PROVE  LET h == Head(k.todo)  u == Tail(k.todo) IN
           /\ h.account = 0 /\ h.alloc = 0
           /\ h.write \in {"del_allocs", "del_txns", "del_accounts"}
           /\ h.write = "del_accounts" <=> u = <<>>
           /\ u # <<>> => Head(u).account = 0
           /\ \A j \in DOMAIN k.todo : k.todo[j].account = 0 /\ k.todo[j].alloc = 0
                 /\ k.todo[j].write \notin Uses \cup {"budget"}
  <1> DEFINE t == k.todo  u == Tail(k.todo)  r == Len(k.todo)
  <1>0. t \in Seq(Statement)
    BY DEF Call
  <1>1. /\ r \in Nat /\ r >= 1 /\ DOMAIN t = 1..r /\ Head(t) = t[1]
        /\ u \in Seq(Statement) /\ Len(u) = r - 1 /\ DOMAIN u = 1..(r - 1)
        /\ \A j \in 1..(r - 1) : u[j] = t[j + 1] /\ j + 1 \in DOMAIN t
        /\ u = <<>> <=> r = 1
    BY <1>0, Rest
  <1>2. r <= 3 /\ \A j \in DOMAIN t : t[j] = Do(DeleteWrite(r - j), 0, 0, 0)
    BY DEF DeleteShape
  <1>4. r >= 2 => u # <<>> /\ Head(u) = u[1] /\ u[1] = t[2]
    BY <1>1
  <1> HIDE DEF t, u, r
  <1>5. \A j \in DOMAIN t : t[j].account = 0 /\ t[j].alloc = 0 /\ t[j].write = DeleteWrite(r - j)
    BY <1>2 DEF Do
  <1>6. r = 1 \/ r = 2 \/ r = 3
    BY <1>1, <1>2
  <1>7. /\ DeleteWrite(0) = "del_accounts"
        /\ \A j \in Int : DeleteWrite(j) \in {"del_allocs", "del_txns", "del_accounts"}
        /\ \A j \in Int : j > 0 => DeleteWrite(j) # "del_accounts"
    BY DEF DeleteWrite
  <1>8. Head(t).write = DeleteWrite(r - 1)
    BY <1>1, <1>5
  <1>9. Head(t).write = "del_accounts" <=> u = <<>>
    BY <1>1, <1>6, <1>7, <1>8
  <1>10. \A j \in DOMAIN t : t[j].write \in {"del_allocs", "del_txns", "del_accounts"}
    BY <1>1, <1>5, <1>7
  <1>11. \A j \in DOMAIN t : t[j].write \notin Uses \cup {"budget"}
    BY <1>10 DEF Uses
  <1>12. u # <<>> => Head(u).account = 0
    BY <1>1, <1>4, <1>5, <1>6
  <1>13. /\ Head(t).account = 0 /\ Head(t).alloc = 0
         /\ Head(t).write \in {"del_allocs", "del_txns", "del_accounts"}
    BY <1>1, <1>5, <1>10
  <1>14. \A j \in DOMAIN t : /\ t[j].account = 0 /\ t[j].alloc = 0
                             /\ t[j].write \notin Uses \cup {"budget"}
    BY <1>5, <1>11
  <1> QED
    BY <1>9, <1>12, <1>13, <1>14 DEF t, u

\* Of a plan.
LEMMA PlanHead ==
    ASSUME NEW k \in Call, k.todo # <<>>, NEW all, PlanShape(k.todo, all)
    PROVE  LET h == Head(k.todo)  u == Tail(k.todo) IN
           /\ h.alloc \in DOMAIN all /\ all[h.alloc].account = h.account
           /\ h.write \in {"txn", "balance"} \cup Uses
           /\ h.write \in {"txn", "balance"} =>
                 u # <<>> /\ Head(u).account = h.account /\ Head(u).alloc = h.alloc
           /\ h.write = "txn" => Head(u).write = "balance" /\ Head(u).n = h.n
           /\ h.write = "balance" => Head(u).write \in Uses /\ Head(u).n = -h.n
           /\ h.write \in Uses => h.n \in Nat
           /\ h.write \in Uses /\ u # <<>> => Head(u).write = "txn"
           /\ h.write \in Uses => \A j \in DOMAIN u : u[j].alloc # h.alloc
  <1> DEFINE t == k.todo  u == Tail(k.todo)  r == Len(k.todo)
  <1>0. t \in Seq(Statement)
    BY DEF Call
  <1>1. /\ r \in Nat /\ r >= 1 /\ DOMAIN t = 1..r /\ Head(t) = t[1]
        /\ u \in Seq(Statement) /\ Len(u) = r - 1 /\ DOMAIN u = 1..(r - 1)
        /\ \A j \in 1..(r - 1) : u[j] = t[j + 1] /\ j + 1 \in DOMAIN t
        /\ u = <<>> <=> r = 1
    BY <1>0, Rest
  <1>2. /\ t[1].alloc \in DOMAIN all /\ all[t[1].alloc].account = t[1].account
        /\ ItemShape(t, 1)
    BY <1>1 DEF PlanShape
  <1>3. r >= 2 => u # <<>> /\ Head(u) = u[1] /\ u[1] = t[2]
    BY <1>1
  <1>4. u # <<>> => r >= 2
    BY <1>1
  <1> HIDE DEF t, u, r
  <1>5. 1 + 1 = 2 /\ (2 \in DOMAIN t <=> r >= 2)
    BY <1>1
  <1>6. /\ t[1].write \in {"txn", "balance"} \cup Uses
        /\ t[1].write = "txn" =>
              /\ r >= 2 /\ t[2].write = "balance" /\ t[2].account = t[1].account
              /\ t[2].alloc = t[1].alloc /\ t[2].n = t[1].n
        /\ t[1].write = "balance" =>
              /\ r >= 2 /\ t[2].write \in Uses /\ t[2].account = t[1].account
              /\ t[2].alloc = t[1].alloc /\ t[2].n = -t[1].n
        /\ t[1].write \in Uses => t[1].n \in Nat
        /\ t[1].write \in Uses /\ r >= 2 => t[2].write = "txn"
        /\ t[1].write \in Uses => \A m \in DOMAIN t : m > 1 => t[m].alloc # t[1].alloc
    BY <1>2, <1>5 DEF ItemShape
  <1>7. t[1].write \in Uses => \A j \in DOMAIN u : u[j].alloc # t[1].alloc
    <2> SUFFICES ASSUME t[1].write \in Uses, NEW j \in DOMAIN u PROVE u[j].alloc # t[1].alloc
      OBVIOUS
    <2>1. j \in Nat /\ j >= 1 /\ u[j] = t[j + 1] /\ j + 1 \in DOMAIN t /\ j + 1 > 1
      BY <1>1
    <2> QED
      BY <1>6, <2>1
  <1>8. r >= 2 => u # <<>> /\ Head(u) = t[2]
    BY <1>3
  <1> QED
    BY <1>1, <1>2, <1>4, <1>6, <1>7, <1>8 DEF t, u

-----------------------------------------------------------------------------
(* What a statement changes in the terms of the balances.                  *)

\* What is known of a call that is at its statements.
LEMMA RunKinds ==
    ASSUME NEW k \in Call, NEW acc, NEW all, CallSound(k, acc, all), k.step = "run"
    PROVE  /\ k.todo # <<>> /\ k.todo \in Seq(Statement) /\ Head(k.todo) \in Statement
           /\ Tail(k.todo) \in Seq(Statement)
           /\ k.kind \in {"allocate", "transfer", "delete", "consume", "expire"}
           /\ k.n \in Nat /\ k.from \in Nat
  <1>1. k.todo # <<>> /\ k.todo \in Seq(Statement) /\ k.kind # "none" /\ k.kind \in Kinds
        /\ k.n \in Nat /\ k.from \in Nat
    BY DEF CallSound, StepSound, Call
  <1>2. Head(k.todo) \in Statement /\ Tail(k.todo) \in Seq(Statement)
    BY <1>1, Rest
  <1> QED
    BY <1>1, <1>2 DEF Kinds

\* Nothing is between two records when there is nothing to do.
LEMMA NothingBetween ==
    ASSUME NEW k, NEW a, k.todo = <<>>
    PROVE  DriftOf(k, a) = 0 /\ BookedOf(k, a) = 0
  BY DEF DriftOf, BookedOf

\* What a call owes to an account is a number.
LEMMA TermTypes ==
    ASSUME NEW k \in Call, NEW a \in Nat
    PROVE  DriftOf(k, a) \in Int /\ BookedOf(k, a) \in Int
  <1>0. k.todo \in Seq(Statement) /\ k.n \in Nat
    BY DEF Call
  <1>1. CASE k.todo = <<>>
    BY <1>1, NothingBetween
  <1>2. CASE k.todo # <<>>
    <2>1. Head(k.todo) \in Statement
      BY <1>0, <1>2, Rest
    <2>2. Head(k.todo).n \in Int
      BY <2>1 DEF Statement
    <2> QED
      BY <1>0, <2>2 DEF DriftOf, BookedOf
  <1> QED
    BY <1>1, <1>2

\* After its transaction a call owes the balance what the transaction says.
LEMMA TxnEffect ==
    ASSUME NEW k \in Call, NEW acc, NEW all, CallSound(k, acc, all), k.step = "run",
           Head(k.todo).write = "txn", NEW a \in Nat
    PROVE  LET x == Advance(k, Tail(k.todo))  h == Head(k.todo) IN
           /\ DriftOf(k, a) = 0 /\ DriftOf(x, a) = 0
           /\ BookedOf(x, a) = BookedOf(k, a) + (IF a = h.account THEN h.n ELSE 0)
           /\ k.kind # "transfer" => BookedOf(k, a) = 0
           /\ x # Idle /\ k.kind # "delete"
  <1> DEFINE x == Advance(k, Tail(k.todo))  h == Head(k.todo)  u == Tail(k.todo)
  <1>1. k.todo # <<>> /\ u \in Seq(Statement) /\ h \in Statement /\ k.n \in Nat /\ k.from \in Nat
        /\ k.kind \in {"allocate", "transfer", "delete", "consume", "expire"}
    BY RunKinds
  <1>2. x.todo = u /\ (u # <<>> => x.kind = k.kind /\ x.from = k.from /\ x.n = k.n)
    BY <1>1, AdvanceFields
  <1>3. h.n \in Int
    BY <1>1 DEF Statement
  <1>4. k.kind # "delete"
    BY <1>1, DeleteHead DEF CallSound
  <1>5. DriftOf(k, a) = 0
    BY <1>1 DEF DriftOf, Uses
  <1>6. Idle.todo = <<>>
    BY IdleSound
  <1>7. CASE k.kind = "transfer"
    <2> DEFINE r == Len(k.todo)  b == k.todo[Len(k.todo)].account
    <2>1. MoveShape(k, acc)
      BY <1>7 DEF CallSound
    <2>2. r \in 1..4 /\ r > 2 /\ b # k.from
          /\ h.account = (IF r \in {1, 3} THEN b ELSE k.from)
          /\ h.n = (IF r \in {1, 3} THEN k.n ELSE -k.n)
          /\ u # <<>> /\ Len(u) = r - 1 /\ u[Len(u)].account = b
          /\ Head(u).write \in {"txn", "balance"}
      BY <1>1, <2>1, MoveHead
    <2> HIDE DEF x, h, u, r, b
    <2>3. DriftOf(x, a) = 0
      BY <1>2, <2>2 DEF DriftOf, Uses
    <2>4. BookedOf(k, a) = (IF a = k.from /\ r \in {2, 3} THEN -k.n ELSE 0)
                           + (IF a = b /\ r \in {1, 2} THEN k.n ELSE 0)
      BY <1>1, <1>7 DEF BookedOf, r, b
    <2>5. BookedOf(x, a) = (IF a = k.from /\ r - 1 \in {2, 3} THEN -k.n ELSE 0)
                           + (IF a = b /\ r - 1 \in {1, 2} THEN k.n ELSE 0)
      BY <1>1, <1>2, <1>7, <2>2 DEF BookedOf
    <2>6. r = 3 \/ r = 4
      BY <2>2
    <2>7. BookedOf(x, a) = BookedOf(k, a) + (IF a = h.account THEN h.n ELSE 0)
      <3>1. CASE r = 3
        BY <1>1, <2>2, <2>4, <2>5, <3>1
      <3>2. CASE r = 4
        BY <1>1, <2>2, <2>4, <2>5, <3>2
      <3> QED
        BY <2>6, <3>1, <3>2
    <2> QED
      BY <1>2, <1>4, <1>5, <1>6, <1>7, <2>2, <2>3, <2>7 DEF x, h, u
  <1>8. CASE k.kind # "transfer"
    <2>1. u # <<>> /\ Head(u).account = h.account /\ Head(u).n = h.n /\ Head(u).write = "balance"
      <3>1. CASE k.kind = "allocate"
        <4>1. GrantShape(k, acc)
          BY <3>1 DEF CallSound
        <4> QED
          BY <1>1, <4>1, GrantHead
      <3>2. CASE k.kind \in {"consume", "expire"}
        <4>1. PlanShape(k.todo, all)
          BY <3>2 DEF CallSound
        <4> QED
          BY <1>1, <4>1, PlanHead
      <3> QED
        BY <1>1, <1>4, <1>8, <3>1, <3>2
    <2> HIDE DEF x, h, u
    <2>2. DriftOf(x, a) = 0
      BY <1>2, <2>1 DEF DriftOf, Uses
    <2>3. BookedOf(k, a) = 0
      BY <1>1, <1>8 DEF BookedOf, h
    <2>4. BookedOf(x, a) = IF a = h.account THEN h.n ELSE 0
      BY <1>2, <1>8, <2>1 DEF BookedOf
    <2>5. BookedOf(x, a) = BookedOf(k, a) + (IF a = h.account THEN h.n ELSE 0)
      BY <1>3, <2>3, <2>4
    <2>6. x # Idle
      BY <1>2, <1>6, <2>1
    <2> QED
      BY <1>4, <1>5, <1>8, <2>2, <2>3, <2>5, <2>6 DEF x, h, u
  <1> QED
    BY <1>7, <1>8

\* After its UPDATE of the balance a call owes an allocation, unless it transfers.
LEMMA BalanceEffect ==
    ASSUME NEW k \in Call, NEW acc, NEW all, CallSound(k, acc, all), k.step = "run",
           Head(k.todo).write = "balance", NEW a \in Nat
    PROVE  LET x == Advance(k, Tail(k.todo))  h == Head(k.todo) IN
           /\ DriftOf(k, a) = 0
           /\ DriftOf(x, a) = IF k.kind # "transfer" /\ a = h.account THEN h.n ELSE 0
           /\ BookedOf(x, a) = BookedOf(k, a) - (IF a = h.account THEN h.n ELSE 0)
           /\ k.kind # "transfer" => BookedOf(k, a) = IF a = h.account THEN h.n ELSE 0
           /\ k.kind # "delete"
  <1> DEFINE x == Advance(k, Tail(k.todo))  h == Head(k.todo)  u == Tail(k.todo)
  <1>1. k.todo # <<>> /\ u \in Seq(Statement) /\ h \in Statement /\ k.n \in Nat /\ k.from \in Nat
        /\ k.kind \in {"allocate", "transfer", "delete", "consume", "expire"}
    BY RunKinds
  <1>2. x.todo = u /\ (u # <<>> => x.kind = k.kind /\ x.from = k.from /\ x.n = k.n)
    BY <1>1, AdvanceFields
  <1>3. h.n \in Int
    BY <1>1 DEF Statement
  <1>4. k.kind # "delete"
    BY <1>1, DeleteHead DEF CallSound
  <1>5. DriftOf(k, a) = 0
    BY <1>1 DEF DriftOf, Uses
  <1>7. CASE k.kind = "transfer"
    <2> DEFINE r == Len(k.todo)  b == k.todo[Len(k.todo)].account
    <2>1. MoveShape(k, acc)
      BY <1>7 DEF CallSound
    <2>2. r \in 1..4 /\ ~(r > 2) /\ b # k.from
          /\ h.account = (IF r \in {1, 3} THEN b ELSE k.from)
          /\ h.n = (IF r \in {1, 3} THEN k.n ELSE -k.n)
          /\ IF r = 1 THEN u = <<>>
             ELSE u # <<>> /\ Len(u) = r - 1 /\ u[Len(u)].account = b
                  /\ Head(u).write \in {"txn", "balance"}
      BY <1>1, <2>1, MoveHead
    <2> HIDE DEF x, h, u, r, b
    <2>3. r = 1 \/ r = 2
      BY <2>2
    <2>4. BookedOf(k, a) = (IF a = k.from /\ r \in {2, 3} THEN -k.n ELSE 0)
                           + (IF a = b /\ r \in {1, 2} THEN k.n ELSE 0)
      BY <1>1, <1>7 DEF BookedOf, r, b
    <2>5. CASE r = 1
      <3>1. DriftOf(x, a) = 0 /\ BookedOf(x, a) = 0
        BY <1>2, <2>2, <2>5, NothingBetween
      <3>2. BookedOf(x, a) = BookedOf(k, a) - (IF a = h.account THEN h.n ELSE 0)
        BY <1>1, <2>2, <2>4, <2>5, <3>1
      <3> QED
        BY <1>4, <1>5, <1>7, <3>1, <3>2 DEF x, h, u
    <2>6. CASE r = 2
      <3>1. BookedOf(x, a) = IF a = b THEN k.n ELSE 0
        <4>0. u # <<>> /\ Len(u) = r - 1 /\ u[Len(u)].account = b
          BY <2>2, <2>6
        <4>1. Len(x.todo) = 1 /\ x.todo # <<>> /\ x.todo[1].account = b
          BY <1>2, <2>6, <4>0
        <4>2. BookedOf(x, a) = 0 + (IF a = b THEN k.n ELSE 0)
          BY <1>2, <1>7, <2>2, <2>6, <4>1 DEF BookedOf
        <4> QED
          BY <1>1, <4>2
      <3>2. DriftOf(x, a) = 0
        BY <1>2, <2>2, <2>6 DEF DriftOf, Uses
      <3>3. BookedOf(x, a) = BookedOf(k, a) - (IF a = h.account THEN h.n ELSE 0)
        BY <1>1, <2>2, <2>4, <2>6, <3>1
      <3> QED
        BY <1>4, <1>5, <1>7, <3>2, <3>3 DEF x, h, u
    <2> QED
      BY <2>3, <2>5, <2>6
  <1>8. CASE k.kind = "allocate"
    <2>0. GrantShape(k, acc)
      BY <1>8 DEF CallSound
    <2>1. u # <<>> /\ Head(u).account = h.account /\ Head(u).n = h.n /\ Head(u).write = "alloc"
      BY <1>1, <2>0, GrantHead
    <2> HIDE DEF x, h, u
    <2>2. DriftOf(x, a) = IF a = h.account THEN h.n ELSE 0
      BY <1>2, <2>1 DEF DriftOf, Uses
    <2>3. BookedOf(k, a) = IF a = h.account THEN h.n ELSE 0
      BY <1>1, <1>8 DEF BookedOf, h
    <2>4. BookedOf(x, a) = 0
      BY <1>2, <1>8, <2>1 DEF BookedOf
    <2> QED
      BY <1>3, <1>4, <1>5, <1>8, <2>2, <2>3, <2>4 DEF x, h, u
  <1>9. CASE k.kind \in {"consume", "expire"}
    <2>0. PlanShape(k.todo, all)
      BY <1>9 DEF CallSound
    <2>1. u # <<>> /\ Head(u).account = h.account /\ Head(u).n = -h.n /\ Head(u).write \in Uses
      BY <1>1, <2>0, PlanHead
    <2> HIDE DEF x, h, u
    <2>2. DriftOf(x, a) = IF a = h.account THEN h.n ELSE 0
      <3>1. Head(x.todo).write # "alloc"
        BY <1>2, <2>1 DEF Uses
      <3> QED
        BY <1>2, <1>3, <2>1, <3>1 DEF DriftOf
    <2>3. BookedOf(k, a) = IF a = h.account THEN h.n ELSE 0
      BY <1>1, <1>9 DEF BookedOf, h
    <2>4. BookedOf(x, a) = 0
      BY <1>2, <1>9, <2>1 DEF BookedOf, Uses
    <2> QED
      BY <1>3, <1>4, <1>5, <1>9, <2>2, <2>3, <2>4 DEF x, h, u
  <1> QED
    BY <1>1, <1>4, <1>7, <1>8, <1>9

\* The statement that makes up for the balance.
LEMMA UseEffect ==
    ASSUME NEW k \in Call, NEW acc, NEW all, CallSound(k, acc, all), k.step = "run",
           Head(k.todo).write \in {"alloc", "budget"} \cup Uses, NEW a \in Nat
    PROVE  LET x == Advance(k, Tail(k.todo))  h == Head(k.todo) IN
           /\ h.write = "alloc" => DriftOf(k, a) = IF a = h.account THEN h.n ELSE 0
           /\ h.write = "budget" => DriftOf(k, a) = 0
           /\ h.write \in Uses => DriftOf(k, a) = IF a = h.account THEN -h.n ELSE 0
           /\ DriftOf(x, a) = 0
           /\ BookedOf(k, a) = 0 /\ BookedOf(x, a) = 0
           /\ k.kind \in {"allocate", "consume", "expire"}
           /\ h.write \in Uses <=> k.kind \in {"consume", "expire"}
  <1> DEFINE x == Advance(k, Tail(k.todo))  h == Head(k.todo)  u == Tail(k.todo)
  <1>1. k.todo # <<>> /\ u \in Seq(Statement) /\ h \in Statement /\ k.n \in Nat /\ k.from \in Nat
        /\ k.kind \in {"allocate", "transfer", "delete", "consume", "expire"}
    BY RunKinds
  <1>2. x.todo = u /\ (u # <<>> => x.kind = k.kind /\ x.from = k.from /\ x.n = k.n)
    BY <1>1, AdvanceFields
  <1>3. h.n \in Int
    BY <1>1 DEF Statement
  <1>4. k.kind # "delete"
    BY <1>1, DeleteHead DEF CallSound, Uses
  <1>5. k.kind # "transfer"
    BY <1>1, MoveHead DEF CallSound, Uses
  <1>6. k.kind = "allocate" =>
           /\ h.write \in {"alloc", "budget"}
           /\ u # <<>> => Head(u).write = "budget"
    <2> SUFFICES ASSUME k.kind = "allocate"
                 PROVE  h.write \in {"alloc", "budget"} /\ (u # <<>> => Head(u).write = "budget")
      OBVIOUS
    <2>1. GrantShape(k, acc)
      BY DEF CallSound
    <2>2. h.write \in {"txn", "balance", "alloc", "budget"}
      BY <1>1, <2>1, GrantHead
    <2>3. h.write \in {"alloc", "budget"}
      BY <2>2 DEF Uses
    <2> QED
      BY <1>1, <2>1, <2>3, GrantHead
  <1>7. k.kind \in {"consume", "expire"} =>
           /\ h.write \in Uses
           /\ u # <<>> => Head(u).write = "txn"
    <2> SUFFICES ASSUME k.kind \in {"consume", "expire"}
                 PROVE  h.write \in Uses /\ (u # <<>> => Head(u).write = "txn")
      OBVIOUS
    <2>1. PlanShape(k.todo, all)
      BY DEF CallSound
    <2>2. h.write \in {"txn", "balance"} \cup Uses
      BY <1>1, <2>1, PlanHead
    <2>3. h.write \in Uses
      BY <2>2 DEF Uses
    <2> QED
      BY <1>1, <2>1, <2>3, PlanHead
  <1>8. k.kind \in {"allocate", "consume", "expire"}
    BY <1>1, <1>4, <1>5
  <1> HIDE DEF x, h, u
  <1>9. u # <<>> => Head(u).write \in {"budget", "txn"}
    BY <1>6, <1>7, <1>8
  <1>10. DriftOf(x, a) = 0
    BY <1>2, <1>9 DEF DriftOf, Uses
  <1>11. BookedOf(x, a) = 0
    <2>1. CASE u = <<>>
      BY <1>2, <2>1, NothingBetween
    <2>2. CASE u # <<>>
      BY <1>2, <1>5, <1>9, <2>2 DEF BookedOf
    <2> QED
      BY <2>1, <2>2
  <1>12. BookedOf(k, a) = 0
    BY <1>1, <1>5 DEF BookedOf, Uses, h
  <1>13. /\ h.write = "alloc" => DriftOf(k, a) = IF a = h.account THEN h.n ELSE 0
         /\ h.write = "budget" => DriftOf(k, a) = 0
         /\ h.write \in Uses => DriftOf(k, a) = IF a = h.account THEN -h.n ELSE 0
    BY <1>1, <1>3 DEF DriftOf, Uses, h
  <1>14. h.write \in Uses <=> k.kind \in {"consume", "expire"}
    BY <1>6, <1>7, <1>8 DEF Uses
  <1> QED
    BY <1>8, <1>10, <1>11, <1>12, <1>13, <1>14 DEF x, h, u

\* A deletion is about no account in particular.
LEMMA DeleteEffect ==
    ASSUME NEW k \in Call, NEW acc, NEW all, CallSound(k, acc, all), k.kind = "delete",
           NEW a \in Nat \ {0}
    PROVE  LET x == Advance(k, Tail(k.todo)) IN
           /\ DriftOf(k, a) = 0 /\ DriftOf(x, a) = 0
           /\ BookedOf(k, a) = 0 /\ BookedOf(x, a) = 0
  <1> DEFINE x == Advance(k, Tail(k.todo))  h == Head(k.todo)  u == Tail(k.todo)
  <1>0. k.step = "run"
    BY DEF CallSound, StepSound
  <1>1. k.todo # <<>> /\ u \in Seq(Statement)
    BY <1>0, RunKinds
  <1>2. x.todo = u /\ (u # <<>> => x.kind = k.kind)
    BY <1>1, AdvanceFields
  <1>3. h.account = 0 /\ (u # <<>> => Head(u).account = 0)
    BY <1>1, DeleteHead DEF CallSound
  <1> HIDE DEF x
  <1>4. DriftOf(k, a) = 0 /\ BookedOf(k, a) = 0
    BY <1>1, <1>3 DEF DriftOf, BookedOf
  <1>5. DriftOf(x, a) = 0 /\ BookedOf(x, a) = 0
    BY <1>2, <1>3 DEF DriftOf, BookedOf
  <1> QED
    BY <1>4, <1>5 DEF x

\* A call is only about the accounts it touches.
LEMMA TouchEffect ==
    ASSUME NEW c \in Calls, call[c] \in Call, CallSound(call[c], accounts, allocs),
           call[c].step = "run", NEW a \in Nat \ {0}, a \in DOMAIN accounts, a \notin Touched(c)
    PROVE  DriftOf(call[c], a) = 0 /\ BookedOf(call[c], a) = 0
  <1> DEFINE k == call[c]  t == call[c].todo
  <1>1. t # <<>> /\ t \in Seq(Statement) /\ k.from \in Nat
    BY RunKinds
  <1>2. Len(t) \in Nat /\ Len(t) >= 1 /\ DOMAIN t = 1..Len(t) /\ Head(t) = t[1]
    BY <1>1, Rest
  <1>3. CASE k.kind = "delete"
    BY <1>3, DeleteEffect
  <1>4. CASE k.kind # "delete"
    <2>1. \A j \in DOMAIN t : t[j].account # a
      BY <1>4 DEF Touched, Todo, Range
    <2>2. k.from # a
      BY <1>1, <1>4 DEF Touched
    <2>3. Head(t).account # a
      BY <1>2, <2>1
    <2>4. t[Len(t)].account # a
      BY <1>2, <2>1
    <2> QED
      BY <1>1, <2>2, <2>3, <2>4 DEF DriftOf, BookedOf
  <1> QED
    BY <1>3, <1>4

-----------------------------------------------------------------------------
(* The order in which allocations are used, and the statements of a plan.  *)

\* What has to be known of the tables.
Tables == accounts \in Seq(Account) /\ allocs \in Seq(Allocation)
          /\ \A i \in DOMAIN allocs : allocs[i].account \in DOMAIN accounts

\* The tables by their rows.
LEMMA RowTypes ==
    ASSUME Tables
    PROVE  /\ Len(accounts) \in Nat /\ DOMAIN accounts = 1..Len(accounts)
           /\ Len(allocs) \in Nat /\ DOMAIN allocs = 1..Len(allocs)
           /\ DOMAIN accounts \subseteq Nat \ {0} /\ DOMAIN allocs \subseteq Nat \ {0}
           /\ IsFiniteSet(DOMAIN accounts) /\ IsFiniteSet(DOMAIN allocs)
           /\ \A a \in DOMAIN accounts : accounts[a] \in Account
           /\ \A i \in DOMAIN allocs : allocs[i] \in Allocation
           /\ \A i \in DOMAIN allocs :
                 /\ Left(i) \in Int /\ Remaining(i) = Left(i)
                 /\ allocs[i].account \in DOMAIN accounts
  <1>1. /\ Len(accounts) \in Nat /\ DOMAIN accounts = 1..Len(accounts)
        /\ Len(allocs) \in Nat /\ DOMAIN allocs = 1..Len(allocs)
    BY LenProperties DEF Tables
  <1>2. \A a \in DOMAIN accounts : accounts[a] \in Account
    BY <1>1, ElementOfSeq DEF Tables
  <1>3. \A i \in DOMAIN allocs : allocs[i] \in Allocation
    BY <1>1, ElementOfSeq DEF Tables
  <1>4. \A i \in DOMAIN allocs : Left(i) \in Int /\ Remaining(i) = Left(i)
    BY <1>3 DEF Left, Remaining, Allocation
  <1>5. IsFiniteSet(DOMAIN accounts) /\ IsFiniteSet(DOMAIN allocs)
    BY <1>1, FS_Interval
  <1> QED
    BY <1>1, <1>2, <1>3, <1>4, <1>5 DEF Tables

\* Sooner is a strict total order.
LEMMA SoonerOrders ==
    ASSUME Tables, NEW i \in DOMAIN allocs, NEW j \in DOMAIN allocs
    PROVE  /\ ~Sooner(i, i)
           /\ i # j => Sooner(i, j) \/ Sooner(j, i)
           /\ ~(Sooner(i, j) /\ Sooner(j, i))
           /\ \A m \in DOMAIN allocs : Sooner(i, j) /\ Sooner(j, m) => Sooner(i, m)
  <1> DEFINE p(x) == Priority[accounts[allocs[x].account].type]
             e(x) == allocs[x].expires
  <1>1. ASSUME NEW x \in DOMAIN allocs PROVE p(x) \in Nat /\ e(x) \in Nat /\ x \in Nat
    <2>1. allocs[x] \in Allocation /\ allocs[x].account \in DOMAIN accounts /\ x \in Nat
      BY RowTypes
    <2>2. accounts[allocs[x].account] \in Account
      BY <2>1, RowTypes
    <2>3. Never \in Nat /\ Priority \in [Types -> Nat]
      BY LedgerAssumption
    <2> QED
      BY <2>1, <2>2, <2>3 DEF Allocation, Account
  <1>2. \A x, y : Sooner(x, y) <=> \/ e(x) < e(y)
                                   \/ /\ e(x) = e(y)
                                      /\ p(x) < p(y) \/ (p(x) = p(y) /\ x < y)
    BY DEF Sooner
  <1> HIDE DEF p, e
  <1>3. ~Sooner(i, i) /\ (i # j => Sooner(i, j) \/ Sooner(j, i))
        /\ ~(Sooner(i, j) /\ Sooner(j, i))
    BY <1>1, <1>2
  <1>4. ASSUME NEW m \in DOMAIN allocs, Sooner(i, j), Sooner(j, m) PROVE Sooner(i, m)
    BY <1>1, <1>2, <1>4
  <1> QED
    BY <1>3, <1>4

\* Sorting leaves nothing out and repeats nothing.
LEMMA SortedListsAll ==
    ASSUME Tables, NEW S \in SUBSET DOMAIN allocs, NEW s \in Sorted(S)
    PROVE  /\ IsFiniteSet(S) /\ Cardinality(S) \in Nat
           /\ s \in Seq(S) /\ Len(s) = Cardinality(S) /\ DOMAIN s = 1..Cardinality(S)
           /\ \A i, j \in DOMAIN s : i # j => s[i] # s[j]
           /\ \A x \in S : \E j \in DOMAIN s : s[j] = x
  <1>1. IsFiniteSet(S) /\ Cardinality(S) \in Nat
    BY RowTypes, FS_Subset, FS_CardinalityType
  <1>2. /\ s \in [1..Cardinality(S) -> S] /\ DOMAIN s = 1..Cardinality(S)
        /\ \A i, j \in DOMAIN s : i < j => Sooner(s[i], s[j])
    BY DEF Sorted
  <1>3. s \in Seq(S) /\ Len(s) = Cardinality(S)
    BY <1>1, <1>2, SeqDef, LenProperties
  <1>4. ASSUME NEW i \in DOMAIN s, NEW j \in DOMAIN s, i # j PROVE s[i] # s[j]
    <2>1. s[i] \in DOMAIN allocs /\ s[j] \in DOMAIN allocs
      BY <1>2
    <2>2. i < j \/ j < i
      BY <1>1, <1>2, <1>4
    <2>3. Sooner(s[i], s[j]) \/ Sooner(s[j], s[i])
      BY <1>2, <2>2
    <2> QED
      BY <2>1, <2>3, SoonerOrders
  <1>5. s \in Surjection(1..Cardinality(S), S)
    <2>1. s \in Injection(1..Cardinality(S), S)
      BY <1>2, <1>4 DEF Injection, IsInjective
    <2>2. IsFiniteSet(1..Cardinality(S)) /\ Cardinality(1..Cardinality(S)) = Cardinality(S)
      BY <1>1, FS_Interval
    <2> QED
      BY <1>1, <2>1, <2>2, FS_Injection DEF Surjection
  <1>6. \A x \in S : \E j \in DOMAIN s : s[j] = x
    BY <1>2, <1>5 DEF Surjection
  <1> QED
    BY <1>1, <1>2, <1>3, <1>4, <1>6

\* Statement j belongs to item (j + 2) \div 3, and items follow one another.
LEMMA PlanIndex ==
    ASSUME NEW L \in Nat, NEW j \in 1..3 * L
    PROVE  LET q == (j + 2) \div 3  m == (j + 2) % 3 IN
           /\ q \in 1..L /\ m \in 0..2 /\ j + 2 = 3 * q + m
           /\ m < 2 => j + 1 \in 1..3 * L /\ ((j + 1) + 2) \div 3 = q /\ ((j + 1) + 2) % 3 = m + 1
           /\ m = 2 /\ j + 1 \in 1..3 * L => ((j + 1) + 2) % 3 = 0
           /\ \A i \in 1..3 * L : i > j => (i + 2) \div 3 >= q
           /\ \A i \in 1..3 * L : i > j /\ m = 2 => (i + 2) \div 3 > q
  OBVIOUS

\* The last of the three statements of item q.
LEMMA PlanPlace ==
    ASSUME NEW L \in Nat, NEW q \in 1..L
    PROVE  /\ 3 * q \in 1..3 * L /\ (3 * q + 2) \div 3 = q /\ (3 * q + 2) % 3 = 2
  OBVIOUS

\* A plan of distinct allocations becomes the statements that carry it out.
Items == [alloc : DOMAIN allocs, n : Nat]

\* They have the shape of a plan, and say what the items say.
LEMMA PlanStatementsSound ==
    ASSUME Tables, NEW w \in Uses, NEW plan \in Seq(Items),
           \A i, j \in DOMAIN plan : i # j => plan[i].alloc # plan[j].alloc
    PROVE  LET t == PlanStatements(w, plan) IN
           /\ t \in Seq(Statement) /\ PlanShape(t, allocs)
           /\ t = <<>> <=> plan = <<>>
           /\ t # <<>> => Head(t).write = "txn"
           /\ \A j \in DOMAIN t : \E q \in DOMAIN plan :
                 /\ t[j].alloc = plan[q].alloc
                 /\ t[j].account = allocs[plan[q].alloc].account
                 /\ t[j].write \in Uses => t[j].write = w /\ t[j].n = plan[q].n
           /\ \A q \in DOMAIN plan : \E j \in DOMAIN t :
                 t[j].alloc = plan[q].alloc /\ t[j].write = w /\ t[j].n = plan[q].n
  <1> DEFINE L == Len(plan)  t == PlanStatements(w, plan)
             q(j) == (j + 2) \div 3  m(j) == (j + 2) % 3
  <1>1. L \in Nat /\ DOMAIN plan = 1..L
    BY LenProperties
  <1>2. DOMAIN t = 1..3 * L
    BY DEF PlanStatements
  <1>3. \A j \in DOMAIN t : t[j] = Item(w, plan[q(j)].alloc, plan[q(j)].n)[m(j) + 1]
    BY DEF PlanStatements
  <1>4. \A j \in DOMAIN t : q(j) \in DOMAIN plan /\ m(j) \in 0..2
    BY <1>1, <1>2, PlanIndex
  <1>5. \A i \in DOMAIN plan :
            /\ plan[i].alloc \in DOMAIN allocs /\ plan[i].n \in Nat
            /\ allocs[plan[i].alloc].account \in DOMAIN accounts
    <2> SUFFICES ASSUME NEW i \in DOMAIN plan
                 PROVE  /\ plan[i].alloc \in DOMAIN allocs /\ plan[i].n \in Nat
                        /\ allocs[plan[i].alloc].account \in DOMAIN accounts
      OBVIOUS
    <2>1. plan[i] \in Items
      BY <1>1, ElementOfSeq
    <2> QED
      BY <2>1, RowTypes DEF Items
  <1> HIDE DEF L, t
  <1>6. ASSUME NEW j \in DOMAIN t
        PROVE  LET i == plan[q(j)].alloc  n == plan[q(j)].n  a == allocs[i].account IN
               /\ m(j) = 0 => t[j] = Do("txn", a, -n, i)
               /\ m(j) = 1 => t[j] = Do("balance", a, -n, i)
               /\ m(j) = 2 => t[j] = Do(w, a, n, i)
    <2> DEFINE i == plan[q(j)].alloc  n == plan[q(j)].n
    <2>1. t[j] = Item(w, i, n)[m(j) + 1]
      BY <1>3
    <2> HIDE DEF q, m, i, n
    <2>2. /\ m(j) = 0 => m(j) + 1 = 1
          /\ m(j) = 1 => m(j) + 1 = 2
          /\ m(j) = 2 => m(j) + 1 = 3
      OBVIOUS
    <2>3. /\ m(j) = 0 => t[j] = Do("txn", allocs[i].account, -n, i)
          /\ m(j) = 1 => t[j] = Do("balance", allocs[i].account, -n, i)
          /\ m(j) = 2 => t[j] = Do(w, allocs[i].account, n, i)
      BY <2>1, <2>2 DEF Item
    <2> QED
      BY <2>3 DEF i, n
  <1> DEFINE Alloc(j) == plan[q(j)].alloc  N(j) == plan[q(j)].n
             Acct(j) == allocs[plan[q(j)].alloc].account
  <1>7. ASSUME NEW j \in DOMAIN t
        PROVE  /\ Alloc(j) \in DOMAIN allocs /\ N(j) \in Nat /\ Acct(j) \in DOMAIN accounts
               /\ Alloc(j) \in Nat /\ Acct(j) \in Nat
               /\ m(j) = 0 \/ m(j) = 1 \/ m(j) = 2
    BY <1>4, <1>5, <1>7, RowTypes
  <1>8. ASSUME NEW j \in DOMAIN t
        PROVE  /\ t[j] \in Statement
               /\ t[j].account = Acct(j) /\ t[j].alloc = Alloc(j)
               /\ t[j].write = IF m(j) = 0 THEN "txn" ELSE IF m(j) = 1 THEN "balance" ELSE w
               /\ t[j].n = IF m(j) = 2 THEN N(j) ELSE -N(j)
    <2>1. "txn" \in Writes /\ "balance" \in Writes /\ w \in Writes
      BY DEF Writes, Uses
    <2>2. CASE m(j) = 0
      <3>1. t[j] = Do("txn", Acct(j), -N(j), Alloc(j))
        BY <1>6, <2>2
      <3> HIDE DEF Acct, N, Alloc, q, m
      <3> QED
        BY <1>7, <2>1, <2>2, <3>1, DoType
    <2>3. CASE m(j) = 1
      <3>1. t[j] = Do("balance", Acct(j), -N(j), Alloc(j))
        BY <1>6, <2>3
      <3> HIDE DEF Acct, N, Alloc, q, m
      <3> QED
        BY <1>7, <2>1, <2>3, <3>1, DoType
    <2>4. CASE m(j) = 2
      <3>1. t[j] = Do(w, Acct(j), N(j), Alloc(j))
        BY <1>6, <2>4
      <3> HIDE DEF Acct, N, Alloc, q, m
      <3> QED
        BY <1>7, <2>1, <2>4, <3>1, DoType
    <2> QED
      BY <1>7, <2>2, <2>3, <2>4
  <1>9. t \in Seq(Statement)
    <2>1. 3 * L \in Nat
      BY <1>1
    <2>2. t = [j \in 1..3 * L |-> t[j]]
      <3>1. t = [j \in DOMAIN t |-> t[j]]
        BY DEF t, PlanStatements
      <3> QED
        BY <1>2, <3>1
    <2>3. t \in [1..3 * L -> Statement]
      BY <1>2, <1>8, <2>2
    <2> QED
      BY <2>1, <2>3, SeqDef
  <1>10. Len(t) = 3 * L
    BY <1>1, <1>2, <1>9, LenProperties
  <1>11. t = <<>> <=> plan = <<>>
    BY <1>1, <1>9, <1>10, EmptySeq
  <1>12. t # <<>> => Head(t).write = "txn"
    <2> SUFFICES ASSUME t # <<>> PROVE Head(t).write = "txn"
      OBVIOUS
    <2>1. Head(t) = t[1] /\ 1 \in DOMAIN t
      BY <1>9, Rest
    <2>2. m(1) = 0
      OBVIOUS
    <2> HIDE DEF m
    <2> QED
      BY <1>8, <2>1, <2>2
  <1>13. ASSUME NEW j \in DOMAIN t
         PROVE  /\ t[j].alloc \in DOMAIN allocs /\ allocs[t[j].alloc].account = t[j].account
                /\ ItemShape(t, j)
    <2>1. /\ j \in 1..3 * L /\ j + 1 \in Int
          /\ m(j) < 2 => j + 1 \in DOMAIN t /\ q(j + 1) = q(j) /\ m(j + 1) = m(j) + 1
          /\ m(j) = 2 /\ j + 1 \in DOMAIN t => m(j + 1) = 0
          /\ \A i \in DOMAIN t : i > j /\ m(j) = 2 => q(i) > q(j)
      <3>1. j \in 1..3 * L /\ j + 1 \in Int
        BY <1>2, <1>13
      <3>2. /\ m(j) < 2 => j + 1 \in 1..3 * L /\ q(j + 1) = q(j) /\ m(j + 1) = m(j) + 1
            /\ m(j) = 2 /\ j + 1 \in 1..3 * L => m(j + 1) = 0
            /\ \A i \in 1..3 * L : i > j /\ m(j) = 2 => q(i) > q(j)
        BY <1>1, <3>1, PlanIndex
      <3> HIDE DEF q, m
      <3> QED
        BY <1>2, <3>1, <3>2
    <2>2. \A i \in DOMAIN t : i > j /\ m(j) = 2 => Alloc(i) # Alloc(j)
      <3> SUFFICES ASSUME NEW i \in DOMAIN t, i > j, m(j) = 2 PROVE Alloc(i) # Alloc(j)
        OBVIOUS
      <3>1. q(i) # q(j) /\ q(i) \in DOMAIN plan /\ q(j) \in DOMAIN plan
        BY <1>1, <1>4, <2>1
      <3> QED
        BY <3>1
    <2>3. m(j) < 2 => Acct(j + 1) = Acct(j) /\ Alloc(j + 1) = Alloc(j) /\ N(j + 1) = N(j)
      BY <2>1
    <2>4. m(j) = 0 => m(j) < 2 /\ m(j + 1) = 1
      BY <2>1
    <2>5. m(j) = 1 => m(j) < 2 /\ m(j + 1) = 2
      BY <2>1
    <2> HIDE DEF q, m, Acct, Alloc, N
    <2>6. N(j) \in Nat
      BY <1>7
    <2>7. w # "txn" /\ w # "balance"
      BY DEF Uses
    <2>8. CASE m(j) = 0
      <3>1. /\ t[j].write = "txn" /\ t[j].n = -N(j)
            /\ j + 1 \in DOMAIN t /\ t[j + 1].write = "balance" /\ t[j + 1].n = -N(j + 1)
        BY <1>8, <2>1, <2>4, <2>8
      <3>2. t[j + 1].account = t[j].account /\ t[j + 1].alloc = t[j].alloc /\ t[j + 1].n = t[j].n
        BY <1>8, <2>3, <2>4, <2>8, <3>1
      <3> QED
        BY <1>7, <1>8, <3>1, <3>2 DEF ItemShape, Uses, Acct, Alloc
    <2>9. CASE m(j) = 1
      <3>1. /\ t[j].write = "balance" /\ t[j].n = -N(j)
            /\ j + 1 \in DOMAIN t /\ t[j + 1].write = w /\ t[j + 1].n = N(j + 1)
        BY <1>8, <2>1, <2>5, <2>9
      <3>2. t[j + 1].account = t[j].account /\ t[j + 1].alloc = t[j].alloc /\ N(j + 1) = N(j)
        BY <1>8, <2>3, <2>5, <2>9, <3>1
      <3>3. t[j + 1].n = -t[j].n
        BY <2>6, <3>1, <3>2
      <3> QED
        BY <1>7, <1>8, <3>1, <3>2, <3>3 DEF ItemShape, Uses, Acct, Alloc
    <2>10. CASE m(j) = 2
      <3>1. t[j].write = w /\ t[j].n = N(j) /\ t[j].alloc = Alloc(j)
        BY <1>8, <2>10
      <3>2. j + 1 \in DOMAIN t => t[j + 1].write = "txn"
        BY <1>8, <2>1, <2>10
      <3>3. \A i \in DOMAIN t : i > j => t[i].alloc # t[j].alloc
        BY <1>8, <2>2, <2>10
      <3> QED
        BY <1>7, <1>8, <2>6, <2>7, <3>1, <3>2, <3>3 DEF ItemShape, Uses, Acct, Alloc
    <2> QED
      BY <1>7, <2>8, <2>9, <2>10
  <1>14. PlanShape(t, allocs)
    BY <1>13 DEF PlanShape
  <1>15. ASSUME NEW j \in DOMAIN t
         PROVE  \E i \in DOMAIN plan :
                   /\ t[j].alloc = plan[i].alloc
                   /\ t[j].account = allocs[plan[i].alloc].account
                   /\ t[j].write \in Uses => t[j].write = w /\ t[j].n = plan[i].n
    <2>1. /\ q(j) \in DOMAIN plan /\ t[j].alloc = plan[q(j)].alloc
          /\ t[j].account = allocs[plan[q(j)].alloc].account
      BY <1>4, <1>8
    <2>2. t[j].write \in Uses => t[j].write = w /\ t[j].n = plan[q(j)].n
      <3> HIDE DEF m
      <3> QED
        BY <1>7, <1>8 DEF Uses
    <2> HIDE DEF q
    <2> QED
      BY <2>1, <2>2
  <1>16. ASSUME NEW i \in DOMAIN plan
         PROVE  \E j \in DOMAIN t :
                   t[j].alloc = plan[i].alloc /\ t[j].write = w /\ t[j].n = plan[i].n
    <2>1. 3 * i \in DOMAIN t /\ q(3 * i) = i /\ m(3 * i) = 2
      BY <1>1, <1>2, PlanPlace
    <2>2. t[3 * i].write = w /\ t[3 * i].alloc = Alloc(3 * i) /\ t[3 * i].n = N(3 * i)
      <3> HIDE DEF q, m, Alloc, N
      <3> QED
        BY <1>8, <2>1
    <2> QED
      BY <2>1, <2>2
  <1> HIDE DEF q, m
  <1> QED
    BY <1>9, <1>11, <1>12, <1>14, <1>15, <1>16 DEF t

\* What is left in some allocations is a number.
LEMMA LeftInInt ==
    ASSUME Tables, NEW S \in SUBSET DOMAIN allocs
    PROVE  LeftIn(S) \in Int
  <1>1. IsFiniteSet(S)
    BY RowTypes, FS_Subset
  <1>2. \A i \in S : [j \in DOMAIN allocs |-> Left(j)][i] \in Int
    BY RowTypes
  <1> QED
    BY <1>1, <1>2, SumInt DEF LeftIn

\* What consume plans to use, it can use.
LEMMA PartSound ==
    ASSUME Tables, NEW u, NEW n \in Nat, NEW i \in Used(u, n)
    PROVE  /\ i \in DOMAIN allocs /\ Owed(u, n, i) \in Int /\ Owed(u, n, i) > 0
           /\ Left(i) \in Int /\ Left(i) > 0
           /\ Part(u, n, i) \in Nat /\ Part(u, n, i) > 0 /\ Part(u, n, i) <= Left(i)
  <1>1. i \in DOMAIN allocs /\ Left(i) > 0 /\ Owed(u, n, i) > 0
    BY DEF Used, Available
  <1>2. Left(i) \in Int
    BY <1>1, RowTypes
  <1>3. Owed(u, n, i) \in Int
    <2>1. {j \in Available(u) : Sooner(j, i)} \in SUBSET DOMAIN allocs
      BY DEF Available
    <2>2. LeftIn({j \in Available(u) : Sooner(j, i)}) \in Int
      BY <2>1, LeftInInt
    <2> QED
      BY <2>2 DEF Owed
  <1> QED
    BY <1>1, <1>2, <1>3 DEF Part

\* Plans made from a sorted list.
LEMMA PlanOfList ==
    ASSUME Tables, NEW S \in SUBSET DOMAIN allocs, NEW s \in Sorted(S),
           NEW f, \A i \in S : f[i] \in Nat,
           NEW plan, plan = [j \in DOMAIN s |-> [alloc |-> s[j], n |-> f[s[j]]]]
    PROVE  /\ plan \in Seq(Items) /\ DOMAIN plan = DOMAIN s
           /\ \A i, j \in DOMAIN plan : i # j => plan[i].alloc # plan[j].alloc
           /\ \A j \in DOMAIN plan : plan[j].alloc \in S /\ plan[j].n = f[plan[j].alloc]
           /\ \A i \in S : \E j \in DOMAIN plan : plan[j].alloc = i
           /\ plan = <<>> <=> S = {}
  <1>1. /\ IsFiniteSet(S) /\ Cardinality(S) \in Nat
        /\ s \in Seq(S) /\ Len(s) = Cardinality(S) /\ DOMAIN s = 1..Cardinality(S)
        /\ \A i, j \in DOMAIN s : i # j => s[i] # s[j]
        /\ \A x \in S : \E j \in DOMAIN s : s[j] = x
    BY SortedListsAll
  <1>2. \A j \in DOMAIN s : s[j] \in S
    BY <1>1, ElementOfSeq
  <1>3. plan \in [1..Cardinality(S) -> Items]
    BY <1>1, <1>2 DEF Items
  <1>4. plan \in Seq(Items)
    BY <1>1, <1>3, SeqDef
  <1>5. DOMAIN plan = DOMAIN s /\ \A j \in DOMAIN s : plan[j].alloc = s[j] /\ plan[j].n = f[s[j]]
    OBVIOUS
  <1>6. plan = <<>> <=> S = {}
    <2>1. Len(plan) = Cardinality(S)
      BY <1>1, <1>4, <1>5, LenProperties
    <2>2. plan = <<>> <=> Cardinality(S) = 0
      BY <1>4, <2>1, EmptySeq
    <2> QED
      BY <1>1, <2>2, FS_EmptySet
  <1>7. \A i, j \in DOMAIN plan : i # j => plan[i].alloc # plan[j].alloc
    BY <1>1, <1>5
  <1>8. \A j \in DOMAIN plan : plan[j].alloc \in S /\ plan[j].n = f[plan[j].alloc]
    BY <1>2, <1>5
  <1>9. \A i \in S : \E j \in DOMAIN plan : plan[j].alloc = i
    BY <1>1, <1>5
  <1> QED
    BY <1>4, <1>5, <1>6, <1>7, <1>8, <1>9

\* A consumption plan names each allocation it uses once, and takes its part.
LEMMA ConsumptionPlanSound ==
    ASSUME Tables, NEW u, NEW n \in Nat, NEW plan \in ConsumptionPlan(u, n)
    PROVE  /\ plan \in Seq(Items)
           /\ \A i, j \in DOMAIN plan : i # j => plan[i].alloc # plan[j].alloc
           /\ \A j \in DOMAIN plan : /\ plan[j].alloc \in Used(u, n)
                                     /\ plan[j].n = Part(u, n, plan[j].alloc)
                                     /\ plan[j].n <= Left(plan[j].alloc)
           /\ \A i \in Used(u, n) : \E j \in DOMAIN plan : plan[j].alloc = i
  <1>1. PICK S : S = Used(u, n)
    OBVIOUS
  <1>2. PICK f : f = [i \in S |-> Part(u, n, i)]
    OBVIOUS
  <1>3. PICK s \in Sorted(S) :
            plan = [j \in DOMAIN s |-> [alloc |-> s[j], n |-> Part(u, n, s[j])]]
    BY <1>1 DEF ConsumptionPlan
  <1>4. /\ S \in SUBSET DOMAIN allocs
        /\ \A i \in S : f[i] \in Nat /\ f[i] = Part(u, n, i) /\ f[i] <= Left(i)
    BY <1>1, <1>2, PartSound
  <1>5. \A j \in DOMAIN s : s[j] \in S
    BY DEF Sorted
  <1>6. plan = [j \in DOMAIN s |-> [alloc |-> s[j], n |-> f[s[j]]]]
    BY <1>3, <1>4, <1>5
  <1>7. /\ plan \in Seq(Items)
        /\ \A i, j \in DOMAIN plan : i # j => plan[i].alloc # plan[j].alloc
        /\ \A j \in DOMAIN plan : plan[j].alloc \in S /\ plan[j].n = f[plan[j].alloc]
        /\ \A i \in S : \E j \in DOMAIN plan : plan[j].alloc = i
    BY <1>4, <1>6, PlanOfList
  <1> QED
    BY <1>1, <1>4, <1>7

\* The daily job's list names each expiring allocation once, with what it has.
LEMMA ExpiryPlanSound ==
    ASSUME Tables, NEW s \in Sorted(Expiring)
    PROVE  LET plan == [j \in DOMAIN s |-> [alloc |-> s[j], n |-> Remaining(s[j])]] IN
           /\ plan \in Seq(Items)
           /\ \A i, j \in DOMAIN plan : i # j => plan[i].alloc # plan[j].alloc
           /\ \A j \in DOMAIN plan : plan[j].alloc \in Expiring /\ plan[j].n <= Left(plan[j].alloc)
           /\ plan = <<>> <=> Expiring = {}
  <1> DEFINE plan == [j \in DOMAIN s |-> [alloc |-> s[j], n |-> Remaining(s[j])]]
             f == [i \in Expiring |-> Remaining(i)]
  <1>1. Expiring \in SUBSET DOMAIN allocs
    BY DEF Expiring
  <1>2. ASSUME NEW i \in Expiring PROVE f[i] \in Nat /\ f[i] = Left(i) /\ f[i] <= Left(i)
    <2>1. Left(i) \in Int /\ Remaining(i) = Left(i)
      BY <1>1, RowTypes
    <2>2. Left(i) > 0
      BY DEF Expiring
    <2> QED
      BY <2>1, <2>2
  <1>3. \A j \in DOMAIN s : s[j] \in Expiring
    BY DEF Sorted
  <1>4. plan = [j \in DOMAIN s |-> [alloc |-> s[j], n |-> f[s[j]]]]
    BY <1>3
  <1> HIDE DEF f, plan
  <1>5. /\ plan \in Seq(Items)
        /\ \A i, j \in DOMAIN plan : i # j => plan[i].alloc # plan[j].alloc
        /\ \A j \in DOMAIN plan : plan[j].alloc \in Expiring /\ plan[j].n = f[plan[j].alloc]
        /\ plan = <<>> <=> Expiring = {}
    BY <1>1, <1>2, <1>4, PlanOfList
  <1>6. \A j \in DOMAIN plan : plan[j].n <= Left(plan[j].alloc)
    BY <1>2, <1>5
  <1> QED
    BY <1>5, <1>6 DEF plan

-----------------------------------------------------------------------------
(* A call up to its first statement.                                       *)

\* Nothing is between two records, and no campaign is to be charged.
Clean(k) ==
    /\ \A a \in Nat \ {0} : DriftOf(k, a) = 0 /\ BookedOf(k, a) = 0
    /\ k.todo # <<>> => Head(k.todo).write # "budget"

\* What call c is going to use is there, and it shares what others plan to use.
Fresh(c, k) ==
    \A j \in DOMAIN k.todo :
        \/ k.todo[j].alloc = 0 /\ k.todo[j].write \notin Uses
        \/ /\ k.todo[j].alloc \in DOMAIN allocs
           /\ k.todo[j].write \in Uses => k.todo[j].n <= Left(k.todo[j].alloc)
           /\ k.todo[j].alloc \in shared'
                 \/ \A d \in Calls \ {c} : k.todo[j].alloc \notin Planned(d)

Becomes(c, k) ==
    /\ call' = [call EXCEPT ![c] = k]
    /\ CallSound(k, accounts, allocs) /\ Clean(k) /\ Fresh(c, k)

\* A call without statements.
LEMMA EmptyClean ==
    ASSUME NEW c, NEW k, k.todo = <<>>
    PROVE  Clean(k) /\ Fresh(c, k)
  BY NothingBetween DEF Clean, Fresh

\* A call without statements has only to be at a possible step.
LEMMA StartEmpty ==
    ASSUME NEW c, NEW k \in Call, call' = [call EXCEPT ![c] = k], k.todo = <<>>,
           StepSound(k, accounts), k.kind # "delete"
    PROVE  Becomes(c, k)
  <1>1. k.step # "run"
    BY DEF StepSound
  <1>2. PlanShape(k.todo, allocs)
    BY DEF PlanShape
  <1> QED
    BY <1>1, <1>2, EmptyClean DEF Becomes, CallSound

\* An operation starts in an idle slot.
LEMMA CalledIdle ==
    ASSUME NEW c \in Calls, call \in [Calls -> Call], CallsSound, Called(c)
    PROVE  /\ call[c] \in Call /\ call[c].todo = <<>> /\ call[c].kind = "none"
           /\ call[c].step = "idle" /\ CallSound(call[c], accounts, allocs)
           /\ call' = call => Becomes(c, call[c])
  <1>1. call[c] \in Call /\ StepSound(call[c], accounts) /\ call[c].step = "idle"
        /\ CallSound(call[c], accounts, allocs)
    BY DEF Called, CallsSound, CallSound
  <1>2. call[c].todo = <<>> /\ call[c].kind = "none"
    BY <1>1 DEF StepSound
  <1>3. call' = call => call' = [call EXCEPT ![c] = call[c]]
    OBVIOUS
  <1> QED
    BY <1>1, <1>2, <1>3, StartEmpty

\* The operations, one by one: allocate_credits ...
LEMMA AllocateStarts ==
    ASSUME Tables, NEW c \in Calls, call \in [Calls -> Call], CallsSound, Allocate(c)
    PROVE  \E k \in Call : Becomes(c, k)
  <1>1. PICK u \in Users, t \in Types, n \in Grants, k \in Campaigns \cup {NoCampaign},
            e \in Expiries :
            call' = [call EXCEPT ![c] =
              [Idle EXCEPT !.kind = "allocate", !.user = u, !.type = t, !.n = n,
                           !.campaign = k, !.expires = e,
                           !.step = IF AccountOf(u, t) = {} THEN "open" ELSE "check"]]
    BY DEF Allocate
  <1> DEFINE s == IF AccountOf(u, t) = {} THEN "open" ELSE "check"
             x == [Idle EXCEPT !.kind = "allocate", !.user = u, !.type = t, !.n = n,
                               !.campaign = k, !.expires = e, !.step = s]
  <1>2. s \in {"open", "check"} /\ n \in Nat /\ n > 0 /\ e \in 0..Never
    BY LedgerAssumption
  <1>3. Idle \in Call
    BY IdleSound
  <1>4. /\ x \in Call /\ x.todo = <<>> /\ x.step = s /\ x.kind = "allocate" /\ x.user = u
        /\ x.n = n /\ x.from = 0
    BY <1>2, <1>3 DEF Call, Kinds, Steps, Idle
  <1>5. call' = [call EXCEPT ![c] = x]
    BY <1>1
  <1> HIDE DEF x, s
  <1>6. StepSound(x, accounts)
    BY <1>2, <1>4 DEF StepSound
  <1> QED
    BY <1>4, <1>5, <1>6, StartEmpty

\* ... transfer_credits ...
LEMMA TransferStarts ==
    ASSUME Tables, NEW c \in Calls, call \in [Calls -> Call], CallsSound, Transfer(c)
    PROVE  \E k \in Call : Becomes(c, k)
  <1>1. PICK a \in DOMAIN accounts, v \in Users, n \in Amounts :
            /\ accounts[a].user # v
            /\ call' = IF accounts[a].balance < n THEN call
                       ELSE [call EXCEPT ![c] =
                              [Idle EXCEPT !.kind = "transfer", !.user = v,
                                           !.type = accounts[a].type, !.n = n, !.from = a,
                                           !.step = IF AccountOf(v, accounts[a].type) = {}
                                                    THEN "open" ELSE "check"]]
    BY DEF Transfer
  <1>2. CASE accounts[a].balance < n
    <2>1. Called(c) /\ call' = call
      BY <1>1, <1>2 DEF Transfer
    <2> QED
      BY <2>1, CalledIdle
  <1>3. CASE ~(accounts[a].balance < n)
    <2> DEFINE t == accounts[a].type
               s == IF AccountOf(v, t) = {} THEN "open" ELSE "check"
               x == [Idle EXCEPT !.kind = "transfer", !.user = v, !.type = t, !.n = n,
                                 !.from = a, !.step = s]
    <2>1. s \in {"open", "check"} /\ n \in Nat /\ n > 0
      BY LedgerAssumption
    <2>2. a \in Nat /\ t \in Types
      <3>1. accounts[a] \in Account /\ a \in Nat
        BY RowTypes
      <3> QED
        BY <3>1 DEF Account
    <2>3. Idle \in Call
      BY IdleSound
    <2>5. call' = [call EXCEPT ![c] = x]
      BY <1>1, <1>3
    <2> HIDE DEF t, s
    <2>4. /\ x \in Call /\ x.todo = <<>> /\ x.step = s /\ x.kind = "transfer" /\ x.user = v
          /\ x.n = n /\ x.from = a /\ x.campaign = NoCampaign
      BY <2>1, <2>2, <2>3 DEF Call, Kinds, Steps, Idle
    <2> HIDE DEF x
    <2>6. StepSound(x, accounts)
      BY <1>1, <2>1, <2>4 DEF StepSound
    <2> QED
      BY <2>4, <2>5, <2>6, StartEmpty
  <1> QED
    BY <1>2, <1>3

\* ... consume_credits ...
LEMMA ConsumeStarts ==
    ASSUME Tables, NEW c \in Calls, call \in [Calls -> Call], CallsSound, Consume(c)
    PROVE  \E k \in Call : Becomes(c, k)
  <1>1. PICK u \in Users, n \in Amounts :
            call' = IF AccountsOf(u) = {} \/ Balance(AccountsOf(u)) < n THEN call
                    ELSE [call EXCEPT ![c] = [Idle EXCEPT !.kind = "consume", !.step = "plan",
                                                          !.user = u, !.n = n]]
    BY DEF Consume
  <1>2. CASE call' = call
    BY <1>2, CalledIdle DEF Consume
  <1>3. CASE call' # call
    <2> DEFINE x == [Idle EXCEPT !.kind = "consume", !.step = "plan", !.user = u, !.n = n]
    <2>1. n \in Nat /\ n > 0
      BY LedgerAssumption
    <2>3. Idle \in Call
      BY IdleSound
    <2>4. /\ x \in Call /\ x.todo = <<>> /\ x.step = "plan" /\ x.kind = "consume"
          /\ x.n = n /\ x.from = 0 /\ x.campaign = NoCampaign
      BY <2>1, <2>3 DEF Call, Kinds, Steps, Idle
    <2>5. call' = [call EXCEPT ![c] = x]
      BY <1>1, <1>3
    <2> HIDE DEF x
    <2>6. StepSound(x, accounts)
      BY <2>1, <2>4 DEF StepSound
    <2> QED
      BY <2>4, <2>5, <2>6, StartEmpty
  <1> QED
    BY <1>2, <1>3

\* ... delete_user_data ...
LEMMA DeleteStarts ==
    ASSUME Tables, NEW c \in Calls, call \in [Calls -> Call], CallsSound, Delete(c)
    PROVE  \E k \in Call : Becomes(c, k)
  <1> DEFINE t == <<Do("del_allocs", 0, 0, 0), Do("del_txns", 0, 0, 0),
                    Do("del_accounts", 0, 0, 0)>>
  <1>1. PICK u \in Users :
            call' = [call EXCEPT ![c] =
                [Idle EXCEPT !.kind = "delete", !.step = "run", !.user = u, !.todo = t]]
    BY DEF Delete
  <1>2. /\ Do("del_allocs", 0, 0, 0) \in Statement /\ Do("del_txns", 0, 0, 0) \in Statement
        /\ Do("del_accounts", 0, 0, 0) \in Statement
    BY DEF Do, Statement, Writes
  <1>3. /\ t \in Seq(Statement) /\ Len(t) = 3 /\ DOMAIN t = 1..3 /\ t # <<>>
        /\ t[1] = Do("del_allocs", 0, 0, 0) /\ t[2] = Do("del_txns", 0, 0, 0)
        /\ t[3] = Do("del_accounts", 0, 0, 0) /\ Head(t) = t[1]
    BY <1>2
  <1> HIDE DEF t
  <1> DEFINE x == [Idle EXCEPT !.kind = "delete", !.step = "run", !.user = u, !.todo = t]
  <1>4. Idle \in Call
    BY IdleSound
  <1>5. /\ x \in Call /\ x.todo = t /\ x.step = "run" /\ x.kind = "delete"
        /\ x.from = 0 /\ x.campaign = NoCampaign
    BY <1>3, <1>4 DEF Call, Kinds, Steps, Idle
  <1>6. call' = [call EXCEPT ![c] = x]
    BY <1>1
  <1> HIDE DEF x
  <1>7. \A j \in DOMAIN t : t[j] = Do(DeleteWrite(Len(t) - j), 0, 0, 0)
    BY <1>3 DEF DeleteWrite
  <1>8. StepSound(x, accounts) /\ DeleteShape(x)
    <2>1. DeleteShape(x)
      <3>1. Len(x.todo) <= 3
        <4>1. Len(t) = 3 /\ x.todo = t
          BY <1>3, <1>5
        <4>2. Len(t) <= 3
          BY <4>1
        <4> QED
          BY <4>1, <4>2, Zenon
      <3>2. \A j \in DOMAIN x.todo : x.todo[j] = Do(DeleteWrite(Len(x.todo) - j), 0, 0, 0)
        BY <1>5, <1>7
      <3> QED
        BY <3>1, <3>2 DEF DeleteShape
    <2>2. StepSound(x, accounts)
      BY <1>3, <1>5 DEF StepSound
    <2> QED
      BY <2>1, <2>2
  <1>9. CallSound(x, accounts, allocs)
    BY <1>5, <1>8 DEF CallSound
  <1>10. \A j \in DOMAIN t : t[j].alloc = 0 /\ t[j].write \notin Uses \cup {"budget"}
    BY <1>3, <1>5, <1>8, DeleteHead
  <1>11. Clean(x) /\ Fresh(c, x)
    <2>1. \A a \in Nat \ {0} : DriftOf(x, a) = 0 /\ BookedOf(x, a) = 0
      BY <1>5, <1>9, DeleteEffect
    <2>2. Head(t).write # "budget"
      BY <1>3, <1>10
    <2> QED
      BY <1>5, <1>10, <2>1, <2>2 DEF Clean, Fresh
  <1> QED
    BY <1>5, <1>6, <1>9, <1>11 DEF Becomes

\* ... and the account that is found or opened.
LEMMA OpenStarts ==
    ASSUME NEW c \in Calls, call \in [Calls -> Call], CallsSound, Open(c)
    PROVE  \E k \in Call : Becomes(c, k)
  <1> DEFINE x == [call[c] EXCEPT !.step = "check"]
  <1>1. call[c] \in Call /\ call[c].step = "open" /\ StepSound(call[c], accounts)
    BY DEF Open, CallsSound, CallSound
  <1>2. call' = [call EXCEPT ![c] = x] \/ call' = [call EXCEPT ![c] = Idle]
    BY DEF Open, Goto, Return
  <1>3. /\ x \in Call /\ x.todo = call[c].todo /\ x.step = "check" /\ x.kind = call[c].kind
        /\ x.user = call[c].user /\ x.n = call[c].n /\ x.from = call[c].from
        /\ x.campaign = call[c].campaign
    BY <1>1 DEF Call, Steps
  <1>4. Idle \in Call /\ Idle.todo = <<>> /\ Idle.kind = "none" /\ StepSound(Idle, accounts)
    BY IdleSound DEF CallSound
  <1> HIDE DEF x
  <1>5. StepSound(x, accounts) /\ x.todo = <<>> /\ x.kind # "delete"
    BY <1>1, <1>3 DEF StepSound
  <1> QED
    BY <1>2, <1>3, <1>4, <1>5, StartEmpty

\* The budget comes after the three statements of an allocation.
LEMMA ConcatThree ==
    ASSUME NEW S, NEW x \in S, NEW y \in S, NEW z \in S, NEW w \in S
    PROVE  <<x, y, z>> \o <<w>> = <<x, y, z, w>>
  <1> DEFINE p == <<x, y, z>>  q == <<x, y, z, w>>  r == <<w>>
  <1>1. p \in Seq(S) /\ q \in Seq(S) /\ r \in Seq(S) /\ Len(p) = 3 /\ Len(q) = 4 /\ Len(r) = 1
    OBVIOUS
  <1>2. /\ p[1] = x /\ p[2] = y /\ p[3] = z /\ r[1] = w
        /\ q[1] = x /\ q[2] = y /\ q[3] = z /\ q[4] = w
    OBVIOUS
  <1> HIDE DEF p, q, r
  <1>0. /\ p \o r \in Seq(S) /\ Len(p \o r) = Len(p) + Len(r)
        /\ \A i \in 1..Len(p) + Len(r) :
              (p \o r)[i] = IF i <= Len(p) THEN p[i] ELSE r[i - Len(p)]
    BY <1>1, ConcatProperties
  <1>3. /\ p \o r \in Seq(S) /\ Len(p \o r) = 4
        /\ \A i \in 1..4 : (p \o r)[i] = IF i <= 3 THEN p[i] ELSE r[i - 3]
    BY <1>0, <1>1
  <1>4. \A i \in 1..4 : (p \o r)[i] = q[i]
    <2> SUFFICES ASSUME NEW i \in 1..4 PROVE (p \o r)[i] = q[i]
      OBVIOUS
    <2>1. i = 1 \/ i = 2 \/ i = 3 \/ i = 4
      OBVIOUS
    <2>2. (p \o r)[i] = IF i <= 3 THEN p[i] ELSE r[i - 3]
      BY <1>3
    <2> QED
      BY <1>2, <2>1, <2>2
  <1>5. p \o r = q
    BY <1>1, <1>3, <1>4, SeqEqual
  <1> QED
    BY <1>5 DEF p, q, r

\* Grant has the shape of an allocation.
LEMMA GrantSound ==
    ASSUME Tables, NEW c \in Calls, call[c] \in Call, NEW a \in DOMAIN accounts
    PROVE  LET t == Grant(c, a)  k == call[c] IN
           /\ t \in Seq(Statement)
           /\ Len(t) = (IF k.campaign = NoCampaign THEN 3 ELSE 4)
           /\ \A j \in DOMAIN t : t[j] = Do(GrantWrite(k, Len(t) - j), a, k.n, 0)
  <1> DEFINE k == call[c]
             p == <<Do("txn", a, k.n, 0), Do("balance", a, k.n, 0), Do("alloc", a, k.n, 0)>>
             b == Do("budget", a, k.n, 0)
  <1>1. a \in Nat /\ k.n \in Nat /\ k.n \in Int
    BY RowTypes DEF Call
  <1>2. /\ Do("txn", a, k.n, 0) \in Statement /\ Do("balance", a, k.n, 0) \in Statement
        /\ Do("alloc", a, k.n, 0) \in Statement /\ b \in Statement
    BY <1>1 DEF Do, Statement, Writes
  <1>3. CASE k.campaign = NoCampaign
    <2>1. p \in Seq(Statement) /\ Len(p) = 3
      BY <1>2
    <2>2. Grant(c, a) = p
      BY <1>3, <2>1, ConcatEmptySeq DEF Grant
    <2>3. \A j \in DOMAIN p : p[j] = Do(GrantWrite(k, Len(p) - j), a, k.n, 0)
      BY <1>3, <2>1 DEF GrantWrite
    <2> HIDE DEF p, k
    <2> QED
      BY <1>3, <2>1, <2>2, <2>3 DEF k
  <1>4. CASE k.campaign # NoCampaign
    <2> DEFINE q == <<Do("txn", a, k.n, 0), Do("balance", a, k.n, 0), Do("alloc", a, k.n, 0), b>>
    <2>1. q \in Seq(Statement) /\ Len(q) = 4
      BY <1>2
    <2>2. Grant(c, a) = q
      <3>1. Grant(c, a) = p \o <<b>>
        BY <1>4 DEF Grant
      <3>2. p \o <<b>> = q
        BY <1>2, ConcatThree
      <3> QED
        BY <3>1, <3>2
    <2>3. \A j \in DOMAIN q : q[j] = Do(GrantWrite(k, Len(q) - j), a, k.n, 0)
      BY <1>4, <2>1 DEF GrantWrite
    <2> HIDE DEF q, k
    <2> QED
      BY <1>4, <2>1, <2>2, <2>3 DEF k
  <1> QED
    BY <1>3, <1>4

\* Move has the shape of a transfer.
LEMMA MoveSound ==
    ASSUME Tables, NEW c \in Calls, call[c] \in Call, NEW a \in DOMAIN accounts
    PROVE  LET t == Move(c, a)  k == call[c] IN
           /\ t \in Seq(Statement) /\ Len(t) = 4 /\ t # <<>>
           /\ \A j \in DOMAIN t :
                LET r == Len(t) - j IN
                t[j] = IF r \in {0, 2} THEN Do(MoveWrite(r), a, k.n, 0)
                       ELSE Do(MoveWrite(r), k.from, -k.n, 0)
  <1> DEFINE t == Move(c, a)  n == call[c].n  s == call[c].from
  <1>1. a \in Nat /\ n \in Nat /\ n \in Int /\ -n \in Int /\ s \in Nat
    BY RowTypes DEF Call
  <1>2. /\ Do("txn", s, -n, 0) \in Statement /\ Do("txn", a, n, 0) \in Statement
        /\ Do("balance", s, -n, 0) \in Statement /\ Do("balance", a, n, 0) \in Statement
    BY <1>1 DEF Do, Statement, Writes
  <1>3. t = <<Do("txn", s, -n, 0), Do("txn", a, n, 0), Do("balance", s, -n, 0),
              Do("balance", a, n, 0)>>
    BY DEF Move
  <1>4. /\ t \in Seq(Statement) /\ Len(t) = 4 /\ DOMAIN t = 1..4 /\ t # <<>>
        /\ t[1] = Do("txn", s, -n, 0) /\ t[2] = Do("txn", a, n, 0)
        /\ t[3] = Do("balance", s, -n, 0) /\ t[4] = Do("balance", a, n, 0)
    BY <1>2, <1>3
  <1> HIDE DEF t, n, s
  <1>5. ASSUME NEW j \in DOMAIN t
        PROVE  t[j] = IF Len(t) - j \in {0, 2} THEN Do(MoveWrite(Len(t) - j), a, n, 0)
                      ELSE Do(MoveWrite(Len(t) - j), s, -n, 0)
    <2>1. j = 1 \/ j = 2 \/ j = 3 \/ j = 4
      BY <1>4
    <2> QED
      BY <1>4, <2>1 DEF MoveWrite
  <1> QED
    BY <1>4, <1>5 DEF t, n, s

\* With its account at hand an allocation or a transfer gets its statements.
LEMMA CheckStarts ==
    ASSUME Tables, NEW c \in Calls, call \in [Calls -> Call], CallsSound, Check(c)
    PROVE  \E k \in Call : Becomes(c, k)
  <1> DEFINE k == call[c]  a == The(AccountOf(k.user, k.type))
  <1>1. k \in Call /\ k.step = "check" /\ StepSound(k, accounts)
    BY DEF Check, CallsSound, CallSound
  <1>2. k.kind \in {"allocate", "transfer"} /\ k.user \in Users /\ k.n > 0 /\ k.n \in Nat
        /\ k.from \in Nat
    BY <1>1 DEF StepSound, Call
  <1>3. CASE call' = [call EXCEPT ![c] = Idle]
    <2>1. Idle \in Call /\ Idle.todo = <<>> /\ Idle.kind = "none" /\ StepSound(Idle, accounts)
      BY IdleSound DEF CallSound
    <2> QED
      BY <1>3, <2>1, StartEmpty
  <1>4. CASE /\ AccountOf(k.user, k.type) # {}
             /\ Run(c, IF k.kind = "allocate" THEN Grant(c, a) ELSE Move(c, a))
    <2>1. a \in DOMAIN accounts /\ accounts[a].user = k.user
      <3>1. a \in AccountOf(k.user, k.type)
        BY <1>4 DEF The
      <3> HIDE DEF a
      <3> QED
        BY <3>1 DEF AccountOf, AccountsOf
    <2> HIDE DEF a
    <2> DEFINE t == IF k.kind = "allocate" THEN Grant(c, a) ELSE Move(c, a)
               x == [k EXCEPT !.step = "run", !.todo = t]
    <2>2. call' = [call EXCEPT ![c] = x]
      BY <1>4 DEF Run
    <2>3. CASE k.kind = "allocate"
      <3>1. /\ t \in Seq(Statement)
            /\ Len(t) = (IF k.campaign = NoCampaign THEN 3 ELSE 4)
            /\ \A j \in DOMAIN t : t[j] = Do(GrantWrite(k, Len(t) - j), a, k.n, 0)
        BY <1>1, <2>1, <2>3, GrantSound
      <3> HIDE DEF t
      <3>0. t # <<>>
        <4>1. Len(t) # 0
          BY <3>1
        <4> QED
          BY <4>1
      <3>2. Len(t) \in Nat /\ DOMAIN t = 1..Len(t) /\ Head(t) = t[1] /\ 1 \in DOMAIN t /\ t # <<>>
        <4>1. t \in Seq(Statement)
          BY <3>1
        <4> QED
          BY <3>0, <4>1, Rest
      <3>x. x = Advance(k, t)
        BY <3>0 DEF Advance
      <3> HIDE DEF x
      <3>3. /\ x \in Call /\ x.todo = t /\ x.step = "run" /\ x.kind = "allocate"
            /\ x.user = k.user /\ x.n = k.n /\ x.from = k.from /\ x.campaign = k.campaign
        <4>1. t \in Seq(Statement)
          BY <3>1
        <4> QED
          BY <1>1, <2>3, <3>0, <3>x, <4>1, AdvanceFields
      <3>4. StepSound(x, accounts)
        BY <1>1, <1>2, <2>3, <3>2, <3>3 DEF StepSound
      <3>5. GrantShape(x, accounts)
        <4>1. \A j \in Int : GrantWrite(x, j) = GrantWrite(k, j)
          BY <3>3 DEF GrantWrite
        <4>2. \A j \in DOMAIN t : Len(t) - j \in Int
          BY <3>2
        <4>3. \A j \in DOMAIN t : t[j] = Do(GrantWrite(x, Len(t) - j), a, x.n, 0)
          BY <3>1, <3>3, <4>1, <4>2
        <4>4. Len(t) <= IF x.campaign = NoCampaign THEN 3 ELSE 4
          BY <3>1, <3>3
        <4> QED
          BY <2>1, <3>3, <4>3, <4>4 DEF GrantShape
      <3>6. CallSound(x, accounts, allocs)
        BY <3>3, <3>4, <3>5 DEF CallSound
      <3>7. \A j \in DOMAIN t : t[j].write \notin Uses /\ t[j].alloc = 0
        <4>1. \A j \in DOMAIN t : t[j].write = GrantWrite(k, Len(t) - j) /\ t[j].alloc = 0
          BY <3>1 DEF Do
        <4>2. \A j \in Int : GrantWrite(k, j) \notin Uses
          BY DEF GrantWrite, Uses
        <4>3. \A j \in DOMAIN t : Len(t) - j \in Int
          BY <3>2
        <4> QED
          BY <4>1, <4>2, <4>3
      <3>8. Head(t).write = "txn"
        <4>0. Head(t) = t[1] /\ 1 \in DOMAIN t
          BY <3>2
        <4>2. t[1] = Do(GrantWrite(k, Len(t) - 1), a, k.n, 0)
          BY <3>1, <4>0
        <4>1. Head(t).write = GrantWrite(k, Len(t) - 1)
          BY <4>0, <4>2 DEF Do
        <4> QED
          BY <3>1, <4>1 DEF GrantWrite
      <3>9. \A b \in Nat \ {0} : DriftOf(x, b) = 0 /\ BookedOf(x, b) = 0
        BY <3>3, <3>8 DEF DriftOf, BookedOf, Uses
      <3>10. Clean(x) /\ Fresh(c, x)
        BY <3>3, <3>7, <3>8, <3>9 DEF Clean, Fresh
      <3> QED
        BY <2>2, <3>3, <3>6, <3>10 DEF Becomes
    <2>4. CASE k.kind = "transfer"
      <3>1. /\ t \in Seq(Statement) /\ Len(t) = 4 /\ t # <<>>
            /\ \A j \in DOMAIN t :
                 t[j] = IF Len(t) - j \in {0, 2} THEN Do(MoveWrite(Len(t) - j), a, k.n, 0)
                        ELSE Do(MoveWrite(Len(t) - j), k.from, -k.n, 0)
        BY <1>1, <2>1, <2>4, MoveSound
      <3> HIDE DEF t
      <3>x. x = Advance(k, t)
        BY <3>1 DEF Advance
      <3> HIDE DEF x
      <3>3. /\ x \in Call /\ x.todo = t /\ x.step = "run" /\ x.kind = "transfer"
            /\ x.user = k.user /\ x.n = k.n /\ x.from = k.from /\ x.campaign = k.campaign
        <4>1. t \in Seq(Statement) /\ t # <<>>
          BY <3>1
        <4> QED
          BY <1>1, <2>4, <3>x, <4>1, AdvanceFields
      <3>4. StepSound(x, accounts)
        BY <1>1, <1>2, <2>4, <3>1, <3>3 DEF StepSound
      <3>5. MoveShape(x, accounts)
        <4>1. a # k.from
          BY <1>1, <2>1, <2>4 DEF StepSound
        <4>2. \A j \in DOMAIN x.todo :
                 x.todo[j] = IF Len(x.todo) - j \in {0, 2}
                             THEN Do(MoveWrite(Len(x.todo) - j), a, x.n, 0)
                             ELSE Do(MoveWrite(Len(x.todo) - j), x.from, -x.n, 0)
          BY <3>1, <3>3
        <4>3. Len(x.todo) <= 4
          <5>1. Len(t) = 4
            BY <3>1
          <5>2. Len(x.todo) = Len(t)
            BY <3>3
          <5> QED
            BY <5>1, <5>2
        <4>4. a # x.from
          BY <3>3, <4>1
        <4> HIDE DEF k
        <4> QED
          BY <2>1, <4>2, <4>3, <4>4 DEF MoveShape
      <3>6. CallSound(x, accounts, allocs)
        BY <3>3, <3>4, <3>5 DEF CallSound
      <3>7. /\ \A j \in DOMAIN t : t[j].write \in {"txn", "balance"} /\ t[j].alloc = 0
            /\ Head(t).write = "txn"
        <4>1. /\ \A j \in DOMAIN x.todo : x.todo[j].write \in {"txn", "balance"}
                                           /\ x.todo[j].alloc = 0
              /\ Head(x.todo).write = IF Len(x.todo) > 2 THEN "txn" ELSE "balance"
          BY <3>1, <3>3, <3>5, MoveHead
        <4> QED
          BY <3>1, <3>3, <4>1
      <3>9. \A b \in Nat \ {0} : DriftOf(x, b) = 0 /\ BookedOf(x, b) = 0
        <4> SUFFICES ASSUME NEW b \in Nat \ {0} PROVE DriftOf(x, b) = 0 /\ BookedOf(x, b) = 0
          OBVIOUS
        <4>1. Len(x.todo) = 4 /\ Head(x.todo).write = "txn" /\ x.kind = "transfer"
          BY <3>1, <3>3, <3>7
        <4>2. DriftOf(x, b) = 0
          BY <4>1 DEF DriftOf, Uses
        <4>3. BookedOf(x, b) = 0
          BY <4>1 DEF BookedOf
        <4> QED
          BY <4>2, <4>3
      <3>10. Clean(x) /\ Fresh(c, x)
        BY <3>3, <3>7, <3>9 DEF Clean, Fresh, Uses
      <3> QED
        BY <2>2, <3>3, <3>6, <3>10 DEF Becomes
    <2> QED
      BY <1>2, <2>3, <2>4
  <1> QED
    BY <1>3, <1>4 DEF Check, Return

\* A call that carries out a plan.
LEMMA PlanBecomes ==
    ASSUME Tables, NEW c \in Calls, NEW w \in Uses, NEW plan \in Seq(Items), plan # <<>>,
           \A i, j \in DOMAIN plan : i # j => plan[i].alloc # plan[j].alloc,
           \A j \in DOMAIN plan : plan[j].n <= Left(plan[j].alloc),
           Share(c, {plan[j].alloc : j \in DOMAIN plan}),
           NEW k \in Call, k.todo = PlanStatements(w, plan), k.step = "run",
           k.kind \in {"consume", "expire"}, k.kind = "consume" => k.n > 0,
           k.from = 0, k.campaign = NoCampaign,
           call' = [call EXCEPT ![c] = k]
    PROVE  Becomes(c, k)
  <1> DEFINE t == k.todo
  <1>1. /\ t \in Seq(Statement) /\ PlanShape(t, allocs) /\ t # <<>>
        /\ Head(t).write = "txn"
        /\ \A j \in DOMAIN t : \E q \in DOMAIN plan :
              /\ t[j].alloc = plan[q].alloc
              /\ t[j].write \in Uses => t[j].n = plan[q].n
    <2> DEFINE s == PlanStatements(w, plan)
    <2>1. /\ s \in Seq(Statement) /\ PlanShape(s, allocs) /\ (s = <<>> <=> plan = <<>>)
          /\ s # <<>> => Head(s).write = "txn"
          /\ \A j \in DOMAIN s : \E q \in DOMAIN plan :
                /\ s[j].alloc = plan[q].alloc
                /\ s[j].account = allocs[plan[q].alloc].account
                /\ s[j].write \in Uses => s[j].write = w /\ s[j].n = plan[q].n
      BY PlanStatementsSound
    <2> HIDE DEF s
    <2>2. t = s
      BY DEF s
    <2> HIDE DEF t
    <2> QED
      BY <2>1, <2>2
  <1> HIDE DEF t
  <1>t. t = k.todo
    BY DEF t
  <1>2. StepSound(k, accounts)
    BY <1>1, <1>t DEF StepSound
  <1>3. CallSound(k, accounts, allocs)
    BY <1>1, <1>t, <1>2 DEF CallSound
  <1>4. \A a \in Nat \ {0} : DriftOf(k, a) = 0 /\ BookedOf(k, a) = 0
    BY <1>1, <1>t DEF DriftOf, BookedOf, Uses
  <1>5. Clean(k)
    BY <1>1, <1>t, <1>4 DEF Clean
  <1>6. ASSUME NEW j \in DOMAIN t
        PROVE  /\ t[j].alloc \in DOMAIN allocs
               /\ t[j].write \in Uses => t[j].n <= Left(t[j].alloc)
               /\ t[j].alloc \in shared' \/ \A d \in Calls \ {c} : t[j].alloc \notin Planned(d)
    <2>1. PICK q \in DOMAIN plan : /\ t[j].alloc = plan[q].alloc
                                   /\ t[j].write \in Uses => t[j].n = plan[q].n
      BY <1>1
    <2>2. t[j].alloc \in DOMAIN allocs
      BY <1>1 DEF PlanShape
    <2>3. t[j].alloc \in {plan[i].alloc : i \in DOMAIN plan}
      BY <2>1
    <2>4. t[j].alloc \in shared' \/ \A d \in Calls \ {c} : t[j].alloc \notin Planned(d)
      BY <2>3 DEF Share
    <2> QED
      BY <2>1, <2>2, <2>4
  <1>7. Fresh(c, k)
    BY <1>6, <1>t DEF Fresh
  <1> QED
    BY <1>3, <1>5, <1>7 DEF Becomes

\* A plan becomes statements.
LEMMA PlanStarts ==
    ASSUME Tables, NEW c \in Calls, call \in [Calls -> Call], CallsSound, Plan(c)
    PROVE  \E k \in Call : Becomes(c, k)
  <1> DEFINE k == call[c]
  <1>f. CASE Return(c) /\ UNCHANGED shared
    <2>1. Idle \in Call /\ Idle.todo = <<>> /\ Idle.kind = "none" /\ StepSound(Idle, accounts)
      BY IdleSound DEF CallSound
    <2>2. call' = [call EXCEPT ![c] = Idle]
      BY <1>f DEF Return
    <2> QED
      BY <2>1, <2>2, StartEmpty
  <1> SUFFICES ASSUME ~(Return(c) /\ UNCHANGED shared) PROVE \E x \in Call : Becomes(c, x)
    BY <1>f
  <1>1. k \in Call /\ k.step = "plan" /\ StepSound(k, accounts)
    BY DEF Plan, CallsSound, CallSound
  <1>2. k.kind = "consume" /\ k.n > 0 /\ k.n \in Nat /\ k.from = 0 /\ k.campaign = NoCampaign
    BY <1>1 DEF StepSound, Call
  <1>3. PICK plan \in ConsumptionPlan(k.user, k.n) :
            /\ Proceed(c, PlanStatements("consumed", plan))
            /\ Share(c, {plan[j].alloc : j \in DOMAIN plan})
    BY DEF Plan
  <1>4. /\ plan \in Seq(Items)
        /\ \A i, j \in DOMAIN plan : i # j => plan[i].alloc # plan[j].alloc
        /\ \A j \in DOMAIN plan : plan[j].n <= Left(plan[j].alloc)
    BY <1>2, ConsumptionPlanSound
  <1> DEFINE t == PlanStatements("consumed", plan)
  <1>5. t \in Seq(Statement) /\ (t = <<>> <=> plan = <<>>) /\ "consumed" \in Uses
    BY <1>4, PlanStatementsSound DEF Uses
  <1>p. Proceed(c, t)
    BY <1>3
  <1>t. t = PlanStatements("consumed", plan)
    OBVIOUS
  <1> HIDE DEF t, k
  <1>6. call' = [call EXCEPT ![c] = Advance(k, t)]
    BY <1>p, Proceeding DEF k
  <1>7. CASE t = <<>>
    <2>1. Idle \in Call /\ Idle.todo = <<>> /\ Idle.kind = "none" /\ StepSound(Idle, accounts)
      BY IdleSound DEF CallSound
    <2>2. Advance(k, t) = Idle
      BY <1>7 DEF Advance
    <2> QED
      BY <1>6, <2>1, <2>2, StartEmpty
  <1>8. CASE t # <<>>
    <2> DEFINE x == Advance(k, t)
    <2>1. /\ x \in Call /\ x.todo = t /\ x.step = "run" /\ x.kind = "consume"
          /\ x.n = k.n /\ x.from = k.from /\ x.campaign = k.campaign
      BY <1>1, <1>2, <1>5, <1>8, AdvanceFields
    <2>2. call' = [call EXCEPT ![c] = x]
      BY <1>6
    <2> HIDE DEF x
    <2>3. Share(c, {plan[j].alloc : j \in DOMAIN plan})
      BY <1>3
    <2>4. Becomes(c, x)
      BY <1>2, <1>4, <1>5, <1>8, <1>t, <2>1, <2>2, <2>3, PlanBecomes
    <2> QED
      BY <2>1, <2>4
  <1> QED
    BY <1>7, <1>8

\* So does the list of the daily job.
LEMMA ExpireStarts ==
    ASSUME Tables, NEW c \in Calls, call \in [Calls -> Call], CallsSound, Expire(c)
    PROVE  \E k \in Call : Becomes(c, k)
  <1>1. PICK s \in Sorted(Expiring) :
            call' = IF Expiring = {} THEN call
                    ELSE [call EXCEPT ![c] =
                            [Idle EXCEPT !.kind = "expire", !.step = "run",
                               !.todo = PlanStatements("expired",
                                  [j \in DOMAIN s |-> [alloc |-> s[j], n |-> Remaining(s[j])]])]]
    BY DEF Expire
  <1>2. CASE Expiring = {}
    BY <1>1, <1>2, CalledIdle DEF Expire
  <1>3. CASE Expiring # {}
    <2> DEFINE plan == [j \in DOMAIN s |-> [alloc |-> s[j], n |-> Remaining(s[j])]]
               t == PlanStatements("expired", plan)
               x == [Idle EXCEPT !.kind = "expire", !.step = "run", !.todo = t]
    <2>1. /\ plan \in Seq(Items)
          /\ \A i, j \in DOMAIN plan : i # j => plan[i].alloc # plan[j].alloc
          /\ \A j \in DOMAIN plan : plan[j].alloc \in Expiring /\ plan[j].n <= Left(plan[j].alloc)
          /\ plan = <<>> <=> Expiring = {}
      BY ExpiryPlanSound
    <2>2. call' = [call EXCEPT ![c] = x]
      BY <1>1, <1>3
    <2>3. Share(c, Expiring)
      BY DEF Expire
    <2>4. \A i \in Expiring : \E j \in DOMAIN plan : plan[j].alloc = i
      <3>1. Expiring \in SUBSET DOMAIN allocs
        BY DEF Expiring
      <3>2. \A i \in Expiring : \E j \in DOMAIN s : s[j] = i
        BY <3>1, SortedListsAll
      <3> QED
        BY <3>2
    <2> HIDE DEF plan
    <2>5. {plan[j].alloc : j \in DOMAIN plan} = Expiring
      BY <2>1, <2>4
    <2>6. t \in Seq(Statement) /\ t # <<>> /\ "expired" \in Uses
      BY <1>3, <2>1, PlanStatementsSound DEF Uses
    <2>t. t = PlanStatements("expired", plan)
      OBVIOUS
    <2> HIDE DEF t
    <2>7. Idle \in Call
      BY IdleSound
    <2>8. /\ x \in Call /\ x.todo = t /\ x.step = "run" /\ x.kind = "expire"
          /\ x.from = 0 /\ x.campaign = NoCampaign
      BY <2>6, <2>7 DEF Call, Kinds, Steps, Idle
    <2> HIDE DEF x
    <2>9. Share(c, {plan[j].alloc : j \in DOMAIN plan})
      BY <2>3, <2>5
    <2>10. \A j \in DOMAIN plan : plan[j].n <= Left(plan[j].alloc)
      BY <2>1
    <2>11. plan # <<>>
      BY <1>3, <2>1
    <2>12. Becomes(c, x)
      BY <2>1, <2>2, <2>6, <2>t, <2>8, <2>9, <2>10, <2>11, PlanBecomes
    <2> QED
      BY <2>8, <2>12
  <1> QED
    BY <1>2, <1>3

\* Every action that starts a call, or takes it to its first statement.
Starting(c) == Allocate(c) \/ Open(c) \/ Check(c) \/ Transfer(c) \/ Consume(c) \/ Plan(c)
               \/ Expire(c) \/ Delete(c)

\* Whatever starts or prepares an operation leaves a sound call.
LEMMA Starts ==
    ASSUME Tables, NEW c \in Calls, call \in [Calls -> Call], CallsSound, Starting(c)
    PROVE  /\ call[c] \in Call /\ CallSound(call[c], accounts, allocs)
           /\ call[c].todo = <<>> /\ call[c].kind # "delete"
           /\ \E k \in Call : Becomes(c, k)
  <1>1. call[c] \in Call /\ CallSound(call[c], accounts, allocs)
    BY DEF CallsSound
  <1>2. call[c].step # "run"
    BY DEF Starting, Allocate, Open, Check, Transfer, Consume, Plan, Expire, Delete, Called
  <1>3. call[c].todo = <<>> /\ call[c].kind # "delete"
    BY <1>1, <1>2 DEF CallSound, StepSound
  <1> QED
    BY <1>1, <1>3, AllocateStarts, OpenStarts, CheckStarts, TransferStarts, ConsumeStarts,
       PlanStarts, ExpireStarts, DeleteStarts DEF Starting

-----------------------------------------------------------------------------
(* Types, and what every step keeps of the tables.                         *)

\* TypeOK implies what the lemmas above need of the tables.
LEMMA TypedTables ==
    ASSUME TypeOK
    PROVE  /\ Tables /\ call \in [Calls -> Call]
           /\ DOMAIN ledger = DOMAIN accounts /\ DOMAIN excuse = DOMAIN accounts
           /\ \A a \in DOMAIN accounts : ledger[a] \in Int /\ excuse[a] \in SUBSET Excuses
  BY DEF TypeOK, Tables

\* A table with other values in the same rows.
LEMMA SameRows ==
    ASSUME NEW S, NEW s \in Seq(S), NEW f, f \in [DOMAIN s -> S]
    PROVE  f \in Seq(S) /\ Len(f) = Len(s) /\ DOMAIN f = DOMAIN s
  <1>1. Len(s) \in Nat /\ DOMAIN s = 1..Len(s)
    BY LenProperties
  <1>2. f \in Seq(S)
    BY <1>1, SeqDef
  <1> QED
    BY <1>1, <1>2, LenProperties

\* Excuse adds to the named accounts and leaves the others.
LEMMA ExcuseAdds ==
    ASSUME TypeOK, NEW S, NEW why \in Excuses, Excuse(S, why)
    PROVE  /\ excuse' \in [DOMAIN accounts -> SUBSET Excuses]
           /\ \A a \in DOMAIN accounts : excuse[a] \subseteq excuse'[a]
           /\ \A a \in DOMAIN accounts : a \in S => why \in excuse'[a]
           /\ \A a \in DOMAIN accounts : a \notin S => excuse'[a] = excuse[a]
  BY TypedTables DEF Excuse

\* What the step of a call does to what is not its own.
DataFrame ==
    /\ KeepsUsers(accounts, accounts') /\ KeepsRows(allocs, allocs')
    /\ \A a \in DOMAIN accounts : /\ accounts'[a].live => accounts[a].live
                                  /\ excuse[a] \subseteq excuse'[a]
    /\ shared \subseteq shared'
Frame(c, k) == call' = [call EXCEPT ![c] = k] /\ DataFrame

\* Types of all but the calls.
DataOK ==
    /\ now \in 0..Never
    /\ accounts \in Seq(Account) /\ ledger \in [DOMAIN accounts -> Int]
    /\ allocs \in Seq(Allocation)
    /\ \A i \in DOMAIN allocs : allocs[i].account \in DOMAIN accounts
    /\ allocated \in [Campaigns -> Nat]
    /\ shared \subseteq DOMAIN allocs
    /\ excuse \in [DOMAIN accounts -> SUBSET Excuses]
    /\ ops \in 0..MaxOps /\ faults \in 0..MaxFaults

\* TypeOK is DataOK and the type of the calls.
LEMMA DataType == TypeOK <=> DataOK /\ call \in [Calls -> Call]
  BY DEF TypeOK, DataOK

\* A step of c replaces the record of c and keeps every call sound.
LEMMA CallsMove ==
    ASSUME TypeOK, CallsSound, NEW c \in Calls, NEW k \in Call,
           CallSound(k, accounts, allocs), Frame(c, k)
    PROVE  call' \in [Calls -> Call] /\ CallsSound'
  <1>1. call' \in [Calls -> Call]
    BY TypedTables DEF Frame, DataFrame
  <1>2. ASSUME NEW d \in Calls PROVE CallSound(call'[d], accounts', allocs')
    <2>1. CallSound(call'[d], accounts, allocs)
      BY TypedTables DEF CallsSound, Frame, DataFrame
    <2> QED
      BY <2>1, StaysSound DEF Frame, DataFrame
  <1> QED
    BY <1>1, <1>2 DEF CallsSound

\* The row a statement is about.
LEMMA HeadRow ==
    ASSUME Tables, NEW k \in Call, CallSound(k, accounts, allocs), k.step = "run"
    PROVE  LET h == Head(k.todo) IN
           /\ k.todo # <<>> /\ h \in Statement /\ h.n \in Int
           /\ h.write \in {"txn", "balance", "alloc", "budget"} \cup Uses =>
                 h.account \in DOMAIN accounts /\ k.kind # "delete"
           /\ h.write \in Uses => /\ h.alloc \in DOMAIN allocs /\ h.n \in Nat
                                  /\ allocs[h.alloc].account = h.account
                                  /\ k.kind \in {"consume", "expire"}
           /\ h.write \in {"alloc", "budget"} => k.kind = "allocate" /\ h.n = k.n
           /\ h.write = "budget" => k.campaign \in Campaigns
           /\ h.write \notin {"txn", "balance", "alloc", "budget"} \cup Uses <=> k.kind = "delete"
  <1> DEFINE h == Head(k.todo)
  <1>1. k.todo # <<>> /\ h \in Statement
        /\ k.kind \in {"allocate", "transfer", "delete", "consume", "expire"}
    BY RunKinds
  <1>2. h.n \in Int
    BY <1>1 DEF Statement
  <1>3. CASE k.kind = "allocate"
    <2>1. GrantShape(k, accounts)
      BY <1>3 DEF CallSound
    <2>2. /\ h.account \in DOMAIN accounts /\ h.n = k.n
          /\ h.write \in {"txn", "balance", "alloc", "budget"}
          /\ h.write = "budget" => k.campaign # NoCampaign
      BY <1>1, <2>1, GrantHead
    <2>3. h.write \notin Uses
      BY <2>2 DEF Uses
    <2>4. k.campaign \in Campaigns \cup {NoCampaign}
      BY DEF Call
    <2> HIDE DEF h
    <2> QED
      BY <1>1, <1>2, <1>3, <2>2, <2>3, <2>4 DEF h
  <1>4. CASE k.kind = "transfer"
    <2>1. MoveShape(k, accounts) /\ k.from \in DOMAIN accounts
      BY <1>4 DEF CallSound, StepSound
    <2>2. h.account \in DOMAIN accounts /\ h.write \in {"txn", "balance"}
      BY <1>1, <2>1, MoveHead
    <2>3. h.write \notin Uses
      BY <2>2 DEF Uses
    <2> HIDE DEF h
    <2> QED
      BY <1>1, <1>2, <1>4, <2>2, <2>3 DEF h
  <1>5. CASE k.kind = "delete"
    <2>1. h.write \in {"del_allocs", "del_txns", "del_accounts"}
      BY <1>1, <1>5, DeleteHead DEF CallSound
    <2> HIDE DEF h
    <2>2. h.write \notin {"txn", "balance", "alloc", "budget"} \cup Uses
      BY <2>1 DEF Uses
    <2> QED
      BY <1>1, <1>2, <1>5, <2>2 DEF h
  <1>6. CASE k.kind \in {"consume", "expire"}
    <2>1. PlanShape(k.todo, allocs)
      BY <1>6 DEF CallSound
    <2>2. /\ h.alloc \in DOMAIN allocs /\ allocs[h.alloc].account = h.account
          /\ h.write \in {"txn", "balance"} \cup Uses
          /\ h.write \in Uses => h.n \in Nat
      BY <1>1, <2>1, PlanHead
    <2>3. h.account \in DOMAIN accounts
      BY <2>2, RowTypes
    <2>4. h.write \notin {"alloc", "budget"}
      BY <2>2 DEF Uses
    <2> HIDE DEF h
    <2> QED
      BY <1>1, <1>2, <1>6, <2>2, <2>3, <2>4 DEF h
  <1> QED
    BY <1>1, <1>3, <1>4, <1>5, <1>6

\* The call of a running step, and what it becomes after it.
LEMMA RunningCall ==
    ASSUME TypeOK, CallsSound, NEW c \in Calls, call[c].step = "run"
    PROVE  LET k == Advance(call[c], Tail(Todo(c)))  e == Advance(call[c], AfterError(c)) IN
           /\ call[c] \in Call /\ CallSound(call[c], accounts, allocs) /\ Todo(c) = call[c].todo
           /\ k \in Call /\ CallSound(k, accounts, allocs) /\ k.todo = Tail(Todo(c))
           /\ e \in Call /\ CallSound(e, accounts, allocs) /\ e.todo = AfterError(c)
           /\ Idle \in Call /\ CallSound(Idle, accounts, allocs)
  <1>1. call[c] \in Call /\ CallSound(call[c], accounts, allocs) /\ Todo(c) = call[c].todo
    BY TypedTables DEF CallsSound, Todo
  <1>2. /\ Advance(call[c], Tail(Todo(c))) \in Call
        /\ CallSound(Advance(call[c], Tail(Todo(c))), accounts, allocs)
    BY <1>1, RestSound
  <1>3. Tail(Todo(c)) \in Seq(Statement)
    BY <1>1, RunKinds
  <1>4. /\ Advance(call[c], AfterError(c)) \in Call
        /\ CallSound(Advance(call[c], AfterError(c)), accounts, allocs)
        /\ AfterError(c) \in Seq(Statement)
    BY <1>1, SkipSound
  <1>5. Idle \in Call /\ CallSound(Idle, accounts, allocs)
    BY IdleSound
  <1> QED
    BY <1>1, <1>2, <1>3, <1>4, <1>5, AdvanceFields

-----------------------------------------------------------------------------
(* The tables after each action.                                           *)

\* Rows that do not change keep their users and accounts.
LEMMA SameTables ==
    /\ accounts' = accounts =>
          /\ KeepsUsers(accounts, accounts')
          /\ \A a \in DOMAIN accounts : accounts'[a].live => accounts[a].live
    /\ allocs' = allocs => KeepsRows(allocs, allocs')
  BY DEF KeepsUsers, KeepsRows

\* A step that only moves its call keeps DataOK.
LEMMA SameData ==
    ASSUME TypeOK, UNCHANGED <<accounts, ledger, allocs, allocated, shared, excuse>>,
           now' \in 0..Never, ops' \in 0..MaxOps, faults' \in 0..MaxFaults
    PROVE  DataOK' /\ DataFrame
  BY SameTables DEF TypeOK, DataOK, DataFrame

\* A new operation stays within the bound.
LEMMA CalledOps ==
    ASSUME TypeOK, NEW c, Called(c)
    PROVE  ops' \in 0..MaxOps
  BY LedgerAssumption DEF TypeOK, Called

\* DataOK, step by step: create_account ...
LEMMA OpenData ==
    ASSUME TypeOK, CallsSound, NEW c \in Calls, Open(c)
    PROVE  DataOK' /\ DataFrame
  <1> DEFINE u == call[c].user  t == call[c].type
             row == [user |-> u, type |-> t, balance |-> 0, live |-> TRUE]
  <1>1. CASE UNCHANGED <<accounts, ledger, excuse>>
    <2>1. UNCHANGED <<now, allocs, allocated, shared, ops, faults>>
      BY DEF Open
    <2> QED
      BY <1>1, <2>1, SameData DEF TypeOK
  <1>2. CASE /\ accounts' = Append(accounts, row)
             /\ ledger' = Append(ledger, 0) /\ excuse' = Append(excuse, {})
    <2>1. UNCHANGED <<now, allocs, allocated, shared, ops, faults>>
      BY DEF Open
    <2>2. u \in Users /\ t \in Types
      BY TypedTables DEF Open, CallsSound, CallSound, StepSound, Call
    <2>3. row \in Account
      BY <2>2 DEF Account
    <2>4. accounts \in Seq(Account) /\ ledger \in [DOMAIN accounts -> Int]
          /\ excuse \in [DOMAIN accounts -> SUBSET Excuses]
      BY DEF TypeOK
    <2>5. Len(accounts) \in Nat /\ DOMAIN accounts = 1..Len(accounts)
      BY TypedTables, RowTypes
    <2> DEFINE n == Len(accounts)
    <2> HIDE DEF row
    <2>6. /\ accounts' \in Seq(Account) /\ Len(accounts') = n + 1
          /\ \A a \in 1..n : accounts'[a] = accounts[a]
      BY <1>2, <2>3, <2>4, AppendProperties
    <2>7. DOMAIN accounts' = 1..(n + 1)
      BY <2>6, LenProperties
    <2>8. ledger \in Seq(Int) /\ Len(ledger) = n /\ 0 \in Int
      BY <2>4, <2>5, SeqDef, LenProperties
    <2>9. /\ ledger' \in Seq(Int) /\ Len(ledger') = n + 1
      BY <1>2, <2>8, AppendProperties
    <2>10. ledger' \in [1..(n + 1) -> Int]
      BY <2>9, LenProperties
    <2>11. excuse \in Seq(SUBSET Excuses) /\ Len(excuse) = n
      BY <2>4, <2>5, SeqDef, LenProperties
    <2>12. /\ excuse' \in Seq(SUBSET Excuses) /\ Len(excuse') = n + 1
           /\ \A a \in 1..n : excuse'[a] = excuse[a]
      BY <1>2, <2>11, AppendProperties
    <2>13. excuse' \in [1..(n + 1) -> SUBSET Excuses]
      BY <2>12, LenProperties
    <2>14. DOMAIN accounts \subseteq DOMAIN accounts'
      BY <2>5, <2>7
    <2>15. DataOK'
      BY <2>1, <2>6, <2>7, <2>10, <2>13, <2>14 DEF TypeOK, DataOK
    <2>16. DataFrame
      BY <2>1, <2>5, <2>6, <2>12, <2>14, SameTables DEF DataFrame, KeepsUsers
    <2> QED
      BY <2>15, <2>16
  <1> QED
    BY <1>1, <1>2 DEF Open

\* The other actions of Starting write nothing but the plans that are shared.
LEMMA StartData ==
    ASSUME TypeOK, CallsSound, NEW c \in Calls, Starting(c)
    PROVE  DataOK' /\ DataFrame
  <1>1. CASE Open(c)
    BY <1>1, OpenData
  <1>2. CASE Allocate(c) \/ Transfer(c) \/ Consume(c) \/ Delete(c)
    <2>1. UNCHANGED <<now, accounts, ledger, allocs, allocated, shared, excuse, faults>> /\ Called(c)
      BY <1>2 DEF Allocate, Transfer, Consume, Delete, books, ghosts
    <2> QED
      BY <2>1, CalledOps, SameData DEF TypeOK
  <1>3. CASE Check(c)
    <2>1. UNCHANGED <<now, accounts, ledger, allocs, allocated, shared, excuse, ops, faults>>
      BY <1>3 DEF Check, books, ghosts
    <2> QED
      BY <2>1, SameData DEF TypeOK
  <1>4. CASE Plan(c)
    <2>1. UNCHANGED <<now, accounts, ledger, allocs, allocated, excuse, ops, faults>>
      BY <1>4 DEF Plan, books
    <2>5. shared \subseteq shared' /\ shared' \subseteq DOMAIN allocs
      <3>1. CASE UNCHANGED shared
        BY <3>1 DEF TypeOK
      <3>2. CASE shared' # shared
        <4>2. PICK plan \in ConsumptionPlan(call[c].user, call[c].n) :
                  Share(c, {plan[j].alloc : j \in DOMAIN plan})
          BY <1>4, <3>2 DEF Plan
        <4>3. call[c].n \in Nat
          BY TypedTables DEF Call
        <4>4. \A j \in DOMAIN plan : plan[j].alloc \in DOMAIN allocs
          BY <4>3, TypedTables, ConsumptionPlanSound, PartSound
        <4> QED
          BY <4>2, <4>4 DEF Share, TypeOK
      <3> QED
        BY <3>1, <3>2
    <2> QED
      BY <2>1, <2>5, SameTables DEF TypeOK, DataOK, DataFrame
  <1>5. CASE Expire(c)
    <2>1. UNCHANGED <<now, accounts, ledger, allocs, allocated, excuse, faults>> /\ Called(c)
      BY <1>5 DEF Expire, books
    <2>2. Share(c, Expiring) /\ Expiring \subseteq DOMAIN allocs
      BY <1>5 DEF Expire, Expiring
    <2>3. shared \subseteq shared' /\ shared' \subseteq DOMAIN allocs
      BY <2>2 DEF Share, TypeOK
    <2> QED
      BY <2>1, <2>3, CalledOps, SameTables DEF TypeOK, DataOK, DataFrame
  <1> QED
    BY <1>1, <1>2, <1>3, <1>4, <1>5 DEF Starting

\* ... create_transaction ...
LEMMA TxnData ==
    ASSUME TypeOK, CallsSound, NEW c \in Calls, WriteTxn(c)
    PROVE  DataOK' /\ DataFrame
  <1>1. call[c].step = "run" /\ Head(Todo(c)).write = "txn"
        /\ UNCHANGED <<now, accounts, allocs, allocated, shared, excuse, ops, faults>>
    BY DEF WriteTxn, Writing, ghosts
  <1>2. Head(Todo(c)).n \in Int
    BY <1>1, RunningCall, TypedTables, HeadRow
  <1>3. ledger' \in [DOMAIN accounts -> Int]
    BY <1>2 DEF WriteTxn, TypeOK
  <1> QED
    BY <1>1, <1>3, SameTables DEF TypeOK, DataOK, DataFrame

\* ... update_balance ...
LEMMA BalanceData ==
    ASSUME TypeOK, CallsSound, NEW c \in Calls, WriteBalance(c)
    PROVE  DataOK' /\ DataFrame
  <1> DEFINE a == Account1(c)  n == Head(Todo(c)).n
  <1>1. call[c].step = "run" /\ Head(Todo(c)).write = "balance"
        /\ UNCHANGED <<now, ledger, allocs, allocated, shared, ops, faults>>
    BY DEF WriteBalance, Writing
  <1>2. n \in Int /\ a \in DOMAIN accounts
    BY <1>1, RunningCall, TypedTables, HeadRow DEF Account1
  <1>3. /\ excuse' \in [DOMAIN accounts -> SUBSET Excuses]
        /\ \A b \in DOMAIN accounts : excuse[b] \subseteq excuse'[b]
    <2>1. CASE UNCHANGED excuse
      BY <2>1 DEF TypeOK
    <2>2. CASE \E why \in Excuses : Excuse({a}, why)
      BY <2>2, ExcuseAdds
    <2>3. "moved" \in Excuses /\ "lapsed" \in Excuses /\ "refused" \in Excuses
      BY DEF Excuses
    <2> QED
      BY <2>1, <2>2, <2>3 DEF WriteBalance
  <1>4. \/ accounts' = accounts
        \/ Applies(a, n) /\ accounts' = [accounts EXCEPT ![a].balance = @ + n]
    BY DEF WriteBalance
  <1>5. /\ accounts' \in Seq(Account) /\ DOMAIN accounts' = DOMAIN accounts
        /\ \A b \in DOMAIN accounts : /\ accounts'[b].user = accounts[b].user
                                      /\ accounts'[b].live = accounts[b].live
    <2>1. CASE accounts' = accounts
      BY <2>1 DEF TypeOK
    <2>2. CASE Applies(a, n) /\ accounts' = [accounts EXCEPT ![a].balance = @ + n]
      <3> HIDE DEF a, n
      <3>1. accounts[a] \in Account
        BY <1>2, TypedTables, RowTypes
      <3>2. accounts[a].balance + n \in Nat
        BY <1>2, <2>2, <3>1 DEF Applies, Account
      <3>3. \A b \in DOMAIN accounts : accounts'[b] \in Account
        BY <1>2, <2>2, <3>1, <3>2, TypedTables, RowTypes DEF Account
      <3>4. accounts' \in [DOMAIN accounts -> Account]
        BY <2>2, <3>3
      <3>5. accounts' \in Seq(Account) /\ DOMAIN accounts' = DOMAIN accounts
        BY <3>4, SameRows DEF TypeOK
      <3> QED
        BY <1>2, <2>2, <3>1, <3>5 DEF Account
    <2> QED
      BY <1>4, <2>1, <2>2
  <1> QED
    BY <1>1, <1>3, <1>5, SameTables DEF TypeOK, DataOK, DataFrame, KeepsUsers

\* ... create_allocation, which appends one row ...
LEMMA AllocData ==
    ASSUME TypeOK, CallsSound, NEW c \in Calls, WriteAlloc(c)
    PROVE  LET row == [account |-> Account1(c), campaign |-> call[c].campaign,
                       amount |-> call[c].n, consumed |-> 0, expired |-> 0,
                       expires |-> call[c].expires, live |-> TRUE]
               n == Len(allocs) IN
           /\ DataOK' /\ DataFrame
           /\ n \in Nat /\ DOMAIN allocs = 1..n /\ DOMAIN allocs' = 1..(n + 1)
           /\ \A i \in 1..n : allocs'[i] = allocs[i]
           /\ allocs'[n + 1] = row /\ row \in Allocation
  <1> DEFINE row == [account |-> Account1(c), campaign |-> call[c].campaign,
                     amount |-> call[c].n, consumed |-> 0, expired |-> 0,
                     expires |-> call[c].expires, live |-> TRUE]
             n == Len(allocs)
  <1>1. call[c].step = "run" /\ Head(Todo(c)).write = "alloc"
        /\ allocs' = Append(allocs, row)
        /\ UNCHANGED <<now, accounts, ledger, allocated, shared, excuse, ops, faults>>
    BY DEF WriteAlloc, Writing, ghosts
  <1>2. Account1(c) \in DOMAIN accounts
    BY <1>1, RunningCall, TypedTables, HeadRow DEF Account1
  <1>3. Account1(c) \in Nat \ {0}
    BY <1>2, TypedTables, RowTypes
  <1>4. row \in Allocation
    BY <1>3, TypedTables DEF Call, Allocation
  <1>5. row.account = Account1(c)
    OBVIOUS
  <1>6. allocs \in Seq(Allocation) /\ n \in Nat /\ DOMAIN allocs = 1..n
    BY TypedTables, RowTypes DEF Tables
  <1> HIDE DEF row, n
  <1>7. /\ allocs' \in Seq(Allocation) /\ Len(allocs') = n + 1
        /\ \A i \in 1..n : allocs'[i] = allocs[i]
        /\ allocs'[n + 1] = row
    BY <1>1, <1>4, <1>6, AppendProperties DEF n
  <1>8. DOMAIN allocs' = 1..(n + 1)
    BY <1>7, LenProperties
  <1>9. \A i \in DOMAIN allocs' : allocs'[i].account \in DOMAIN accounts
    <2> SUFFICES ASSUME NEW i \in 1..(n + 1) PROVE allocs'[i].account \in DOMAIN accounts
      BY <1>8
    <2>1. CASE i = n + 1
      BY <1>2, <1>5, <1>7, <2>1
    <2>2. CASE i # n + 1
      <3>1. i \in DOMAIN allocs /\ allocs'[i] = allocs[i]
        BY <1>6, <1>7, <2>2
      <3> QED
        BY <3>1 DEF TypeOK
    <2> QED
      BY <2>1, <2>2
  <1>10. DOMAIN allocs \subseteq DOMAIN allocs'
    BY <1>6, <1>8
  <1>11. DataOK'
    BY <1>1, <1>7, <1>9, <1>10 DEF TypeOK, DataOK
  <1>12. DataFrame
    BY <1>1, <1>6, <1>7, <1>10, SameTables DEF DataFrame, KeepsRows
  <1> QED
    BY <1>4, <1>6, <1>7, <1>8, <1>11, <1>12 DEF row, n

\* ... update_campaign_budget ...
LEMMA BudgetData ==
    ASSUME TypeOK, CallsSound, NEW c \in Calls, WriteBudget(c)
    PROVE  DataOK' /\ DataFrame
  <1> DEFINE k == call[c].campaign  n == Head(Todo(c)).n
  <1>1. call[c].step = "run" /\ Head(Todo(c)).write = "budget"
        /\ UNCHANGED <<now, accounts, ledger, allocs, shared, ops, faults>>
    BY DEF WriteBudget, Writing
  <1>2. n = call[c].n /\ k \in Campaigns
    BY <1>1, RunningCall, TypedTables, HeadRow
  <1>3. n \in Nat
    BY <1>2, TypedTables DEF Call
  <1>4. allocated' \in [Campaigns -> Nat]
    <2>1. allocated' = allocated \/ allocated' = [allocated EXCEPT ![k] = @ + n]
      BY DEF WriteBudget
    <2>2. allocated \in [Campaigns -> Nat] /\ allocated[k] + n \in Nat
      BY <1>2, <1>3 DEF TypeOK
    <2> HIDE DEF k, n
    <2> QED
      BY <1>2, <2>1, <2>2
  <1>5. /\ excuse' \in [DOMAIN accounts -> SUBSET Excuses]
        /\ \A b \in DOMAIN accounts : excuse[b] \subseteq excuse'[b]
    <2>1. CASE UNCHANGED excuse
      BY <2>1 DEF TypeOK
    <2>2. CASE Excuse({Account1(c)}, "overrun")
      <3>1. "overrun" \in Excuses
        BY DEF Excuses
      <3> QED
        BY <2>2, <3>1, ExcuseAdds
    <2> QED
      BY <2>1, <2>2 DEF WriteBudget
  <1> QED
    BY <1>1, <1>4, <1>5, SameTables DEF TypeOK, DataOK, DataFrame

\* ... update_allocation_consumed and update_allocation_expired ...
LEMMA UseData ==
    ASSUME TypeOK, CallsSound, NEW c \in Calls, WriteUse(c)
    PROVE  /\ DataOK' /\ DataFrame /\ DOMAIN allocs' = DOMAIN allocs
           /\ \A i \in DOMAIN allocs : allocs'[i].live = allocs[i].live
  <1> DEFINE i == Head(Todo(c)).alloc  n == Head(Todo(c)).n
  <1>1. call[c].step = "run" /\ Head(Todo(c)).write \in Uses
        /\ UNCHANGED <<now, accounts, ledger, allocated, shared, excuse, ops, faults>>
    BY DEF WriteUse, Writing, ghosts, Uses
  <1>2. i \in DOMAIN allocs /\ n \in Nat
    BY <1>1, RunningCall, TypedTables, HeadRow
  <1>3. allocs[i] \in Allocation
    BY <1>2, TypedTables, RowTypes
  <1>4. \/ allocs' = [allocs EXCEPT ![i].consumed = IF allocs[i].live THEN @ + n ELSE @]
        \/ allocs' = [allocs EXCEPT ![i].expired = IF allocs[i].live THEN @ + n ELSE @]
    BY DEF WriteUse
  <1> HIDE DEF i, n
  <1>5. /\ DOMAIN allocs' = DOMAIN allocs
        /\ \A j \in DOMAIN allocs : j # i => allocs'[j] = allocs[j]
        /\ allocs'[i] \in Allocation
        /\ allocs'[i].account = allocs[i].account /\ allocs'[i].campaign = allocs[i].campaign
        /\ allocs'[i].amount = allocs[i].amount /\ allocs'[i].live = allocs[i].live
    <2>1. CASE allocs' = [allocs EXCEPT ![i].consumed = IF allocs[i].live THEN @ + n ELSE @]
      BY <1>2, <1>3, <2>1 DEF Allocation
    <2>2. CASE allocs' = [allocs EXCEPT ![i].expired = IF allocs[i].live THEN @ + n ELSE @]
      BY <1>2, <1>3, <2>2 DEF Allocation
    <2> QED
      BY <1>4, <2>1, <2>2
  <1>6. \A j \in DOMAIN allocs : allocs'[j] \in Allocation
    BY <1>5, TypedTables, RowTypes
  <1>7. allocs' \in [DOMAIN allocs -> Allocation]
    <2>1. allocs' = [j \in DOMAIN allocs |-> allocs'[j]]
      BY <1>4
    <2> QED
      BY <1>6, <2>1
  <1>8. allocs' \in Seq(Allocation)
    BY <1>7, SameRows DEF TypeOK
  <1>9. KeepsRows(allocs, allocs')
    BY <1>5 DEF KeepsRows
  <1>10. \A j \in DOMAIN allocs' : allocs'[j].account \in DOMAIN accounts
    BY <1>5 DEF TypeOK
  <1>11. DataOK'
    BY <1>1, <1>5, <1>8, <1>10 DEF TypeOK, DataOK
  <1>12. DataFrame
    BY <1>1, <1>9, SameTables DEF DataFrame
  <1> QED
    BY <1>5, <1>11, <1>12

\* ... the three DELETEs ...
LEMMA DeleteData ==
    ASSUME TypeOK, CallsSound, NEW c \in Calls, WriteDelete(c)
    PROVE  DataOK' /\ DataFrame /\ DOMAIN accounts' = DOMAIN accounts
  <1> DEFINE u == call[c].user
  <1>1. /\ UNCHANGED <<now, allocated, shared, excuse, ops, faults>>
        /\ \/ /\ allocs' = [i \in DOMAIN allocs |->
                              IF accounts[allocs[i].account].user = u
                              THEN [allocs[i] EXCEPT !.live = FALSE] ELSE allocs[i]]
              /\ UNCHANGED <<accounts, ledger>>
           \/ /\ ledger' = [a \in DOMAIN ledger |-> IF accounts[a].user = u THEN 0 ELSE ledger[a]]
              /\ UNCHANGED <<accounts, allocs>>
           \/ /\ accounts' = [a \in DOMAIN accounts |->
                               IF accounts[a].user = u THEN [accounts[a] EXCEPT !.live = FALSE]
                               ELSE accounts[a]]
              /\ UNCHANGED <<ledger, allocs>>
    BY DEF WriteDelete, ghosts
  <1>2. CASE /\ allocs' = [i \in DOMAIN allocs |->
                             IF accounts[allocs[i].account].user = u
                             THEN [allocs[i] EXCEPT !.live = FALSE] ELSE allocs[i]]
             /\ UNCHANGED <<accounts, ledger>>
    <2>1. \A i \in DOMAIN allocs : allocs[i] \in Allocation
      BY TypedTables, RowTypes
    <2>2. \A i \in DOMAIN allocs : [allocs[i] EXCEPT !.live = FALSE] \in Allocation
      BY <2>1 DEF Allocation
    <2>3. allocs' \in [DOMAIN allocs -> Allocation]
      BY <1>2, <2>1, <2>2
    <2>4. allocs' \in Seq(Allocation) /\ DOMAIN allocs' = DOMAIN allocs
      BY <2>3, SameRows DEF TypeOK
    <2>5. KeepsRows(allocs, allocs')
      BY <1>2, <2>1 DEF KeepsRows, Allocation
    <2>6. \A i \in DOMAIN allocs' : allocs'[i].account \in DOMAIN accounts
      BY <2>4, <2>5 DEF KeepsRows, TypeOK
    <2>7. DataOK'
      BY <1>1, <1>2, <2>4, <2>6 DEF TypeOK, DataOK
    <2> QED
      BY <1>1, <1>2, <2>5, <2>7, SameTables DEF DataFrame
  <1>3. CASE /\ ledger' = [a \in DOMAIN ledger |-> IF accounts[a].user = u THEN 0 ELSE ledger[a]]
             /\ UNCHANGED <<accounts, allocs>>
    <2>1. ledger' \in [DOMAIN accounts -> Int]
      BY <1>3 DEF TypeOK
    <2> QED
      BY <1>1, <1>3, <2>1, SameTables DEF TypeOK, DataOK, DataFrame
  <1>4. CASE /\ accounts' = [a \in DOMAIN accounts |->
                               IF accounts[a].user = u THEN [accounts[a] EXCEPT !.live = FALSE]
                               ELSE accounts[a]]
             /\ UNCHANGED <<ledger, allocs>>
    <2>1. \A a \in DOMAIN accounts : accounts[a] \in Account
      BY TypedTables, RowTypes
    <2>2. \A a \in DOMAIN accounts : [accounts[a] EXCEPT !.live = FALSE] \in Account
      BY <2>1 DEF Account
    <2>3. accounts' \in [DOMAIN accounts -> Account]
      BY <1>4, <2>1, <2>2
    <2>4. accounts' \in Seq(Account) /\ DOMAIN accounts' = DOMAIN accounts
      BY <2>3, SameRows DEF TypeOK
    <2>5. KeepsUsers(accounts, accounts')
      BY <1>4, <2>1 DEF KeepsUsers, Account
    <2>6. \A a \in DOMAIN accounts : accounts'[a].live => accounts[a].live
      BY <1>4, <2>1 DEF Account
    <2>7. DataOK'
      BY <1>1, <1>4, <2>4 DEF TypeOK, DataOK
    <2> QED
      BY <1>1, <1>4, <2>4, <2>5, <2>6, <2>7, SameTables DEF DataFrame
  <1> QED
    BY <1>1, <1>2, <1>3, <1>4

\* ... and an exception.
LEMMA RaiseData ==
    ASSUME TypeOK, CallsSound, NEW c \in Calls, StatementRaises(c)
    PROVE  DataOK' /\ DataFrame
  <1>1. UNCHANGED <<now, accounts, ledger, allocs, allocated, shared, ops>>
        /\ faults' \in 0..MaxFaults /\ Excuse(Touched(c), "lost") /\ "lost" \in Excuses
    BY LedgerAssumption DEF StatementRaises, books, Fault, TypeOK, Excuses
  <1> QED
    BY <1>1, ExcuseAdds, SameTables DEF TypeOK, DataOK, DataFrame

-----------------------------------------------------------------------------
(* Types and statements are kept by every step.                            *)

Cont(c) == Advance(call[c], Tail(Todo(c)))
Skip(c) == Advance(call[c], AfterError(c))

\* Where a call stands after each of its statements.
LEMMA AfterWrites ==
    ASSUME TypeOK, CallsSound, NEW c \in Calls
    PROVE  /\ WriteTxn(c) => \/ Frame(c, Cont(c))
                             \/ Frame(c, Skip(c)) /\ call[c].kind \in {"consume", "expire"}
                                /\ ledger' = ledger /\ ~accounts[Account1(c)].live
           /\ WriteBalance(c) => Frame(c, Cont(c)) \/ Frame(c, Idle)
           /\ WriteAlloc(c) \/ WriteBudget(c) \/ WriteUse(c) \/ WriteDelete(c) => Frame(c, Cont(c))
           /\ StatementRaises(c) => Frame(c, Skip(c)) \/ Frame(c, Idle)
  <1>0. Advance(call[c], <<>>) = Idle
    BY DEF Advance
  <1>1. WriteTxn(c) => \/ Frame(c, Cont(c))
                       \/ Frame(c, Skip(c)) /\ call[c].kind \in {"consume", "expire"}
                          /\ ledger' = ledger /\ ~accounts[Account1(c)].live
    BY TxnData, Proceeding DEF WriteTxn, Frame, Cont, Skip
  <1>2. WriteBalance(c) => Frame(c, Cont(c)) \/ Frame(c, Idle)
    <2> SUFFICES ASSUME WriteBalance(c) PROVE Frame(c, Cont(c)) \/ Frame(c, Idle)
      OBVIOUS
    <2>1. Proceed(c, Tail(Todo(c))) \/ Proceed(c, <<>>)
      BY DEF WriteBalance
    <2> QED
      BY <1>0, <2>1, BalanceData, Proceeding DEF Frame, Cont
  <1>3. WriteAlloc(c) => Frame(c, Cont(c))
    BY AllocData, Proceeding DEF WriteAlloc, Frame, Cont
  <1>4. WriteBudget(c) => Frame(c, Cont(c))
    BY BudgetData, Proceeding DEF WriteBudget, Frame, Cont
  <1>5. WriteUse(c) => Frame(c, Cont(c))
    BY UseData, Proceeding DEF WriteUse, Frame, Cont
  <1>6. WriteDelete(c) => Frame(c, Cont(c))
    BY DeleteData, Proceeding DEF WriteDelete, Frame, Cont
  <1>7. StatementRaises(c) => Frame(c, Skip(c)) \/ Frame(c, Idle)
    BY RaiseData, Proceeding DEF StatementRaises, Frame, Skip, Return
  <1> QED
    BY <1>1, <1>2, <1>3, <1>4, <1>5, <1>6, <1>7

WritingStep(c) == WriteTxn(c) \/ WriteBalance(c) \/ WriteAlloc(c) \/ WriteBudget(c) \/ WriteUse(c)
               \/ WriteDelete(c) \/ StatementRaises(c)

\* Every step keeps the types, and every call sound.
LEMMA StepKeepsTypes ==
    ASSUME TypeOK, CallsSound, NEW c \in Calls, Step(c)
    PROVE  TypeOK' /\ CallsSound'
  <1>1. DataOK' /\ (\E k \in Call : CallSound(k, accounts, allocs) /\ Frame(c, k))
    <2>1. CASE Starting(c)
      <3>1. DataOK' /\ DataFrame
        BY <2>1, StartData
      <3>2. \E k \in Call : Becomes(c, k)
        BY <2>1, Starts, TypedTables
      <3> QED
        BY <3>1, <3>2 DEF Becomes, Frame
    <2>2. CASE WritingStep(c)
      <3>1. DataOK'
        BY <2>2, TxnData, BalanceData, AllocData, BudgetData, UseData, DeleteData, RaiseData
        DEF WritingStep
      <3>2. call[c].step = "run"
        BY <2>2 DEF WritingStep, WriteTxn, WriteBalance, WriteAlloc, WriteBudget, WriteUse,
                    WriteDelete, StatementRaises, Writing
      <3>3. /\ Cont(c) \in Call /\ CallSound(Cont(c), accounts, allocs)
            /\ Skip(c) \in Call /\ CallSound(Skip(c), accounts, allocs)
            /\ Idle \in Call /\ CallSound(Idle, accounts, allocs)
        BY <3>2, RunningCall DEF Cont, Skip
      <3>4. Frame(c, Cont(c)) \/ Frame(c, Skip(c)) \/ Frame(c, Idle)
        BY <2>2, AfterWrites DEF WritingStep
      <3> QED
        BY <3>1, <3>3, <3>4
    <2> QED
      BY <2>1, <2>2 DEF Step, Starting, WritingStep
  <1>2. call' \in [Calls -> Call] /\ CallsSound'
    BY <1>1, CallsMove
  <1> QED
    BY <1>1, <1>2 DEF TypeOK, DataOK

-----------------------------------------------------------------------------
(* The balances.                                                           *)

WhyDrift == {"lapsed", "moved", "lost"}
WhyUnbooked == {"lapsed", "refused", "lost"}

\* The terms of an account change with the term of the call that moves.
LEMMA TermsMove ==
    ASSUME TypeOK, NEW c \in Calls, NEW k \in Call, call' = [call EXCEPT ![c] = k], NEW a \in Nat
    PROVE  /\ Drifting(a) \in Int /\ Booked(a) \in Int
           /\ Drifting(a)' = Drifting(a) + DriftOf(k, a) - DriftOf(call[c], a)
           /\ Booked(a)' = Booked(a) + BookedOf(k, a) - BookedOf(call[c], a)
  <1> DEFINE f == [d \in Calls |-> DriftOf(call[d], a)]
             f2 == [d \in Calls |-> DriftOf(call'[d], a)]
             g == [d \in Calls |-> BookedOf(call[d], a)]
             g2 == [d \in Calls |-> BookedOf(call'[d], a)]
  <1>1. IsFiniteSet(Calls) /\ call \in [Calls -> Call]
    BY LedgerAssumption, TypedTables
  <1>2. call'[c] = k /\ \A d \in Calls : d # c => call'[d] = call[d]
    BY <1>1
  <1>3. /\ \A d \in Calls : f[d] \in Int /\ g[d] \in Int
        /\ f2[c] \in Int /\ g2[c] \in Int
        /\ \A d \in Calls : d # c => f2[d] = f[d] /\ g2[d] = g[d]
        /\ f[c] = DriftOf(call[c], a) /\ g[c] = BookedOf(call[c], a)
        /\ f2[c] = DriftOf(k, a) /\ g2[c] = BookedOf(k, a)
    BY <1>1, <1>2, TermTypes
  <1>4. /\ Drifting(a) = SumFunctionOnSet(f, Calls) /\ Booked(a) = SumFunctionOnSet(g, Calls)
        /\ Drifting(a)' = SumFunctionOnSet(f2, Calls) /\ Booked(a)' = SumFunctionOnSet(g2, Calls)
    BY DEF Drifting, Booked
  <1> HIDE DEF f, f2, g, g2
  <1>5. SumFunctionOnSet(f2, Calls) = SumFunctionOnSet(f, Calls) + f2[c] - f[c]
    BY <1>1, <1>3, SumReplace
  <1>6. SumFunctionOnSet(g2, Calls) = SumFunctionOnSet(g, Calls) + g2[c] - g[c]
    BY <1>1, <1>3, SumReplace
  <1>7. SumFunctionOnSet(f, Calls) \in Int /\ SumFunctionOnSet(g, Calls) \in Int
    BY <1>1, <1>3, SumInt
  <1> QED
    BY <1>3, <1>4, <1>5, <1>6, <1>7

\* An excuse lasts, unless it was the deletion that the step ends.
LEMMA ExcusedStays ==
    ASSUME TypeOK, NEW c \in Calls, NEW k, Frame(c, k), NEW a \in DOMAIN accounts, NEW W,
           Excused(a, W),
           call[c].kind = "delete" /\ call[c].user = accounts[a].user =>
              \/ k.kind = "delete" /\ k.user = call[c].user
              \/ ~accounts'[a].live \/ excuse'[a] \cap W # {}
    PROVE  Excused(a, W)'
  <1>1. accounts'[a].user = accounts[a].user
    BY DEF Frame, DataFrame, KeepsUsers
  <1>2. CASE ~accounts[a].live
    BY <1>2 DEF Frame, DataFrame, Excused
  <1>3. CASE excuse[a] \cap W # {}
    BY <1>3 DEF Frame, DataFrame, Excused
  <1>4. CASE Deleting(a)
    <2>1. PICK d \in Calls : call[d].kind = "delete" /\ call[d].user = accounts[a].user
      BY <1>4 DEF Deleting
    <2>2. CASE d # c
      <3>1. call'[d] = call[d]
        BY <2>2, TypedTables DEF Frame
      <3> QED
        BY <1>1, <2>1, <3>1 DEF Excused, Deleting
    <2>3. CASE d = c
      <3>1. call'[c] = k
        BY TypedTables DEF Frame
      <3> QED
        BY <1>1, <2>1, <2>3, <3>1 DEF Excused, Deleting
    <2> QED
      BY <2>2, <2>3
  <1> QED
    BY <1>2, <1>3, <1>4 DEF Excused

\* Balance, transactions and drift of an account are numbers.
LEMMA DriftInt ==
    ASSUME TypeOK, NEW a \in DOMAIN accounts
    PROVE  /\ a \in Nat \ {0} /\ accounts[a].balance \in Nat /\ ledger[a] \in Int
           /\ LeftIn(AllocsOf(a)) \in Int /\ Drift(a) \in Int
           /\ Drift(a) = accounts[a].balance - LeftIn(AllocsOf(a))
  <1>1. a \in Nat \ {0} /\ accounts[a] \in Account /\ ledger[a] \in Int
    BY TypedTables, RowTypes
  <1>2. accounts[a].balance \in Nat
    BY <1>1 DEF Account
  <1>3. LeftIn(AllocsOf(a)) \in Int
    BY TypedTables, LeftInInt DEF AllocsOf
  <1> QED
    BY <1>1, <1>2, <1>3 DEF Drift

\* The balances of the accounts there were agree as before when what the
\* step changes in the records it also changes in the terms of its call.
LEMMA BalanceStep ==
    ASSUME TypeOK, BalanceInv, NEW c \in Calls, NEW k \in Call, Frame(c, k),
           NEW a \in DOMAIN accounts,
           \A W \in {WhyDrift, WhyUnbooked} : Excused(a, W) => Excused(a, W)',
           Excused(a, WhyDrift)' \/ Drift(a)' = Drift(a) + DriftOf(k, a) - DriftOf(call[c], a),
           \/ Excused(a, WhyUnbooked)'
           \/ ledger'[a] - accounts'[a].balance =
                 ledger[a] - accounts[a].balance + BookedOf(k, a) - BookedOf(call[c], a)
    PROVE  /\ Excused(a, WhyDrift)' \/ Drift(a)' = Drifting(a)'
           /\ Excused(a, WhyUnbooked)' \/ ledger'[a] - accounts'[a].balance = Booked(a)'
  <1>1. a \in Nat
    BY DriftInt
  <1>2. /\ Drifting(a)' = Drifting(a) + DriftOf(k, a) - DriftOf(call[c], a)
        /\ Booked(a)' = Booked(a) + BookedOf(k, a) - BookedOf(call[c], a)
    BY <1>1, TermsMove DEF Frame
  <1>3. /\ Excused(a, WhyDrift) \/ Drift(a) = Drifting(a)
        /\ Excused(a, WhyUnbooked) \/ ledger[a] - accounts[a].balance = Booked(a)
    BY DEF BalanceInv, WhyDrift, WhyUnbooked
  <1> QED
    BY <1>2, <1>3

\* Nothing is under way at an account that is not there yet.
LEMMA FreshAccount ==
    ASSUME Tables, NEW k \in Call, CallSound(k, accounts, allocs),
           NEW a \in Nat \ {0}, a \notin DOMAIN accounts
    PROVE  DriftOf(k, a) = 0 /\ BookedOf(k, a) = 0
  <1>1. CASE k.todo = <<>>
    BY <1>1, NothingBetween
  <1>2. CASE k.todo # <<>> /\ k.kind = "delete"
    BY <1>2, DeleteEffect
  <1>3. CASE k.todo # <<>> /\ k.kind # "delete"
    <2>1. k.step = "run"
      BY <1>3 DEF CallSound, StepSound
    <2>2. Head(k.todo).account # a
      BY <1>3, <2>1, HeadRow
    <2>3. k.kind = "transfer" => k.from # a /\ k.todo[Len(k.todo)].account # a
      <3> SUFFICES ASSUME k.kind = "transfer"
                   PROVE  k.from # a /\ k.todo[Len(k.todo)].account # a
        OBVIOUS
      <3>1. MoveShape(k, accounts) /\ k.from \in DOMAIN accounts
        BY <2>1 DEF CallSound, StepSound
      <3>2. k.todo[Len(k.todo)].account \in DOMAIN accounts
        BY <1>3, <3>1, MoveHead
      <3> QED
        BY <3>1, <3>2
    <2> QED
      BY <1>3, <2>2, <2>3 DEF DriftOf, BookedOf
  <1> QED
    BY <1>1, <1>2, <1>3

\* While no allocation changes, the drift follows the balance.
LEMMA SameDrift ==
    ASSUME NEW a, allocs' = allocs
    PROVE  /\ LeftIn(AllocsOf(a))' = LeftIn(AllocsOf(a))
           /\ accounts'[a].balance = accounts[a].balance => Drift(a)' = Drift(a)
  <1>1. AllocsOf(a)' = AllocsOf(a)
    BY DEF AllocsOf
  <1>2. LeftIn(AllocsOf(a))' = LeftIn(AllocsOf(a))
    BY <1>1 DEF LeftIn, Left
  <1> QED
    BY <1>2 DEF Drift

\* The conclusion of BalanceStep, for all accounts.
Balanced(a) ==
    /\ Excused(a, WhyDrift) \/ Drift(a) = Drifting(a)
    /\ Excused(a, WhyUnbooked) \/ ledger[a] - accounts[a].balance = Booked(a)

\* Excuses last for every account a step does not end a deletion of.
LEMMA ExcusesStay ==
    ASSUME TypeOK, NEW c \in Calls, NEW k, Frame(c, k), NEW a \in DOMAIN accounts,
           call[c].kind = "delete" /\ call[c].user = accounts[a].user =>
              \/ k.kind = "delete" /\ k.user = call[c].user
              \/ ~accounts'[a].live \/ "lost" \in excuse'[a]
    PROVE  \A W \in {WhyDrift, WhyUnbooked} : Excused(a, W) => Excused(a, W)'
  <1>1. "lost" \in WhyDrift /\ "lost" \in WhyUnbooked
    BY DEF WhyDrift, WhyUnbooked
  <1>2. \A W \in {WhyDrift, WhyUnbooked} : "lost" \in excuse'[a] => excuse'[a] \cap W # {}
    BY <1>1
  <1> QED
    BY <1>2, ExcusedStays

\* BalanceInv, step by step: nothing is owed before the first statement.
LEMMA StartBalance ==
    ASSUME TypeOK, CallsSound, BalanceInv, NEW c \in Calls, Starting(c)
    PROVE  BalanceInv'
  <1>1. /\ call[c] \in Call /\ call[c].todo = <<>> /\ call[c].kind # "delete"
        /\ \E k \in Call : Becomes(c, k)
    BY Starts, TypedTables
  <1>2. PICK k \in Call : Becomes(c, k)
    BY <1>1
  <1>3. /\ Frame(c, k) /\ CallSound(k, accounts, allocs)
        /\ \A a \in Nat \ {0} : DriftOf(k, a) = 0 /\ BookedOf(k, a) = 0
    BY <1>2, StartData DEF Becomes, Frame, Clean
  <1>4. ASSUME NEW a \in DOMAIN accounts, allocs' = allocs, accounts'[a] = accounts[a],
               ledger'[a] = ledger[a]
        PROVE  Balanced(a)'
    <2>1. DriftOf(call[c], a) = 0 /\ BookedOf(call[c], a) = 0
      BY <1>1, NothingBetween
    <2>2. DriftOf(k, a) = 0 /\ BookedOf(k, a) = 0
      BY <1>3, DriftInt
    <2>3. Drift(a)' = Drift(a)
      BY <1>4, SameDrift
    <2>4. Drift(a)' = Drift(a) + DriftOf(k, a) - DriftOf(call[c], a)
      BY <2>1, <2>2, <2>3, DriftInt
    <2>5. ledger'[a] - accounts'[a].balance
             = ledger[a] - accounts[a].balance + BookedOf(k, a) - BookedOf(call[c], a)
      BY <1>4, <2>1, <2>2, DriftInt
    <2>6. \A W \in {WhyDrift, WhyUnbooked} : Excused(a, W) => Excused(a, W)'
      BY <1>1, <1>3, ExcusesStay
    <2> QED
      BY <1>3, <2>4, <2>5, <2>6, BalanceStep DEF Balanced
  <1>5. CASE UNCHANGED <<accounts, ledger, allocs>>
    BY <1>4, <1>5 DEF BalanceInv, Balanced, WhyDrift, WhyUnbooked
  <1>6. CASE ~(UNCHANGED <<accounts, ledger, allocs>>)
    <2> DEFINE row == [user |-> call[c].user, type |-> call[c].type, balance |-> 0, live |-> TRUE]
    <2>1. Open(c)
      BY <1>6 DEF Starting, Allocate, Check, Transfer, Consume, Plan, Expire, Delete, books
    <2>2. accounts' = Append(accounts, row) /\ ledger' = Append(ledger, 0) /\ allocs' = allocs
      BY <1>6, <2>1 DEF Open
    <2>3. row.balance = 0
      OBVIOUS
    <2> HIDE DEF row
    <2>0. PICK n \in Nat : n = Len(accounts)
      BY TypedTables, RowTypes
    <2>4. n \in Nat /\ DOMAIN accounts = 1..n /\ accounts \in Seq(Account)
          /\ ledger \in [1..n -> Int]
      BY <2>0, TypedTables, RowTypes DEF TypeOK
    <2>5. ledger \in Seq(Int) /\ Len(ledger) = n
      BY <2>4, SeqDef, LenProperties
    <2>6. DOMAIN accounts' = 1..(n + 1) /\ accounts'[n + 1] = row
          /\ \A a \in 1..n : accounts'[a] = accounts[a]
      BY <2>0, <2>2, <2>4
    <2>7. ledger'[n + 1] = 0 /\ \A a \in 1..n : ledger'[a] = ledger[a]
      BY <2>2, <2>5
    <2>8. \A a \in DOMAIN accounts : Balanced(a)'
      BY <1>4, <2>2, <2>4, <2>6, <2>7
    <2>9. Balanced(n + 1)'
      <3>b. PICK b \in Nat : b = n + 1
        BY <2>4
      <3>1. b \in Nat \ {0} /\ b \notin DOMAIN accounts
        BY <2>4, <3>b
      <3>2. \A d \in Calls : call'[d] \in Call /\ CallSound(call'[d], accounts, allocs)
        BY <1>3, TypedTables DEF Frame, CallsSound
      <3>3. \A d \in Calls : DriftOf(call'[d], b) = 0 /\ BookedOf(call'[d], b) = 0
        BY <3>1, <3>2, TypedTables, FreshAccount
      <3>4. Drifting(b)' = 0 /\ Booked(b)' = 0
        <4> DEFINE f == [d \in Calls |-> DriftOf(call'[d], b)]
                   g == [d \in Calls |-> BookedOf(call'[d], b)]
        <4>1. Drifting(b)' = SumFunctionOnSet(f, Calls) /\ Booked(b)' = SumFunctionOnSet(g, Calls)
          BY DEF Drifting, Booked
        <4>2. \A d \in Calls : f[d] = 0 /\ g[d] = 0
          BY <3>3
        <4> HIDE DEF f, g
        <4>3. IsFiniteSet(Calls)
          BY LedgerAssumption
        <4>4. SumFunctionOnSet(f, Calls) = 0 /\ SumFunctionOnSet(g, Calls) = 0
          BY <4>2, <4>3, SumZero
        <4> QED
          BY <4>1, <4>4
      <3>5. AllocsOf(b)' = {}
        BY <2>2, <3>1, TypedTables, RowTypes DEF AllocsOf
      <3>6. LeftIn(AllocsOf(b))' = 0
        BY <3>5, SumEmpty DEF LeftIn
      <3>7. Drift(b)' = 0 /\ ledger'[b] - accounts'[b].balance = 0
        <4>1. accounts'[b].balance = 0 /\ ledger'[b] = 0
          BY <2>3, <2>6, <2>7, <3>b
        <4> QED
          BY <3>6, <4>1 DEF Drift
      <3> QED
        BY <3>4, <3>7, <3>b DEF Balanced
    <2>10. \A a \in 1..(n + 1) : Balanced(a)'
      <3> SUFFICES ASSUME NEW a \in 1..(n + 1) PROVE Balanced(a)'
        OBVIOUS
      <3>1. a \in 1..n \/ a = n + 1
        BY <2>4
      <3> QED
        BY <2>4, <2>8, <2>9, <3>1
    <2> QED
      BY <2>6, <2>10 DEF BalanceInv, Balanced, WhyDrift, WhyUnbooked
  <1> QED
    BY <1>5, <1>6

\* What a failed statement leaves has nothing between two records.
LEMMA SkipClean ==
    ASSUME TypeOK, CallsSound, NEW c \in Calls, call[c].step = "run", NEW a
    PROVE  DriftOf(Skip(c), a) = 0 /\ BookedOf(Skip(c), a) = 0
  <1>1. /\ call[c] \in Call /\ CallSound(call[c], accounts, allocs)
        /\ Skip(c).todo = AfterError(c)
    BY RunningCall DEF Skip
  <1>2. AfterError(c) \in Seq(Statement)
        /\ (AfterError(c) # <<>> =>
              call[c].kind = "expire" /\ Head(AfterError(c)).write = "txn")
    BY <1>1, SkipSound
  <1>3. CASE AfterError(c) = <<>>
    BY <1>1, <1>3, NothingBetween
  <1>4. CASE AfterError(c) # <<>>
    <2>1. Skip(c).kind = "expire"
      BY <1>1, <1>2, <1>4, AdvanceFields DEF Skip
    <2> HIDE DEF Skip
    <2> QED
      BY <1>1, <1>2, <1>4, <2>1 DEF DriftOf, BookedOf, Uses
  <1> QED
    BY <1>3, <1>4

\* A transaction moves the ledger, and its call owes the balance.
LEMMA TxnBalance ==
    ASSUME TypeOK, CallsSound, BalanceInv, NEW c \in Calls, WriteTxn(c)
    PROVE  BalanceInv'
  <1> DEFINE a == Account1(c)  n == Head(Todo(c)).n
  <1>1. call[c].step = "run" /\ Head(Todo(c)).write = "txn" /\ accounts' = accounts
        /\ allocs' = allocs
    BY DEF WriteTxn, Writing
  <1>2. /\ call[c] \in Call /\ CallSound(call[c], accounts, allocs) /\ Todo(c) = call[c].todo
        /\ Cont(c) \in Call /\ Skip(c) \in Call
    BY <1>1, RunningCall DEF Cont, Skip
  <1>3. n \in Int /\ a \in DOMAIN accounts
    BY <1>1, <1>2, TypedTables, HeadRow DEF Account1
  <1>4. call[c].kind # "delete"
    BY <1>1, <1>2, TypedTables, HeadRow
  <1>5. ASSUME NEW b \in DOMAIN accounts
        PROVE  /\ DriftOf(call[c], b) = 0 /\ DriftOf(Cont(c), b) = 0
               /\ BookedOf(Cont(c), b) = BookedOf(call[c], b) + (IF b = a THEN n ELSE 0)
               /\ call[c].kind # "transfer" => BookedOf(call[c], b) = 0
               /\ BookedOf(call[c], b) \in Int
    BY <1>1, <1>2, DriftInt, TxnEffect, TermTypes DEF Cont, Account1
  <1>6. \A b \in DOMAIN accounts : Drift(b)' = Drift(b)
    BY <1>1, SameDrift
  <1>7. CASE ledger' = [ledger EXCEPT ![a] = @ + n] /\ Proceed(c, Tail(Todo(c)))
    <2>1. Frame(c, Cont(c))
      BY <1>7, TxnData, Proceeding DEF Frame, Cont
    <2>2. ASSUME NEW b \in DOMAIN accounts PROVE Balanced(b)'
      <3> HIDE DEF a, n
      <3>1. Drift(b)' = Drift(b) + DriftOf(Cont(c), b) - DriftOf(call[c], b)
        BY <1>5, <1>6, DriftInt
      <3>2. ledger'[b] = ledger[b] + (IF b = a THEN n ELSE 0)
        BY <1>3, <1>7, DriftInt, TypedTables
      <3>3. ledger'[b] - accounts'[b].balance
              = ledger[b] - accounts[b].balance + BookedOf(Cont(c), b) - BookedOf(call[c], b)
        BY <1>1, <1>3, <1>5, <3>2, DriftInt
      <3>4. \A W \in {WhyDrift, WhyUnbooked} : Excused(b, W) => Excused(b, W)'
        BY <1>4, <2>1, ExcusesStay
      <3> QED
        BY <1>2, <2>1, <3>1, <3>3, <3>4, BalanceStep DEF Balanced
    <2> QED
      BY <1>1, <2>2 DEF BalanceInv, Balanced, WhyDrift, WhyUnbooked
  <1>8. CASE /\ call[c].kind \in {"consume", "expire"} /\ ledger' = ledger
             /\ Proceed(c, AfterError(c))
    <2>1. Frame(c, Skip(c))
      BY <1>8, TxnData, Proceeding DEF Frame, Skip
    <2>2. ASSUME NEW b \in DOMAIN accounts PROVE Balanced(b)'
      <3>0. DriftOf(Skip(c), b) = 0 /\ BookedOf(Skip(c), b) = 0
        BY <1>1, SkipClean
      <3>1. Drift(b)' = Drift(b) + DriftOf(Skip(c), b) - DriftOf(call[c], b)
        BY <1>5, <1>6, <3>0, DriftInt
      <3>3. ledger'[b] - accounts'[b].balance
              = ledger[b] - accounts[b].balance + BookedOf(Skip(c), b) - BookedOf(call[c], b)
        BY <1>1, <1>5, <1>8, <3>0, DriftInt
      <3>4. \A W \in {WhyDrift, WhyUnbooked} : Excused(b, W) => Excused(b, W)'
        BY <1>4, <2>1, ExcusesStay
      <3> QED
        BY <1>2, <2>1, <3>1, <3>3, <3>4, BalanceStep DEF Balanced
    <2> QED
      BY <1>1, <2>2 DEF BalanceInv, Balanced, WhyDrift, WhyUnbooked
  <1> QED
    BY <1>7, <1>8 DEF WriteTxn

\* An UPDATE pays the balance, or is refused and excused.
LEMMA UpdateBalance ==
    ASSUME TypeOK, CallsSound, BalanceInv, NEW c \in Calls, WriteBalance(c)
    PROVE  BalanceInv'
  <1>1. call[c].step = "run" /\ Head(Todo(c)).write = "balance" /\ ledger' = ledger
        /\ allocs' = allocs
    BY DEF WriteBalance, Writing
  <1>2. /\ call[c] \in Call /\ CallSound(call[c], accounts, allocs) /\ Todo(c) = call[c].todo
        /\ Cont(c) \in Call /\ Idle \in Call
    BY <1>1, RunningCall DEF Cont
  <1>3. PICK a \in DOMAIN accounts, n \in Int : a = Account1(c) /\ n = Head(Todo(c)).n
    BY <1>1, <1>2, TypedTables, HeadRow DEF Account1
  <1>4. call[c].kind # "delete"
    BY <1>1, <1>2, TypedTables, HeadRow
  <1>5. ASSUME NEW b \in DOMAIN accounts
        PROVE  /\ DriftOf(call[c], b) = 0
               /\ DriftOf(Cont(c), b) = IF call[c].kind # "transfer" /\ b = a THEN n ELSE 0
               /\ BookedOf(Cont(c), b) = BookedOf(call[c], b) - (IF b = a THEN n ELSE 0)
               /\ call[c].kind # "transfer" => BookedOf(call[c], b) = IF b = a THEN n ELSE 0
               /\ BookedOf(call[c], b) \in Int
    BY <1>1, <1>2, <1>3, DriftInt, BalanceEffect, TermTypes DEF Cont, Account1
  <1>6. ASSUME NEW b \in DOMAIN accounts
        PROVE  LeftIn(AllocsOf(b))' = LeftIn(AllocsOf(b))
    BY <1>1, SameDrift
  <1>7. DataOK' /\ DataFrame
    BY BalanceData
  <1>w. /\ "moved" \in WhyDrift /\ "lapsed" \in WhyDrift /\ "lapsed" \in WhyUnbooked
        /\ "refused" \in WhyUnbooked
        /\ "moved" \in Excuses /\ "lapsed" \in Excuses /\ "refused" \in Excuses
    BY DEF WhyDrift, WhyUnbooked, Excuses
  <1>8. CASE /\ Applies(a, n) /\ accounts' = [accounts EXCEPT ![a].balance = @ + n]
             /\ Proceed(c, Tail(Todo(c)))
             /\ IF call[c].kind = "transfer" THEN Excuse({a}, "moved") ELSE UNCHANGED excuse
    <2>1. Frame(c, Cont(c))
      BY <1>7, <1>8, Proceeding DEF Frame, Cont
    <2>2. ASSUME NEW b \in DOMAIN accounts PROVE Balanced(b)'
      <3>1. call[c].kind = "transfer" => "moved" \in excuse'[a]
        BY <1>3, <1>8, <1>w, ExcuseAdds
      <3>2. accounts'[b].balance = accounts[b].balance + (IF b = a THEN n ELSE 0)
        <4>1. accounts[b] \in Account /\ accounts[b].balance \in Nat
          BY TypedTables, RowTypes, DriftInt
        <4>2. CASE b = a
          BY <1>3, <1>8, <4>1, <4>2 DEF Account
        <4>3. CASE b # a
          BY <1>3, <1>8, <4>1, <4>3
        <4> QED
          BY <4>2, <4>3
      <3>3. Drift(b)' = Drift(b) + (IF b = a THEN n ELSE 0)
        <4>1. Drift(b)' = accounts'[b].balance - LeftIn(AllocsOf(b))'
          BY DEF Drift
        <4> QED
          BY <1>3, <1>6, <3>2, <4>1, DriftInt
      <3>4. \/ Excused(b, WhyDrift)'
            \/ Drift(b)' = Drift(b) + DriftOf(Cont(c), b) - DriftOf(call[c], b)
        <4>1. CASE call[c].kind = "transfer" /\ b = a
          BY <1>w, <3>1, <4>1 DEF Excused
        <4>2. CASE ~(call[c].kind = "transfer" /\ b = a)
          BY <1>3, <1>5, <3>3, <4>2, DriftInt
        <4> QED
          BY <4>1, <4>2
      <3>5. ledger'[b] - accounts'[b].balance
              = ledger[b] - accounts[b].balance + BookedOf(Cont(c), b) - BookedOf(call[c], b)
        BY <1>1, <1>3, <1>5, <3>2, DriftInt
      <3>6. \A W \in {WhyDrift, WhyUnbooked} : Excused(b, W) => Excused(b, W)'
        BY <1>4, <2>1, ExcusesStay
      <3> QED
        BY <1>2, <2>1, <3>4, <3>5, <3>6, BalanceStep DEF Balanced
    <2>3. DOMAIN accounts' = DOMAIN accounts
      BY <1>8
    <2> QED
      BY <2>2, <2>3 DEF BalanceInv, Balanced, WhyDrift, WhyUnbooked
  <1>9. CASE /\ accounts' = accounts
             /\ Proceed(c, IF PressesOn(c) THEN Tail(Todo(c)) ELSE <<>>)
             /\ Excuse({a}, IF call[c].kind = "expire" THEN "lapsed" ELSE "refused")
    <2>1. /\ call[c].kind = "expire" => "lapsed" \in excuse'[a]
          /\ call[c].kind # "expire" => "refused" \in excuse'[a]
      BY <1>3, <1>9, <1>w, ExcuseAdds
    <2>2. ASSUME NEW b \in DOMAIN accounts
          PROVE  /\ Drift(b)' = Drift(b)
                 /\ ledger'[b] - accounts'[b].balance = ledger[b] - accounts[b].balance
      BY <1>1, <1>9, SameDrift
    <2>3. Excused(a, WhyUnbooked)' /\ (call[c].kind = "expire" => Excused(a, WhyDrift)')
      BY <1>w, <2>1 DEF Excused
    <2>4. CASE PressesOn(c)
      <3>1. Frame(c, Cont(c))
        BY <1>7, <1>9, <2>4, Proceeding DEF Frame, Cont
      <3>2. ASSUME NEW b \in DOMAIN accounts PROVE Balanced(b)'
        <4>1. \/ Excused(b, WhyDrift)'
              \/ Drift(b)' = Drift(b) + DriftOf(Cont(c), b) - DriftOf(call[c], b)
          <5>1. CASE call[c].kind = "expire" /\ b = a
            BY <2>3, <5>1
          <5>2. CASE ~(call[c].kind = "expire" /\ b = a)
            <6>1. call[c].kind = "transfer" \/ b # a
              BY <2>4, <5>2 DEF PressesOn
            <6>2. DriftOf(Cont(c), b) = 0 /\ DriftOf(call[c], b) = 0
              BY <1>5, <6>1
            <6> QED
              BY <2>2, <6>2, DriftInt
          <5> QED
            BY <5>1, <5>2
        <4>2. \/ Excused(b, WhyUnbooked)'
              \/ ledger'[b] - accounts'[b].balance
                   = ledger[b] - accounts[b].balance + BookedOf(Cont(c), b) - BookedOf(call[c], b)
          <5>1. CASE b = a
            BY <2>3, <5>1
          <5>2. CASE b # a
            <6>1. BookedOf(Cont(c), b) = BookedOf(call[c], b) /\ BookedOf(call[c], b) \in Int
              BY <1>5, <5>2
            <6> QED
              BY <2>2, <6>1, DriftInt
          <5> QED
            BY <5>1, <5>2
        <4>3. \A W \in {WhyDrift, WhyUnbooked} : Excused(b, W) => Excused(b, W)'
          BY <1>4, <3>1, ExcusesStay
        <4> QED
          BY <1>2, <3>1, <4>1, <4>2, <4>3, BalanceStep DEF Balanced
      <3> QED
        BY <1>9, <3>2 DEF BalanceInv, Balanced, WhyDrift, WhyUnbooked
    <2>5. CASE ~PressesOn(c)
      <3>0. Advance(call[c], <<>>) = Idle /\ Idle.todo = <<>>
        BY IdleSound DEF Advance
      <3>1. Frame(c, Idle)
        BY <1>7, <1>9, <2>5, <3>0, Proceeding DEF Frame
      <3>2. ASSUME NEW b \in DOMAIN accounts PROVE Balanced(b)'
        <4>0. DriftOf(Idle, b) = 0 /\ BookedOf(Idle, b) = 0
          BY <3>0, NothingBetween
        <4>1. Drift(b)' = Drift(b) + DriftOf(Idle, b) - DriftOf(call[c], b)
          BY <1>5, <2>2, <4>0, DriftInt
        <4>2. \/ Excused(b, WhyUnbooked)'
              \/ ledger'[b] - accounts'[b].balance
                   = ledger[b] - accounts[b].balance + BookedOf(Idle, b) - BookedOf(call[c], b)
          <5>1. CASE b = a
            BY <2>3, <5>1
          <5>2. CASE b # a
            <6>1. BookedOf(call[c], b) = 0
              BY <1>5, <2>5, <5>2 DEF PressesOn
            <6> QED
              BY <2>2, <4>0, <6>1, DriftInt
          <5> QED
            BY <5>1, <5>2
        <4>3. \A W \in {WhyDrift, WhyUnbooked} : Excused(b, W) => Excused(b, W)'
          BY <1>4, <3>1, ExcusesStay
        <4> QED
          BY <1>2, <3>1, <4>1, <4>2, <4>3, BalanceStep DEF Balanced
      <3> QED
        BY <1>9, <3>2 DEF BalanceInv, Balanced, WhyDrift, WhyUnbooked
    <2> QED
      BY <2>4, <2>5
  <1> QED
    BY <1>3, <1>8, <1>9 DEF WriteBalance

\* A new allocation pays what the balance was ahead.
LEMMA AllocBalance ==
    ASSUME TypeOK, CallsSound, BalanceInv, NEW c \in Calls, WriteAlloc(c)
    PROVE  BalanceInv'
  <1>1. call[c].step = "run" /\ Head(Todo(c)).write = "alloc" /\ ledger' = ledger
        /\ accounts' = accounts
    BY DEF WriteAlloc, Writing
  <1>2. /\ call[c] \in Call /\ CallSound(call[c], accounts, allocs) /\ Todo(c) = call[c].todo
        /\ Cont(c) \in Call
    BY <1>1, RunningCall DEF Cont
  <1>3. PICK a \in DOMAIN accounts, n \in Int :
            a = Account1(c) /\ n = Head(Todo(c)).n /\ n = call[c].n
    BY <1>1, <1>2, TypedTables, HeadRow DEF Account1
  <1>4. call[c].kind # "delete"
    BY <1>1, <1>2, TypedTables, HeadRow
  <1>5. ASSUME NEW b \in DOMAIN accounts
        PROVE  /\ DriftOf(call[c], b) = IF b = a THEN n ELSE 0
               /\ DriftOf(Cont(c), b) = 0
               /\ BookedOf(Cont(c), b) = 0 /\ BookedOf(call[c], b) = 0
    BY <1>1, <1>2, <1>3, DriftInt, UseEffect DEF Cont, Account1
  <1>6. PICK N \in Nat, row \in Allocation :
            /\ DOMAIN allocs = 1..N /\ DOMAIN allocs' = 1..(N + 1)
            /\ \A i \in 1..N : allocs'[i] = allocs[i]
            /\ allocs'[N + 1] = row
            /\ row.account = a /\ row.live /\ row.amount = n /\ row.consumed = 0 /\ row.expired = 0
    BY <1>3, AllocData
  <1>7. Frame(c, Cont(c))
    BY AfterWrites
  <1>8. ASSUME NEW b \in DOMAIN accounts
        PROVE  LeftIn(AllocsOf(b))' = LeftIn(AllocsOf(b)) + (IF b = a THEN n ELSE 0)
    <2> DEFINE S == {i \in 1..N : allocs[i].account = b /\ allocs[i].live}
               f == [i \in DOMAIN allocs |-> Left(i)]
               g == [i \in DOMAIN allocs' |-> allocs'[i].amount - allocs'[i].consumed
                                                - allocs'[i].expired]
    <2>1. AllocsOf(b) = S /\ LeftIn(AllocsOf(b)) = SumFunctionOnSet(f, S)
      BY <1>6 DEF AllocsOf, LeftIn
    <2>2. AllocsOf(b)' = (IF b = a THEN S \cup {N + 1} ELSE S)
      <3>1. \A i \in 1..(N + 1) : i \in 1..N \/ i = N + 1
        BY <1>6
      <3>2. 1..N \subseteq 1..(N + 1) /\ N + 1 \in 1..(N + 1) /\ N + 1 \notin 1..N
        BY <1>6
      <3> QED
        BY <1>6, <3>1, <3>2 DEF AllocsOf
    <2>3. LeftIn(AllocsOf(b))' = SumFunctionOnSet(g, AllocsOf(b)')
      BY DEF LeftIn, Left
    <2>4. \A i \in S : g[i] = f[i] /\ f[i] \in Int
      <3>1. \A i \in S : i \in DOMAIN allocs /\ i \in DOMAIN allocs' /\ allocs'[i] = allocs[i]
        BY <1>6
      <3> QED
        BY <3>1, TypedTables, RowTypes DEF Left
    <2>5. g[N + 1] = n
      <3>1. N + 1 \in DOMAIN allocs'
        BY <1>6
      <3> QED
        BY <1>3, <1>6, <3>1
    <2>6. IsFiniteSet(S) /\ N + 1 \notin S
      <3>1. S \in SUBSET DOMAIN allocs
        BY <1>6
      <3> QED
        BY <1>6, <3>1, TypedTables, RowTypes, FS_Subset
    <2> HIDE DEF S, f, g
    <2>7. SumFunctionOnSet(g, S) = SumFunctionOnSet(f, S) /\ SumFunctionOnSet(f, S) \in Int
      BY <2>4, <2>6, SumSame, SumInt
    <2>8. SumFunctionOnSet(g, S \cup {N + 1}) = SumFunctionOnSet(g, S) + g[N + 1]
      <3>1. \A i \in S \cup {N + 1} : g[i] \in Int
        BY <1>3, <2>4, <2>5
      <3> QED
        BY <2>6, <3>1, SumAdd
    <2> QED
      BY <1>3, <2>1, <2>2, <2>3, <2>5, <2>7, <2>8
  <1>9. ASSUME NEW b \in DOMAIN accounts PROVE Balanced(b)'
    <2>1. Drift(b)' = Drift(b) + DriftOf(Cont(c), b) - DriftOf(call[c], b)
      <3>1. Drift(b)' = accounts[b].balance - LeftIn(AllocsOf(b))'
        BY <1>1 DEF Drift
      <3> QED
        BY <1>3, <1>5, <1>8, <3>1, DriftInt
    <2>2. ledger'[b] - accounts'[b].balance
            = ledger[b] - accounts[b].balance + BookedOf(Cont(c), b) - BookedOf(call[c], b)
      BY <1>1, <1>5, DriftInt
    <2>3. \A W \in {WhyDrift, WhyUnbooked} : Excused(b, W) => Excused(b, W)'
      BY <1>4, <1>7, ExcusesStay
    <2> QED
      BY <1>2, <1>7, <2>1, <2>2, <2>3, BalanceStep DEF Balanced
  <1> QED
    BY <1>1, <1>9 DEF BalanceInv, Balanced, WhyDrift, WhyUnbooked

\* The budget is neither balance nor transaction.
LEMMA BudgetBalance ==
    ASSUME TypeOK, CallsSound, BalanceInv, NEW c \in Calls, WriteBudget(c)
    PROVE  BalanceInv'
  <1>1. call[c].step = "run" /\ Head(Todo(c)).write = "budget" /\ ledger' = ledger
        /\ accounts' = accounts /\ allocs' = allocs
    BY DEF WriteBudget, Writing
  <1>2. /\ call[c] \in Call /\ CallSound(call[c], accounts, allocs) /\ Todo(c) = call[c].todo
        /\ Cont(c) \in Call
    BY <1>1, RunningCall DEF Cont
  <1>4. call[c].kind # "delete"
    BY <1>1, <1>2, TypedTables, HeadRow
  <1>5. ASSUME NEW b \in DOMAIN accounts
        PROVE  /\ DriftOf(call[c], b) = 0 /\ DriftOf(Cont(c), b) = 0
               /\ BookedOf(Cont(c), b) = 0 /\ BookedOf(call[c], b) = 0
    BY <1>1, <1>2, DriftInt, UseEffect DEF Cont
  <1>7. Frame(c, Cont(c))
    BY AfterWrites
  <1>9. ASSUME NEW b \in DOMAIN accounts PROVE Balanced(b)'
    <2>0. Drift(b)' = Drift(b)
      BY <1>1, SameDrift
    <2>1. Drift(b)' = Drift(b) + DriftOf(Cont(c), b) - DriftOf(call[c], b)
      BY <1>5, <2>0, DriftInt
    <2>2. ledger'[b] - accounts'[b].balance
            = ledger[b] - accounts[b].balance + BookedOf(Cont(c), b) - BookedOf(call[c], b)
      BY <1>1, <1>5, DriftInt
    <2>3. \A W \in {WhyDrift, WhyUnbooked} : Excused(b, W) => Excused(b, W)'
      BY <1>4, <1>7, ExcusesStay
    <2> QED
      BY <1>2, <1>7, <2>1, <2>2, <2>3, BalanceStep DEF Balanced
  <1> QED
    BY <1>1, <1>9 DEF BalanceInv, Balanced, WhyDrift, WhyUnbooked

\* What is left of the allocations after a use.
LEMMA UseLeft ==
    ASSUME TypeOK, CallsSound, NEW c \in Calls, WriteUse(c)
    PROVE  \E i \in DOMAIN allocs, n \in Nat :
              /\ i = Head(Todo(c)).alloc /\ n = Head(Todo(c)).n
              /\ allocs[i].account = Account1(c) /\ Account1(c) \in DOMAIN accounts
              /\ Head(Todo(c)).write \in Uses /\ call[c].kind # "delete"
              /\ DOMAIN allocs' = DOMAIN allocs
              /\ \A j \in DOMAIN allocs : /\ allocs'[j].account = allocs[j].account
                                          /\ allocs'[j].live = allocs[j].live
                                          /\ Left(j) \in Int
              /\ \A j \in DOMAIN allocs :
                    Left(j)' = IF j = i /\ allocs[i].live THEN Left(j) - n ELSE Left(j)
  <1>1. call[c].step = "run" /\ Head(Todo(c)).write \in Uses
    BY DEF WriteUse, Writing, Uses
  <1>2. PICK i \in DOMAIN allocs, n \in Nat :
            /\ i = Head(Todo(c)).alloc /\ n = Head(Todo(c)).n
            /\ allocs[i].account = Account1(c) /\ Account1(c) \in DOMAIN accounts
            /\ call[c].kind # "delete"
    <2>1. call[c] \in Call /\ CallSound(call[c], accounts, allocs) /\ Todo(c) = call[c].todo
      BY <1>1, RunningCall
    <2> DEFINE h == Head(call[c].todo)
    <2>2. /\ h.account \in DOMAIN accounts /\ call[c].kind # "delete"
          /\ h.alloc \in DOMAIN allocs /\ h.n \in Nat
          /\ allocs[h.alloc].account = h.account
      BY <1>1, <2>1, TypedTables, HeadRow
    <2> HIDE DEF h
    <2>3. Head(Todo(c)) = h
      BY <2>1 DEF h
    <2> QED
      BY <2>2, <2>3 DEF Account1
  <1>3. \/ allocs' = [allocs EXCEPT ![i].consumed = IF allocs[i].live THEN @ + n ELSE @]
        \/ allocs' = [allocs EXCEPT ![i].expired = IF allocs[i].live THEN @ + n ELSE @]
    BY <1>2 DEF WriteUse
  <1>4. \A j \in DOMAIN allocs : allocs[j] \in Allocation /\ Left(j) \in Int
    BY TypedTables, RowTypes
  <1>5. \A j \in DOMAIN allocs : j # i => allocs'[j] = allocs[j]
    BY <1>3
  <1>6. \A j \in DOMAIN allocs : j # i => Left(j)' = Left(j)
    BY <1>5 DEF Left
  <1>7. Left(i)' = IF allocs[i].live THEN Left(i) - n ELSE Left(i)
    <2>1. allocs[i].amount \in Int /\ allocs[i].consumed \in Int /\ allocs[i].expired \in Int
      BY <1>4 DEF Allocation
    <2>2. /\ allocs'[i].amount = allocs[i].amount
          /\ allocs'[i].consumed + allocs'[i].expired =
               allocs[i].consumed + allocs[i].expired + (IF allocs[i].live THEN n ELSE 0)
          /\ allocs'[i].consumed \in Int /\ allocs'[i].expired \in Int
      <3>1. CASE allocs' = [allocs EXCEPT ![i].consumed = IF allocs[i].live THEN @ + n ELSE @]
        BY <1>4, <2>1, <3>1 DEF Allocation
      <3>2. CASE allocs' = [allocs EXCEPT ![i].expired = IF allocs[i].live THEN @ + n ELSE @]
        BY <1>4, <2>1, <3>2 DEF Allocation
      <3> QED
        BY <1>3, <3>1, <3>2
    <2> QED
      BY <2>1, <2>2 DEF Left
  <1>8. DOMAIN allocs' = DOMAIN allocs
        /\ \A j \in DOMAIN allocs : /\ allocs'[j].account = allocs[j].account
                                    /\ allocs'[j].live = allocs[j].live
    BY UseData DEF DataFrame, KeepsRows
  <1> QED
    BY <1>1, <1>2, <1>4, <1>6, <1>7, <1>8

\* A use pays what the balance was behind; a deleted row has its excuse.
LEMMA UseBalance ==
    ASSUME TypeOK, CallsSound, BalanceInv, AllocsInv, NEW c \in Calls, WriteUse(c)
    PROVE  BalanceInv'
  <1>1. call[c].step = "run" /\ ledger' = ledger /\ accounts' = accounts /\ excuse' = excuse
    BY DEF WriteUse, Writing, ghosts
  <1>2. /\ call[c] \in Call /\ CallSound(call[c], accounts, allocs) /\ Todo(c) = call[c].todo
        /\ Cont(c) \in Call
    BY <1>1, RunningCall DEF Cont
  <1>3. PICK i \in DOMAIN allocs, n \in Nat, a \in DOMAIN accounts :
            /\ i = Head(Todo(c)).alloc /\ n = Head(Todo(c)).n
            /\ allocs[i].account = a /\ a = Account1(c)
            /\ Head(Todo(c)).write \in Uses /\ call[c].kind # "delete"
            /\ DOMAIN allocs' = DOMAIN allocs
            /\ \A j \in DOMAIN allocs : /\ allocs'[j].account = allocs[j].account
                                        /\ allocs'[j].live = allocs[j].live
                                        /\ Left(j) \in Int
            /\ \A j \in DOMAIN allocs :
                  Left(j)' = IF j = i /\ allocs[i].live THEN Left(j) - n ELSE Left(j)
    BY UseLeft
  <1>5. ASSUME NEW b \in DOMAIN accounts
        PROVE  /\ DriftOf(call[c], b) = IF b = a THEN -n ELSE 0
               /\ DriftOf(Cont(c), b) = 0
               /\ BookedOf(Cont(c), b) = 0 /\ BookedOf(call[c], b) = 0
    BY <1>1, <1>2, <1>3, DriftInt, UseEffect DEF Cont, Account1
  <1>7. Frame(c, Cont(c))
    BY AfterWrites
  <1>8. ASSUME NEW b \in DOMAIN accounts, allocs[i].live
        PROVE  LeftIn(AllocsOf(b))' = LeftIn(AllocsOf(b)) - (IF b = a THEN n ELSE 0)
    <2> DEFINE S == AllocsOf(b)
               f == [j \in DOMAIN allocs |-> Left(j)]
               g == [j \in DOMAIN allocs |-> Left(j)']
    <2>1. S = AllocsOf(b)' /\ IsFiniteSet(S) /\ S \subseteq DOMAIN allocs
      <3>1. S \in SUBSET DOMAIN allocs
        BY DEF AllocsOf
      <3> QED
        BY <1>3, <3>1, TypedTables, RowTypes, FS_Subset DEF AllocsOf
    <2>2. LeftIn(AllocsOf(b)) = SumFunctionOnSet(f, S)
      BY DEF LeftIn
    <2>3. LeftIn(AllocsOf(b))' = SumFunctionOnSet(g, S)
      BY <1>3, <2>1 DEF LeftIn
    <2>4. i \in S <=> a = b
      BY <1>3, <1>8 DEF AllocsOf
    <2>5. /\ \A j \in S : f[j] \in Int /\ g[j] \in Int
          /\ \A j \in S : j # i => g[j] = f[j]
          /\ i \in S => g[i] = f[i] - n
      BY <1>3, <1>8, <2>1
    <2> HIDE DEF S, f, g
    <2>6. CASE a = b
      <3>1. SumFunctionOnSet(g, S) = SumFunctionOnSet(f, S) + g[i] - f[i]
        BY <2>1, <2>4, <2>5, <2>6, SumReplace
      <3>2. SumFunctionOnSet(f, S) \in Int /\ g[i] = f[i] - n /\ f[i] \in Int
        BY <2>1, <2>4, <2>5, <2>6, SumInt
      <3> QED
        BY <1>3, <2>2, <2>3, <2>6, <3>1, <3>2
    <2>7. CASE a # b
      <3>1. SumFunctionOnSet(g, S) = SumFunctionOnSet(f, S) /\ SumFunctionOnSet(f, S) \in Int
        <4>1. \A j \in S : f[j] = g[j]
          BY <2>4, <2>5, <2>7
        <4> QED
          BY <2>1, <2>5, <4>1, SumSame, SumInt
      <3> QED
        BY <2>2, <2>3, <2>7, <3>1
    <2> QED
      BY <2>6, <2>7
  <1>9. ASSUME NEW b \in DOMAIN accounts PROVE Balanced(b)'
    <2>1. \A W \in {WhyDrift, WhyUnbooked} : Excused(b, W) => Excused(b, W)'
      BY <1>3, <1>7, ExcusesStay
    <2>2. \/ Excused(b, WhyDrift)'
          \/ Drift(b)' = Drift(b) + DriftOf(Cont(c), b) - DriftOf(call[c], b)
      <3>1. CASE allocs[i].live
        <4>1. Drift(b)' = accounts[b].balance - LeftIn(AllocsOf(b))'
          BY <1>1 DEF Drift
        <4> QED
          BY <1>3, <1>5, <1>8, <3>1, <4>1, DriftInt
      <3>2. CASE ~allocs[i].live
        <4>1. Drift(b)' = Drift(b)
          <5>1. AllocsOf(b)' = AllocsOf(b)
            BY <1>3 DEF AllocsOf
          <5>2. [j \in DOMAIN allocs |-> Left(j)]' = [j \in DOMAIN allocs |-> Left(j)]
            BY <1>3, <3>2
          <5>3. LeftIn(AllocsOf(b))' = LeftIn(AllocsOf(b))
            BY <5>1, <5>2 DEF LeftIn
          <5> QED
            BY <1>1, <5>3 DEF Drift
        <4>2. CASE b # a
          BY <1>5, <4>1, <4>2, DriftInt
        <4>3. CASE b = a
          <5>1. Excused(a, {"lost"})
            BY <1>3, <3>2 DEF AllocsInv
          <5>2. Excused(a, WhyDrift)
            BY <5>1 DEF Excused, WhyDrift
          <5> QED
            BY <2>1, <4>3, <5>2
        <4> QED
          BY <4>2, <4>3
      <3> QED
        BY <3>1, <3>2
    <2>3. ledger'[b] - accounts'[b].balance
            = ledger[b] - accounts[b].balance + BookedOf(Cont(c), b) - BookedOf(call[c], b)
      BY <1>1, <1>5, DriftInt
    <2> QED
      BY <1>2, <1>7, <2>1, <2>2, <2>3, BalanceStep DEF Balanced
  <1> QED
    BY <1>1, <1>9 DEF BalanceInv, Balanced, WhyDrift, WhyUnbooked

\* A deletion is at its user's rows until the last account is gone.
LEMMA DeletionRows ==
    ASSUME TypeOK, CallsSound, NEW c \in Calls, WriteDelete(c)
    PROVE  \E u : /\ u = call[c].user /\ call[c].kind = "delete"
                  /\ DOMAIN accounts' = DOMAIN accounts /\ DOMAIN allocs' = DOMAIN allocs
                  /\ \A a \in DOMAIN accounts : accounts[a].user = u => \A W : Excused(a, W)'
                  /\ \A a \in DOMAIN accounts : accounts[a].user # u =>
                        accounts'[a] = accounts[a] /\ ledger'[a] = ledger[a]
                  /\ \A i \in DOMAIN allocs : /\ allocs'[i].account = allocs[i].account
                                              /\ allocs'[i].amount = allocs[i].amount
                                              /\ allocs'[i].consumed = allocs[i].consumed
                                              /\ allocs'[i].expired = allocs[i].expired
                  /\ \A i \in DOMAIN allocs : accounts[allocs[i].account].user # u =>
                        allocs'[i] = allocs[i]
  <1>1. call[c].step = "run" /\ Head(Todo(c)).write \in {"del_allocs", "del_txns", "del_accounts"}
    BY DEF WriteDelete, Writing
  <1>2. call[c] \in Call /\ CallSound(call[c], accounts, allocs) /\ Todo(c) = call[c].todo
    BY <1>1, RunningCall
  <1>3. call[c].kind = "delete" /\ Todo(c) # <<>>
    BY <1>1, <1>2, TypedTables, HeadRow DEF Uses
  <1>4. Head(Todo(c)).write = "del_accounts" <=> Tail(Todo(c)) = <<>>
    BY <1>2, <1>3, DeleteHead DEF CallSound
  <1>5. Frame(c, Cont(c))
    BY AfterWrites
  <1>6. PICK u : u = call[c].user
    OBVIOUS
  <1>7. \/ /\ allocs' = [i \in DOMAIN allocs |->
                          IF accounts[allocs[i].account].user = u
                          THEN [allocs[i] EXCEPT !.live = FALSE] ELSE allocs[i]]
           /\ UNCHANGED <<accounts, ledger>>
           /\ Head(Todo(c)).write # "del_accounts"
        \/ /\ ledger' = [a \in DOMAIN ledger |-> IF accounts[a].user = u THEN 0 ELSE ledger[a]]
           /\ UNCHANGED <<accounts, allocs>>
           /\ Head(Todo(c)).write # "del_accounts"
        \/ /\ accounts' = [a \in DOMAIN accounts |->
                            IF accounts[a].user = u THEN [accounts[a] EXCEPT !.live = FALSE]
                            ELSE accounts[a]]
           /\ UNCHANGED <<ledger, allocs>>
    BY <1>6 DEF WriteDelete, Writing
  <1>8. /\ \A a \in DOMAIN accounts : accounts[a] \in Account
        /\ \A i \in DOMAIN allocs : allocs[i] \in Allocation
        /\ DOMAIN ledger = DOMAIN accounts
    BY TypedTables, RowTypes
  <1>9. ASSUME NEW a \in DOMAIN accounts, accounts[a].user = u, NEW W PROVE Excused(a, W)'
    <2>1. CASE Head(Todo(c)).write # "del_accounts"
      <3>1. Tail(Todo(c)) # <<>> /\ Tail(Todo(c)) \in Seq(Statement)
        BY <1>1, <1>2, <1>4, <2>1, RunKinds
      <3>2. Cont(c).kind = "delete" /\ Cont(c).user = u
        BY <1>2, <1>3, <1>6, <3>1, AdvanceFields DEF Cont
      <3>3. call'[c] = Cont(c)
        BY <1>5, TypedTables DEF Frame
      <3>4. accounts'[a].user = u
        BY <1>5, <1>9 DEF Frame, DataFrame, KeepsUsers
      <3> QED
        BY <3>2, <3>3, <3>4 DEF Excused, Deleting
    <2>2. CASE Head(Todo(c)).write = "del_accounts"
      <3>1. accounts'[a] = [accounts[a] EXCEPT !.live = FALSE]
        BY <1>7, <1>9, <2>2
      <3>2. ~accounts'[a].live
        BY <1>8, <3>1 DEF Account
      <3> QED
        BY <3>2 DEF Excused
    <2> QED
      BY <2>1, <2>2
  <1>10. /\ DOMAIN accounts' = DOMAIN accounts /\ DOMAIN allocs' = DOMAIN allocs
         /\ \A a \in DOMAIN accounts : accounts[a].user # u =>
               accounts'[a] = accounts[a] /\ ledger'[a] = ledger[a]
         /\ \A i \in DOMAIN allocs : accounts[allocs[i].account].user # u =>
               allocs'[i] = allocs[i]
    BY <1>7, <1>8
  <1>11. \A i \in DOMAIN allocs : /\ allocs'[i].account = allocs[i].account
                                  /\ allocs'[i].amount = allocs[i].amount
                                  /\ allocs'[i].consumed = allocs[i].consumed
                                  /\ allocs'[i].expired = allocs[i].expired
    <2> SUFFICES ASSUME NEW i \in DOMAIN allocs
                 PROVE  /\ allocs'[i].account = allocs[i].account
                        /\ allocs'[i].amount = allocs[i].amount
                        /\ allocs'[i].consumed = allocs[i].consumed
                        /\ allocs'[i].expired = allocs[i].expired
      OBVIOUS
    <2>1. allocs'[i] = allocs[i] \/ allocs'[i] = [allocs[i] EXCEPT !.live = FALSE]
      BY <1>7
    <2> QED
      BY <1>8, <2>1 DEF Allocation
  <1> QED
    BY <1>3, <1>6, <1>9, <1>10, <1>11

\* A deletion excuses the accounts it is at, until they are gone.
LEMMA DeleteBalance ==
    ASSUME TypeOK, CallsSound, BalanceInv, NEW c \in Calls, WriteDelete(c)
    PROVE  BalanceInv'
  <1>1. call[c].step = "run"
    BY DEF WriteDelete, Writing
  <1>2. /\ call[c] \in Call /\ CallSound(call[c], accounts, allocs) /\ Todo(c) = call[c].todo
        /\ Cont(c) \in Call
    BY <1>1, RunningCall DEF Cont
  <1>3. PICK u : /\ u = call[c].user /\ call[c].kind = "delete"
                 /\ DOMAIN accounts' = DOMAIN accounts /\ DOMAIN allocs' = DOMAIN allocs
                 /\ \A a \in DOMAIN accounts : accounts[a].user = u => \A W : Excused(a, W)'
                 /\ \A a \in DOMAIN accounts : accounts[a].user # u =>
                       accounts'[a] = accounts[a] /\ ledger'[a] = ledger[a]
                 /\ \A i \in DOMAIN allocs : allocs'[i].account = allocs[i].account
                 /\ \A i \in DOMAIN allocs : accounts[allocs[i].account].user # u =>
                       allocs'[i] = allocs[i]
    BY DeletionRows
  <1>4. Frame(c, Cont(c))
    BY AfterWrites
  <1>5. ASSUME NEW b \in DOMAIN accounts PROVE Balanced(b)'
    <2>1. CASE accounts[b].user = u
      BY <1>3, <2>1 DEF Balanced
    <2>2. CASE accounts[b].user # u
      <3>1. DriftOf(call[c], b) = 0 /\ DriftOf(Cont(c), b) = 0
            /\ BookedOf(Cont(c), b) = 0 /\ BookedOf(call[c], b) = 0
        BY <1>2, <1>3, DriftInt, DeleteEffect DEF Cont
      <3>2. Drift(b)' = Drift(b)
        <4> DEFINE S == AllocsOf(b)
                   f == [j \in DOMAIN allocs |-> Left(j)]
                   g == [j \in DOMAIN allocs |-> Left(j)']
        <4>1. \A j \in DOMAIN allocs : allocs[j].account = b => allocs'[j] = allocs[j]
          BY <1>3, <2>2
        <4>2. S = AllocsOf(b)' /\ IsFiniteSet(S)
          <5>1. S \in SUBSET DOMAIN allocs
            BY DEF AllocsOf
          <5> QED
            BY <1>3, <4>1, <5>1, TypedTables, RowTypes, FS_Subset DEF AllocsOf
        <4>3. \A j \in S : f[j] = g[j]
          BY <4>1 DEF AllocsOf, Left
        <4>4. LeftIn(AllocsOf(b)) = SumFunctionOnSet(f, S)
              /\ LeftIn(AllocsOf(b))' = SumFunctionOnSet(g, S)
          BY <1>3, <4>2 DEF LeftIn
        <4> HIDE DEF S, f, g
        <4>5. LeftIn(AllocsOf(b))' = LeftIn(AllocsOf(b))
          BY <4>2, <4>3, <4>4, SumSame
        <4> QED
          BY <1>3, <2>2, <4>5 DEF Drift
      <3>3. Drift(b)' = Drift(b) + DriftOf(Cont(c), b) - DriftOf(call[c], b)
        BY <3>1, <3>2, DriftInt
      <3>4. ledger'[b] - accounts'[b].balance
              = ledger[b] - accounts[b].balance + BookedOf(Cont(c), b) - BookedOf(call[c], b)
        BY <1>3, <2>2, <3>1, DriftInt
      <3>5. \A W \in {WhyDrift, WhyUnbooked} : Excused(b, W) => Excused(b, W)'
        BY <1>3, <1>4, <2>2, ExcusesStay
      <3> QED
        BY <1>2, <1>4, <3>3, <3>4, <3>5, BalanceStep DEF Balanced
    <2> QED
      BY <2>1, <2>2
  <1> QED
    BY <1>3, <1>5 DEF BalanceInv, Balanced, WhyDrift, WhyUnbooked

\* What a lost call leaves undone is excused at every account it touches.
LEMMA RaiseBalance ==
    ASSUME TypeOK, CallsSound, BalanceInv, NEW c \in Calls, StatementRaises(c)
    PROVE  BalanceInv'
  <1>1. call[c].step = "run" /\ UNCHANGED <<accounts, ledger, allocs>> /\ Excuse(Touched(c), "lost")
    BY DEF StatementRaises, books
  <1>2. /\ call[c] \in Call /\ CallSound(call[c], accounts, allocs)
        /\ Skip(c) \in Call /\ Idle \in Call /\ Idle.todo = <<>>
    BY <1>1, RunningCall, IdleSound DEF Skip
  <1>3. PICK k \in {Skip(c), Idle} : Frame(c, k)
    BY AfterWrites
  <1>4. k \in Call /\ \A b : DriftOf(k, b) = 0 /\ BookedOf(k, b) = 0
    BY <1>1, <1>2, SkipClean, NothingBetween
  <1>5. \A b \in DOMAIN accounts : b \in Touched(c) => "lost" \in excuse'[b]
    BY <1>1, ExcuseAdds DEF Excuses
  <1>6. ASSUME NEW b \in DOMAIN accounts PROVE Balanced(b)'
    <2>1. CASE b \in Touched(c)
      BY <1>5, <2>1 DEF Balanced, Excused, WhyDrift, WhyUnbooked
    <2>2. CASE b \notin Touched(c)
      <3>1. DriftOf(call[c], b) = 0 /\ BookedOf(call[c], b) = 0
        BY <1>1, <1>2, <2>2, DriftInt, TouchEffect
      <3>2. Drift(b)' = Drift(b)
        BY <1>1, SameDrift
      <3>3. Drift(b)' = Drift(b) + DriftOf(k, b) - DriftOf(call[c], b)
        BY <1>4, <3>1, <3>2, DriftInt
      <3>4. ledger'[b] - accounts'[b].balance
              = ledger[b] - accounts[b].balance + BookedOf(k, b) - BookedOf(call[c], b)
        BY <1>1, <1>4, <3>1, DriftInt
      <3>5. ~(call[c].kind = "delete" /\ call[c].user = accounts[b].user)
        BY <2>2 DEF Touched
      <3>6. \A W \in {WhyDrift, WhyUnbooked} : Excused(b, W) => Excused(b, W)'
        BY <1>3, <3>5, ExcusesStay
      <3> QED
        BY <1>3, <1>4, <3>3, <3>4, <3>6, BalanceStep DEF Balanced
    <2> QED
      BY <2>1, <2>2
  <1> QED
    BY <1>1, <1>6 DEF BalanceInv, Balanced, WhyDrift, WhyUnbooked

\* Every step keeps BalanceInv.
LEMMA StepBalance ==
    ASSUME TypeOK, CallsSound, BalanceInv, AllocsInv, NEW c \in Calls, Step(c)
    PROVE  BalanceInv'
  <1>1. Starting(c) \/ WritingStep(c)
    BY DEF Step, Starting, WritingStep
  <1> QED
    BY <1>1, StartBalance, TxnBalance, UpdateBalance, AllocBalance, BudgetBalance, UseBalance,
       DeleteBalance, RaiseBalance DEF WritingStep

-----------------------------------------------------------------------------
(* The rows of the allocations.                                            *)

\* A deleted allocation keeps the excuse it has.
LEMMA RowStays ==
    ASSUME TypeOK, AllocsInv, NEW c \in Calls, NEW k, Frame(c, k), NEW i \in DOMAIN allocs,
           allocs[i].live => allocs'[i].live,
           NEW a, a = allocs[i].account,
           call[c].kind = "delete" /\ call[c].user = accounts[a].user =>
              ~accounts'[a].live \/ excuse'[a] \cap {"lost"} # {}
    PROVE  allocs'[i].live \/ Excused(allocs[i].account, {"lost"})'
  <1>1. a \in DOMAIN accounts /\ allocs'[i].account = a
    BY DEF TypeOK, Frame, DataFrame, KeepsRows
  <1>2. allocs'[i].live \/ Excused(a, {"lost"})
    BY DEF AllocsInv
  <1>3. Excused(a, {"lost"}) => Excused(a, {"lost"})'
    BY <1>1, ExcusedStays
  <1> QED
    BY <1>1, <1>2, <1>3 DEF Excused, Deleting

\* Every step keeps AllocsInv.
LEMMA StepAllocs ==
    ASSUME TypeOK, CallsSound, AllocsInv, NEW c \in Calls, Step(c)
    PROVE  AllocsInv'
  <1>1. Starting(c) \/ WritingStep(c)
    BY DEF Step, Starting, WritingStep
  <1>2. CASE Starting(c)
    <2>1. call[c].kind # "delete" /\ \E k \in Call : Becomes(c, k)
      BY <1>2, Starts, TypedTables
    <2>2. PICK k \in Call : Frame(c, k)
      BY <1>2, <2>1, StartData DEF Becomes, Frame
    <2>3. allocs' = allocs
      BY <1>2 DEF Starting, Allocate, Open, Check, Transfer, Consume, Plan, Expire, Delete, books
    <2> QED
      BY <2>1, <2>2, <2>3, RowStays DEF AllocsInv
  <1>3. CASE WriteTxn(c) \/ WriteBalance(c) \/ WriteBudget(c)
    <2>1. allocs' = allocs /\ call[c].step = "run"
          /\ Head(Todo(c)).write \in {"txn", "balance", "budget"}
      BY <1>3 DEF WriteTxn, WriteBalance, WriteBudget, Writing
    <2>2. call[c].kind # "delete"
      BY <2>1, RunningCall, TypedTables, HeadRow
    <2>3. PICK k : Frame(c, k)
      BY <1>3, AfterWrites
    <2> QED
      BY <2>1, <2>2, <2>3, RowStays DEF AllocsInv
  <1>4. CASE WriteUse(c)
    <2>1. /\ call[c].kind # "delete" /\ DOMAIN allocs' = DOMAIN allocs
          /\ \A i \in DOMAIN allocs : allocs'[i].live = allocs[i].live
      BY <1>4, UseLeft
    <2>2. Frame(c, Cont(c))
      BY <1>4, AfterWrites
    <2> QED
      BY <2>1, <2>2, RowStays DEF AllocsInv
  <1>5. CASE WriteAlloc(c)
    <2>1. call[c].step = "run" /\ Head(Todo(c)).write = "alloc"
      BY <1>5 DEF WriteAlloc, Writing
    <2>2. call[c].kind # "delete"
      BY <2>1, RunningCall, TypedTables, HeadRow
    <2>3. PICK N \in Nat, row \in Allocation :
              /\ DOMAIN allocs = 1..N /\ DOMAIN allocs' = 1..(N + 1)
              /\ \A i \in 1..N : allocs'[i] = allocs[i]
              /\ allocs'[N + 1] = row /\ row.live
      BY <1>5, AllocData
    <2>4. Frame(c, Cont(c))
      BY <1>5, AfterWrites
    <2>5. \A i \in 1..N : allocs'[i].live \/ Excused(allocs[i].account, {"lost"})'
      BY <2>2, <2>3, <2>4, RowStays
    <2>6. \A i \in 1..(N + 1) : i \in 1..N \/ i = N + 1
      BY <2>3
    <2> QED
      BY <2>3, <2>5, <2>6 DEF AllocsInv
  <1>6. CASE WriteDelete(c)
    <2>1. PICK u : /\ u = call[c].user /\ DOMAIN allocs' = DOMAIN allocs
                   /\ \A a \in DOMAIN accounts : accounts[a].user = u => \A W : Excused(a, W)'
                   /\ \A i \in DOMAIN allocs : allocs'[i].account = allocs[i].account
                   /\ \A i \in DOMAIN allocs : accounts[allocs[i].account].user # u =>
                         allocs'[i] = allocs[i]
      BY <1>6, DeletionRows
    <2>2. Frame(c, Cont(c))
      BY <1>6, AfterWrites
    <2>3. ASSUME NEW i \in DOMAIN allocs
          PROVE  allocs'[i].live \/ Excused(allocs[i].account, {"lost"})'
      <3>1. PICK a \in DOMAIN accounts : a = allocs[i].account
        BY DEF TypeOK
      <3>2. CASE accounts[a].user = u
        <4>1. Excused(a, {"lost"})' /\ allocs'[i].account = a
          BY <2>1, <3>1, <3>2
        <4> QED
          BY <4>1 DEF Excused, Deleting
      <3>3. CASE accounts[a].user # u
        BY <2>1, <2>2, <3>1, <3>3, RowStays
      <3> QED
        BY <3>2, <3>3
    <2> QED
      BY <2>1, <2>3 DEF AllocsInv
  <1>7. CASE StatementRaises(c)
    <2>1. UNCHANGED <<accounts, allocs>> /\ Excuse(Touched(c), "lost")
      BY <1>7 DEF StatementRaises, books
    <2>2. PICK k : Frame(c, k)
      BY <1>7, AfterWrites
    <2>3. ASSUME NEW i \in DOMAIN allocs
          PROVE  allocs'[i].live \/ Excused(allocs[i].account, {"lost"})'
      <3>1. PICK a \in DOMAIN accounts : a = allocs[i].account
        BY DEF TypeOK
      <3>2. call[c].kind = "delete" /\ call[c].user = accounts[a].user => "lost" \in excuse'[a]
        BY <2>1, ExcuseAdds DEF Excuses, Touched
      <3> QED
        BY <2>1, <2>2, <3>1, <3>2, RowStays
    <2> QED
      BY <2>1, <2>3 DEF AllocsInv
  <1> QED
    BY <1>1, <1>2, <1>3, <1>4, <1>5, <1>6, <1>7 DEF WritingStep

-----------------------------------------------------------------------------
(* The uses of the allocations.                                            *)

\* A statement is about an allocation of the table, or about none.
LEMMA StatementAllocs ==
    ASSUME NEW k \in Call, NEW acc, NEW all, CallSound(k, acc, all), NEW j \in DOMAIN k.todo
    PROVE  \/ k.todo[j].alloc = 0 /\ k.todo[j].write \notin Uses
           \/ k.todo[j].alloc \in DOMAIN all
  <1>1. k.todo # <<>> /\ k.todo \in Seq(Statement)
    BY DEF Call
  <1>2. /\ k.step = "run"
        /\ k.kind \in {"allocate", "transfer", "delete", "consume", "expire"}
    <2>1. k.step = "run"
      BY <1>1 DEF CallSound, StepSound
    <2> QED
      BY <2>1, RunKinds
  <1>3. CASE k.kind = "allocate"
    <2>1. GrantShape(k, acc)
      BY <1>2, <1>3 DEF CallSound
    <2>2. PICK a : k.todo[j] = Do(GrantWrite(k, Len(k.todo) - j), a, k.n, 0)
      BY <2>1 DEF GrantShape
    <2> QED
      BY <2>2 DEF Do, GrantWrite, Uses
  <1>4. CASE k.kind = "transfer"
    <2>1. MoveShape(k, acc)
      BY <1>2, <1>4 DEF CallSound
    <2>2. k.todo[j].write \in {"txn", "balance"} /\ k.todo[j].alloc = 0
      BY <1>1, <2>1, MoveHead
    <2> QED
      BY <2>2 DEF Uses
  <1>5. CASE k.kind = "delete"
    BY <1>1, <1>5, DeleteHead DEF CallSound
  <1>6. CASE k.kind \in {"consume", "expire"}
    BY <1>6 DEF CallSound, PlanShape
  <1> QED
    BY <1>2, <1>3, <1>4, <1>5, <1>6

\* No allocation is used beyond what it has when that holds for those the call
\* of the step is going to use, and only what is not planned elsewhere changes.
LEMMA UseStep ==
    ASSUME TypeOK, CallsSound, UseInv, NEW c \in Calls, NEW k \in Call, Frame(c, k),
           CallSound(k, accounts, allocs),
           \A i \in DOMAIN allocs \ shared :
              /\ Left(i)' >= 0
              /\ Left(i)' = Left(i) \/ \A d \in Calls \ {c} : i \notin Planned(d),
           \A i \in DOMAIN allocs' \ DOMAIN allocs : Left(i)' >= 0,
           \A j \in DOMAIN k.todo : \A i \in DOMAIN allocs \ shared' : k.todo[j].alloc = i =>
              /\ k.todo[j].write \in Uses => k.todo[j].n <= Left(i)'
              /\ \A d \in Calls \ {c} : i \notin Planned(d)
    PROVE  UseInv'
  <1>1. call' = [call EXCEPT ![c] = k] /\ shared \subseteq shared' /\ call \in [Calls -> Call]
        /\ DOMAIN allocs \subseteq DOMAIN allocs'
    BY TypedTables DEF Frame, DataFrame, KeepsRows
  <1>2. call'[c] = k /\ \A d \in Calls : d # c => call'[d] = call[d]
    BY <1>1
  <1>3. \A d \in Calls : call'[d] \in Call /\ CallSound(call'[d], accounts, allocs)
    BY <1>1, <1>2 DEF CallsSound
  <1>4. \A d \in Calls : d # c => Planned(d)' = Planned(d)
    BY <1>2 DEF Planned
  <1>5. \A i : i \in Planned(c)' => i # 0 /\ \E j \in DOMAIN k.todo : k.todo[j].alloc = i
    BY <1>2 DEF Planned
  <1>6. \A d \in Calls : \A i : i \in Planned(d)' => i \in DOMAIN allocs
    <2> SUFFICES ASSUME NEW d \in Calls, NEW i, i \in Planned(d)' PROVE i \in DOMAIN allocs
      OBVIOUS
    <2>1. PICK j \in DOMAIN call'[d].todo : call'[d].todo[j].alloc = i /\ i # 0
      BY DEF Planned
    <2> QED
      BY <1>3, <2>1, StatementAllocs
  <1>7. \A d \in Calls : \A j \in DOMAIN call'[d].todo :
            call'[d].todo[j].write \in Uses => call'[d].todo[j].alloc \in DOMAIN allocs
    BY <1>3, StatementAllocs
  <1>8. 0 \notin DOMAIN allocs
    BY TypedTables, RowTypes
  <1>9. ASSUME NEW i \in DOMAIN allocs' \ shared'
        PROVE  /\ Left(i)' >= 0
               /\ \A d, e \in Calls : i \in Planned(d)' /\ i \in Planned(e)' => d = e
               /\ \A d \in Calls, j \in Nat :
                     j \in DOMAIN call'[d].todo /\ call'[d].todo[j].write \in Uses
                        /\ call'[d].todo[j].alloc = i => call'[d].todo[j].n <= Left(i)'
    <2>1. CASE i \notin DOMAIN allocs
      BY <1>6, <1>7, <1>9, <2>1
    <2>2. CASE i \in DOMAIN allocs
      <3>1. i \in DOMAIN allocs \ shared
        BY <1>1, <1>9, <2>2
      <3>2. /\ \A d, e \in Calls : i \in Planned(d) /\ i \in Planned(e) => d = e
            /\ \A d \in Calls, j \in Nat :
                  j \in DOMAIN call[d].todo /\ call[d].todo[j].write \in Uses
                     /\ call[d].todo[j].alloc = i => call[d].todo[j].n <= Left(i)
        BY <3>1 DEF UseInv, Todo
      <3>3. i \in Planned(c)' => \A d \in Calls \ {c} : i \notin Planned(d)
        BY <1>5, <1>9, <2>2
      <3>4. \A d, e \in Calls : i \in Planned(d)' /\ i \in Planned(e)' => d = e
        BY <1>4, <3>2, <3>3
      <3>5. ASSUME NEW d \in Calls, NEW j \in Nat, j \in DOMAIN call'[d].todo,
                   call'[d].todo[j].write \in Uses, call'[d].todo[j].alloc = i
            PROVE  call'[d].todo[j].n <= Left(i)'
        <4>1. CASE d = c
          BY <1>2, <1>9, <2>2, <3>5, <4>1
        <4>2. CASE d # c
          <5>1. call'[d] = call[d]
            BY <1>2, <4>2
          <5>2. i \in Planned(d)
            BY <1>8, <2>2, <3>5, <5>1 DEF Planned
          <5>3. Left(i)' = Left(i)
            BY <3>1, <4>2, <5>2
          <5> QED
            BY <3>2, <3>5, <5>1, <5>3
        <4> QED
          BY <4>1, <4>2
      <3> QED
        BY <3>1, <3>4, <3>5
    <2> QED
      BY <2>1, <2>2
  <1> QED
    BY <1>9 DEF UseInv, Todo

\* The same when nothing is used, and the call goes on with what it had to do.
LEMMA UseKept ==
    ASSUME TypeOK, CallsSound, UseInv, NEW c \in Calls, NEW k \in Call, Frame(c, k),
           CallSound(k, accounts, allocs),
           \A i \in DOMAIN allocs : Left(i)' = Left(i),
           \A i \in DOMAIN allocs' \ DOMAIN allocs : Left(i)' >= 0,
           \A j \in DOMAIN k.todo : \E m \in DOMAIN Todo(c) : k.todo[j] = Todo(c)[m]
    PROVE  UseInv'
  <1>1. shared \subseteq shared' /\ call[c] \in Call
    BY TypedTables DEF Frame, DataFrame
  <1>2. 0 \notin DOMAIN allocs
    BY TypedTables, RowTypes
  <1>3. DOMAIN Todo(c) \subseteq Nat
    <2>1. Todo(c) \in Seq(Statement)
      BY <1>1 DEF Call, Todo
    <2> QED
      BY <2>1, LenProperties
  <1>4. \A i \in DOMAIN allocs \ shared :
              /\ Left(i)' >= 0
              /\ Left(i)' = Left(i) \/ \A d \in Calls \ {c} : i \notin Planned(d)
    BY DEF UseInv
  <1>5. ASSUME NEW j \in DOMAIN k.todo, NEW i \in DOMAIN allocs \ shared', k.todo[j].alloc = i
        PROVE  /\ k.todo[j].write \in Uses => k.todo[j].n <= Left(i)'
               /\ \A d \in Calls \ {c} : i \notin Planned(d)
    <2>1. PICK m \in DOMAIN Todo(c) : k.todo[j] = Todo(c)[m]
      OBVIOUS
    <2>2. i \in DOMAIN allocs \ shared /\ Left(i)' = Left(i) /\ m \in Nat
      BY <1>1, <1>3
    <2>3. i \in Planned(c)
      BY <1>2, <1>5, <2>1 DEF Planned, Todo
    <2>4. /\ \A d, e \in Calls : i \in Planned(d) /\ i \in Planned(e) => d = e
          /\ Todo(c)[m].write \in Uses /\ Todo(c)[m].alloc = i => Todo(c)[m].n <= Left(i)
      BY <2>2 DEF UseInv
    <2> QED
      BY <1>5, <2>1, <2>2, <2>3, <2>4
  <1> QED
    BY <1>4, <1>5, UseStep

\* What is left of a call is among what it had to do.
LEMMA Remains ==
    ASSUME TypeOK, CallsSound, NEW c \in Calls, call[c].step = "run",
           NEW k \in {Cont(c), Skip(c), Idle}
    PROVE  /\ k \in Call /\ CallSound(k, accounts, allocs)
           /\ \A j \in DOMAIN k.todo : \E m \in DOMAIN Todo(c) : k.todo[j] = Todo(c)[m]
  <1>1. /\ call[c] \in Call /\ CallSound(call[c], accounts, allocs) /\ Todo(c) = call[c].todo
        /\ Cont(c).todo = Tail(Todo(c)) /\ Skip(c).todo = AfterError(c) /\ Idle.todo = <<>>
        /\ Cont(c) \in Call /\ CallSound(Cont(c), accounts, allocs)
        /\ Skip(c) \in Call /\ CallSound(Skip(c), accounts, allocs)
        /\ Idle \in Call /\ CallSound(Idle, accounts, allocs)
    BY RunningCall, IdleSound DEF Cont, Skip
  <1>2. Todo(c) \in Seq(Statement) /\ Todo(c) # <<>>
    BY <1>1, RunKinds
  <1>3. CASE k = Cont(c)
    <2>1. \A j \in DOMAIN Tail(Todo(c)) :
             Tail(Todo(c))[j] = Todo(c)[j + 1] /\ j + 1 \in DOMAIN Todo(c)
      BY <1>2, Rest
    <2> QED
      BY <1>1, <1>3, <2>1
  <1>4. CASE k = Skip(c)
    <2>1. \A j \in DOMAIN AfterError(c) : \E m \in DOMAIN Todo(c) : AfterError(c)[j] = Todo(c)[m]
      BY <1>1, SkipSound
    <2> QED
      BY <1>1, <1>4, <2>1
  <1>5. CASE k = Idle
    BY <1>1, <1>5
  <1> QED
    BY <1>3, <1>4, <1>5

\* Every step keeps UseInv.
LEMMA StepUses ==
    ASSUME TypeOK, CallsSound, UseInv, NEW c \in Calls, Step(c)
    PROVE  UseInv'
  <1>1. Starting(c) \/ WritingStep(c)
    BY DEF Step, Starting, WritingStep
  <1>2. CASE Starting(c)
    <2>1. PICK k \in Call : Becomes(c, k)
      BY <1>2, Starts, TypedTables
    <2>2. Frame(c, k) /\ CallSound(k, accounts, allocs)
      BY <1>2, <2>1, StartData DEF Becomes, Frame
    <2>3. allocs' = allocs
      BY <1>2 DEF Starting, Allocate, Open, Check, Transfer, Consume, Plan, Expire, Delete, books
    <2>4. \A i \in DOMAIN allocs : Left(i)' = Left(i)
      BY <2>3 DEF Left
    <2>5. \A i \in DOMAIN allocs \ shared : Left(i)' >= 0
      BY <2>4 DEF UseInv
    <2>6. 0 \notin DOMAIN allocs
      BY TypedTables, RowTypes
    <2>7. ASSUME NEW j \in DOMAIN k.todo, NEW i \in DOMAIN allocs \ shared', k.todo[j].alloc = i
          PROVE  /\ k.todo[j].write \in Uses => k.todo[j].n <= Left(i)'
                 /\ \A d \in Calls \ {c} : i \notin Planned(d)
      BY <2>1, <2>4, <2>6, <2>7 DEF Becomes, Fresh
    <2> QED
      BY <2>2, <2>3, <2>4, <2>5, <2>7, UseStep
  <1>3. CASE WriteTxn(c) \/ WriteBalance(c) \/ WriteBudget(c) \/ StatementRaises(c)
    <2>1. allocs' = allocs /\ call[c].step = "run"
      BY <1>3 DEF WriteTxn, WriteBalance, WriteBudget, StatementRaises, Writing, books
    <2>2. PICK k \in {Cont(c), Skip(c), Idle} : Frame(c, k)
      BY <1>3, AfterWrites
    <2>3. \A i \in DOMAIN allocs : Left(i)' = Left(i)
      BY <2>1 DEF Left
    <2> QED
      BY <2>1, <2>2, <2>3, Remains, UseKept
  <1>4. CASE WriteAlloc(c)
    <2>1. call[c].step = "run"
      BY <1>4 DEF WriteAlloc, Writing
    <2>2. PICK k \in {Cont(c), Skip(c), Idle} : Frame(c, k)
      BY <1>4, AfterWrites
    <2>3. PICK N \in Nat, row \in Allocation :
              /\ DOMAIN allocs = 1..N /\ DOMAIN allocs' = 1..(N + 1)
              /\ \A i \in 1..N : allocs'[i] = allocs[i]
              /\ allocs'[N + 1] = row /\ row.amount = call[c].n
              /\ row.consumed = 0 /\ row.expired = 0
      BY <1>4, AllocData
    <2>4. \A i \in DOMAIN allocs : Left(i)' = Left(i)
      BY <2>3 DEF Left
    <2>5. call[c].n \in Nat
      BY TypedTables DEF Call
    <2>6. ASSUME NEW i \in DOMAIN allocs' \ DOMAIN allocs PROVE Left(i)' >= 0
      <3>1. i = N + 1
        BY <2>3
      <3>2. allocs'[i] = row
        BY <2>3, <3>1
      <3> QED
        BY <2>3, <2>5, <3>2 DEF Left
    <2> QED
      BY <2>1, <2>2, <2>4, <2>6, Remains, UseKept
  <1>5. CASE WriteDelete(c)
    <2>1. call[c].step = "run"
      BY <1>5 DEF WriteDelete, Writing
    <2>2. PICK k \in {Cont(c), Skip(c), Idle} : Frame(c, k)
      BY <1>5, AfterWrites
    <2>3. /\ DOMAIN allocs' = DOMAIN allocs
          /\ \A i \in DOMAIN allocs : /\ allocs'[i].amount = allocs[i].amount
                                      /\ allocs'[i].consumed = allocs[i].consumed
                                      /\ allocs'[i].expired = allocs[i].expired
      BY <1>5, DeletionRows
    <2>4. \A i \in DOMAIN allocs : Left(i)' = Left(i)
      BY <2>3 DEF Left
    <2> QED
      BY <2>1, <2>2, <2>3, <2>4, Remains, UseKept
  <1>6. CASE WriteUse(c)
    <2>1. call[c].step = "run"
      BY <1>6 DEF WriteUse, Writing
    <2>2. PICK k \in Call : k = Cont(c) /\ Frame(c, k) /\ CallSound(k, accounts, allocs)
      BY <1>6, <2>1, AfterWrites, Remains
    <2>3. PICK i \in DOMAIN allocs, n \in Nat :
              /\ i = Head(Todo(c)).alloc /\ n = Head(Todo(c)).n
              /\ Head(Todo(c)).write \in Uses
              /\ DOMAIN allocs' = DOMAIN allocs
              /\ \A j \in DOMAIN allocs : Left(j) \in Int
              /\ \A j \in DOMAIN allocs :
                    Left(j)' = IF j = i /\ allocs[i].live THEN Left(j) - n ELSE Left(j)
      BY <1>6, UseLeft
    <2>4. /\ call[c] \in Call /\ CallSound(call[c], accounts, allocs) /\ Todo(c) = call[c].todo
          /\ k.todo = Tail(Todo(c))
      BY <2>1, <2>2, RunningCall DEF Cont
    <2>5. Todo(c) \in Seq(Statement) /\ Todo(c) # <<>>
      BY <2>1, <2>4, RunKinds
    <2>6. /\ 1 \in DOMAIN Todo(c) /\ Todo(c)[1] = Head(Todo(c)) /\ DOMAIN Todo(c) \subseteq Nat
          /\ \A j \in DOMAIN k.todo : k.todo[j] = Todo(c)[j + 1] /\ j + 1 \in DOMAIN Todo(c)
      BY <2>4, <2>5, Rest
    <2>7. \A j \in DOMAIN k.todo : k.todo[j].alloc # i
      <3>1. call[c].kind \in {"consume", "expire"}
        BY <2>1, <2>3, <2>4, TypedTables, HeadRow
      <3>2. PlanShape(call[c].todo, allocs)
        BY <2>4, <3>1 DEF CallSound
      <3>3. \A j \in DOMAIN Tail(Todo(c)) : Tail(Todo(c))[j].alloc # Head(Todo(c)).alloc
        BY <2>3, <2>4, <2>5, <3>2, PlanHead
      <3> QED
        BY <2>3, <2>4, <3>3
    <2>8. i # 0 /\ i \in Planned(c) /\ 0 \notin DOMAIN allocs
      <3>1. i # 0 /\ 0 \notin DOMAIN allocs
        BY TypedTables, RowTypes
      <3> QED
        BY <2>3, <2>6, <3>1 DEF Planned, Todo
    <2>9. shared \subseteq shared'
      BY <2>2 DEF Frame, DataFrame
    <2>10. ASSUME NEW j \in DOMAIN allocs \ shared
           PROVE  /\ Left(j)' >= 0
                  /\ Left(j)' = Left(j) \/ \A d \in Calls \ {c} : j \notin Planned(d)
      <3>1. Left(j) >= 0 /\ \A d, e \in Calls : j \in Planned(d) /\ j \in Planned(e) => d = e
        BY DEF UseInv
      <3>2. CASE j # i
        BY <2>3, <3>1, <3>2
      <3>3. CASE j = i
        <4>1. n <= Left(i)
          BY <2>3, <2>6, <3>3 DEF UseInv
        <4>2. Left(j)' >= 0
          BY <2>3, <3>1, <3>3, <4>1
        <4> QED
          BY <2>8, <3>1, <3>3, <4>2
      <3> QED
        BY <3>2, <3>3
    <2>11. ASSUME NEW j \in DOMAIN k.todo, NEW x \in DOMAIN allocs \ shared', k.todo[j].alloc = x
           PROVE  /\ k.todo[j].write \in Uses => k.todo[j].n <= Left(x)'
                  /\ \A d \in Calls \ {c} : x \notin Planned(d)
      <3>1. x \in DOMAIN allocs \ shared /\ x # i /\ Left(x)' = Left(x)
        BY <2>3, <2>7, <2>9, <2>11
      <3>2. j + 1 \in DOMAIN Todo(c) /\ j + 1 \in Nat /\ Todo(c)[j + 1] = k.todo[j]
        BY <2>6
      <3>3. x \in Planned(c)
        BY <2>8, <2>11, <3>2 DEF Planned, Todo
      <3>4. /\ \A d, e \in Calls : x \in Planned(d) /\ x \in Planned(e) => d = e
            /\ \A m \in Nat : m \in DOMAIN Todo(c) /\ Todo(c)[m].write \in Uses
                                 /\ Todo(c)[m].alloc = x => Todo(c)[m].n <= Left(x)
        BY <3>1 DEF UseInv
      <3> QED
        BY <2>11, <3>1, <3>2, <3>3, <3>4
    <2> QED
      BY <2>2, <2>3, <2>10, <2>11, UseStep
  <1> QED
    BY <1>1, <1>2, <1>3, <1>4, <1>5, <1>6 DEF WritingStep

-----------------------------------------------------------------------------
(* The campaigns.                                                          *)

\* What is to be charged changes by what the call of the step has to charge.
LEMMA ChargesMove ==
    ASSUME TypeOK, NEW c \in Calls, NEW x \in Call, call' = [call EXCEPT ![c] = x], NEW k
    PROVE  /\ ToCharge(k) \in Int /\ ChargeOf(x, k) \in Nat /\ ChargeOf(call[c], k) \in Nat
           /\ ToCharge(k)' = ToCharge(k) + ChargeOf(x, k) - ChargeOf(call[c], k)
  <1> DEFINE f == [d \in Calls |-> ChargeOf(call[d], k)]
             g == [d \in Calls |-> ChargeOf(call'[d], k)]
  <1>1. IsFiniteSet(Calls) /\ call \in [Calls -> Call]
    BY LedgerAssumption, TypedTables
  <1>2. call'[c] = x /\ \A d \in Calls : d # c => call'[d] = call[d]
    BY <1>1
  <1>3. \A y \in Call : ChargeOf(y, k) \in Nat
    BY DEF ChargeOf, Call
  <1>4. /\ \A d \in Calls : f[d] \in Int
        /\ g[c] \in Int /\ \A d \in Calls : d # c => g[d] = f[d]
        /\ f[c] = ChargeOf(call[c], k) /\ g[c] = ChargeOf(x, k)
    BY <1>1, <1>2, <1>3
  <1>5. ToCharge(k) = SumFunctionOnSet(f, Calls) /\ ToCharge(k)' = SumFunctionOnSet(g, Calls)
    BY DEF ToCharge
  <1> HIDE DEF f, g
  <1>6. SumFunctionOnSet(g, Calls) = SumFunctionOnSet(f, Calls) + g[c] - f[c]
    BY <1>1, <1>4, SumReplace
  <1>7. SumFunctionOnSet(f, Calls) \in Int
    BY <1>1, <1>4, SumInt
  <1> QED
    BY <1>1, <1>3, <1>4, <1>5, <1>6, <1>7

\* What a campaign granted is a number.
LEMMA GrantedInt ==
    ASSUME TypeOK, NEW k
    PROVE  Granted(k) \in Int /\ IsFiniteSet(GrantsOf(k)) /\ GrantsOf(k) \subseteq DOMAIN allocs
  <1>1. GrantsOf(k) \in SUBSET DOMAIN allocs
    BY DEF GrantsOf
  <1>2. IsFiniteSet(GrantsOf(k))
    BY <1>1, TypedTables, RowTypes, FS_Subset
  <1>3. \A i \in GrantsOf(k) : [j \in DOMAIN allocs |-> allocs[j].amount][i] \in Int
    BY <1>1, TypedTables, RowTypes DEF Allocation
  <1> QED
    BY <1>1, <1>2, <1>3, SumInt DEF Granted

\* What campaigns granted when no row is added.
LEMMA SameGrants ==
    ASSUME TypeOK, KeepsRows(allocs, allocs'), DOMAIN allocs' = DOMAIN allocs, NEW k
    PROVE  Granted(k)' = Granted(k) /\ GrantsOf(k)' = GrantsOf(k)
  <1>1. GrantsOf(k)' = GrantsOf(k)
    BY DEF GrantsOf, KeepsRows
  <1> DEFINE f == [j \in DOMAIN allocs |-> allocs[j].amount]
             g == [j \in DOMAIN allocs |-> allocs'[j].amount]
             S == GrantsOf(k)
  <1>2. IsFiniteSet(S) /\ S \subseteq DOMAIN allocs
    BY GrantedInt
  <1>3. \A i \in S : f[i] = g[i]
    BY <1>2 DEF KeepsRows
  <1>4. Granted(k) = SumFunctionOnSet(f, S) /\ Granted(k)' = SumFunctionOnSet(g, S)
    BY <1>1 DEF Granted
  <1> HIDE DEF f, g, S
  <1>5. SumFunctionOnSet(f, S) = SumFunctionOnSet(g, S)
    BY <1>2, <1>3, SumSame
  <1> QED
    BY <1>1, <1>4, <1>5

\* A campaign's row stays with its account and its excuses.
LEMMA GrantStays ==
    ASSUME TypeOK, NEW c \in Calls, NEW x, Frame(c, x), NEW k, NEW i \in GrantsOf(k)
    PROVE  /\ i \in GrantsOf(k)' /\ allocs'[i].account = allocs[i].account
           /\ \A W : excuse[allocs[i].account] \cap W # {} => excuse'[allocs'[i].account] \cap W # {}
  <1>1. i \in DOMAIN allocs /\ allocs[i].campaign = k
    BY DEF GrantsOf
  <1>2. allocs[i].account \in DOMAIN accounts
    BY <1>1 DEF TypeOK
  <1>3. i \in DOMAIN allocs' /\ allocs'[i].campaign = k /\ allocs'[i].account = allocs[i].account
    BY <1>1 DEF Frame, DataFrame, KeepsRows
  <1>4. excuse[allocs[i].account] \subseteq excuse'[allocs[i].account]
    BY <1>2 DEF Frame, DataFrame
  <1> QED
    BY <1>3, <1>4 DEF GrantsOf

\* Only after an allocation is there a budget to charge.
LEMMA BudgetAfterAlloc ==
    ASSUME NEW k \in Call, NEW acc, NEW all, CallSound(k, acc, all), k.step = "run",
           Tail(k.todo) # <<>>, Head(Tail(k.todo)).write = "budget"
    PROVE  Head(k.todo).write = "alloc"
  <1>1. k.todo # <<>> /\ k.kind \in {"allocate", "transfer", "delete", "consume", "expire"}
    BY RunKinds
  <1>2. CASE k.kind = "allocate"
    <2>1. GrantShape(k, acc)
      BY <1>2 DEF CallSound
    <2>2. LET h == Head(k.todo)  u == Tail(k.todo) IN
          /\ h.write \in {"txn", "balance", "alloc", "budget"}
          /\ h.write = "txn" => Head(u).write = "balance"
          /\ h.write = "balance" => Head(u).write = "alloc"
          /\ h.write = "budget" => u = <<>>
      BY <1>1, <2>1, GrantHead
    <2> QED
      BY <2>2
  <1>3. CASE k.kind = "transfer"
    <2>1. MoveShape(k, acc)
      BY <1>3 DEF CallSound
    <2>2. Tail(k.todo) # <<>> => Head(Tail(k.todo)).write \in {"txn", "balance"}
      BY <1>1, <2>1, MoveHead
    <2> QED
      BY <2>2
  <1>4. CASE k.kind = "delete"
    <2>1. k.todo \in Seq(Statement)
      BY DEF Call
    <2>2. \A j \in DOMAIN k.todo : k.todo[j].write # "budget"
      BY <1>1, <1>4, DeleteHead DEF CallSound
    <2>3. \A j \in DOMAIN Tail(k.todo) : Tail(k.todo)[j].write # "budget"
      BY <1>1, <2>1, <2>2, Rest
    <2>4. Tail(k.todo) \in Seq(Statement)
      BY <1>1, <2>1, Rest
    <2>5. Head(Tail(k.todo)) = Tail(k.todo)[1] /\ 1 \in DOMAIN Tail(k.todo)
      BY <2>4, Rest
    <2> QED
      BY <2>3, <2>5
  <1>5. CASE k.kind \in {"consume", "expire"}
    <2>1. PlanShape(k.todo, all)
      BY <1>5 DEF CallSound
    <2>2. LET h == Head(k.todo)  u == Tail(k.todo) IN
          /\ h.write \in {"txn", "balance"} \cup Uses
          /\ h.write = "txn" => Head(u).write = "balance"
          /\ h.write = "balance" => Head(u).write \in Uses
          /\ h.write \in Uses /\ u # <<>> => Head(u).write = "txn"
      BY <1>1, <2>1, PlanHead
    <2> QED
      BY <2>2 DEF Uses
  <1> QED
    BY <1>1, <1>2, <1>3, <1>4, <1>5

\* The two parts of CampaignInv, for a campaign and for a call.
CampaignPaid(k) ==
    /\ allocated[k] <= Budget[k]
    /\ allocated[k] + ToCharge(k) <= Granted(k)
    /\ \/ allocated[k] + ToCharge(k) = Granted(k)
       \/ \E i \in GrantsOf(k) : excuse[allocs[i].account] \cap {"overrun", "lost"} # {}
ChargesRow(c) ==
    Todo(c) # <<>> /\ Head(Todo(c)).write = "budget" =>
        \E i \in GrantsOf(call[c].campaign) : allocs[i].account = Head(Todo(c)).account

\* CampaignInv has a part per campaign and one per call.
LEMMA CampaignParts ==
    CampaignInv <=> (\A k \in Campaigns : CampaignPaid(k)) /\ (\A c \in Calls : ChargesRow(c))
  BY DEF CampaignInv, CampaignPaid, ChargesRow

\* A campaign is paid when what a step grants is charged or going to be, or
\* when it is an excuse for what is not.
LEMMA CampaignStep ==
    ASSUME TypeOK, CampaignInv, NEW c \in Calls, NEW x \in Call, Frame(c, x),
           allocated' \in [Campaigns -> Nat],
           NEW k \in Campaigns, NEW g \in Int, Granted(k)' = Granted(k) + g,
           allocated'[k] <= Budget[k],
           \/ allocated'[k] + ChargeOf(x, k) = allocated[k] + ChargeOf(call[c], k) + g
           \/ /\ allocated'[k] + ChargeOf(x, k) <= allocated[k] + ChargeOf(call[c], k) + g
              /\ \E i \in GrantsOf(k) : excuse'[allocs[i].account] \cap {"overrun", "lost"} # {}
    PROVE  CampaignPaid(k)'
  <1>1. /\ ToCharge(k) \in Int /\ ChargeOf(x, k) \in Nat /\ ChargeOf(call[c], k) \in Nat
        /\ ToCharge(k)' = ToCharge(k) + ChargeOf(x, k) - ChargeOf(call[c], k)
        /\ Granted(k) \in Int
    BY ChargesMove, GrantedInt DEF Frame
  <1>2. allocated[k] \in Nat /\ allocated'[k] \in Nat
    BY DEF TypeOK
  <1>3. CampaignPaid(k)
    BY CampaignParts
  <1>4. ASSUME NEW i \in GrantsOf(k), excuse'[allocs[i].account] \cap {"overrun", "lost"} # {}
        PROVE  \E j \in GrantsOf(k)' : excuse'[allocs'[j].account] \cap {"overrun", "lost"} # {}
    <2>1. i \in GrantsOf(k)' /\ allocs'[i].account = allocs[i].account
      BY GrantStays
    <2> QED
      BY <1>4, <2>1
  <1>5. (\E i \in GrantsOf(k) : excuse[allocs[i].account] \cap {"overrun", "lost"} # {})
          => \E j \in GrantsOf(k)' : excuse'[allocs'[j].account] \cap {"overrun", "lost"} # {}
    BY GrantStays
  <1>6. allocated'[k] + ToCharge(k)' <= Granted(k)'
    BY <1>1, <1>2, <1>3 DEF CampaignPaid
  <1>7. \/ allocated'[k] + ToCharge(k)' = Granted(k)'
        \/ \E j \in GrantsOf(k)' : excuse'[allocs'[j].account] \cap {"overrun", "lost"} # {}
    <2>1. CASE \E i \in GrantsOf(k) : excuse'[allocs[i].account] \cap {"overrun", "lost"} # {}
      BY <1>4, <2>1
    <2>2. CASE \E i \in GrantsOf(k) : excuse[allocs[i].account] \cap {"overrun", "lost"} # {}
      BY <1>5, <2>2
    <2>3. CASE /\ allocated[k] + ToCharge(k) = Granted(k)
               /\ allocated'[k] + ChargeOf(x, k) = allocated[k] + ChargeOf(call[c], k) + g
      BY <1>1, <1>2, <2>3
    <2> QED
      BY <1>3, <2>1, <2>2, <2>3 DEF CampaignPaid
  <1> QED
    BY <1>6, <1>7 DEF CampaignPaid

\* The rows that the other calls are going to charge stay.
LEMMA ChargesStay ==
    ASSUME TypeOK, CampaignInv, NEW c \in Calls, NEW x, Frame(c, x),
           NEW d \in Calls, d # c
    PROVE  ChargesRow(d)'
  <1>1. call'[d] = call[d]
    BY TypedTables DEF Frame
  <1>2. ChargesRow(d)
    BY CampaignParts
  <1>3. \A k : \A i \in GrantsOf(k) : i \in GrantsOf(k)' /\ allocs'[i].account = allocs[i].account
    BY GrantStays
  <1>4. PICK y : y = call[d]
    OBVIOUS
  <1>5. y.todo # <<>> /\ Head(y.todo).write = "budget" =>
            \E i \in GrantsOf(y.campaign) : allocs[i].account = Head(y.todo).account
    BY <1>2, <1>4 DEF ChargesRow, Todo
  <1>6. y.todo # <<>> /\ Head(y.todo).write = "budget" =>
            \E i \in GrantsOf(y.campaign)' : allocs'[i].account = Head(y.todo).account
    BY <1>3, <1>5
  <1>7. GrantsOf(y.campaign)' = {i \in DOMAIN allocs' : allocs'[i].campaign = y.campaign}
    BY DEF GrantsOf
  <1> QED
    BY <1>1, <1>4, <1>6, <1>7 DEF ChargesRow, Todo, GrantsOf

\* A step that neither grants nor charges.
LEMMA CampaignKept ==
    ASSUME TypeOK, CampaignInv, NEW c \in Calls, NEW x \in Call, Frame(c, x),
           DOMAIN allocs' = DOMAIN allocs, allocated' = allocated,
           call[c].todo # <<>> => Head(call[c].todo).write # "budget",
           x.todo # <<>> => Head(x.todo).write # "budget"
    PROVE  CampaignInv'
  <1>1. ASSUME NEW k \in Campaigns PROVE CampaignPaid(k)'
    <2>1. Granted(k)' = Granted(k) + 0
      BY SameGrants, GrantedInt DEF Frame, DataFrame
    <2>2. ChargeOf(x, k) = 0 /\ ChargeOf(call[c], k) = 0
      BY DEF ChargeOf
    <2>3. allocated' \in [Campaigns -> Nat] /\ allocated[k] \in Nat
      BY DEF TypeOK
    <2>4. allocated'[k] <= Budget[k]
      BY CampaignParts DEF CampaignPaid
    <2>5. allocated'[k] + ChargeOf(x, k) = allocated[k] + ChargeOf(call[c], k) + 0
      BY <2>2, <2>3
    <2> QED
      BY <2>1, <2>3, <2>4, <2>5, CampaignStep
  <1>2. ASSUME NEW d \in Calls PROVE ChargesRow(d)'
    <2>1. CASE d # c
      BY <2>1, ChargesStay
    <2>2. CASE d = c
      <3>1. call'[c] = x
        BY TypedTables DEF Frame
      <3> QED
        BY <2>2, <3>1 DEF ChargesRow, Todo
    <2> QED
      BY <2>1, <2>2
  <1> QED
    BY <1>1, <1>2 DEF CampaignInv, CampaignPaid, ChargesRow

\* A granted allocation is going to be charged.
LEMMA AllocCampaign ==
    ASSUME TypeOK, CallsSound, CampaignInv, NEW c \in Calls, WriteAlloc(c)
    PROVE  CampaignInv'
  <1>1. call[c].step = "run" /\ Head(Todo(c)).write = "alloc" /\ allocated' = allocated
    BY DEF WriteAlloc, Writing
  <1>2. /\ call[c] \in Call /\ CallSound(call[c], accounts, allocs) /\ Todo(c) = call[c].todo
    BY <1>1, RunningCall
  <1>3. PICK x \in Call : x = Cont(c) /\ Frame(c, x) /\ x.todo = Tail(Todo(c))
    BY <1>1, AfterWrites, RunningCall DEF Cont
  <1>4. PICK K \in Campaigns \cup {NoCampaign}, n \in Nat, a \in {Account1(c)} :
            /\ K = call[c].campaign /\ n = call[c].n /\ a = Account1(c)
    BY <1>2 DEF Call
  <1>5. PICK N \in Nat, row \in Allocation :
            /\ DOMAIN allocs = 1..N /\ DOMAIN allocs' = 1..(N + 1)
            /\ \A i \in 1..N : allocs'[i] = allocs[i]
            /\ allocs'[N + 1] = row
            /\ row.account = a /\ row.campaign = K /\ row.amount = n
    BY <1>4, AllocData
  <1>6. call[c].kind = "allocate" /\ Todo(c) # <<>> /\ Tail(Todo(c)) \in Seq(Statement)
    BY <1>1, <1>2, TypedTables, HeadRow, RunKinds
  <1>7. IF K = NoCampaign THEN x.todo = <<>>
        ELSE /\ x.todo # <<>> /\ Head(x.todo).write = "budget" /\ Head(x.todo).account = a
             /\ x.campaign = K /\ x.n = n
    <2>1. GrantShape(call[c], accounts)
      BY <1>1, <1>2, <1>6 DEF CallSound
    <2>2. IF K = NoCampaign THEN x.todo = <<>>
          ELSE x.todo # <<>> /\ Head(x.todo).write = "budget" /\ Head(x.todo).account = a
      BY <1>1, <1>2, <1>3, <1>4, <1>6, <2>1, GrantHead DEF Account1
    <2>3. x.todo # <<>> => x.campaign = K /\ x.n = n
      BY <1>2, <1>3, <1>4, <1>6, AdvanceFields DEF Cont
    <2> QED
      BY <2>2, <2>3
  <1>8. ASSUME NEW k \in Campaigns
        PROVE  Granted(k)' = Granted(k) + (IF k = K THEN n ELSE 0)
    <2> DEFINE S == {i \in 1..N : allocs[i].campaign = k}
               f == [i \in 1..N |-> allocs[i].amount]
               g == [i \in 1..(N + 1) |-> allocs'[i].amount]
    <2>1. \A i \in 1..(N + 1) : i \in 1..N \/ i = N + 1
      BY <1>5
    <2>2. 1..N \subseteq 1..(N + 1) /\ N + 1 \in 1..(N + 1) /\ N + 1 \notin 1..N
      BY <1>5
    <2>3. GrantsOf(k) = S /\ GrantsOf(k)' = (IF k = K THEN S \cup {N + 1} ELSE S)
      BY <1>5, <2>1, <2>2 DEF GrantsOf
    <2>4. Granted(k) = SumFunctionOnSet(f, S) /\ Granted(k)' = SumFunctionOnSet(g, GrantsOf(k)')
      BY <1>5, <2>3 DEF Granted
    <2>5. \A i \in S : f[i] = g[i]
      BY <1>5, <2>2
    <2>6. \A i \in S : f[i] \in Int
      <3>1. \A i \in 1..N : allocs[i] \in Allocation
        BY <1>5, TypedTables, RowTypes
      <3> QED
        BY <3>1 DEF Allocation
    <2>7. g[N + 1] = n /\ N + 1 \notin S
      BY <1>5, <2>2
    <2>8. IsFiniteSet(S)
      BY <2>3, GrantedInt
    <2> HIDE DEF S, f, g
    <2>9. SumFunctionOnSet(g, S) = SumFunctionOnSet(f, S) /\ SumFunctionOnSet(f, S) \in Int
      BY <2>5, <2>6, <2>8, SumSame, SumInt
    <2>10. SumFunctionOnSet(g, S \cup {N + 1}) = SumFunctionOnSet(g, S) + n
      <3>1. \A i \in S \cup {N + 1} : g[i] \in Int
        BY <2>5, <2>6, <2>7
      <3> QED
        BY <2>7, <2>8, <3>1, SumAdd
    <2> QED
      BY <2>3, <2>4, <2>9, <2>10
  <1>9. ASSUME NEW k \in Campaigns PROVE CampaignPaid(k)'
    <2>0. PICK g \in Int : g = (IF k = K THEN n ELSE 0)
      OBVIOUS
    <2>1. Granted(k)' = Granted(k) + g
      BY <1>8, <2>0
    <2>2. ChargeOf(call[c], k) = 0
      BY <1>1, <1>2 DEF ChargeOf
    <2>3. ChargeOf(x, k) = g
      BY <1>7, <2>0, LedgerAssumption DEF ChargeOf
    <2>4. allocated' \in [Campaigns -> Nat] /\ allocated[k] \in Nat
      BY <1>1 DEF TypeOK
    <2>5. allocated'[k] <= Budget[k]
      BY <1>1, CampaignParts DEF CampaignPaid
    <2>6. allocated'[k] + ChargeOf(x, k) = allocated[k] + ChargeOf(call[c], k) + g
      BY <1>1, <2>2, <2>3, <2>4
    <2> QED
      BY <1>3, <2>1, <2>4, <2>5, <2>6, CampaignStep
  <1>10. ASSUME NEW d \in Calls PROVE ChargesRow(d)'
    <2>1. CASE d # c
      BY <1>3, <2>1, ChargesStay
    <2>2. CASE d = c
      <3>1. call'[c] = x
        BY <1>3, TypedTables DEF Frame
      <3>2. N + 1 \in DOMAIN allocs' /\ allocs'[N + 1].campaign = K /\ allocs'[N + 1].account = a
        BY <1>5
      <3>3. N + 1 \in GrantsOf(K)'
        BY <3>2 DEF GrantsOf
      <3>4. x.todo # <<>> => x.campaign = K /\ Head(x.todo).account = a
        BY <1>7
      <3> QED
        BY <2>2, <3>1, <3>2, <3>4 DEF ChargesRow, Todo, GrantsOf
    <2> QED
      BY <2>1, <2>2
  <1> QED
    BY <1>9, <1>10 DEF CampaignInv, CampaignPaid, ChargesRow

\* What is before a charge, and what comes after it.
LEMMA BudgetHead ==
    ASSUME TypeOK, CallsSound, CampaignInv, NEW c \in Calls, call[c].step = "run",
           Head(Todo(c)).write = "budget"
    PROVE  \E K \in Campaigns, n \in Nat, a \in DOMAIN accounts :
              /\ K = call[c].campaign /\ n = call[c].n /\ a = Account1(c)
              /\ Head(Todo(c)).n = n /\ call[c].kind = "allocate"
              /\ Cont(c) = Idle
              /\ \A k \in Campaigns : ChargeOf(call[c], k) = IF k = K THEN n ELSE 0
              /\ \E i \in GrantsOf(K) : allocs[i].account = a
  <1>1. call[c] \in Call /\ CallSound(call[c], accounts, allocs) /\ Todo(c) = call[c].todo
    BY RunningCall
  <1>2. /\ Todo(c) # <<>> /\ call[c].kind = "allocate" /\ Head(Todo(c)).n = call[c].n
        /\ call[c].campaign \in Campaigns /\ Account1(c) \in DOMAIN accounts
    BY <1>1, TypedTables, HeadRow DEF Account1
  <1>3. Tail(Todo(c)) = <<>>
    <2>1. GrantShape(call[c], accounts)
      BY <1>1, <1>2 DEF CallSound
    <2> QED
      BY <1>1, <1>2, <2>1, GrantHead
  <1>4. Cont(c) = Idle
    BY <1>3 DEF Cont, Advance
  <1>5. call[c].n \in Nat
    BY <1>1 DEF Call
  <1>6. \A k \in Campaigns : ChargeOf(call[c], k) = IF k = call[c].campaign THEN call[c].n ELSE 0
    BY <1>1, <1>2 DEF ChargeOf
  <1>7. \E i \in GrantsOf(call[c].campaign) : allocs[i].account = Account1(c)
    BY <1>2, CampaignParts DEF ChargesRow, Account1
  <1> QED
    BY <1>2, <1>4, <1>5, <1>6, <1>7

\* A charge that does not fit, or that is never made, is excused at the row.
LEMMA BudgetCampaign ==
    ASSUME TypeOK, CallsSound, CampaignInv, NEW c \in Calls,
           WriteBudget(c) \/ (StatementRaises(c) /\ Head(Todo(c)).write = "budget")
    PROVE  CampaignInv'
  <1>1. call[c].step = "run" /\ Head(Todo(c)).write = "budget" /\ allocs' = allocs
    BY DEF WriteBudget, StatementRaises, Writing, books
  <1>2. PICK K \in Campaigns, n \in Nat, a \in DOMAIN accounts :
            /\ K = call[c].campaign /\ n = call[c].n /\ a = Account1(c)
            /\ Head(Todo(c)).n = n /\ call[c].kind = "allocate"
            /\ Cont(c) = Idle
            /\ \A k \in Campaigns : ChargeOf(call[c], k) = IF k = K THEN n ELSE 0
            /\ \E i \in GrantsOf(K) : allocs[i].account = a
    BY <1>1, BudgetHead
  <1>3. Idle \in Call /\ Idle.todo = <<>> /\ Frame(c, Idle)
    <2>1. Skip(c) = Idle
      BY <1>2 DEF Skip, AfterError, Advance
    <2> QED
      BY <1>2, <2>1, AfterWrites, IdleSound
  <1>4. /\ allocated' \in [Campaigns -> Nat] /\ allocated \in [Campaigns -> Nat]
        /\ Budget \in [Campaigns -> Nat]
        /\ \A k \in Campaigns : k # K => allocated'[k] = allocated[k]
        /\ \/ allocated'[K] = allocated[K] + n /\ allocated'[K] <= Budget[K]
           \/ allocated'[K] = allocated[K] /\ excuse'[a] \cap {"overrun", "lost"} # {}
    <2>1. allocated \in [Campaigns -> Nat] /\ Budget \in [Campaigns -> Nat]
      BY LedgerAssumption DEF TypeOK
    <2>2. CASE allocated' = [allocated EXCEPT ![K] = @ + n] /\ Fits(K, n)
      BY <2>1, <2>2 DEF Fits
    <2>3. CASE allocated' = allocated /\ Excuse({a}, "overrun")
      BY <2>1, <2>3, ExcuseAdds DEF Excuses
    <2>4. CASE allocated' = allocated /\ Excuse(Touched(c), "lost")
      <3>1. Todo(c) \in Seq(Statement) /\ Todo(c) # <<>>
        BY <1>1, RunningCall, RunKinds
      <3>2. Head(Todo(c)) = Todo(c)[1] /\ 1 \in DOMAIN Todo(c)
        BY <3>1, Rest
      <3>3. a \in Touched(c)
        BY <1>2, <3>2 DEF Touched, Account1, Range
      <3> QED
        BY <2>1, <2>4, <3>3, ExcuseAdds DEF Excuses
    <2> QED
      BY <1>2, <2>2, <2>3, <2>4 DEF WriteBudget, StatementRaises, books
  <1>5. ASSUME NEW k \in Campaigns PROVE CampaignPaid(k)'
    <2>1. Granted(k)' = Granted(k) + 0
      BY <1>1, <1>3, SameGrants, GrantedInt DEF Frame, DataFrame
    <2>2. ChargeOf(Idle, k) = 0
      BY <1>3 DEF ChargeOf
    <2>3. allocated[k] <= Budget[k]
      BY CampaignParts DEF CampaignPaid
    <2>4. CASE k # K
      <3>1. allocated'[k] + ChargeOf(Idle, k) = allocated[k] + ChargeOf(call[c], k) + 0
        BY <1>2, <1>4, <2>2, <2>4
      <3> QED
        BY <1>3, <1>4, <2>1, <2>3, <2>4, <3>1, CampaignStep
    <2>5. CASE k = K /\ allocated'[K] = allocated[K] + n /\ allocated'[K] <= Budget[K]
      <3>1. allocated'[k] + ChargeOf(Idle, k) = allocated[k] + ChargeOf(call[c], k) + 0
        BY <1>2, <1>4, <2>2, <2>5
      <3> QED
        BY <1>3, <1>4, <2>1, <2>5, <3>1, CampaignStep
    <2>6. CASE k = K /\ allocated'[K] = allocated[K] /\ excuse'[a] \cap {"overrun", "lost"} # {}
      <3>1. allocated'[k] + ChargeOf(Idle, k) <= allocated[k] + ChargeOf(call[c], k) + 0
        BY <1>2, <1>4, <2>2, <2>6
      <3>2. \E i \in GrantsOf(k) : excuse'[allocs[i].account] \cap {"overrun", "lost"} # {}
        BY <1>2, <2>6
      <3>3. allocated'[k] <= Budget[k]
        BY <2>3, <2>6
      <3>4. \/ allocated'[k] + ChargeOf(Idle, k) = allocated[k] + ChargeOf(call[c], k) + 0
            \/ /\ allocated'[k] + ChargeOf(Idle, k) <= allocated[k] + ChargeOf(call[c], k) + 0
               /\ \E i \in GrantsOf(k) : excuse'[allocs[i].account] \cap {"overrun", "lost"} # {}
        BY <3>1, <3>2
      <3>5. allocated' \in [Campaigns -> Nat] /\ 0 \in Int
        BY <1>4
      <3> QED
        BY <1>3, <2>1, <3>3, <3>4, <3>5, CampaignStep
    <2> QED
      BY <1>4, <2>4, <2>5, <2>6
  <1>6. ASSUME NEW d \in Calls PROVE ChargesRow(d)'
    <2>1. CASE d # c
      BY <1>3, <2>1, ChargesStay
    <2>2. CASE d = c
      <3>1. call'[c] = Idle
        BY <1>3, TypedTables DEF Frame
      <3> QED
        BY <1>3, <2>2, <3>1 DEF ChargesRow, Todo
    <2> QED
      BY <2>1, <2>2
  <1> QED
    BY <1>5, <1>6 DEF CampaignInv, CampaignPaid, ChargesRow

\* Every step keeps CampaignInv.
LEMMA StepCampaigns ==
    ASSUME TypeOK, CallsSound, CampaignInv, NEW c \in Calls, Step(c)
    PROVE  CampaignInv'
  <1>1. CASE Starting(c)
    <2>1. PICK k \in Call : Becomes(c, k) /\ call[c].todo = <<>>
      BY <1>1, Starts, TypedTables
    <2>2. Frame(c, k) /\ (k.todo # <<>> => Head(k.todo).write # "budget")
      BY <1>1, <2>1, StartData DEF Becomes, Frame, Clean
    <2>3. allocs' = allocs /\ allocated' = allocated
      BY <1>1 DEF Starting, Allocate, Open, Check, Transfer, Consume, Plan, Expire, Delete, books
    <2> QED
      BY <2>1, <2>2, <2>3, CampaignKept
  <1>2. CASE WriteAlloc(c)
    BY <1>2, AllocCampaign
  <1>3. CASE WriteBudget(c) \/ (StatementRaises(c) /\ Head(Todo(c)).write = "budget")
    BY <1>3, BudgetCampaign
  <1>4. CASE \/ WriteTxn(c) \/ WriteBalance(c) \/ WriteUse(c) \/ WriteDelete(c)
             \/ StatementRaises(c) /\ Head(Todo(c)).write # "budget"
    <2>1. call[c].step = "run" /\ Head(Todo(c)).write # "budget" /\ allocated' = allocated
      BY <1>4 DEF WriteTxn, WriteBalance, WriteUse, WriteDelete, StatementRaises, Writing, books
    <2>2. DOMAIN allocs' = DOMAIN allocs
      BY <1>4, UseData, DeletionRows DEF WriteTxn, WriteBalance, StatementRaises, books
    <2>3. /\ call[c] \in Call /\ CallSound(call[c], accounts, allocs) /\ Todo(c) = call[c].todo
          /\ Cont(c).todo = Tail(Todo(c)) /\ Skip(c).todo = AfterError(c) /\ Idle.todo = <<>>
      BY <2>1, RunningCall, IdleSound DEF Cont, Skip
    <2>4. /\ Idle.todo # <<>> => Head(Idle.todo).write # "budget"
          /\ Skip(c).todo # <<>> => Head(Skip(c).todo).write # "budget"
      BY <2>1, <2>3, SkipSound
    <2>5. PICK x \in {Cont(c), Skip(c), Idle} :
              Frame(c, x) /\ (x.todo # <<>> => Head(x.todo).write # "budget")
      <3>1. CASE StatementRaises(c)
        BY <2>4, <3>1, AfterWrites
      <3>2. CASE WriteTxn(c) \/ WriteBalance(c) \/ WriteUse(c) \/ WriteDelete(c)
        <4>1. Head(Todo(c)).write # "alloc"
          BY <3>2 DEF WriteTxn, WriteBalance, WriteUse, WriteDelete, Writing
        <4>2. Cont(c).todo # <<>> => Head(Cont(c).todo).write # "budget"
          BY <2>1, <2>3, <4>1, BudgetAfterAlloc
        <4> QED
          BY <2>4, <3>2, <4>2, AfterWrites
      <3> QED
        BY <1>4, <3>1, <3>2
    <2>6. x \in Call
      BY <2>1, <2>5, Remains
    <2> QED
      BY <2>1, <2>2, <2>3, <2>4, <2>5, <2>6, CampaignKept
  <1> QED
    BY <1>1, <1>2, <1>3, <1>4 DEF Step, Starting

-----------------------------------------------------------------------------
(* The invariant, and the properties that follow from it.                  *)

\* LedgerInv holds initially ...
LEMMA InitLedger ==
    ASSUME Init
    PROVE  LedgerInv
  <1>0. /\ Idle \in Call /\ \A acc, all : CallSound(Idle, acc, all)
        /\ Idle.todo = <<>> /\ Idle.kind = "none"
    BY IdleSound
  <1>1. TypeOK
    BY <1>0, LedgerAssumption DEF Init, TypeOK
  <1>2. CallsSound
    BY <1>0 DEF Init, CallsSound
  <1>3. DOMAIN accounts = {} /\ DOMAIN allocs = {}
    BY DEF Init
  <1>4. BalanceInv /\ AllocsInv /\ UseInv
    BY <1>3 DEF BalanceInv, AllocsInv, UseInv
  <1>5. \A c \in Calls : call[c] = Idle
    BY DEF Init
  <1>6. ASSUME NEW k \in Campaigns PROVE CampaignPaid(k)
    <2>1. GrantsOf(k) = {}
      BY <1>3 DEF GrantsOf
    <2>2. Granted(k) = 0
      BY <2>1, SumEmpty DEF Granted
    <2>3. ToCharge(k) = 0
      <3> DEFINE f == [c \in Calls |-> ChargeOf(call[c], k)]
      <3>1. \A c \in Calls : f[c] = 0
        BY <1>0, <1>5 DEF ChargeOf
      <3>2. ToCharge(k) = SumFunctionOnSet(f, Calls) /\ IsFiniteSet(Calls)
        BY LedgerAssumption DEF ToCharge
      <3> HIDE DEF f
      <3> QED
        BY <3>1, <3>2, SumZero
    <2>4. allocated[k] = 0 /\ Budget[k] \in Nat
      BY LedgerAssumption DEF Init
    <2> QED
      BY <2>2, <2>3, <2>4 DEF CampaignPaid
  <1>7. \A c \in Calls : ChargesRow(c)
    BY <1>0, <1>5 DEF ChargesRow, Todo
  <1>8. CampaignInv
    BY <1>6, <1>7, CampaignParts
  <1> QED
    BY <1>1, <1>2, <1>4, <1>8 DEF LedgerInv

\* The passing of time changes no record.
LEMMA TickLedger ==
    ASSUME LedgerInv, UNCHANGED <<books, call, ghosts, ops, faults>>, now' \in 0..Never
    PROVE  LedgerInv'
  <1>1. UNCHANGED <<accounts, ledger, allocs, allocated, call, shared, excuse, ops, faults>>
    BY DEF books, ghosts
  <1>2. TypeOK'
    BY <1>1 DEF LedgerInv, TypeOK
  <1>3. CallsSound'
    BY <1>1 DEF LedgerInv, CallsSound
  <1>4. BalanceInv'
    BY <1>1 DEF LedgerInv, BalanceInv, Excused, Deleting, Drift, Drifting, Booked, LeftIn,
                AllocsOf, Left
  <1>5. AllocsInv'
    BY <1>1 DEF LedgerInv, AllocsInv, Excused, Deleting
  <1>6. UseInv'
    BY <1>1 DEF LedgerInv, UseInv, Left, Planned, Todo
  <1>7. CampaignInv'
    <2>1. ASSUME NEW k \in Campaigns PROVE CampaignPaid(k)'
      <3>1. /\ Granted(k)' = Granted(k) /\ GrantsOf(k)' = GrantsOf(k)
            /\ ToCharge(k)' = ToCharge(k)
        BY <1>1 DEF Granted, GrantsOf, ToCharge
      <3>2. CampaignPaid(k)
        BY CampaignParts DEF LedgerInv
      <3> QED
        BY <1>1, <3>1, <3>2 DEF CampaignPaid
    <2>2. ASSUME NEW c \in Calls PROVE ChargesRow(c)'
      <3>1. ChargesRow(c)
        BY CampaignParts DEF LedgerInv
      <3> QED
        BY <1>1, <3>1 DEF ChargesRow, Todo, GrantsOf
    <2> QED
      BY <2>1, <2>2 DEF CampaignInv, CampaignPaid, ChargesRow
  <1> QED
    BY <1>2, <1>3, <1>4, <1>5, <1>6, <1>7 DEF LedgerInv

\* ... and every step keeps it.
LEMMA NextLedger ==
    ASSUME LedgerInv, [Next]_vars
    PROVE  LedgerInv'
  <1>1. CASE UNCHANGED vars
    <2>1. UNCHANGED <<books, call, ghosts, ops, faults>> /\ now' \in 0..Never
      BY <1>1 DEF vars, books, ghosts, LedgerInv, TypeOK
    <2> QED
      BY <2>1, TickLedger
  <1>2. CASE Tick
    <2>1. UNCHANGED <<books, call, ghosts, ops, faults>> /\ now' \in 0..Never
      BY <1>2, LedgerAssumption DEF Tick, LedgerInv, TypeOK
    <2> QED
      BY <2>1, TickLedger
  <1>3. CASE \E c \in Calls : Step(c)
    BY <1>3, StepKeepsTypes, StepBalance, StepAllocs, StepUses, StepCampaigns DEF LedgerInv
  <1> QED
    BY <1>1, <1>2, <1>3 DEF Next

\* What the records of accounts, allocations, transactions and campaigns owe
\* to each other, and to the calls that are at them.
THEOREM LedgerKept == Spec => []LedgerInv
  <1>1. Init => LedgerInv
    BY InitLedger
  <1>2. LedgerInv /\ [Next]_vars => LedgerInv'
    BY NextLedger
  <1> QED
    BY <1>1, <1>2, PTL DEF Spec

\* Nothing is between two records of an account no call is at.
LEMMA NotBusy ==
    ASSUME TypeOK, CallsSound, NEW a \in DOMAIN accounts, ~Busy(a)
    PROVE  Drifting(a) = 0 /\ Booked(a) = 0 /\ ~Deleting(a)
  <1>1. \A c \in Calls : a \notin Touched(c)
    BY DEF Busy
  <1>2. a \in Nat \ {0}
    BY DriftInt
  <1>3. ASSUME NEW c \in Calls PROVE DriftOf(call[c], a) = 0 /\ BookedOf(call[c], a) = 0
    <2>1. call[c] \in Call /\ CallSound(call[c], accounts, allocs)
      BY TypedTables DEF CallsSound
    <2>2. CASE call[c].step = "run"
      BY <1>1, <1>2, <2>1, <2>2, TouchEffect
    <2>3. CASE call[c].step # "run"
      <3>1. call[c].todo = <<>>
        BY <2>1, <2>3 DEF CallSound, StepSound
      <3> QED
        BY <3>1, NothingBetween
    <2> QED
      BY <2>2, <2>3
  <1>4. Drifting(a) = 0 /\ Booked(a) = 0
    <2> DEFINE f == [c \in Calls |-> DriftOf(call[c], a)]
               g == [c \in Calls |-> BookedOf(call[c], a)]
    <2>1. \A c \in Calls : f[c] = 0 /\ g[c] = 0
      BY <1>3
    <2>2. Drifting(a) = SumFunctionOnSet(f, Calls) /\ Booked(a) = SumFunctionOnSet(g, Calls)
          /\ IsFiniteSet(Calls)
      BY LedgerAssumption DEF Drifting, Booked
    <2> HIDE DEF f, g
    <2> QED
      BY <2>1, <2>2, SumZero
  <1>5. ~Deleting(a)
    BY <1>1 DEF Deleting, Touched
  <1> QED
    BY <1>4, <1>5

\* Type correctness of the credit accounts, for any calls and bounds.
THEOREM TypesKept == Spec => []TypeOK
  <1>1. LedgerInv => TypeOK
    BY DEF LedgerInv
  <1> QED
    BY <1>1, LedgerKept, PTL

\* However consumptions, grants, transfers, expirations and deletions are
\* interleaved, the balance of an account and what is left of its allocations
\* only differ while a call is at them, or with one of three excuses.
THEOREM DriftIsExplained == Spec => []DriftExplained
  <1>1. ASSUME LedgerInv PROVE DriftExplained
    <2> SUFFICES ASSUME NEW a \in DOMAIN accounts, accounts[a].live, Drift(a) # 0, ~Busy(a)
                 PROVE  excuse[a] \cap {"lapsed", "moved", "lost"} # {}
      BY DEF DriftExplained
    <2>1. Drifting(a) = 0 /\ ~Deleting(a)
      BY <1>1, NotBusy DEF LedgerInv
    <2>2. Excused(a, {"lapsed", "moved", "lost"}) \/ Drift(a) = Drifting(a)
      BY <1>1 DEF LedgerInv, BalanceInv
    <2> QED
      BY <2>1, <2>2 DEF Excused
  <1> QED
    BY <1>1, LedgerKept, PTL

\* The transactions of an account add up to its balance, but for a call that
\* is at them and the changes that were refused, or lost, after their booking.
THEOREM LedgerAgreement == Spec => []LedgerAgrees
  <1>1. ASSUME LedgerInv PROVE LedgerAgrees
    <2> SUFFICES ASSUME NEW a \in DOMAIN accounts, accounts[a].live,
                        ledger[a] # accounts[a].balance, ~Busy(a)
                 PROVE  excuse[a] \cap {"lapsed", "refused", "lost"} # {}
      BY DEF LedgerAgrees
    <2>1. Booked(a) = 0 /\ ~Deleting(a)
      BY <1>1, NotBusy DEF LedgerInv
    <2>2. Excused(a, {"lapsed", "refused", "lost"}) \/ ledger[a] - accounts[a].balance = Booked(a)
      BY <1>1 DEF LedgerInv, BalanceInv
    <2>3. ledger[a] \in Int /\ accounts[a].balance \in Nat
      BY <1>1, DriftInt DEF LedgerInv
    <2> QED
      BY <2>1, <2>2, <2>3 DEF Excused
  <1> QED
    BY <1>1, LedgerKept, PTL

\* No credit is used twice, unless two calls had planned to use its allocation
\* at the same time: the plan of consume_credits and the daily job's selection
\* never exceed what they read, and nobody else's uses come in between.
THEOREM UsedOnce == Spec => []UsedOnceUnlessShared
  <1>1. ASSUME LedgerInv PROVE UsedOnceUnlessShared
    <2> SUFFICES ASSUME NEW i \in DOMAIN allocs, Left(i) < 0, i \notin shared PROVE FALSE
      BY DEF UsedOnceUnlessShared
    <2>1. Left(i) >= 0 /\ Left(i) \in Int
      BY <1>1, TypedTables, RowTypes DEF LedgerInv, UseInv
    <2> QED
      BY <2>1
  <1> QED
    BY <1>1, LedgerKept, PTL

\* A campaign is charged for what it allocated and never beyond its budget,
\* whatever races its checks lose.
THEOREM CampaignsPay == Spec => []CampaignPays
  <1>1. ASSUME LedgerInv PROVE CampaignPays
    <2> SUFFICES ASSUME NEW k \in Campaigns
                 PROVE  /\ allocated[k] <= Budget[k]
                        /\ allocated[k] <= Granted(k)
                        /\ allocated[k] < Granted(k) =>
                              \E i \in GrantsOf(k) :
                                 \/ excuse[allocs[i].account] \cap {"overrun", "lost"} # {}
                                 \/ \E c \in Calls : /\ call[c].campaign = k /\ Todo(c) # <<>>
                                                     /\ Head(Todo(c)).write = "budget"
      BY DEF CampaignPays, Granted, GrantsOf
    <2> DEFINE f == [c \in Calls |-> ChargeOf(call[c], k)]
    <2>1. CampaignPaid(k) /\ \A c \in Calls : ChargesRow(c)
      BY <1>1, CampaignParts DEF LedgerInv
    <2>2. allocated[k] \in Nat /\ Granted(k) \in Int /\ IsFiniteSet(Calls)
      BY <1>1, LedgerAssumption, GrantedInt DEF LedgerInv, TypeOK
    <2>3. \A c \in Calls : f[c] \in Nat
      BY <1>1 DEF LedgerInv, TypeOK, ChargeOf, Call
    <2>4. ToCharge(k) = SumFunctionOnSet(f, Calls)
      BY DEF ToCharge
    <2>5. (\A c \in Calls : f[c] = 0) \/ \E c \in Calls : /\ call[c].campaign = k /\ Todo(c) # <<>>
                                                          /\ Head(Todo(c)).write = "budget"
      BY DEF ChargeOf, Todo
    <2> HIDE DEF f
    <2>6. ToCharge(k) \in Nat
      BY <2>2, <2>3, <2>4, SumNat
    <2>7. (\A c \in Calls : f[c] = 0) => ToCharge(k) = 0
      BY <2>2, <2>4, SumZero
    <2>8. (\E c \in Calls : /\ call[c].campaign = k /\ Todo(c) # <<>>
                            /\ Head(Todo(c)).write = "budget") => GrantsOf(k) # {}
      BY <2>1 DEF ChargesRow
    <2>9. allocated[k] <= Budget[k] /\ allocated[k] <= Granted(k)
      <3>1. allocated[k] + ToCharge(k) <= Granted(k) /\ allocated[k] <= Budget[k]
        BY <2>1 DEF CampaignPaid
      <3> QED
        BY <2>2, <2>6, <3>1
    <2>10. CASE allocated[k] + ToCharge(k) = Granted(k)
      <3>1. allocated[k] < Granted(k) => ToCharge(k) # 0
        BY <2>2, <2>10
      <3> QED
        BY <2>5, <2>7, <2>8, <2>9, <3>1
    <2>11. CASE \E i \in GrantsOf(k) : excuse[allocs[i].account] \cap {"overrun", "lost"} # {}
      BY <2>9, <2>11
    <2> QED
      BY <2>1, <2>10, <2>11 DEF CampaignPaid
  <1> QED
    BY <1>1, LedgerKept, PTL

-----------------------------------------------------------------------------
(* What a plan uses first.                                                 *)

\* A sum of naturals is no less than that of a part.
LEMMA SumOfPart ==
    ASSUME NEW f, NEW T, IsFiniteSet(T), \A x \in T : f[x] \in Nat, NEW S \in SUBSET T
    PROVE  SumFunctionOnSet(f, S) <= SumFunctionOnSet(f, T)
  <1> DEFINE More(U) == SumFunctionOnSet(f, S) <= SumFunctionOnSet(f, S \cup U)
             Bad == {U \in SUBSET (T \ S) : ~More(U)}
  <1>0. ASSUME NEW U \in SUBSET T PROVE IsFiniteSet(U) /\ SumFunctionOnSet(f, U) \in Nat
    <2>1. IsFiniteSet(U)
      BY FS_Subset
    <2> QED
      BY <2>1, SumNat
  <1>1. Bad = {}
    <2> SUFFICES ASSUME Bad # {} PROVE FALSE
      OBVIOUS
    <2>1. Bad \in SUBSET (SUBSET (T \ S)) /\ IsFiniteSet(T \ S)
      BY <1>0
    <2>2. PICK U \in Bad : \A V \in SUBSET U : V # U => V \notin Bad
      <3> HIDE DEF Bad
      <3> QED
        BY <2>1, MinimalSubset
    <2>3. U # {}
      <3> SUFFICES ASSUME U = {} PROVE More(U)
        BY <2>2
      <3>1. S \cup U = S
        OBVIOUS
      <3>2. SumFunctionOnSet(f, S) \in Nat
        BY <1>0
      <3> QED
        BY <3>1, <3>2
    <2>4. PICK x \in U : TRUE
      BY <2>3
    <2> DEFINE V == U \ {x}
    <2>5. V \in SUBSET (T \ S) /\ V # U /\ V \in SUBSET U
      BY <2>2, <2>4
    <2>6. More(V)
      BY <2>2, <2>5
    <2>7. S \cup U \in SUBSET T /\ S \cup V \in SUBSET T /\ x \in S \cup U
          /\ (S \cup U) \ {x} = S \cup V
      BY <2>2, <2>4
    <2>8. SumFunctionOnSet(f, S \cup U) = f[x] + SumFunctionOnSet(f, S \cup V)
      <3>1. IsFiniteSet(S \cup U) /\ \A y \in S \cup U : f[y] \in Int
        BY <1>0, <2>7
      <3>2. SumFunctionOnSet(f, S \cup U) = f[x] + SumFunctionOnSet(f, (S \cup U) \ {x})
        BY <2>7, <3>1, SumRemove
      <3> QED
        BY <2>7, <3>2
    <2>9. /\ f[x] \in Nat /\ SumFunctionOnSet(f, S) \in Nat
          /\ SumFunctionOnSet(f, S \cup V) \in Nat
      BY <1>0, <2>7
    <2>10. More(U)
      BY <2>6, <2>8, <2>9
    <2> QED
      BY <2>2, <2>10
  <1>2. More(T \ S)
    BY <1>1
  <1>3. S \cup (T \ S) = T
    OBVIOUS
  <1> QED
    BY <1>2, <1>3

\* What comes before something a plan uses is used up by it.
LEMMA UsedUp ==
    ASSUME Tables, NEW u, NEW n \in Nat, NEW j \in Used(u, n), NEW i \in Available(u), Sooner(i, j)
    PROVE  i \in Used(u, n) /\ Part(u, n, i) = Left(i)
  <1> DEFINE f == [x \in DOMAIN allocs |-> Left(x)]
             S == {x \in Available(u) : Sooner(x, i)}
             T == {x \in Available(u) : Sooner(x, j)}
  <1>1. Available(u) \subseteq DOMAIN allocs /\ \A x \in Available(u) : Left(x) > 0
    BY DEF Available
  <1>2. \A x \in Available(u) : f[x] \in Nat /\ f[x] = Left(x)
    <2>1. \A x \in Available(u) : Left(x) \in Int
      BY <1>1, RowTypes
    <2> QED
      BY <1>1, <2>1
  <1>3. j \in Available(u) /\ Owed(u, n, j) = n - SumFunctionOnSet(f, T) /\ Owed(u, n, j) > 0
        /\ Owed(u, n, i) = n - SumFunctionOnSet(f, S)
    BY DEF Used, Owed, LeftIn
  <1>4. i \in T /\ S \in SUBSET (T \ {i})
    BY <1>1, <1>3, SoonerOrders
  <1>5. IsFiniteSet(T) /\ IsFiniteSet(T \ {i}) /\ \A x \in T : f[x] \in Nat
    <2>1. T \in SUBSET DOMAIN allocs
      BY <1>1
    <2>2. IsFiniteSet(T)
      BY <2>1, RowTypes, FS_Subset
    <2>3. IsFiniteSet(T \ {i})
      BY <2>2, FS_Subset
    <2> QED
      BY <1>2, <2>2, <2>3
  <1>6. f[i] \in Nat /\ f[i] = Left(i) /\ Left(i) > 0
    BY <1>1, <1>2
  <1> HIDE DEF f, S, T
  <1>7. SumFunctionOnSet(f, T) = f[i] + SumFunctionOnSet(f, T \ {i})
    BY <1>4, <1>5, SumRemove
  <1>8. SumFunctionOnSet(f, S) <= SumFunctionOnSet(f, T \ {i})
    BY <1>4, <1>5, SumOfPart
  <1>9. SumFunctionOnSet(f, S) \in Nat /\ SumFunctionOnSet(f, T \ {i}) \in Nat
    <2>1. IsFiniteSet(S)
      BY <1>4, <1>5, FS_Subset
    <2>2. \A x \in S : f[x] \in Nat
      BY <1>4, <1>5
    <2> QED
      BY <1>5, <2>1, <2>2, SumNat
  <1>10. Owed(u, n, i) > Left(i) /\ Owed(u, n, i) > 0
    BY <1>3, <1>6, <1>7, <1>8, <1>9
  <1> QED
    BY <1>6, <1>9, <1>10, <1>3 DEF Used, Part

\* A step of a call leaves the others where they are.
LEMMA OthersStay ==
    ASSUME TypeOK, CallsSound, NEW d \in Calls, Step(d), NEW c \in Calls, c # d
    PROVE  call'[c] = call[c]
  <1>1. call \in [Calls -> Call]
    BY DEF TypeOK
  <1>2. \E k : call' = [call EXCEPT ![d] = k]
    <2>1. CASE Starting(d)
      BY <2>1, Starts, TypedTables DEF Becomes
    <2>2. CASE WritingStep(d)
      BY <2>2, AfterWrites DEF WritingStep, Frame
    <2> QED
      BY <2>1, <2>2 DEF Step, Starting, WritingStep
  <1> QED
    BY <1>1, <1>2

\* Only _build_consumption_plan takes a call from its plan to its statements.
LEMMA PlanOnly ==
    ASSUME TypeOK, CallsSound, NEW c \in Calls, [Next]_vars,
           call[c].step = "plan", call'[c].step = "run"
    PROVE  \E plan \in ConsumptionPlan(call[c].user, call[c].n) :
              call'[c].todo = PlanStatements("consumed", plan)
  <1>0. call \in [Calls -> Call] /\ Idle.step = "idle"
    BY DEF TypeOK, Idle
  <1>1. PICK d \in Calls : Step(d)
    BY DEF Next, vars, Tick
  <1>2. d = c
    BY <1>1, OthersStay
  <1>3. Plan(c)
    BY <1>1, <1>2 DEF Step, Allocate, Open, Check, Transfer, Consume, Expire, Delete, Called,
       WriteTxn, WriteBalance, WriteAlloc, WriteBudget, WriteUse, WriteDelete, StatementRaises,
       Writing
  <1>4. PICK plan \in ConsumptionPlan(call[c].user, call[c].n) :
            Proceed(c, PlanStatements("consumed", plan))
    BY <1>0, <1>3 DEF Plan, Return
  <1> DEFINE t == PlanStatements("consumed", plan)
  <1>5. CASE t = <<>>
    <2>1. call'[c] = Idle
      BY <1>0, <1>4, <1>5 DEF Proceed, Return
    <2> QED
      BY <1>0, <2>1
  <1>6. CASE t # <<>>
    <2> HIDE DEF t
    <2>1. call' = [call EXCEPT ![c].step = "run", ![c].todo = t]
      BY <1>4, <1>6 DEF Proceed, Run, t
    <2>2. call'[c].todo = t
      BY <1>0, <2>1 DEF Call
    <2> QED
      BY <2>2 DEF t
  <1> QED
    BY <1>5, <1>6

\* A plan leaves nothing in what would be lost before something it spends.  It
\* says nothing of the consumptions that end without a plan, such as those of a
\* user with allocations that expire and others that never do.
THEOREM SpendsSoonestFirst == Spec => SoonestFirst
  <1> DEFINE Sound(c) ==
        call[c].step = "plan" /\ call'[c].step = "run" =>
            \A i \in Available(call[c].user), s \in Range(call'[c].todo) :
                \/ ~(\/ allocs[i].expires < allocs[s.alloc].expires
                     \/ /\ allocs[i].expires = allocs[s.alloc].expires
                        /\ Priority[accounts[allocs[i].account].type]
                             < Priority[accounts[s.account].type])
                \/ \E t \in Range(call'[c].todo) :
                      t.alloc = i /\ t.write = "consumed" /\ t.n = Left(i)
  <1>1. ASSUME LedgerInv, [Next]_vars, NEW c \in Calls PROVE Sound(c)
    <2> SUFFICES ASSUME call[c].step = "plan", call'[c].step = "run",
                        NEW i \in Available(call[c].user), NEW s \in Range(call'[c].todo),
                        \/ allocs[i].expires < allocs[s.alloc].expires
                        \/ /\ allocs[i].expires = allocs[s.alloc].expires
                           /\ Priority[accounts[allocs[i].account].type]
                                < Priority[accounts[s.account].type]
                 PROVE  \E t \in Range(call'[c].todo) :
                           t.alloc = i /\ t.write = "consumed" /\ t.n = Left(i)
      OBVIOUS
    <2>1. TypeOK /\ CallsSound /\ Tables /\ call[c] \in Call
      BY <1>1, TypedTables DEF LedgerInv
    <2>0. PICK u : u = call[c].user
      OBVIOUS
    <2>2. PICK n \in Nat : u = call[c].user /\ n = call[c].n
      BY <2>0, <2>1 DEF Call
    <2>3. PICK plan \in ConsumptionPlan(u, n) : call'[c].todo = PlanStatements("consumed", plan)
      BY <1>1, <2>1, <2>2, PlanOnly
    <2>4. /\ plan \in Seq(Items)
          /\ \A x, y \in DOMAIN plan : x # y => plan[x].alloc # plan[y].alloc
          /\ \A x \in DOMAIN plan : /\ plan[x].alloc \in Used(u, n)
                                    /\ plan[x].n = Part(u, n, plan[x].alloc)
          /\ \A x \in Used(u, n) : \E y \in DOMAIN plan : plan[y].alloc = x
      BY <2>1, <2>3, ConsumptionPlanSound
    <2> DEFINE t == PlanStatements("consumed", plan)
    <2>5. /\ \A x \in DOMAIN t : \E q \in DOMAIN plan :
                /\ t[x].alloc = plan[q].alloc
                /\ t[x].account = allocs[plan[q].alloc].account
          /\ \A q \in DOMAIN plan : \E x \in DOMAIN t :
                t[x].alloc = plan[q].alloc /\ t[x].write = "consumed" /\ t[x].n = plan[q].n
      <3>1. PICK w \in Uses : w = "consumed"
        BY DEF Uses
      <3> DEFINE r == PlanStatements(w, plan)
      <3>2. /\ \A x \in DOMAIN r : \E q \in DOMAIN plan :
                  /\ r[x].alloc = plan[q].alloc
                  /\ r[x].account = allocs[plan[q].alloc].account
            /\ \A q \in DOMAIN plan : \E x \in DOMAIN r :
                  r[x].alloc = plan[q].alloc /\ r[x].write = w /\ r[x].n = plan[q].n
        BY <2>1, <2>4, PlanStatementsSound
      <3>3. t = r
        BY <3>1
      <3> HIDE DEF r, t
      <3> QED
        BY <3>1, <3>2, <3>3
    <2> HIDE DEF t
    <2>6. call'[c].todo = t
      BY <2>3 DEF t
    <2>7. PICK x \in DOMAIN t : s = t[x]
      BY <2>6 DEF Range
    <2>8. PICK q \in DOMAIN plan : s.alloc = plan[q].alloc /\ s.account = allocs[plan[q].alloc].account
      BY <2>5, <2>7
    <2>9. PICK j \in Used(u, n) : s.alloc = j /\ s.account = allocs[j].account
      BY <2>4, <2>8
    <2>10. i \in Available(u) /\ Sooner(i, j)
      BY <2>2, <2>9 DEF Sooner
    <2>11. i \in Used(u, n) /\ Part(u, n, i) = Left(i)
      BY <2>1, <2>10, UsedUp
    <2>12. PICK y \in DOMAIN plan : plan[y].alloc = i /\ plan[y].n = Left(i)
      BY <2>4, <2>11
    <2>13. PICK m \in DOMAIN t : t[m].alloc = i /\ t[m].write = "consumed" /\ t[m].n = Left(i)
      BY <2>5, <2>12
    <2> QED
      BY <2>6, <2>13 DEF Range
  <1>2. LedgerInv /\ [Next]_vars => [\A c \in Calls : Sound(c)]_vars
    BY <1>1
  <1> QED
    BY <1>2, LedgerKept, PTL DEF Spec, SoonestFirst
=============================================================================
