------------------------- MODULE WalletLedgerProofs -------------------------
(***************************************************************************)
(* Proofs about WalletLedger, for any number of operations, wallets, users *)
(* and amounts: no balance becomes negative.  The invariant must speak of  *)
(* the UPDATEs that are on their way: what is written is what update_      *)
(* balance computed from the balance it read itself, so it is not negative *)
(* however old that balance is by the time it is written.  The rows of a   *)
(* wallet add up to its balance because each operation changes both by the *)
(* same amount, or is in progress, or was interrupted.                     *)
(***************************************************************************)
EXTENDS WalletLedger, SumTheorems

\* An operation in progress whose pending UPDATE, if any, is not negative.
Safe(k) == k \in CallType /\ (k.step \in WriteSteps => k.new >= 0)

\* The inductive invariant, in the form the steps below use.
Inv == TypeOK /\ NonNegative

\* An operation that has ended writes nothing.
LEMMA IdleSafe == Safe(Idle) /\ Idle \in CallType
<1>1. (CHOOSE w \in Wallets : TRUE) \in Wallets
  BY LedgerAssumption
<1> QED
  BY <1>1 DEF Safe, Idle, CallType, AllOperations, Steps, ReadSteps, WriteSteps

\* The operations in progress are safe after a step of one of them, when that
\* one is.
LEMMA CallStep ==
    ASSUME Inv, NEW c \in Calls, NEW k, Safe(k), call' = [call EXCEPT ![c] = k]
    PROVE  /\ call' \in [Calls -> CallType]
           /\ \A d \in Calls : call'[d].step \in WriteSteps => call'[d].new >= 0
BY DEF Inv, TypeOK, NonNegative, Safe

\* Moving on to a step that is not an UPDATE keeps an operation safe.
LEMMA StepSafe ==
    ASSUME NEW k \in CallType, NEW s \in Steps \ WriteSteps
    PROVE  Safe([k EXCEPT !.step = s])
BY DEF Safe, CallType

\* So does the end of an operation, or the start of a rollback.
LEMMA FailureSafe ==
    ASSUME Inv, NEW c \in Calls
    PROVE  Safe(AfterFailure(c))
<1>1. call[c] \in CallType
  BY DEF Inv, TypeOK
<1>2. "read_back" \in Steps \ WriteSteps
  BY DEF Steps, ReadSteps, WriteSteps
<1> QED
  BY <1>1, <1>2, IdleSafe, StepSafe DEF AfterFailure

\* The wallet an update is for is one.
LEMMA TargetType ==
    ASSUME Inv, NEW c \in Calls
    PROVE  /\ Target(c) \in Wallets
           /\ call[c] \in CallType
           /\ call[c].wallet \in Wallets
           /\ call[c].amount \in Nat
           /\ call[c].new \in Int
           /\ balance[Target(c)] \in Int
           /\ balance[Target(c)] >= 0
<1>1. call[c] \in CallType
  BY DEF Inv, TypeOK
<1>2. /\ call[c].wallet \in Wallets /\ call[c].to \in Wallets
      /\ call[c].amount \in Nat /\ call[c].new \in Int
  BY <1>1 DEF CallType
<1>3. Target(c) \in Wallets
  BY <1>2 DEF Target
<1> QED
  BY <1>1, <1>2, <1>3 DEF Inv, TypeOK, NonNegative

\* A balance is replaced by the value of a pending UPDATE: none is negative.
LEMMA BalanceStep ==
    ASSUME Inv, NEW w \in Wallets, NEW b \in Int, b >= 0,
           balance' = [balance EXCEPT ![w] = b]
    PROVE  /\ balance' \in [Wallets -> Int]
           /\ \A v \in Wallets : balance'[v] >= 0
BY DEF Inv, TypeOK, NonNegative

\* A row that is booked is a row.
LEMMA RowsAreRows ==
    ASSUME Inv, NEW c \in Calls
    PROVE  Row(c) \in RowType /\ RowTo(c) \in RowType
<1>1. call[c] \in CallType
  BY DEF Inv, TypeOK
<1>2. TypeOf(call[c].op) \in AllOperations
  BY <1>1 DEF TypeOf, CallType, AllOperations
<1>3. Row(c) \in RowType
  BY <1>1, <1>2 DEF Row, RowType, CallType
<1>4. RowTo(c) \in RowType
  BY <1>1, <1>3 DEF RowTo, RowType, CallType
<1> QED
  BY <1>3, <1>4

\* A fault counts within its bound.
LEMMA FaultBound == ASSUME Inv, Fault PROVE faults' \in 0 .. MaxFaults
BY LedgerAssumption DEF Inv, TypeOK, Fault

-----------------------------------------------------------------------------
\* Calling an operation: the request is a call that is about to read.
LEMMA StartInductive ==
    ASSUME Inv, NEW c \in Calls, NEW op, NEW k, Safe(k), Start(c, op, k)
    PROVE  Inv'
<1>1. /\ call' \in [Calls -> CallType]
      /\ \A d \in Calls : call'[d].step \in WriteSteps => call'[d].new >= 0
  BY CallStep DEF Start
<1>2. ops' \in 0 .. MaxOps
  BY LedgerAssumption DEF Start, Inv, TypeOK
<1> QED
  BY <1>1, <1>2 DEF Start, Inv, TypeOK, NonNegative

\* The requests that are made: each is well typed and writes nothing yet.
LEMMA StartsInductive ==
    ASSUME Inv, NEW c \in Calls,
           StartCreate(c) \/ StartChange(c) \/ StartTransfer(c) \/ StartRefund(c)
    PROVE  Inv'
<1>a. Amounts \subseteq Nat /\ Initial \subseteq Nat
  BY LedgerAssumption
<1>b. {"deposit", "withdraw", "consume", "transfer", "refund"} \subseteq AllOperations
  BY DEF AllOperations
<1>c. Open \subseteq Wallets
  BY DEF Open
<1>1. CASE StartCreate(c)
  <2>1. PICK u \in Users, a \in Initial :
            Start(c, "create", [Idle EXCEPT !.step = "check", !.user = u, !.amount = a])
    BY <1>1 DEF StartCreate
  <2>3. Safe([Idle EXCEPT !.step = "check", !.user = u, !.amount = a])
    BY <1>a, IdleSafe DEF Safe, CallType, Steps, WriteSteps
  <2> QED
    BY <2>1, <2>3, StartInductive
<1>2. CASE StartChange(c)
  <2>1. PICK op \in {"deposit", "withdraw", "consume"}, w \in Open, a \in Amounts :
            Start(c, op, [Idle EXCEPT !.op = op, !.step = "get", !.wallet = w, !.amount = a])
    BY <1>2 DEF StartChange
  <2>3. Safe([Idle EXCEPT !.op = op, !.step = "get", !.wallet = w, !.amount = a])
    <3>1. op \in AllOperations /\ w \in Wallets /\ a \in Nat
      BY <1>a, <1>b, <1>c
    <3> QED
      BY <3>1, IdleSafe DEF Safe, CallType, Steps, WriteSteps
  <2> QED
    BY <2>1, <2>3, StartInductive
<1>3. CASE StartTransfer(c)
  <2>1. PICK v \in Open, w \in Open, a \in Amounts :
            Start(c, "transfer", [Idle EXCEPT !.op = "transfer", !.step = "get",
                                              !.wallet = v, !.to = w, !.amount = a])
    BY <1>3 DEF StartTransfer
  <2>3. Safe([Idle EXCEPT !.op = "transfer", !.step = "get",
                          !.wallet = v, !.to = w, !.amount = a])
    <3>1. "transfer" \in AllOperations /\ v \in Wallets /\ w \in Wallets /\ a \in Nat
      BY <1>a, <1>b, <1>c
    <3> QED
      BY <3>1, IdleSafe DEF Safe, CallType, Steps, WriteSteps
  <2> QED
    BY <2>1, <2>3, StartInductive
<1>4. CASE StartRefund(c)
  <2>1. PICK i \in DOMAIN ledger, a \in Amounts :
            Start(c, "refund", [Idle EXCEPT !.op = "refund", !.step = "get",
                                            !.wallet = ledger[i].wallet,
                                            !.amount = a, !.ref = i])
    BY <1>4 DEF StartRefund
  <2>2. ledger[i] \in RowType /\ i \in Nat
    BY DEF Inv, TypeOK
  <2>3. Safe([Idle EXCEPT !.op = "refund", !.step = "get", !.wallet = ledger[i].wallet,
                          !.amount = a, !.ref = i])
    <3>1. "refund" \in AllOperations /\ ledger[i].wallet \in Wallets /\ a \in Nat
      BY <1>a, <1>b, <2>2 DEF RowType
    <3> QED
      BY <2>2, <3>1, IdleSafe DEF Safe, CallType, Steps, WriteSteps
  <2> QED
    BY <2>1, <2>3, StartInductive
<1> QED
  BY <1>1, <1>2, <1>3, <1>4

\* create_wallet: the wallet starts with the amount of the request.
LEMMA CreateInductive ==
    ASSUME Inv, NEW c \in Calls, CheckExisting(c) \/ CheckFails(c) \/ InsertWallet(c)
    PROVE  Inv'
<1>a. call[c] \in CallType
  BY TargetType
<1>b. Safe([call[c] EXCEPT !.step = "insert"])
  BY <1>a, StepSafe DEF Steps, ReadSteps, WriteSteps
<1>1. CASE CheckExisting(c)
  <2>1. \/ call' = [call EXCEPT ![c] = Idle]
        \/ call' = [call EXCEPT ![c] = [call[c] EXCEPT !.step = "insert"]]
    BY <1>1 DEF CheckExisting, Done, Goto
  <2>2. /\ call' \in [Calls -> CallType]
        /\ \A d \in Calls : call'[d].step \in WriteSteps => call'[d].new >= 0
    BY <1>b, <2>1, CallStep, IdleSafe
  <2> QED
    BY <1>1, <2>2 DEF CheckExisting, Inv, TypeOK, NonNegative
<1>2. CASE CheckFails(c)
  <2>1. call' = [call EXCEPT ![c] = [call[c] EXCEPT !.step = "insert"]]
    BY <1>2 DEF CheckFails, Goto
  <2>2. /\ call' \in [Calls -> CallType]
        /\ \A d \in Calls : call'[d].step \in WriteSteps => call'[d].new >= 0
    BY <1>b, <2>1, CallStep
  <2>3. faults' \in 0 .. MaxFaults
    BY <1>2, FaultBound DEF CheckFails
  <2> QED
    BY <1>2, <2>2, <2>3 DEF CheckFails, Inv, TypeOK, NonNegative
<1>3. CASE InsertWallet(c)
  <2>1. PICK w \in Wallets \ Open :
          /\ holder' = [holder EXCEPT ![w] = call[c].user]
          /\ balance' = [balance EXCEPT ![w] = call[c].amount]
          /\ net' = net + call[c].amount
          /\ call' = [call EXCEPT ![c] =
                 IF @.amount > 0
                 THEN [@ EXCEPT !.step = "book", !.wallet = w, !.after = call[c].amount]
                 ELSE Idle]
    BY <1>3 DEF InsertWallet
  <2>2. /\ call[c].user \in Users \cup {NoUser}
        /\ call[c].amount \in Nat /\ call[c].amount \in Int /\ call[c].amount >= 0
        /\ w \in Wallets
    BY <1>a DEF CallType
  <2>b. balance' = [balance EXCEPT ![w] = call[c].amount]
    BY <2>1
  <2>3. /\ balance' \in [Wallets -> Int]
        /\ \A v \in Wallets : balance'[v] >= 0
    BY <2>2, <2>b, BalanceStep
  <2>4. Safe([call[c] EXCEPT !.step = "book", !.wallet = w, !.after = call[c].amount])
    <3>1. [call[c] EXCEPT !.step = "book", !.wallet = w, !.after = call[c].amount]
              = [[call[c] EXCEPT !.wallet = w, !.after = call[c].amount] EXCEPT !.step = "book"]
      BY <1>a DEF CallType
    <3>2. [call[c] EXCEPT !.wallet = w, !.after = call[c].amount] \in CallType
      BY <1>a, <2>2 DEF CallType
    <3>3. "book" \in Steps \ WriteSteps
      BY DEF Steps, ReadSteps, WriteSteps
    <3> QED
      BY <3>1, <3>2, <3>3, StepSafe
  <2>5. \/ call' = [call EXCEPT ![c] = Idle]
        \/ call' = [call EXCEPT ![c] =
                       [call[c] EXCEPT !.step = "book", !.wallet = w, !.after = call[c].amount]]
    BY <2>1
  <2>6. /\ call' \in [Calls -> CallType]
        /\ \A d \in Calls : call'[d].step \in WriteSteps => call'[d].new >= 0
    BY <2>4, <2>5, CallStep, IdleSafe
  <2>7. holder' \in [Wallets -> Users \cup {NoUser}] /\ net' \in Int
    BY <2>1, <2>2 DEF Inv, TypeOK
  <2> QED
    BY <1>3, <2>3, <2>6, <2>7 DEF InsertWallet, Inv, TypeOK, NonNegative
<1> QED
  BY <1>1, <1>2, <1>3

\* The first SELECTs only fill in the call.
LEMMA GetInductive ==
    ASSUME Inv, NEW c \in Calls, GetWallet(c) \/ GetTo(c)
    PROVE  Inv'
<1>a. call[c] \in CallType
  BY TargetType
<1>b. balance[call[c].wallet] \in Int /\ balance[call[c].to] \in Int
  BY <1>a DEF Inv, TypeOK, CallType
<1>c. \A b \in Int, s \in {"get_to", "read"} :
          /\ Safe([call[c] EXCEPT !.before = b, !.step = s])
          /\ Safe([call[c] EXCEPT !.before_to = b, !.step = s])
  BY <1>a DEF Safe, CallType, Steps, ReadSteps, WriteSteps
<1>1. CASE GetWallet(c)
  <2>1. \/ call' = [call EXCEPT ![c] = Idle]
        \/ \E s \in {"get_to", "read"} : call' = [call EXCEPT ![c] =
               [call[c] EXCEPT !.before = balance[call[c].wallet], !.step = s]]
    BY <1>1 DEF GetWallet, Done
  <2>2. /\ call' \in [Calls -> CallType]
        /\ \A d \in Calls : call'[d].step \in WriteSteps => call'[d].new >= 0
    BY <1>b, <1>c, <2>1, CallStep, IdleSafe
  <2> QED
    BY <1>1, <2>2 DEF GetWallet, Inv, TypeOK, NonNegative
<1>2. CASE GetTo(c)
  <2>1. \/ call' = [call EXCEPT ![c] = Idle]
        \/ call' = [call EXCEPT ![c] =
               [call[c] EXCEPT !.before_to = balance[call[c].to], !.step = "read"]]
    BY <1>2 DEF GetTo, Done
  <2>2. /\ call' \in [Calls -> CallType]
        /\ \A d \in Calls : call'[d].step \in WriteSteps => call'[d].new >= 0
    BY <1>b, <1>c, <2>1, CallStep, IdleSafe
  <2> QED
    BY <1>2, <2>2 DEF GetTo, Inv, TypeOK, NonNegative
<1> QED
  BY <1>1, <1>2

-----------------------------------------------------------------------------
\* What update_balance computes from a balance that covers the deduction is not
\* negative.
LEMMA ChangedCovered ==
    ASSUME Inv, NEW c \in Calls, Covered(c)
    PROVE  /\ Changed(c, balance[Target(c)]) \in Int
           /\ Changed(c, balance[Target(c)]) >= 0
<1>1. call[c].amount \in Nat /\ balance[Target(c)] \in Int /\ balance[Target(c)] >= 0
  BY TargetType
<1> QED
  BY <1>1 DEF Covered, Changed

\* update_balance's SELECT.
LEMMA ReadInductive ==
    ASSUME Inv, NEW c \in Calls, ReadBalance(c)
    PROVE  Inv'
<1>1. call[c] \in CallType
  BY TargetType
<1>2. CASE Covered(c)
  <2> DEFINE n == Changed(c, balance[Target(c)])
             s == WriteAfter(call[c].step)
             k == [call[c] EXCEPT !.new = n, !.step = s]
  <2>1. n \in Int /\ n >= 0
    BY <1>2, ChangedCovered
  <2>2. s \in Steps
    BY DEF WriteAfter, Steps, WriteSteps
  <2>3. Safe(k)
    <3> HIDE DEF n, s
    <3> QED
      BY <1>1, <2>1, <2>2 DEF Safe, CallType
  <2>4. call' = [call EXCEPT ![c] = k]
    BY <1>2 DEF ReadBalance
  <2>5. /\ call' \in [Calls -> CallType]
        /\ \A d \in Calls : call'[d].step \in WriteSteps => call'[d].new >= 0
    <3> HIDE DEF k
    <3> QED
      BY <2>3, <2>4, CallStep
  <2> QED
    BY <2>5 DEF ReadBalance, Inv, TypeOK, NonNegative
<1>3. CASE ~ Covered(c)
  <2>1. call' = [call EXCEPT ![c] = AfterFailure(c)]
    BY <1>3 DEF ReadBalance
  <2>2. /\ call' \in [Calls -> CallType]
        /\ \A d \in Calls : call'[d].step \in WriteSteps => call'[d].new >= 0
    BY <2>1, CallStep, FailureSafe
  <2> QED
    BY <2>2 DEF ReadBalance, Inv, TypeOK, NonNegative
<1> QED
  BY <1>2, <1>3

\* What follows an UPDATE is not another UPDATE at once.
LEMMA AfterWriteSafe ==
    ASSUME Inv, NEW c \in Calls
    PROVE  Safe(AfterWrite(c))
<1>1. call[c] \in CallType /\ call[c].new \in Int
  BY TargetType
<1>2. {"book", "read_to"} \subseteq Steps \ WriteSteps
  BY DEF Steps, ReadSteps, WriteSteps
<1>3. Safe([call[c] EXCEPT !.step = "book"])
  BY <1>1, <1>2, StepSafe
<1>4. ASSUME NEW s \in {"book", "read_to"}
      PROVE  Safe([call[c] EXCEPT !.after = call[c].new, !.step = s])
  <2>1. [call[c] EXCEPT !.after = call[c].new] \in CallType
    BY <1>1 DEF CallType
  <2>2. [call[c] EXCEPT !.after = call[c].new, !.step = s]
            = [[call[c] EXCEPT !.after = call[c].new] EXCEPT !.step = s]
    BY <1>1 DEF CallType
  <2> QED
    BY <1>2, <2>1, <2>2, StepSafe
<1> QED
  BY <1>3, <1>4, IdleSafe DEF AfterWrite

\* update_balance's UPDATE, its answer received or lost.
LEMMA WriteInductive ==
    ASSUME Inv, NEW c \in Calls, WriteBalance(c) \/ AnswerLost(c)
    PROVE  Inv'
<1>1. Target(c) \in Wallets /\ call[c].amount \in Nat /\ call[c].new \in Int
  BY TargetType
<1>2. call[c].new >= 0
  BY DEF WriteBalance, AnswerLost, Inv, NonNegative
<1>3. balance' = [balance EXCEPT ![Target(c)] = call[c].new]
  BY DEF WriteBalance, AnswerLost
<1>4. /\ balance' \in [Wallets -> Int]
      /\ \A v \in Wallets : balance'[v] >= 0
  BY <1>1, <1>2, <1>3, BalanceStep
<1>5. NetAfter(c) \in Int
  BY <1>1 DEF NetAfter, Changed, Inv, TypeOK
<1>6. \/ call' = [call EXCEPT ![c] = AfterWrite(c)]
      \/ call' = [call EXCEPT ![c] = AfterFailure(c)]
  BY DEF WriteBalance, AnswerLost
<1>7. /\ call' \in [Calls -> CallType]
      /\ \A d \in Calls : call'[d].step \in WriteSteps => call'[d].new >= 0
  BY <1>6, CallStep, AfterWriteSafe, FailureSafe
<1>8. faults' \in 0 .. MaxFaults
  BY FaultBound DEF WriteBalance, AnswerLost, Inv, TypeOK
<1>9. disturbed' \in BOOLEAN
  BY Zenon DEF WriteBalance, AnswerLost, Inv, TypeOK
<1> QED
  BY <1>4, <1>5, <1>7, <1>8, <1>9 DEF WriteBalance, AnswerLost, Inv, TypeOK, NonNegative

-----------------------------------------------------------------------------
\* The transaction rows, written or lost.
LEMMA BookInductive ==
    ASSUME Inv, NEW c \in Calls, Book(c) \/ BookFails(c)
    PROVE  Inv'
<1>1. call[c] \in CallType
  BY TargetType
<1>2. "book_to" \in Steps \ WriteSteps
  BY DEF Steps, ReadSteps, WriteSteps
<1>3. Safe([call[c] EXCEPT !.step = "book_to"])
  BY <1>1, <1>2, StepSafe
<1>4. \/ call' = [call EXCEPT ![c] = Idle]
      \/ call' = [call EXCEPT ![c] = [call[c] EXCEPT !.step = "book_to"]]
  BY DEF Book, BookFails, AfterBook, Goto, Done
<1>5. /\ call' \in [Calls -> CallType]
      /\ \A d \in Calls : call'[d].step \in WriteSteps => call'[d].new >= 0
  BY <1>3, <1>4, CallStep, IdleSafe
<1>6. CASE Book(c)
  <2>1. \E r \in RowType : ledger' = Append(ledger, r)
    BY <1>6, RowsAreRows DEF Book
  <2>2. ledger' \in Seq(RowType)
    BY <2>1 DEF Inv, TypeOK
  <2> QED
    BY <1>5, <1>6, <2>2 DEF Book, Inv, TypeOK, NonNegative
<1>7. CASE BookFails(c)
  <2>1. faults' \in 0 .. MaxFaults
    BY <1>7, FaultBound DEF BookFails
  <2> QED
    BY <1>5, <1>7, <2>1 DEF BookFails, Inv, TypeOK, NonNegative
<1> QED
  BY <1>6, <1>7

\* A failing statement, and an operation that is lost.
LEMMA FaultInductive ==
    ASSUME Inv, NEW c \in Calls, StatementFails(c) \/ Vanish(c)
    PROVE  Inv'
<1>1. \/ call' = [call EXCEPT ![c] = Idle]
      \/ call' = [call EXCEPT ![c] = AfterFailure(c)]
  BY DEF StatementFails, Vanish, Done
<1>2. /\ call' \in [Calls -> CallType]
      /\ \A d \in Calls : call'[d].step \in WriteSteps => call'[d].new >= 0
  BY <1>1, CallStep, IdleSafe, FailureSafe
<1>3. faults' \in 0 .. MaxFaults
  BY FaultBound DEF StatementFails, Vanish
<1>4. disturbed' \in BOOLEAN
  BY Zenon DEF StatementFails, Vanish, Inv, TypeOK
<1> QED
  BY <1>2, <1>3, <1>4 DEF StatementFails, Vanish, Inv, TypeOK, NonNegative

-----------------------------------------------------------------------------
LEMMA LedgerInit == ASSUME Init PROVE Inv
<1>1. call \in [Calls -> CallType]
  BY IdleSafe DEF Init
<1>2. \A c \in Calls : call[c].step \in WriteSteps => call[c].new >= 0
  BY IdleSafe DEF Init, Safe
<1>3. ledger \in Seq(RowType)
  BY DEF Init
<1>4. holder \in [Wallets -> Users \cup {NoUser}]
  BY DEF Init
<1>5. balance \in [Wallets -> Int] /\ \A w \in Wallets : balance[w] >= 0
  BY DEF Init
<1>6. net \in Int /\ ops \in 0 .. MaxOps /\ faults \in 0 .. MaxFaults
  BY LedgerAssumption DEF Init
<1>7. disturbed \in BOOLEAN
  BY DEF Init
<1> QED
  BY <1>1, <1>2, <1>3, <1>4, <1>5, <1>6, <1>7 DEF Inv, TypeOK, NonNegative

LEMMA LedgerStep == ASSUME Inv, [Next]_vars PROVE Inv'
<1>1. CASE UNCHANGED vars
  BY <1>1 DEF vars, Inv, TypeOK, NonNegative
<1>2. ASSUME NEW c \in Calls,
             StartCreate(c) \/ StartChange(c) \/ StartTransfer(c) \/ StartRefund(c)
      PROVE  Inv'
  BY <1>2, StartsInductive
<1>3. ASSUME NEW c \in Calls, CheckExisting(c) \/ CheckFails(c) \/ InsertWallet(c)
      PROVE  Inv'
  BY <1>3, CreateInductive
<1>4. ASSUME NEW c \in Calls, GetWallet(c) \/ GetTo(c)
      PROVE  Inv'
  BY <1>4, GetInductive
<1>5. ASSUME NEW c \in Calls, ReadBalance(c)
      PROVE  Inv'
  BY <1>5, ReadInductive
<1>6. ASSUME NEW c \in Calls, WriteBalance(c) \/ AnswerLost(c)
      PROVE  Inv'
  BY <1>6, WriteInductive
<1>7. ASSUME NEW c \in Calls, Book(c) \/ BookFails(c)
      PROVE  Inv'
  BY <1>7, BookInductive
<1>8. ASSUME NEW c \in Calls, StatementFails(c) \/ Vanish(c)
      PROVE  Inv'
  BY <1>8, FaultInductive
<1> QED
  BY <1>1, <1>2, <1>3, <1>4, <1>5, <1>6, <1>7, <1>8 DEF Next

LEMMA LedgerInvariant == Spec => []Inv
<1>1. Init => Inv
  BY LedgerInit
<1>2. Inv /\ [Next]_vars => Inv'
  BY LedgerStep
<1> QED
  BY <1>1, <1>2, PTL DEF Spec

\* However the operations of wallet_service interleave, and whatever statements
\* fail, no balance becomes negative: the check of update_balance is enough for
\* that, although it and the UPDATE are two statements (it is not enough for
\* NoOverdraft, which a run refutes).
THEOREM LedgerSafe == Spec => [](TypeOK /\ NonNegative)
<1>1. Inv => TypeOK /\ NonNegative
  BY DEF Inv
<1> QED
  BY <1>1, LedgerInvariant, PTL


-----------------------------------------------------------------------------
(* The transactions account for the balances.                              *)

\* What an operation in progress has done to its wallet, or to the destination
\* of its transfer, and not booked yet.
Src(k) == IF k.step \in {"read_to", "write_to", "read_back", "write_back"} THEN 0 - k.amount
          ELSE IF k.step = "book" THEN k.after - k.before ELSE 0
Dst(k) == IF k.op = "transfer" /\ k.step \in {"book", "book_to"} THEN k.new - k.before_to ELSE 0
Unbooked(k, w) == (IF k.wallet = w THEN Src(k) ELSE 0) + (IF k.to = w THEN Dst(k) ELSE 0)
Pending(w) == SumFunctionOnSet([c \in Calls |-> Unbooked(call[c], w)], Calls)

Balanced(w) == balance[w] = Booked(w) + Pending(w)

\* Where an operation can be: only a transfer has a second wallet, only create
\* has none yet, and a wallet that is worked on exists.
Orderly(k, open) ==
    /\ k.step \in {"get_to", "read_to", "write_to", "read_back", "write_back", "book_to"}
         => k.op = "transfer"
    /\ k.step \in {"check", "insert"} => k.op = "create" /\ k.before = 0 /\ k.user # NoUser
    /\ k.step \notin {"idle", "check", "insert"} =>
           /\ k.wallet \in open
           /\ k.op = "transfer" => k.to \in open

\* A transfer that has taken the amount from its source.
Taken(k) == k.step \in {"read_to", "write_to"} => k.after = k.before - k.amount

\* Wallet ids that are not in use have no money and no history.
Unused == /\ \A w \in Wallets \ Open : balance[w] = 0
          /\ \A i \in DOMAIN ledger : ledger[i].wallet \in Open

AccountInv ==
    /\ \A c \in Calls : Orderly(call[c], Open)
    /\ Unused
    /\ ~disturbed => /\ \A c \in Calls : Taken(call[c])
                     /\ \A w \in Wallets : Balanced(w)

LEMMA UnbookedInt ==
    ASSUME NEW k \in CallType, NEW w PROVE Unbooked(k, w) \in Int
<1>1. k.amount \in Int /\ k.after \in Int /\ k.before \in Int /\ k.new \in Int
      /\ k.before_to \in Int
  BY DEF CallType
<1>2. Src(k) \in Int
  BY <1>1 DEF Src
<1>3. Dst(k) \in Int
  BY <1>1 DEF Dst
<1> QED
  BY <1>2, <1>3 DEF Unbooked

LEMMA PendingInt ==
    ASSUME Inv, NEW w PROVE Pending(w) \in Int
<1> DEFINE f == [c \in Calls |-> Unbooked(call[c], w)]
<1>1. \A c \in Calls : f[c] \in Int
  BY UnbookedInt DEF Inv, TypeOK
<1> HIDE DEF f
<1>2. SumFunctionOnSet(f, Calls) \in Int
  BY <1>1, SumInt, LedgerAssumption
<1> QED
  BY <1>2 DEF Pending, f

\* One operation moves on.
Only(c) == \A d \in Calls \ {c} : call'[d] = call[d]

LEMMA PendingMoves ==
    ASSUME Inv, Inv', NEW c \in Calls, Only(c), NEW w
    PROVE  Pending(w)' = Pending(w) + Unbooked(call'[c], w) - Unbooked(call[c], w)
<1> DEFINE f == [d \in Calls |-> Unbooked(call[d], w)]
           g == [d \in Calls |-> Unbooked(call'[d], w)]
<1>1. \A d \in Calls : f[d] \in Int
  BY UnbookedInt DEF Inv, TypeOK
<1>2. g[c] \in Int
  BY UnbookedInt DEF Inv, TypeOK
<1>3. \A d \in Calls : d # c => g[d] = f[d]
  BY DEF Only
<1>4. f[c] = Unbooked(call[c], w) /\ g[c] = Unbooked(call'[c], w)
  OBVIOUS
<1>5. Pending(w) = SumFunctionOnSet(f, Calls)
  BY DEF Pending
<1>6. Pending(w)' = SumFunctionOnSet(g, Calls)
  BY DEF Pending
<1> HIDE DEF f, g
<1>7. SumFunctionOnSet(g, Calls) = SumFunctionOnSet(f, Calls) + g[c] - f[c]
  BY <1>1, <1>2, <1>3, SumReplace, LedgerAssumption
<1> QED
  BY <1>4, <1>5, <1>6, <1>7

LEMMA BookedInt ==
    ASSUME Inv, NEW w
    PROVE  /\ IsFiniteSet(RowsOf(w)) /\ RowsOf(w) \subseteq DOMAIN ledger
           /\ \A i \in DOMAIN ledger : ledger[i].after - ledger[i].before \in Int
           /\ Booked(w) \in Int
<1>1. ledger \in Seq(RowType) /\ DOMAIN ledger = 1..Len(ledger) /\ Len(ledger) \in Nat
  BY DEF Inv, TypeOK
<1>2. IsFiniteSet(DOMAIN ledger)
  BY <1>1, FS_Interval
<1>3. RowsOf(w) \subseteq DOMAIN ledger
  BY DEF RowsOf
<1>4. IsFiniteSet(RowsOf(w))
  BY <1>2, <1>3, FS_Subset
<1>5. ASSUME NEW i \in DOMAIN ledger PROVE ledger[i].after - ledger[i].before \in Int
  <2>1. ledger[i] \in RowType
    BY <1>1
  <2> QED
    BY <2>1 DEF RowType
<1> DEFINE f == [i \in DOMAIN ledger |-> ledger[i].after - ledger[i].before]
<1>6. \A i \in RowsOf(w) : f[i] \in Int
  BY <1>3, <1>5
<1> HIDE DEF f
<1>7. SumFunctionOnSet(f, RowsOf(w)) \in Int
  BY <1>4, <1>6, SumInt
<1> QED
  BY <1>3, <1>4, <1>5, <1>7 DEF Booked, f

\* A row is booked.
LEMMA BookedMoves ==
    ASSUME Inv, NEW r \in RowType, ledger' = Append(ledger, r), NEW w
    PROVE  Booked(w)' = Booked(w) + (IF r.wallet = w THEN r.after - r.before ELSE 0)
<1> DEFINE n == Len(ledger) + 1
           f == [i \in DOMAIN ledger |-> ledger[i].after - ledger[i].before]
           g == [i \in DOMAIN ledger' |-> ledger'[i].after - ledger'[i].before]
<1>1. ledger \in Seq(RowType)
  BY DEF Inv, TypeOK
<1>2. /\ DOMAIN ledger' = DOMAIN ledger \cup {n} /\ n \notin DOMAIN ledger
      /\ \A i \in DOMAIN ledger : ledger'[i] = ledger[i]
      /\ ledger'[n] = r
  BY <1>1
<1>3. /\ IsFiniteSet(RowsOf(w)) /\ RowsOf(w) \subseteq DOMAIN ledger
      /\ \A i \in DOMAIN ledger : ledger[i].after - ledger[i].before \in Int
      /\ Booked(w) \in Int
  BY BookedInt
<1>4. r.after - r.before \in Int
  BY DEF RowType
<1> HIDE DEF n
<1>5. \A i \in RowsOf(w) : f[i] = g[i] /\ f[i] \in Int
  BY <1>2, <1>3
<1>6. g[n] = r.after - r.before
  BY <1>2
<1>7. Booked(w) = SumFunctionOnSet(f, RowsOf(w))
  BY DEF Booked
<1>8. Booked(w)' = SumFunctionOnSet(g, RowsOf(w)')
  BY DEF Booked
<1> HIDE DEF f, g
<1>9. SumFunctionOnSet(f, RowsOf(w)) = SumFunctionOnSet(g, RowsOf(w))
  BY <1>3, <1>5, SumSame
<1>10. CASE r.wallet = w
  <2>1. RowsOf(w)' = RowsOf(w) \cup {n} /\ n \notin RowsOf(w)
    BY <1>2, <1>3, <1>10 DEF RowsOf
  <2>2. \A i \in RowsOf(w) \cup {n} : g[i] \in Int
    BY <1>4, <1>5, <1>6
  <2>3. SumFunctionOnSet(g, RowsOf(w) \cup {n}) = SumFunctionOnSet(g, RowsOf(w)) + g[n]
    BY <1>3, <2>1, <2>2, SumAdd
  <2> QED
    BY <1>6, <1>7, <1>8, <1>9, <1>10, <2>1, <2>3
<1>11. CASE r.wallet # w
  <2>1. RowsOf(w)' = RowsOf(w)
    BY <1>2, <1>11 DEF RowsOf
  <2> QED
    BY <1>3, <1>7, <1>8, <1>9, <1>11, <2>1
<1> QED
  BY <1>10, <1>11

\* What a step must show: the balances change by what becomes unbooked and
\* what is booked.
LEMMA BalancedMoves ==
    ASSUME Inv, Inv', NEW c \in Calls, Only(c), NEW w \in Wallets, Balanced(w),
           NEW booked \in Int, Booked(w)' = Booked(w) + booked,
           balance'[w] + Unbooked(call[c], w) = balance[w] + booked + Unbooked(call'[c], w)
    PROVE  Balanced(w)'
<1>1. Pending(w)' = Pending(w) + Unbooked(call'[c], w) - Unbooked(call[c], w)
  BY PendingMoves
<1>2. Pending(w) \in Int /\ Booked(w) \in Int
  BY PendingInt, BookedInt
<1>3. Unbooked(call[c], w) \in Int /\ Unbooked(call'[c], w) \in Int
  BY UnbookedInt DEF Inv, TypeOK
<1>4. balance[w] \in Int /\ balance'[w] \in Int
  BY DEF Inv, TypeOK
<1> QED
  BY <1>1, <1>2, <1>3, <1>4 DEF Balanced

-----------------------------------------------------------------------------
\* The steps at which nothing is unbooked.
Before == {"idle", "check", "insert", "get", "get_to", "read", "write"}

LEMMA NothingUnbooked ==
    ASSUME NEW k, k.step \in Before
    PROVE  Taken(k) /\ \A w \in Wallets : Unbooked(k, w) = 0
BY DEF Before, Taken, Unbooked, Src, Dst

LEMMA IdleIs ==
    /\ Idle.step = "idle" /\ Idle.op = "create" /\ Idle.before = 0
    /\ Orderly(Idle, Open) /\ Idle.step \in Before
BY DEF Idle, Orderly, Before

\* The operations that do not move stay orderly: wallets are only added.
LEMMA StillOrderly ==
    ASSUME AccountInv, NEW c \in Calls, Only(c), Open \subseteq Open',
           Orderly(call'[c], Open')
    PROVE  \A d \in Calls : Orderly(call'[d], Open')
<1> SUFFICES ASSUME NEW d \in Calls, d # c PROVE Orderly(call'[d], Open')
  OBVIOUS
<1>1. call'[d] = call[d] /\ Orderly(call[d], Open)
  BY DEF Only, AccountInv
<1> QED
  BY <1>1 DEF Orderly

\* A step that moves no money and books nothing.
LEMMA QuietAccount ==
    ASSUME Inv, Inv', AccountInv, NEW c \in Calls, Only(c),
           UNCHANGED <<holder, balance, ledger>>, Orderly(call'[c], Open),
           ~disturbed' => /\ ~disturbed
                          /\ Taken(call'[c])
                          /\ \A w \in Wallets : Unbooked(call'[c], w) = Unbooked(call[c], w)
    PROVE  AccountInv'
<1>1. Open' = Open
  BY DEF Open
<1>2. \A d \in Calls : Orderly(call'[d], Open')
  BY <1>1, StillOrderly
<1>3. Unused'
  BY <1>1 DEF AccountInv, Unused
<1>4. ASSUME ~disturbed' PROVE \A d \in Calls : Taken(call'[d])
  BY <1>4 DEF AccountInv, Only
<1>5. ASSUME ~disturbed', NEW w \in Wallets PROVE Balanced(w)'
  <2>1. Balanced(w) /\ Unbooked(call'[c], w) = Unbooked(call[c], w)
    BY <1>5 DEF AccountInv
  <2>2. Booked(w) \in Int /\ balance[w] \in Int
    BY BookedInt DEF Inv, TypeOK
  <2>3. Booked(w)' = Booked(w) + 0
    BY <2>2 DEF Booked, RowsOf
  <2>4. Unbooked(call[c], w) \in Int
    BY UnbookedInt DEF Inv, TypeOK
  <2>5. balance'[w] + Unbooked(call[c], w) = balance[w] + 0 + Unbooked(call'[c], w)
    BY <2>1, <2>2, <2>4
  <2> QED
    BY <2>1, <2>3, <2>5, BalancedMoves
<1> QED
  BY <1>2, <1>3, <1>4, <1>5 DEF AccountInv

\* Such a step between steps at which nothing is unbooked.
LEMMA QuietBefore ==
    ASSUME Inv, Inv', AccountInv, NEW c \in Calls, Only(c),
           UNCHANGED <<holder, balance, ledger>>, ~disturbed' => ~disturbed,
           Orderly(call'[c], Open), call[c].step \in Before, call'[c].step \in Before
    PROVE  AccountInv'
<1>1. Taken(call'[c]) /\ \A w \in Wallets : Unbooked(call'[c], w) = Unbooked(call[c], w)
  BY NothingUnbooked
<1> QED
  BY <1>1, QuietAccount

\* An operation goes on, or ends.
LEMMA GotoFacts ==
    ASSUME Inv, NEW c \in Calls, NEW s, Goto(c, s)
    PROVE  /\ Only(c) /\ call'[c] = [call[c] EXCEPT !.step = s] /\ call'[c].step = s
           /\ call'[c].op = call[c].op /\ call'[c].wallet = call[c].wallet
           /\ call'[c].to = call[c].to /\ call'[c].amount = call[c].amount
           /\ call'[c].user = call[c].user
           /\ call'[c].before = call[c].before /\ call'[c].before_to = call[c].before_to
           /\ call'[c].new = call[c].new /\ call'[c].after = call[c].after
<1>1. call \in [Calls -> CallType] /\ call[c] \in CallType
  BY DEF Inv, TypeOK
<1>2. Only(c) /\ call'[c] = [call[c] EXCEPT !.step = s]
  BY <1>1 DEF Goto, Only
<1> QED
  BY <1>1, <1>2 DEF CallType

LEMMA DoneFacts ==
    ASSUME Inv, NEW c \in Calls, call' = [call EXCEPT ![c] = Idle]
    PROVE  Only(c) /\ call'[c] = Idle
BY DEF Inv, TypeOK, Only

LEMMA DoneAccount ==
    ASSUME Inv, Inv', AccountInv, NEW c \in Calls, call[c].step \in Before,
           call' = [call EXCEPT ![c] = Idle],
           UNCHANGED <<holder, balance, ledger>>, ~disturbed' => ~disturbed
    PROVE  AccountInv'
BY DoneFacts, IdleIs, QuietBefore

-----------------------------------------------------------------------------
LEMMA StartAccount ==
    ASSUME Inv, Inv', AccountInv, NEW c \in Calls,
           StartCreate(c) \/ StartChange(c) \/ StartTransfer(c) \/ StartRefund(c)
    PROVE  AccountInv'
<1>0. Idle \in CallType /\ Idle.before = 0 /\ Idle.op = "create"
  BY IdleSafe, IdleIs
<1>1. ASSUME NEW op, NEW k, Start(c, op, k), Orderly(k, Open), k.step \in Before
      PROVE  AccountInv'
  <2>1. Only(c) /\ call'[c] = k /\ UNCHANGED <<holder, balance, ledger, disturbed>>
        /\ call[c].step = "idle"
    BY <1>1 DEF Start, Only, Inv, TypeOK
  <2> QED
    BY <1>1, <2>1, QuietBefore DEF Before
<1>2. CASE StartCreate(c)
  <2>1. PICK u \in Users, a \in Initial :
            Start(c, "create", [Idle EXCEPT !.step = "check", !.user = u, !.amount = a])
    BY <1>2 DEF StartCreate
  <2> DEFINE k == [Idle EXCEPT !.step = "check", !.user = u, !.amount = a]
  <2>2. k.step = "check" /\ k.op = "create" /\ k.before = 0 /\ k.user # NoUser
    BY <1>0, LedgerAssumption DEF CallType
  <2> HIDE DEF k
  <2>3. Orderly(k, Open) /\ k.step \in Before
    BY <2>2 DEF Orderly, Before
  <2> QED
    BY <1>1, <2>1, <2>3 DEF k
<1>3. CASE StartChange(c)
  <2>1. PICK op \in {"deposit", "withdraw", "consume"}, w \in Open, a \in Amounts :
            Start(c, op, [Idle EXCEPT !.op = op, !.step = "get", !.wallet = w, !.amount = a])
    BY <1>3 DEF StartChange
  <2> DEFINE k == [Idle EXCEPT !.op = op, !.step = "get", !.wallet = w, !.amount = a]
  <2>2. k.step = "get" /\ k.op = op /\ k.wallet = w
    BY <1>0 DEF CallType
  <2> HIDE DEF k
  <2>3. Orderly(k, Open) /\ k.step \in Before
    BY <2>2 DEF Orderly, Before
  <2> QED
    BY <1>1, <2>1, <2>3 DEF k
<1>4. CASE StartTransfer(c)
  <2>1. PICK v \in Open, w \in Open, a \in Amounts :
            Start(c, "transfer", [Idle EXCEPT !.op = "transfer", !.step = "get",
                                              !.wallet = v, !.to = w, !.amount = a])
    BY <1>4 DEF StartTransfer
  <2> DEFINE k == [Idle EXCEPT !.op = "transfer", !.step = "get",
                               !.wallet = v, !.to = w, !.amount = a]
  <2>2. k.step = "get" /\ k.wallet = v /\ k.to = w
    BY <1>0 DEF CallType
  <2> HIDE DEF k
  <2>3. Orderly(k, Open) /\ k.step \in Before
    BY <2>2 DEF Orderly, Before
  <2> QED
    BY <1>1, <2>1, <2>3 DEF k
<1>5. CASE StartRefund(c)
  <2>1. PICK i \in DOMAIN ledger, a \in Amounts :
            Start(c, "refund", [Idle EXCEPT !.op = "refund", !.step = "get",
                                            !.wallet = ledger[i].wallet,
                                            !.amount = a, !.ref = i])
    BY <1>5 DEF StartRefund
  <2> DEFINE k == [Idle EXCEPT !.op = "refund", !.step = "get",
                               !.wallet = ledger[i].wallet, !.amount = a, !.ref = i]
  <2>2. k.step = "get" /\ k.op = "refund" /\ k.wallet = ledger[i].wallet
    BY <1>0 DEF CallType
  <2>3. ledger[i].wallet \in Open
    BY DEF AccountInv, Unused
  <2> HIDE DEF k
  <2>4. Orderly(k, Open) /\ k.step \in Before
    BY <2>2, <2>3 DEF Orderly, Before
  <2> QED
    BY <1>1, <2>1, <2>4 DEF k
<1> QED
  BY <1>2, <1>3, <1>4, <1>5

LEMMA CheckAccount ==
    ASSUME Inv, Inv', AccountInv, NEW c \in Calls, CheckExisting(c) \/ CheckFails(c)
    PROVE  AccountInv'
<1>1. call[c].step = "check" /\ UNCHANGED <<holder, balance, ledger, disturbed>>
  BY DEF CheckExisting, CheckFails
<1>2. CASE Goto(c, "insert")
  <2>1. Only(c) /\ call'[c].step = "insert" /\ call'[c].op = call[c].op
        /\ call'[c].before = call[c].before /\ call'[c].user = call[c].user
    BY <1>2, GotoFacts
  <2>2. Orderly(call[c], Open)
    BY DEF AccountInv
  <2>3. Orderly(call'[c], Open)
    BY <1>1, <2>1, <2>2 DEF Orderly
  <2> QED
    BY <1>1, <2>1, <2>3, QuietBefore DEF Before
<1>3. CASE Done(c)
  BY <1>1, <1>3, DoneAccount DEF Done, Before
<1> QED
  BY <1>2, <1>3 DEF CheckExisting, CheckFails

LEMMA GetAccount ==
    ASSUME Inv, Inv', AccountInv, NEW c \in Calls, GetWallet(c) \/ GetTo(c)
    PROVE  AccountInv'
<1>1. call[c].step \in {"get", "get_to"} /\ UNCHANGED <<holder, balance, ledger, disturbed>>
  BY DEF GetWallet, GetTo
<1>2. CASE Done(c)
  BY <1>1, <1>2, DoneAccount DEF Done, Before
<1>3. CASE ~Done(c)
  <2>1. call \in [Calls -> CallType] /\ call[c] \in CallType
    BY DEF Inv, TypeOK
  <2>2. \/ /\ call[c].step = "get"
           /\ call' = [call EXCEPT ![c].before = balance[call[c].wallet],
                             ![c].step = IF call[c].op = "transfer" THEN "get_to" ELSE "read"]
        \/ call' = [call EXCEPT ![c].before_to = balance[call[c].to], ![c].step = "read"]
    BY <1>3 DEF GetWallet, GetTo
  <2>3. /\ Only(c) /\ call'[c].op = call[c].op /\ call'[c].wallet = call[c].wallet
        /\ call'[c].to = call[c].to
        /\ \/ call'[c].step = "read"
           \/ call'[c].step = "get_to" /\ call[c].op = "transfer"
    BY <2>1, <2>2 DEF Only, CallType
  <2>4. Orderly(call[c], Open)
    BY DEF AccountInv
  <2>5. Orderly(call'[c], Open)
    BY <1>1, <2>3, <2>4 DEF Orderly
  <2> QED
    BY <1>1, <2>3, <2>5, QuietBefore DEF Before
<1> QED
  BY <1>2, <1>3

\* update_balance failed: the operation ends, or what it took is still missing.
LEMMA FailureAccount ==
    ASSUME Inv, Inv', AccountInv, NEW c \in Calls,
           call' = [call EXCEPT ![c] = AfterFailure(c)],
           UNCHANGED <<holder, balance, ledger>>,
           ~disturbed' => /\ ~disturbed
                          /\ call[c].step \in Before \cup {"read_to", "write_to"}
    PROVE  AccountInv'
<1>1. CASE call[c].step \in {"read_to", "write_to"}
  <2>1. Goto(c, "read_back")
    BY <1>1 DEF AfterFailure, Goto, Inv, TypeOK
  <2>2. /\ Only(c) /\ call'[c].step = "read_back"
        /\ call'[c].op = call[c].op /\ call'[c].wallet = call[c].wallet
        /\ call'[c].to = call[c].to /\ call'[c].amount = call[c].amount
    BY <2>1, GotoFacts
  <2>3. Orderly(call[c], Open)
    BY DEF AccountInv
  <2>4. Orderly(call'[c], Open)
    BY <1>1, <2>2, <2>3 DEF Orderly
  <2>5. Taken(call'[c]) /\ \A w \in Wallets : Unbooked(call'[c], w) = Unbooked(call[c], w)
    BY <1>1, <2>2 DEF Taken, Unbooked, Src, Dst
  <2> QED
    BY <2>2, <2>4, <2>5, QuietAccount
<1>2. CASE call[c].step \notin {"read_to", "write_to"}
  <2>1. call' = [call EXCEPT ![c] = Idle]
    BY <1>2 DEF AfterFailure
  <2>2. Only(c) /\ call'[c] = Idle /\ Orderly(call'[c], Open)
    BY <2>1, DoneFacts, IdleIs
  <2>3. ASSUME ~disturbed'
        PROVE  /\ ~disturbed /\ Taken(call'[c])
               /\ \A w \in Wallets : Unbooked(call'[c], w) = Unbooked(call[c], w)
    BY <1>2, <2>2, <2>3, IdleIs, NothingUnbooked
  <2> QED
    BY <2>2, <2>3, QuietAccount
<1> QED
  BY <1>1, <1>2

LEMMA ReadAccount ==
    ASSUME Inv, Inv', AccountInv, NEW c \in Calls, ReadBalance(c)
    PROVE  AccountInv'
<1>1. call[c].step \in ReadSteps /\ UNCHANGED <<holder, balance, ledger, disturbed>>
  BY DEF ReadBalance
<1>2. CASE ~Covered(c)
  <2>1. call' = [call EXCEPT ![c] = AfterFailure(c)]
    BY <1>2 DEF ReadBalance
  <2>2. call[c].step = "read"
    BY <1>1, <1>2 DEF Covered, Subtracts, ReadSteps
  <2> QED
    BY <1>1, <2>1, <2>2, FailureAccount DEF Before
<1>3. CASE Covered(c)
  <2>1. call \in [Calls -> CallType] /\ call[c] \in CallType
    BY DEF Inv, TypeOK
  <2>2. call' = [call EXCEPT ![c] = [call[c] EXCEPT !.new = Changed(c, balance[Target(c)]),
                                                    !.step = WriteAfter(call[c].step)]]
    BY <1>3 DEF ReadBalance
  <2>3. /\ Only(c) /\ call'[c].step = WriteAfter(call[c].step)
        /\ call'[c].op = call[c].op /\ call'[c].wallet = call[c].wallet
        /\ call'[c].to = call[c].to /\ call'[c].amount = call[c].amount
        /\ call'[c].before = call[c].before /\ call'[c].after = call[c].after
    BY <2>1, <2>2 DEF Only, CallType
  <2>4. \/ call[c].step = "read" /\ call'[c].step = "write"
        \/ call[c].step = "read_to" /\ call'[c].step = "write_to"
        \/ call[c].step = "read_back" /\ call'[c].step = "write_back"
    BY <1>1, <2>3 DEF ReadSteps, WriteAfter
  <2>5. Orderly(call[c], Open)
    BY DEF AccountInv
  <2>6. Orderly(call'[c], Open)
    BY <2>3, <2>4, <2>5 DEF Orderly
  <2>7. \A w \in Wallets : Unbooked(call'[c], w) = Unbooked(call[c], w)
    BY <2>3, <2>4 DEF Unbooked, Src, Dst
  <2>8. ~disturbed => Taken(call'[c])
    BY <2>3, <2>4 DEF Taken, AccountInv
  <2> QED
    BY <1>1, <2>3, <2>6, <2>7, <2>8, QuietAccount
<1> QED
  BY <1>2, <1>3

LEMMA FaultAccount ==
    ASSUME Inv, Inv', AccountInv, NEW c \in Calls, StatementFails(c) \/ Vanish(c)
    PROVE  AccountInv'
<1>1. UNCHANGED <<holder, balance, ledger>>
  BY DEF StatementFails, Vanish
<1>2. CASE StatementFails(c)
  <2>1. /\ call' = [call EXCEPT ![c] = AfterFailure(c)]
        /\ disturbed' = (disturbed \/ call[c].step \in {"read_back", "write_back"})
        /\ call[c].step \in {"insert", "get", "get_to"} \cup ReadSteps \cup WriteSteps
    BY <1>2 DEF StatementFails
  <2>2. ASSUME ~disturbed'
        PROVE  ~disturbed /\ call[c].step \in Before \cup {"read_to", "write_to"}
    BY <2>1, <2>2 DEF Before, ReadSteps, WriteSteps
  <2> QED
    BY <1>1, <2>1, <2>2, FailureAccount
<1>3. CASE Vanish(c)
  <2>1. /\ call' = [call EXCEPT ![c] = Idle]
        /\ disturbed' = (disturbed \/ call[c].step \in {"read_to", "write_to", "read_back",
                                                        "write_back", "book", "book_to"})
    BY <1>3 DEF Vanish, Done
  <2>2. call[c].step \in Steps
    BY DEF Inv, TypeOK, CallType
  <2>3. ASSUME ~disturbed' PROVE ~disturbed /\ call[c].step \in Before
    BY <2>1, <2>2, <2>3 DEF Before, Steps, ReadSteps, WriteSteps
  <2>4. Only(c) /\ call'[c] = Idle /\ Orderly(call'[c], Open)
    BY <2>1, DoneFacts, IdleIs
  <2>5. ASSUME ~disturbed'
        PROVE  /\ ~disturbed /\ Taken(call'[c])
               /\ \A w \in Wallets : Unbooked(call'[c], w) = Unbooked(call[c], w)
    BY <2>3, <2>4, <2>5, IdleIs, NothingUnbooked
  <2> QED
    BY <1>1, <2>4, <2>5, QuietAccount
<1> QED
  BY <1>2, <1>3

-----------------------------------------------------------------------------
\* A new wallet: its initial balance is unbooked.
LEMMA InsertAccount ==
    ASSUME Inv, Inv', AccountInv, NEW c \in Calls, InsertWallet(c)
    PROVE  AccountInv'
<1>1. PICK v \in Wallets \ Open :
        /\ holder' = [holder EXCEPT ![v] = call[c].user]
        /\ balance' = [balance EXCEPT ![v] = call[c].amount]
        /\ call' = [call EXCEPT ![c] =
               IF call[c].amount > 0
               THEN [call[c] EXCEPT !.step = "book", !.wallet = v, !.after = call[c].amount]
               ELSE Idle]
  BY DEF InsertWallet
<1>2. call[c].step = "insert" /\ UNCHANGED <<ledger, disturbed>>
  BY DEF InsertWallet
<1>3. /\ call \in [Calls -> CallType] /\ call[c] \in CallType /\ call[c].amount \in Nat
      /\ holder \in [Wallets -> Users \cup {NoUser}] /\ balance \in [Wallets -> Int]
  BY DEF Inv, TypeOK, CallType
<1>4. call[c].op = "create" /\ call[c].before = 0 /\ call[c].user # NoUser
  BY <1>2 DEF AccountInv, Orderly
<1>5. Open \subseteq Open' /\ v \in Open' /\ Open' \subseteq Open \cup {v}
  BY <1>1, <1>3, <1>4 DEF Open
<1>6. balance[v] = 0 /\ balance'[v] = call[c].amount
      /\ \A w \in Wallets \ {v} : balance'[w] = balance[w]
  BY <1>1, <1>3 DEF AccountInv, Unused
<1>7. Only(c)
  BY <1>1, <1>3 DEF Only
<1>8. /\ Orderly(call'[c], Open') /\ Taken(call'[c])
      /\ \A w \in Wallets : Unbooked(call'[c], w) = IF w = v THEN call[c].amount ELSE 0
  <2>1. CASE call[c].amount > 0
    <3>1. /\ call'[c].step = "book" /\ call'[c].wallet = v /\ call'[c].op = "create"
          /\ call'[c].after = call[c].amount /\ call'[c].before = 0
      <4>1. call'[c] = [call[c] EXCEPT !.step = "book", !.wallet = v, !.after = call[c].amount]
        BY <1>1, <1>3, <2>1
      <4> QED
        BY <1>3, <1>4, <4>1 DEF CallType
    <3>2. Orderly(call'[c], Open') /\ Taken(call'[c])
      BY <1>5, <3>1 DEF Orderly, Taken
    <3> QED
      BY <1>3, <3>1, <3>2 DEF Unbooked, Src, Dst
  <2>2. CASE ~(call[c].amount > 0)
    <3>1. call'[c] = Idle /\ call[c].amount = 0
      BY <1>1, <1>3, <2>2
    <3>2. Orderly(call'[c], Open')
      BY <3>1, IdleIs DEF Orderly
    <3> QED
      BY <3>1, <3>2, IdleIs, NothingUnbooked
  <2> QED
    BY <2>1, <2>2
<1>9. \A d \in Calls : Orderly(call'[d], Open')
  BY <1>5, <1>7, <1>8, StillOrderly
<1>10. Unused'
  BY <1>2, <1>5, <1>6 DEF AccountInv, Unused
<1>11. ASSUME ~disturbed' PROVE \A d \in Calls : Taken(call'[d])
  BY <1>2, <1>7, <1>8, <1>11 DEF AccountInv, Only
<1>12. ASSUME ~disturbed', NEW w \in Wallets PROVE Balanced(w)'
  <2>1. Balanced(w)
    BY <1>2, <1>12 DEF AccountInv
  <2>2. Booked(w) \in Int /\ balance[w] \in Int
    BY BookedInt DEF Inv, TypeOK
  <2>3. Booked(w)' = Booked(w) + 0
    BY <1>2, <2>2 DEF Booked, RowsOf
  <2>4. Unbooked(call[c], w) = 0
    BY <1>2, NothingUnbooked DEF Before
  <2>5. balance'[w] + Unbooked(call[c], w) = balance[w] + 0 + Unbooked(call'[c], w)
    BY <1>3, <1>6, <1>8, <2>2, <2>4
  <2> QED
    BY <1>7, <2>1, <2>3, <2>5, BalancedMoves
<1> QED
  BY <1>9, <1>10, <1>11, <1>12 DEF AccountInv

\* A balance is written: it changes by what becomes unbooked, unless somebody
\* else changed it in between.
LEMMA WriteAccount ==
    ASSUME Inv, Inv', AccountInv, NEW c \in Calls, WriteBalance(c) \/ AnswerLost(c)
    PROVE  AccountInv'
<1>1. /\ call[c].step \in WriteSteps /\ UNCHANGED <<holder, ledger>>
      /\ balance' = [balance EXCEPT ![Target(c)] = call[c].new]
  BY DEF WriteBalance, AnswerLost
<1>2. /\ call \in [Calls -> CallType] /\ call[c] \in CallType /\ call[c].amount \in Nat
      /\ call[c].new \in Int /\ call[c].before \in Int /\ call[c].before_to \in Int
      /\ call[c].after \in Int /\ balance \in [Wallets -> Int]
  BY DEF Inv, TypeOK, CallType
<1>3. Orderly(call[c], Open) /\ call[c].step \in {"write", "write_to", "write_back"}
  BY <1>1 DEF AccountInv, WriteSteps
<1>4. Target(c) \in Open /\ Target(c) \in Wallets /\ Open' = Open
  BY <1>1, <1>3, TargetType DEF Target, Orderly, Open
<1>5. /\ balance'[Target(c)] = call[c].new
      /\ \A w \in Wallets \ {Target(c)} : balance'[w] = balance[w]
  BY <1>1, <1>2, <1>4
<1>6. Unused'
  BY <1>1, <1>4, <1>5 DEF AccountInv, Unused
<1>7. CASE AnswerLost(c)
  <2>1. call' = [call EXCEPT ![c] = AfterFailure(c)] /\ disturbed'
    BY <1>7 DEF AnswerLost
  <2>2. Only(c) /\ call'[c] = AfterFailure(c)
    BY <1>2, <2>1 DEF Only
  <2>3. Orderly(call'[c], Open)
    <3>1. CASE call[c].step = "write_to"
      <4>1. /\ call'[c].step = "read_back" /\ call'[c].op = call[c].op
            /\ call'[c].wallet = call[c].wallet /\ call'[c].to = call[c].to
        BY <1>2, <2>2, <3>1 DEF AfterFailure, CallType
      <4> QED
        BY <1>3, <3>1, <4>1 DEF Orderly
    <3>2. CASE call[c].step # "write_to"
      BY <1>3, <2>2, <3>2, IdleIs DEF AfterFailure
    <3> QED
      BY <3>1, <3>2
  <2>4. \A d \in Calls : Orderly(call'[d], Open')
    BY <1>4, <2>2, <2>3, StillOrderly
  <2> QED
    BY <1>6, <2>1, <2>4 DEF AccountInv
<1>8. CASE WriteBalance(c)
  <2>1. call' = [call EXCEPT ![c] = AfterWrite(c)] /\ disturbed' = (disturbed \/ Raced(c))
    BY <1>8 DEF WriteBalance
  <2>2. Only(c) /\ call'[c] = AfterWrite(c)
    BY <1>2, <2>1 DEF Only
  <2>3. ASSUME ~disturbed'
        PROVE  /\ ~disturbed /\ call[c].new = Changed(c, balance[Target(c)])
               /\ call[c].step = "write" => call[c].before = balance[Target(c)]
               /\ call[c].step = "write_to" => call[c].before_to = balance[Target(c)]
    BY <2>1, <2>3 DEF Raced
  <2> DEFINE Told == /\ Orderly(call'[c], Open)
                     /\ ~disturbed' =>
                          /\ Taken(call'[c])
                          /\ \A w \in Wallets :
                               balance'[w] + Unbooked(call[c], w)
                                   = balance[w] + Unbooked(call'[c], w)
  <2>4. ASSUME call[c].step = "write" PROVE Told
    <3>1. /\ call'[c].step = IF call[c].op = "transfer" THEN "read_to" ELSE "book"
          /\ call'[c].op = call[c].op /\ call'[c].wallet = call[c].wallet
          /\ call'[c].to = call[c].to /\ call'[c].amount = call[c].amount
          /\ call'[c].before = call[c].before /\ call'[c].after = call[c].new
      <4>1. call'[c] = [call[c] EXCEPT !.after = call[c].new,
                            !.step = IF call[c].op = "transfer" THEN "read_to" ELSE "book"]
        BY <2>2, <2>4 DEF AfterWrite
      <4> QED
        BY <1>2, <4>1 DEF CallType
    <3>2. Target(c) = call[c].wallet
      BY <2>4 DEF Target
    <3>3. Orderly(call'[c], Open)
      BY <1>3, <2>4, <3>1 DEF Orderly
    <3>4. \A w \in Wallets : Unbooked(call[c], w) = 0
      BY <2>4, NothingUnbooked DEF Before
    <3>5. CASE call[c].op = "transfer"
      <4>1. Changed(c, balance[Target(c)]) = balance[Target(c)] - call[c].amount
        BY <2>4, <3>5 DEF Changed, Subtracts, Deducts
      <4>2. \A w \in Wallets : Unbooked(call'[c], w) =
                                  IF w = Target(c) THEN 0 - call[c].amount ELSE 0
        BY <1>2, <3>1, <3>2, <3>5 DEF Unbooked, Src, Dst
      <4>3. ASSUME ~disturbed' PROVE Taken(call'[c])
        BY <2>3, <2>4, <3>1, <4>1, <4>3 DEF Taken
      <4>4. ASSUME ~disturbed', NEW w \in Wallets
            PROVE  balance'[w] + Unbooked(call[c], w) = balance[w] + Unbooked(call'[c], w)
        <5>1. balance[w] \in Int /\ balance[Target(c)] \in Int
          BY <1>2, <1>4
        <5> QED
          BY <1>2, <1>5, <2>3, <3>4, <4>1, <4>2, <4>4, <5>1
      <4> QED
        BY <3>3, <4>3, <4>4
    <3>6. CASE call[c].op # "transfer"
      <4>1. \A w \in Wallets : Unbooked(call'[c], w) =
                                  IF w = Target(c) THEN call[c].new - call[c].before ELSE 0
        BY <1>2, <3>1, <3>2, <3>6 DEF Unbooked, Src, Dst
      <4>2. Taken(call'[c])
        BY <3>1, <3>6 DEF Taken
      <4>3. ASSUME ~disturbed', NEW w \in Wallets
            PROVE  balance'[w] + Unbooked(call[c], w) = balance[w] + Unbooked(call'[c], w)
        <5>1. balance[w] \in Int /\ balance[Target(c)] \in Int
          BY <1>2, <1>4
        <5> QED
          BY <1>2, <1>5, <2>3, <2>4, <3>4, <4>1, <4>3, <5>1
      <4> QED
        BY <3>3, <4>2, <4>3
    <3> QED
      BY <3>5, <3>6
  <2>5. ASSUME call[c].step = "write_to" PROVE Told
    <3>1. /\ call'[c].step = "book"
          /\ call'[c].op = call[c].op /\ call'[c].wallet = call[c].wallet
          /\ call'[c].to = call[c].to /\ call'[c].new = call[c].new
          /\ call'[c].before = call[c].before /\ call'[c].after = call[c].after
          /\ call'[c].before_to = call[c].before_to
      <4>1. call'[c] = [call[c] EXCEPT !.step = "book"]
        BY <2>2, <2>5 DEF AfterWrite
      <4> QED
        BY <1>2, <4>1 DEF CallType
    <3>2. Target(c) = call[c].to /\ call[c].op = "transfer"
      BY <1>3, <2>5 DEF Target, Orderly
    <3>3. Orderly(call'[c], Open) /\ Taken(call'[c])
      BY <1>3, <2>5, <3>1 DEF Orderly, Taken
    <3>4. \A w \in Wallets : Unbooked(call[c], w) =
                                IF w = call[c].wallet THEN 0 - call[c].amount ELSE 0
      BY <1>2, <2>5 DEF Unbooked, Src, Dst
    <3>5. \A w \in Wallets : Unbooked(call'[c], w) =
                                (IF w = call[c].wallet THEN call[c].after - call[c].before ELSE 0)
                              + (IF w = Target(c) THEN call[c].new - call[c].before_to ELSE 0)
      BY <3>1, <3>2 DEF Unbooked, Src, Dst
    <3>6. ASSUME ~disturbed' PROVE call[c].after - call[c].before = 0 - call[c].amount
      BY <1>2, <2>3, <2>5, <3>6 DEF AccountInv, Taken
    <3>7. ASSUME ~disturbed', NEW w \in Wallets
          PROVE  balance'[w] + Unbooked(call[c], w) = balance[w] + Unbooked(call'[c], w)
      <4>1. balance[w] \in Int /\ balance[Target(c)] \in Int
        BY <1>2, <1>4
      <4>2. Unbooked(call'[c], w) = Unbooked(call[c], w)
                              + (IF w = Target(c) THEN call[c].new - call[c].before_to ELSE 0)
        BY <3>4, <3>5, <3>6, <3>7
      <4>3. Unbooked(call[c], w) \in Int
        BY <1>2, UnbookedInt
      <4>4. balance'[w] = IF w = Target(c) THEN call[c].new ELSE balance[w]
        BY <1>5
      <4> QED
        BY <1>2, <2>3, <2>5, <3>7, <4>1, <4>2, <4>3, <4>4
    <3> QED
      BY <3>3, <3>7
  <2>6. ASSUME call[c].step = "write_back" PROVE Told
    <3>1. call'[c] = Idle
      BY <2>2, <2>6 DEF AfterWrite
    <3>2. Target(c) = call[c].wallet
          /\ Changed(c, balance[Target(c)]) = balance[Target(c)] + call[c].amount
      BY <2>6 DEF Target, Changed, Subtracts
    <3>3. Orderly(call'[c], Open) /\ Taken(call'[c])
          /\ \A w \in Wallets : Unbooked(call'[c], w) = 0
      BY <3>1, IdleIs, NothingUnbooked
    <3>4. \A w \in Wallets : Unbooked(call[c], w) =
                                IF w = Target(c) THEN 0 - call[c].amount ELSE 0
      BY <1>2, <2>6, <3>2 DEF Unbooked, Src, Dst
    <3>5. ASSUME ~disturbed', NEW w \in Wallets
          PROVE  balance'[w] + Unbooked(call[c], w) = balance[w] + Unbooked(call'[c], w)
      <4>1. balance[w] \in Int /\ balance[Target(c)] \in Int
        BY <1>2, <1>4
      <4> QED
        BY <1>2, <1>5, <2>3, <3>2, <3>3, <3>4, <3>5, <4>1
    <3> QED
      BY <3>3, <3>5
  <2>7. Told
    BY <1>3, <2>4, <2>5, <2>6
  <2>8. \A d \in Calls : Orderly(call'[d], Open')
    BY <1>4, <2>2, <2>7, StillOrderly
  <2>9. ASSUME ~disturbed' PROVE \A d \in Calls : Taken(call'[d])
    BY <2>2, <2>3, <2>7, <2>9 DEF AccountInv, Only
  <2>10. ASSUME ~disturbed', NEW w \in Wallets PROVE Balanced(w)'
    <3>1. Balanced(w)
      BY <2>3, <2>10 DEF AccountInv
    <3>2. Booked(w) \in Int /\ balance[w] \in Int
      BY BookedInt DEF Inv, TypeOK
    <3>3. Booked(w)' = Booked(w) + 0
      BY <1>1, <3>2 DEF Booked, RowsOf
    <3>4. balance'[w] + Unbooked(call[c], w) = balance[w] + 0 + Unbooked(call'[c], w)
      BY <2>7, <2>10, <3>2
    <3> QED
      BY <2>2, <3>1, <3>3, <3>4, BalancedMoves
  <2> QED
    BY <1>6, <2>8, <2>9, <2>10 DEF AccountInv
<1> QED
  BY <1>7, <1>8

LEMMA NonePending ==
    ASSUME \A c \in Calls : call[c].step \in Before, NEW w \in Wallets
    PROVE  Pending(w) = 0
<1> DEFINE f == [c \in Calls |-> Unbooked(call[c], w)]
<1>1. \A c \in Calls : f[c] = 0
  BY NothingUnbooked
<1> HIDE DEF f
<1>2. SumFunctionOnSet(f, Calls) = 0
  BY <1>1, SumZero, LedgerAssumption
<1> QED
  BY <1>2 DEF Pending, f

\* Booking a row, the operation's next step given.
LEMMA BookedAccount ==
    ASSUME Inv, Inv', AccountInv, NEW c \in Calls, Book(c) \/ BookFails(c), Only(c),
           Orderly(call'[c], Open), Taken(call'[c]),
           \A w \in Wallets : Unbooked(call[c], w) = Unbooked(call'[c], w) +
               (IF call[c].step = "book"
                THEN IF call[c].wallet = w THEN call[c].after - call[c].before ELSE 0
                ELSE IF call[c].to = w THEN call[c].new - call[c].before_to ELSE 0)
    PROVE  AccountInv'
<1>1. UNCHANGED <<holder, balance>> /\ Open' = Open /\ call[c].step \in {"book", "book_to"}
  BY DEF Book, BookFails, Open
<1>2. \A d \in Calls : Orderly(call'[d], Open')
  BY <1>1, StillOrderly
<1>3. CASE BookFails(c)
  <2>1. disturbed' /\ ledger' = ledger
    BY <1>3 DEF BookFails
  <2> QED
    BY <1>1, <1>2, <2>1 DEF AccountInv, Unused
<1>4. CASE Book(c)
  <2> DEFINE r == IF call[c].step = "book" THEN Row(c) ELSE RowTo(c)
  <2>1. r \in RowType /\ ledger' = Append(ledger, r) /\ disturbed' = disturbed
    BY <1>4, RowsAreRows DEF Book
  <2>2. /\ r.wallet = IF call[c].step = "book" THEN call[c].wallet ELSE call[c].to
        /\ r.after = IF call[c].step = "book" THEN call[c].after ELSE call[c].new
        /\ r.before = IF call[c].step = "book" THEN call[c].before ELSE call[c].before_to
    BY DEF Row, RowTo
  <2> HIDE DEF r
  <2>3. r.wallet \in Open /\ r.after \in Int /\ r.before \in Int
    BY <1>1, <2>1, <2>2 DEF AccountInv, Orderly, RowType
  <2>4. Unused'
    <3>1. ledger \in Seq(RowType)
      BY DEF Inv, TypeOK
    <3>2. DOMAIN ledger' = DOMAIN ledger \cup {Len(ledger) + 1}
          /\ ledger'[Len(ledger) + 1] = r /\ \A i \in DOMAIN ledger : ledger'[i] = ledger[i]
      BY <2>1, <3>1
    <3>3. \A i \in DOMAIN ledger' : ledger'[i].wallet \in Open
      BY <2>3, <3>2 DEF AccountInv, Unused
    <3> QED
      BY <1>1, <3>3 DEF AccountInv, Unused
  <2>5. ASSUME ~disturbed' PROVE \A d \in Calls : Taken(call'[d])
    BY <2>1, <2>5 DEF AccountInv, Only
  <2>6. ASSUME ~disturbed', NEW w \in Wallets PROVE Balanced(w)'
    <3> DEFINE b == IF r.wallet = w THEN r.after - r.before ELSE 0
    <3>1. Balanced(w)
      BY <2>1, <2>6 DEF AccountInv
    <3>2. b \in Int /\ balance[w] \in Int
      BY <2>3 DEF Inv, TypeOK
    <3>3. Booked(w)' = Booked(w) + b
      BY <2>1, BookedMoves
    <3>4. Unbooked(call[c], w) = Unbooked(call'[c], w) + b
      BY <2>2
    <3>5. Unbooked(call[c], w) \in Int /\ Unbooked(call'[c], w) \in Int
      BY UnbookedInt DEF Inv, TypeOK
    <3>6. balance'[w] + Unbooked(call[c], w) = balance[w] + b + Unbooked(call'[c], w)
      BY <1>1, <3>2, <3>4, <3>5
    <3> HIDE DEF b
    <3> QED
      BY <3>1, <3>2, <3>3, <3>6, BalancedMoves
  <2> QED
    BY <1>2, <2>4, <2>5, <2>6 DEF AccountInv
<1> QED
  BY <1>3, <1>4

\* A row is booked for what was unbooked, or lost.
LEMMA BookAccount ==
    ASSUME Inv, Inv', AccountInv, NEW c \in Calls, Book(c) \/ BookFails(c)
    PROVE  AccountInv'
<1>1. /\ call[c].step \in {"book", "book_to"} /\ UNCHANGED <<holder, balance>>
      /\ AfterBook(c)
  BY DEF Book, BookFails
<1>2. /\ Orderly(call[c], Open) /\ call[c].wallet \in Open
      /\ call[c].step = "book_to" => call[c].op = "transfer"
      /\ call[c].op = "transfer" => call[c].to \in Open
  BY <1>1 DEF AccountInv, Orderly
<1>3. call[c] \in CallType /\ call[c].new \in Int /\ call[c].before \in Int
      /\ call[c].before_to \in Int /\ call[c].after \in Int
  BY DEF Inv, TypeOK, CallType
<1>4. CASE call[c].step = "book" /\ call[c].op = "transfer"
  <2>1. Goto(c, "book_to")
    BY <1>1, <1>4 DEF AfterBook
  <2>2. /\ Only(c) /\ call'[c].step = "book_to" /\ call'[c].op = call[c].op
        /\ call'[c].wallet = call[c].wallet /\ call'[c].to = call[c].to
        /\ call'[c].before_to = call[c].before_to /\ call'[c].new = call[c].new
    BY <2>1, GotoFacts
  <2>3. Orderly(call'[c], Open) /\ Taken(call'[c])
    BY <1>2, <1>4, <2>2 DEF Orderly, Taken
  <2>4. \A w \in Wallets : Unbooked(call[c], w) = Unbooked(call'[c], w)
                 + (IF call[c].wallet = w THEN call[c].after - call[c].before ELSE 0)
    BY <1>3, <1>4, <2>2 DEF Unbooked, Src, Dst
  <2> QED
    BY <1>4, <2>2, <2>3, <2>4, BookedAccount
<1>5. CASE ~(call[c].step = "book" /\ call[c].op = "transfer")
  <2>1. Only(c) /\ call'[c] = Idle
    BY <1>1, <1>5, DoneFacts DEF AfterBook, Done
  <2>2. Orderly(call'[c], Open) /\ Taken(call'[c]) /\ \A w \in Wallets : Unbooked(call'[c], w) = 0
    BY <2>1, IdleIs, NothingUnbooked
  <2>3. CASE call[c].step = "book"
    <3>1. \A w \in Wallets : Unbooked(call[c], w) = Unbooked(call'[c], w)
                 + (IF call[c].wallet = w THEN call[c].after - call[c].before ELSE 0)
      BY <1>3, <1>5, <2>2, <2>3 DEF Unbooked, Src, Dst
    <3> QED
      BY <2>1, <2>2, <2>3, <3>1, BookedAccount
  <2>4. CASE call[c].step = "book_to"
    <3>1. \A w \in Wallets : Unbooked(call[c], w) = Unbooked(call'[c], w)
                 + (IF call[c].to = w THEN call[c].new - call[c].before_to ELSE 0)
      BY <1>2, <1>3, <2>2, <2>4 DEF Unbooked, Src, Dst
    <3> QED
      BY <2>1, <2>2, <2>4, <3>1, BookedAccount
  <2> QED
    BY <1>1, <2>3, <2>4
<1> QED
  BY <1>4, <1>5

-----------------------------------------------------------------------------
LEMMA AccountInit == ASSUME Init PROVE AccountInv
<1>1. \A c \in Calls : call[c] = Idle
  BY DEF Init
<1>2. Open = {} /\ DOMAIN ledger = {} /\ \A w \in Wallets : RowsOf(w) = {}
  BY DEF Init, Open, RowsOf
<1>3. \A c \in Calls : Orderly(call[c], Open) /\ Taken(call[c])
  BY <1>1, IdleIs, NothingUnbooked
<1>4. Unused
  BY <1>2 DEF Init, Unused
<1>5. ASSUME NEW w \in Wallets PROVE Balanced(w)
  <2>1. Booked(w) = 0
    BY <1>2, SumEmpty DEF Booked
  <2>2. Pending(w) = 0
    <3>1. \A c \in Calls : call[c].step \in Before
      BY <1>1, IdleIs
    <3> QED
      BY <3>1, NonePending
  <2> QED
    BY <2>1, <2>2 DEF Init, Balanced
<1> QED
  BY <1>3, <1>4, <1>5 DEF AccountInv

LEMMA AccountStep == ASSUME Inv, Inv', AccountInv, [Next]_vars PROVE AccountInv'
<1>1. CASE UNCHANGED vars
  BY <1>1 DEF vars, AccountInv, Open, Unused, Balanced, Booked, RowsOf, Pending
<1>2. ASSUME NEW c \in Calls,
             StartCreate(c) \/ StartChange(c) \/ StartTransfer(c) \/ StartRefund(c)
      PROVE  AccountInv'
  BY <1>2, StartAccount
<1>3. ASSUME NEW c \in Calls, CheckExisting(c) \/ CheckFails(c)
      PROVE  AccountInv'
  BY <1>3, CheckAccount
<1>4. ASSUME NEW c \in Calls, InsertWallet(c)
      PROVE  AccountInv'
  BY <1>4, InsertAccount
<1>5. ASSUME NEW c \in Calls, GetWallet(c) \/ GetTo(c)
      PROVE  AccountInv'
  BY <1>5, GetAccount
<1>6. ASSUME NEW c \in Calls, ReadBalance(c)
      PROVE  AccountInv'
  BY <1>6, ReadAccount
<1>7. ASSUME NEW c \in Calls, WriteBalance(c) \/ AnswerLost(c)
      PROVE  AccountInv'
  BY <1>7, WriteAccount
<1>8. ASSUME NEW c \in Calls, Book(c) \/ BookFails(c)
      PROVE  AccountInv'
  BY <1>8, BookAccount
<1>9. ASSUME NEW c \in Calls, StatementFails(c) \/ Vanish(c)
      PROVE  AccountInv'
  BY <1>9, FaultAccount
<1> QED
  BY <1>1, <1>2, <1>3, <1>4, <1>5, <1>6, <1>7, <1>8, <1>9 DEF Next

\* When no operation is in progress the rows of wallet.transactions account for
\* every balance, although update_balance and _create_transaction are separate
\* statements and transfers are rolled back by hand, as long as no two operations
\* overlapped on a wallet and no statement was lost after the first UPDATE of
\* its operation.
THEOREM LedgerAccounted == Spec => []LedgerAccounts
<1>1. Init => Inv /\ AccountInv
  BY LedgerInit, AccountInit
<1>2. Inv /\ AccountInv /\ [Next]_vars => Inv' /\ AccountInv'
  BY LedgerStep, AccountStep
<1>3. Inv /\ AccountInv => LedgerAccounts
  <2> SUFFICES ASSUME Inv, AccountInv, Quiet, ~disturbed, NEW w \in Wallets
               PROVE  balance[w] = Booked(w)
    BY DEF LedgerAccounts
  <2>1. Pending(w) = 0
    BY NonePending DEF Quiet, Before
  <2>2. Booked(w) \in Int
    BY BookedInt
  <2> QED
    BY <2>1, <2>2 DEF AccountInv, Balanced
<1> QED
  BY <1>1, <1>2, <1>3, PTL DEF Spec
=============================================================================
