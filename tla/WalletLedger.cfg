CONSTANTS
    Calls = {c1, c2}
    Users = {u1, u2}
    NoUser = NoUser
    Wallets = {w1, w2}
    Operations = {"create", "deposit", "withdraw", "consume", "transfer", "refund"}
    Amounts = {1}
    Initial = {0, 1}
    MaxOps = 4
    MaxFaults = 1
SPECIFICATION Spec
INVARIANTS NonNegative LedgerAccounts
CHECK_DEADLOCK FALSE
