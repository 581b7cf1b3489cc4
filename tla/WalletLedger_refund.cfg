CONSTANTS
    Calls = {c1}
    Users = {u1}
    NoUser = NoUser
    Wallets = {w1}
    Operations = {"create", "deposit", "consume", "refund"}
    Amounts = {1}
    Initial = {1}
    MaxOps = 4
    MaxFaults = 0
SPECIFICATION Spec
INVARIANT RefundsWithinOriginal
CHECK_DEADLOCK FALSE
