CONSTANTS
    Calls = {c1}
    Users = {u1, u2}
    NoUser = NoUser
    Wallets = {w1, w2}
    Operations = {"create", "transfer"}
    Amounts = {1}
    Initial = {1}
    MaxOps = 4
    MaxFaults = 1
SPECIFICATION Spec
INVARIANT NoPartialTransfers
CHECK_DEADLOCK FALSE
