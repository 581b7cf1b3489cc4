CONSTANTS
    Calls = {c1, c2}
    Users = {u1}
    NoUser = NoUser
    Wallets = {w1}
    Operations = {"create", "deposit", "withdraw", "consume"}
    Amounts = {1}
    Initial = {1}
    MaxOps = 4
    MaxFaults = 0
SPECIFICATION Spec
INVARIANT NoOverdraft
CHECK_DEADLOCK FALSE
