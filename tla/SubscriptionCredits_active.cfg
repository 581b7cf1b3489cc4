SPECIFICATION Spec
CONSTANTS
    Calls = {c1, c2}
    Payers = {p1}
    Requests = {q1}
    NoRequest = NoRequest
    NoPayer = NoPayer
    Plans = {3}
    Amounts = {1, 2}
    Actuals = {0, 1, 3}
    Adjustments = {2}
    MaxSubs = 2
    MaxHolds = 2
    MaxOps = 5
    MaxFaults = 1
INVARIANTS
    OneActivePerPayer
    EveryUseLogged
CHECK_DEADLOCK FALSE
