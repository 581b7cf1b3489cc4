SPECIFICATION Spec
CONSTANTS
    Calls = {c1, c2}
    Users = {u1, u2}
    NoUser = NoUser
    Types = {"bonus", "subscription"}
    Priority <- Priorities
    Fixed = {}
    Amounts = {1, 3}
    Grants = {2}
    Expiries = {1, 2, 3}
    Campaigns = {k1}
    NoCampaign = NoCampaign
    Budget <- Budgets
    Limit <- Limits
    Never = 3
    MaxAccounts = 2
    MaxAllocs = 2
    MaxOps = 3
    MaxFaults = 1
SYMMETRY Interchangeable
INVARIANTS
    TypeOK
    DriftExplained
    LedgerAgrees
    UsedOnceUnlessShared
    CampaignPays
PROPERTIES
    SoonestFirst
CHECK_DEADLOCK FALSE
