SPECIFICATION FairSpec
CONSTANTS
    single = single
    member = member
    Notes = {single, member}
    Kinds <- MCKinds
    Batched = {member}
    NoNote = NoNote
    Devices = {phone, web}
    Ios = {phone}
    Provider = Provider
    Request = Request
    Replicas = {r1, r2}
    Limit = 1
    StatEvery = 1
    MaxFaults = 1
CHECK_DEADLOCK FALSE
INVARIANTS
    OfferedOnce
    StatusIsTrue
PROPERTIES
    Settles
