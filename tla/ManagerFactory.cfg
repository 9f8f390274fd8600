CONSTANTS
    Workers = {w1, w2, w3}
    Accounts = {acct}
    Regions = {region}
    Roles = {a, b}
    NoManager = NoManager
    MaxCalls = 2
SPECIFICATION FairSpec
CHECK_DEADLOCK FALSE
INVARIANTS
    TypeOK
    NoConcurrentMapWrite
    AtMostOnePerWorker
PROPERTY
    IsAtomic
    EveryCallReturns
