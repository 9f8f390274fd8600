CONSTANTS
    Workers = {w1, w2}
    Accounts = {acct}
    Regions = {region}
    Roles = {a}
    NoManager = NoManager
    MaxCalls = 1
SPECIFICATION Spec
CHECK_DEADLOCK FALSE
INVARIANT
    OneManagerPerId
