CONSTANTS
    Parts = {"staff", "client", "lock"}
    Tokens = {1, 2, 3}
    Processes = {p1}
    Requests = {r1, r2}
    AccessLife = 1
    RefreshLife = 3
    MaxAge = 3
    Grace = 0
    Share = 0
    Horizon = 2
    NoToken = NoToken
    NoRequest = NoRequest
    Never = Never
    Devices = {d1, d2}
    Calls = {r1, r2}
    Sids = {1, 2}
    Ttl = 2
    RenewWithin = 1
    Retention = 0
    LastDay = 2
    MaxHash = 2
    MaxId = 2
    NoSid = NoSid
    Attempts = {r1, r2}
    Threshold = 2
    MaxWrong = 4
    LastMinute = 3
SPECIFICATION Spec
SYMMETRY Symmetric
INVARIANTS TypeOK RevokedIsOver SpentOnce ExchangedOncePerProcess OldSessionOnlyIfUnended NoneUncounted LockBites
CHECK_DEADLOCK FALSE
