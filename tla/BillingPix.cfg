SPECIFICATION FairSpec
CONSTANTS
    Attempts = {a1, a2}
    Workers = {w1}
    Cron = cron
    Plans = {basic}
    Operations = {"checkout", "PIX", "coupon", "expire"}
    Month = 2
    RenewalWindow = 2
    PixValidity = 0
    CardTtl = 1
    LastTick = 2
    MaxRedemptions = 2
    NoAttempt = NoAttempt
    NoWorker = NoWorker
    NoPlan = NoPlan
CHECK_DEADLOCK FALSE
INVARIANTS CreditedOnce CouponCountExact LostOnlyIfBlind
PROPERTIES PixKeepsDays StaleAttemptsEnd
