SPECIFICATION Spec
CONSTANTS
    Attempts = {a1}
    Workers = {w1, w2}
    Cron = cron
    Plans = {basic, pro}
    Operations = {"checkout", "CARD", "coupon", "poll", "cancel", "change", "pause"}
    Month = 1
    RenewalWindow = 2
    PixValidity = 0
    CardTtl = 1
    LastTick = 2
    MaxRedemptions = 2
    NoAttempt = NoAttempt
    NoWorker = NoWorker
    NoPlan = NoPlan
SYMMETRY MCSymmetry
CHECK_DEADLOCK FALSE
INVARIANTS RunsOnOnlyIfStale
PROPERTIES ImplementsSubscription
