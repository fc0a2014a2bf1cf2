SPECIFICATION Spec
CONSTANTS
    Attempts = {a1, a2}
    Workers = {w1}
    Cron = cron
    Plans = {basic}
    Operations = {"checkout", "CARD", "PIX", "coupon", "cancel", "courtesy", "crash"}
    Month = 1
    RenewalWindow = 2
    PixValidity = 0
    CardTtl = 1
    LastTick = 2
    MaxRedemptions = 2
    NoAttempt = NoAttempt
    NoWorker = NoWorker
    NoPlan = NoPlan
SYMMETRY MCSymmetry
CHECK_DEADLOCK FALSE
INVARIANTS CardConverges
