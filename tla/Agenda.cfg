CONSTANTS
    Appts = {a1, a2}
    Pros = {p1, p2}
    BlockIds = {b1}
    Requests = {r1, r2}
    Horizon = 2
    LastTick = 2
    Durations <- MCDurations
    StaffTolerance = 1
    NoAppt = NoAppt
    NoPro = NoPro
    NoRequest = NoRequest
SPECIFICATION MCSpec
INVARIANTS TypeOK NoDoubleBooking LockProtects BlockOverlapOnlyIfFreedAlone OrphanOnlyIfFreedAlone
PROPERTIES ImplementsCalendar
SYMMETRY MCSymmetry
