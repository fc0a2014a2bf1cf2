CONSTANTS
    Appts = {a1}
    Pros = {p1}
    BlockIds = {b1}
    Requests = {r1, r2}
    Horizon = 2
    LastTick = 2
    Durations <- MCDurations
    StaffTolerance = 1
    NoAppt = NoAppt
    NoPro = NoPro
    NoRequest = NoRequest
SPECIFICATION MCSpec
PROPERTIES FinalIsFinal
