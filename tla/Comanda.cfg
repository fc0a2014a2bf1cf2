SPECIFICATION Spec
CONSTANTS
    Tickets = {t1}
    ItemIds = {i1, i2}
    Pros = {ana}
    Registers = {k1}
    Keys = {key1}
    Requests = {r1, r2}
    Prices = {0, 1, 2}
    Amounts = {1}
    Rate = 2
    MaxDrawer = 1
    NoPro = NoPro
    NoKey = NoKey
    NoRequest = NoRequest
    NoTicket = NoTicket
    NoRegister = NoRegister
    NoItem = NoItem
SYMMETRY MCSymmetry
CHECK_DEADLOCK FALSE
INVARIANTS TypeOK EndsEven OverpaidOnlyIfShrunk PayoutsEarned
