CONSTANTS
    Parts = {"plan"}
    Site <- SitePages
    MaxSent = 2
    MaxOthers = 1
    Plans = {"basic", "full"}
    Entry = "basic"
    Ceiling <- Rooms
    MaxTeam = 2
    Month = 3
    Grace = 1
    Window = 1
    TrialDays = 4
    Closing = 8
    Forever = Forever
    Experts = {"ana", "bia"}
    MaxCalls = 2
    MaxEntries = 1
    MaxTaken = 1
    Today = 1
    NoExpert = NoExpert
    Nothing = Nothing
    NoKey = NoKey
    Days = {1, 2}
    Team = {"ana", "bia"}
    Everyone = Everyone
    MaxQueue = 3
    MaxSaved = 3
    Minute = 2
    DayMinutes = 8
    Granularity = 2
    Lead = 2
    MaxLead = 0
    Weeks <- WorkingWeeks
    Durations = {2, 3}
    Stretches <- BusyStretches
    LastInstant = 6
SPECIFICATION MCSpec
INVARIANTS WayToPay
CHECK_DEADLOCK FALSE
