CONSTANTS
    Parts = {"signup", "tenant", "ledger", "rules", "patrons", "page"}
    Requests = {r1, r2}
    Emails = {1, 2}
    Slugs = {1, 2, 3}
    Reserved = {1}
    MaxAttempts = 2
    Limits = {1, 2}
    Unlimited = 9
    NoOne = NoOne
    Reasons = {"debt"}
    Pros = {p1, p2, p3}
    Entry = "basic"
    Tiers = {"basic", "full"}
    Days = {1, 2}
    Trial = 1
    MaxAhead = 4
    LastDay = 1
    MaxTrail = 2
    NoReason = NoReason
    NoPro = NoPro
    Calls = {r1, r2}
    Names = {"sales", "payouts", "rent"}
    Sales = "sales"
    Commissions = "payouts"
    EntryIds = {1}
    Asks = {r1, r2}
    RuleIds = {1, 2}
    Services = {"haircut"}
    Products = {}
    MaxRules = 2
    NoCategory = NoCategory
    NoTarget = NoTarget
    Consumers = {1, 2}
    Phones = {1, 2, 3}
    ClientIds = {1, 2, 3}
    Bookings = {1}
    NoClient = NoClient
    NoConsumer = NoConsumer
    Uploads = {r1, r2}
    Files = {"f1", "f2"}
    MaxGallery = 1
    NoFile = NoFile
    NoUpload = NoUpload
SPECIFICATION Spec
SYMMETRY Symmetric
INVARIANTS TypeOK UsesAreRedemptions AuditTellsSalon ChecksBreakOnlyIfRaced BookedIsListedUnlessRenumbered ShownFilesExist
PROPERTIES OverwritesOnlyIfOvertaken
CHECK_DEADLOCK FALSE
