---------------------------- MODULE MCBackOffice ----------------------------
(***************************************************************************)
(* What the people of a salon and of the platform change at once, explored *)
(* one part at a time: the parts share no state.                           *)
(***************************************************************************)
EXTENDS Integers, Sequences, FiniteSets, TLC

CONSTANTS
    Parts, Requests,
    Emails, Slugs, Reserved, MaxAttempts, Limits, Unlimited, NoOne,
    Reasons, Pros, Entry, Tiers, Days, Trial, MaxAhead, LastDay, MaxTrail, NoReason, NoPro,
    Calls, Names, Sales, Commissions, EntryIds, NoCategory,
    Asks, RuleIds, Services, Products, MaxRules, NoTarget,
    Consumers, Phones, ClientIds, Bookings, NoClient, NoConsumer,
    Uploads, Files, MaxGallery, NoFile, NoUpload

\* Maximum of professionals of each plan.
Ceiling == [t \in Tiers |-> IF t = Entry THEN 1 ELSE 2]

Defaults == {[name |-> Sales, direction |-> "INCOME", isArchived |-> FALSE],
             [name |-> Commissions, direction |-> "EXPENSE", isArchived |-> FALSE]}

\* A morning and an afternoon, and a day that meets both.
WorkingWeeks == {{[from |-> 8, to |-> 12], [from |-> 13, to |-> 18]}, {[from |-> 10, to |-> 16]}}

VARIABLES
    part,
    tenants, coupon, holder, signup, edit, lowered,
    today, suspended, trail, trialEnd, granted, sub, staff, team, req, pardoned,
    categories, entries, call,
    rules, ask, tied,
    phone, account, link, booking, joining, renumbered,
    disk, photo, logo, gallery, spare, hours, upload, dropped, crossed

NewSalons == INSTANCE Signup
Tenant == INSTANCE Tenancy
Finances == INSTANCE Ledger
Commission == INSTANCE CommissionRules
Clients == INSTANCE Patrons
Page == INSTANCE Showcase

ASSUME SalonsAssumed == NewSalons!SignupAssumption
ASSUME TenantAssumed == Tenant!TenancyAssumption
ASSUME FinancesAssumed == Finances!LedgerAssumption
ASSUME CommissionAssumed == Commission!RulesAssumption
ASSUME ClientsAssumed == Clients!PatronsAssumption
ASSUME PageAssumed == Page!ShowcaseAssumption

signupVars == <<tenants, coupon, holder, signup, edit, lowered>>
tenancyVars == <<today, suspended, trail, trialEnd, granted, sub, staff, team, req, pardoned>>
ledgerVars == <<categories, entries, call>>
rulesVars == <<rules, ask, tied>>
patronVars == <<phone, account, link, booking, joining, renumbered>>
showcaseVars == <<disk, photo, logo, gallery, spare, hours, upload, dropped, crossed>>
vars == <<part, signupVars, tenancyVars, ledgerVars, rulesVars, patronVars, showcaseVars>>

\* The parts that do not move start in one of their initial states.
Init ==
    /\ part \in Parts
    /\ NewSalons!Init /\ Tenant!Init /\ Finances!Init /\ Commission!Init /\ Clients!Init /\ Page!Init
    /\ part # "signup" => coupon.limit = Unlimited

Next ==
    /\ UNCHANGED part
    /\ \/ /\ part = "signup" /\ NewSalons!Next
          /\ UNCHANGED <<tenancyVars, ledgerVars, rulesVars, patronVars, showcaseVars>>
       \/ /\ part = "tenant" /\ Tenant!Next
          /\ UNCHANGED <<signupVars, ledgerVars, rulesVars, patronVars, showcaseVars>>
       \/ /\ part = "ledger" /\ Finances!Next
          /\ UNCHANGED <<signupVars, tenancyVars, rulesVars, patronVars, showcaseVars>>
       \/ /\ part = "rules" /\ Commission!Next
          /\ UNCHANGED <<signupVars, tenancyVars, ledgerVars, patronVars, showcaseVars>>
       \/ /\ part = "patrons" /\ Clients!Next
          /\ UNCHANGED <<signupVars, tenancyVars, ledgerVars, rulesVars, showcaseVars>>
       \/ /\ part = "page" /\ Page!Next
          /\ UNCHANGED <<signupVars, tenancyVars, ledgerVars, rulesVars, patronVars>>

Spec == Init /\ [][Next]_vars

\* Requests, Calls, Asks and Uploads are the same model values: one permutation moves them all.
Symmetric == Permutations(Requests) \cup Permutations(Pros)

\* Every row and request of the six has its shape.
TypeOK ==
    /\ NewSalons!TypeOK /\ Tenant!TypeOK /\ Finances!TypeOK
    /\ Commission!TypeOK /\ Clients!TypeOK /\ Page!TypeOK

\* What a service looks at before it writes still holds after the write, unless another request wrote
\* in between: the uses of a coupon within its limit, the active team within the plan, one active rule
\* for a target and one that pays a sale, no two intervals of a professional that overlap.
ChecksBreakOnlyIfRaced ==
    /\ NewSalons!LimitBrokenOnlyIfLowered
    /\ Tenant!OverLimitOnlyIfOvertaken
    /\ Commission!TieOnlyIfOvertaken /\ Commission!OnePays
    /\ Page!HoursOverlapOnlyIfRaced

\* What a request refuses to replace is replaced only by one that had read it before: a paid
\* subscription by a courtesy, a cancelled entry by a settled one.
OverwritesOnlyIfOvertaken ==
    Tenant!CourtesyOverPaidOnlyIfOvertaken /\ Finances!CanceledBackOnlyIfOvertaken

\* The other properties of the modules, stated there.
UsesAreRedemptions == NewSalons!UsesAreRedemptions
AuditTellsSalon == Tenant!AuditTellsSalon
BookedIsListedUnlessRenumbered == Clients!BookedIsListedUnlessRenumbered
ShownFilesExist == Page!ShownFilesExist
=============================================================================
