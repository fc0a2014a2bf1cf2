------------------------------- MODULE Access -------------------------------
(***************************************************************************)
(* What a salon's trial, subscription and suspension let it do as time     *)
(* passes (billing-status.util.ts), read four times over: by the server    *)
(* that takes or refuses a payment (payments.service.ts), by the plan page *)
(* that offers it (frontend lib/billing.ts, dashboard/plano), by the       *)
(* banner, and by the platform's lists and counts                          *)
(* (platform-admin.service.ts).                                            *)
(*                                                                         *)
(* A payment is one step here: attempts, notifications and the order they  *)
(* are read in are module Billing's.                                       *)
(***************************************************************************)
EXTENDS Integers, FiniteSets

CONSTANTS
    Plans, Entry,           \* the tiers, and that of a salon without a subscription
    Ceiling,                \* Ceiling[t]: maxProfessionals, above any team for null
    MaxTeam,                \* a bound on the team
    Month, Grace, Window,   \* a paid period, PAST_DUE_GRACE_MS and RENEWAL_WINDOW_MS, in days
    TrialDays, Closing,     \* of a new salon; the bound on the clock
    Forever                 \* a null currentPeriodEnd

\* Assumed of the constants by whoever instantiates the module.
AccessAssumption ==
    /\ {Month, Grace, Window, TrialDays, Closing, MaxTeam} \subseteq Nat
    /\ Entry \in Plans /\ Ceiling \in [Plans -> Nat]
    /\ Forever \notin Nat

VARIABLES
    clock,
    trialUntil, barred,     \* trialEndsAt, and whether suspendedAt is set
    online,                 \* a payment provider is configured
    plan,                   \* the Subscription, NoPlan for none
    agreement, charged,     \* the recurrence at the provider, and whether it charged once
    headcount               \* professionals that are active

accessVars == <<clock, trialUntil, barred, online, plan, agreement, charged, headcount>>

Methods == {"CARD_RECURRING", "PIX_MONTHLY"}
Paid(m, t, until) == [status |-> "ACTIVE", courtesy |-> FALSE, method |-> m, tier |-> t,
                      until |-> until, ending |-> FALSE]
NoPlan == [Paid("NONE", "NONE", Forever) EXCEPT !.status = "NONE"]
Free(t, until) == [Paid("NONE", t, until) EXCEPT !.courtesy = TRUE]

Statuses == {"TRIALING", "TRIAL_EXPIRED", "SUSPENDED", "EXPIRED", "PERIOD_ENDED",
             "ACTIVE", "PAST_DUE", "CANCELED", "UNPAID"}

-----------------------------------------------------------------------------
(* billing-status.util.ts *)

Over(p) == p.until # Forever /\ p.until <= clock

StatusOf(p) ==
    IF barred THEN "SUSPENDED"
    ELSE IF p = NoPlan THEN IF trialUntil > clock THEN "TRIALING" ELSE "TRIAL_EXPIRED"
    ELSE IF p.courtesy /\ Over(p) THEN "EXPIRED"
    ELSE IF ~p.courtesy /\ p.method = "PIX_MONTHLY" /\ Over(p) THEN "PERIOD_ENDED"
    ELSE IF p.status = "ACTIVE" /\ p.ending /\ Over(p) THEN "CANCELED"
    ELSE IF p.status = "PAST_DUE" /\ ~p.courtesy /\ Over(p) /\ clock > p.until + Grace THEN "UNPAID"
    ELSE p.status

Status == StatusOf(plan)
HasAccess(s) == s \in {"TRIALING", "ACTIVE", "PAST_DUE"}

-----------------------------------------------------------------------------
(* What the server takes, whatever the page shows *)

Running(p) == p.status \in {"ACTIVE", "PAST_DUE"}

\* Variant: as if one more were to be added.
HasRoomForOneMore(t) == headcount < Ceiling[t]

\* assertCanDowngrade: nobody is deactivated because of a payment.
HasRoom(t) == headcount <= Ceiling[t]

\* Variant: a recurrence cancelled, whose paid time is over, is still in the way.
CanStartUnlessRunning(t) ==
    /\ online /\ HasRoom(t) /\ ~barred
    /\ \/ plan = NoPlan
       \/ plan.courtesy
       \/ plan.method = "CARD_RECURRING" /\ ~Running(plan)
       \/ plan.method = "PIX_MONTHLY" /\ (plan.until = Forever \/ plan.until - clock <= Window)

\* createAttempt: the team, then assertCanStart.
CanStart(t) ==
    /\ online /\ HasRoom(t) /\ ~barred
    /\ \/ plan = NoPlan
       \/ plan.courtesy
       \/ plan.method = "CARD_RECURRING" /\ (Running(plan) => plan.ending /\ Over(plan))
       \/ plan.method = "PIX_MONTHLY" /\ (plan.until = Forever \/ plan.until - clock <= Window)

CanChange(t) ==
    /\ plan # NoPlan /\ ~plan.courtesy
    /\ plan.status = "ACTIVE" /\ ~plan.ending /\ plan.tier # t
    /\ plan.method = "PIX_MONTHLY" => ~Over(plan)
    /\ HasRoom(t)
    /\ plan.method = "CARD_RECURRING" => online /\ charged

CanCancel ==
    /\ plan # NoPlan /\ ~plan.courtesy
    /\ plan.method = "CARD_RECURRING" => online

-----------------------------------------------------------------------------
(* What the plan page offers the owner *)

NearEnd(p) == p.until = Forever \/ p.until - clock <= Window

PlanActionFor(t) ==
    LET mayChange == Status = "ACTIVE" /\ ~plan.ending
        other == IF plan.tier = t THEN "CURRENT" ELSE IF mayChange THEN "CHANGE" ELSE "BLOCKED"
    IN  IF ~online \/ Status = "SUSPENDED" THEN "BLOCKED"
        ELSE IF plan = NoPlan \/ plan.courtesy THEN "SUBSCRIBE"
        ELSE IF plan.method = "CARD_RECURRING" /\ Status \in {"ACTIVE", "PAST_DUE"} THEN other
        ELSE IF plan.method = "PIX_MONTHLY"
               THEN IF Status # "ACTIVE" \/ NearEnd(plan) THEN "RENEW_PIX" ELSE other
        ELSE "SUBSCRIBE"

\* The methods the checkout dialog lets the owner choose.
Choices(t) ==
    CASE PlanActionFor(t) = "SUBSCRIBE" -> Methods
      [] PlanActionFor(t) = "RENEW_PIX" -> {"PIX_MONTHLY"}
      [] OTHER -> {}

CancelOffered ==
    plan # NoPlan /\ ~plan.courtesy /\ ~plan.ending /\ Status = "ACTIVE"

\* The tone of the banner over every page, "none" for no banner.
BannerFor(s) ==
    CASE s = "ACTIVE" -> IF plan.ending /\ plan.until # Forever THEN "warning" ELSE "none"
      [] s = "TRIALING" -> IF trialUntil - clock > 3 THEN "none" ELSE "warning"
      [] s = "PAST_DUE" -> "warning"
      [] OTHER -> "danger"

-----------------------------------------------------------------------------
(* What the platform's administrators are shown *)

\* The list reads no method of the subscription, the salon's own page does.
ListedStatus == StatusOf(IF plan = NoPlan THEN plan ELSE [plan EXCEPT !.method = "NONE"])

\* statusWhere: the filter of the list.
FoundUnder(s) ==
    CASE s = "SUSPENDED" -> barred
      [] s = "TRIALING" -> ~barred /\ plan = NoPlan /\ trialUntil > clock
      [] s = "TRIAL_EXPIRED" -> ~barred /\ plan = NoPlan /\ trialUntil <= clock
      [] OTHER -> ~barred /\ plan.status = s

\* The overview's count of the salon, under one heading or several.
Headings == {s \in Statuses : FoundUnder(s)}

\* The salon counts in the monthly revenue and in the paying salons.
InRevenue == ~barred /\ plan # NoPlan /\ Running(plan)

-----------------------------------------------------------------------------
Init ==
    /\ clock = 0 /\ trialUntil = TrialDays /\ barred = FALSE
    /\ online \in BOOLEAN
    /\ plan = NoPlan /\ agreement = "none" /\ charged = FALSE /\ headcount = 0

\* A checkout the page offers, that the server starts and the owner pays by card.
PayByCard(t) ==
    /\ "CARD_RECURRING" \in Choices(t) /\ CanStart(t)
    /\ plan' = Paid("CARD_RECURRING", t, clock + Month)
    /\ agreement' = "authorized" /\ charged' = FALSE
    /\ UNCHANGED <<clock, trialUntil, barred, online, headcount>>

\* The same by Pix: a month from now, or from the end of the Pix month still running.
PayByPix(t) ==
    /\ "PIX_MONTHLY" \in Choices(t) /\ CanStart(t)
    /\ LET keeps == plan # NoPlan /\ plan.method = "PIX_MONTHLY" /\ ~Over(plan)
       IN  plan' = Paid("PIX_MONTHLY", t, (IF keeps THEN plan.until ELSE clock) + Month)
    /\ agreement' = "none" /\ charged' = FALSE
    /\ UNCHANGED <<clock, trialUntil, barred, online, headcount>>

ChangePlan(t) ==
    /\ PlanActionFor(t) = "CHANGE" /\ CanChange(t)
    /\ plan' = [plan EXCEPT !.tier = t]
    /\ UNCHANGED <<clock, trialUntil, barred, online, agreement, charged, headcount>>

Cancel ==
    /\ CancelOffered /\ CanCancel
    /\ plan' = [plan EXCEPT !.ending = TRUE]
    /\ agreement' = IF agreement = "none" THEN "none" ELSE "cancelled"
    /\ UNCHANGED <<clock, trialUntil, barred, online, charged, headcount>>

\* The provider charges the card, for the first time or for the next month.
Charge ==
    /\ agreement = "authorized" /\ (~charged \/ Over(plan))
    /\ charged' = TRUE
    /\ plan' = [plan EXCEPT !.status = "ACTIVE", !.ending = FALSE,
                            !.until = IF charged THEN @ + Month ELSE @]
    /\ UNCHANGED <<clock, trialUntil, barred, online, agreement, headcount>>

\* It gives up for now, takes up again, or ends the recurrence.
Pause ==
    /\ agreement = "authorized"
    /\ agreement' = "paused" /\ plan' = [plan EXCEPT !.status = "PAST_DUE"]
    /\ UNCHANGED <<clock, trialUntil, barred, online, charged, headcount>>

Resume ==
    /\ agreement = "paused"
    /\ agreement' = "authorized" /\ charged' = TRUE
    /\ plan' = [plan EXCEPT !.status = "ACTIVE", !.ending = FALSE, !.until = clock + Month]
    /\ UNCHANGED <<clock, trialUntil, barred, online, headcount>>

EndAgreement ==
    /\ agreement \in {"authorized", "paused"}
    /\ agreement' = "cancelled" /\ plan' = [plan EXCEPT !.ending = TRUE]
    /\ UNCHANGED <<clock, trialUntil, barred, online, charged, headcount>>

\* The platform's hand, whose guards are module Tenancy's.
GrantCourtesy(t, until) ==
    /\ plan = NoPlan \/ plan.courtesy
    /\ HasRoom(t)
    /\ plan' = Free(t, until)
    /\ UNCHANGED <<clock, trialUntil, barred, online, agreement, charged, headcount>>

RemoveCourtesy ==
    /\ plan # NoPlan /\ plan.courtesy
    /\ plan' = NoPlan
    /\ UNCHANGED <<clock, trialUntil, barred, online, agreement, charged, headcount>>

\* A professional more, up to the plan's ceiling, or one less: the owner's routes, behind the guard.
Hire ==
    /\ HasAccess(Status) /\ headcount < MaxTeam
    /\ headcount < Ceiling[IF plan = NoPlan THEN Entry ELSE plan.tier]
    /\ headcount' = headcount + 1
    /\ UNCHANGED <<clock, trialUntil, barred, online, plan, agreement, charged>>

Dismiss ==
    /\ HasAccess(Status) /\ headcount > 0 /\ headcount' = headcount - 1
    /\ UNCHANGED <<clock, trialUntil, barred, online, plan, agreement, charged>>

Suspension ==
    /\ barred' = ~barred
    /\ UNCHANGED <<clock, trialUntil, online, plan, agreement, charged, headcount>>

DayPasses ==
    /\ clock < Closing /\ clock' = clock + 1
    /\ UNCHANGED <<trialUntil, barred, online, plan, agreement, charged, headcount>>

Next ==
    \/ \E t \in Plans :
        \/ PayByCard(t) \/ PayByPix(t) \/ ChangePlan(t)
        \/ \E until \in {Forever, clock + 1} : GrantCourtesy(t, until)
    \/ Cancel \/ Charge \/ Pause \/ Resume \/ EndAgreement
    \/ RemoveCourtesy \/ Hire \/ Dismiss \/ Suspension \/ DayPasses

Spec == Init /\ [][Next]_accessVars

-----------------------------------------------------------------------------
TypeOK ==
    /\ clock \in 0..Closing /\ trialUntil \in Nat /\ {barred, online, charged} \subseteq BOOLEAN
    /\ Status \in Statuses /\ headcount \in 0..MaxTeam
    /\ agreement \in {"none", "authorized", "paused", "cancelled"}
    /\ agreement # "none" => plan.method = "CARD_RECURRING"

\* The card is refused at the provider, which keeps the recurrence for later.
PausedCard == agreement = "paused"

TeamExceeds(t) == headcount > Ceiling[t]

\* Every button of the plan page that would change what the salon pays is taken by the server while
\* nothing changes in between, save three: a plan without room for the team, whose size the page does
\* not know; a new subscription over a card whose recurrence is paused; and a change of plan before
\* the card's first charge. The banner is red exactly when the server refuses the salon everything
\* else.
PlanPageAgrees ==
    /\ \A t \in Plans : Choices(t) # {} => CanStart(t) \/ TeamExceeds(t) \/ PausedCard
    /\ \A t \in Plans : PlanActionFor(t) = "CHANGE" =>
           CanChange(t) \/ TeamExceeds(t) \/ (agreement = "authorized" /\ ~charged)
    /\ CancelOffered => CanCancel \/ ~online
    /\ (BannerFor(Status) = "danger") <=> ~HasAccess(Status)

\* An owner whose salon is shut out, and who could pay, is offered some payment the server takes.
\* (lib/billing.ts calls these the states in which the owner can, and must, pay to go on.)
WayToPay ==
    ~HasAccess(Status) /\ ~barred /\ online => \E t \in Plans : Choices(t) # {} /\ CanStart(t)

\* The administrators' list shows a salon's status as its own page and the server do, except that a
\* salon whose Pix month ended is listed as active; the overview counts every salon once, under its
\* status or, for the four a filter cannot tell, under its subscription's; and a salon that counts in
\* the revenue but is shut out is one of those four.
PlatformSeesStatus ==
    /\ ListedStatus # Status => Status = "PERIOD_ENDED"
    /\ Cardinality(Headings) = 1
    /\ Headings # {Status} => Status \in {"EXPIRED", "PERIOD_ENDED", "CANCELED", "UNPAID"}
    /\ InRevenue /\ ~HasAccess(Status) => Headings # {Status}

\* Three readings of one subscription, computed apart, say the same of it: the server's, the plan
\* page's and the platform's.
ScreensAgree == PlanPageAgrees /\ PlatformSeesStatus
=============================================================================
