------------------------------ MODULE MCPortal ------------------------------
(***************************************************************************)
(* What people see on the site and what the backend answers them, explored *)
(* one part at a time: the parts share no state.  Portal's pages are those *)
(* of Pages.                                                               *)
(***************************************************************************)
EXTENDS Portal, Pages, Integers, FiniteSets

CONSTANTS
    Parts,
    Plans, Entry, Ceiling, MaxTeam, Month, Grace, Window, TrialDays, Closing, Forever,
    Experts, MaxCalls, MaxEntries, MaxTaken, Today, NoExpert, Nothing, NoKey,
    Days, Team, Everyone, MaxQueue, MaxSaved,
    Minute, DayMinutes, Granularity, Lead, MaxLead, Weeks, Durations, Stretches, LastInstant

VARIABLES
    part,
    clock, trialUntil, barred, online, plan, agreement, charged, headcount,
    step, timer, service, expert, day, slot, crew, crewCalls, slots, calls, sending, warned, booked,
    post, taken, entries, got, unheard,
    date, filter, calendar, loadError, options, panel, dialog, queue, saved, astray,
    now, ahead, hours, gives, shut, busy, visit, offer, outcome

\* A plan for one professional and one for any team.
Rooms == [t \in Plans |-> IF t = Entry THEN 1 ELSE MaxTeam + 1]

\* Two ways to spend a wizard's choices: two services on one day, one service on two days.
Gives(services) == {p \in {<<"ana", "cut">>, <<"bia", "cut">>, <<"ana", "dye">>} : p[2] \in services}

\* A day with a break and a shorter one; stretches that start or end between two minutes.
WorkingWeeks == {{[from |-> 0, to |-> 4], [from |-> 5, to |-> 8]}, {[from |-> 2, to |-> 7]}}
BusyStretches == {[from |-> 2, to |-> 5], [from |-> 8, to |-> 12], [from |-> 11, to |-> 13]}

Plan == INSTANCE Access
Services2 == INSTANCE Wizard WITH Services <- {"cut", "dye"}, Dates <- {Today}, Nobody <- NoExpert,
                                  Serves <- Gives({"cut", "dye"}), MaxEntries <- 0,
                                  offer <- slots, told <- warned, mine <- got
Days2 == INSTANCE Wizard WITH Services <- {"cut"}, Dates <- {Today, Today + 1}, Nobody <- NoExpert,
                              Serves <- Gives({"cut"}), offer <- slots, told <- warned, mine <- got
Screen == INSTANCE AgendaScreen
Times == INSTANCE Offer

ASSUME SiteAssumed == Site \subseteq SitePages
ASSUME PlanAssumed == Plan!AccessAssumption
ASSUME WizardsAssumed == Services2!WizardAssumption /\ Days2!WizardAssumption
ASSUME ScreenAssumed == Screen!ScreenAssumption
ASSUME TimesAssumed == Times!OfferAssumption

planVars == <<clock, trialUntil, barred, online, plan, agreement, charged, headcount>>
wizardVars == <<step, timer, service, expert, day, slot, crew, crewCalls, slots, calls, sending, warned,
                booked, post, taken, entries, got, unheard>>
agendaVars == <<date, filter, calendar, loadError, options, panel, dialog, queue, saved, astray>>
timeVars == <<now, ahead, hours, gives, shut, busy, visit, offer, outcome>>
allVars == <<part, vars, planVars, wizardVars, agendaVars, timeVars>>

\* The parts that do not move start in one of their initial states.
MCInit ==
    /\ part \in Parts
    /\ Init /\ Plan!Init /\ Days2!Init /\ Screen!Init /\ Times!Init
    /\ part # "site" => page.name = "clientes" /\ role = "OWNER" /\ row.is = "SOME" /\ ~lapsed
    /\ part # "plan" => online
    /\ part # "screen" => date = Today /\ ~loadError
    /\ part # "times" => ahead = 0 /\ visit.first = 2 /\ [from |-> 2, to |-> 7] \in hours

MCNext ==
    /\ UNCHANGED part
    /\ \/ part = "site" /\ Next /\ UNCHANGED <<planVars, wizardVars, agendaVars, timeVars>>
       \/ part = "plan" /\ Plan!Next /\ UNCHANGED <<vars, wizardVars, agendaVars, timeVars>>
       \/ part = "services" /\ Services2!Next /\ UNCHANGED <<vars, planVars, agendaVars, timeVars>>
       \/ part = "days" /\ Days2!Next /\ UNCHANGED <<vars, planVars, agendaVars, timeVars>>
       \/ part = "screen" /\ Screen!Next /\ UNCHANGED <<vars, planVars, wizardVars, timeVars>>
       \/ part = "times" /\ Times!Next /\ UNCHANGED <<vars, planVars, wizardVars, agendaVars>>

MCSpec == MCInit /\ [][MCNext]_allVars

\* What holds of a part, where it is the one that moves.
Of(moving, holds) == part = moving => holds
Booking(services, days) == Of("services", services) /\ Of("days", days)

\* The properties of the instances, stated there, each with the shapes of the part's variables.
ScreensAgree == Of("plan", Plan!TypeOK /\ Plan!ScreensAgree)
WayToPay == Of("plan", Plan!WayToPay)
SentIsOffered ==
    Booking(Services2!TypeOK /\ Services2!SentIsOffered, Days2!TypeOK /\ Days2!SentIsOffered)
BooksTwiceOnlyIfUnheard == Booking(Services2!BooksTwiceOnlyIfUnheard, Days2!BooksTwiceOnlyIfUnheard)
ShowsItsDay == Of("screen", Screen!TypeOK /\ Screen!ShowsItsDay)
OfferIsKept == Of("times", Times!TypeOK /\ Times!OfferIsKept)
=============================================================================
