-------------------------------- MODULE Offer --------------------------------
(***************************************************************************)
(* The times a client is offered (AvailabilityService.getAvailableSlots)   *)
(* and what the backend then checks when one of them is booked, or taken   *)
(* as the new time of a visit: one professional, one day, several people.  *)
(***************************************************************************)
EXTENDS Naturals

CONSTANTS
    Minute,         \* instants in a minute: an appointment may start between two minutes
    DayMinutes,
    Granularity,    \* minutes between two starts
    Lead, MaxLead,  \* the least notice, in instants, and how many days ahead is too far
    Weeks,          \* the working hours the professional may have: sets of intervals in minutes
    Durations,      \* of the services, in minutes
    Stretches,      \* what else may fill the day: intervals in instants
    LastInstant

\* Assumed of the constants by whoever instantiates the module.
OfferAssumption ==
    /\ {Minute, Granularity} \subseteq Nat \ {0}
    /\ {DayMinutes, Lead, MaxLead, LastInstant} \subseteq Nat /\ Durations \subseteq Nat \ {0}
    /\ Weeks \subseteq SUBSET [from : 0..DayMinutes, to : 0..DayMinutes]
    /\ Stretches \subseteq [from : Nat, to : Nat]

VARIABLES
    now,
    ahead,      \* the day asked for, counted from today
    hours,      \* the professional's WorkingHours of that weekday
    gives,      \* the professional is active and gives the services
    shut,       \* the salon's billing gives no access (computeBillingStatus)
    busy,       \* blocks, and appointments of others that hold their time
    visit,      \* the client's own: when, the services in it, and whether it is booked
    offer,      \* the starts on the screen, for which service, and whether the day changed since
    outcome     \* of the last booking or move

offerVars == <<now, ahead, hours, gives, shut, busy, visit, offer, outcome>>

Interval(from, to) == [from |-> from, to |-> to]

\* intervalsOverlap, and the WHERE of assertNoConflict.
Overlap(a, b) == a.from < b.to /\ b.from < a.to

Own == IF visit.booked THEN {visit.at} ELSE {}

TypeOK ==
    /\ now \in 0..LastInstant /\ ahead \in 0..(MaxLead + 1) /\ hours \in Weeks /\ busy \subseteq Stretches
    /\ {gives, shut} \subseteq BOOLEAN
    /\ visit.booked \in BOOLEAN /\ visit.first \in Durations /\ visit.second \in Durations \cup {0}
    /\ offer.starts \subseteq 0..DayMinutes /\ offer.service \in Durations /\ offer.changed \in BOOLEAN
    /\ outcome.done \in {"none", "kept", "refused"} /\ {outcome.excused, outcome.inside} \subseteq BOOLEAN

-----------------------------------------------------------------------------
(* What is offered *)

\* The day's instants, from midnight of today.
Instant(minute) == Minute * (ahead * DayMinutes + minute)

\* Variant: the part of a minute that is taken leaves the minute free.
FreeMinutes(b) == Interval((b.from + Minute - 1) \div Minute, b.to \div Minute)

\* The minutes of the day that a range in instants touches.
BusyMinutes(b) == Interval(b.from \div Minute, (b.to + Minute - 1) \div Minute)

\* The loop over each interval: from its start, by the granularity, while the service fits.
Candidates(duration) ==
    UNION {{s \in i.from..i.to : (s - i.from) % Granularity = 0 /\ s + duration <= i.to} : i \in hours}

Slots(duration) ==
    IF ~gives \/ ahead > MaxLead THEN {}
    ELSE {s \in Candidates(duration) :
             /\ Instant(s) >= now + Lead
             /\ \A b \in busy \cup Own : ~Overlap(Interval(s, s + duration), BusyMinutes(b))}

\* The wizard asks for a service; the ticket of a visit for the first service of its own.
Ask ==
    /\ \E d \in IF visit.booked THEN {visit.first} ELSE Durations :
           offer' = [starts |-> Slots(d), service |-> d, changed |-> FALSE]
    /\ UNCHANGED <<now, ahead, hours, gives, shut, busy, visit, outcome>>

-----------------------------------------------------------------------------
(* What is booked *)

\* In instants of the day.
Range(start, minutes) == Interval(Minute * start, Minute * (start + minutes))

\* Variant: a visit that is booked cannot be moved either.
TakesNothingWhileShut == ~shut

\* assertTenantAcceptsBookings: a new booking; whoever has one may still move it.
TakesBookings == visit.booked \/ ~shut

\* The salon, the service and the date; then assertNoConflict under the professional's lock, without
\* the visit itself.
Accepted(start, minutes) ==
    /\ TakesBookings /\ gives
    /\ Instant(start) > now
    /\ \A b \in busy : ~Overlap(Range(start, minutes), b)

\* A visit of the client's: booked with one service, or moved with all of its services.
Take(start) ==
    /\ start \in offer.starts
    /\ LET minutes == IF visit.booked THEN visit.first + visit.second ELSE offer.service IN
        /\ visit' = IF Accepted(start, minutes)
                      THEN [visit EXCEPT !.booked = TRUE, !.at = Range(start, minutes),
                                         !.first = IF visit.booked THEN @ ELSE offer.service,
                                         !.second = IF visit.booked THEN @ ELSE 0]
                      ELSE visit
        /\ outcome' = [done |-> IF Accepted(start, minutes) THEN "kept" ELSE "refused",
                       excused |-> offer.changed \/ Instant(start) <= now
                                   \/ (IF visit.booked THEN visit.second > 0 ELSE shut),
                       inside |-> \E i \in hours : i.from <= start /\ start + minutes <= i.to]
        /\ offer' = [offer EXCEPT !.changed = @ \/ Accepted(start, minutes)]
    /\ UNCHANGED <<now, ahead, hours, gives, shut, busy>>

-----------------------------------------------------------------------------
(* The salon and the clock *)

\* The staff, whom TenantBillingGuard stops while the salon is shut, adds a service to the visit by
\* booking it again themselves, or moves it to any time.
Staff ==
    /\ ~shut /\ gives
    /\ \E at \in Stretches, extra \in Durations \cup {0} :
           /\ \A b \in busy : ~Overlap(at, b)
           /\ visit' = [visit EXCEPT !.booked = TRUE, !.at = at, !.second = extra]
    /\ offer' = [offer EXCEPT !.changed = TRUE]
    /\ UNCHANGED <<now, ahead, hours, gives, shut, busy, outcome>>

\* Somebody books, cancels, blocks or frees a stretch.
Fill ==
    /\ \E b \in Stretches :
           \/ b \in busy /\ busy' = busy \ {b}
           \/ (\A o \in busy \cup Own : ~Overlap(b, o)) /\ busy' = busy \cup {b}
    /\ offer' = [offer EXCEPT !.changed = TRUE]
    /\ UNCHANGED <<now, ahead, hours, gives, shut, visit, outcome>>

SetHours ==
    /\ ~shut /\ hours' \in Weeks \ {hours}
    /\ offer' = [offer EXCEPT !.changed = TRUE]
    /\ UNCHANGED <<now, ahead, gives, shut, busy, visit, outcome>>

\* The professional, or a service of theirs, is switched off or on.
SetServices ==
    /\ ~shut /\ gives' = ~gives
    /\ offer' = [offer EXCEPT !.changed = TRUE]
    /\ UNCHANGED <<now, ahead, hours, shut, busy, visit, outcome>>

\* The plan lapses or the platform suspends the salon, or it pays or is reactivated.
LapseOrPay ==
    /\ shut' = ~shut
    /\ UNCHANGED <<now, ahead, hours, gives, busy, visit, offer, outcome>>

Tick ==
    /\ now < LastInstant /\ now' = now + 1
    /\ UNCHANGED <<ahead, hours, gives, shut, busy, visit, offer, outcome>>

Init ==
    /\ now = 0 /\ ahead \in 0..(MaxLead + 1) /\ hours \in Weeks /\ gives = TRUE /\ shut = FALSE /\ busy = {}
    /\ \E d \in Durations : /\ visit = [booked |-> FALSE, at |-> Interval(0, 0), first |-> d, second |-> 0]
                            /\ offer = [starts |-> {}, service |-> d, changed |-> FALSE]
    /\ outcome = [done |-> "none", excused |-> FALSE, inside |-> TRUE]

Next == Ask \/ (\E s \in 0..DayMinutes : Take(s))
        \/ Staff \/ Fill \/ SetHours \/ SetServices \/ LapseOrPay \/ Tick

Spec == Init /\ [][Next]_offerVars

-----------------------------------------------------------------------------
(* Properties *)

\* A time on the screen is one the backend takes, inside the hours the professional works, unless the
\* day changed or the time came after it was offered; the visit being moved has more than one service
\* (the times offered are those of the first one alone); or the booking is a new one and the salon is
\* shut (the times are offered all the same). A visit can be moved at a salon that is shut.
OfferIsKept ==
    \/ outcome.done = "none" \/ outcome.excused
    \/ outcome.done = "kept" /\ outcome.inside
=============================================================================
