------------------------------ MODULE Tenancy ------------------------------
(***************************************************************************)
(* One salon as the platform's administrators, its owner and its payments  *)
(* change it at once: suspension, trial, courtesy and paid plans           *)
(* (platform-admin.service.ts), and the team its plan allows               *)
(* (professionals.service.ts, plan-limit.service.ts).                      *)
(*                                                                         *)
(* A request reads and checks, one step per query, then writes in one      *)
(* transaction; another may write in between.                              *)
(***************************************************************************)
EXTENDS Integers, Sequences, FiniteSets, FiniteSetsExt

CONSTANTS
    Requests,       \* requests in progress at once
    Reasons,        \* of a suspension
    Pros,           \* the professionals there can be
    Entry, Tiers,   \* the plan of a salon without a subscription, and all plans
    Ceiling,        \* Ceiling[t]: maxProfessionals, above any team for null
    Days,           \* of an extension
    Trial,          \* trialEndsAt of a new salon
    MaxAhead,       \* TRIAL_MAX_AHEAD_DAYS
    LastDay, MaxTrail,  \* bounds on the clock and on the suspensions looked at
    NoReason, NoPro

\* Assumed of the constants by whoever instantiates the module.
TenancyAssumption ==
    /\ Entry \in Tiers /\ Ceiling \in [Tiers -> Nat] /\ Days \subseteq Nat \ {0}
    /\ {Trial, MaxAhead, LastDay, MaxTrail} \subseteq Nat /\ Trial <= MaxAhead
    /\ NoReason \notin Reasons /\ NoPro \notin Pros

VARIABLES
    today,
    suspended,  \* suspendedReason, NoReason when suspendedAt is null
    trail,      \* the audit log's suspensions (with their reason) and reactivations
    trialEnd, granted,  \* trialEndsAt, and the days of the extensions in the audit log
    sub,        \* the Subscription: none, courtesy or paid, and its plan
    staff, team,    \* professionals there are, and those active
    req,        \* req[r]: a request, what it read, and whether another wrote since
    pardoned    \* history: the team may be over the plan's ceiling

tenancyVars ==
    <<today, suspended, trail, trialEnd, granted, sub, staff, team, req, pardoned>>

Idle == [op |-> "idle", tier |-> Entry, pro |-> NoPro, seen |-> 0, next |-> 0, days |-> 0,
         overtaken |-> FALSE]

TypeOK ==
    /\ trialEnd \in 0..LastDay + MaxAhead
    /\ sub.kind \in {"none", "courtesy", "paid"} /\ sub.tier \in Tiers
    /\ team \subseteq staff /\ staff \subseteq Pros
    /\ \A r \in Requests : req[r].op = "idle" <=> req[r] = Idle

Busy(r, op, rest) == req' = [req EXCEPT ![r] = [rest EXCEPT !.op = op]]

\* r ends; after a write (r may be no request's), the others on their way are marked.
Quit(r) == req' = [req EXCEPT ![r] = Idle]
Wrote(r) == req' = [q \in Requests |->
    IF q = r \/ req[q] = Idle THEN Idle ELSE [req[q] EXCEPT !.overtaken = TRUE]]

-----------------------------------------------------------------------------
(* Suspension: one conditional statement and its line in the audit log *)

Suspendable == suspended = NoReason

Suspend(reason) ==
    /\ Suspendable /\ Len(trail) < MaxTrail
    /\ suspended' = reason
    /\ trail' = Append(trail, reason)
    /\ UNCHANGED <<today, trialEnd, granted, sub, staff, team, req, pardoned>>

Reactivate ==
    /\ suspended # NoReason /\ Len(trail) < MaxTrail
    /\ suspended' = NoReason
    /\ trail' = Append(trail, NoReason)
    /\ UNCHANGED <<today, trialEnd, granted, sub, staff, team, req, pardoned>>

-----------------------------------------------------------------------------
(* The trial, extended from its end or from now *)

ExtendRead(r, days) ==
    /\ req[r] = Idle /\ sub.kind = "none"
    /\ Max({today, trialEnd}) + days <= today + MaxAhead
    /\ Busy(r, "extend", [Idle EXCEPT !.seen = trialEnd, !.days = days,
                                      !.next = Max({today, trialEnd}) + days])
    /\ UNCHANGED <<today, suspended, trail, trialEnd, granted, sub, staff, team, pardoned>>

\* The WHERE of the update, were the end that was read not in it.
StillExtendableAnyEnd(q) == sub.kind = "none"
StillExtendable(q) == sub.kind = "none" /\ trialEnd = q.seen

ExtendWrite(r) ==
    /\ req[r].op = "extend"
    /\ IF StillExtendable(req[r])
         THEN /\ trialEnd' = req[r].next
              /\ granted' = granted + req[r].days
         ELSE UNCHANGED <<trialEnd, granted>>
    /\ Quit(r)
    /\ UNCHANGED <<today, suspended, trail, sub, staff, team, pardoned>>

-----------------------------------------------------------------------------
(* The plan *)

Limit(s) == IF s.kind = "none" THEN Ceiling[Entry] ELSE Ceiling[s.tier]

\* The team is over the ceiling because of cause, or was already and still is.
Pardon(cause) == pardoned' = ((pardoned \/ cause) /\ Cardinality(team') > Limit(sub'))

\* grantCourtesy's first look, were a paid subscription not refused.
GrantableAny(s) == TRUE
Grantable(s) == s.kind # "paid"

GrantRead(r, tier) ==
    /\ req[r] = Idle /\ Grantable(sub)
    /\ Busy(r, "grantCount", [Idle EXCEPT !.tier = tier])
    /\ UNCHANGED <<today, suspended, trail, trialEnd, granted, sub, staff, team, pardoned>>

\* The new plan has room for the team there is: grantCourtesy and assertCanDowngrade.
GrantCount(r) ==
    /\ req[r].op = "grantCount"
    /\ IF Cardinality(team) <= Ceiling[req[r].tier] THEN Busy(r, "grantWrite", req[r]) ELSE Quit(r)
    /\ UNCHANGED <<today, suspended, trail, trialEnd, granted, sub, staff, team, pardoned>>

SetPlan(r, kind) ==
    /\ sub' = [kind |-> kind, tier |-> req[r].tier]
    /\ Wrote(r)
    /\ UNCHANGED <<today, suspended, trail, trialEnd, granted, staff, team>>
    /\ Pardon(req[r].overtaken)

\* The upsert does not look at the subscription again.
GrantWrite(r) == req[r].op = "grantWrite" /\ SetPlan(r, "courtesy")

\* Back to the trial and its ceiling, whatever the team.
RemoveCourtesy ==
    /\ sub.kind = "courtesy"
    /\ sub' = [kind |-> "none", tier |-> Entry]
    /\ Wrote(NoPro)
    /\ UNCHANGED <<today, suspended, trail, trialEnd, granted, staff, team>>
    /\ Pardon(TRUE)

\* A checkout (not by a suspended salon), whose payment comes later, and a change of a paid plan.
CheckOut(r, tier) ==
    /\ req[r] = Idle /\ suspended = NoReason
    /\ Cardinality(team) <= Ceiling[tier]
    /\ Busy(r, "pay", [Idle EXCEPT !.tier = tier])
    /\ UNCHANGED <<today, suspended, trail, trialEnd, granted, sub, staff, team, pardoned>>

Paid(r) == req[r].op = "pay" /\ SetPlan(r, "paid")
Unpaid(r) ==
    /\ req[r].op = "pay" /\ Quit(r)
    /\ UNCHANGED <<today, suspended, trail, trialEnd, granted, sub, staff, team, pardoned>>

-----------------------------------------------------------------------------
(* The team *)

\* assertCanAddProfessional.
Room == Cardinality(team) < Limit(sub)

\* create of a new professional.
Add(r, p) ==
    /\ req[r] = Idle /\ p \notin staff /\ Room
    /\ Busy(r, "add", [Idle EXCEPT !.pro = p])
    /\ UNCHANGED <<today, suspended, trail, trialEnd, granted, sub, staff, team, pardoned>>

\* update with isActive: only an inactive professional is counted.
Activate(r, p) ==
    /\ req[r] = Idle /\ p \in staff
    /\ p \notin team => Room
    /\ Busy(r, "activate", [Idle EXCEPT !.pro = p])
    /\ UNCHANGED <<today, suspended, trail, trialEnd, granted, sub, staff, team, pardoned>>

\* The unique e-mail refuses a second creation, a row that is gone an update.
AddWrite(r) ==
    LET p == req[r].pro IN
    /\ req[r].op \in {"add", "activate"}
    /\ IF (req[r].op = "add") = (p \in staff)
         THEN Quit(r) /\ UNCHANGED <<staff, team, pardoned>>
         ELSE /\ staff' = staff \cup {p} /\ team' = team \cup {p}
              /\ Wrote(r)
              /\ sub' = sub /\ Pardon(req[r].overtaken)
    /\ UNCHANGED <<today, suspended, trail, trialEnd, granted, sub>>

\* update to inactive (no appointments ahead), and remove of one who has no history.
Leave(p, removed) ==
    /\ p \in IF removed THEN staff ELSE team
    /\ team' = team \ {p}
    /\ staff' = IF removed THEN staff \ {p} ELSE staff
    /\ Wrote(NoPro)
    /\ UNCHANGED <<today, suspended, trail, trialEnd, granted, sub>>
    /\ Pardon(FALSE)

-----------------------------------------------------------------------------

NextDay ==
    /\ today < LastDay
    /\ today' = today + 1
    /\ UNCHANGED <<suspended, trail, trialEnd, granted, sub, staff, team, req, pardoned>>

Init ==
    /\ today = 0 /\ suspended = NoReason /\ trail = <<>>
    /\ trialEnd = Trial /\ granted = 0
    /\ sub = [kind |-> "none", tier |-> Entry]
    /\ staff = {} /\ team = {}
    /\ req = [r \in Requests |-> Idle]
    /\ pardoned = FALSE

Next ==
    \/ \E reason \in Reasons : Suspend(reason)
    \/ Reactivate \/ RemoveCourtesy \/ NextDay
    \/ \E p \in Pros, removed \in BOOLEAN : Leave(p, removed)
    \/ \E r \in Requests :
         \/ \E days \in Days : ExtendRead(r, days)
         \/ \E tier \in Tiers : GrantRead(r, tier) \/ CheckOut(r, tier)
         \/ \E p \in Pros : Add(r, p) \/ Activate(r, p)
         \/ ExtendWrite(r) \/ GrantCount(r) \/ GrantWrite(r) \/ Paid(r) \/ Unpaid(r) \/ AddWrite(r)

Spec == Init /\ [][Next]_tenancyVars

-----------------------------------------------------------------------------
(* Properties *)

\* The audit log tells the salon's state: the reason it is suspended for, none lost or logged twice
\* ("duas suspensões simultâneas não sobrescrevem o motivo da primeira", suspend), and a trial
\* with every extension granted in it (extendTrial: no extension overwrites another).
AuditTellsSalon ==
    /\ suspended = IF trail = <<>> THEN NoReason ELSE trail[Len(trail)]
    /\ \A i \in 1..Len(trail) : (trail[i] = NoReason) <=> (i % 2 = 0)
    /\ trialEnd >= Trial + granted

\* The active team fits the plan, except after a courtesy was taken away, or after a write whose
\* check another request's write had overtaken (PlanLimitService counts outside any lock).
OverLimitOnlyIfOvertaken == Cardinality(team) <= Limit(sub) \/ pardoned

\* A paid subscription becomes a courtesy only when it was paid after grantCourtesy looked ("Não
\* substitui assinatura PAGA").
CourtesyOverPaidOnlyIfOvertaken ==
    [][sub.kind = "paid" /\ sub'.kind = "courtesy"
           => \E r \in Requests : req[r].op = "grantWrite" /\ req[r].overtaken]_tenancyVars
=============================================================================
