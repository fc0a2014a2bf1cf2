----------------------------- MODULE MCSessions -----------------------------
(***************************************************************************)
(* The three protocols that guard the way in, explored one at a time: they *)
(* share no state, so what one of them can do does not depend on the       *)
(* others.                                                                 *)
(***************************************************************************)
EXTENDS Integers, Sequences, FiniteSets, TLC

CONSTANTS
    Parts,
    Tokens, Processes, Requests, AccessLife, RefreshLife, MaxAge, Grace, Share, Horizon,
    NoToken, NoRequest, Never,
    Devices, Calls, Sids, Ttl, RenewWithin, Retention, LastDay, MaxHash, MaxId, NoSid,
    Attempts, Threshold, MaxWrong, LastMinute

Schedule == <<1, 2>>

VARIABLES
    part,
    now, user, row, cookie, renewals, req, spent, excused,
    day, consumer, session, token, call, nextId, nextHash, unended,
    minute, store, account, attempt, wrong, due, raced, late

Staff == INSTANCE StaffSessions
Client == INSTANCE ConsumerSessions
Lock == INSTANCE Lockout

ASSUME StaffAssumed == Staff!SessionsAssumption
ASSUME ClientAssumed == Client!ConsumerAssumption
ASSUME LockAssumed == Lock!LockoutAssumption

staffVars == <<now, user, row, cookie, renewals, req, spent, excused>>
clientVars == <<day, consumer, session, token, call, nextId, nextHash, unended>>
lockVars == <<minute, store, account, attempt, wrong, due, raced, late>>
vars == <<part, staffVars, clientVars, lockVars>>

\* The parts that do not move start in one of their initial states.
Init ==
    /\ part \in Parts /\ Staff!Init /\ Client!Init /\ Lock!Init
    /\ part # "client" => consumer.id = 0
    /\ part # "lock" => store = "row"

Next ==
    /\ UNCHANGED part
    /\ \/ part = "staff" /\ Staff!Next /\ UNCHANGED <<clientVars, lockVars>>
       \/ part = "client" /\ Client!Next /\ UNCHANGED <<staffVars, lockVars>>
       \/ part = "lock" /\ Lock!Next /\ UNCHANGED <<staffVars, clientVars>>

Spec == Init /\ [][Next]_vars

\* Requests, Calls and Attempts may be given the same model values: one permutation moves them all.
Symmetric == Permutations(Requests) \cup Permutations(Devices)

\* Every row, cookie, token and request of the three has its shape.
TypeOK == Staff!TypeOK /\ Client!TypeOK /\ Lock!TypeOK

\* A lock lasts as long as it should and, while it lasts, keeps further guesses out.
LockBites == Lock!LockIsDue /\ Lock!FewGuessesUnderLock

\* The other properties of the three modules, stated there.
RevokedIsOver == Staff!RevokedIsOver
SpentOnce == Staff!SpentOnce
ExchangedOncePerProcess == Staff!ExchangedOncePerProcess
NoSessionSurvives == Staff!NoSessionSurvives
OldSessionOnlyIfUnended == Client!OldSessionOnlyIfUnended
NoneUncounted == Lock!NoneUncounted
=============================================================================
