---------------------------- MODULE StaffSessions ----------------------------
(***************************************************************************)
(* The sessions of one staff account: refresh tokens that rotate           *)
(* (refresh-token.service.ts), the handlers that issue and end them        *)
(* (auth.service.ts) and the Next.js server that renews the access token   *)
(* of a browser's cookie (frontend lib/auth.ts).                           *)
(*                                                                         *)
(* A handler gives way at each await: it reads, then claims or writes, then *)
(* issues.  Time is in ticks; Grace and Share are shorter than one tick     *)
(* when they are 0.                                                        *)
(***************************************************************************)
EXTENDS Integers, FiniteSets

CONSTANTS
    Tokens,         \* ids of rows of the RefreshToken table, handed out in order
    Processes,      \* Next.js processes, each with its own map of renewals
    Requests,       \* HTTP requests that may be in progress at once
    AccessLife, RefreshLife, MaxAge, Grace, Share,      \* durations
    Horizon,        \* the clock stops here (a bound)
    NoToken, NoRequest, Never

\* Assumed of the constants by whoever instantiates the module.
SessionsAssumption ==
    /\ {AccessLife, RefreshLife, MaxAge, Grace, Share, Horizon} \subseteq Nat
    /\ IsFiniteSet(Processes)
    /\ Tokens \subseteq Nat /\ Never \notin Int /\ NoToken \notin Tokens /\ NoRequest \notin Requests

VARIABLES
    now,
    user,       \* the row of the account: isActive, passwordChangedAt, the link to set a password
    row,        \* row[t]: the RefreshToken row of t, with what its JWT carries
    cookie,     \* the browser's cookie: the refresh token, the access token's iat, the error flag
    renewals,   \* renewals[p][t]: the renewal of t that process p shares with its requests
    req,        \* req[r]: where request r stands and what it has read
    spent,      \* history: spent[t] is when t was first used
    excused     \* history: something happened that makes an honest browser present a spent token

vars == <<now, user, row, cookie, renewals, req, spent, excused>>

Times == 0..Horizon
NoRow == [family |-> NoToken, started |-> Never, iat |-> 0, used |-> Never, revoked |-> FALSE,
          from |-> NoToken, claimed |-> 0, late |-> FALSE]
NoCookie == [token |-> NoToken, access |-> Never, error |-> FALSE]
NoRenewal == [by |-> NoRequest, until |-> Never, cookie |-> NoCookie]
IdleReq == [pc |-> "idle", p |-> Never, cookie |-> NoCookie, at |-> 0,
            family |-> NoToken, started |-> 0]

Rows == {t \in Tokens : row[t].family # NoToken}
Fresh == {t \in Tokens : row[t] = NoRow /\ \A s \in Tokens : s < t => row[s] # NoRow}
Family(t) == {s \in Rows : row[s].family = row[t].family}

TypeOK ==
    /\ now \in Times
    /\ {user.active, user.link} \subseteq BOOLEAN /\ user.changedAt \in Times \cup {Never}
    /\ \A t \in Rows : /\ row[t].family \in Tokens /\ row[t].iat \in Times
                       /\ row[t].started = row[row[t].family].iat
                       /\ row[t].used \in Times \cup {Never}
    /\ cookie.token \in Tokens \cup {NoToken}
    /\ \A r \in Requests : req[r].pc = "idle" <=> req[r] = IdleReq

-----------------------------------------------------------------------------
(* What a token is worth *)

\* isSessionRevoked: issued before the password was last set.
IssuedBefore(iat) == user.changedAt # Never /\ iat < user.changedAt

\* AuthService.refresh and RefreshTokenService.consume, without the claim.
Honoured(t) ==
    /\ now < row[t].iat + RefreshLife
    /\ user.active
    /\ ~IssuedBefore(row[t].iat)
    /\ ~row[t].revoked
    /\ now < row[t].started + MaxAge

Revoke(tokens) == row' = [t \in Tokens |-> IF t \in tokens \cap Rows
                                             THEN [row[t] EXCEPT !.revoked = TRUE] ELSE row[t]]
\* The revocation, were it of the token presented alone.
RevokeOne(t) == Revoke({t})
RevokeFamily(t) == Revoke(Family(t))

Goto(r, pc) == req' = [req EXCEPT ![r].pc = pc]
Finish(r) == req' = [req EXCEPT ![r] = IdleReq]
Begin(r, q) == req[r].pc = "idle" /\ req' = [req EXCEPT ![r] = q]

-----------------------------------------------------------------------------
(* The Next.js server: lib/auth.ts *)

\* Variant: each visit starts a renewal of its own.
SharesNothing(p, t) == FALSE

\* Entries of the map past their time are swept.
Shares(p, t) == renewals[p][t].until # Never /\ now <= renewals[p][t].until

\* The jwt callback on a cookie whose access token has run out: join the renewal of the
\* same token that this process has in progress or has just finished, else start one.
Visit(r, p) ==
    LET c == cookie  known == renewals[p][c.token] IN
    /\ c.token # NoToken
    /\ now >= c.access + AccessLife
    /\ IF Shares(p, c.token)
         THEN IF known.by = NoRequest
                THEN Begin(r, [IdleReq EXCEPT !.pc = "answered", !.p = p,
                                              !.cookie = known.cookie])
                     /\ UNCHANGED renewals
                ELSE Begin(r, [IdleReq EXCEPT !.pc = "joined", !.p = known.by,
                                              !.cookie = c])
                     /\ UNCHANGED renewals
         ELSE /\ Begin(r, [IdleReq EXCEPT !.pc = "refresh", !.p = p, !.cookie = c])
              /\ renewals' = [renewals EXCEPT ![p][c.token] =
                     [by |-> r, until |-> now + Share, cookie |-> c]]
    /\ UNCHANGED <<now, user, row, cookie, spent, excused>>

\* The end of renewAccessToken: request r and those that joined it get cookie c.  A refusal
\* leaves the map, anything else stays until its time is over.
Answer(r, c) ==
    LET p == req[r].p  t == req[r].cookie.token IN
    /\ req' = [q \in Requests |->
           IF q = r \/ (req[q].pc = "joined" /\ req[q].p = r)
             THEN [req[q] EXCEPT !.pc = "answered", !.cookie = c] ELSE req[q]]
    /\ renewals' = [renewals EXCEPT ![p][t] =
           IF @.by # r THEN @ ELSE IF c.error THEN NoRenewal
           ELSE [@ EXCEPT !.by = NoRequest, !.cookie = c]]

\* 401: the session is over.
Refused(r) == Answer(r, [req[r].cookie EXCEPT !.error = TRUE])

\* 429, 5xx or no answer at all: the old cookie is kept.
Unreachable(r) ==
    /\ req[r].pc = "refresh"
    /\ Answer(r, req[r].cookie)
    /\ UNCHANGED <<now, user, row, cookie, spent, excused>>

\* The browser has got another token since, and the one that comes now is spent.
Overtaken(r) ==
    LET t == req[r].cookie.token IN cookie.token # t /\ t \in Tokens /\ spent[t] # Never

\* The cookie reaches the browser, or does not: the visit was interrupted, or the code that
\* renewed it was not one that can set cookies.
Deliver(r) ==
    /\ req[r].pc = "answered"
    /\ \/ /\ cookie' = req[r].cookie
          /\ excused' = (excused \/ Overtaken(r))
       \/ /\ UNCHANGED cookie
          /\ excused' = TRUE
    /\ Finish(r)
    /\ UNCHANGED <<now, user, row, renewals, spent>>

-----------------------------------------------------------------------------
(* AuthService.refresh *)

RefreshRead(r) ==
    LET t == req[r].cookie.token IN
    /\ req[r].pc = "refresh"
    /\ IF t \in Rows /\ Honoured(t)
         THEN /\ req' = [req EXCEPT ![r].pc = "claim", ![r].at = now,
                                    ![r].family = row[t].family, ![r].started = row[t].started]
              /\ UNCHANGED renewals
         ELSE Refused(r)
    /\ UNCHANGED <<now, user, row, cookie, spent, excused>>

\* The claim, were it not conditional.
WinsAlways(t) == TRUE
\* Only one of two requests with the same token wins the claim; the other may go on within
\* the grace period, and ends the family after it.
Wins(t) == row[t].used = Never
WithinGrace(r, t) == ~row[t].revoked /\ req[r].at - row[t].used <= Grace

Claim(r) ==
    LET t == req[r].cookie.token IN
    /\ req[r].pc = "claim"
    /\ IF t \in Rows /\ Wins(t)
         THEN /\ row' = [row EXCEPT ![t].used = req[r].at]
              /\ spent' = [spent EXCEPT ![t] = IF @ = Never THEN req[r].at ELSE @]
              /\ Goto(r, "issue")
         ELSE /\ UNCHANGED <<row, spent>>
              /\ Goto(r, IF t \in Rows /\ WithinGrace(r, t) THEN "issue" ELSE "revoke")
    /\ UNCHANGED <<now, user, cookie, renewals, excused>>

EndFamily(r) ==
    LET t == req[r].cookie.token IN
    /\ req[r].pc = "revoke"
    /\ RevokeFamily(t)
    /\ Refused(r)
    /\ UNCHANGED <<now, user, cookie, spent, excused>>

\* RefreshTokenService.issue: the successor, in the family that was read before the claim.
Insert(t, family, started, from, claimed) ==
    row' = [row EXCEPT ![t] =
        [family |-> family, started |-> started, iat |-> now, used |-> Never,
         revoked |-> FALSE, from |-> from, claimed |-> claimed,
         late |-> \E s \in Rows : row[s].family = family
                                  /\ (row[s].revoked \/ IssuedBefore(row[s].started))]]

\* The pair of tokens gets to the Next.js server, or is lost on its way (the network, a crash).
Issue(r) ==
    /\ req[r].pc = "issue"
    /\ \E t \in Fresh :
           /\ Insert(t, req[r].family, req[r].started, req[r].cookie.token, req[r].at)
           /\ \/ /\ Answer(r, [token |-> t, access |-> now, error |-> FALSE])
                 /\ UNCHANGED excused
              \/ /\ Answer(r, req[r].cookie)
                 /\ excused' = TRUE
    /\ UNCHANGED <<now, user, cookie, spent>>

-----------------------------------------------------------------------------
(* Login, logout and setting a password *)

\* purgeExpired, then the first token of a new family; signIn writes the cookie.
Login(r) ==
    /\ user.active
    /\ Begin(r, [IdleReq EXCEPT !.pc = "begin"])
    /\ row' = [t \in Tokens |-> IF t \in Rows /\ row[t].iat + RefreshLife < now
                                THEN [row[t] EXCEPT !.family = NoToken] ELSE row[t]]
    /\ UNCHANGED <<now, user, cookie, renewals, spent, excused>>

BeginFamily(r) ==
    /\ req[r].pc = "begin"
    /\ \E t \in Fresh :
           /\ Insert(t, t, now, NoToken, now)
           /\ cookie' = [token |-> t, access |-> now, error |-> FALSE]
    /\ Finish(r)
    /\ UNCHANGED <<now, user, renewals, spent, excused>>

\* signOut: the cookie goes whether or not the backend hears of it.
Logout ==
    /\ cookie.token # NoToken
    /\ cookie' = NoCookie
    /\ \/ cookie.token \in Rows /\ RevokeFamily(cookie.token)
       \/ UNCHANGED row
    /\ UNCHANGED <<now, user, renewals, req, spent, excused>>

SetPasswordRead(r) ==
    /\ user.active /\ user.link
    /\ Begin(r, [IdleReq EXCEPT !.pc = "setPassword"])
    /\ UNCHANGED <<now, user, row, cookie, renewals, spent, excused>>

SetPasswordWrite(r) ==
    /\ req[r].pc = "setPassword"
    /\ user' = [user EXCEPT !.changedAt = now, !.link = FALSE]
    /\ Goto(r, "revokeAll")
    /\ UNCHANGED <<now, row, cookie, renewals, spent, excused>>

RevokeAll(r) ==
    /\ req[r].pc = "revokeAll"
    /\ Revoke(Rows)
    /\ Goto(r, "begin")
    /\ UNCHANGED <<now, user, cookie, renewals, spent, excused>>

-----------------------------------------------------------------------------
(* The world around *)

\* The owner or the platform sends a link, which expires; the account is switched off.
Deactivate == user.active /\ user' = [user EXCEPT !.active = FALSE]

\* A tick is longer than the grace period: a request that is still busy has been slow.
Tick ==
    /\ now < Horizon
    /\ now' = now + 1
    /\ excused' = (excused \/ \E r \in Requests : req[r].pc # "idle")
    /\ renewals' = [p \in Processes |-> [t \in Tokens |->
           IF renewals[p][t].until \in (now + 1)..(Horizon + Share)
             THEN renewals[p][t] ELSE NoRenewal]]

Init ==
    /\ now = 0
    /\ user = [active |-> TRUE, changedAt |-> Never, link |-> TRUE]
    /\ row = [t \in Tokens |-> NoRow]
    /\ cookie = NoCookie
    /\ renewals = [p \in Processes |-> [t \in Tokens |-> NoRenewal]]
    /\ req = [r \in Requests |-> IdleReq]
    /\ spent = [t \in Tokens |-> Never]
    /\ excused = FALSE

Frontend == \E r \in Requests :
    \/ \E p \in Processes : Visit(r, p)
    \/ Unreachable(r) \/ Deliver(r)

Backend == \E r \in Requests :
    \/ RefreshRead(r) \/ Claim(r) \/ EndFamily(r) \/ Issue(r)
    \/ Login(r) \/ SetPasswordRead(r)
    \/ BeginFamily(r) \/ SetPasswordWrite(r) \/ RevokeAll(r)

World ==
    \/ Deactivate /\ UNCHANGED <<now, row, cookie, renewals, req, spent, excused>>
    \/ Tick /\ UNCHANGED <<user, row, cookie, req, spent>>

Next == Frontend \/ Backend \/ World \/ Logout

Spec == Init /\ [][Next]_vars

-----------------------------------------------------------------------------
(* Properties *)

Usable(t) == t \in Rows /\ Honoured(t) /\ row[t].used = Never

\* No session that was open when the password was set survives it ("nenhuma sessão anterior
\* sobrevive", RefreshTokenService.revokeAllForUser).
NoSessionSurvives ==
    (\A r \in Requests : req[r].pc # "revokeAll")
        => \A t \in Tokens : Usable(t) /\ user.changedAt # Never
                                => row[t].started >= user.changedAt

\* A revoked family has no token left to renew it with, except one that a renewal between
\* its claim and its insert added afterwards (revokeFamily, revokeAllForUser).
RevokedIsOver ==
    \A t \in Tokens : Usable(t) /\ (\E s \in Family(t) : row[s].revoked) => row[t].late

\* A token is exchanged again only within the grace period of its first use (consume).
SpentOnce ==
    \A t \in Rows : LET s == row[t].from IN
        s # NoToken /\ spent[s] # Never => row[t].claimed - spent[s] <= Grace

\* However many requests of a browser find its token run out at once, each process exchanges it
\* once (refreshAccessToken), unless an answer was lost or overtaken on its way to the browser, or a
\* request outlived the grace period: then the browser shows a token that was spent.
ExchangedOncePerProcess ==
    \A t \in Tokens :
        Cardinality({s \in Rows : row[s].from = t}) > Cardinality(Processes) => excused
=============================================================================
