----------------------------- MODULE StaffProofs -----------------------------
(***************************************************************************)
(* Proofs about the sessions of a staff account, for any number of tokens, *)
(* Next.js processes and requests, and any durations.                      *)
(***************************************************************************)
EXTENDS SessionsProofs

Ticks == 0..Horizon
TokenIds == Tokens \cup {NoToken}
Moments == Ticks \cup {Never}
Refreshes == [family : TokenIds, started : Moments, iat : Ticks, used : Moments, revoked : BOOLEAN,
              from : TokenIds, claimed : Ticks, late : BOOLEAN]
Jars == [token : TokenIds, access : Moments, error : BOOLEAN]
Shared == [by : Requests \cup {NoRequest}, until : Nat \cup {Never}, cookie : Jars]
Working == {"refresh", "claim", "issue", "revoke"}
Stages == Working \cup {"idle", "answered", "joined", "begin", "setPassword", "revokeAll"}
Visits == [pc : Stages, p : Processes \cup Requests \cup {Never}, cookie : Jars, at : Ticks,
           family : TokenIds, started : Ticks]

StaffTypes ==
    /\ now \in Ticks
    /\ user \in [active : BOOLEAN, changedAt : Moments, link : BOOLEAN]
    /\ row \in [Tokens -> Refreshes]
    /\ cookie \in Jars
    /\ renewals \in [Processes -> [Tokens -> Shared]]
    /\ req \in [Requests -> Visits]
    /\ spent \in [Tokens -> Moments]
    /\ excused \in BOOLEAN

VisitsOver == \A r \in Requests : req[r].pc = "idle" <=> req[r] = Staff!IdleReq

\* A row of the table that has been written: purged or not, it is not written over.
Made(t) == t \in Tokens /\ row[t].started # Never

\* The first token of a family is there, and what the others carry of it is its own.
Headed(family, started) == Made(family) /\ started = row[family].iat
Heads == /\ \A t \in Staff!Rows : Headed(row[t].family, row[t].started)
         /\ \A r \in Requests : req[r].pc \in {"claim", "issue"} => Headed(req[r].family, req[r].started)

\* Ending a family ends all of it, but what is added to it afterwards.
FamiliesEnd == \A t, s \in Staff!Rows :
    row[s].family = row[t].family /\ row[s].revoked => row[t].revoked \/ row[t].late

\* The column that is claimed is the time of the first exchange; whoever may issue a successor
\* claimed within the grace period of it.
InTime(t, at) == Made(t) /\ spent[t] # Never /\ at - spent[t] <= Grace
Spending == /\ \A t \in Tokens : row[t].used = spent[t]
            /\ \A t \in Tokens : spent[t] # Never => Made(t)
            /\ \A r \in Requests : req[r].pc = "issue" => InTime(req[r].cookie.token, req[r].at)
            /\ \A t \in Tokens : row[t].from # NoToken => InTime(row[t].from, row[t].claimed)

\* The renewals of a process.
Keyed == \A p \in Processes, t \in Tokens :
    LET e == renewals[p][t] IN
    /\ e.by # NoRequest => req[e.by].pc \in Working /\ req[e.by].p = p /\ req[e.by].cookie.token = t
    /\ e.by = NoRequest /\ Staff!Shares(p, t) =>
           e.cookie.token = t \/ (e.cookie.token \in Tokens /\ row[e.cookie.token].from = t)

Successors(t) == {s \in Tokens : row[s].from = t}
Ages == /\ \A t \in Tokens : row[t].iat <= now
        /\ \A t \in Tokens : row[t].from # NoToken => row[row[t].from].iat <= row[t].iat /\ row[t].from # t

\* Nobody holds the token any more.
Gone(t) == cookie.token # t /\ \A r \in Requests : req[r].cookie.token # t

\* Until an answer is lost or overtaken or a request outlives the tick:
\* a request that exchanges a token is the one that its process is waiting for;
AwaitedIs(q) == /\ req[q].p \in Processes /\ req[q].cookie.token \in Tokens
                /\ renewals[req[q].p][req[q].cookie.token].by = q
                /\ Staff!Shares(req[q].p, req[q].cookie.token)
Awaited == \A q \in Requests : req[q].pc \in Working => AwaitedIs(q)

\* a token exchanged in this tick is remembered by the process that did it;
RememberedBy(p, s) == /\ renewals[p][row[s].from].by = NoRequest
                      /\ renewals[p][row[s].from].cookie.token = s
                      /\ Staff!Shares(p, row[s].from)
Remembered == \A s \in Tokens : row[s].from # NoToken /\ row[s].iat = now =>
                  \E p \in Processes : RememberedBy(p, s)

\* a token exchanged in an earlier one is gone;
Forgotten == \A s \in Tokens : row[s].from # NoToken /\ row[s].iat < now => Gone(row[s].from)

\* the browser has the new token or is about to get it.
UnderWay == \A s \in Tokens : row[s].from # NoToken /\ cookie.token = row[s].from =>
                \E r \in Requests : req[r].pc = "answered" /\ req[r].cookie.token \in Successors(row[s].from)
Orderly == ~excused => Awaited /\ Remembered /\ Forgotten /\ UnderWay

FewSuccessors(t) == IsFiniteSet(Successors(t)) /\ Cardinality(Successors(t)) <= Cardinality(Processes)
OncePerProcess == ~excused => \A t \in Tokens : FewSuccessors(t)

StaffInv == /\ StaffTypes /\ VisitsOver /\ Heads /\ FamiliesEnd /\ Spending /\ Keyed /\ Ages /\ Orderly
            /\ OncePerProcess

-----------------------------------------------------------------------------
(* Types *)

\* What the assumptions on the constants say of durations, tokens and the values that stand for none.
LEMMA StaffNumbers ==
    /\ AccessLife \in Nat /\ RefreshLife \in Nat /\ MaxAge \in Nat /\ Grace \in Nat /\ Share \in Nat
    /\ Horizon \in Nat
    /\ Tokens \subseteq Nat /\ Never \notin Int /\ NoToken \notin Tokens /\ NoRequest \notin Requests
BY StaffAssumed DEF Staff!SessionsAssumption

\* The values the records start from, and the fields the proofs read off them.
LEMMA StaffRecords ==
    /\ Staff!NoRow \in Refreshes /\ Staff!NoRow.started = Never /\ Staff!NoRow.from = NoToken
    /\ Staff!NoCookie \in Jars /\ Staff!NoCookie.token = NoToken
    /\ Staff!NoRenewal \in Shared /\ Staff!NoRenewal.by = NoRequest /\ Staff!NoRenewal.until = Never
    /\ Staff!IdleReq \in Visits /\ Staff!IdleReq.pc = "idle" /\ Staff!IdleReq.cookie.token = NoToken
<1>1. 0 \in Ticks /\ Never \in Moments
  BY StaffNumbers DEF Ticks, Moments
<1>2. Staff!NoCookie \in Jars
  BY <1>1 DEF Jars, TokenIds, Staff!NoCookie
<1>3. Staff!NoRow \in Refreshes
  BY <1>1 DEF Refreshes, TokenIds, Staff!NoRow
<1>4. Staff!NoRenewal \in Shared
  BY <1>2 DEF Shared, Staff!NoRenewal
<1>5. Staff!IdleReq \in Visits
  BY <1>1, <1>2 DEF Visits, Stages, TokenIds, Staff!IdleReq
<1> QED BY <1>2, <1>3, <1>4, <1>5
        DEF Staff!NoRow, Staff!NoCookie, Staff!NoRenewal, Staff!IdleReq

\* The types hold at the start.
LEMMA StaffInitial == Staff!Init => StaffTypes /\ VisitsOver
<1> SUFFICES ASSUME Staff!Init PROVE StaffTypes /\ VisitsOver  OBVIOUS
<1>1. now \in Ticks /\ Never \in Moments
  BY StaffNumbers DEF Staff!Init, Ticks, Moments
<1>2. user \in [active : BOOLEAN, changedAt : Moments, link : BOOLEAN]
  BY <1>1, Zenon DEF Staff!Init
<1>3. /\ row \in [Tokens -> Refreshes] /\ cookie \in Jars /\ req \in [Requests -> Visits]
      /\ renewals \in [Processes -> [Tokens -> Shared]] /\ spent \in [Tokens -> Moments]
  BY <1>1, StaffRecords DEF Staff!Init
<1>4. VisitsOver /\ excused \in BOOLEAN
  BY StaffRecords, Zenon DEF Staff!Init, VisitsOver
<1> QED BY <1>1, <1>2, <1>3, <1>4 DEF StaffTypes

\* What each handler does to the table.
LEMMA RevokeType ==
    ASSUME StaffTypes, NEW tokens, Staff!Revoke(tokens) PROVE row' \in [Tokens -> Refreshes]
<1>1. \A t \in Tokens : [row[t] EXCEPT !.revoked = TRUE] \in Refreshes
  BY DEF StaffTypes, Refreshes
<1> QED BY <1>1 DEF StaffTypes, Staff!Revoke

\* A row that is inserted is a refresh token.
LEMMA InsertType ==
    ASSUME StaffTypes, NEW t, NEW family \in TokenIds, NEW started \in Ticks, NEW from \in TokenIds,
           NEW claimed \in Ticks, Staff!Insert(t, family, started, from, claimed)
    PROVE  row' \in [Tokens -> Refreshes]
<1> DEFINE behind == \E s \in Staff!Rows : row[s].family = family
                         /\ (row[s].revoked \/ Staff!IssuedBefore(row[s].started))
           new == [family |-> family, started |-> started, iat |-> now, used |-> Never,
                   revoked |-> FALSE, from |-> from, claimed |-> claimed, late |-> behind]
<1>1. behind \in BOOLEAN
  BY Zenon
<1>2. row' = [row EXCEPT ![t] = new]
  BY DEF Staff!Insert
<1> HIDE DEF behind
<1>3. new \in Refreshes
  BY <1>1 DEF StaffTypes, Refreshes, Moments
<1> HIDE DEF new
<1> QED BY <1>2, <1>3 DEF StaffTypes

\* The steps, one by one; those that touch neither rows nor requests are taken together.
LEMMA StaffCalls ==
    [Staff!Next]_staffVars =>
        \/ \E r \in Requests :
              \/ \E p \in Processes : Staff!Visit(r, p)
              \/ Staff!Unreachable(r) \/ Staff!Deliver(r)
              \/ Staff!RefreshRead(r) \/ Staff!Claim(r) \/ Staff!EndFamily(r) \/ Staff!Issue(r)
              \/ Staff!Login(r) \/ Staff!SetPasswordRead(r)
              \/ Staff!BeginFamily(r) \/ Staff!SetPasswordWrite(r) \/ Staff!RevokeAll(r)
        \/ Staff!Logout
        \/ Staff!Deactivate /\ UNCHANGED <<now, row, cookie, renewals, req, spent, excused>>
        \/ Staff!Tick /\ UNCHANGED <<user, row, cookie, req, spent>>
        \/ UNCHANGED staffVars
BY Zenon DEF Staff!Next, Staff!Frontend, Staff!Backend, Staff!World

\* Every step keeps the types of the rows.
LEMMA RowTypesKept == StaffTypes /\ [Staff!Next]_staffVars => row' \in [Tokens -> Refreshes]
<1> SUFFICES ASSUME StaffTypes, [Staff!Next]_staffVars PROVE row' \in [Tokens -> Refreshes]
  OBVIOUS
<1>1. ASSUME NEW r \in Requests, Staff!Claim(r) PROVE row' \in [Tokens -> Refreshes]
  <2>1. \A t \in Tokens : [row[t] EXCEPT !.used = req[r].at] \in Refreshes
    BY DEF StaffTypes, Refreshes, Visits, Moments
  <2>2. row' = row \/ row' = [row EXCEPT ![req[r].cookie.token].used = req[r].at]
    BY <1>1, Zenon DEF Staff!Claim
  <2> QED BY <2>1, <2>2 DEF StaffTypes
<1>2. ASSUME NEW r \in Requests, Staff!Issue(r) PROVE row' \in [Tokens -> Refreshes]
  <2>1. /\ req[r].family \in TokenIds /\ req[r].started \in Ticks /\ req[r].at \in Ticks
        /\ req[r].cookie.token \in TokenIds
    BY DEF StaffTypes, Visits, Jars
  <2> QED BY <1>2, <2>1, InsertType, Zenon DEF Staff!Issue
<1>3. ASSUME NEW r \in Requests, Staff!BeginFamily(r) PROVE row' \in [Tokens -> Refreshes]
  <2>1. PICK t \in Staff!Fresh : Staff!Insert(t, t, now, NoToken, now)
    BY <1>3 DEF Staff!BeginFamily
  <2>2. t \in TokenIds /\ NoToken \in TokenIds /\ now \in Ticks
    BY DEF Staff!Fresh, TokenIds, StaffTypes
  <2> QED BY <2>1, <2>2, InsertType
<1>4. ASSUME NEW r \in Requests, Staff!Login(r) PROVE row' \in [Tokens -> Refreshes]
  <2>1. \A t \in Tokens : [row[t] EXCEPT !.family = NoToken] \in Refreshes
    BY DEF StaffTypes, Refreshes, TokenIds
  <2> QED BY <1>4, <2>1 DEF Staff!Login, StaffTypes
<1>5. ASSUME row' = row \/ \E tokens : Staff!Revoke(tokens) PROVE row' \in [Tokens -> Refreshes]
  BY <1>5, RevokeType DEF StaffTypes
<1>6. ASSUME NEW r \in Requests, Staff!EndFamily(r) \/ Staff!RevokeAll(r)
      PROVE  \E tokens : Staff!Revoke(tokens)
  BY <1>6, Zenon DEF Staff!EndFamily, Staff!RevokeAll, Staff!RevokeFamily
<1>7. ASSUME Staff!Logout PROVE row' = row \/ \E tokens : Staff!Revoke(tokens)
  BY <1>7, Zenon DEF Staff!Logout, Staff!RevokeFamily
<1>8. ASSUME NEW r \in Requests,
             \/ \E p \in Processes : Staff!Visit(r, p)
             \/ Staff!Unreachable(r) \/ Staff!Deliver(r) \/ Staff!RefreshRead(r)
             \/ Staff!SetPasswordRead(r) \/ Staff!SetPasswordWrite(r)
      PROVE  row' = row
  BY <1>8, Zenon DEF Staff!Visit, Staff!Unreachable, Staff!Deliver, Staff!RefreshRead,
                     Staff!SetPasswordRead, Staff!SetPasswordWrite
<1>9. UNCHANGED staffVars => row' = row
  BY DEF staffVars
<1> QED BY <1>1, <1>2, <1>3, <1>4, <1>5, <1>6, <1>7, <1>8, <1>9, StaffCalls, Zenon

\* However a request moves, it stays one, and is idle only if it has forgotten what it read.
LEMMA VisitMoves ==
    ASSUME StaffTypes, VisitsOver, NEW r \in Requests, NEW q \in Visits,
           q.pc # "idle" \/ q = Staff!IdleReq, req' = [req EXCEPT ![r] = q]
    PROVE  req' \in [Requests -> Visits] /\ VisitsOver'
<1>1. q.pc = "idle" <=> q = Staff!IdleReq
  BY StaffRecords
<1> QED BY <1>1 DEF StaffTypes, VisitsOver

\* A request that goes to another stage of its work is still a request.
LEMMA GotoType ==
    ASSUME StaffTypes, VisitsOver, NEW r \in Requests, NEW pc \in Stages, pc # "idle",
           Staff!Goto(r, pc)
    PROVE  req' \in [Requests -> Visits] /\ VisitsOver'
<1> DEFINE q == [req[r] EXCEPT !.pc = pc]
<1>1. q \in Visits /\ q.pc = pc
  BY DEF StaffTypes, Visits
<1>2. req' = [req EXCEPT ![r] = q]
  BY DEF Staff!Goto
<1> HIDE DEF q
<1> QED BY <1>1, <1>2, VisitMoves

\* An answer, to the request and to those that joined it, keeps the types.
LEMMA AnswerType ==
    ASSUME StaffTypes, VisitsOver, NEW r \in Requests, NEW c \in Jars, Staff!Answer(r, c)
    PROVE  /\ req' \in [Requests -> Visits] /\ VisitsOver'
           /\ renewals' \in [Processes -> [Tokens -> Shared]]
<1>1. \A q \in Requests : [req[q] EXCEPT !.pc = "answered", !.cookie = c] \in Visits
                          /\ [req[q] EXCEPT !.pc = "answered", !.cookie = c].pc = "answered"
  BY ZenonT(60) DEF StaffTypes, Visits, Stages, Working
<1>2. req' = [q \in Requests |->
                 IF q = r \/ (req[q].pc = "joined" /\ req[q].p = r)
                   THEN [req[q] EXCEPT !.pc = "answered", !.cookie = c] ELSE req[q]]
  BY DEF Staff!Answer
<1>3. req' \in [Requests -> Visits]
  BY <1>1, <1>2 DEF StaffTypes
<1>4. VisitsOver'
  BY <1>1, <1>2, StaffRecords DEF VisitsOver
<1>5. \A e \in Shared : [e EXCEPT !.by = NoRequest, !.cookie = c] \in Shared
  BY DEF Shared
<1>6. renewals' \in [Processes -> [Tokens -> Shared]]
  <2> DEFINE p == req[r].p  t == req[r].cookie.token
             left(e) == IF e.by # r THEN e ELSE IF c.error THEN Staff!NoRenewal
                        ELSE [e EXCEPT !.by = NoRequest, !.cookie = c]
  <2>1. \A e \in Shared : left(e) \in Shared
    BY <1>5, StaffRecords
  <2>2. renewals' = [renewals EXCEPT ![p][t] = left(renewals[p][t])]
    BY DEF Staff!Answer
  <2>3. renewals \in [Processes -> [Tokens -> Shared]]
    BY DEF StaffTypes
  <2> HIDE DEF p, t, left
  <2>4. CASE p \in Processes /\ t \in Tokens
    BY <2>1, <2>2, <2>3, <2>4
  <2>5. CASE ~(p \in Processes /\ t \in Tokens)
    BY <2>2, <2>3, <2>5
  <2> QED BY <2>4, <2>5
<1> QED BY <1>3, <1>4, <1>6

\* A handler that answers gives the request one of these cookies.
LEMMA StaffAnswers ==
    ASSUME StaffTypes, NEW r \in Requests,
           \/ Staff!Unreachable(r) \/ Staff!EndFamily(r) \/ Staff!Issue(r)
           \/ Staff!RefreshRead(r) /\ ~(\E t \in Staff!Rows : t = req[r].cookie.token /\ Staff!Honoured(t))
    PROVE  \E c \in Jars : Staff!Answer(r, c)
<1>1. req[r].cookie \in Jars /\ [req[r].cookie EXCEPT !.error = TRUE] \in Jars
  BY DEF StaffTypes, Visits, Jars
<1>2. \A t \in Tokens : [token |-> t, access |-> now, error |-> FALSE] \in Jars
  BY DEF StaffTypes, Jars, TokenIds, Moments
<1>3. Staff!Fresh \subseteq Tokens
  BY DEF Staff!Fresh
<1> QED BY <1>1, <1>2, <1>3, Zenon
        DEF Staff!Unreachable, Staff!EndFamily, Staff!Issue, Staff!RefreshRead, Staff!Refused

\* So does a visit, whether it starts a renewal, joins one, or takes one remembered.
LEMMA VisitType ==
    ASSUME StaffTypes, VisitsOver, NEW r \in Requests, NEW p \in Processes, Staff!Visit(r, p)
    PROVE  /\ req' \in [Requests -> Visits] /\ VisitsOver'
           /\ renewals' \in [Processes -> [Tokens -> Shared]]
<1> DEFINE known == renewals[p][cookie.token]
<1>1. cookie \in Jars /\ cookie.token \in Tokens /\ known \in Shared
  BY DEF Staff!Visit, StaffTypes, Jars, TokenIds
<1>2. \A pc \in Stages \ {"idle"}, x \in Processes \cup Requests, c \in Jars :
          /\ [Staff!IdleReq EXCEPT !.pc = pc, !.p = x, !.cookie = c] \in Visits
          /\ [Staff!IdleReq EXCEPT !.pc = pc, !.p = x, !.cookie = c].pc = pc
  BY StaffRecords DEF Visits
<1>3. PICK pc \in {"answered", "joined", "refresh"}, x \in Processes \cup Requests, c \in Jars :
          req' = [req EXCEPT ![r] = [Staff!IdleReq EXCEPT !.pc = pc, !.p = x, !.cookie = c]]
  <2>1. known.cookie \in Jars /\ (known.by = NoRequest \/ known.by \in Requests)
    BY <1>1 DEF Shared
  <2>2. \/ req' = [req EXCEPT ![r] = [Staff!IdleReq EXCEPT !.pc = "answered", !.p = p,
                                                         !.cookie = known.cookie]]
        \/ known.by # NoRequest /\
           req' = [req EXCEPT ![r] = [Staff!IdleReq EXCEPT !.pc = "joined", !.p = known.by,
                                                         !.cookie = cookie]]
        \/ req' = [req EXCEPT ![r] = [Staff!IdleReq EXCEPT !.pc = "refresh", !.p = p,
                                                         !.cookie = cookie]]
    BY Zenon DEF Staff!Visit, Staff!Begin
  <2> HIDE DEF known
  <2> QED BY <1>1, <2>1, <2>2
<1>4. req' \in [Requests -> Visits] /\ VisitsOver'
  <2> DEFINE q == [Staff!IdleReq EXCEPT !.pc = pc, !.p = x, !.cookie = c]
  <2>1. q \in Visits /\ q.pc # "idle"
    BY <1>2 DEF Stages, Working
  <2> HIDE DEF q
  <2> QED BY <1>3, <2>1, VisitMoves DEF q
<1>5. renewals' \in [Processes -> [Tokens -> Shared]]
  <2>1. [by |-> r, until |-> now + Share, cookie |-> cookie] \in Shared
    BY <1>1, StaffNumbers DEF Shared, StaffTypes, Ticks
  <2>2. renewals' = renewals \/ renewals' = [renewals EXCEPT ![p][cookie.token] =
                                    [by |-> r, until |-> now + Share, cookie |-> cookie]]
    BY Zenon DEF Staff!Visit
  <2> QED BY <1>1, <2>1, <2>2 DEF StaffTypes
<1> QED BY <1>4, <1>5

\* Every step keeps the types of the requests and of what the processes remember.
LEMMA VisitTypesKept ==
    StaffTypes /\ VisitsOver /\ Heads /\ [Staff!Next]_staffVars
        => /\ req' \in [Requests -> Visits] /\ VisitsOver'
           /\ renewals' \in [Processes -> [Tokens -> Shared]]
<1> DEFINE Goal == /\ req' \in [Requests -> Visits] /\ VisitsOver'
                   /\ renewals' \in [Processes -> [Tokens -> Shared]]
<1> SUFFICES ASSUME StaffTypes, VisitsOver, Heads, [Staff!Next]_staffVars PROVE Goal
  OBVIOUS
<1>0. renewals \in [Processes -> [Tokens -> Shared]] /\ req \in [Requests -> Visits]
  BY DEF StaffTypes
<1>1. ASSUME NEW r \in Requests, NEW p \in Processes, Staff!Visit(r, p) PROVE Goal
  BY <1>1, VisitType
<1>2. ASSUME NEW r \in Requests, Staff!Unreachable(r) \/ Staff!EndFamily(r) \/ Staff!Issue(r) PROVE Goal
  BY <1>2, StaffAnswers, AnswerType
<1>3. ASSUME NEW r \in Requests, Staff!RefreshRead(r) PROVE Goal
  <2>1. CASE \E t \in Staff!Rows : t = req[r].cookie.token /\ Staff!Honoured(t)
    <3> DEFINE t == req[r].cookie.token
               q == [req[r] EXCEPT !.pc = "claim", !.at = now, !.family = row[t].family,
                                   !.started = row[t].started]
    <3>1. row[t].family \in TokenIds /\ row[t].started \in Ticks
      BY <2>1 DEF Heads, Headed, Made, StaffTypes, Refreshes, TokenIds
    <3>2. now \in Ticks /\ req[r] \in Visits
      BY DEF StaffTypes
    <3>3. q \in Visits /\ q.pc = "claim"
      BY <3>1, <3>2 DEF Visits, Stages, Working
    <3>4. req' = [req EXCEPT ![r].pc = "claim", ![r].at = now,
                             ![r].family = row[t].family, ![r].started = row[t].started]
          /\ renewals' = renewals
      BY <1>3, <2>1 DEF Staff!RefreshRead
    <3>5. req' = [req EXCEPT ![r] = q]
      BY <1>0, <3>4 DEF Visits
    <3> HIDE DEF q, t
    <3> QED BY <1>0, <3>3, <3>4, <3>5, VisitMoves
  <2>2. CASE ~\E t \in Staff!Rows : t = req[r].cookie.token /\ Staff!Honoured(t)
    BY <1>3, <2>2, StaffAnswers, AnswerType
  <2> QED BY <2>1, <2>2
<1>4. ASSUME NEW r \in Requests, Staff!Claim(r) \/ Staff!SetPasswordWrite(r) \/ Staff!RevokeAll(r)
      PROVE  Goal
  <2>1. PICK pc \in {"issue", "revoke", "revokeAll", "begin"} : Staff!Goto(r, pc)
    BY <1>4, Zenon DEF Staff!Claim, Staff!SetPasswordWrite, Staff!RevokeAll
  <2>2. renewals' = renewals
    BY <1>4, Zenon DEF Staff!Claim, Staff!SetPasswordWrite, Staff!RevokeAll
  <2>3. pc \in Stages /\ pc # "idle"
    BY DEF Stages, Working
  <2> QED BY <1>0, <2>1, <2>2, <2>3, GotoType
<1>5. ASSUME NEW r \in Requests, Staff!Login(r) \/ Staff!SetPasswordRead(r) PROVE Goal
  <2>1. PICK pc \in {"begin", "setPassword"} :
            req' = [req EXCEPT ![r] = [Staff!IdleReq EXCEPT !.pc = pc]]
    BY <1>5, Zenon DEF Staff!Login, Staff!SetPasswordRead, Staff!Begin
  <2> DEFINE q == [Staff!IdleReq EXCEPT !.pc = pc]
  <2>2. q \in Visits /\ q.pc # "idle"
    BY StaffRecords DEF Visits, Stages
  <2>3. renewals' = renewals
    BY <1>5, Zenon DEF Staff!Login, Staff!SetPasswordRead
  <2> HIDE DEF q
  <2> QED BY <1>0, <2>1, <2>2, <2>3, VisitMoves DEF q
<1>6. ASSUME NEW r \in Requests, Staff!Deliver(r) \/ Staff!BeginFamily(r) PROVE Goal
  <2>1. Staff!Finish(r) /\ renewals' = renewals
    BY <1>6, Zenon DEF Staff!Deliver, Staff!BeginFamily
  <2> QED BY <1>0, <2>1, StaffRecords, VisitMoves DEF Staff!Finish
<1>7. ASSUME Staff!Tick, req' = req PROVE Goal
  <2>1. renewals' \in [Processes -> [Tokens -> Shared]]
    BY <1>0, <1>7, StaffRecords DEF Staff!Tick
  <2> QED BY <1>0, <1>7, <2>1 DEF VisitsOver
<1>8. ASSUME UNCHANGED <<req, renewals>> PROVE Goal
  BY <1>0, <1>8 DEF VisitsOver
<1>9. Staff!Logout \/ UNCHANGED staffVars => UNCHANGED <<req, renewals>>
  BY Zenon DEF Staff!Logout, staffVars
<1> HIDE DEF Goal
<1> QED BY <1>1, <1>2, <1>3, <1>4, <1>5, <1>6, <1>7, <1>8, <1>9, StaffCalls, Zenon

\* Every step keeps all the types.
LEMMA StaffTypesKept ==
    StaffTypes /\ VisitsOver /\ Heads /\ [Staff!Next]_staffVars => StaffTypes' /\ VisitsOver'
<1> SUFFICES ASSUME StaffTypes, VisitsOver, Heads, [Staff!Next]_staffVars
             PROVE  StaffTypes' /\ VisitsOver'
  OBVIOUS
<1>1. now' \in Ticks
  <2>1. now \in Ticks
    BY DEF StaffTypes
  <2>2. Staff!Tick => now' \in Ticks
    BY <2>1, StaffNumbers DEF Staff!Tick, Ticks
  <2> QED BY <2>1, <2>2, StaffCalls, Zenon
          DEF Staff!Visit, Staff!Unreachable, Staff!Deliver, Staff!RefreshRead, Staff!Claim,
              Staff!EndFamily, Staff!Issue, Staff!Login, Staff!SetPasswordRead, Staff!BeginFamily,
              Staff!SetPasswordWrite, Staff!RevokeAll, Staff!Logout, staffVars
<1>2. user' \in [active : BOOLEAN, changedAt : Moments, link : BOOLEAN]
  <2>1. user \in [active : BOOLEAN, changedAt : Moments, link : BOOLEAN] /\ now \in Moments
    BY DEF StaffTypes, Moments
  <2>2. ASSUME NEW r \in Requests, Staff!SetPasswordWrite(r)
        PROVE  user' \in [active : BOOLEAN, changedAt : Moments, link : BOOLEAN]
    BY <2>1, <2>2 DEF Staff!SetPasswordWrite
  <2>3. ASSUME Staff!Deactivate
        PROVE  user' \in [active : BOOLEAN, changedAt : Moments, link : BOOLEAN]
    BY <2>1, <2>3 DEF Staff!Deactivate
  <2> QED BY <2>1, <2>2, <2>3, StaffCalls, Zenon
          DEF Staff!Visit, Staff!Unreachable, Staff!Deliver, Staff!RefreshRead, Staff!Claim,
              Staff!EndFamily, Staff!Issue, Staff!Login, Staff!SetPasswordRead, Staff!BeginFamily,
              Staff!RevokeAll, Staff!Logout, staffVars
<1>3. cookie' \in Jars
  <2>1. cookie \in Jars /\ \A r \in Requests : req[r].cookie \in Jars
    BY DEF StaffTypes, Visits
  <2>2. \A t \in Tokens : [token |-> t, access |-> now, error |-> FALSE] \in Jars
    BY DEF StaffTypes, Jars, TokenIds, Moments
  <2>3. ASSUME NEW r \in Requests, Staff!BeginFamily(r) PROVE cookie' \in Jars
    BY <2>2, <2>3, Zenon DEF Staff!BeginFamily, Staff!Fresh
  <2>4. ASSUME NEW r \in Requests, Staff!Deliver(r) PROVE cookie' \in Jars
    BY <2>1, <2>4, Zenon DEF Staff!Deliver
  <2>5. Staff!Logout => cookie' \in Jars
    BY StaffRecords, Zenon DEF Staff!Logout
  <2> QED BY <2>1, <2>3, <2>4, <2>5, StaffCalls, Zenon
          DEF Staff!Visit, Staff!Unreachable, Staff!RefreshRead, Staff!Claim,
              Staff!EndFamily, Staff!Issue, Staff!Login, Staff!SetPasswordRead,
              Staff!SetPasswordWrite, Staff!RevokeAll, staffVars
<1>4. spent' \in [Tokens -> Moments]
  <2>1. spent \in [Tokens -> Moments] /\ \A r \in Requests : req[r].at \in Moments
    BY DEF StaffTypes, Visits, Moments
  <2>2. ASSUME NEW r \in Requests, Staff!Claim(r) PROVE spent' \in [Tokens -> Moments]
    <3>1. spent' = spent \/ \E t \in Tokens : spent' = [spent EXCEPT ![t] = IF @ = Never THEN req[r].at ELSE @]
      BY <2>2, Zenon DEF Staff!Claim, Staff!Rows
    <3> QED BY <2>1, <3>1
  <2> QED BY <2>1, <2>2, StaffCalls, Zenon
          DEF Staff!Visit, Staff!Unreachable, Staff!Deliver, Staff!RefreshRead,
              Staff!EndFamily, Staff!Issue, Staff!Login, Staff!SetPasswordRead, Staff!BeginFamily,
              Staff!SetPasswordWrite, Staff!RevokeAll, Staff!Logout, staffVars
<1>5. excused' \in BOOLEAN
  BY StaffCalls, ZenonT(60)
  DEF StaffTypes, Staff!Visit, Staff!Unreachable, Staff!Deliver, Staff!RefreshRead, Staff!Claim,
      Staff!EndFamily, Staff!Issue, Staff!Login, Staff!SetPasswordRead, Staff!BeginFamily,
      Staff!SetPasswordWrite, Staff!RevokeAll, Staff!Logout, Staff!Tick, staffVars
<1> QED BY <1>1, <1>2, <1>3, <1>4, <1>5, RowTypesKept, VisitTypesKept, Zenon DEF StaffTypes

-----------------------------------------------------------------------------
(* Families *)

\* A row once written is never written over: it is purged, claimed or revoked.
SameRow(t) ==
    /\ row'[t].started = row[t].started /\ row'[t].iat = row[t].iat /\ row'[t].from = row[t].from
    /\ row'[t].claimed = row[t].claimed /\ row'[t].late = row[t].late
    /\ row'[t].family \in {row[t].family, NoToken}

NewRow(t, family, started, from, claimed) ==
    /\ row[t] = Staff!NoRow
    /\ row'[t].family = family /\ row'[t].started = started /\ row'[t].iat = now
    /\ row'[t].used = Never /\ row'[t].from = from /\ row'[t].claimed = claimed

\* An insertion makes one row and leaves the others as they are.
LEMMA InsertMoves ==
    ASSUME StaffTypes, NEW n \in Staff!Fresh, NEW family, NEW started, NEW from, NEW claimed,
           Staff!Insert(n, family, started, from, claimed), NEW t \in Tokens
    PROVE  IF t = n THEN NewRow(t, family, started, from, claimed)
                    ELSE SameRow(t) /\ row'[t].used = row[t].used
<1>1. n \in Tokens /\ row[n] = Staff!NoRow
  BY DEF Staff!Fresh
<1> QED BY <1>1 DEF Staff!Insert, StaffTypes, SameRow, NewRow

\* A revocation changes nothing but the mark of the rows it revokes.
LEMMA RevokeMoves ==
    ASSUME StaffTypes, NEW tokens, Staff!Revoke(tokens), NEW t \in Tokens
    PROVE  SameRow(t) /\ row'[t].used = row[t].used
BY DEF Staff!Revoke, StaffTypes, SameRow, Refreshes

\* How a row moves: it stays itself, is inserted by the renewal of another, or heads a family of its own.
LEMMA RowMoves ==
    ASSUME StaffTypes, [Staff!Next]_staffVars, NEW t \in Tokens
    PROVE  \/ SameRow(t) /\ (row'[t].used = row[t].used \/ \E r \in Requests : Staff!Claim(r))
           \/ \E r \in Requests : Staff!Issue(r) /\
                  NewRow(t, req[r].family, req[r].started, req[r].cookie.token, req[r].at)
           \/ NewRow(t, t, now, NoToken, now)
<1> DEFINE Goal == \/ SameRow(t) /\ (row'[t].used = row[t].used \/ \E r \in Requests : Staff!Claim(r))
                   \/ \E r \in Requests : Staff!Issue(r) /\
                          NewRow(t, req[r].family, req[r].started, req[r].cookie.token, req[r].at)
                   \/ NewRow(t, t, now, NoToken, now)
<1>1. ASSUME NEW r \in Requests, Staff!Claim(r) PROVE Goal
  <2>1. SameRow(t)
    BY <1>1 DEF Staff!Claim, StaffTypes, SameRow, Refreshes
  <2> QED BY <1>1, <2>1
<1>2. ASSUME NEW r \in Requests, Staff!Issue(r) PROVE Goal
  <2>1. PICK n \in Staff!Fresh :
            Staff!Insert(n, req[r].family, req[r].started, req[r].cookie.token, req[r].at)
    BY <1>2, Zenon DEF Staff!Issue
  <2> QED BY <1>2, <2>1, InsertMoves
<1>3. ASSUME NEW r \in Requests, Staff!BeginFamily(r) PROVE Goal
  <2>1. PICK n \in Staff!Fresh : Staff!Insert(n, n, now, NoToken, now)
    BY <1>3, Zenon DEF Staff!BeginFamily
  <2> QED BY <2>1, InsertMoves
<1>4. ASSUME NEW r \in Requests, Staff!Login(r) PROVE Goal
  BY <1>4 DEF Staff!Login, StaffTypes, SameRow, Refreshes
<1>5. ASSUME NEW tokens, Staff!Revoke(tokens) PROVE Goal
  BY <1>5, RevokeMoves
<1>6. ASSUME row' = row PROVE Goal
  BY <1>6 DEF SameRow
<1> HIDE DEF Goal
<1>7. Goal
  BY <1>1, <1>2, <1>3, <1>4, <1>5, <1>6, StaffCalls, Zenon
     DEF Staff!Visit, Staff!Unreachable, Staff!Deliver, Staff!RefreshRead, Staff!EndFamily,
         Staff!SetPasswordRead, Staff!SetPasswordWrite, Staff!RevokeAll, Staff!Logout,
         Staff!RevokeFamily, staffVars
<1> QED BY <1>7 DEF Goal

\* A row once made stays that row.
LEMMA MadeKept ==
    ASSUME StaffTypes, [Staff!Next]_staffVars, NEW t, Made(t)
    PROVE  Made(t)' /\ SameRow(t)
<1>1. t \in Tokens /\ row[t] # Staff!NoRow
  BY StaffRecords DEF Made
<1>2. SameRow(t)
  BY <1>1, RowMoves DEF NewRow
<1> QED BY <1>1, <1>2 DEF Made, SameRow

\* An answer ends the request that did the work and those that joined it, and no other.
LEMMA AnswerMovesVisits ==
    ASSUME StaffTypes, NEW r \in Requests, NEW c, Staff!Answer(r, c), NEW q \in Requests
    PROVE  \/ q # r /\ req'[q] = req[q]
           \/ (q = r \/ req[q].pc = "joined") /\ req'[q].pc = "answered" /\ req'[q].cookie = c
BY ZenonT(60) DEF Staff!Answer, StaffTypes, Visits

\* How a request comes to be exchanging a token.
Read(q) == /\ Staff!RefreshRead(q) /\ req'[q].pc = "claim" /\ req[q].cookie.token \in Staff!Rows
           /\ req'[q].family = row[req[q].cookie.token].family
           /\ req'[q].started = row[req[q].cookie.token].started
Claimed(q) == /\ Staff!Claim(q) /\ req'[q].pc \in {"issue", "revoke"}
              /\ req'[q].family = req[q].family /\ req'[q].started = req[q].started
              /\ req'[q].at = req[q].at
Began(q, p) == /\ Staff!Visit(q, p) /\ req'[q].pc = "refresh" /\ req'[q].p = p
               /\ req'[q].cookie = cookie /\ ~Staff!Shares(p, cookie.token)

\* Where a request that is at work was a step before.
LEMMA WorkMoves ==
    ASSUME StaffTypes, [Staff!Next]_staffVars, NEW q \in Requests, req'[q].pc \in Working
    PROVE  \/ req'[q] = req[q]
           \/ \E p \in Processes : Began(q, p)
           \/ /\ req[q].pc \in Working /\ req'[q].p = req[q].p /\ req'[q].cookie = req[q].cookie
              /\ Read(q) \/ Claimed(q)
<1> DEFINE Goal == \/ req'[q] = req[q]
                   \/ \E p \in Processes : Began(q, p)
                   \/ /\ req[q].pc \in Working /\ req'[q].p = req[q].p /\ req'[q].cookie = req[q].cookie
                      /\ Read(q) \/ Claimed(q)
<1>0. req \in [Requests -> Visits] /\ req[q] \in Visits /\ Staff!IdleReq.pc = "idle"
  BY StaffRecords DEF StaffTypes
<1>1. ASSUME NEW r \in Requests, NEW p \in Processes, Staff!Visit(r, p) PROVE Goal
  <2>1. CASE q # r
    BY <1>0, <1>1, <2>1 DEF Staff!Visit, Staff!Begin
  <2>2. CASE q = r
    <3>1. PICK v : req' = [req EXCEPT ![r] = v]
                   /\ \/ v = [Staff!IdleReq EXCEPT !.pc = "answered", !.p = p,
                                                   !.cookie = renewals[p][cookie.token].cookie]
                      \/ v = [Staff!IdleReq EXCEPT !.pc = "joined", !.p = renewals[p][cookie.token].by,
                                                   !.cookie = cookie]
                      \/ /\ v = [Staff!IdleReq EXCEPT !.pc = "refresh", !.p = p, !.cookie = cookie]
                         /\ ~Staff!Shares(p, cookie.token)
      BY <1>1, Zenon DEF Staff!Visit, Staff!Begin
    <3>2. req'[q] = v
      BY <1>0, <2>2, <3>1
    <3>3. v.pc \in Working
      BY <3>2
    <3>4. v = [Staff!IdleReq EXCEPT !.pc = "refresh", !.p = p, !.cookie = cookie]
          /\ ~Staff!Shares(p, cookie.token)
      BY <3>1, <3>3 DEF Working, Staff!IdleReq
    <3> QED BY <1>1, <2>2, <3>2, <3>4 DEF Began, Staff!IdleReq
  <2> QED BY <2>1, <2>2
<1>2. ASSUME NEW r \in Requests, NEW c, Staff!Answer(r, c) PROVE Goal
  BY <1>2, AnswerMovesVisits DEF Working
<1>3. ASSUME NEW r \in Requests, Staff!RefreshRead(r) PROVE Goal
  <2>1. CASE req[r].cookie.token \in Staff!Rows /\ Staff!Honoured(req[r].cookie.token)
    <3>1. /\ req[r].pc = "refresh"
          /\ req' = [req EXCEPT ![r].pc = "claim", ![r].at = now,
                                ![r].family = row[req[r].cookie.token].family,
                                ![r].started = row[req[r].cookie.token].started]
      BY <1>3, <2>1 DEF Staff!RefreshRead
    <3>2. CASE q # r
      BY <1>0, <3>1, <3>2
    <3>3. CASE q = r
      BY <1>0, <1>3, <2>1, <3>1, <3>3 DEF Visits, Working, Read
    <3> QED BY <3>2, <3>3
  <2>2. CASE ~(req[r].cookie.token \in Staff!Rows /\ Staff!Honoured(req[r].cookie.token))
    BY <1>2, <1>3, <2>2 DEF Staff!RefreshRead, Staff!Refused
  <2> QED BY <2>1, <2>2
<1>4. ASSUME NEW r \in Requests, Staff!Claim(r) PROVE Goal
  <2>1. PICK pc \in {"issue", "revoke"} : req[r].pc = "claim" /\ req' = [req EXCEPT ![r].pc = pc]
    BY <1>4, Zenon DEF Staff!Claim, Staff!Goto
  <2> QED BY <1>0, <1>4, <2>1 DEF Visits, Working, Claimed
<1>5. ASSUME NEW r \in Requests, NEW pc \in {"begin", "revokeAll"}, Staff!Goto(r, pc) PROVE Goal
  BY <1>0, <1>5 DEF Visits, Working, Staff!Goto
<1>6. ASSUME NEW r \in Requests, NEW pc \in {"idle", "begin", "setPassword"},
             req' = [req EXCEPT ![r] = [Staff!IdleReq EXCEPT !.pc = pc]]
      PROVE  Goal
  BY <1>0, <1>6 DEF Working, Staff!IdleReq
<1>7. ASSUME NEW r \in Requests, Staff!Finish(r) PROVE Goal
  BY <1>0, <1>7 DEF Working, Staff!Finish
<1>8. ASSUME req' = req PROVE Goal
  BY <1>8
<1> HIDE DEF Goal
<1>9. Goal
  BY <1>1, <1>2, <1>3, <1>4, <1>5, <1>6, <1>7, <1>8, StaffCalls, Zenon
     DEF Staff!Unreachable, Staff!Deliver, Staff!EndFamily, Staff!Refused, Staff!Issue, Staff!Login,
         Staff!SetPasswordRead, Staff!Begin, Staff!BeginFamily, Staff!SetPasswordWrite,
         Staff!RevokeAll, Staff!Logout, staffVars
<1> QED BY <1>9 DEF Goal

\* Every step keeps Heads: a family is named after its first token, which is its own.
LEMMA HeadsKept == StaffTypes /\ Heads /\ [Staff!Next]_staffVars => Heads'
<1> SUFFICES ASSUME StaffTypes, Heads, [Staff!Next]_staffVars PROVE Heads'
  OBVIOUS
<1>1. ASSUME NEW f, NEW started, Headed(f, started) PROVE Headed(f, started)'
  BY <1>1, MadeKept DEF Headed, SameRow
<1>2. ASSUME NEW t \in Staff!Rows' PROVE Headed(row[t].family, row[t].started)'
  <2>0. t \in Tokens /\ row'[t].family # NoToken
    BY <1>2 DEF Staff!Rows
  <2>1. CASE SameRow(t)
    <3>1. t \in Staff!Rows /\ row'[t].family = row[t].family /\ row'[t].started = row[t].started
      BY <2>0, <2>1 DEF SameRow, Staff!Rows
    <3> QED BY <1>1, <3>1 DEF Heads
  <2>2. ASSUME NEW r \in Requests, Staff!Issue(r),
               NewRow(t, req[r].family, req[r].started, req[r].cookie.token, req[r].at)
        PROVE  Headed(row[t].family, row[t].started)'
    <3>1. Headed(req[r].family, req[r].started)
      BY <2>2 DEF Heads, Staff!Issue
    <3> QED BY <1>1, <2>2, <3>1 DEF NewRow
  <2>3. CASE NewRow(t, t, now, NoToken, now)
    <3>1. now # Never
      BY StaffNumbers DEF StaffTypes, Ticks
    <3> QED BY <2>0, <2>3, <3>1 DEF NewRow, Headed, Made
  <2> QED BY <2>0, <2>1, <2>2, <2>3, RowMoves
<1>3. ASSUME NEW q \in Requests, req'[q].pc \in {"claim", "issue"}
      PROVE  Headed(req[q].family, req[q].started)'
  <2>1. CASE req'[q] = req[q]
    BY <1>1, <1>3, <2>1 DEF Heads
  <2>2. CASE Read(q)
    BY <1>1, <2>2 DEF Heads, Read
  <2>3. CASE Claimed(q)
    BY <1>1, <2>3 DEF Heads, Claimed, Staff!Claim
  <2> QED BY <1>3, <2>1, <2>2, <2>3, WorkMoves DEF Working, Began
<1> QED BY <1>2, <1>3 DEF Heads

\* Every step keeps FamiliesEnd.
LEMMA FamiliesEndKept == StaffTypes /\ FamiliesEnd /\ [Staff!Next]_staffVars => FamiliesEnd'
<1> SUFFICES ASSUME StaffTypes, FamiliesEnd, [Staff!Next]_staffVars PROVE FamiliesEnd'
  OBVIOUS
<1>1. ASSUME NEW n \in Staff!Fresh, NEW family, NEW started, NEW from, NEW claimed,
             Staff!Insert(n, family, started, from, claimed)
      PROVE  FamiliesEnd'
  <2>0. n \in Tokens /\ n \notin Staff!Rows
    BY DEF Staff!Fresh, Staff!Rows, Staff!NoRow
  <2>1. /\ \A t \in Tokens : t # n => row'[t] = row[t]
        /\ row'[n].revoked = FALSE /\ row'[n].family = family
        /\ row'[n].late = \E s \in Staff!Rows : row[s].family = family
                              /\ (row[s].revoked \/ Staff!IssuedBefore(row[s].started))
    BY <1>1, <2>0 DEF Staff!Insert, StaffTypes
  <2> QED BY ZenonT(60), <2>0, <2>1 DEF FamiliesEnd, Staff!Rows
<1>2. ASSUME NEW tokens, Staff!Revoke(tokens),
             \A t, s \in Staff!Rows : row[s].family = row[t].family /\ s \in tokens => t \in tokens
      PROVE  FamiliesEnd'
  <2>1. \A t \in Tokens : /\ row'[t].family = row[t].family /\ row'[t].late = row[t].late
                          /\ row'[t].revoked = (row[t].revoked \/ t \in tokens \cap Staff!Rows)
    BY <1>2 DEF Staff!Revoke, StaffTypes, Refreshes
  <2> QED BY <1>2, <2>1 DEF FamiliesEnd, Staff!Rows
<1>3. ASSUME \A t \in Tokens : /\ row'[t].family \in {row[t].family, NoToken}
                               /\ row'[t].late = row[t].late /\ row'[t].revoked = row[t].revoked
      PROVE  FamiliesEnd'
  BY <1>3 DEF FamiliesEnd, Staff!Rows
<1>4. ASSUME NEW r \in Requests, Staff!Claim(r) PROVE FamiliesEnd'
  <2>1. row' = row \/ row' = [row EXCEPT ![req[r].cookie.token].used = req[r].at]
    BY <1>4, Zenon DEF Staff!Claim
  <2> QED BY <1>3, <2>1 DEF StaffTypes, Refreshes
<1>5. ASSUME NEW r \in Requests, Staff!Login(r) PROVE FamiliesEnd'
  BY <1>3, <1>5 DEF Staff!Login, StaffTypes, Refreshes
<1>6. ASSUME NEW x, Staff!RevokeFamily(x) PROVE FamiliesEnd'
  <2>1. \A t, s \in Staff!Rows : row[s].family = row[t].family /\ s \in Staff!Family(x)
                                    => t \in Staff!Family(x)
    BY DEF Staff!Family
  <2> QED BY <1>2, <1>6, <2>1 DEF Staff!RevokeFamily
<1>7. ASSUME NEW r \in Requests, Staff!RevokeAll(r) PROVE FamiliesEnd'
  BY <1>2, <1>7 DEF Staff!RevokeAll
<1>8. ASSUME row' = row PROVE FamiliesEnd'
  BY <1>3, <1>8
<1>9. ASSUME NEW r \in Requests, Staff!Issue(r) \/ Staff!BeginFamily(r) PROVE FamiliesEnd'
  BY <1>1, <1>9, Zenon DEF Staff!Issue, Staff!BeginFamily
<1> QED BY <1>4, <1>5, <1>6, <1>7, <1>8, <1>9, StaffCalls, Zenon
        DEF Staff!Visit, Staff!Unreachable, Staff!Deliver, Staff!RefreshRead, Staff!EndFamily,
            Staff!SetPasswordRead, Staff!SetPasswordWrite, Staff!Logout, staffVars

-----------------------------------------------------------------------------
(* One exchange *)

\* A token is spent when it is claimed, and the first instant it was claimed at is remembered.
LEMMA SpentMoves ==
    ASSUME StaffTypes, [Staff!Next]_staffVars, NEW t \in Tokens
    PROVE  \/ spent'[t] = spent[t] /\ ((\E r \in Requests : Staff!Claim(r)) => row'[t].used = row[t].used)
           \/ \E r \in Requests : /\ req[r].pc = "claim" /\ req[r].cookie.token = t /\ t \in Staff!Rows
                                   /\ row[t].used = Never /\ row'[t].used = req[r].at
                                   /\ spent'[t] = IF spent[t] = Never THEN req[r].at ELSE spent[t]
<1>1. ASSUME NEW r \in Requests, Staff!Claim(r)
      PROVE  \/ spent'[t] = spent[t] /\ row'[t].used = row[t].used
             \/ /\ req[r].pc = "claim" /\ req[r].cookie.token = t /\ t \in Staff!Rows
                /\ row[t].used = Never /\ row'[t].used = req[r].at
                /\ spent'[t] = IF spent[t] = Never THEN req[r].at ELSE spent[t]
  <2>1. CASE req[r].cookie.token \in Staff!Rows /\ Staff!Wins(req[r].cookie.token)
    <3>1. /\ req[r].pc = "claim"
          /\ row' = [row EXCEPT ![req[r].cookie.token].used = req[r].at]
          /\ spent' = [spent EXCEPT ![req[r].cookie.token] = IF @ = Never THEN req[r].at ELSE @]
      BY <1>1, <2>1, Zenon DEF Staff!Claim
    <3> QED BY <2>1, <3>1 DEF StaffTypes, Staff!Wins, Refreshes
  <2>2. CASE ~(req[r].cookie.token \in Staff!Rows /\ Staff!Wins(req[r].cookie.token))
    BY <1>1, <2>2, Zenon DEF Staff!Claim
  <2> QED BY <2>1, <2>2
<1>2. ASSUME ~\E r \in Requests : Staff!Claim(r) PROVE spent' = spent
  BY <1>2, StaffCalls, Zenon
     DEF Staff!Visit, Staff!Unreachable, Staff!Deliver, Staff!RefreshRead, Staff!EndFamily,
         Staff!Issue, Staff!Login, Staff!SetPasswordRead, Staff!BeginFamily,
         Staff!SetPasswordWrite, Staff!RevokeAll, Staff!Logout, staffVars
<1> QED BY <1>1, <1>2, Zenon

\* Every step keeps Spending: the mark on the row and the history agree.
LEMMA SpendingKept ==
    StaffTypes /\ Heads /\ Spending /\ [Staff!Next]_staffVars => Spending'
<1> SUFFICES ASSUME StaffTypes, Heads, Spending, [Staff!Next]_staffVars PROVE Spending'
  OBVIOUS
<1>0. ASSUME NEW t \in Staff!Rows PROVE t \in Tokens /\ Made(t)
  <2>1. t \in Tokens /\ row[t].family \in Tokens /\ row[t].started = row[row[t].family].iat
    BY DEF Heads, Headed, Made, Staff!Rows
  <2>2. row[row[t].family] \in Refreshes
    BY <2>1 DEF StaffTypes
  <2>3. row[row[t].family].iat # Never
    BY <2>2, StaffNumbers DEF Refreshes, Ticks
  <2> QED BY <2>1, <2>3 DEF Made
<1>1. ASSUME NEW t \in Tokens, spent[t] # Never PROVE spent'[t] = spent[t]
  BY <1>1, SpentMoves
<1>2. ASSUME NEW t, NEW at, InTime(t, at) PROVE InTime(t, at)'
  <2>1. Made(t)' /\ t \in Tokens /\ spent'[t] = spent[t]
    BY <1>1, <1>2, MadeKept DEF InTime, Made
  <2> QED BY <1>2, <2>1 DEF InTime
<1>3. ASSUME NEW t \in Tokens PROVE row'[t].used = spent'[t] /\ (spent'[t] # Never => Made(t)')
  <2>1. CASE \E r \in Requests : Staff!Claim(r)
    <3>1. spent'[t] = row'[t].used
      BY <2>1, SpentMoves DEF Spending
    <3>2. spent'[t] # Never => Made(t)
      BY <1>0, SpentMoves DEF Spending
    <3> QED BY <3>1, <3>2, MadeKept
  <2>2. CASE ~\E r \in Requests : Staff!Claim(r)
    <3>1. spent'[t] = spent[t]
      BY <2>2, StaffCalls, Zenon
         DEF Staff!Visit, Staff!Unreachable, Staff!Deliver, Staff!RefreshRead, Staff!EndFamily,
             Staff!Issue, Staff!Login, Staff!SetPasswordRead, Staff!BeginFamily,
             Staff!SetPasswordWrite, Staff!RevokeAll, Staff!Logout, staffVars
    <3>2. row'[t].used = row[t].used \/ (row[t] = Staff!NoRow /\ row'[t].used = Never)
      BY <2>2, RowMoves DEF NewRow
    <3>3. row[t] = Staff!NoRow => spent[t] = Never
      BY StaffRecords DEF Spending, Made
    <3> QED BY <3>1, <3>2, <3>3, MadeKept DEF Spending
  <2> QED BY <2>1, <2>2
<1>4. ASSUME NEW q \in Requests, req'[q].pc = "issue" PROVE InTime(req[q].cookie.token, req[q].at)'
  <2>1. CASE req'[q] = req[q]
    BY <1>2, <1>4, <2>1 DEF Spending
  <2>2. CASE Claimed(q) /\ req'[q].cookie = req[q].cookie
    <3> PICK t : t = req[q].cookie.token  OBVIOUS
    <3>0. Staff!Claim(q) /\ req'[q].at = req[q].at /\ req[q].at \in Ticks /\ req[q] \in Visits
      BY <2>2 DEF Claimed, StaffTypes, Visits
    <3>1. t \in Staff!Rows
      BY <1>4, <3>0 DEF Staff!Claim, Staff!Goto, StaffTypes, Visits
    <3>2. t \in Tokens /\ Made(t)'
      BY <1>0, <3>1, MadeKept
    <3>3. CASE Staff!Wins(t)
      <4>1. spent'[t] = req[q].at
        BY <3>0, <3>1, <3>2, <3>3 DEF Staff!Claim, Staff!Wins, Spending, StaffTypes
      <4>2. req[q].at # Never /\ req[q].at - req[q].at <= Grace
        BY <3>0, StaffNumbers DEF Ticks
      <4> QED BY <2>2, <3>0, <3>2, <4>1, <4>2 DEF InTime
    <3>4. CASE ~Staff!Wins(t)
      <4>1. spent'[t] = spent[t] /\ spent[t] # Never
        BY <1>1, <3>2, <3>4 DEF Staff!Wins, Spending
      <4>2. Staff!WithinGrace(q, t)
        BY <1>4, <3>0, <3>1, <3>4 DEF Staff!Claim, Staff!Goto, StaffTypes, Visits
      <4>3. req[q].at - spent[t] <= Grace
        BY <3>2, <4>2 DEF Staff!WithinGrace, Spending
      <4> QED BY <2>2, <3>0, <3>2, <4>1, <4>3 DEF InTime
    <3> QED BY <3>3, <3>4
  <2> QED BY <1>4, <2>1, <2>2, WorkMoves DEF Working, Began, Read
<1>5. ASSUME NEW t \in Tokens, row'[t].from # NoToken PROVE InTime(row[t].from, row[t].claimed)'
  <2>1. CASE SameRow(t)
    BY <1>2, <1>5, <2>1 DEF Spending, SameRow
  <2>2. ASSUME NEW r \in Requests, Staff!Issue(r),
               NewRow(t, req[r].family, req[r].started, req[r].cookie.token, req[r].at)
        PROVE  InTime(row[t].from, row[t].claimed)'
    <3>1. InTime(req[r].cookie.token, req[r].at)
      BY <2>2 DEF Spending, Staff!Issue
    <3> QED BY <1>2, <2>2, <3>1 DEF NewRow
  <2> QED BY <1>5, <2>1, <2>2, RowMoves DEF NewRow
<1> QED BY <1>3, <1>4, <1>5 DEF Spending

-----------------------------------------------------------------------------
(* Who renews what *)

\* The three ways a visit goes: it takes the cookie of a renewal that is over, waits for one
\* that is not, or starts one.
Took(r, p) ==
    /\ Staff!Shares(p, cookie.token) /\ renewals[p][cookie.token].by = NoRequest
    /\ req' = [req EXCEPT ![r] = [Staff!IdleReq EXCEPT !.pc = "answered", !.p = p,
                                     !.cookie = renewals[p][cookie.token].cookie]]
    /\ UNCHANGED renewals
Joined(r, p) ==
    /\ req' = [req EXCEPT ![r] = [Staff!IdleReq EXCEPT !.pc = "joined",
                                     !.p = renewals[p][cookie.token].by, !.cookie = cookie]]
    /\ UNCHANGED renewals
Started(r, p) ==
    /\ ~Staff!Shares(p, cookie.token)
    /\ req' = [req EXCEPT ![r] = [Staff!IdleReq EXCEPT !.pc = "refresh", !.p = p, !.cookie = cookie]]
    /\ renewals' = [renewals EXCEPT ![p][cookie.token] = [by |-> r, until |-> now + Share, cookie |-> cookie]]

\* The three things a visit may be.
LEMMA VisitForms ==
    ASSUME StaffTypes, NEW r \in Requests, NEW p, Staff!Visit(r, p)
    PROVE  /\ req[r].pc = "idle" /\ cookie.token \in Tokens
           /\ UNCHANGED <<now, row, cookie, spent, excused>>
           /\ Took(r, p) \/ Joined(r, p) \/ Started(r, p)
<1>1. cookie.token \in Tokens
  BY DEF Staff!Visit, StaffTypes, Jars, TokenIds
<1>2. req[r].pc = "idle" /\ UNCHANGED <<now, row, cookie, spent, excused>>
  BY Zenon DEF Staff!Visit, Staff!Begin
<1>3. Took(r, p) \/ Joined(r, p) \/ Started(r, p)
  BY Zenon DEF Staff!Visit, Staff!Begin, Took, Joined, Started
<1> QED BY <1>1, <1>2, <1>3

\* A request that is answered gets its own cookie again or a successor of its token.
AnsweredWith(r, c) ==
    /\ req[r].pc \in Working /\ Staff!Answer(r, c)
    /\ \/ c.token = req[r].cookie.token
       \/ \E n \in Staff!Fresh : c.token = n /\ row'[n].from = req[r].cookie.token

\* The four ways to answer a renewal.
LEMMA AnswersAre ==
    ASSUME StaffTypes, NEW r \in Requests,
           \/ Staff!Unreachable(r) \/ Staff!EndFamily(r) \/ Staff!Issue(r)
           \/ Staff!RefreshRead(r) /\ ~(\E t \in Staff!Rows : t = req[r].cookie.token /\ Staff!Honoured(t))
    PROVE  \E c \in Jars : AnsweredWith(r, c)
<1>0. req[r].cookie \in Jars
  BY DEF StaffTypes, Visits
<1>1. ASSUME Staff!Answer(r, req[r].cookie), req[r].pc \in Working PROVE \E c \in Jars : AnsweredWith(r, c)
  BY <1>0, <1>1 DEF AnsweredWith
<1>2. ASSUME Staff!Refused(r), req[r].pc \in Working PROVE \E c \in Jars : AnsweredWith(r, c)
  <2> DEFINE c == [req[r].cookie EXCEPT !.error = TRUE]
  <2>1. c \in Jars /\ c.token = req[r].cookie.token
    BY <1>0 DEF Jars
  <2>2. Staff!Answer(r, c)
    BY <1>2 DEF Staff!Refused
  <2> HIDE DEF c
  <2> QED BY <1>2, <2>1, <2>2 DEF AnsweredWith
<1>3. ASSUME Staff!Issue(r) PROVE \E c \in Jars : AnsweredWith(r, c)
  <2>1. PICK n \in Staff!Fresh :
            /\ Staff!Insert(n, req[r].family, req[r].started, req[r].cookie.token, req[r].at)
            /\ \/ Staff!Answer(r, [token |-> n, access |-> now, error |-> FALSE])
               \/ Staff!Answer(r, req[r].cookie)
    BY <1>3, Zenon DEF Staff!Issue
  <2>2. req[r].pc \in Working
    BY <1>3 DEF Staff!Issue, Working
  <2>3. n \in Tokens /\ row'[n].from = req[r].cookie.token
    BY <2>1 DEF Staff!Insert, Staff!Fresh, StaffTypes
  <2> DEFINE d == [token |-> n, access |-> now, error |-> FALSE]
  <2>4. d \in Jars /\ d.token = n
    BY <2>3 DEF StaffTypes, Jars, TokenIds, Moments
  <2>5. Staff!Answer(r, d) \/ Staff!Answer(r, req[r].cookie)
    BY <2>1
  <2> HIDE DEF d
  <2> QED BY <1>1, <2>2, <2>3, <2>4, <2>5 DEF AnsweredWith
<1>4. Staff!Unreachable(r) \/ Staff!EndFamily(r) \/ Staff!RefreshRead(r) => req[r].pc \in Working
  BY DEF Staff!Unreachable, Staff!EndFamily, Staff!RefreshRead, Working
<1> QED BY <1>1, <1>2, <1>3, <1>4, Zenon
        DEF Staff!Unreachable, Staff!EndFamily, Staff!RefreshRead

\* What becomes of an entry of the map of renewals.
Kept(p, t) == renewals'[p][t] = renewals[p][t]
Swept(p, t) == renewals'[p][t] = Staff!NoRenewal
               /\ (Staff!Tick \/ \E q \in Requests, c \in Jars : AnsweredWith(q, c) /\ renewals[p][t].by = q)
Opened(p, t) == /\ t = cookie.token
                /\ \E q \in Requests : /\ Began(q, p)
                                       /\ renewals'[p][t] = [by |-> q, until |-> now + Share, cookie |-> cookie]
Closed(p, t) == \E q \in Requests, c \in Jars :
    /\ AnsweredWith(q, c) /\ renewals[p][t].by = q /\ req[q].p = p /\ req[q].cookie.token = t
    /\ renewals'[p][t].by = NoRequest /\ renewals'[p][t].cookie = c
    /\ renewals'[p][t].until = renewals[p][t].until

\* An answer closes the entry of the renewal it answers and leaves, or sweeps, the others.
LEMMA AnswerMovesEntry ==
    ASSUME StaffTypes, NEW r \in Requests, NEW c \in Jars, AnsweredWith(r, c), NEW p \in Processes, NEW t \in Tokens
    PROVE  Kept(p, t) \/ Swept(p, t) \/ Closed(p, t)
<1>1. CASE p = req[r].p /\ t = req[r].cookie.token /\ renewals[p][t].by = r
  <2>1. renewals' = [renewals EXCEPT ![p][t] = IF c.error THEN Staff!NoRenewal
                                               ELSE [renewals[p][t] EXCEPT !.by = NoRequest, !.cookie = c]]
    BY <1>1 DEF AnsweredWith, Staff!Answer
  <2>2. CASE c.error
    <3>1. renewals'[p][t] = Staff!NoRenewal
      BY <2>1, <2>2 DEF StaffTypes
    <3> QED BY <1>1, <3>1 DEF Swept
  <2>3. CASE ~c.error
    <3>1. renewals'[p][t] = [renewals[p][t] EXCEPT !.by = NoRequest, !.cookie = c]
      BY <2>1, <2>3 DEF StaffTypes
    <3>2. renewals[p][t] \in Shared
      BY DEF StaffTypes
    <3>3. /\ renewals'[p][t].by = NoRequest /\ renewals'[p][t].cookie = c
          /\ renewals'[p][t].until = renewals[p][t].until
      BY <3>1, <3>2 DEF Shared
    <3> QED BY <1>1, <3>3 DEF Closed
  <2> QED BY <2>2, <2>3
<1>2. CASE ~(p = req[r].p /\ t = req[r].cookie.token /\ renewals[p][t].by = r)
  BY <1>2 DEF AnsweredWith, Staff!Answer, Kept, StaffTypes
<1> QED BY <1>1, <1>2

\* How the entry of a token in the memory of a process moves.
LEMMA EntryMoves ==
    ASSUME StaffTypes, [Staff!Next]_staffVars, NEW p \in Processes, NEW t \in Tokens
    PROVE  Kept(p, t) \/ Swept(p, t) \/ Opened(p, t) \/ Closed(p, t)
<1> DEFINE Goal == Kept(p, t) \/ Swept(p, t) \/ Opened(p, t) \/ Closed(p, t)
<1>1. ASSUME NEW r \in Requests, NEW x \in Processes, Staff!Visit(r, x) PROVE Goal
  <2>1. CASE Started(r, x)
    <3>1. Began(r, x)
      <4>1. req'[r] = [Staff!IdleReq EXCEPT !.pc = "refresh", !.p = x, !.cookie = cookie]
        BY <2>1 DEF Started, StaffTypes
      <4>2. req'[r].pc = "refresh" /\ req'[r].p = x /\ req'[r].cookie = cookie
        BY <4>1 DEF Staff!IdleReq
      <4> QED BY <1>1, <2>1, <4>2 DEF Began, Started
    <3>2. IF x = p /\ t = cookie.token
            THEN renewals'[p][t] = [by |-> r, until |-> now + Share, cookie |-> cookie] ELSE Kept(p, t)
      BY <2>1 DEF Started, Kept, StaffTypes
    <3> QED BY <3>1, <3>2 DEF Opened
  <2>2. CASE Took(r, x) \/ Joined(r, x)
    BY <2>2 DEF Took, Joined, Kept
  <2> QED BY <1>1, <2>1, <2>2, VisitForms
<1>2. ASSUME NEW r \in Requests, NEW c \in Jars, AnsweredWith(r, c) PROVE Goal
  BY <1>2, AnswerMovesEntry
<1>3. ASSUME NEW r \in Requests, Staff!RefreshRead(r) PROVE Goal
  <2>1. CASE req[r].cookie.token \in Staff!Rows /\ Staff!Honoured(req[r].cookie.token)
    BY <1>3, <2>1 DEF Staff!RefreshRead, Kept
  <2>2. CASE ~(req[r].cookie.token \in Staff!Rows /\ Staff!Honoured(req[r].cookie.token))
    BY <1>2, <1>3, <2>2, AnswersAre
  <2> QED BY <2>1, <2>2
<1>4. ASSUME Staff!Tick PROVE Goal
  BY <1>4 DEF Staff!Tick, Kept, Swept
<1>5. ASSUME renewals' = renewals PROVE Goal
  BY <1>5 DEF Kept
<1>6. ASSUME NEW r \in Requests, Staff!Unreachable(r) \/ Staff!EndFamily(r) \/ Staff!Issue(r) PROVE Goal
  BY <1>2, <1>6, AnswersAre
<1> HIDE DEF Goal
<1>7. Goal
  BY <1>1, <1>3, <1>4, <1>5, <1>6, StaffCalls, Zenon
     DEF Staff!Deliver, Staff!Claim, Staff!Login, Staff!SetPasswordRead, Staff!BeginFamily,
         Staff!SetPasswordWrite, Staff!RevokeAll, Staff!Logout, staffVars
<1> QED BY <1>7 DEF Goal

\* What becomes of a request.
Ended(q) == req'[q] = Staff!IdleReq /\ (Staff!Deliver(q) \/ Staff!BeginFamily(q))
SetAside(q) == /\ req[q].pc \in {"idle", "setPassword", "revokeAll"}
                /\ req'[q].pc \in {"begin", "setPassword", "revokeAll"}
                /\ req'[q].cookie \in {Staff!NoCookie, req[q].cookie}
WorkedOn(q) == /\ req[q].pc \in Working /\ req'[q].pc \in Working
               /\ req'[q].p = req[q].p /\ req'[q].cookie = req[q].cookie
Got(q) == \E r \in Requests, c \in Jars :
    /\ AnsweredWith(r, c) /\ (q = r \/ req[q].pc = "joined")
    /\ req'[q].pc = "answered" /\ req'[q].cookie = c

\* How a request moves.
LEMMA RequestMoves ==
    ASSUME StaffTypes, [Staff!Next]_staffVars, NEW q \in Requests
    PROVE  \/ req'[q] = req[q] \/ (\E p \in Processes : Staff!Visit(q, p))
           \/ Ended(q) \/ SetAside(q) \/ WorkedOn(q) \/ Got(q)
<1> DEFINE Goal == \/ req'[q] = req[q] \/ (\E p \in Processes : Staff!Visit(q, p))
                   \/ Ended(q) \/ SetAside(q) \/ WorkedOn(q) \/ Got(q)
<1>0. req \in [Requests -> Visits] /\ req[q] \in Visits
  BY DEF StaffTypes
<1>1. ASSUME NEW r \in Requests, NEW p \in Processes, Staff!Visit(r, p) PROVE Goal
  <2>1. CASE q # r
    BY ZenonT(60), <1>0, <1>1, <2>1, VisitForms DEF Took, Joined, Started
  <2>2. CASE q = r
    BY <1>1, <2>2
  <2> QED BY <2>1, <2>2
<1>2. ASSUME NEW r \in Requests, NEW c \in Jars, AnsweredWith(r, c) PROVE Goal
  BY <1>2, AnswerMovesVisits DEF AnsweredWith, Got
<1>3. ASSUME NEW r \in Requests, Staff!RefreshRead(r) PROVE Goal
  <2>1. CASE req[r].cookie.token \in Staff!Rows /\ Staff!Honoured(req[r].cookie.token)
    <3>1. /\ req[r].pc = "refresh"
          /\ req' = [req EXCEPT ![r].pc = "claim", ![r].at = now,
                                ![r].family = row[req[r].cookie.token].family,
                                ![r].started = row[req[r].cookie.token].started]
      BY <1>3, <2>1 DEF Staff!RefreshRead
    <3> QED BY <1>0, <3>1 DEF Visits, Working, WorkedOn
  <2>2. CASE ~(req[r].cookie.token \in Staff!Rows /\ Staff!Honoured(req[r].cookie.token))
    BY <1>2, <1>3, <2>2, AnswersAre
  <2> QED BY <2>1, <2>2
<1>4. ASSUME NEW r \in Requests, Staff!Claim(r) PROVE Goal
  <2>1. PICK pc \in {"issue", "revoke"} : req[r].pc = "claim" /\ req' = [req EXCEPT ![r].pc = pc]
    BY <1>4, Zenon DEF Staff!Claim, Staff!Goto
  <2> QED BY <1>0, <2>1 DEF Visits, Working, WorkedOn
<1>5. ASSUME NEW r \in Requests, Staff!SetPasswordWrite(r) \/ Staff!RevokeAll(r) PROVE Goal
  <2>1. PICK pc \in {"begin", "revokeAll"} : /\ req[r].pc \in {"setPassword", "revokeAll"}
                                             /\ req' = [req EXCEPT ![r].pc = pc]
    BY <1>5, Zenon DEF Staff!SetPasswordWrite, Staff!RevokeAll, Staff!Goto
  <2> QED BY <1>0, <2>1 DEF Visits, SetAside
<1>6. ASSUME NEW r \in Requests, Staff!Login(r) \/ Staff!SetPasswordRead(r) PROVE Goal
  <2>1. PICK pc \in {"begin", "setPassword"} :
            req[r].pc = "idle" /\ req' = [req EXCEPT ![r] = [Staff!IdleReq EXCEPT !.pc = pc]]
    BY <1>6, Zenon DEF Staff!Login, Staff!SetPasswordRead, Staff!Begin
  <2> QED BY <1>0, <2>1 DEF Staff!IdleReq, SetAside
<1>7. ASSUME NEW r \in Requests, Staff!Deliver(r) \/ Staff!BeginFamily(r) PROVE Goal
  <2>1. req' = [req EXCEPT ![r] = Staff!IdleReq]
    BY <1>7, Zenon DEF Staff!Deliver, Staff!BeginFamily, Staff!Finish
  <2> QED BY <1>0, <1>7, <2>1 DEF Ended
<1>8. ASSUME req' = req PROVE Goal
  BY <1>8
<1>9. ASSUME NEW r \in Requests, Staff!Unreachable(r) \/ Staff!EndFamily(r) \/ Staff!Issue(r) PROVE Goal
  BY <1>2, <1>9, AnswersAre
<1> HIDE DEF Goal
<1>10. Goal
  BY <1>1, <1>3, <1>4, <1>5, <1>6, <1>7, <1>8, <1>9, StaffCalls, Zenon DEF Staff!Logout, staffVars
<1> QED BY <1>10 DEF Goal

\* The cookie of the browser comes from an answer delivered, from a login, or is dropped.
LEMMA CookieMoves ==
    ASSUME StaffTypes, [Staff!Next]_staffVars
    PROVE  \/ cookie' = cookie
           \/ \E r \in Requests : Staff!Deliver(r) /\ cookie' = req[r].cookie
                                  /\ excused' = (excused \/ Staff!Overtaken(r))
           \/ (\E r \in Requests : Staff!BeginFamily(r)) /\ cookie'.token \in Staff!Fresh
           \/ Staff!Logout /\ cookie'.token = NoToken
<1>1. ASSUME NEW r \in Requests, Staff!BeginFamily(r) PROVE cookie'.token \in Staff!Fresh
  BY <1>1 DEF Staff!BeginFamily
<1>2. ASSUME Staff!Logout PROVE cookie'.token = NoToken
  BY <1>2, StaffRecords DEF Staff!Logout
<1>3. ASSUME NEW r \in Requests, Staff!Deliver(r)
      PROVE  \/ cookie' = cookie
             \/ cookie' = req[r].cookie /\ excused' = (excused \/ Staff!Overtaken(r))
  BY <1>3, Zenon DEF Staff!Deliver
<1> QED BY <1>1, <1>2, <1>3, StaffCalls, Zenon
        DEF Staff!Visit, Staff!Unreachable, Staff!RefreshRead, Staff!Claim, Staff!EndFamily,
            Staff!Issue, Staff!Login, Staff!SetPasswordRead, Staff!SetPasswordWrite,
            Staff!RevokeAll, staffVars

\* A process's wait ends with the answer.
LEMMA AnswerEnds ==
    ASSUME StaffTypes, NEW r \in Requests, NEW c \in Jars, AnsweredWith(r, c),
           NEW p \in Processes, NEW t \in Tokens, p = req[r].p, t = req[r].cookie.token
    PROVE  renewals'[p][t].by # r
<1>1. renewals[p][t] \in Shared /\ NoRequest # r
  BY StaffNumbers DEF StaffTypes
<1>2. CASE renewals[p][t].by = r
  <2>1. renewals' = [renewals EXCEPT ![p][t] = IF c.error THEN Staff!NoRenewal
                                               ELSE [renewals[p][t] EXCEPT !.by = NoRequest, !.cookie = c]]
    BY <1>2 DEF AnsweredWith, Staff!Answer
  <2>2. renewals'[p][t] = Staff!NoRenewal \/ renewals'[p][t] = [renewals[p][t] EXCEPT !.by = NoRequest, !.cookie = c]
    BY <2>1 DEF StaffTypes
  <2> QED BY <1>1, <2>2, StaffRecords DEF Shared
<1>3. CASE renewals[p][t].by # r
  BY <1>3, AnswerMovesEntry, <1>1, StaffRecords DEF Kept, Swept, Closed
<1> QED BY <1>2, <1>3

\* Time does not go back.
LEMMA TimeGoesOn == StaffTypes /\ [Staff!Next]_staffVars => now' \in Int /\ now \in Int /\ now' >= now
<1> SUFFICES ASSUME StaffTypes, [Staff!Next]_staffVars
             PROVE  now' \in Int /\ now \in Int /\ now' >= now
  OBVIOUS
<1>1. now \in Int
  BY StaffNumbers DEF StaffTypes, Ticks
<1>2. now' = now \/ now' = now + 1
  BY StaffCalls, Zenon
  DEF Staff!Visit, Staff!Unreachable, Staff!Deliver, Staff!RefreshRead, Staff!Claim,
      Staff!EndFamily, Staff!Issue, Staff!Login, Staff!SetPasswordRead, Staff!BeginFamily,
      Staff!SetPasswordWrite, Staff!RevokeAll, Staff!Logout, Staff!Tick, staffVars
<1> QED BY <1>1, <1>2

\* A successor stays one.
LEMMA SuccessorsKept ==
    ASSUME StaffTypes, [Staff!Next]_staffVars, NEW s \in Tokens, row[s].from # NoToken
    PROVE  row'[s].from = row[s].from /\ row'[s].iat = row[s].iat /\ row'[s].claimed = row[s].claimed
BY RowMoves, StaffRecords DEF NewRow, SameRow

\* Every step keeps Keyed: the entry of a token is about that token.
LEMMA KeyedKept == StaffTypes /\ Keyed /\ [Staff!Next]_staffVars => Keyed'
<1> SUFFICES ASSUME StaffTypes, Keyed, [Staff!Next]_staffVars PROVE Keyed'
  OBVIOUS
<1> SUFFICES ASSUME NEW p \in Processes, NEW t \in Tokens
             PROVE  /\ renewals'[p][t].by # NoRequest =>
                           /\ req'[renewals'[p][t].by].pc \in Working
                           /\ req'[renewals'[p][t].by].p = p
                           /\ req'[renewals'[p][t].by].cookie.token = t
                    /\ renewals'[p][t].by = NoRequest /\ Staff!Shares(p, t)' =>
                           \/ renewals'[p][t].cookie.token = t
                           \/ /\ renewals'[p][t].cookie.token \in Tokens
                              /\ row'[renewals'[p][t].cookie.token].from = t
  BY SMTT(60) DEF Keyed, Staff!Shares
<1>0. t # NoToken /\ renewals[p][t] \in Shared
  BY StaffNumbers DEF StaffTypes
<1>1. CASE Kept(p, t)
  <2>1. ASSUME NEW q \in Requests, renewals[p][t].by = q
        PROVE  req'[q].pc \in Working /\ req'[q].p = p /\ req'[q].cookie.token = t
    <3>1. req[q].pc \in Working /\ req[q].p = p /\ req[q].cookie.token = t
      BY <2>1, StaffNumbers DEF Keyed
    <3>2. ~Got(q)
      BY <1>1, <2>1, <3>1, AnswerEnds DEF Got, Kept, Working
    <3>3. ~(\E x \in Processes : Staff!Visit(q, x)) /\ ~Ended(q) /\ ~SetAside(q)
      BY <3>1, VisitForms DEF Working, Ended, SetAside, Staff!Deliver, Staff!BeginFamily
    <3> QED BY <3>1, <3>2, <3>3, RequestMoves DEF WorkedOn
  <2>2. ASSUME renewals[p][t].by = NoRequest, Staff!Shares(p, t)'
        PROVE  \/ renewals[p][t].cookie.token = t
               \/ /\ renewals[p][t].cookie.token \in Tokens
                  /\ row'[renewals[p][t].cookie.token].from = t
    <3>1. Staff!Shares(p, t)
      BY <1>0, <1>1, <2>2, TimeGoesOn DEF Staff!Shares, Kept, Shared
    <3> QED BY <1>0, <2>2, <3>1, SuccessorsKept DEF Keyed
  <2> QED BY <1>0, <1>1, <2>1, <2>2 DEF Kept, Shared
<1>2. CASE Swept(p, t)
  BY <1>2, StaffRecords DEF Swept, Staff!Shares
<1>3. CASE Opened(p, t)
  BY <1>3, StaffNumbers DEF Opened, Began, Working
<1>4. CASE Closed(p, t)
  BY <1>4 DEF Closed, AnsweredWith, Staff!Fresh
<1> QED BY <1>1, <1>2, <1>3, <1>4, EntryMoves

\* Every step keeps Ages: what was claimed or remembered lies in the past.
LEMMA AgesKept == StaffTypes /\ Spending /\ Ages /\ [Staff!Next]_staffVars => Ages'
<1> SUFFICES ASSUME StaffTypes, Spending, Ages, [Staff!Next]_staffVars PROVE Ages'
  OBVIOUS
<1>0. now' \in Int /\ now \in Int /\ now' >= now /\ \A t \in Tokens : row[t].iat \in Int
  BY TimeGoesOn, StaffNumbers DEF StaffTypes, Refreshes, Ticks
<1>1. ASSUME NEW t \in Tokens PROVE row'[t].iat <= now'
  BY <1>0, RowMoves DEF Ages, SameRow, NewRow
<1>2. ASSUME NEW t \in Tokens, row'[t].from # NoToken
      PROVE  row'[row'[t].from].iat <= row'[t].iat /\ row'[t].from # t
  <2>1. CASE SameRow(t)
    <3>1. Made(row[t].from)
      BY <1>2, <2>1 DEF Spending, InTime, SameRow
    <3>2. SameRow(row[t].from)
      BY <3>1, MadeKept
    <3> QED BY <1>2, <2>1, <3>2 DEF Ages, SameRow
  <2>2. ASSUME NEW r \in Requests, Staff!Issue(r),
               NewRow(t, req[r].family, req[r].started, req[r].cookie.token, req[r].at)
        PROVE  row'[row'[t].from].iat <= row'[t].iat /\ row'[t].from # t
    <3>1. Made(req[r].cookie.token)
      BY <2>2 DEF Spending, InTime, Staff!Issue
    <3>2. SameRow(req[r].cookie.token) /\ req[r].cookie.token # t
      BY <2>2, <3>1, MadeKept, StaffRecords DEF Made, NewRow
    <3> QED BY <1>0, <2>2, <3>1, <3>2 DEF Ages, SameRow, NewRow, Made
  <2> QED BY <1>2, <2>1, <2>2, RowMoves DEF NewRow
<1> QED BY <1>1, <1>2 DEF Ages

-----------------------------------------------------------------------------
(* One exchange a process *)

\* A fresh token is new to all: it is no row's predecessor.
LEMMA FreshIsNew ==
    ASSUME StaffTypes, NEW n \in Staff!Fresh
    PROVE  n \in Tokens /\ ~Made(n) /\ row[n].from = NoToken
BY StaffRecords DEF Staff!Fresh, Made

\* Nobody takes up again a token that nobody holds, unless the browser holds its predecessor.
LEMMA GoneKept ==
    ASSUME StaffTypes, Keyed, [Staff!Next]_staffVars, NEW f, Made(f), Gone(f),
           cookie.token \in Tokens => row[f].from # cookie.token
    PROVE  Gone(f)'
<1>0. f \in Tokens /\ f # NoToken /\ f \notin Staff!Fresh
  BY StaffNumbers, FreshIsNew DEF Made
<1>1. cookie'.token # f
  BY <1>0, CookieMoves DEF Gone
<1>2. ASSUME NEW q \in Requests PROVE req'[q].cookie.token # f
  <2>1. ASSUME NEW p \in Processes, Staff!Visit(q, p) PROVE req'[q].cookie.token # f
    <3>1. cookie.token \in Tokens
      BY <2>1, VisitForms
    <3>2. CASE Took(q, p)
      <4>1. req'[q].cookie = renewals[p][cookie.token].cookie
        BY <3>2 DEF Took, StaffTypes, Staff!IdleReq
      <4>2. \/ renewals[p][cookie.token].cookie.token = cookie.token
            \/ row[renewals[p][cookie.token].cookie.token].from = cookie.token
        BY <3>1, <3>2 DEF Keyed, Took
      <4> QED BY <3>1, <4>1, <4>2 DEF Gone
    <3>3. CASE Joined(q, p) \/ Started(q, p)
      <4>1. req'[q].cookie = cookie
        BY ZenonT(60), <3>3 DEF Joined, Started, StaffTypes, Staff!IdleReq
      <4> QED BY <4>1 DEF Gone
    <3> QED BY <2>1, <3>2, <3>3, VisitForms
  <2>2. CASE Got(q)
    BY <1>0, <2>2 DEF Got, AnsweredWith, Gone
  <2>3. CASE Ended(q) \/ SetAside(q) \/ WorkedOn(q) \/ req'[q] = req[q]
    BY <1>0, <2>3, StaffRecords DEF Ended, SetAside, WorkedOn, Gone
  <2> QED BY <2>1, <2>2, <2>3, RequestMoves
<1> QED BY <1>1, <1>2 DEF Gone

\* A step that leaves nothing to excuse a second exchange.
Blameless == ~excused' /\ [Staff!Next]_staffVars

\* What a step does while nothing has been lost: time passes only when no request is in progress, and
\* then nothing else moves.
LEMMA BlamelessSteps ==
    ASSUME StaffTypes, Blameless
    PROVE  /\ ~excused
           /\ Staff!Tick => /\ \A q \in Requests : req[q].pc = "idle" /\ req'[q].pc = "idle"
                            /\ cookie' = cookie
           /\ ~Staff!Tick => now' = now
<1>1. ~excused
  BY StaffCalls, Zenon
     DEF Blameless, StaffTypes, Staff!Visit, Staff!Unreachable, Staff!Deliver, Staff!RefreshRead, Staff!Claim,
         Staff!EndFamily, Staff!Issue, Staff!Login, Staff!SetPasswordRead, Staff!BeginFamily,
         Staff!SetPasswordWrite, Staff!RevokeAll, Staff!Logout, Staff!Tick, staffVars
<1>2. ASSUME Staff!Tick
      PROVE  cookie' = cookie /\ \A q \in Requests : req[q].pc = "idle" /\ req'[q].pc = "idle"
  <2>1. \A q \in Requests : req[q].pc = "idle"
    BY <1>2, Zenon DEF Staff!Tick, Blameless
  <2>2. now' # now
    BY <1>2, StaffNumbers DEF Staff!Tick, StaffTypes, Ticks
  <2>3. req' = req /\ cookie' = cookie
    BY <2>2, StaffCalls, Zenon
       DEF Blameless, Staff!Visit, Staff!Unreachable, Staff!Deliver, Staff!RefreshRead, Staff!Claim,
           Staff!EndFamily, Staff!Issue, Staff!Login, Staff!SetPasswordRead, Staff!BeginFamily,
           Staff!SetPasswordWrite, Staff!RevokeAll, Staff!Logout, staffVars
  <2> QED BY <2>1, <2>3
<1>3. ~Staff!Tick => now' = now
  BY StaffCalls, Zenon
     DEF Blameless, Staff!Visit, Staff!Unreachable, Staff!Deliver, Staff!RefreshRead, Staff!Claim,
         Staff!EndFamily, Staff!Issue, Staff!Login, Staff!SetPasswordRead, Staff!BeginFamily,
         Staff!SetPasswordWrite, Staff!RevokeAll, Staff!Logout, staffVars
<1> QED BY <1>1, <1>2, <1>3

\* The exchanges of one request, blamelessly: the successor is new, and known to its process.
LEMMA IssueMoves ==
    ASSUME StaffTypes, Blameless, NEW r \in Requests, Staff!Issue(r)
    PROVE  \E n \in Staff!Fresh, c \in Jars :
              /\ AnsweredWith(r, c) /\ c.token = n /\ ~c.error /\ now' = now
              /\ row'[n].from = req[r].cookie.token /\ row'[n].iat = now
              /\ \A t \in Tokens \ {n} : row'[t].from = row[t].from
<1>1. PICK n \in Staff!Fresh :
          /\ Staff!Insert(n, req[r].family, req[r].started, req[r].cookie.token, req[r].at)
          /\ Staff!Answer(r, [token |-> n, access |-> now, error |-> FALSE])
  BY Zenon DEF Staff!Issue, Blameless
<1> DEFINE c == [token |-> n, access |-> now, error |-> FALSE]
<1>2. n \in Tokens /\ req[r].pc \in Working /\ now' = now
  BY FreshIsNew DEF Staff!Issue, Working
<1>3. c \in Jars /\ c.token = n /\ ~c.error
  BY <1>2 DEF StaffTypes, Jars, TokenIds, Moments
<1>4. Staff!Answer(r, c)
  BY <1>1
<1>5. /\ row'[n].from = req[r].cookie.token /\ row'[n].iat = now
      /\ \A t \in Tokens \ {n} : row'[t].from = row[t].from
  BY <1>1, <1>2 DEF Staff!Insert, StaffTypes
<1> HIDE DEF c
<1> QED BY <1>2, <1>3, <1>4, <1>5 DEF AnsweredWith

\* Successors come about no other way.
LEMMA SuccessorsCome ==
    ASSUME StaffTypes, Blameless, NEW s \in Tokens, row'[s].from # NoToken
    PROVE  \/ row'[s].from = row[s].from /\ row'[s].iat = row[s].iat
           \/ \E r \in Requests, c \in Jars :
                 /\ Staff!Issue(r) /\ AnsweredWith(r, c) /\ c.token = s /\ ~c.error /\ now' = now
                 /\ row'[s].from = req[r].cookie.token /\ row'[s].iat = now
<1>1. CASE row[s].from # NoToken
  BY <1>1, SuccessorsKept DEF Blameless
<1>2. CASE row[s].from = NoToken
  <2>1. PICK r \in Requests : Staff!Issue(r)
    BY <1>2, RowMoves DEF Blameless, SameRow, NewRow
  <2> QED BY <1>2, <2>1, IssueMoves
<1> QED BY <1>1, <1>2

\* An entry that is in use is not swept, nor opened anew.
LEMMA SharedKept ==
    ASSUME StaffTypes, Keyed, Blameless, NEW p \in Processes, NEW t \in Tokens, ~Staff!Tick, Staff!Shares(p, t)
    PROVE  \/ Kept(p, t) /\ Staff!Shares(p, t)'
           \/ \E q \in Requests, c \in Jars : AnsweredWith(q, c) /\ renewals[p][t].by = q
<1>1. now' = now
  BY BlamelessSteps
<1>2. Kept(p, t) => Staff!Shares(p, t)'
  BY <1>1 DEF Kept, Staff!Shares
<1>3. Swept(p, t) \/ Closed(p, t) => \E q \in Requests, c \in Jars : AnsweredWith(q, c) /\ renewals[p][t].by = q
  BY DEF Swept, Closed
<1>4. ~Opened(p, t)
  BY DEF Opened, Began
<1> QED BY <1>2, <1>3, <1>4, EntryMoves DEF Blameless

\* Every step keeps Awaited: only an answer, which ends the request, ends the wait for it.
LEMMA AwaitedKept ==
    ASSUME StaffTypes, Keyed, Blameless, Awaited PROVE Awaited'
<1> SUFFICES ASSUME NEW q \in Requests, req'[q].pc \in Working PROVE AwaitedIs(q)'
  BY DEF Awaited
<1>0. ~Staff!Tick
  BY BlamelessSteps DEF Working
<1>1. CASE req[q].pc \in Working /\ req'[q].p = req[q].p /\ req'[q].cookie = req[q].cookie
  <2>1. PICK p \in Processes, t \in Tokens :
            /\ p = req[q].p /\ t = req[q].cookie.token /\ renewals[p][t].by = q
            /\ Staff!Shares(p, t)
    BY <1>1 DEF Awaited, AwaitedIs
  <2>2. ~Got(q)
    BY <1>1 DEF Got, Working
  <2>3. ASSUME NEW c \in Jars, AnsweredWith(q, c) PROVE FALSE
    BY <2>3, AnswerMovesVisits DEF AnsweredWith, Working
  <2>4. Kept(p, t) /\ Staff!Shares(p, t)'
    BY <1>0, <2>1, <2>3, SharedKept
  <2> QED BY <1>1, <2>1, <2>4 DEF AwaitedIs, Kept
<1>2. ASSUME NEW p \in Processes, Began(q, p) PROVE AwaitedIs(q)'
  <2>1. PICK t \in Tokens : t = cookie.token /\ now' = now /\ Started(q, p)
    <3>1. req'[q].pc = "refresh"
      BY <1>2 DEF Began
    <3>2. Took(q, p) => req'[q].pc = "answered"
      BY DEF Took, StaffTypes, Staff!IdleReq
    <3>3. Joined(q, p) => req'[q].pc = "joined"
      BY DEF Joined, StaffTypes, Staff!IdleReq
    <3> QED BY <1>2, <3>1, <3>2, <3>3, VisitForms DEF Began
  <2>2. renewals'[p][t].by = q /\ renewals'[p][t].until = now + Share
    BY <2>1 DEF Started, StaffTypes
  <2>3. now + Share # Never /\ now <= now + Share
    BY StaffNumbers DEF StaffTypes, Ticks
  <2>4. req'[q].p = p /\ req'[q].cookie.token = t
    BY <1>2, <2>1 DEF Began
  <2> QED BY <2>1, <2>2, <2>3, <2>4 DEF AwaitedIs, Staff!Shares
<1>3. req'[q] = req[q] => req[q].pc \in Working /\ req'[q].p = req[q].p /\ req'[q].cookie = req[q].cookie
  OBVIOUS
<1> QED BY <1>1, <1>2, <1>3, WorkMoves DEF Blameless

\* Every step keeps Remembered: the entry outlives the tick.
LEMMA RememberedKept ==
    ASSUME StaffTypes, Keyed, Ages, Blameless, Awaited, Remembered PROVE Remembered'
<1> SUFFICES ASSUME NEW s \in Tokens, row'[s].from # NoToken, row'[s].iat = now'
             PROVE  \E p \in Processes : RememberedBy(p, s)'
  BY DEF Remembered
<1>1. CASE row'[s].from = row[s].from /\ row'[s].iat = row[s].iat
  <2>1. ~Staff!Tick
    BY <1>1, StaffNumbers DEF Staff!Tick, StaffTypes, Ticks, Ages
  <2>2. now' = now
    BY <2>1, BlamelessSteps
  <2>3. PICK p \in Processes : RememberedBy(p, s)
    BY <1>1, <2>2 DEF Remembered
  <2>4. PICK t \in Tokens : t = row[s].from
    BY <1>1 DEF StaffTypes, Refreshes, TokenIds
  <2>5. Kept(p, t) /\ Staff!Shares(p, t)'
    BY <2>1, <2>3, <2>4, SharedKept, StaffNumbers DEF RememberedBy
  <2> QED BY <1>1, <2>3, <2>4, <2>5 DEF RememberedBy, Kept
<1>2. ASSUME NEW r \in Requests, NEW c \in Jars, Staff!Issue(r), AnsweredWith(r, c), c.token = s, ~c.error,
             row'[s].from = req[r].cookie.token, row'[s].iat = now
      PROVE  \E p \in Processes : RememberedBy(p, s)'
  <2>1. PICK p \in Processes, t \in Tokens :
            /\ p = req[r].p /\ t = req[r].cookie.token /\ renewals[p][t].by = r
            /\ Staff!Shares(p, t)
    BY <1>2 DEF Awaited, AwaitedIs, AnsweredWith
  <2>2. renewals[p][t] \in Shared
    BY DEF StaffTypes
  <2>3. renewals' = [renewals EXCEPT ![p][t] = [renewals[p][t] EXCEPT !.by = NoRequest, !.cookie = c]]
    BY <1>2, <2>1 DEF AnsweredWith, Staff!Answer
  <2>4. renewals'[p][t] = [renewals[p][t] EXCEPT !.by = NoRequest, !.cookie = c]
    BY <2>3 DEF StaffTypes
  <2>5. /\ renewals'[p][t].by = NoRequest /\ renewals'[p][t].cookie = c
        /\ renewals'[p][t].until = renewals[p][t].until
    BY <2>2, <2>4 DEF Shared
  <2> QED BY <1>2, <2>1, <2>5 DEF RememberedBy, Staff!Shares
<1> QED BY <1>1, <1>2, SuccessorsCome

\* Every step keeps Forgotten: neither the browser nor a request comes by the old token again.
LEMMA ForgottenKept ==
    ASSUME StaffTypes, VisitsOver, Heads, Keyed, Spending, Ages, Blameless, Forgotten, UnderWay
    PROVE  Forgotten'
<1> SUFFICES ASSUME NEW s \in Tokens, row'[s].from # NoToken, row'[s].iat < now' PROVE Gone(row[s].from)'
  BY DEF Forgotten
<1>0. now \in Int /\ \A t \in Tokens : row[t].iat \in Int
  BY StaffNumbers DEF StaffTypes, Refreshes, Ticks
<1>1. row'[s].from = row[s].from /\ row'[s].iat = row[s].iat
  BY <1>0, SuccessorsCome
<1>2. PICK f : f = row[s].from /\ Made(f)
  BY <1>1 DEF Spending, InTime
<1>3. CASE row[s].iat < now
  <2>1. Gone(f)
    BY <1>1, <1>2, <1>3 DEF Forgotten
  <2>2. cookie.token \in Tokens => row[f].from # cookie.token
    <3>1. SUFFICES ASSUME cookie.token \in Tokens, row[f].from = cookie.token PROVE FALSE
      OBVIOUS
    <3>2. row[f].iat <= row[s].iat /\ f \in Tokens /\ row[f].from # NoToken
      BY <1>1, <1>2, <3>1, StaffNumbers DEF Ages, Made
    <3>3. row[f].iat < now
      BY <1>0, <1>3, <3>2
    <3> QED BY <3>1, <3>2, <3>3 DEF Forgotten, Gone
  <2>3. Gone(f)'
    BY <1>2, <2>1, <2>2, GoneKept DEF Blameless
  <2> QED BY <1>1, <1>2, <2>3
<1>4. CASE ~(row[s].iat < now)
  <2>1. /\ Staff!Tick /\ cookie' = cookie
        /\ \A q \in Requests : req[q].pc = "idle" /\ req'[q].pc = "idle"
    BY <1>1, <1>4, BlamelessSteps
  <2>2. cookie.token # f
    BY <1>1, <1>2, <2>1 DEF UnderWay
  <2>3. \A q \in Requests : req'[q] = Staff!IdleReq
    BY <2>1, VisitTypesKept DEF VisitsOver, Blameless
  <2> QED BY <1>1, <1>2, <2>1, <2>2, <2>3, StaffRecords DEF Gone, Made
<1> QED BY <1>3, <1>4

\* Every step keeps UnderWay: an old token is replaced in the browser by its successor only.
LEMMA UnderWayKept ==
    ASSUME StaffTypes, Spending, Ages, Blameless, UnderWay PROVE UnderWay'
<1> SUFFICES ASSUME NEW s \in Tokens, row'[s].from # NoToken, cookie'.token = row'[s].from
             PROVE  \E r \in Requests : req'[r].pc = "answered"
                                        /\ req'[r].cookie.token \in Successors(row[s].from)'
  BY DEF UnderWay
<1>1. CASE row'[s].from = row[s].from
  <2>1. PICK f : f = row[s].from /\ Made(f) /\ f \in Tokens /\ spent[f] # Never
    BY <1>1 DEF Spending, InTime, Made
  <2>2. \A x \in Successors(f) : x \in Successors(f)' /\ x # f
    BY <2>1, SuccessorsKept, StaffNumbers DEF Successors, Ages, Blameless
  <2>3. cookie'.token = f
    BY <1>1, <2>1
  <2>4. ASSUME NEW r \in Requests, Staff!Deliver(r), cookie' = req[r].cookie,
               excused' = (excused \/ Staff!Overtaken(r))
        PROVE  cookie.token = f
    <3>1. ~Staff!Overtaken(r)
      BY <2>4 DEF Blameless
    <3> QED BY <2>1, <2>3, <2>4, <3>1 DEF Staff!Overtaken
  <2>5. cookie.token = f
    BY <2>1, <2>3, <2>4, CookieMoves, FreshIsNew, StaffNumbers DEF Blameless
  <2>6. PICK r \in Requests : req[r].pc = "answered" /\ req[r].cookie.token \in Successors(f)
    BY <1>1, <2>1, <2>5 DEF UnderWay
  <2>7. ~Ended(r)
    <3>1. SUFFICES ASSUME Staff!Deliver(r) PROVE FALSE
      BY <2>6 DEF Ended, Staff!BeginFamily
    <3>2. cookie' = req[r].cookie
      BY <3>1, Zenon DEF Staff!Deliver, Blameless
    <3> QED BY <2>2, <2>3, <2>6, <3>2
  <2>8. ~(\E p \in Processes : Staff!Visit(r, p)) /\ ~SetAside(r) /\ ~WorkedOn(r) /\ ~Got(r)
    BY <2>6, VisitForms DEF SetAside, WorkedOn, Got, AnsweredWith, Working
  <2>9. req'[r] = req[r]
    BY <2>7, <2>8, RequestMoves DEF Blameless
  <2> QED BY <1>1, <2>1, <2>2, <2>6, <2>9 DEF Successors
<1>2. ASSUME NEW r \in Requests, NEW c \in Jars, AnsweredWith(r, c), c.token = s,
             row'[s].from = req[r].cookie.token
      PROVE  req'[r].pc = "answered" /\ req'[r].cookie.token \in Successors(row[s].from)'
  BY <1>2, AnswerMovesVisits DEF AnsweredWith, Successors
<1> QED BY <1>1, <1>2, SuccessorsCome

\* Together: every step keeps Orderly.
LEMMA OrderlyKept ==
    StaffTypes /\ VisitsOver /\ Heads /\ Spending /\ Keyed /\ Ages /\ Orderly /\ [Staff!Next]_staffVars
        => Orderly'
<1> SUFFICES ASSUME StaffTypes, VisitsOver, Heads, Spending, Keyed, Ages, Orderly, [Staff!Next]_staffVars,
                    ~excused'
             PROVE  Awaited' /\ Remembered' /\ Forgotten' /\ UnderWay'
  BY DEF Orderly
<1>1. Blameless
  BY DEF Blameless
<1>2. Awaited /\ Remembered /\ Forgotten /\ UnderWay
  BY <1>1, BlamelessSteps DEF Orderly
<1> QED BY <1>1, <1>2, AwaitedKept, RememberedKept, ForgottenKept, UnderWayKept

\* There are finitely many processes, and the model counts sets as FiniteSets does.
LEMMA StaffFinite ==
    /\ IsFiniteSet(Processes) /\ Cardinality(Processes) \in Nat
    /\ \A S : Staff!Cardinality(S) = Cardinality(S)
<1>1. IsFiniteSet(Processes)
  BY StaffAssumed DEF Staff!SessionsAssumption, IsFiniteSet, Staff!IsFiniteSet
<1>2. \A S : Staff!Cardinality(S) = Cardinality(S)
  BY DEF Staff!Cardinality, Cardinality, Staff!IsFiniteSet, IsFiniteSet
<1> QED BY <1>1, <1>2, FS_CardinalityType

\* An exchange adds one to the count of its token, in a process that had not exchanged it.
LEMMA OncePerProcessKept ==
    ASSUME StaffTypes, StaffTypes', Ages, Orderly, Orderly', OncePerProcess, [Staff!Next]_staffVars
    PROVE  OncePerProcess'
<1> SUFFICES ASSUME Blameless, NEW t \in Tokens PROVE FewSuccessors(t)'
  BY DEF OncePerProcess, Blameless
<1>0. ~excused /\ Forgotten /\ Remembered'
  BY BlamelessSteps DEF Orderly, Blameless
<1>1. CASE \A s \in Tokens : row'[s].from = t => row[s].from = t
  <2>1. Successors(t)' = Successors(t)
    BY <1>1, SuccessorsKept, StaffNumbers DEF Successors, Blameless
  <2> QED BY <1>0, <2>1 DEF OncePerProcess, FewSuccessors
<1>2. CASE \E s \in Tokens : row'[s].from = t /\ row[s].from # t
  <2>1. PICK r \in Requests : req[r].cookie.token = t /\ now' = now
    BY <1>2, SuccessorsCome, StaffNumbers
  <2>2. ASSUME NEW s \in Tokens, row'[s].from = t PROVE row'[s].iat = now'
    <3>1. CASE row[s].from = t /\ row'[s].iat = row[s].iat
      <4>1. ~(row[s].iat < now) /\ row[s].iat <= now
        BY <1>0, <2>1, <3>1, StaffNumbers DEF Forgotten, Gone, Ages
      <4>2. row[s].iat \in Int /\ now \in Int
        BY StaffNumbers DEF StaffTypes, Refreshes, Ticks
      <4> QED BY <2>1, <3>1, <4>1, <4>2
    <3> QED BY <2>1, <2>2, <3>1, SuccessorsCome, StaffNumbers
  \* Each of them is remembered, and a process remembers only one.
  <2>3. ASSUME NEW s \in Tokens, row'[s].from = t
        PROVE  \E p \in Processes : renewals'[p][t].cookie.token = s
    BY <1>0, <2>2, <2>3, StaffNumbers DEF Remembered, RememberedBy
  <2> DEFINE S == {s \in Tokens : row'[s].from = t}
             where == [s \in S |-> CHOOSE p \in Processes : renewals'[p][t].cookie.token = s]
  <2>4. \A s \in S : where[s] \in Processes /\ renewals'[where[s]][t].cookie.token = s
    BY <2>3
  <2> HIDE DEF where
  <2>5. where \in [S -> Processes] /\ \A s, x \in S : where[s] = where[x] => s = x
    <3>1. where \in [S -> Processes]
      BY <2>4 DEF where
    <3> QED BY <2>4, <3>1
  <2>6. where \in Injection(S, Processes)
    BY <2>5 DEF Injection, IsInjective
  <2>7. IsFiniteSet(S) /\ Cardinality(S) <= Cardinality(Processes)
    <3> HIDE DEF S
    <3> QED BY <2>6, FS_Injection, StaffFinite
  <2> QED BY <2>7 DEF FewSuccessors, Successors
<1> QED BY <1>1, <1>2

-----------------------------------------------------------------------------
(* What staff sessions promise *)

\* The invariant of the refresh tokens is inductive.
LEMMA StaffInvAlways == Spec => []StaffInv
<1>1. Init => StaffInv
  <2> SUFFICES ASSUME Staff!Init PROVE StaffInv
    BY DEF Init
  <2>1. StaffTypes /\ VisitsOver
    BY StaffInitial
  <2>2. /\ now = 0 /\ row = [t \in Tokens |-> Staff!NoRow] /\ cookie = Staff!NoCookie
        /\ renewals = [p \in Processes |-> [t \in Tokens |-> Staff!NoRenewal]]
        /\ req = [r \in Requests |-> Staff!IdleReq] /\ spent = [t \in Tokens |-> Never]
    BY Zenon DEF Staff!Init
  <2>3. Staff!Rows = {} /\ \A t \in Tokens : row[t].from = NoToken /\ row[t].used = Never /\ row[t].iat = 0
    BY <2>2 DEF Staff!Rows, Staff!NoRow
  <2>4. \A r \in Requests : req[r].pc = "idle"
    BY <2>2, StaffRecords
  <2>5. Heads /\ FamiliesEnd
    BY <2>3, <2>4 DEF Heads, FamiliesEnd
  <2>6. Spending
    BY <2>2, <2>3, <2>4 DEF Spending
  <2>7. Keyed
    BY <2>2, StaffRecords DEF Keyed, Staff!Shares
  <2>8. Ages
    BY <2>2, <2>3 DEF Ages
  <2>9. Orderly
    BY <2>3, <2>4 DEF Orderly, Awaited, Working, Remembered, Forgotten, UnderWay
  <2>10. OncePerProcess
    <3>1. \A t \in Tokens : Successors(t) = {}
      BY <2>3, StaffNumbers DEF Successors
    <3> QED BY <3>1, StaffFinite, FS_EmptySet DEF OncePerProcess, FewSuccessors
  <2> QED BY <2>1, <2>5, <2>6, <2>7, <2>8, <2>9, <2>10 DEF StaffInv
<1>2. StaffInv /\ [Next]_vars => StaffInv'
  <2>1. [Next]_vars => [Staff!Next]_staffVars
    BY DEF Next, vars
  <2> QED BY <2>1, StaffTypesKept, HeadsKept, FamiliesEndKept, SpendingKept, KeyedKept, AgesKept,
             OrderlyKept, OncePerProcessKept DEF StaffInv
<1> QED BY <1>1, <1>2, PTL DEF Spec

\* A family of which a token is revoked has none left to renew it with, but one that a renewal
\* under way added after the revocation (revokeFamily, revokeAllForUser).
THEOREM RevokedFamiliesEnd == Spec => []RevokedIsOver
<1>1. StaffInv => RevokedIsOver
  <2> SUFFICES ASSUME FamiliesEnd, NEW t \in Tokens, Staff!Usable(t), NEW s \in Staff!Family(t),
                      row[s].revoked
               PROVE  row[t].late
    BY DEF StaffInv, RevokedIsOver, Staff!RevokedIsOver
  <2> QED BY DEF FamiliesEnd, Staff!Usable, Staff!Honoured, Staff!Family
<1> QED BY <1>1, StaffInvAlways, PTL

\* However renewals interleave, a token is exchanged again only within the grace period of its
\* first exchange (RefreshTokenService.consume).
THEOREM ExchangesAreInTime == Spec => []SpentOnce
<1>1. StaffInv => SpentOnce
  <2> SUFFICES ASSUME Spending, NEW t \in Staff!Rows, row[t].from # NoToken
               PROVE  row[t].claimed - spent[row[t].from] <= Grace
    BY DEF StaffInv, SpentOnce, Staff!SpentOnce
  <2> QED BY DEF Spending, InTime, Staff!Rows
<1> QED BY <1>1, StaffInvAlways, PTL

\* However many requests find a browser's token run out at once, it is not exchanged more often
\* than there are processes, unless an answer was lost or overtaken or a request outlived the grace period
\* (refreshAccessToken and its map of renewals).
THEOREM ExchangesAreShared == Spec => []ExchangedOncePerProcess
<1>1. StaffInv => ExchangedOncePerProcess
  <2> SUFFICES ASSUME StaffInv, ~excused, NEW t \in Tokens
               PROVE  ~(Staff!Cardinality({s \in Staff!Rows : row[s].from = t}) > Staff!Cardinality(Processes))
    BY DEF StaffInv, ExchangedOncePerProcess, Staff!ExchangedOncePerProcess
  <2> DEFINE some == {s \in Staff!Rows : row[s].from = t}
  <2>1. some \in SUBSET Successors(t)
    BY DEF Successors, Staff!Rows
  <2>2. IsFiniteSet(Successors(t)) /\ Cardinality(Successors(t)) <= Cardinality(Processes)
    BY DEF StaffInv, OncePerProcess, FewSuccessors
  <2> HIDE DEF some
  <2>3. /\ Cardinality(some) <= Cardinality(Successors(t))
        /\ Cardinality(some) \in Nat /\ Cardinality(Successors(t)) \in Nat
    BY <2>1, <2>2, FS_Subset, FS_CardinalityType
  <2>4. Staff!Cardinality(some) = Cardinality(some) /\ Staff!Cardinality(Processes) = Cardinality(Processes)
    BY StaffFinite
  <2>5. ~(Staff!Cardinality(some) > Staff!Cardinality(Processes))
    BY <2>2, <2>3, <2>4, StaffFinite
  <2> QED BY <2>5 DEF some
<1> QED BY <1>1, StaffInvAlways, PTL

\* Every row, cookie, token and request of the three protocols has its shape: a token carries
\* when its family began, an open session is of the account there is, and a request that is over
\* has forgotten what it read.
THEOREM SessionsTypes == Spec => []TypeOK
<1>1. StaffInv => Staff!TypeOK
  <2> SUFFICES ASSUME StaffInv PROVE Staff!TypeOK  OBVIOUS
  <2>1. now \in Staff!Times /\ cookie.token \in Tokens \cup {NoToken}
    BY DEF StaffInv, StaffTypes, Jars, TokenIds, Staff!Times, Ticks
  <2>2. {user.active, user.link} \subseteq BOOLEAN /\ user.changedAt \in Staff!Times \cup {Never}
    BY DEF StaffInv, StaffTypes, Moments, Staff!Times, Ticks
  <2>3. ASSUME NEW t \in Staff!Rows
        PROVE  /\ row[t].family \in Tokens /\ row[t].iat \in Staff!Times
               /\ row[t].started = row[row[t].family].iat
               /\ row[t].used \in Staff!Times \cup {Never}
    <3>1. row[t] \in Refreshes
      BY DEF StaffInv, StaffTypes, Staff!Rows
    <3>2. Headed(row[t].family, row[t].started)
      BY DEF StaffInv, Heads
    <3> QED BY <3>1, <3>2 DEF Headed, Made, Refreshes, Moments, Staff!Times, Ticks
  <2>4. \A r \in Requests : req[r].pc = "idle" <=> req[r] = Staff!IdleReq
    BY DEF StaffInv, VisitsOver
  <2> QED BY <2>1, <2>2, <2>3, <2>4 DEF Staff!TypeOK
<1>2. ClientInv => Client!TypeOK
  <2> SUFFICES ASSUME ClientInv PROVE Client!TypeOK  OBVIOUS
  <2>1. day \in 0..LastDay /\ consumer.id \in 0..MaxId /\ consumer.hash \in 0..MaxHash
    BY DEF ClientInv, ClientTypes, Counters
  <2>2. \A s \in Sids : session[s].state \in {"none", "open", "revoked", "gone"}
    BY DEF ClientInv, ClientTypes, SessionRows, States
  <2>3. \A s \in Client!Open : session[s].owner = consumer.id /\ consumer.id # 0
    BY DEF ClientInv, Owned, Client!Open
  <2>4. \A d \in Devices : token[d].sid \in Sids \cup {NoSid}
    BY DEF ClientInv, ClientTypes, Cookies
  <2>5. \A c \in Calls : call[c].pc = "idle" <=> call[c] = Client!NoCall
    BY DEF ClientInv, CallsOver
  <2> QED BY <2>1, <2>2, <2>3, <2>4, <2>5 DEF Client!TypeOK
<1>3. LockInv => Lock!TypeOK
  BY DEF LockInv, LockTypes, Numbers, Accounts, AttemptStates, Lock!TypeOK
<1> QED BY <1>1, <1>2, <1>3, StaffInvAlways, ClientInvAlways, LockInvAlways, PTL DEF TypeOK
=============================================================================
