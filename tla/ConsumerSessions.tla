-------------------------- MODULE ConsumerSessions --------------------------
(***************************************************************************)
(* The account that belongs to one telephone number and its sessions, one  *)
(* per device: consumer-auth.service.ts, the guard that reads them on each *)
(* request, and the proxy of the site that renews a device's token.        *)
(*                                                                         *)
(* A request reads, then writes; a transaction is one step, except that    *)
(* what register reads first may have changed when it writes.              *)
(***************************************************************************)
EXTENDS Integers, FiniteSets

CONSTANTS
    Devices, Calls,     \* browsers of the client, and requests in progress at once
    Sids,               \* ids of rows of ConsumerSession, handed out in order
    Ttl,                \* SESSION_TTL_DAYS
    RenewWithin,        \* RENEW_WITHIN_MS of the proxy
    Retention,          \* SESSION_RETENTION_DAYS
    LastDay, MaxHash, MaxId,    \* bounds on the clock, the passwords set and the accounts made
    NoSid

\* Assumed of the constants by whoever instantiates the module.
ConsumerAssumption ==
    /\ {Ttl, RenewWithin, Retention, LastDay, MaxHash, MaxId} \subseteq Nat
    /\ MaxId # 0 /\ RenewWithin <= Ttl /\ Sids \subseteq Nat /\ NoSid \notin Sids

VARIABLES
    day,        \* Date.now()
    consumer,   \* the row of the number: its id and hash, 0 for none; each password set has its own hash
    session,    \* session[s]: the ConsumerSession row; proof is the hash its login was checked against
    token,      \* token[d]: the cookie of device d: sid, pv and exp
    call,       \* call[c]: a request and what it has read
    nextId, nextHash,
    unended         \* history: a password was replaced and no session ended

consumerVars == <<day, consumer, session, token, call, nextId, nextHash, unended>>

NoSession == [state |-> "none", owner |-> 0, expires |-> 0, proof |-> 0, revokedOn |-> 0]
NoCookie == [sid |-> NoSid, pv |-> 0, exp |-> 0]
NoCall == [pc |-> "idle", op |-> "none", d |-> NoSid, sid |-> NoSid, id |-> 0, hash |-> 0,
           reply |-> NoCookie]

Open == {s \in Sids : session[s].state = "open"}

TypeOK ==
    /\ day \in 0..LastDay /\ consumer.id \in 0..MaxId /\ consumer.hash \in 0..MaxHash
    /\ \A s \in Sids : session[s].state \in {"none", "open", "revoked", "gone"}
    /\ \A s \in Open : session[s].owner = consumer.id /\ consumer.id # 0
    /\ \A d \in Devices : token[d].sid \in Sids \cup {NoSid}
    /\ \A c \in Calls : call[c].pc = "idle" <=> call[c] = NoCall

-----------------------------------------------------------------------------
(* ConsumerJwtAuthGuard *)

\* The check, were the password version not looked at.
AnyPassword(t) == TRUE
\* The token was signed for the present password.
SamePassword(t) == t.pv = consumer.hash

Admits(t) ==
    /\ t.sid # NoSid /\ t.exp > day
    /\ session[t.sid].state = "open" /\ session[t.sid].expires > day
    /\ SamePassword(t)

\* A request of device d that the guard lets through; its handler runs later.
Enter(c, d, op) ==
    /\ call[c].pc = "idle"
    /\ Admits(token[d])
    /\ op = "refresh" => token[d].exp - day <= RenewWithin
    /\ call' = [call EXCEPT ![c] = [NoCall EXCEPT !.pc = "entered", !.op = op, !.d = d,
                                        !.sid = token[d].sid, !.id = consumer.id]]
    /\ UNCHANGED <<day, consumer, session, token, nextId, nextHash, unended>>

Leave(c) == call' = [call EXCEPT ![c] = NoCall]

\* The answer carries a token to the device, which it reaches later.
Reply(c, t) == call' = [call EXCEPT ![c] = [NoCall EXCEPT !.pc = "reply", !.d = call[c].d,
                                                       !.reply = t]]

Receive(c) ==
    /\ call[c].pc = "reply"
    /\ token' = [token EXCEPT ![call[c].d] = call[c].reply]
    /\ Leave(c)
    /\ UNCHANGED <<day, consumer, session, nextId, nextHash, unended>>

\* The answer is lost.
Miss(c) ==
    /\ call[c].pc = "reply"
    /\ Leave(c)
    /\ UNCHANGED <<day, consumer, session, token, nextId, nextHash, unended>>

-----------------------------------------------------------------------------
(* Registering, and claiming an account that has no password *)

Claimable(row) == row.id = 0 \/ row.hash = 0

Register(c, d) ==
    /\ call[c].pc = "idle" /\ nextHash <= MaxHash
    /\ Claimable(consumer)
    /\ call' = [call EXCEPT ![c] = [NoCall EXCEPT !.pc = "register", !.d = d,
                                                  !.id = consumer.id, !.hash = consumer.hash]]
    /\ UNCHANGED <<day, consumer, session, token, nextId, nextHash, unended>>

\* Creating fails on the unique number, updating on a row that is gone; the update does not
\* look at the password again.
RegisterWrite(c) ==
    LET new == call[c].id = 0 IN
    /\ call[c].pc = "register" /\ nextHash <= MaxHash
    /\ IF consumer.id # call[c].id \/ (new /\ nextId > MaxId)
         THEN Leave(c) /\ UNCHANGED <<consumer, nextId, nextHash>>
         ELSE /\ consumer' = [id |-> IF new THEN nextId ELSE consumer.id, hash |-> nextHash]
              /\ nextId' = IF new THEN nextId + 1 ELSE nextId
              /\ nextHash' = nextHash + 1
              /\ call' = [call EXCEPT ![c].pc = "issue", ![c].id = consumer'.id,
                                      ![c].hash = nextHash]
    /\ unended' = (unended \/ consumer.hash \notin {0, consumer'.hash})
    /\ UNCHANGED <<day, session, token>>

\* The right password of the account as it is now.
Login(c, d) ==
    /\ call[c].pc = "idle"
    /\ consumer.id # 0 /\ consumer.hash # 0
    /\ call' = [call EXCEPT ![c] = [NoCall EXCEPT !.pc = "issue", !.d = d, !.id = consumer.id,
                                                  !.hash = consumer.hash]]
    /\ UNCHANGED <<day, consumer, session, token, nextId, nextHash, unended>>

\* issueSession: the row, which needs its consumer, and a token for the password that was checked.
Issue(c) ==
    /\ call[c].pc = "issue"
    /\ IF consumer.id # call[c].id
         THEN Leave(c) /\ UNCHANGED session
         ELSE \E s \in Sids :
                /\ session[s].state = "none" /\ \A x \in Sids : x < s => session[x].state # "none"
                /\ session' = [session EXCEPT ![s] =
                       [state |-> "open", owner |-> consumer.id, expires |-> day + Ttl,
                        proof |-> call[c].hash, revokedOn |-> 0]]
                /\ Reply(c, [sid |-> s, pv |-> call[c].hash, exp |-> day + Ttl])
    /\ UNCHANGED <<day, consumer, token, nextId, nextHash, unended>>

-----------------------------------------------------------------------------
(* Handlers behind the guard *)

\* The row is updated by its id, revoked or not, and the token signed for the password of now.
Refresh(c) ==
    LET s == call[c].sid IN
    /\ call[c].pc = "entered" /\ call[c].op = "refresh"
    /\ IF session[s].state \in {"none", "gone"}
         THEN Leave(c) /\ UNCHANGED session
         ELSE /\ session' = [session EXCEPT ![s].expires = day + Ttl]
              /\ Reply(c, [sid |-> s, pv |-> consumer.hash, exp |-> day + Ttl])
    /\ UNCHANGED <<day, consumer, token, nextId, nextHash, unended>>

Revoked(sids) == session' = [s \in Sids |-> IF s \in sids \cap Open
    THEN [session[s] EXCEPT !.state = "revoked", !.revokedOn = day] ELSE session[s]]

\* revokeSession, of any one session of the list, and revokeOtherSessions.
Revoke(c) ==
    /\ call[c].pc = "entered" /\ consumer.id = call[c].id
    /\ \/ call[c].op = "revoke" /\ \E s \in Open : Revoked({s})
       \/ call[c].op = "revokeOthers" /\ Revoked(Sids \ {call[c].sid})
    /\ Leave(c)
    /\ UNCHANGED <<day, consumer, token, nextId, nextHash, unended>>

\* The foreign key, were the sessions left behind.
NoCascade == session
\* onDelete: Cascade on the sessions of a consumer.
Cascade == [s \in Sids |-> IF session[s].state = "none" THEN NoSession
                           ELSE [NoSession EXCEPT !.state = "gone"]]

Delete(c) ==
    /\ call[c].pc = "entered" /\ call[c].op = "delete" /\ consumer.id = call[c].id
    /\ consumer' = [id |-> 0, hash |-> 0]
    /\ session' = Cascade
    /\ Leave(c)
    /\ UNCHANGED <<day, token, nextId, nextHash, unended>>

\* changePassword: the present password is checked, then the hash replaced, then every
\* session ended, then one issued.
ChangePassword(c) ==
    /\ call[c].pc = "entered" /\ call[c].op = "password" /\ consumer.id = call[c].id
    /\ call' = [call EXCEPT ![c].pc = "change"]
    /\ UNCHANGED <<day, consumer, session, token, nextId, nextHash, unended>>

WriteHash(c) ==
    /\ call[c].pc = "change" /\ nextHash <= MaxHash
    /\ IF consumer.id = call[c].id
         THEN /\ consumer' = [consumer EXCEPT !.hash = nextHash]
              /\ nextHash' = nextHash + 1
              /\ call' = [call EXCEPT ![c].pc = "revokeAll", ![c].hash = nextHash]
         ELSE Leave(c) /\ UNCHANGED <<consumer, nextHash>>
    /\ UNCHANGED <<day, session, token, nextId, unended>>

Ended == Open

RevokeAll(c) ==
    /\ call[c].pc = "revokeAll"
    /\ IF consumer.id = call[c].id THEN Revoked(Ended) ELSE UNCHANGED session
    /\ call' = [call EXCEPT ![c].pc = "issue"]
    /\ UNCHANGED <<day, consumer, token, nextId, nextHash, unended>>

\* The second write fails, or the process dies before it.
Cut(c) ==
    /\ call[c].pc = "revokeAll"
    /\ unended' = TRUE
    /\ Leave(c)
    /\ UNCHANGED <<day, consumer, session, token, nextId, nextHash>>

-----------------------------------------------------------------------------
(* The nightly clean-up, the clock, and a device that is left or logs out *)

Cleanable(s) ==
    \/ session[s].state = "revoked" /\ session[s].revokedOn < day - Retention
    \/ session[s].state = "open" /\ session[s].expires < day - Retention

Cleanup ==
    /\ \E s \in Sids : Cleanable(s)
    /\ session' = [s \in Sids |-> IF Cleanable(s) THEN [NoSession EXCEPT !.state = "gone"]
                                  ELSE session[s]]
    /\ UNCHANGED <<day, consumer, token, call, nextId, nextHash, unended>>

\* The cookie is dropped; the session stays in the list until it runs out.
Logout(d) ==
    /\ token[d] # NoCookie
    /\ token' = [token EXCEPT ![d] = NoCookie]
    /\ UNCHANGED <<day, consumer, session, call, nextId, nextHash, unended>>

Day ==
    /\ day < LastDay
    /\ day' = day + 1
    /\ UNCHANGED <<consumer, session, token, call, nextId, nextHash, unended>>

\* No account yet, or one of the old flow, which has no password.
Init ==
    /\ day = 0
    /\ consumer \in {[id |-> 0, hash |-> 0], [id |-> 1, hash |-> 0]}
    /\ session = [s \in Sids |-> NoSession]
    /\ token = [d \in Devices |-> NoCookie]
    /\ call = [c \in Calls |-> NoCall]
    /\ nextId = consumer.id + 1 /\ nextHash = 1 /\ unended = FALSE

Ops == {"refresh", "revoke", "revokeOthers", "delete", "password"}

Next ==
    \/ \E c \in Calls :
         \/ \E d \in Devices : \/ Register(c, d) \/ Login(c, d)
                               \/ \E op \in Ops : Enter(c, d, op)
         \/ RegisterWrite(c) \/ Issue(c) \/ Receive(c) \/ Miss(c)
         \/ Refresh(c) \/ Revoke(c) \/ Delete(c)
         \/ ChangePassword(c) \/ WriteHash(c) \/ RevokeAll(c) \/ Cut(c)
    \/ Cleanup \/ Day \/ \E d \in Devices : Logout(d)

Spec == Init /\ [][Next]_consumerVars

-----------------------------------------------------------------------------
(* Properties *)

Changing == \E c \in Calls : call[c].pc = "revokeAll"

\* A session opened with a password that is no longer the account's opens nothing, unless a change
\* of password is still to end the sessions, or was cut before it did, or a registration that raced
\* with another replaced the password and ends none (changePassword, "revoga TODOS os dispositivos").
OldSessionOnlyIfUnended ==
    \A d \in Devices : Admits(token[d]) /\ session[token[d].sid].proof # consumer.hash
                          => Changing \/ unended
=============================================================================
