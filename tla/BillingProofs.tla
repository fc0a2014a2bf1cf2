---------------------------- MODULE BillingProofs ----------------------------
(***************************************************************************)
(* Proofs about the payments of a salon, for any number of attempts,       *)
(* requests and plans, any durations, and whatever owner, provider and     *)
(* platform do.                                                            *)
(***************************************************************************)
EXTENDS Billing, TLAPS

-----------------------------------------------------------------------------
(* Types: those of Billing, without the bounds that come from the clock's *)

SubRow == [status : {"NONE", "ACTIVE", "PAST_DUE"}, plan : Plans \cup {NoPlan},
           courtesy : BOOLEAN, method : Methods \cup {"NONE"},
           ref : Attempts \cup {NoAttempt}, end : Nat, cancel : BOOLEAN]
AttemptRow == [status : {"NONE", "PENDING", "APPROVED", "FAILED", "EXPIRED"}, method : Methods,
               plan : Plans \cup {NoPlan}, discount : BOOLEAN, redemption : Nat,
               reserved : BOOLEAN, ref : BOOLEAN, until : Nat]
Object == [status : {"none", "pending", "approved", "rejected", "authorized", "paused", "cancelled"},
           next : Nat, charged : BOOLEAN, plan : Plans \cup {NoPlan}, discount : BOOLEAN]
CouponRow == [row : Nat, applied : BOOLEAN, count : Nat, last : Nat]

Syncing == {"fetch", "enter", "write", "after"}
CronOwn == {"reread", "find", "expire"}
Elsewhere == {"call", "flag", "reprice", "commit", "grant"}
Process == [pc : {"idle", "post"} \cup Syncing \cup CronOwn \cup Elsewhere,
            op : {"none", "checkout", "webhook", "poll", "cron", "cancel", "change", "courtesy"},
            a : Attempts \cup {NoAttempt}, plan : Plans \cup {NoPlan},
            snap : Object, att : AttemptRow, sub : SubRow, seen : BOOLEAN]

Types ==
    /\ sub \in SubRow
    /\ attempt \in [Attempts -> AttemptRow]
    /\ coupon \in CouponRow
    /\ provider \in [Attempts -> Object]
    /\ proc \in [Processes -> Process]
    /\ now \in Nat
    /\ months \in [Attempts -> Nat]

\* What the assumptions on the constants say of durations and of the names that stand for none.
LEMMA Numbers ==
    /\ Month \in Nat /\ RenewalWindow \in Nat /\ PixValidity \in Nat /\ CardTtl \in Nat
    /\ Cron \notin Workers /\ NoWorker \notin Processes /\ Cron \in Processes
    /\ NoAttempt \notin Attempts /\ NoPlan \notin Plans
BY BillingAssumption DEF Processes

\* The values the records start from.
LEMMA Records ==
    /\ NoSub \in SubRow /\ NoRow \in AttemptRow /\ NoObject \in Object
    /\ IdleProc \in Process /\ IdleProc.pc = "idle" /\ IdleProc.op = "none"
<1>1. NoSub \in SubRow
  BY DEF NoSub, SubRow, Methods, NoEnd
<1>2. NoRow \in AttemptRow
  BY DEF NoRow, AttemptRow, Methods
<1>3. NoObject \in Object
  BY DEF NoObject, Object
<1>4. IdleProc \in Process
  BY <1>1, <1>2, <1>3 DEF IdleProc, Process
<1> QED BY <1>1, <1>2, <1>3, <1>4 DEF IdleProc

\* A process that begins.
Beginning(pc, op, a) == [IdleProc EXCEPT !.pc = pc, !.op = op, !.a = a]
Granting(plan) == [IdleProc EXCEPT !.op = "courtesy", !.pc = "grant", !.plan = plan]
Changing(plan, row, a, pc) == [IdleProc EXCEPT !.op = "change", !.plan = plan, !.sub = row, !.a = a, !.pc = pc]

\* What a process is when it begins, and when it does nothing else.
LEMMA Beginnings ==
    /\ \A a \in Attempts \cup {NoAttempt}, pc \in {"post", "call", "flag"} \cup Syncing \cup CronOwn,
          op \in {"checkout", "webhook", "poll", "cron", "cancel"} :
          /\ Beginning(pc, op, a) \in Process
          /\ Beginning(pc, op, a).pc = pc /\ Beginning(pc, op, a).op = op /\ Beginning(pc, op, a).a = a
    /\ \A plan \in Plans :
          Granting(plan) \in Process /\ Granting(plan).pc = "grant" /\ Granting(plan).op = "courtesy"
    /\ \A a \in Attempts \cup {NoAttempt}, plan \in Plans, row \in SubRow, pc \in {"reprice", "commit"} :
          /\ Changing(plan, row, a, pc) \in Process
          /\ Changing(plan, row, a, pc).pc = pc /\ Changing(plan, row, a, pc).op = "change"
<1>1. ASSUME NEW a \in Attempts \cup {NoAttempt},
             NEW pc \in {"post", "call", "flag"} \cup Syncing \cup CronOwn,
             NEW op \in {"checkout", "webhook", "poll", "cron", "cancel"}
      PROVE  /\ Beginning(pc, op, a) \in Process
             /\ Beginning(pc, op, a).pc = pc /\ Beginning(pc, op, a).op = op /\ Beginning(pc, op, a).a = a
  <2>1. pc \in {"idle", "post"} \cup Syncing \cup CronOwn \cup Elsewhere
    BY DEF Elsewhere
  <2>2. op \in {"none", "checkout", "webhook", "poll", "cron", "cancel", "change", "courtesy"}
    OBVIOUS
  <2> QED BY ZenonT(60), <2>1, <2>2, Records DEF Process, Beginning
<1>2. ASSUME NEW plan \in Plans
      PROVE  Granting(plan) \in Process /\ Granting(plan).pc = "grant" /\ Granting(plan).op = "courtesy"
  BY Records DEF Process, Elsewhere, Granting
<1>3. ASSUME NEW a \in Attempts \cup {NoAttempt}, NEW plan \in Plans, NEW row \in SubRow,
             NEW pc \in {"reprice", "commit"}
      PROVE  /\ Changing(plan, row, a, pc) \in Process
             /\ Changing(plan, row, a, pc).pc = pc /\ Changing(plan, row, a, pc).op = "change"
  BY Records DEF Process, Elsewhere, Changing
<1> QED BY <1>1, <1>2, <1>3

\* A process that goes on.
Advanced(q, pc) == [q EXCEPT !.pc = pc]
Pictured(q, snap) == [q EXCEPT !.pc = "enter", !.snap = snap]
HasRead(q, att, row) == [q EXCEPT !.pc = "write", !.att = att, !.sub = row]
Refound(q, att) == [q EXCEPT !.pc = "find", !.att = att]
Sought(q, seen) == [q EXCEPT !.pc = "expire", !.seen = seen]

\* A process that goes on to its next stage.
LEMMA AdvancedProcess ==
    ASSUME NEW q \in Process, NEW pc \in {"flag", "commit", "after"}
    PROVE  /\ Advanced(q, pc) \in Process /\ Advanced(q, pc).pc = pc
           /\ Advanced(q, pc).op = q.op /\ Advanced(q, pc).a = q.a
BY DEF Process, Syncing, Elsewhere, Advanced

\* A process that has the provider's picture.
LEMMA PicturedProcess ==
    ASSUME NEW q \in Process, NEW snap \in Object
    PROVE  /\ Pictured(q, snap) \in Process /\ Pictured(q, snap).pc = "enter"
           /\ Pictured(q, snap).op = q.op /\ Pictured(q, snap).a = q.a
           /\ Pictured(q, snap).snap = snap
BY DEF Process, Syncing, Pictured

\* A process that has read the rows under the lock.
LEMMA HasReadProcess ==
    ASSUME NEW q \in Process, NEW att \in AttemptRow, NEW row \in SubRow
    PROVE  /\ HasRead(q, att, row) \in Process /\ HasRead(q, att, row).pc = "write"
           /\ HasRead(q, att, row).op = q.op /\ HasRead(q, att, row).a = q.a
           /\ HasRead(q, att, row).snap = q.snap
           /\ HasRead(q, att, row).att = att /\ HasRead(q, att, row).sub = row
BY DEF Process, Syncing, HasRead

\* The hourly job with an attempt in hand.
LEMMA RefoundProcess ==
    ASSUME NEW q \in Process, NEW att \in AttemptRow
    PROVE  /\ Refound(q, att) \in Process /\ Refound(q, att).pc = "find"
           /\ Refound(q, att).op = q.op /\ Refound(q, att).a = q.a /\ Refound(q, att).att = att
BY DEF Process, CronOwn, Refound

\* The hourly job when it has asked the provider, or failed to.
LEMMA SoughtProcess ==
    ASSUME NEW q \in Process, NEW seen \in BOOLEAN
    PROVE  /\ Sought(q, seen) \in Process /\ Sought(q, seen).pc = "expire"
           /\ Sought(q, seen).op = q.op /\ Sought(q, seen).a = q.a
           /\ Sought(q, seen).att = q.att /\ Sought(q, seen).seen = seen
BY DEF Process, CronOwn, Sought

\* Every step is one of these.
LEMMA BillingSteps ==
    [Next]_vars =>
        \/ \E p \in Workers :
              \/ \E a \in Attempts, method \in Methods, plan \in Plans, typed \in BOOLEAN :
                    CheckoutBegin(p, a, method, plan, typed)
              \/ \E a \in Attempts : Webhook(p, a) \/ Poll(p, a)
              \/ CancelBegin(p) \/ \E plan \in Plans : ChangeBegin(p, plan) \/ GrantBegin(p, plan)
              \/ CheckoutPosted(p) \/ CheckoutFailed(p) \/ CancelCall(p) \/ CancelFlag(p)
              \/ ChangeReprice(p) \/ ChangeCommit(p) \/ GrantCommit(p)
        \/ \E p \in Processes : Fetch(p) \/ FetchFailed(p) \/ Enter(p) \/ Write(p) \/ After(p) \/ Crash(p)
        \/ \E a \in Attempts :
              \/ PixPaid(a) \/ PixRejected(a) \/ CardAuthorized(a) \/ CardCharged(a) \/ CardPaused(a)
              \/ CardResumed(a) \/ CardCancelled(a) \/ CronBegin(a)
        \/ CronReread \/ CronFind \/ CronExpire \/ RemoveCourtesy \/ Tick
        \/ UNCHANGED vars
<1>1. ASSUME NEW p \in Workers, RequestArrives(p)
      PROVE  \/ \E a \in Attempts, method \in Methods, plan \in Plans, typed \in BOOLEAN :
                    CheckoutBegin(p, a, method, plan, typed)
             \/ \E a \in Attempts : Webhook(p, a) \/ Poll(p, a)
             \/ CancelBegin(p) \/ \E plan \in Plans : ChangeBegin(p, plan) \/ GrantBegin(p, plan)
  BY <1>1, Zenon DEF RequestArrives
<1> QED BY <1>1, Zenon DEF Next, RequestContinues, SyncContinues, ProviderMoves, CronContinues

-----------------------------------------------------------------------------
(* What a transaction writes *)

\* The end of a transaction that leaves the attempt as it was, approves it or fails it.
Leaves(p) == UNCHANGED <<attempt, coupon>>
Fails(p) == ReleaseAndEnd(proc[p].a, proc[p].att, "FAILED") /\ Done(p) /\ UNCHANGED <<sub, months>>

PixCredited(p) ==
    /\ IsPix(proc[p].a) /\ proc[p].snap.status = "approved"
    /\ sub' = [status |-> "ACTIVE", plan |-> proc[p].att.plan, courtesy |-> FALSE, method |-> "PIX",
               ref |-> NoAttempt, end |-> PixEnd(proc[p].sub), cancel |-> FALSE]
    /\ Approve(proc[p].a, proc[p].att)
    /\ months' = [months EXCEPT ![proc[p].a] = @ + 1]
    /\ Done(p) \/ (proc[p].sub.ref # NoAttempt /\ proc' = [proc EXCEPT ![p].pc = "after"])
PixFails(p) == IsPix(proc[p].a) /\ proc[p].snap.status = "rejected" /\ Fails(p)
PixStays(p) == /\ IsPix(proc[p].a) /\ proc[p].snap.status \notin {"approved", "rejected"}
               /\ Done(p) /\ UNCHANGED <<sub, attempt, coupon, months>>
CardOn(p) ==
    /\ ~IsPix(proc[p].a) /\ proc[p].snap.status = "authorized"
    /\ \E dated \in BOOLEAN : sub' = CardAuthorizedSub(p, dated)
    /\ Approve(proc[p].a, proc[p].att) \/ UNCHANGED <<attempt, coupon>>
    /\ Done(p) \/ proc' = [proc EXCEPT ![p].pc = "after"]
    /\ UNCHANGED months
CardWaits(p) ==
    /\ ~IsPix(proc[p].a) /\ proc[p].snap.status = "paused" /\ Owns(p)
    /\ \E dated \in BOOLEAN : Update([sub EXCEPT !.status = "PAST_DUE",
                                               !.end = IF dated THEN proc[p].snap.next ELSE @])
    /\ Done(p) /\ UNCHANGED <<attempt, coupon, months>>
CardOff(p) ==
    /\ ~IsPix(proc[p].a) /\ proc[p].snap.status = "cancelled" /\ Owns(p)
    /\ Update([sub EXCEPT !.cancel = TRUE]) /\ Done(p) /\ UNCHANGED <<attempt, coupon, months>>
CardFails(p) == ~IsPix(proc[p].a) /\ proc[p].snap.status = "cancelled" /\ ~Owns(p) /\ Fails(p)
CardStays(p) == /\ ~IsPix(proc[p].a) /\ (proc[p].snap.status = "cancelled" => ~Owns(p))
                /\ Done(p) /\ UNCHANGED <<sub, attempt, coupon, months>>

\* The write of a synchronisation is one of eight, by method and by the status in the picture.
LEMMA WriteForms ==
    ASSUME NEW p, Write(p)
    PROVE  \/ PixCredited(p) \/ PixFails(p) \/ PixStays(p)
           \/ CardOn(p) \/ CardWaits(p) \/ CardOff(p) \/ CardFails(p) \/ CardStays(p)
<1>1. CASE IsPix(proc[p].a)
  <2>1. ApplyPix(p)
    BY <1>1 DEF Write
  <2>2. CASE proc[p].snap.status = "approved"
    BY <1>1, <2>1, <2>2 DEF ApplyPix, PixCredited
  <2>3. CASE proc[p].snap.status = "rejected"
    BY <1>1, <2>1, <2>3 DEF ApplyPix, PixFails, Fails
  <2>4. CASE proc[p].snap.status \notin {"approved", "rejected"}
    BY <1>1, <2>1, <2>4 DEF ApplyPix, PixStays
  <2> QED BY <2>2, <2>3, <2>4
<1>2. CASE ~IsPix(proc[p].a)
  <2>1. ApplyCard(p)
    BY <1>2 DEF Write
  <2>2. CASE proc[p].snap.status = "authorized"
    BY <1>2, <2>1, <2>2 DEF ApplyCard, CardOn
  <2>3. CASE proc[p].snap.status = "paused"
    <3>1. CASE Owns(p)
      BY <1>2, <2>1, <2>3, <3>1 DEF ApplyCard, CardWaits
    <3>2. CASE ~Owns(p)
      BY <1>2, <2>1, <2>3, <3>2 DEF ApplyCard, CardStays
    <3> QED BY <3>1, <3>2
  <2>4. CASE proc[p].snap.status = "cancelled"
    BY <1>2, <2>1, <2>4 DEF ApplyCard, CardOff, CardFails, CardStays, Fails
  <2>5. CASE proc[p].snap.status \notin {"authorized", "paused", "cancelled"}
    BY <1>2, <2>1, <2>5 DEF ApplyCard, CardStays
  <2> QED BY <2>2, <2>3, <2>4, <2>5
<1> QED BY <1>1, <1>2

-----------------------------------------------------------------------------
(* What a step changes, variable by variable *)

\* An attempt is made, gets its reference, or its status changes; coupon fields aside.
Made(a) ==
    /\ attempt[a].status = "NONE"
    /\ attempt'[a].status = "PENDING" /\ attempt'[a].ref = FALSE /\ attempt'[a].until >= now
    /\ \E p \in Workers, method \in Methods, plan \in Plans, typed \in BOOLEAN :
          CheckoutBegin(p, a, method, plan, typed)
Posted(a) ==
    /\ attempt'[a].ref = TRUE /\ attempt'[a].status = attempt[a].status
    /\ \E p \in Workers : CheckoutPosted(p) /\ proc[p].a = a
ByWrite(a) == \E p \in Processes :
    /\ Write(p) /\ proc[p].a = a
    /\ \/ attempt'[a].status = "APPROVED" /\ (PixCredited(p) \/ CardOn(p))
       \/ attempt'[a].status = "FAILED" /\ (PixFails(p) \/ CardFails(p))
ByFailure(a) == /\ attempt[a].status = "PENDING" /\ attempt'[a].status = "FAILED"
                /\ \E p \in Workers : CheckoutFailed(p) /\ proc[p].a = a
ByExpiry(a) == attempt'[a].status = "EXPIRED" /\ CronExpire /\ proc[Cron].a = a
Turned(a) == /\ attempt'[a].ref = attempt[a].ref
             /\ ByWrite(a) \/ ByFailure(a) \/ ByExpiry(a)

\* How an attempt moves.
LEMMA AttemptMoves ==
    ASSUME Types, [Next]_vars, NEW a \in Attempts
    PROVE  /\ \/ attempt'[a] = attempt[a]
              \/ Made(a)
              \/ attempt'[a].method = attempt[a].method /\ attempt'[a].until = attempt[a].until
                 /\ (Posted(a) \/ Turned(a))
           /\ attempt' \in [Attempts -> AttemptRow]
<1> DEFINE Goal == \/ attempt'[a] = attempt[a]
                   \/ Made(a)
                   \/ attempt'[a].method = attempt[a].method /\ attempt'[a].until = attempt[a].until
                      /\ (Posted(a) \/ Turned(a))
           Typed == attempt' \in [Attempts -> AttemptRow]
<1>0. /\ attempt \in [Attempts -> AttemptRow] /\ now \in Nat
      /\ \A p \in Processes : proc[p].att \in AttemptRow
  BY DEF Types, Process
<1>1. ASSUME NEW p \in Workers, NEW b \in Attempts, NEW method \in Methods, NEW plan \in Plans,
             NEW typed \in BOOLEAN, CheckoutBegin(p, b, method, plan, typed)
      PROVE  Goal /\ Typed
  <2> DEFINE new == [status |-> "PENDING", method |-> method, plan |-> plan,
                     discount |-> Choice(typed) # "none",
                     redemption |-> IF Choice(typed) = "none" THEN 0 ELSE coupon'.row,
                     reserved |-> Choice(typed) = "new", ref |-> FALSE,
                     until |-> now + IF method = "PIX" THEN PixValidity ELSE CardTtl]
  <2>1. attempt' = [attempt EXCEPT ![b] = new] /\ attempt[b].status = "NONE"
    BY <1>1 DEF CheckoutBegin
  <2>2. coupon'.row \in Nat
    BY <1>1 DEF CheckoutBegin, Reserve, Types, CouponRow
  <2>3. new \in AttemptRow
    BY <1>0, <2>2, Numbers DEF AttemptRow
  <2>4. new.status = "PENDING" /\ new.ref = FALSE /\ new.until >= now
    BY <1>0, Numbers
  <2> HIDE DEF new
  <2> QED BY <1>0, <1>1, <2>1, <2>3, <2>4 DEF Made
<1>2. ASSUME NEW p \in Workers, CheckoutPosted(p) PROVE Goal /\ Typed
  <2> DEFINE b == proc[p].a
             new == [attempt[b] EXCEPT !.ref = TRUE]
  <2>1. attempt' = [attempt EXCEPT ![b] = new]
    BY <1>2 DEF CheckoutPosted
  <2>2. b \in Attempts => /\ new \in AttemptRow /\ new.ref = TRUE
                         /\ new.status = attempt[b].status /\ new.method = attempt[b].method
                         /\ new.until = attempt[b].until
    BY ZenonT(60), <1>0 DEF AttemptRow
  <2> HIDE DEF new
  <2> QED BY <1>0, <1>2, <2>1, <2>2 DEF Posted
<1>3. ASSUME NEW b, NEW att \in AttemptRow, NEW status \in {"APPROVED", "FAILED", "EXPIRED"},
             Ended(b, att, status) \/ (status = "APPROVED" /\ Approve(b, att))
      PROVE  /\ Typed
             /\ \/ attempt'[a] = attempt[a]
                \/ /\ a = b /\ attempt'[a].status = status /\ attempt'[a].method = attempt[a].method
                   /\ attempt'[a].until = attempt[a].until /\ attempt'[a].ref = attempt[a].ref
  <2> DEFINE back == [attempt[b] EXCEPT !.status = status,
                          !.redemption = IF att.reserved THEN 0 ELSE @,
                          !.reserved   = IF att.reserved THEN FALSE ELSE @]
             kept == [attempt[b] EXCEPT !.status = status]
             Same(x) == /\ x \in AttemptRow /\ x.status = status /\ x.method = attempt[b].method
                        /\ x.until = attempt[b].until /\ x.ref = attempt[b].ref
  <2>1. attempt' = [attempt EXCEPT ![b] = back] \/ attempt' = [attempt EXCEPT ![b] = kept]
    BY <1>3 DEF Ended, Approve
  <2>2. ASSUME b \in Attempts PROVE Same(back)
    BY <1>0, <2>2 DEF AttemptRow
  <2>3. ASSUME b \in Attempts PROVE Same(kept)
    BY <1>0, <2>3 DEF AttemptRow
  <2> HIDE DEF back, kept
  <2> QED BY <1>0, <2>1, <2>2, <2>3
<1>4. ASSUME NEW p \in Workers, CheckoutFailed(p) PROVE Goal /\ Typed
  <2>1. CASE attempt[proc[p].a].status = "PENDING"
    <3>1. Ended(proc[p].a, attempt[proc[p].a], "FAILED")
      BY <1>4, <2>1 DEF CheckoutFailed, ReleaseAndEnd
    <3>2. attempt' = attempt \/ attempt[proc[p].a] \in AttemptRow
      BY <1>0, <3>1 DEF Ended
    <3> QED BY <1>0, <1>3, <1>4, <2>1, <3>1, <3>2 DEF Turned, ByFailure
  <2>2. CASE attempt[proc[p].a].status # "PENDING"
    BY <1>0, <1>4, <2>2 DEF CheckoutFailed
  <2> QED BY <2>1, <2>2
<1>5. ASSUME NEW p \in Processes, Write(p) PROVE Goal /\ Typed
  <2>1. CASE (PixCredited(p) \/ CardOn(p)) /\ Approve(proc[p].a, proc[p].att)
    BY <1>0, <1>3, <1>5, <2>1 DEF Turned, ByWrite
  <2>2. CASE PixFails(p) \/ CardFails(p)
    BY <1>0, <1>3, <1>5, <2>2 DEF Turned, ByWrite, PixFails, CardFails, Fails, ReleaseAndEnd
  <2>3. CASE attempt' = attempt
    BY <1>0, <2>3
  <2> QED BY <1>5, <2>1, <2>2, <2>3, WriteForms
          DEF PixCredited, PixStays, CardOn, CardWaits, CardOff, CardStays
<1>6. ASSUME CronExpire PROVE Goal /\ Typed
  <2>1. attempt' = attempt \/ Ended(proc[Cron].a, proc[Cron].att, "EXPIRED")
    BY <1>6 DEF CronExpire
  <2> QED BY <1>0, <1>3, <1>6, <2>1, Numbers DEF Turned, ByExpiry
<1>7. ASSUME attempt' = attempt PROVE Goal /\ Typed
  BY <1>0, <1>7
<1> HIDE DEF Goal, Typed
<1>8. Goal /\ Typed
  BY <1>1, <1>2, <1>4, <1>5, <1>6, <1>7, BillingSteps, ZenonT(60)
     DEF local, vars, Webhook, Poll, CancelBegin, ChangeBegin, GrantBegin, CancelCall, CancelFlag,
         ChangeReprice, ChangeCommit, GrantCommit, Fetch, FetchFailed, Unanswered, Enter, After, Crash,
         PixPaid, PixRejected, CardAuthorized, CardCharged, CardPaused, CardResumed, CardCancelled,
         Becomes, Moves, CronBegin, CronReread, CronFind, RemoveCourtesy, Tick
<1> QED BY <1>8 DEF Goal, Typed

\* What the provider holds is created, paid, rejected or moved along by card, and it says so; a
\* change of its price alone is no matter here.
ObjectKept(b) == provider'[b].status = provider[b].status /\ provider'[b].charged = provider[b].charged
ObjectPosted(b) == /\ provider'[b].status = "pending"
                   /\ \E p \in Workers : CheckoutPosted(p) /\ proc[p].a = b
ObjectPaid(b) == PixPaid(b) /\ provider'[b].status = "approved" /\ provider'[b].charged /\ b \in notices'
ObjectRejected(b) == /\ IsPix(b) /\ provider[b].status \in {"pending", "approved"} /\ b \in notices'
                     /\ provider'[b].status = "rejected" /\ provider'[b].charged = provider[b].charged
ObjectMoved(b) == /\ provider[b].status \in {"pending", "authorized", "paused"} /\ b \in notices'
                  /\ provider'[b].status \in {"authorized", "paused", "cancelled"}
                  /\ provider[b].charged => provider'[b].charged

\* How what the provider holds moves.
LEMMA ObjectMoves ==
    ASSUME Types, [Next]_vars, NEW b \in Attempts
    PROVE  /\ ObjectKept(b) \/ ObjectPosted(b) \/ ObjectPaid(b) \/ ObjectRejected(b) \/ ObjectMoved(b)
           /\ provider' \in [Attempts -> Object]
<1> DEFINE Goal == ObjectKept(b) \/ ObjectPosted(b) \/ ObjectPaid(b) \/ ObjectRejected(b) \/ ObjectMoved(b)
           Typed == provider' \in [Attempts -> Object]
<1>0. /\ provider \in [Attempts -> Object] /\ attempt \in [Attempts -> AttemptRow] /\ now \in Nat
      /\ proc \in [Processes -> Process]
  BY DEF Types
<1>1. ASSUME NEW p \in Workers, CheckoutPosted(p) PROVE Goal /\ Typed
  <2> DEFINE c == proc[p].a
             new == [NoObject EXCEPT !.status = "pending", !.plan = attempt[c].plan, !.discount = attempt[c].discount]
  <2>1. provider' = [provider EXCEPT ![c] = new]
    BY <1>1 DEF CheckoutPosted
  <2>2. c \in Attempts => new \in Object /\ new.status = "pending"
    BY <1>0, Records DEF AttemptRow, Object
  <2> HIDE DEF new
  <2> QED BY <1>0, <1>1, <2>1, <2>2 DEF ObjectKept, ObjectPosted
<1>2. ASSUME NEW a \in Attempts, NEW x \in Object, provider' = [provider EXCEPT ![a] = x], b \in notices' \/ a # b,
             \/ x.status = provider[a].status /\ x.charged = provider[a].charged
             \/ PixPaid(a) /\ x.status = "approved" /\ x.charged
             \/ /\ IsPix(a) /\ provider[a].status \in {"pending", "approved"}
                /\ x.status = "rejected" /\ x.charged = provider[a].charged
             \/ /\ provider[a].status \in {"pending", "authorized", "paused"}
                /\ x.status \in {"authorized", "paused", "cancelled"}
                /\ provider[a].charged => x.charged
      PROVE  Goal /\ Typed
  <2>1. Typed
    BY <1>0, <1>2
  <2>2. CASE a # b
    <3>1. provider'[b] = provider[b]
      BY <1>0, <1>2, <2>2
    <3> QED BY <2>1, <3>1 DEF ObjectKept
  <2>3. CASE a = b
    <3>1. provider'[b] = x /\ b \in notices'
      BY <1>0, <1>2, <2>3
    <3> QED BY <1>2, <2>1, <2>3, <3>1, Zenon DEF ObjectKept, ObjectPaid, ObjectRejected, ObjectMoved
  <2> QED BY <2>2, <2>3
<1>3. ASSUME NEW a \in Attempts, PixPaid(a) PROVE Goal /\ Typed
  <2> DEFINE x == [provider[a] EXCEPT !.status = "approved", !.charged = TRUE]
  <2>1. provider' = [provider EXCEPT ![a] = x] /\ a \in notices'
    BY <1>3 DEF PixPaid, Moves
  <2>2. x \in Object /\ x.status = "approved" /\ x.charged
    BY <1>0 DEF Object
  <2> HIDE DEF x
  <2> QED BY <1>2, <1>3, <2>1, <2>2
<1>4. ASSUME NEW a \in Attempts, NEW from, NEW to \in {"rejected", "paused", "authorized", "cancelled"},
             Becomes(a, from, to),
             IF to = "rejected" THEN IsPix(a) /\ from = {"pending", "approved"}
                                ELSE from \subseteq {"pending", "authorized", "paused"}
      PROVE  Goal /\ Typed
  <2> DEFINE x == [provider[a] EXCEPT !.status = to]
  <2>1. provider' = [provider EXCEPT ![a] = x] /\ a \in notices' /\ provider[a].status \in from
    BY <1>4 DEF Becomes, Moves
  <2>2. x \in Object /\ x.status = to /\ x.charged = provider[a].charged
    BY <1>0 DEF Object
  <2> HIDE DEF x
  <2> QED BY <1>2, <1>4, <2>1, <2>2
<1>5. ASSUME NEW a \in Attempts, CardAuthorized(a) \/ CardCharged(a) PROVE Goal /\ Typed
  <2>1. PICK next \in Nat, charged \in BOOLEAN :
            /\ provider' = [provider EXCEPT ![a] = [provider[a] EXCEPT !.status = "authorized", !.next = next,
                                                                       !.charged = charged]]
            /\ provider[a].charged => charged
            /\ provider[a].status \in {"pending", "authorized"} /\ a \in notices'
    <3>1. CASE CardAuthorized(a)
      <4> DEFINE x == [provider[a] EXCEPT !.status = "authorized", !.next = now + Month]
      <4>1. provider' = [provider EXCEPT ![a] = x] /\ a \in notices' /\ provider[a].status = "pending"
        BY <3>1 DEF CardAuthorized, Moves
      <4>2. x = [provider[a] EXCEPT !.status = "authorized", !.next = now + Month, !.charged = provider[a].charged]
        BY <1>0 DEF Object
      <4>3. now + Month \in Nat /\ provider[a].charged \in BOOLEAN
        BY <1>0, Numbers DEF Object
      <4> HIDE DEF x
      <4> QED BY <4>1, <4>2, <4>3
    <3>2. CASE CardCharged(a)
      <4> DEFINE next == IF provider[a].charged THEN provider[a].next + Month ELSE provider[a].next
                 x == [provider[a] EXCEPT !.charged = TRUE, !.next = next]
      <4>1. provider' = [provider EXCEPT ![a] = x] /\ a \in notices' /\ provider[a].status = "authorized"
        BY <3>2 DEF CardCharged, Moves
      <4>2. x = [provider[a] EXCEPT !.status = "authorized", !.next = next, !.charged = TRUE]
        BY <1>0, <4>1 DEF Object
      <4>3. next \in Nat
        BY <1>0, Numbers DEF Object
      <4> HIDE DEF x, next
      <4> QED BY <4>1, <4>2, <4>3
    <3> QED BY <1>5, <3>1, <3>2
  <2> DEFINE x == [provider[a] EXCEPT !.status = "authorized", !.next = next, !.charged = charged]
  <2>2. x \in Object /\ x.status = "authorized" /\ x.charged = charged
    BY <1>0 DEF Object
  <2>3. provider' = [provider EXCEPT ![a] = x]
    BY <2>1
  <2> HIDE DEF x
  <2>4. provider[a].charged => x.charged
    BY <2>1, <2>2, Zenon
  <2>5. provider[a].status \in {"pending", "authorized", "paused"} /\ x.status \in {"authorized", "paused", "cancelled"}
    BY <2>1, <2>2
  <2>6. a \in notices'
    BY <2>1
  <2> QED BY <1>2, <2>2, <2>3, <2>4, <2>5, <2>6, Zenon
<1>6. ASSUME NEW a, CancelObject(a) PROVE Goal /\ Typed
  <2>1. CASE a \in Attempts /\ provider[a].status \in {"pending", "authorized", "paused"}
    <3> DEFINE x == [provider[a] EXCEPT !.status = "cancelled"]
    <3>1. provider' = [provider EXCEPT ![a] = x] /\ a \in notices'
      BY <1>6, <2>1 DEF CancelObject
    <3>2. x \in Object /\ x.status = "cancelled" /\ x.charged = provider[a].charged
      BY <1>0, <2>1 DEF Object
    <3> HIDE DEF x
    <3> QED BY <1>2, <2>1, <3>1, <3>2
  <2>2. CASE a \in Attempts /\ provider[a].status \notin {"pending", "authorized", "paused"}
    BY <1>0, <1>6, <2>2 DEF CancelObject, remote, ObjectKept
  <2>3. CASE a \notin Attempts
    <3>1. provider' = provider
      BY <1>0, <1>6, <2>3 DEF CancelObject, remote
    <3> QED BY <1>0, <3>1 DEF ObjectKept
  <2> QED BY <2>1, <2>2, <2>3
<1>7. ASSUME NEW a, NEW plan \in Plans \cup {NoPlan},
             provider' = [provider EXCEPT ![a].plan = plan, ![a].discount = FALSE]
      PROVE  Goal /\ Typed
  <2>1. CASE a \in Attempts
    <3> DEFINE x == [provider[a] EXCEPT !.plan = plan, !.discount = FALSE]
    <3>1. provider' = [provider EXCEPT ![a] = x]
      BY <1>0, <1>7, <2>1
    <3>2. x \in Object /\ x.status = provider[a].status /\ x.charged = provider[a].charged
      BY <1>0, <2>1 DEF Object
    <3> HIDE DEF x
    <3> QED BY <1>0, <3>1, <3>2 DEF ObjectKept
  <2>2. CASE a \notin Attempts
    <3>1. provider' = provider
      BY <1>0, <1>7, <2>2
    <3> QED BY <1>0, <3>1 DEF ObjectKept
  <2> QED BY <2>1, <2>2
<1>8. ASSUME provider' = provider PROVE Goal /\ Typed
  BY <1>0, <1>8 DEF ObjectKept
<1>9. ASSUME NEW p \in Processes, After(p) PROVE Goal /\ Typed
  <2>1. proc[p].att.plan \in Plans \cup {NoPlan}
    BY <1>0 DEF Process, AttemptRow
  <2> QED BY <1>6, <1>7, <1>8, <1>9, <2>1 DEF After, remote
<1>10. ASSUME NEW p \in Workers, CancelCall(p) \/ ChangeReprice(p) PROVE Goal /\ Typed
  <2>1. proc[p].plan \in Plans \cup {NoPlan}
    BY <1>0 DEF Process, Processes
  <2> QED BY <1>6, <1>7, <1>8, <1>10, <2>1 DEF CancelCall, ChangeReprice, remote
<1>11. ASSUME NEW a \in Attempts,
              PixRejected(a) \/ CardPaused(a) \/ CardResumed(a) \/ CardCancelled(a)
       PROVE  Goal /\ Typed
  <2>1. CASE PixRejected(a)
    BY <1>4, <2>1 DEF PixRejected
  <2>2. CASE CardPaused(a)
    BY <1>4, <2>2 DEF CardPaused
  <2>3. CASE CardResumed(a)
    BY <1>4, <2>3 DEF CardResumed
  <2>4. CASE CardCancelled(a)
    BY <1>4, <2>4 DEF CardCancelled
  <2> QED BY <1>11, <2>1, <2>2, <2>3, <2>4
<1> HIDE DEF Goal, Typed
<1>12. ASSUME NEW p, NEW a, NEW method, NEW plan, NEW typed,
              \/ CheckoutBegin(p, a, method, plan, typed) \/ Webhook(p, a) \/ Poll(p, a)
              \/ ChangeBegin(p, plan) \/ GrantBegin(p, plan)
       PROVE  provider' = provider
  BY <1>12 DEF remote, CheckoutBegin, Webhook, Poll, ChangeBegin, GrantBegin
<1>13. ASSUME NEW p, CancelBegin(p) \/ CheckoutFailed(p) \/ CancelFlag(p) \/ ChangeCommit(p) \/ GrantCommit(p)
       PROVE  provider' = provider
  BY <1>13 DEF remote, CancelBegin, CheckoutFailed, CancelFlag, ChangeCommit, GrantCommit
<1>14. ASSUME NEW p, Fetch(p) \/ FetchFailed(p) \/ Enter(p) \/ Write(p) \/ Crash(p)
       PROVE  provider' = provider
  BY <1>14 DEF remote, Fetch, FetchFailed, Unanswered, Enter, Write, Crash
<1>15. ASSUME NEW a, CronBegin(a) PROVE provider' = provider
  BY <1>15 DEF remote, CronBegin
<1>16. CronReread \/ CronFind \/ CronExpire \/ RemoveCourtesy \/ Tick \/ UNCHANGED vars => provider' = provider
  BY DEF remote, vars, CronReread, CronFind, CronExpire, RemoveCourtesy, Tick
<1>17. Goal /\ Typed
  BY <1>1, <1>3, <1>5, <1>8, <1>9, <1>10, <1>11, <1>12, <1>13, <1>14, <1>15, <1>16, BillingSteps, Zenon
<1> QED BY <1>17 DEF Goal, Typed

-----------------------------------------------------------------------------
(* The inductive invariant *)

\* Where the processes stand: who has the lock, who synchronises, who posts and who expires.
Placed ==
    \A p \in Processes :
        /\ proc[p].pc = "write" => lock = p
        /\ proc[p].pc \in Syncing => proc[p].a \in Attempts /\ attempt[proc[p].a].ref
        /\ proc[p].pc = "post" => /\ p \in Workers /\ proc[p].a \in Attempts
                                  /\ attempt[proc[p].a].status = "PENDING" /\ ~attempt[proc[p].a].ref
                                  /\ attempt[proc[p].a].until >= now
        /\ proc[p].pc \in CronOwn => proc[p].op = "cron"
        /\ proc[p].op = "cron" => /\ p = Cron /\ proc[p].a \in Attempts
                                  /\ attempt[proc[p].a].status # "NONE"
                                  /\ attempt[proc[p].a].until < now
\* No attempt is posted twice.
PostedOnce ==
    \A p, q \in Processes :
        proc[p].pc = "post" /\ proc[q].pc = "post" /\ proc[p].a = proc[q].a => p = q

\* What is known of an attempt from its row.
Rows ==
    \A a \in Attempts :
        /\ attempt[a].status = "NONE" => ~attempt[a].ref
        /\ ~attempt[a].ref => provider[a].status = "none" /\ months[a] = 0

\* What was paid was charged, and a picture of it is of something that happened.
Paid ==
    /\ \A a \in Attempts : provider[a].status = "approved" => provider[a].charged
    /\ \A p \in Processes :
          proc[p].pc \in {"enter", "write"} /\ IsPix(proc[p].a) =>
              /\ proc[p].snap.status = "approved" =>
                    provider[proc[p].a].charged /\ provider[proc[p].a].status \in {"approved", "rejected"}
              /\ proc[p].snap.status = "rejected" => provider[proc[p].a].status = "rejected"

\* A month is credited to an attempt that is no longer pending, and who has the lock on a Pix
\* has one without it before him.
Credit ==
    /\ \A a \in Attempts :
          /\ months[a] \in {0, 1}
          /\ months[a] = 1 => provider[a].charged /\ attempt[a].status \notin {"NONE", "PENDING"}
    /\ \A p \in Processes : proc[p].pc = "write" /\ IsPix(proc[p].a) => months[proc[p].a] = 0

\* The hourly job found a redemption to give back only where there was one.
Found == proc[Cron].pc = "expire" /\ proc[Cron].seen => proc[Cron].att.redemption # 0

\* The row of Subscription: there is none, or one whose card has a reference.
SubRows ==
    /\ sub.status = "NONE" => sub = NoSub
    /\ sub.method = "CARD" => sub.ref \in Attempts /\ ~IsPix(sub.ref) /\ attempt[sub.ref].ref

\* Who has the lock has read the month that counts, and the reference unless there is none now.
Reading ==
    \A p \in Processes : proc[p].pc = "write" =>
        /\ sub.method = "PIX" /\ ~sub.courtesy => Keeps(proc[p].sub) /\ proc[p].sub.end = sub.end
        /\ sub.ref \in {proc[p].sub.ref, NoAttempt}

\* A notification about the attempt is yet to come, or is being handled by who has seen, or will
\* see, that its status is this one.
Heard(a, status) ==
    \/ a \in notices
    \/ \E p \in Processes :
          /\ proc[p].op = "webhook" /\ proc[p].a = a
          /\ \/ proc[p].pc = "fetch"
             \/ proc[p].pc \in {"enter", "write"} /\ proc[p].snap.status = status

\* A Pix that may still be paid is pending, and so is one that was paid and not credited: somebody
\* has yet to hear of it.
Awaited ==
    \A a \in Attempts : IsPix(a) /\ attempt[a].ref =>
        /\ provider[a].status = "pending" /\ now <= attempt[a].until => attempt[a].status = "PENDING"
        /\ provider[a].status = "approved" /\ months[a] = 0 /\ a \notin blind
              => attempt[a].status = "PENDING" /\ Heard(a, "approved")

\* The hourly job expires nothing that was paid: had it been paid, it would have seen it.
CronSees ==
    LET a == proc[Cron].a IN
    proc[Cron].op = "cron" /\ IsPix(a) /\ provider[a].status = "approved" /\ a \notin blind =>
        /\ proc[Cron].pc \in {"enter", "write"} => proc[Cron].snap.status = "approved"
        /\ proc[Cron].pc \in {"after"} \cup CronOwn => months[a] = 1

\* A subscription runs on without the provider.
RunsOn == /\ sub.method = "CARD" /\ ~sub.courtesy /\ ~sub.cancel
          /\ provider[sub.ref].status = "cancelled"
Told == RunsOn /\ sub.ref \notin stale => Heard(sub.ref, "cancelled")

CouponInv == CouponCountExact /\ Found
DaysInv == SubRows /\ Reading
CreditInv == Rows /\ Paid /\ Credit
BillingInv ==
    /\ Types /\ Placed /\ PostedOnce /\ CreditInv /\ CouponInv /\ DaysInv
    /\ Awaited /\ CronSees /\ Told

\* With one request at a time and no hourly job, nobody looks at an old picture unwarned.
Warned == \A p \in Processes :
    /\ proc[p].pc \in {"enter", "write"} /\ ~IsPix(proc[p].a) /\ provider[proc[p].a].status = "cancelled"
       /\ proc[p].snap.status # "cancelled"
          => proc[p].a \in notices
ToldAlone == RunsOn => Heard(sub.ref, "cancelled")

-----------------------------------------------------------------------------
(* What a process does in a step *)

\* It stays, begins, goes on or ends; the hourly job goes from a synchronisation to its expiry.
Begins(p) ==
    /\ proc[p].pc = "idle"
    /\ \/ /\ \E a \in Attempts, method \in Methods, plan \in Plans, typed \in BOOLEAN :
                CheckoutBegin(p, a, method, plan, typed) /\ proc'[p].a = a
          /\ p \in Workers /\ proc'[p].pc = "post" /\ proc'[p].op = "checkout"
       \/ /\ \E a \in Attempts : attempt[a].ref /\ (Webhook(p, a) \/ Poll(p, a)) /\ proc'[p].a = a
          /\ p \in Workers /\ proc'[p].pc = "fetch" /\ proc'[p].op \in {"webhook", "poll"}
       \/ /\ p \in Workers /\ proc'[p].pc \in Elsewhere
          /\ proc'[p].op \in {"cancel", "change", "courtesy"}
       \/ /\ \E a \in Attempts : CronBegin(a) /\ proc'[p].a = a
          /\ p = Cron /\ proc'[p].op = "cron"
          /\ proc'[p].pc = IF attempt[proc'[p].a].ref THEN "fetch" ELSE "reread"
Continues(p) ==
    /\ proc'[p].op = proc[p].op /\ proc'[p].a = proc[p].a
    /\ \/ proc[p].pc \in Elsewhere /\ proc'[p].pc \in Elsewhere
       \/ Fetch(p) /\ proc'[p].pc = "enter" /\ proc'[p].snap = provider[proc[p].a]
       \/ /\ Enter(p) /\ lock = NoWorker /\ lock' = p
          /\ IsPix(proc[p].a) => attempt[proc[p].a].status = "PENDING"
          /\ proc'[p].pc = "write" /\ proc'[p].snap = proc[p].snap
          /\ proc'[p].att = attempt[proc[p].a] /\ proc'[p].sub = sub
       \/ Write(p) /\ proc'[p].pc = "after"
       \/ /\ CronReread /\ p = Cron /\ proc'[p].pc = "find" /\ proc'[p].att = attempt[proc[p].a]
       \/ /\ CronFind /\ p = Cron /\ proc'[p].pc = "expire" /\ proc'[p].att = proc[p].att
          /\ proc'[p].seen = Returnable(proc[p].att)
Synced(p) ==
    \/ FetchFailed(p) \/ Write(p) \/ After(p)
    \/ Enter(p) /\ IsPix(proc[p].a) /\ attempt[proc[p].a].status # "PENDING"
Rereads(p) ==
    /\ Synced(p) /\ proc[p].op = "cron"
    /\ proc'[p].pc = "reread" /\ proc'[p].op = "cron" /\ proc'[p].a = proc[p].a
Ends(p) ==
    /\ proc'[p] = IdleProc
    /\ \/ Synced(p) /\ proc[p].op # "cron"
       \/ proc[p].pc \in Elsewhere
       \/ CheckoutPosted(p) \/ CheckoutFailed(p) \/ Crash(p)
       \/ p = Cron /\ (CronReread \/ CronExpire)
Moved(p) == Begins(p) \/ Continues(p) \/ Rereads(p) \/ Ends(p)
\* The step is of process p, if of any.
StepOf(p) ==
    /\ proc' \in [Processes -> Process]
    /\ \A r \in Processes \ {p} : proc'[r] = proc[r]
    /\ proc'[p] = proc[p] \/ Moved(p)

\* The row of a process is replaced by another.
LEMMA ProcReplaced ==
    ASSUME Types, NEW p \in Processes, NEW x \in Process, proc' = [proc EXCEPT ![p] = x]
    PROVE  /\ proc' \in [Processes -> Process] /\ proc'[p] = x
           /\ \A r \in Processes \ {p} : proc'[r] = proc[r]
BY DEF Types

\* What follows a synchronisation.
LEMMA DoneForms ==
    ASSUME Types, NEW p \in Processes, Done(p)
    PROVE  /\ proc' \in [Processes -> Process]
           /\ \A r \in Processes \ {p} : proc'[r] = proc[r]
           /\ proc[p].op = "cron" => proc'[p].pc = "reread" /\ proc'[p].op = "cron" /\ proc'[p].a = proc[p].a
           /\ proc[p].op # "cron" => proc'[p] = IdleProc
<1> DEFINE next == Beginning("reread", "cron", proc[p].a)
<1>1. proc[p] \in Process /\ proc[p].a \in Attempts \cup {NoAttempt}
  BY DEF Types, Process
<1>2. next \in Process /\ next.pc = "reread" /\ next.op = "cron" /\ next.a = proc[p].a
  BY <1>1, Beginnings DEF CronOwn
<1>3. CASE proc[p].op = "cron"
  <2>1. proc' = [proc EXCEPT ![p] = next]
    BY <1>3 DEF Done, Beginning
  <2> HIDE DEF next
  <2> QED BY <1>2, <1>3, <2>1, ProcReplaced
<1>4. CASE proc[p].op # "cron"
  <2>1. proc' = [proc EXCEPT ![p] = IdleProc]
    BY <1>4 DEF Done
  <2> QED BY <1>4, <2>1, ProcReplaced, Records
<1> QED BY <1>3, <1>4

\* A synchronisation that is over.
LEMMA SyncedSteps ==
    ASSUME Types, NEW p \in Processes, Synced(p), Done(p) PROVE StepOf(p)
BY DoneForms, Zenon DEF StepOf, Moved, Rereads, Ends

\* A process that ends otherwise.
LEMMA FinishSteps ==
    ASSUME Types, NEW p \in Processes, Finish(p),
           \/ proc[p].pc \in Elsewhere \/ CheckoutPosted(p) \/ CheckoutFailed(p) \/ Crash(p)
           \/ p = Cron /\ (CronReread \/ CronExpire)
    PROVE  StepOf(p)
<1>1. proc' = [proc EXCEPT ![p] = IdleProc]
  BY DEF Finish
<1> QED BY <1>1, ProcReplaced, Records, Zenon DEF StepOf, Moved, Ends

\* Requests arrive.
LEMMA BeginSteps ==
    ASSUME Types, NEW p \in Workers,
           \/ \E a \in Attempts, method \in Methods, plan \in Plans, typed \in BOOLEAN :
                CheckoutBegin(p, a, method, plan, typed)
           \/ \E a \in Attempts : Webhook(p, a) \/ Poll(p, a)
           \/ CancelBegin(p) \/ \E plan \in Plans : ChangeBegin(p, plan) \/ GrantBegin(p, plan)
    PROVE  StepOf(p)
<1>0. p \in Processes /\ sub.ref \in Attempts \cup {NoAttempt} /\ sub \in SubRow
  BY DEF Processes, Types, SubRow
<1>1. ASSUME NEW a \in Attempts, NEW method \in Methods, NEW plan \in Plans, NEW typed \in BOOLEAN,
             CheckoutBegin(p, a, method, plan, typed)
      PROVE  StepOf(p)
  <2> DEFINE x == Beginning("post", "checkout", a)
  <2>1. proc' = [proc EXCEPT ![p] = x] /\ proc[p].pc = "idle"
    BY <1>1 DEF CheckoutBegin, At, Beginning
  <2>2. x \in Process /\ x.pc = "post" /\ x.op = "checkout" /\ x.a = a
    BY Beginnings
  <2> HIDE DEF x
  <2>3. Begins(p)
    <3>1. proc'[p] = x
      BY <1>0, <2>1, <2>2, ProcReplaced
    <3>2. \E b \in Attempts, m \in Methods, pl \in Plans, t \in BOOLEAN :
             CheckoutBegin(p, b, m, pl, t) /\ proc'[p].a = b
      BY <1>1, <2>2, <3>1, Zenon
    <3> QED BY <2>1, <2>2, <3>1, <3>2, Zenon DEF Begins
  <2> QED BY <1>0, <2>1, <2>2, <2>3, ProcReplaced DEF StepOf, Moved
<1>2. ASSUME NEW a \in Attempts, Webhook(p, a) \/ Poll(p, a) PROVE StepOf(p)
  <2>1. CASE proc' = proc
    BY <2>1 DEF StepOf, Types
  <2>2. CASE proc' # proc
    <3>1. PICK op \in {"webhook", "poll"} :
             proc' = [proc EXCEPT ![p] = Beginning("fetch", op, a)]
      BY <1>2, <2>2 DEF Webhook, Poll, Beginning
    <3>2. attempt[a].ref /\ proc[p].pc = "idle"
      BY <1>2, <2>2 DEF Webhook, Poll, At
    <3> DEFINE x == Beginning("fetch", op, a)
    <3>3. x \in Process /\ x.pc = "fetch" /\ x.op = op /\ x.a = a
      BY Beginnings DEF Syncing
    <3>4. proc' = [proc EXCEPT ![p] = x]
      BY <3>1
    <3> HIDE DEF x
    <3>5. Begins(p)
      BY <1>0, <1>2, <3>2, <3>3, <3>4, ProcReplaced DEF Begins
    <3> QED BY <1>0, <3>3, <3>4, <3>5, ProcReplaced DEF StepOf, Moved
  <2> QED BY <2>1, <2>2
<1>3. ASSUME NEW x \in Process, proc' = [proc EXCEPT ![p] = x], proc[p].pc = "idle", x.pc \in Elsewhere,
             x.op \in {"cancel", "change", "courtesy"}
      PROVE  StepOf(p)
  <2>1. Begins(p)
    BY <1>0, <1>3, ProcReplaced DEF Begins
  <2> QED BY <1>0, <1>3, <2>1, ProcReplaced DEF StepOf, Moved
<1>4. ASSUME CancelBegin(p) PROVE StepOf(p)
  <2>1. PICK pc \in {"call", "flag"} :
           proc' = [proc EXCEPT ![p] = Beginning(pc, "cancel", sub.ref)]
    BY <1>4 DEF CancelBegin, Beginning
  <2> DEFINE x == Beginning(pc, "cancel", sub.ref)
  <2>2. x \in Process /\ x.pc = pc /\ x.op = "cancel"
    BY <1>0, Beginnings
  <2>3. proc' = [proc EXCEPT ![p] = x] /\ proc[p].pc = "idle"
    BY <1>4, <2>1 DEF CancelBegin, At
  <2> HIDE DEF x
  <2> QED BY <1>3, <2>2, <2>3 DEF Elsewhere
<1>5. ASSUME NEW plan \in Plans, ChangeBegin(p, plan) PROVE StepOf(p)
  <2>1. PICK pc \in {"reprice", "commit"} :
           proc' = [proc EXCEPT ![p] = Changing(plan, sub, sub.ref, pc)]
    BY <1>5 DEF ChangeBegin, Changing
  <2> DEFINE x == Changing(plan, sub, sub.ref, pc)
  <2>2. x \in Process /\ x.pc = pc /\ x.op = "change"
    BY <1>0, Beginnings
  <2>3. proc' = [proc EXCEPT ![p] = x] /\ proc[p].pc = "idle"
    BY <1>5, <2>1 DEF ChangeBegin, At
  <2> HIDE DEF x
  <2> QED BY <1>3, <2>2, <2>3 DEF Elsewhere
<1>6. ASSUME NEW plan \in Plans, GrantBegin(p, plan) PROVE StepOf(p)
  <2> DEFINE x == Granting(plan)
  <2>2. x \in Process /\ x.pc = "grant" /\ x.op = "courtesy"
    BY <1>0, Beginnings
  <2>3. proc' = [proc EXCEPT ![p] = x] /\ proc[p].pc = "idle"
    BY <1>6 DEF GrantBegin, At, Granting
  <2> HIDE DEF x
  <2> QED BY <1>3, <2>2, <2>3 DEF Elsewhere
<1> QED BY <1>1, <1>2, <1>4, <1>5, <1>6, Zenon

\* Requests go on.
LEMMA RequestSteps ==
    ASSUME Types, NEW p \in Workers,
           \/ CheckoutPosted(p) \/ CheckoutFailed(p) \/ CancelCall(p) \/ CancelFlag(p)
           \/ ChangeReprice(p) \/ ChangeCommit(p) \/ GrantCommit(p)
    PROVE  StepOf(p)
<1>0. p \in Processes /\ proc[p] \in Process
  BY DEF Processes, Types
<1>1. CASE Finish(p)
  <2>1. proc[p].pc \in Elsewhere \/ CheckoutPosted(p) \/ CheckoutFailed(p)
    BY DEF CancelCall, CancelFlag, ChangeReprice, ChangeCommit, GrantCommit, At, Elsewhere
  <2> QED BY <1>0, <1>1, <2>1, FinishSteps, Zenon
<1>2. ASSUME NEW pc \in {"flag", "commit"}, proc' = [proc EXCEPT ![p].pc = pc], proc[p].pc \in Elsewhere
      PROVE  StepOf(p)
  <2> DEFINE x == Advanced(proc[p], pc)
  <2>1. x \in Process /\ x.pc = pc /\ x.op = proc[p].op /\ x.a = proc[p].a
    BY <1>0, AdvancedProcess
  <2>2. proc' = [proc EXCEPT ![p] = x]
    BY <1>2 DEF Advanced
  <2> HIDE DEF x
  <2>3. proc'[p] = x
    BY <1>0, <2>1, <2>2, ProcReplaced
  <2>4. Continues(p)
    BY <1>2, <2>1, <2>3 DEF Continues, Elsewhere
  <2> QED BY <1>0, <2>1, <2>2, <2>4, ProcReplaced DEF StepOf, Moved
<1>3. CASE CancelCall(p)
  BY <1>1, <1>2, <1>3 DEF CancelCall, At, Elsewhere
<1>4. CASE ChangeReprice(p)
  BY <1>1, <1>2, <1>4 DEF ChangeReprice, At, Elsewhere
<1>5. CASE CheckoutPosted(p) \/ CheckoutFailed(p) \/ CancelFlag(p) \/ ChangeCommit(p) \/ GrantCommit(p)
  BY <1>1, <1>5 DEF CheckoutPosted, CheckoutFailed, CancelFlag, ChangeCommit, GrantCommit
<1> QED BY <1>3, <1>4, <1>5

\* Synchronisations go on.
LEMMA SyncSteps ==
    ASSUME Types, NEW p \in Processes, proc[p].pc \in Syncing => proc[p].a \in Attempts,
           Fetch(p) \/ FetchFailed(p) \/ Enter(p) \/ Write(p) \/ After(p) \/ Crash(p)
    PROVE  StepOf(p)
<1>0. proc[p] \in Process /\ provider \in [Attempts -> Object] /\ attempt \in [Attempts -> AttemptRow]
      /\ sub \in SubRow
  BY DEF Types
<1>1. ASSUME NEW x \in Process, proc' = [proc EXCEPT ![p] = x],
             \/ Fetch(p) /\ x.pc = "enter" /\ x.snap = provider[proc[p].a]
             \/ /\ Enter(p) /\ lock = NoWorker /\ lock' = p
                /\ IsPix(proc[p].a) => attempt[proc[p].a].status = "PENDING"
                /\ x.pc = "write" /\ x.snap = proc[p].snap /\ x.att = attempt[proc[p].a] /\ x.sub = sub
             \/ Write(p) /\ x.pc = "after",
             x.op = proc[p].op, x.a = proc[p].a
      PROVE  StepOf(p)
  <2>1. proc'[p] = x
    BY <1>1, ProcReplaced
  <2>2. Continues(p)
    BY <1>1, <2>1, Zenon DEF Continues
  <2> QED BY <1>1, <2>2, ProcReplaced, Zenon DEF StepOf, Moved
<1>2. CASE Fetch(p)
  <2> DEFINE snap == provider[proc[p].a]
             x == Pictured(proc[p], snap)
  <2>1. snap \in Object
    BY <1>0, <1>2 DEF Fetch, At, Syncing
  <2> HIDE DEF snap
  <2>2. x \in Process /\ x.pc = "enter" /\ x.op = proc[p].op /\ x.a = proc[p].a /\ x.snap = snap
    BY <1>0, <2>1, PicturedProcess
  <2> HIDE DEF x
  <2>3. proc' = [proc EXCEPT ![p] = x]
    BY <1>2 DEF Fetch, x, snap, Pictured
  <2> QED BY <1>1, <1>2, <2>2, <2>3 DEF snap
<1>3. CASE FetchFailed(p)
  BY <1>3, SyncedSteps, Zenon DEF FetchFailed, Synced
<1>4. CASE Enter(p)
  <2>1. CASE IsPix(proc[p].a) /\ attempt[proc[p].a].status # "PENDING"
    <3>1. Done(p)
      BY <1>4, <2>1 DEF Enter
    <3> QED BY <1>4, <2>1, <3>1, SyncedSteps, Zenon DEF Synced
  <2>2. CASE ~(IsPix(proc[p].a) /\ attempt[proc[p].a].status # "PENDING")
    <3> DEFINE att == attempt[proc[p].a]
               x == HasRead(proc[p], att, sub)
    <3>1. att \in AttemptRow
      BY <1>0, <1>4 DEF Enter, At, Syncing
    <3> HIDE DEF att
    <3>2. /\ x \in Process /\ x.pc = "write" /\ x.op = proc[p].op /\ x.a = proc[p].a /\ x.snap = proc[p].snap
          /\ x.att = att /\ x.sub = sub
      BY <1>0, <3>1, HasReadProcess
    <3> HIDE DEF x
    <3>3. proc' = [proc EXCEPT ![p] = x] /\ lock = NoWorker /\ lock' = p
      BY <1>4, <2>2 DEF Enter, Reads, x, att, HasRead
    <3> QED BY <1>1, <1>4, <2>2, <3>2, <3>3 DEF att
  <2> QED BY <2>1, <2>2
<1>5. CASE Write(p)
  <2>1. CASE Done(p)
    BY <1>5, <2>1, SyncedSteps, Zenon DEF Synced
  <2>2. CASE proc' = [proc EXCEPT ![p].pc = "after"]
    <3> DEFINE x == Advanced(proc[p], "after")
    <3>1. x \in Process /\ x.pc = "after" /\ x.op = proc[p].op /\ x.a = proc[p].a
      BY <1>0, AdvancedProcess
    <3> HIDE DEF x
    <3>2. proc' = [proc EXCEPT ![p] = x]
      BY <2>2 DEF x, Advanced
    <3> QED BY <1>1, <1>5, <3>1, <3>2
  <2> QED BY <1>5, <2>1, <2>2, WriteForms, Zenon
          DEF PixCredited, PixFails, PixStays, CardOn, CardWaits, CardOff, CardFails, CardStays, Fails
<1>6. CASE After(p)
  <2>1. Done(p)
    BY <1>6 DEF After
  <2> QED BY <1>6, <2>1, SyncedSteps, Zenon DEF Synced
<1>7. CASE Crash(p)
  <2>1. Finish(p)
    BY <1>7 DEF Crash
  <2> QED BY <1>7, <2>1, FinishSteps, Zenon
<1> QED BY <1>2, <1>3, <1>4, <1>5, <1>6, <1>7

\* The hourly job begins and goes on.
LEMMA CronSteps ==
    ASSUME Types, proc[Cron].pc \in CronOwn => proc[Cron].a \in Attempts,
           (\E a \in Attempts : CronBegin(a)) \/ CronReread \/ CronFind \/ CronExpire
    PROVE  StepOf(Cron)
<1>0. Cron \in Processes /\ proc[Cron] \in Process /\ attempt \in [Attempts -> AttemptRow]
  BY Numbers DEF Types
<1>1. ASSUME NEW a \in Attempts, CronBegin(a) PROVE StepOf(Cron)
  <2> DEFINE pc == IF attempt[a].ref THEN "fetch" ELSE "reread"
             x == Beginning(pc, "cron", a)
  <2>1. pc \in {"fetch", "reread"}
    OBVIOUS
  <2>2. proc' = [proc EXCEPT ![Cron] = x] /\ proc[Cron].pc = "idle"
    BY <1>1 DEF CronBegin, At, Beginning
  <2> HIDE DEF pc
  <2>3. x \in Process /\ x.pc = pc /\ x.op = "cron" /\ x.a = a
    BY <2>1, Beginnings DEF Syncing, CronOwn
  <2> HIDE DEF x
  <2>4. Begins(Cron)
    <3>1. proc'[Cron] = x
      BY <1>0, <2>2, <2>3, ProcReplaced
    <3> QED BY <1>1, <2>2, <2>3, <3>1, Zenon DEF Begins, pc
  <2> QED BY <1>0, <2>2, <2>3, <2>4, ProcReplaced, Zenon DEF StepOf, Moved
<1>2. ASSUME NEW x \in Process, proc' = [proc EXCEPT ![Cron] = x],
             \/ CronReread /\ x.pc = "find" /\ x.att = attempt[proc[Cron].a]
             \/ /\ CronFind /\ x.pc = "expire" /\ x.att = proc[Cron].att
                /\ x.seen = Returnable(proc[Cron].att),
             x.op = proc[Cron].op, x.a = proc[Cron].a
      PROVE  StepOf(Cron)
  <2>1. proc'[Cron] = x
    BY <1>0, <1>2, ProcReplaced
  <2>2. Continues(Cron)
    BY <1>2, <2>1, Zenon DEF Continues
  <2> QED BY <1>0, <1>2, <2>2, ProcReplaced, Zenon DEF StepOf, Moved
<1>3. CASE CronReread
  <2>1. CASE attempt[proc[Cron].a].status = "PENDING"
    <3> DEFINE att == attempt[proc[Cron].a]
               x == Refound(proc[Cron], att)
    <3>1. att \in AttemptRow
      BY <1>0, <1>3 DEF CronReread, At, CronOwn
    <3> HIDE DEF att
    <3>2. x \in Process /\ x.pc = "find" /\ x.op = proc[Cron].op /\ x.a = proc[Cron].a /\ x.att = att
      BY <1>0, <3>1, RefoundProcess
    <3> HIDE DEF x
    <3>3. proc' = [proc EXCEPT ![Cron] = x]
      BY <1>3, <2>1 DEF CronReread, x, att, Refound
    <3> QED BY <1>2, <1>3, <3>2, <3>3 DEF att
  <2>2. CASE attempt[proc[Cron].a].status # "PENDING"
    <3>1. Finish(Cron)
      BY <1>3, <2>2 DEF CronReread
    <3> QED BY <1>0, <1>3, <3>1, FinishSteps, Zenon
  <2> QED BY <2>1, <2>2
<1>4. CASE CronFind
  <2> DEFINE seen == Returnable(proc[Cron].att)
             x == Sought(proc[Cron], seen)
  <2>1. seen \in BOOLEAN
    BY <1>0 DEF Returnable, Process, AttemptRow, Types, CouponRow
  <2> HIDE DEF seen
  <2>2. /\ x \in Process /\ x.pc = "expire" /\ x.op = proc[Cron].op /\ x.a = proc[Cron].a
        /\ x.att = proc[Cron].att /\ x.seen = seen
    BY <1>0, <2>1, SoughtProcess
  <2> HIDE DEF x
  <2>3. proc' = [proc EXCEPT ![Cron] = x]
    BY <1>4 DEF CronFind, x, seen, Sought
  <2> QED BY <1>2, <1>4, <2>2, <2>3 DEF seen
<1>5. CASE CronExpire
  <2>1. Finish(Cron)
    BY <1>5 DEF CronExpire
  <2> QED BY <1>0, <1>5, <2>1, FinishSteps, Zenon
<1> QED BY <1>1, <1>3, <1>4, <1>5

\* Every process stays as it is or makes one of these moves.
LEMMA ProcMoves ==
    ASSUME Types, Placed, [Next]_vars
    PROVE  /\ proc' \in [Processes -> Process]
           /\ \A p \in Processes : proc'[p] = proc[p] \/ Moved(p)
<1> DEFINE Goal == /\ proc' \in [Processes -> Process]
                   /\ \A p \in Processes : proc'[p] = proc[p] \/ Moved(p)
<1>1. ASSUME NEW p \in Processes, StepOf(p) PROVE Goal
  BY <1>1, Zenon DEF StepOf
<1>2. ASSUME proc' = proc PROVE Goal
  BY <1>2 DEF Types
<1> HIDE DEF Goal
<1>3. Workers \subseteq Processes /\ Cron \in Processes
  BY DEF Processes
<1>4. \A p \in Processes : proc[p].pc \in Syncing => proc[p].a \in Attempts
  BY DEF Placed
<1>5. proc[Cron].pc \in CronOwn => proc[Cron].a \in Attempts
  BY <1>3 DEF Placed
<1>6. ASSUME NEW a, \/ PixPaid(a) \/ PixRejected(a) \/ CardAuthorized(a) \/ CardCharged(a) \/ CardPaused(a)
                    \/ CardResumed(a) \/ CardCancelled(a)
      PROVE  proc' = proc
  BY <1>6 DEF PixPaid, PixRejected, CardAuthorized, CardCharged, CardPaused, CardResumed, CardCancelled,
              Becomes, Moves
<1>7. RemoveCourtesy \/ Tick \/ UNCHANGED vars => proc' = proc
  BY DEF RemoveCourtesy, Tick, vars
<1>8. ASSUME NEW p \in Workers,
             \/ \E a \in Attempts, method \in Methods, plan \in Plans, typed \in BOOLEAN :
                  CheckoutBegin(p, a, method, plan, typed)
             \/ \E a \in Attempts : Webhook(p, a) \/ Poll(p, a)
             \/ CancelBegin(p) \/ \E plan \in Plans : ChangeBegin(p, plan) \/ GrantBegin(p, plan)
             \/ CheckoutPosted(p) \/ CheckoutFailed(p) \/ CancelCall(p) \/ CancelFlag(p)
             \/ ChangeReprice(p) \/ ChangeCommit(p) \/ GrantCommit(p)
      PROVE  Goal
  <2>1. StepOf(p)
    BY <1>8, BeginSteps, RequestSteps, Zenon
  <2> QED BY <1>1, <1>3, <2>1
<1>9. ASSUME NEW p \in Processes, Fetch(p) \/ FetchFailed(p) \/ Enter(p) \/ Write(p) \/ After(p) \/ Crash(p)
      PROVE  Goal
  <2>1. StepOf(p)
    BY <1>4, <1>9, SyncSteps, Zenon
  <2> QED BY <1>1, <2>1
<1>10. ASSUME (\E a \in Attempts : CronBegin(a)) \/ CronReread \/ CronFind \/ CronExpire PROVE Goal
  <2>1. StepOf(Cron)
    BY <1>5, <1>10, CronSteps, Zenon
  <2> QED BY <1>1, <1>3, <2>1
<1>11. Goal
  BY <1>2, <1>6, <1>7, <1>8, <1>9, <1>10, BillingSteps, Zenon
<1> QED BY <1>11 DEF Goal

-----------------------------------------------------------------------------
(* The other variables *)

\* The row of Subscription: its days, its flag or its plan change, a courtesy comes or goes, or a
\* payment writes it anew.
SubSame == /\ sub'.method = sub.method /\ sub'.ref = sub.ref /\ sub'.courtesy = sub.courtesy
           /\ sub.cancel => sub'.cancel
           /\ sub.status = "NONE" => sub' = sub
           /\ sub'.status = "NONE" => sub.status = "NONE"
           /\ sub'.end = sub.end \/ \E p \in Processes : Write(p) /\ CardWaits(p)
SubGranted == sub'.method = sub.method /\ sub'.ref = sub.ref /\ sub'.courtesy /\ sub'.status # "NONE"
SubCredited == \E p \in Processes :
    /\ Write(p) /\ PixCredited(p) /\ sub'.status # "NONE" /\ sub'.method = "PIX" /\ sub'.ref = NoAttempt
    /\ sub'.end = PixEnd(proc[p].sub)
SubOn == \E p \in Processes :
    /\ Write(p) /\ CardOn(p) /\ sub'.status # "NONE" /\ sub'.method = "CARD" /\ sub'.ref = proc[p].a

\* The end a Pix buys is a time, a month past the current end when the subscription runs on.
LEMMA PixEndType ==
    ASSUME NEW row \in SubRow, now \in Nat
    PROVE  PixEnd(row) \in Nat /\ (Keeps(row) => PixEnd(row) >= row.end + Month)
<1>1. row.end \in Nat /\ Month \in Nat
  BY Numbers DEF SubRow
<1> QED BY <1>1 DEF PixEnd

\* What an authorized recurrence writes is a row.
LEMMA CardRowType ==
    ASSUME Types, NEW p \in Processes, proc[p].a \in Attempts, NEW dated \in BOOLEAN
    PROVE  /\ CardAuthorizedSub(p, dated) \in SubRow
           /\ CardAuthorizedSub(p, dated).status = "ACTIVE" /\ CardAuthorizedSub(p, dated).method = "CARD"
           /\ CardAuthorizedSub(p, dated).ref = proc[p].a
<1>1. /\ proc[p].sub \in SubRow /\ proc[p].att \in AttemptRow /\ proc[p].snap \in Object
      /\ now \in Nat /\ Month \in Nat
  BY Numbers DEF Types, Process
<1> DEFINE plan == IF Owns(p) THEN proc[p].sub.plan ELSE proc[p].att.plan
           end == IF dated THEN proc[p].snap.next ELSE IF Owns(p) THEN proc[p].sub.end ELSE now + Month
<1>2. plan \in Plans \cup {NoPlan} /\ end \in Nat
  BY <1>1 DEF SubRow, AttemptRow, Object
<1>3. CardAuthorizedSub(p, dated) = [status |-> "ACTIVE", plan |-> plan, courtesy |-> FALSE, method |-> "CARD",
                                     ref |-> proc[p].a, end |-> end, cancel |-> FALSE]
  BY DEF CardAuthorizedSub
<1> HIDE DEF plan, end
<1> QED BY <1>2, <1>3 DEF SubRow, Methods

\* How the row of the subscription moves.
LEMMA SubMoves ==
    ASSUME Types, Placed, [Next]_vars
    PROVE  /\ sub' \in SubRow
           /\ SubSame \/ SubGranted \/ sub' = NoSub \/ SubCredited \/ SubOn
<1> DEFINE Goal == sub' \in SubRow /\ (SubSame \/ SubGranted \/ sub' = NoSub \/ SubCredited \/ SubOn)
<1>0. sub \in SubRow /\ proc \in [Processes -> Process] /\ now \in Nat
  BY DEF Types
<1>1. ASSUME sub' = sub PROVE Goal
  BY <1>0, <1>1, Zenon DEF SubSame
<1>2. ASSUME NEW p \in Processes, Write(p) PROVE Goal
  <2>1. proc[p].a \in Attempts /\ proc[p].sub \in SubRow /\ proc[p].att \in AttemptRow /\ proc[p].snap \in Object
    BY <1>0, <1>2 DEF Placed, Write, At, Syncing, Process
  <2>2. CASE PixCredited(p)
    <3> DEFINE end == PixEnd(proc[p].sub)
               plan == proc[p].att.plan
    <3>1. end \in Nat /\ plan \in Plans \cup {NoPlan}
      BY <1>0, <2>1, PixEndType DEF AttemptRow
    <3>2. sub' = [status |-> "ACTIVE", plan |-> plan, courtesy |-> FALSE, method |-> "PIX",
                  ref |-> NoAttempt, end |-> end, cancel |-> FALSE]
      BY <2>2 DEF PixCredited
    <3> HIDE DEF end, plan
    <3>3. sub' \in SubRow /\ sub'.status # "NONE" /\ sub'.method = "PIX" /\ sub'.ref = NoAttempt /\ sub'.end = end
      BY <3>1, <3>2 DEF SubRow, Methods
    <3> QED BY <1>2, <2>2, <3>3, Zenon DEF SubCredited, end
  <2>3. CASE CardOn(p)
    <3>1. PICK dated \in BOOLEAN : sub' = CardAuthorizedSub(p, dated)
      BY <2>3 DEF CardOn
    <3>2. sub' \in SubRow /\ sub'.status # "NONE" /\ sub'.method = "CARD" /\ sub'.ref = proc[p].a
      BY <2>1, <3>1, CardRowType
    <3> QED BY <1>2, <2>3, <3>2, Zenon DEF SubOn
  <2>4. CASE CardWaits(p)
    <3>1. PICK dated \in BOOLEAN :
             Update([sub EXCEPT !.status = "PAST_DUE", !.end = IF dated THEN proc[p].snap.next ELSE @])
      BY <2>4 DEF CardWaits
    <3> DEFINE end == IF dated THEN proc[p].snap.next ELSE sub.end
               row == [sub EXCEPT !.status = "PAST_DUE", !.end = end]
    <3>2. end \in Nat
      BY <1>0, <2>1 DEF SubRow, Object
    <3>3. sub' = IF sub.status = "NONE" THEN sub ELSE row
      BY <3>1 DEF Update
    <3> HIDE DEF end
    <3>4. /\ row \in SubRow /\ row.status # "NONE" /\ row.method = sub.method /\ row.ref = sub.ref
          /\ row.courtesy = sub.courtesy /\ row.cancel = sub.cancel
      BY <1>0, <3>2 DEF SubRow
    <3> HIDE DEF row
    <3>5. CASE sub' = row /\ sub.status # "NONE"
      BY <1>2, <2>4, <3>4, <3>5, Zenon DEF SubSame
    <3> QED BY <1>1, <3>3, <3>5
  <2>5. CASE CardOff(p)
    <3> DEFINE row == [sub EXCEPT !.cancel = TRUE]
    <3>1. sub' = IF sub.status = "NONE" THEN sub ELSE row
      BY <2>5 DEF CardOff, Update
    <3>2. /\ row \in SubRow /\ row.status = sub.status /\ row.method = sub.method /\ row.ref = sub.ref
          /\ row.courtesy = sub.courtesy /\ row.cancel /\ row.end = sub.end
      BY <1>0 DEF SubRow
    <3> HIDE DEF row
    <3>3. CASE sub' = row /\ sub.status # "NONE"
      BY <3>2, <3>3, Zenon DEF SubSame
    <3> QED BY <1>1, <3>1, <3>3
  <2> QED BY <1>1, <1>2, <2>2, <2>3, <2>4, <2>5, WriteForms, Zenon
          DEF PixFails, PixStays, CardFails, CardStays, Fails
<1>3. ASSUME NEW p, CancelFlag(p) PROVE Goal
  <2> DEFINE row == [sub EXCEPT !.cancel = TRUE]
  <2>1. sub' = sub \/ (sub' = row /\ sub.status # "NONE")
    BY <1>3 DEF CancelFlag
  <2>2. /\ row \in SubRow /\ row.status = sub.status /\ row.method = sub.method /\ row.ref = sub.ref
        /\ row.courtesy = sub.courtesy /\ row.cancel /\ row.end = sub.end
    BY <1>0 DEF SubRow
  <2> HIDE DEF row
  <2>3. CASE sub' = row /\ sub.status # "NONE"
    BY <2>2, <2>3, Zenon DEF SubSame
  <2> QED BY <1>1, <2>1, <2>3
<1>4. ASSUME NEW p \in Workers, ChangeCommit(p) PROVE Goal
  <2> DEFINE plan == proc[p].plan
             row == [sub EXCEPT !.plan = plan]
  <2>1. sub' = sub \/ (sub' = row /\ sub.status # "NONE")
    BY <1>4 DEF ChangeCommit
  <2>2. plan \in Plans \cup {NoPlan}
    BY <1>0 DEF Process, Processes
  <2> HIDE DEF plan
  <2>3. /\ row \in SubRow /\ row.status = sub.status /\ row.method = sub.method /\ row.ref = sub.ref
        /\ row.courtesy = sub.courtesy /\ row.cancel = sub.cancel /\ row.end = sub.end
    BY <1>0, <2>2 DEF SubRow
  <2> HIDE DEF row
  <2>4. CASE sub' = row /\ sub.status # "NONE"
    BY <2>3, <2>4, Zenon DEF SubSame
  <2> QED BY <1>1, <2>1, <2>4
<1>5. ASSUME NEW p \in Workers, GrantCommit(p) PROVE Goal
  <2> DEFINE plan == proc[p].plan
  <2>1. PICK end \in {NoEnd, now + Month} :
           sub' = [sub EXCEPT !.status = "ACTIVE", !.plan = plan, !.courtesy = TRUE, !.end = end, !.cancel = FALSE]
    BY <1>5 DEF GrantCommit
  <2>2. plan \in Plans \cup {NoPlan} /\ end \in Nat
    BY <1>0, Numbers DEF Process, Processes, NoEnd
  <2> HIDE DEF plan
  <2>3. /\ sub' \in SubRow /\ sub'.status # "NONE" /\ sub'.method = sub.method /\ sub'.ref = sub.ref
        /\ sub'.courtesy
    BY <1>0, <2>1, <2>2 DEF SubRow
  <2> QED BY <2>3, Zenon DEF SubGranted
<1>6. ASSUME RemoveCourtesy PROVE Goal
  BY <1>6, Records DEF RemoveCourtesy
<1> HIDE DEF Goal
<1>7. ASSUME NEW p, NEW a, NEW method, NEW plan, NEW typed,
             \/ CheckoutBegin(p, a, method, plan, typed) \/ Webhook(p, a) \/ Poll(p, a)
             \/ ChangeBegin(p, plan) \/ GrantBegin(p, plan)
      PROVE  sub' = sub
  BY <1>7 DEF local, CheckoutBegin, Webhook, Poll, ChangeBegin, GrantBegin
<1>8. ASSUME NEW p, \/ CancelBegin(p) \/ CheckoutPosted(p) \/ CheckoutFailed(p) \/ CancelCall(p)
                    \/ ChangeReprice(p)
      PROVE  sub' = sub
  BY <1>8 DEF local, CancelBegin, CheckoutPosted, CheckoutFailed, CancelCall, ChangeReprice
<1>9. ASSUME NEW p, Fetch(p) \/ FetchFailed(p) \/ Enter(p) \/ After(p) \/ Crash(p)
      PROVE  sub' = sub
  BY <1>9 DEF local, Fetch, FetchFailed, Unanswered, Enter, After, Crash
<1>10. ASSUME NEW a, \/ PixPaid(a) \/ PixRejected(a) \/ CardAuthorized(a) \/ CardCharged(a) \/ CardPaused(a)
                     \/ CardResumed(a) \/ CardCancelled(a) \/ CronBegin(a)
       PROVE  sub' = sub
  BY <1>10 DEF local, PixPaid, PixRejected, CardAuthorized, CardCharged, CardPaused, CardResumed, CardCancelled,
               Becomes, Moves, CronBegin
<1>11. CronReread \/ CronFind \/ CronExpire \/ Tick \/ UNCHANGED vars => sub' = sub
  BY DEF local, vars, CronReread, CronFind, CronExpire, Tick
<1>12. Goal
  BY <1>1, <1>2, <1>3, <1>4, <1>5, <1>6, <1>7, <1>8, <1>9, <1>10, <1>11, BillingSteps, Zenon
<1> QED BY <1>12 DEF Goal

\* Months are credited to a Pix only.
LEMMA MonthMoves ==
    ASSUME [Next]_vars
    PROVE  months' = months \/ \E p \in Processes : Write(p) /\ PixCredited(p)
<1>1. ASSUME NEW p, NEW a, NEW method, NEW plan, NEW typed,
             \/ CheckoutBegin(p, a, method, plan, typed) \/ Webhook(p, a) \/ Poll(p, a)
             \/ ChangeBegin(p, plan) \/ GrantBegin(p, plan)
      PROVE  months' = months
  BY <1>1 DEF local, CheckoutBegin, Webhook, Poll, ChangeBegin, GrantBegin
<1>2. ASSUME NEW p, \/ CancelBegin(p) \/ CheckoutPosted(p) \/ CheckoutFailed(p) \/ CancelCall(p) \/ CancelFlag(p)
                    \/ ChangeReprice(p) \/ ChangeCommit(p) \/ GrantCommit(p)
      PROVE  months' = months
  BY <1>2 DEF local, CancelBegin, CheckoutPosted, CheckoutFailed, CancelCall, CancelFlag, ChangeReprice,
              ChangeCommit, GrantCommit
<1>3. ASSUME NEW p, Fetch(p) \/ FetchFailed(p) \/ Enter(p) \/ After(p) \/ Crash(p)
      PROVE  months' = months
  BY <1>3 DEF local, Fetch, FetchFailed, Unanswered, Enter, After, Crash
<1>4. ASSUME NEW p, Write(p) PROVE months' = months \/ PixCredited(p)
  BY <1>4, WriteForms, Zenon
     DEF PixFails, PixStays, CardOn, CardWaits, CardOff, CardFails, CardStays, Fails
<1>5. ASSUME NEW a, \/ PixPaid(a) \/ PixRejected(a) \/ CardAuthorized(a) \/ CardCharged(a) \/ CardPaused(a)
                    \/ CardResumed(a) \/ CardCancelled(a) \/ CronBegin(a)
      PROVE  months' = months
  BY <1>5 DEF local, PixPaid, PixRejected, CardAuthorized, CardCharged, CardPaused, CardResumed, CardCancelled,
              Becomes, Moves, CronBegin
<1>6. CronReread \/ CronFind \/ CronExpire \/ RemoveCourtesy \/ Tick \/ UNCHANGED vars => months' = months
  BY DEF local, vars, CronReread, CronFind, CronExpire, RemoveCourtesy, Tick
<1> QED BY <1>1, <1>2, <1>3, <1>4, <1>5, <1>6, BillingSteps, Zenon

\* Who enters a transaction takes the lock, who writes or dies lets it go.
LEMMA LockMoves ==
    ASSUME [Next]_vars
    PROVE  \/ lock' = lock
           \/ \E p \in Processes : Enter(p) /\ lock = NoWorker /\ lock' = p
           \/ \E p \in Processes : (Write(p) \/ Crash(p)) /\ lock = p
<1>1. ASSUME NEW p, NEW a, NEW method, NEW plan, NEW typed,
             \/ CheckoutBegin(p, a, method, plan, typed) \/ Webhook(p, a) \/ Poll(p, a)
             \/ ChangeBegin(p, plan) \/ GrantBegin(p, plan)
      PROVE  lock' = lock
  BY <1>1 DEF CheckoutBegin, Webhook, Poll, ChangeBegin, GrantBegin
<1>2. ASSUME NEW p, \/ CancelBegin(p) \/ CheckoutPosted(p) \/ CheckoutFailed(p) \/ CancelCall(p) \/ CancelFlag(p)
                    \/ ChangeReprice(p) \/ ChangeCommit(p) \/ GrantCommit(p)
      PROVE  lock' = lock
  BY <1>2 DEF CancelBegin, CheckoutPosted, CheckoutFailed, CancelCall, CancelFlag, ChangeReprice,
              ChangeCommit, GrantCommit
<1>3. ASSUME NEW p, Fetch(p) \/ FetchFailed(p) \/ After(p)
      PROVE  lock' = lock
  BY <1>3 DEF Fetch, FetchFailed, Unanswered, After
<1>4. ASSUME NEW p, Enter(p) PROVE lock' = lock \/ (lock = NoWorker /\ lock' = p)
  BY <1>4 DEF Enter
<1>5. ASSUME NEW p, Write(p) \/ Crash(p) PROVE lock' = lock \/ lock = p
  BY <1>5 DEF Write, Crash
<1>6. ASSUME NEW a, \/ PixPaid(a) \/ PixRejected(a) \/ CardAuthorized(a) \/ CardCharged(a) \/ CardPaused(a)
                    \/ CardResumed(a) \/ CardCancelled(a) \/ CronBegin(a)
      PROVE  lock' = lock
  BY <1>6 DEF PixPaid, PixRejected, CardAuthorized, CardCharged, CardPaused, CardResumed, CardCancelled,
              Becomes, Moves, CronBegin
<1>7. CronReread \/ CronFind \/ CronExpire \/ RemoveCourtesy \/ Tick \/ UNCHANGED vars => lock' = lock
  BY DEF vars, CronReread, CronFind, CronExpire, RemoveCourtesy, Tick
<1> QED BY <1>1, <1>2, <1>3, <1>4, <1>5, <1>6, <1>7, BillingSteps, Zenon

\* Time passes only while nothing is in progress.
LEMMA TimeMoves ==
    ASSUME [Next]_vars
    PROVE  now' = now \/ (Tick /\ \A p \in Processes : proc[p].pc = "idle")
<1>1. ASSUME NEW p, NEW a, NEW method, NEW plan, NEW typed,
             \/ CheckoutBegin(p, a, method, plan, typed) \/ Webhook(p, a) \/ Poll(p, a)
             \/ ChangeBegin(p, plan) \/ GrantBegin(p, plan)
      PROVE  now' = now
  BY <1>1 DEF CheckoutBegin, Webhook, Poll, ChangeBegin, GrantBegin
<1>2. ASSUME NEW p, \/ CancelBegin(p) \/ CheckoutPosted(p) \/ CheckoutFailed(p) \/ CancelCall(p) \/ CancelFlag(p)
                    \/ ChangeReprice(p) \/ ChangeCommit(p) \/ GrantCommit(p)
      PROVE  now' = now
  BY <1>2 DEF CancelBegin, CheckoutPosted, CheckoutFailed, CancelCall, CancelFlag, ChangeReprice,
              ChangeCommit, GrantCommit
<1>3. ASSUME NEW p, Fetch(p) \/ FetchFailed(p) \/ Enter(p) \/ Write(p) \/ After(p) \/ Crash(p)
      PROVE  now' = now
  BY <1>3 DEF Fetch, FetchFailed, Unanswered, Enter, Write, After, Crash
<1>4. ASSUME NEW a, \/ PixPaid(a) \/ PixRejected(a) \/ CardAuthorized(a) \/ CardCharged(a) \/ CardPaused(a)
                    \/ CardResumed(a) \/ CardCancelled(a) \/ CronBegin(a)
      PROVE  now' = now
  BY <1>4 DEF PixPaid, PixRejected, CardAuthorized, CardCharged, CardPaused, CardResumed, CardCancelled,
              Becomes, Moves, CronBegin
<1>5. CronReread \/ CronFind \/ CronExpire \/ RemoveCourtesy \/ UNCHANGED vars => now' = now
  BY DEF vars, CronReread, CronFind, CronExpire, RemoveCourtesy
<1>6. Tick => \A p \in Processes : proc[p].pc = "idle"
  BY DEF Tick, At
<1> QED BY <1>1, <1>2, <1>3, <1>4, <1>5, <1>6, BillingSteps, Zenon

\* The coupon: nothing that counts, a new redemption, or one given back.
CouponSame == coupon'.row = coupon.row /\ coupon'.count = coupon.count
CouponReserved == /\ coupon.row = 0 /\ coupon'.row = coupon.last + 1 /\ coupon'.count = coupon.count + 1
CouponReturned == /\ coupon.row # 0 /\ coupon'.row = 0
                  /\ coupon'.count = IF coupon.count > 0 THEN coupon.count - 1 ELSE 0

\* What reserving, spending and giving back make of the coupon.
LEMMA CouponRows ==
    ASSUME coupon \in CouponRow
    PROVE  /\ Reserve \in CouponRow /\ Reserve.row = coupon.last + 1 /\ Reserve.count = coupon.count + 1
           /\ \A att : /\ Spend(att) \in CouponRow /\ Spend(att).row = coupon.row
                       /\ Spend(att).count = coupon.count
           /\ \A att : /\ GiveBack(att) \in CouponRow /\ GiveBack(att).row = 0
                       /\ GiveBack(att).count = IF coupon.count > 0 THEN coupon.count - 1 ELSE 0
<1>1. Reserve \in CouponRow /\ Reserve.row = coupon.last + 1 /\ Reserve.count = coupon.count + 1
  BY DEF Reserve, CouponRow
<1>2. ASSUME NEW att
      PROVE  Spend(att) \in CouponRow /\ Spend(att).row = coupon.row /\ Spend(att).count = coupon.count
  BY DEF Spend, CouponRow
<1>3. ASSUME NEW att
      PROVE  /\ GiveBack(att) \in CouponRow /\ GiveBack(att).row = 0
             /\ GiveBack(att).count = IF coupon.count > 0 THEN coupon.count - 1 ELSE 0
  <2> DEFINE count == IF coupon.count > 0 THEN coupon.count - 1 ELSE 0
  <2>1. count \in Nat
    BY DEF CouponRow
  <2> DEFINE row == [coupon EXCEPT !.row = 0, !.applied = FALSE, !.count = count]
  <2>2. GiveBack(att) = row
    BY DEF GiveBack, CouponRow
  <2> HIDE DEF count
  <2>3. row \in CouponRow /\ row.row = 0 /\ row.count = count
    BY <2>1 DEF CouponRow
  <2> HIDE DEF row
  <2> QED BY <2>2, <2>3 DEF count
<1> QED BY <1>1, <1>2, <1>3

\* How the coupon moves: the count goes up with a row, and down with a redemption given back.
LEMMA CouponMoves ==
    ASSUME Types, Found, [Next]_vars
    PROVE  coupon' \in CouponRow /\ (CouponSame \/ CouponReserved \/ CouponReturned)
<1> DEFINE Goal == coupon' \in CouponRow /\ (CouponSame \/ CouponReserved \/ CouponReturned)
<1>0. coupon \in CouponRow
  BY DEF Types
<1>1. ASSUME coupon' = coupon PROVE Goal
  BY <1>0, <1>1 DEF CouponSame
<1>2. ASSUME NEW att, coupon' = Spend(att) PROVE Goal
  BY <1>0, <1>2, CouponRows DEF CouponSame
<1>3. ASSUME NEW att, coupon.row # 0, coupon' = GiveBack(att) PROVE Goal
  BY <1>0, <1>3, CouponRows DEF CouponReturned
<1>4. ASSUME coupon.row = 0, coupon' = Reserve PROVE Goal
  BY <1>0, <1>4, CouponRows DEF CouponReserved
<1> HIDE DEF Goal
<1>5. ASSUME NEW a, NEW att, NEW status, ReleaseAndEnd(a, att, status) PROVE Goal
  BY <1>1, <1>3, <1>5 DEF ReleaseAndEnd, Returnable
<1>6. ASSUME NEW p, NEW a, NEW method, NEW plan, NEW typed, CheckoutBegin(p, a, method, plan, typed) PROVE Goal
  <2>1. CASE Choice(typed) = "new"
    <3>1. coupon.row = 0
      BY <2>1 DEF Choice
    <3>2. coupon' = Reserve
      BY <1>6, <2>1 DEF CheckoutBegin
    <3> QED BY <1>4, <3>1, <3>2
  <2>2. CASE Choice(typed) # "new"
    BY <1>1, <1>6, <2>2 DEF CheckoutBegin
  <2> QED BY <2>1, <2>2
<1>7. ASSUME NEW p, CheckoutFailed(p) PROVE Goal
  BY <1>1, <1>5, <1>7 DEF CheckoutFailed
<1>8. ASSUME NEW p, Write(p) PROVE Goal
  <2>1. coupon' = coupon \/ (\E att : coupon' = Spend(att)) \/ (\E a, att, status : ReleaseAndEnd(a, att, status))
    BY <1>8, WriteForms, Zenon
       DEF PixCredited, PixFails, PixStays, CardOn, CardWaits, CardOff, CardFails, CardStays, Fails, Approve
  <2> QED BY <1>1, <1>2, <1>5, <2>1, Zenon
<1>9. ASSUME CronExpire PROVE Goal
  <2>1. CASE coupon' = coupon
    BY <1>1, <2>1
  <2>2. CASE coupon' # coupon
    <3>1. /\ proc[Cron].pc = "expire" /\ proc[Cron].seen /\ coupon.row = proc[Cron].att.redemption
          /\ coupon' = GiveBack(proc[Cron].att)
      BY <1>9, <2>2 DEF CronExpire, At
    <3>2. coupon.row # 0
      BY <3>1 DEF Found
    <3> QED BY <1>3, <3>1, <3>2
  <2> QED BY <2>1, <2>2
<1>10. ASSUME NEW p, NEW a, NEW plan, Webhook(p, a) \/ Poll(p, a) \/ ChangeBegin(p, plan) \/ GrantBegin(p, plan)
      PROVE  coupon' = coupon
  BY <1>10 DEF local, Webhook, Poll, ChangeBegin, GrantBegin
<1>11. ASSUME NEW p, \/ CancelBegin(p) \/ CheckoutPosted(p) \/ CancelCall(p) \/ CancelFlag(p)
                     \/ ChangeReprice(p) \/ ChangeCommit(p) \/ GrantCommit(p)
      PROVE  coupon' = coupon
  BY <1>11 DEF local, CancelBegin, CheckoutPosted, CancelCall, CancelFlag, ChangeReprice,
              ChangeCommit, GrantCommit
<1>12. ASSUME NEW p, Fetch(p) \/ FetchFailed(p) \/ Enter(p) \/ After(p) \/ Crash(p)
      PROVE  coupon' = coupon
  BY <1>12 DEF local, Fetch, FetchFailed, Unanswered, Enter, After, Crash
<1>13. ASSUME NEW a, \/ PixPaid(a) \/ PixRejected(a) \/ CardAuthorized(a) \/ CardCharged(a) \/ CardPaused(a)
                    \/ CardResumed(a) \/ CardCancelled(a) \/ CronBegin(a)
      PROVE  coupon' = coupon
  BY <1>13 DEF local, PixPaid, PixRejected, CardAuthorized, CardCharged, CardPaused, CardResumed, CardCancelled,
              Becomes, Moves, CronBegin
<1>14. CronReread \/ CronFind \/ RemoveCourtesy \/ Tick \/ UNCHANGED vars => coupon' = coupon
  BY DEF local, vars, CronReread, CronFind, RemoveCourtesy, Tick
<1>15. Goal
  BY <1>1, <1>6, <1>7, <1>8, <1>9, <1>10, <1>11, <1>12, <1>13, <1>14, BillingSteps, Zenon
<1> QED BY <1>15 DEF Goal

\* The types are kept by every step.
LEMMA TypesKept ==
    ASSUME Types, Placed, Found, [Next]_vars
    PROVE  Types'
<1>1. attempt' \in [Attempts -> AttemptRow] /\ provider' \in [Attempts -> Object]
  <2>1. PICK a : a \in Attempts
    BY BillingAssumption
  <2> QED BY <2>1, AttemptMoves, ObjectMoves
<1>2. sub' \in SubRow /\ coupon' \in CouponRow /\ proc' \in [Processes -> Process]
  BY SubMoves, CouponMoves, ProcMoves
<1>3. now' \in Nat
  BY TimeMoves DEF Types, Tick
<1>4. months' \in [Attempts -> Nat]
  BY MonthMoves DEF Types, PixCredited
<1> QED BY <1>1, <1>2, <1>3, <1>4 DEF Types

\* The coupon's count stays the number of its redemptions.
LEMMA CouponKept ==
    ASSUME Types, Placed, CouponInv, [Next]_vars
    PROVE  CouponInv'
<1>1. CouponCountExact'
  <2>1. coupon \in CouponRow /\ (coupon.count = IF coupon.row = 0 THEN 0 ELSE 1)
    BY DEF CouponInv, CouponCountExact, Types
  <2>2. CouponSame \/ CouponReserved \/ CouponReturned
    BY CouponMoves DEF CouponInv
  <2> QED BY <2>1, <2>2 DEF CouponSame, CouponReserved, CouponReturned, CouponCountExact, CouponRow
<1>2. Found'
  <2>1. SUFFICES ASSUME proc'[Cron].pc = "expire", proc'[Cron].seen
                 PROVE  proc'[Cron].att.redemption # 0
    BY DEF Found
  <2>2. CASE proc'[Cron] = proc[Cron]
    BY <2>1, <2>2 DEF Found, CouponInv
  <2>3. CASE Moved(Cron)
    <3>1. proc'[Cron].att = proc[Cron].att /\ Returnable(proc[Cron].att)
      BY <2>1, <2>3, Records DEF Moved, Begins, Continues, Rereads, Ends, Elsewhere
    <3> QED BY <3>1 DEF Returnable
  <2> QED BY <2>2, <2>3, ProcMoves, Numbers
<1> QED BY <1>1, <1>2 DEF CouponInv

-----------------------------------------------------------------------------
(* The parts of the invariant, one by one: where the processes stand *)

\* A checkout makes a pending row that has time left.
LEMMA CheckoutRow ==
    ASSUME Types, NEW p, NEW a \in Attempts, NEW method, NEW plan, NEW typed,
           CheckoutBegin(p, a, method, plan, typed)
    PROVE  attempt'[a].status = "PENDING" /\ ~attempt'[a].ref /\ attempt'[a].until >= now
<1> DEFINE red == IF Choice(typed) = "none" THEN 0 ELSE coupon'.row
           until == now + IF method = "PIX" THEN PixValidity ELSE CardTtl
<1>1. until >= now
  BY Numbers DEF Types
<1>2. attempt' = [attempt EXCEPT ![a] =
           [status |-> "PENDING", method |-> method, plan |-> plan, discount |-> Choice(typed) # "none",
            redemption |-> red, reserved |-> Choice(typed) = "new", ref |-> FALSE, until |-> until]]
  BY DEF CheckoutBegin
<1> HIDE DEF red, until
<1> QED BY <1>1, <1>2 DEF Types

\* Who posts is done with it, and so is who writes or dies.
LEMMA Leaving ==
    ASSUME Types, NEW p \in Processes
    PROVE  /\ CheckoutPosted(p) \/ CheckoutFailed(p) \/ Crash(p) => proc'[p].pc = "idle"
           /\ Write(p) => proc'[p].pc # "write"
<1>1. Finish(p) => proc'[p].pc = "idle"
  BY Records DEF Finish, Types
<1>2. Done(p) => proc'[p].pc \in {"reread", "idle"}
  BY DoneForms, Records
<1>3. proc' = [proc EXCEPT ![p].pc = "after"] => proc'[p].pc = "after"
  BY DEF Types, Process
<1>4. Write(p) => Done(p) \/ proc' = [proc EXCEPT ![p].pc = "after"]
  BY WriteForms, Zenon
     DEF PixCredited, PixFails, PixStays, CardOn, CardWaits, CardOff, CardFails, CardStays, Fails
<1>5. Write(p) => proc'[p].pc # "write"
  <2>1. CASE Done(p)
    BY <1>2, <2>1
  <2>2. CASE proc' = [proc EXCEPT ![p].pc = "after"]
    BY <1>3, <2>2
  <2> QED BY <1>4, <2>1, <2>2
<1> QED BY <1>1, <1>5 DEF CheckoutPosted, CheckoutFailed, Crash

\* While one has the lock no other writes.
LEMMA OnlyWriter ==
    ASSUME Types, Placed, NEW p \in Processes, proc[p].pc = "write", proc'[p].pc = "write",
           NEW q \in Processes
    PROVE  ~Write(q)
<1>1. Write(q) => q = p
  BY DEF Write, At, Placed
<1> QED BY <1>1, Leaving

\* What a row keeps.
LEMMA RowKept ==
    ASSUME Types, Rows, [Next]_vars, NEW a \in Attempts
    PROVE  /\ attempt[a].status # "NONE" => /\ attempt'[a].status # "NONE" /\ attempt'[a].method = attempt[a].method
                                            /\ attempt'[a].until = attempt[a].until
           /\ attempt[a].status \notin {"NONE", "PENDING"} => attempt'[a].status \notin {"NONE", "PENDING"}
           /\ attempt[a].ref => attempt'[a].ref /\ attempt'[a].method = attempt[a].method
<1>1. attempt[a].status = "NONE" => ~attempt[a].ref
  BY DEF Rows
<1>2. CASE Made(a)
  BY <1>1, <1>2 DEF Made
<1>3. CASE Posted(a)
  BY <1>1, <1>3, AttemptMoves DEF Posted, Made
<1>4. CASE Turned(a)
  <2>1. attempt'[a].status \notin {"NONE", "PENDING"} /\ attempt'[a].ref = attempt[a].ref
    BY <1>4 DEF Turned, ByWrite, ByFailure, ByExpiry
  <2>2. (attempt'[a].method = attempt[a].method /\ attempt'[a].until = attempt[a].until)
        \/ attempt'[a] = attempt[a] \/ Made(a)
    BY AttemptMoves
  <2> QED BY <1>1, <2>1, <2>2 DEF Made
<1> QED BY <1>2, <1>3, <1>4, AttemptMoves

\* A request that posts has a row that only its own answer, or its failure, will change.
LEMMA PostingKept ==
    ASSUME Types, Placed, PostedOnce, Rows, [Next]_vars,
           NEW p \in Processes, proc[p].pc = "post", proc'[p] = proc[p]
    PROVE  LET a == proc[p].a IN
           /\ attempt'[a].status = "PENDING" /\ ~attempt'[a].ref
           /\ attempt'[a].until >= now'
<1> DEFINE a == proc[p].a
<1>1. a \in Attempts /\ attempt[a].status = "PENDING" /\ ~attempt[a].ref /\ attempt[a].until >= now
  BY DEF Placed
<1>2. now' = now
  BY TimeMoves
<1>3. ~Posted(a) /\ ~ByFailure(a)
  <2>1. ASSUME NEW q \in Workers, CheckoutPosted(q) \/ CheckoutFailed(q), proc[q].a = a PROVE FALSE
    <3>1. q = p
      BY <2>1 DEF CheckoutPosted, CheckoutFailed, At, PostedOnce, Processes
    <3>2. proc'[p].pc = "idle"
      BY <2>1, <3>1, Leaving
    <3> QED BY <3>2
  <2> QED BY <2>1 DEF Posted, ByFailure
<1>4. ~ByWrite(a)
  BY <1>1 DEF ByWrite, Write, At, Placed, Syncing
<1>5. ~ByExpiry(a)
  <2>1. CronExpire /\ proc[Cron].a = a => attempt[a].until < now
    BY Numbers DEF CronExpire, At, Placed, CronOwn
  <2>2. attempt[a].until \in Nat /\ now \in Nat
    BY <1>1 DEF Types, AttemptRow
  <2> QED BY <1>1, <2>1, <2>2 DEF ByExpiry
<1>6. attempt'[a] = attempt[a]
  BY <1>1, <1>3, <1>4, <1>5, AttemptMoves DEF Made, Turned
<1> QED BY <1>1, <1>2, <1>6

\* Where the processes stand is kept.
LEMMA PlacedKept ==
    ASSUME Types, Placed, PostedOnce, Rows, [Next]_vars
    PROVE  Placed'
<1> SUFFICES ASSUME NEW p \in Processes
             PROVE  /\ proc'[p].pc = "write" => lock' = p
                    /\ proc'[p].pc \in Syncing => proc'[p].a \in Attempts /\ attempt'[proc'[p].a].ref
                    /\ proc'[p].pc = "post" => /\ p \in Workers /\ proc'[p].a \in Attempts
                                               /\ attempt'[proc'[p].a].status = "PENDING" /\ ~attempt'[proc'[p].a].ref
                                               /\ attempt'[proc'[p].a].until >= now'
                    /\ proc'[p].pc \in CronOwn => proc'[p].op = "cron"
                    /\ proc'[p].op = "cron" => /\ p = Cron /\ proc'[p].a \in Attempts
                                               /\ attempt'[proc'[p].a].status # "NONE"
                                               /\ attempt'[proc'[p].a].until < now'
  BY DEF Placed
<1>0. /\ proc[p].pc = "write" => lock = p
      /\ proc[p].pc \in Syncing => proc[p].a \in Attempts /\ attempt[proc[p].a].ref
      /\ proc[p].pc = "post" => p \in Workers /\ proc[p].a \in Attempts
      /\ proc[p].pc \in CronOwn => proc[p].op = "cron"
      /\ proc[p].op = "cron" => /\ p = Cron /\ proc[p].a \in Attempts /\ attempt[proc[p].a].status # "NONE"
                                /\ attempt[proc[p].a].until < now
  BY DEF Placed
<1>1. proc'[p] = proc[p] \/ Moved(p)
  BY ProcMoves
<1>2. proc'[p].pc = "write" => lock' = p
  <2>1. CASE proc'[p] = proc[p] /\ proc[p].pc = "write"
    <3>1. lock = p
      BY <1>0, <2>1
    <3>2. ASSUME NEW q \in Processes, Write(q) \/ Crash(q), lock = q PROVE FALSE
      BY <2>1, <3>1, <3>2, Leaving
    <3> QED BY <3>1, <3>2, LockMoves, Numbers
  <2>2. CASE Moved(p)
    BY <2>2, Records DEF Moved, Begins, Continues, Rereads, Ends, Elsewhere
  <2> QED BY <1>1, <2>1, <2>2
<1>3. proc'[p].pc \in Syncing => proc'[p].a \in Attempts /\ attempt'[proc'[p].a].ref
  <2>1. SUFFICES ASSUME proc'[p].pc \in Syncing
                 PROVE  proc'[p].a \in Attempts /\ attempt[proc'[p].a].ref
    BY RowKept
  <2>2. CASE proc'[p] = proc[p]
    BY <1>0, <2>1, <2>2
  <2>3. CASE Begins(p)
    BY <2>1, <2>3 DEF Begins, Syncing, Elsewhere
  <2>4. CASE Continues(p)
    BY <1>0, <2>1, <2>4 DEF Continues, Syncing, Elsewhere, Fetch, Enter, Write, At
  <2> QED BY <1>1, <2>1, <2>2, <2>3, <2>4, Records DEF Moved, Rereads, Ends, Syncing
<1>4. ASSUME proc'[p].pc = "post"
      PROVE  /\ p \in Workers /\ proc'[p].a \in Attempts
             /\ attempt'[proc'[p].a].status = "PENDING" /\ ~attempt'[proc'[p].a].ref
             /\ attempt'[proc'[p].a].until >= now'
  <2>1. CASE proc'[p] = proc[p]
    BY <1>0, <1>4, <2>1, PostingKept
  <2>2. CASE Begins(p)
    <3>1. PICK a \in Attempts, method \in Methods, plan \in Plans, typed \in BOOLEAN :
             CheckoutBegin(p, a, method, plan, typed) /\ proc'[p].a = a
      BY <1>4, <2>2 DEF Begins, Elsewhere
    <3>2. p \in Workers
      BY <1>4, <2>2 DEF Begins, Elsewhere
    <3>3. now' = now
      BY <3>1 DEF CheckoutBegin
    <3> QED BY <3>1, <3>2, <3>3, CheckoutRow
  <2> QED BY <1>1, <1>4, <2>1, <2>2, Records DEF Moved, Continues, Rereads, Ends, Elsewhere
<1>5. proc'[p].pc \in CronOwn => proc'[p].op = "cron"
  <2>1. CASE Begins(p)
    BY <2>1 DEF Begins, CronOwn, Elsewhere
  <2>2. CASE Continues(p)
    BY <1>0, <2>2 DEF Continues, CronOwn, Elsewhere, CronReread, CronFind, At
  <2> QED BY <1>0, <1>1, <2>1, <2>2, Records DEF Moved, Rereads, Ends, CronOwn
<1>6. ASSUME proc'[p].op = "cron"
      PROVE  /\ p = Cron /\ proc'[p].a \in Attempts
             /\ attempt'[proc'[p].a].status # "NONE" /\ attempt'[proc'[p].a].until < now'
  <2>1. SUFFICES /\ p = Cron /\ proc'[p].a \in Attempts /\ attempt[proc'[p].a].status # "NONE"
                 /\ attempt[proc'[p].a].until < now
    <3>1. attempt[proc'[p].a].until \in Nat /\ now \in Nat /\ now' >= now
      BY <2>1, TimeMoves DEF Types, AttemptRow, Tick
    <3>2. attempt'[proc'[p].a].status # "NONE" /\ attempt'[proc'[p].a].until = attempt[proc'[p].a].until
      BY <2>1, RowKept
    <3>3. now' \in Nat
      BY <3>1, TimeMoves DEF Tick
    <3> QED BY <2>1, <3>1, <3>2, <3>3
  <2>2. CASE Begins(p)
    BY <1>6, <2>2 DEF Begins, CronBegin
  <2>3. CASE Continues(p) \/ Rereads(p)
    <3>1. proc[p].op = "cron"
      BY <1>6, <2>3 DEF Continues, Rereads
    <3>2. proc'[p].a = proc[p].a
      BY <2>3 DEF Continues, Rereads
    <3> QED BY <1>0, <3>1, <3>2
  <2> QED BY <1>0, <1>1, <1>6, <2>2, <2>3, Records DEF Moved, Ends
<1> QED BY <1>2, <1>3, <1>4, <1>5, <1>6

\* A checkout takes an attempt nobody has made yet.
LEMMA PostedOnceKept ==
    ASSUME Types, Placed, PostedOnce, Rows, [Next]_vars
    PROVE  PostedOnce'
<1>1. ASSUME NEW p \in Processes, proc'[p].pc = "post", proc'[p] # proc[p]
      PROVE  \E a \in Attempts, method \in Methods, plan \in Plans, typed \in BOOLEAN :
                CheckoutBegin(p, a, method, plan, typed) /\ proc'[p].a = a
  <2>1. Moved(p)
    BY <1>1, ProcMoves
  <2> QED BY <1>1, <2>1, Records DEF Moved, Begins, Continues, Rereads, Ends, Elsewhere
<1>2. ASSUME NEW p \in Processes, NEW q \in Processes, p # q,
             proc'[p].pc = "post", proc'[q].pc = "post", proc'[p].a = proc'[q].a,
             proc'[p] # proc[p]
      PROVE  FALSE
  <2>1. PICK a \in Attempts, method \in Methods, plan \in Plans, typed \in BOOLEAN :
           CheckoutBegin(p, a, method, plan, typed) /\ proc'[p].a = a
    BY <1>1, <1>2
  <2>2. proc'[q] = proc[q] /\ attempt[a].status = "NONE"
    BY <1>2, <2>1 DEF CheckoutBegin, Types
  <2>3. attempt[proc[q].a].status = "PENDING"
    BY <1>2, <2>2 DEF Placed
  <2> QED BY <1>2, <2>1, <2>2, <2>3
<1>3. ASSUME NEW p \in Processes, NEW q \in Processes, p # q,
             proc'[p].pc = "post", proc'[q].pc = "post", proc'[p].a = proc'[q].a
      PROVE  FALSE
  <2>1. proc'[p] = proc[p] /\ proc'[q] = proc[q]
    BY <1>2, <1>3
  <2> QED BY <1>3, <2>1 DEF PostedOnce
<1> QED BY <1>3 DEF PostedOnce

-----------------------------------------------------------------------------
(* What was paid, and what was credited *)

\* A synchronised attempt is one the provider was asked for.
LEMMA SyncingRow ==
    ASSUME Placed, NEW p \in Processes,
           \/ Write(p) \/ Enter(p) \/ Fetch(p) \/ FetchFailed(p) \/ After(p)
           \/ proc[p].pc \in {"fetch", "enter", "write", "after"}
    PROVE  proc[p].a \in Attempts /\ attempt[proc[p].a].ref
BY DEF Placed, Write, Enter, Fetch, FetchFailed, Unanswered, After, At, Syncing

\* A month is credited to the attempt of the transaction.
LEMMA MonthsOf ==
    ASSUME Types, Placed, [Next]_vars, NEW a \in Attempts
    PROVE  \/ months'[a] = months[a]
           \/ \E p \in Processes : /\ Write(p) /\ PixCredited(p) /\ proc[p].a = a
                                   /\ months'[a] = months[a] + 1 /\ attempt'[a].status = "APPROVED"
<1>1. ASSUME NEW p \in Processes, Write(p), PixCredited(p)
      PROVE  \/ months'[a] = months[a]
             \/ proc[p].a = a /\ months'[a] = months[a] + 1 /\ attempt'[a].status = "APPROVED"
  <2>1. proc[p].a \in Attempts
    BY <1>1, SyncingRow
  <2>2. months' = [months EXCEPT ![proc[p].a] = @ + 1]
    BY <1>1 DEF PixCredited
  <2>3. attempt' = [attempt EXCEPT ![proc[p].a].status = "APPROVED"]
    BY <1>1 DEF PixCredited, Approve
  <2>4. attempt'[proc[p].a].status = "APPROVED"
    BY <2>1, <2>3 DEF Types, AttemptRow
  <2> QED BY <2>1, <2>2, <2>4 DEF Types
<1> QED BY <1>1, MonthMoves

\* An object is posted for a row without reference, which gets it.
LEMMA PostedObject ==
    ASSUME Types, Placed, NEW b \in Attempts, ObjectPosted(b)
    PROVE  ~attempt[b].ref /\ attempt'[b].ref /\ attempt[b].status = "PENDING"
<1>1. PICK p \in Workers : CheckoutPosted(p) /\ proc[p].a = b
  BY DEF ObjectPosted
<1>2. attempt' = [attempt EXCEPT ![b].ref = TRUE]
  BY <1>1 DEF CheckoutPosted
<1>3. attempt'[b].ref
  BY <1>2 DEF Types, AttemptRow
<1>4. ~attempt[b].ref /\ attempt[b].status = "PENDING"
  BY <1>1 DEF CheckoutPosted, At, Placed, Processes
<1> QED BY <1>3, <1>4

\* What is known of a row is kept.
LEMMA RowsKept ==
    ASSUME Types, Placed, Rows, [Next]_vars
    PROVE  Rows'
<1> SUFFICES ASSUME NEW a \in Attempts
             PROVE  /\ attempt'[a].status = "NONE" => ~attempt'[a].ref
                    /\ ~attempt'[a].ref => provider'[a].status = "none" /\ months'[a] = 0
  BY DEF Rows
<1>0. /\ attempt[a].status = "NONE" => ~attempt[a].ref
      /\ ~attempt[a].ref => provider[a].status = "none" /\ months[a] = 0
  BY DEF Rows
<1>1. attempt'[a].status = "NONE" => ~attempt'[a].ref
  <2>1. CASE Posted(a)
    <3>1. attempt[a].status # "NONE"
      BY <2>1 DEF Posted, CheckoutPosted, At, Placed, Processes
    <3> QED BY <2>1, <3>1 DEF Posted
  <2> QED BY <1>0, <2>1, AttemptMoves DEF Made, Turned, ByWrite, ByFailure, ByExpiry
<1>2. ASSUME ~attempt'[a].ref PROVE provider'[a].status = "none" /\ months'[a] = 0
  <2>1. ~attempt[a].ref /\ provider[a].status = "none" /\ months[a] = 0
    BY <1>0, <1>2, RowKept
  <2>2. months'[a] = 0
    BY <2>1, MonthsOf, SyncingRow
  <2>3. provider'[a].status = "none"
    BY <1>2, <2>1, ObjectMoves, PostedObject
       DEF ObjectKept, ObjectPaid, PixPaid, ObjectRejected, ObjectMoved
  <2> QED BY <2>2, <2>3
<1> QED BY <1>1, <1>2

\* An object that was charged stays so, one that was paid is paid or rejected, and one that was
\* rejected, or cancelled, is that for good.
LEMMA ObjectLasts ==
    ASSUME Types, Placed, [Next]_vars, NEW b \in Attempts, attempt[b].ref
    PROVE  /\ provider[b].charged => provider'[b].charged
           /\ provider[b].status \in {"approved", "rejected"} => provider'[b].status \in {"approved", "rejected"}
           /\ provider[b].status = "rejected" => provider'[b].status = "rejected"
           /\ provider[b].status = "cancelled" => provider'[b].status = "cancelled"
<1>1. ~ObjectPosted(b)
  BY PostedObject
<1>2. provider[b].charged => provider'[b].charged
  <2>1. CASE ObjectPaid(b)
    BY <2>1, Zenon DEF ObjectPaid
  <2>2. CASE ObjectKept(b) \/ ObjectRejected(b) \/ ObjectMoved(b)
    BY <2>2, Zenon DEF ObjectKept, ObjectRejected, ObjectMoved
  <2> QED BY <1>1, <2>1, <2>2, ObjectMoves, Zenon
<1>3. CASE ObjectKept(b)
  BY <1>2, <1>3 DEF ObjectKept
<1>4. CASE ObjectPaid(b)
  <2>1. provider[b].status = "pending" /\ provider'[b].status = "approved"
    BY <1>4 DEF ObjectPaid, PixPaid
  <2> QED BY <1>2, <2>1
<1>5. CASE ObjectRejected(b)
  <2>1. provider[b].status \in {"pending", "approved"} /\ provider'[b].status = "rejected"
    BY <1>5 DEF ObjectRejected
  <2> QED BY <1>2, <2>1
<1>6. CASE ObjectMoved(b)
  <2>1. provider[b].status \in {"pending", "authorized", "paused"}
    BY <1>6 DEF ObjectMoved
  <2> QED BY <1>2, <2>1
<1> QED BY <1>1, <1>3, <1>4, <1>5, <1>6, ObjectMoves, Zenon

\* A picture is taken, or taken along, while the provider stands still.
LEMMA SyncStill ==
    ASSUME NEW p, Fetch(p) \/ Enter(p)
    PROVE  provider' = provider /\ attempt' = attempt /\ months' = months /\ sub' = sub /\ notices' = notices
           /\ blind' = blind /\ stale' = stale
BY DEF Fetch, Enter, local, remote

\* Who has a picture has had it, takes it, or takes the lock with it.
LEMMA PictureMoves ==
    ASSUME Types, Placed, [Next]_vars, NEW p \in Processes, proc'[p].pc \in {"enter", "write"}
    PROVE  \/ proc'[p] = proc[p]
           \/ /\ Fetch(p) /\ proc'[p].a = proc[p].a /\ proc'[p].op = proc[p].op /\ proc'[p].pc = "enter"
              /\ proc'[p].snap = provider[proc[p].a]
           \/ /\ Enter(p) /\ proc'[p].a = proc[p].a /\ proc'[p].op = proc[p].op /\ proc'[p].pc = "write"
              /\ proc'[p].snap = proc[p].snap /\ proc'[p].sub = sub
              /\ IsPix(proc[p].a) => attempt[proc[p].a].status = "PENDING"
BY ProcMoves, Records DEF Moved, Begins, Continues, Rereads, Ends, Elsewhere

\* What was paid was charged.
LEMMA PaidKept ==
    ASSUME Types, Placed, PostedOnce, Rows, Paid, [Next]_vars
    PROVE  Paid'
<1>1. ASSUME NEW a \in Attempts, provider'[a].status = "approved" PROVE provider'[a].charged
  <2>1. CASE ObjectKept(a)
    BY <1>1, <2>1 DEF ObjectKept, Paid
  <2>2. CASE ObjectPaid(a)
    BY <2>2, Zenon DEF ObjectPaid
  <2>3. CASE ObjectPosted(a) \/ ObjectRejected(a) \/ ObjectMoved(a)
    BY <1>1, <2>3 DEF ObjectPosted, ObjectRejected, ObjectMoved
  <2> QED BY <2>1, <2>2, <2>3, ObjectMoves, Zenon
<1>2. ASSUME NEW p \in Processes, proc'[p].pc \in {"enter", "write"},
             proc'[p].a \in Attempts, attempt'[proc'[p].a].method = "PIX"
      PROVE  /\ proc'[p].snap.status = "approved" =>
                  provider'[proc'[p].a].charged /\ provider'[proc'[p].a].status \in {"approved", "rejected"}
             /\ proc'[p].snap.status = "rejected" => provider'[proc'[p].a].status = "rejected"
  <2>1. CASE proc'[p] = proc[p]
    <3>1. proc[p].a \in Attempts /\ attempt[proc[p].a].ref
      BY <1>2, <2>1, SyncingRow
    <3>2. IsPix(proc[p].a)
      BY <1>2, <2>1, <3>1, RowKept DEF IsPix
    <3>3. /\ proc[p].snap.status = "approved" =>
                  provider[proc[p].a].charged /\ provider[proc[p].a].status \in {"approved", "rejected"}
          /\ proc[p].snap.status = "rejected" => provider[proc[p].a].status = "rejected"
      BY <1>2, <2>1, <3>2 DEF Paid
    <3> QED BY <2>1, <3>1, <3>3, ObjectLasts
  <2>2. CASE Fetch(p) /\ proc'[p].a = proc[p].a /\ proc'[p].snap = provider[proc[p].a]
    BY <1>2, <2>2, SyncStill DEF Paid
  <2>3. CASE Enter(p) /\ proc'[p].a = proc[p].a /\ proc'[p].snap = proc[p].snap
    <3>1. IsPix(proc[p].a) /\ proc[p].pc = "enter"
      BY <1>2, <2>3, SyncStill DEF IsPix, Enter, At
    <3> QED BY <2>3, <3>1, SyncStill DEF Paid
  <2> QED BY <1>2, <2>1, <2>2, <2>3, PictureMoves
<1> QED
  <2>1. \A p \in Processes : proc'[p].pc \in {"enter", "write"} => proc'[p].a \in Attempts
    BY PlacedKept DEF Placed, Syncing
  <2> QED BY <1>1, <1>2, <2>1 DEF Paid, IsPix

\* A month is credited once: the transaction that credits it has found the attempt pending.
LEMMA CreditKept ==
    ASSUME Types, Placed, PostedOnce, Rows, Paid, Credit, [Next]_vars
    PROVE  Credit'
<1>1. ASSUME NEW a \in Attempts
      PROVE  /\ months'[a] \in {0, 1}
             /\ months'[a] = 1 => provider'[a].charged /\ attempt'[a].status \notin {"NONE", "PENDING"}
  <2>0. /\ months[a] \in {0, 1}
        /\ months[a] = 1 => provider[a].charged /\ attempt[a].status \notin {"NONE", "PENDING"}
    BY DEF Credit
  <2>1. CASE months'[a] = months[a]
    <3>1. months[a] = 1 => attempt[a].ref
      BY DEF Rows
    <3>2. months[a] = 1 => provider'[a].charged
      BY <2>0, <3>1, ObjectLasts
    <3>3. months[a] = 1 => attempt'[a].status \notin {"NONE", "PENDING"}
      BY <2>0, RowKept
    <3> QED BY <2>0, <2>1, <3>2, <3>3
  <2>2. ASSUME NEW p \in Processes, Write(p), PixCredited(p), proc[p].a = a, months'[a] = months[a] + 1,
               attempt'[a].status = "APPROVED"
        PROVE  /\ months'[a] \in {0, 1}
               /\ months'[a] = 1 => provider'[a].charged /\ attempt'[a].status \notin {"NONE", "PENDING"}
    <3>1. proc[p].pc = "write" /\ IsPix(a) /\ proc[p].snap.status = "approved" /\ provider' = provider
      BY <2>2 DEF Write, At, PixCredited, remote
    <3>2. months[a] = 0
      BY <2>2, <3>1 DEF Credit
    <3>3. provider[a].charged
      BY <2>2, <3>1 DEF Paid
    <3> QED BY <2>2, <3>1, <3>2, <3>3
  <2> QED BY <2>1, <2>2, MonthsOf
<1>2. ASSUME NEW p \in Processes, proc'[p].pc = "write", proc'[p].a \in Attempts, attempt'[proc'[p].a].method = "PIX"
      PROVE  months'[proc'[p].a] = 0
  <2>1. CASE proc'[p] = proc[p]
    <3>1. proc[p].a \in Attempts /\ attempt[proc[p].a].ref
      BY <1>2, <2>1, SyncingRow
    <3>2. IsPix(proc[p].a)
      BY <1>2, <2>1, <3>1, RowKept DEF IsPix
    <3>3. months[proc[p].a] = 0
      BY <1>2, <2>1, <3>2 DEF Credit
    <3> QED BY <1>2, <2>1, <3>1, <3>3, MonthsOf, OnlyWriter
  <2>2. CASE /\ Enter(p) /\ proc'[p].a = proc[p].a
             /\ IsPix(proc[p].a) => attempt[proc[p].a].status = "PENDING"
    BY <1>2, <2>2, SyncStill DEF IsPix, Credit
  <2> QED BY <1>2, <2>1, <2>2, PictureMoves
<1>3. \A p \in Processes : proc'[p].pc = "write" => proc'[p].a \in Attempts
  BY PlacedKept DEF Placed, Syncing
<1> QED BY <1>1, <1>2, <1>3 DEF Credit, IsPix

-----------------------------------------------------------------------------
(* The subscription *)

\* The row of Subscription has a card's reference, or none.
LEMMA SubRowsKept ==
    ASSUME Types, Placed, Rows, SubRows, [Next]_vars
    PROVE  SubRows'
<1>0. /\ sub.status = "NONE" => sub = NoSub
      /\ sub.method = "CARD" => sub.ref \in Attempts /\ ~IsPix(sub.ref) /\ attempt[sub.ref].ref
  BY DEF SubRows
<1>1. NoSub.method # "CARD"
  BY DEF NoSub
<1>2. sub'.status = "NONE" => sub' = NoSub
  <2>1. CASE SubSame
    BY <1>0, <2>1 DEF SubSame
  <2>2. CASE SubGranted \/ SubCredited \/ SubOn
    BY <2>2 DEF SubGranted, SubCredited, SubOn
  <2> QED BY <2>1, <2>2, SubMoves
<1>3. ASSUME sub'.method = "CARD"
      PROVE  sub'.ref \in Attempts /\ attempt'[sub'.ref].method # "PIX" /\ attempt'[sub'.ref].ref
  <2>1. CASE SubSame \/ SubGranted
    <3>1. sub'.ref = sub.ref /\ sub.method = "CARD"
      BY <1>3, <2>1 DEF SubSame, SubGranted
    <3> QED BY <1>0, <3>1, RowKept DEF IsPix
  <2>2. CASE SubOn
    <3>1. PICK p \in Processes : Write(p) /\ CardOn(p) /\ sub'.ref = proc[p].a
      BY <2>2 DEF SubOn
    <3>2. proc[p].a \in Attempts /\ attempt[proc[p].a].ref /\ attempt[proc[p].a].method # "PIX"
      BY <3>1, SyncingRow DEF CardOn, IsPix
    <3> QED BY <3>1, <3>2, RowKept
  <2>3. CASE SubCredited
    BY <1>3, <2>3 DEF SubCredited
  <2> QED BY <1>1, <1>3, <2>1, <2>2, <2>3, SubMoves
<1> QED BY <1>2, <1>3 DEF SubRows, IsPix

\* Who has the lock has read the days that count.
LEMMA ReadingKept ==
    ASSUME Types, Placed, SubRows, Reading, [Next]_vars
    PROVE  Reading'
<1> SUFFICES ASSUME NEW p \in Processes, proc'[p].pc = "write"
             PROVE  /\ sub'.method = "PIX" /\ ~sub'.courtesy =>
                          /\ proc'[p].sub.status # "NONE" /\ ~proc'[p].sub.courtesy /\ proc'[p].sub.method = "PIX"
                          /\ proc'[p].sub.end = sub'.end
                    /\ sub'.ref \in {proc'[p].sub.ref, NoAttempt}
  BY DEF Reading, Keeps
<1>1. CASE proc'[p] = proc[p]
  <2>1. proc[p].pc = "write" /\ \A q \in Processes : ~Write(q)
    BY <1>1, OnlyWriter
  <2>2. /\ sub.method = "PIX" /\ ~sub.courtesy =>
               /\ proc[p].sub.status # "NONE" /\ ~proc[p].sub.courtesy /\ proc[p].sub.method = "PIX"
               /\ proc[p].sub.end = sub.end
        /\ sub.ref \in {proc[p].sub.ref, NoAttempt}
    BY <2>1 DEF Reading, Keeps
  <2>3. CASE SubSame
    <3>1. sub'.method = sub.method /\ sub'.ref = sub.ref /\ sub'.courtesy = sub.courtesy /\ sub'.end = sub.end
      BY <2>1, <2>3 DEF SubSame
    <3> QED BY <1>1, <2>2, <3>1
  <2>4. CASE SubGranted
    BY <1>1, <2>2, <2>4 DEF SubGranted
  <2>5. CASE sub' = NoSub
    BY <2>5 DEF NoSub
  <2>6. ~SubCredited /\ ~SubOn
    BY <2>1 DEF SubCredited, SubOn
  <2> QED BY <2>3, <2>4, <2>5, <2>6, SubMoves
<1>2. CASE Enter(p) /\ proc'[p].sub = sub
  <2>1. sub' = sub
    BY <1>2, SyncStill
  <2>2. sub.method = "PIX" => sub.status # "NONE"
    BY DEF SubRows, NoSub
  <2> QED BY <1>2, <2>1, <2>2
<1> QED BY <1>1, <1>2, PictureMoves

\* A credit counts from the end that the row has now.
LEMMA DaysKept ==
    ASSUME Types, Placed, Reading, [Next]_vars,
           months' # months, sub.method = "PIX", ~sub.courtesy
    PROVE  sub'.end >= sub.end + Month
<1>1. PICK p \in Processes : Write(p) /\ PixCredited(p)
  BY MonthMoves
<1>2. sub'.end = PixEnd(proc[p].sub)
  BY <1>1 DEF PixCredited
<1>3. Keeps(proc[p].sub) /\ proc[p].sub.end = sub.end
  BY <1>1 DEF Reading, Write, At
<1>4. proc[p].sub \in SubRow /\ now \in Nat
  BY DEF Types, Process
<1> QED BY <1>2, <1>3, <1>4, PixEndType

-----------------------------------------------------------------------------
(* Who is told *)

\* A notification is lost to no one: it waits until a request handles it.
LEMMA NoticeMoves ==
    ASSUME [Next]_vars, NEW a \in Attempts, a \in notices
    PROVE  a \in notices' \/ \E p \in Workers : Webhook(p, a)
<1>1. ASSUME NEW p, NEW b, Webhook(p, b) PROVE a \in notices' \/ a = b
  BY <1>1 DEF Webhook
<1>2. ASSUME NEW b, CancelObject(b) PROVE a \in notices'
  BY <1>2 DEF CancelObject, remote
<1>3. ASSUME NEW p, NEW b, NEW method, NEW plan, NEW typed,
             \/ CheckoutBegin(p, b, method, plan, typed) \/ Poll(p, b)
             \/ ChangeBegin(p, plan) \/ GrantBegin(p, plan)
      PROVE  a \in notices'
  BY <1>3 DEF remote, CheckoutBegin, Poll, ChangeBegin, GrantBegin
<1>4. ASSUME NEW p, \/ CancelBegin(p) \/ CheckoutPosted(p) \/ CheckoutFailed(p) \/ CancelFlag(p)
                    \/ ChangeReprice(p) \/ ChangeCommit(p) \/ GrantCommit(p)
      PROVE  a \in notices'
  BY <1>4 DEF remote, CancelBegin, CheckoutPosted, CheckoutFailed, CancelFlag, ChangeReprice,
              ChangeCommit, GrantCommit
<1>5. ASSUME NEW p, CancelCall(p) \/ After(p) PROVE a \in notices'
  BY <1>2, <1>5 DEF CancelCall, After, remote
<1>6. ASSUME NEW p, Fetch(p) \/ FetchFailed(p) \/ Enter(p) \/ Write(p) \/ Crash(p)
      PROVE  a \in notices'
  BY <1>6 DEF remote, Fetch, FetchFailed, Unanswered, Enter, Write, Crash
<1>7. ASSUME NEW b, \/ PixPaid(b) \/ PixRejected(b) \/ CardAuthorized(b) \/ CardCharged(b) \/ CardPaused(b)
                    \/ CardResumed(b) \/ CardCancelled(b) \/ CronBegin(b)
      PROVE  a \in notices'
  BY <1>7 DEF remote, PixPaid, PixRejected, CardAuthorized, CardCharged, CardPaused, CardResumed, CardCancelled,
              Becomes, Moves, CronBegin
<1>8. CronReread \/ CronFind \/ CronExpire \/ RemoveCourtesy \/ Tick \/ UNCHANGED vars => a \in notices'
  BY DEF remote, vars, CronReread, CronFind, CronExpire, RemoveCourtesy, Tick
<1> QED BY <1>1, <1>3, <1>4, <1>5, <1>6, <1>7, <1>8, BillingSteps, Zenon

\* A process that handles the notification of attempt a, and has not seen another status of it.
Hears(p, a, status) ==
    /\ proc[p].op = "webhook" /\ proc[p].a = a
    /\ \/ proc[p].pc = "fetch"
       \/ proc[p].pc \in {"enter", "write"} /\ proc[p].snap.status = status

\* Who is told stays told, until he applies what he saw or finds a Pix no longer pending.
LEMMA HeardKept ==
    ASSUME Types, Placed, [Next]_vars, NEW a \in Attempts, attempt[a].ref, NEW status,
           provider[a].status = status, Heard(a, status)
    PROVE  \/ Heard(a, status)'
           \/ \E p \in Processes : Write(p) /\ proc[p].a = a /\ proc[p].snap.status = status
           \/ IsPix(a) /\ attempt[a].status # "PENDING"
<1>1. CASE a \in notices
  <2>1. ASSUME NEW p \in Workers, Webhook(p, a) PROVE Hears(p, a, status)' /\ p \in Processes
    <3>1. proc' = [proc EXCEPT ![p] = Beginning("fetch", "webhook", a)]
      BY <2>1 DEF Webhook, Beginning
    <3>2. /\ Beginning("fetch", "webhook", a) \in Process /\ Beginning("fetch", "webhook", a).pc = "fetch"
          /\ Beginning("fetch", "webhook", a).op = "webhook" /\ Beginning("fetch", "webhook", a).a = a
      BY Beginnings DEF Syncing
    <3>3. p \in Processes
      BY DEF Processes
    <3>4. proc'[p] = Beginning("fetch", "webhook", a)
      BY <3>1, <3>2, <3>3, ProcReplaced
    <3> QED BY <3>2, <3>3, <3>4 DEF Hears
  <2> QED BY <1>1, <2>1, NoticeMoves DEF Heard, Hears
<1>2. ASSUME NEW p \in Processes, Hears(p, a, status)
      PROVE  \/ a \in notices' \/ Hears(p, a, status)'
             \/ Write(p) /\ proc[p].a = a /\ proc[p].snap.status = status
             \/ IsPix(a) /\ attempt[a].status # "PENDING"
  <2>0. proc[p].op = "webhook" /\ proc[p].a = a /\ proc[p].pc \in {"fetch", "enter", "write"}
    BY <1>2 DEF Hears
  <2>1. CASE proc'[p] = proc[p]
    BY <1>2, <2>1 DEF Hears
  <2>2. CASE Continues(p)
    <3>1. CASE Fetch(p) /\ proc'[p].pc = "enter" /\ proc'[p].snap = provider[proc[p].a]
      BY <2>0, <2>2, <3>1 DEF Continues, Hears
    <3>2. CASE Enter(p) /\ proc'[p].pc = "write" /\ proc'[p].snap = proc[p].snap
      BY <1>2, <2>0, <2>2, <3>2 DEF Continues, Hears, Enter, At
    <3>3. CASE Write(p)
      BY <1>2, <2>0, <3>3 DEF Write, At, Hears
    <3> QED BY <2>0, <2>2, <3>1, <3>2, <3>3 DEF Continues, Elsewhere, CronReread, CronFind, At
  <2>3. CASE Begins(p) \/ Rereads(p)
    BY <2>0, <2>3 DEF Begins, Rereads
  <2>4. CASE Ends(p)
    <3>1. CASE FetchFailed(p) \/ Crash(p)
      BY <2>0, <3>1 DEF FetchFailed, Unanswered, Crash
    <3>2. CASE Write(p)
      BY <1>2, <2>0, <3>2 DEF Write, At, Hears
    <3>3. ~After(p) /\ ~CheckoutPosted(p) /\ ~CheckoutFailed(p) /\ proc[p].pc \notin Elsewhere
          /\ ~(p = Cron /\ (CronReread \/ CronExpire))
      BY <2>0 DEF After, CheckoutPosted, CheckoutFailed, At, Elsewhere, CronReread, CronExpire
    <3> QED BY <2>0, <2>4, <3>1, <3>2, <3>3 DEF Ends, Synced
  <2> QED BY <2>1, <2>2, <2>3, <2>4, ProcMoves DEF Moved
<1> QED BY <1>1, <1>2 DEF Heard, Hears

-----------------------------------------------------------------------------
(* A paid Pix is awaited *)

\* What the hourly job was blind to it stays blind to, and it notes what it cannot read.
LEMMA BlindMoves ==
    ASSUME [Next]_vars
    PROVE  blind \subseteq blind'
<1>1. ASSUME NEW p, NEW a, NEW method, NEW plan, NEW typed,
             \/ CheckoutBegin(p, a, method, plan, typed) \/ Webhook(p, a) \/ Poll(p, a)
             \/ ChangeBegin(p, plan) \/ GrantBegin(p, plan)
      PROVE  blind' = blind
  BY <1>1 DEF CheckoutBegin, Webhook, Poll, ChangeBegin, GrantBegin
<1>2. ASSUME NEW p, \/ CancelBegin(p) \/ CheckoutPosted(p) \/ CheckoutFailed(p) \/ CancelCall(p) \/ CancelFlag(p)
                    \/ ChangeReprice(p) \/ ChangeCommit(p) \/ GrantCommit(p)
      PROVE  blind' = blind
  BY <1>2 DEF CancelBegin, CheckoutPosted, CheckoutFailed, CancelCall, CancelFlag, ChangeReprice,
              ChangeCommit, GrantCommit
<1>3. ASSUME NEW p, Fetch(p) \/ FetchFailed(p) \/ Enter(p) \/ Write(p) \/ After(p) \/ Crash(p)
      PROVE  blind \subseteq blind'
  BY <1>3 DEF Fetch, FetchFailed, Unanswered, Enter, Write, After, Crash
<1>4. ASSUME NEW a, \/ PixPaid(a) \/ PixRejected(a) \/ CardAuthorized(a) \/ CardCharged(a) \/ CardPaused(a)
                    \/ CardResumed(a) \/ CardCancelled(a) \/ CronBegin(a)
      PROVE  blind' = blind
  BY <1>4 DEF PixPaid, PixRejected, CardAuthorized, CardCharged, CardPaused, CardResumed, CardCancelled,
              Becomes, Moves, CronBegin
<1>5. CronReread \/ CronFind \/ CronExpire \/ RemoveCourtesy \/ Tick \/ UNCHANGED vars => blind' = blind
  BY DEF vars, CronReread, CronFind, CronExpire, RemoveCourtesy, Tick
<1>6. blind' = blind => blind \subseteq blind'
  OBVIOUS
<1> QED BY <1>1, <1>2, <1>3, <1>4, <1>5, <1>6, BillingSteps, Zenon

\* A transaction that saw a Pix approved credits it.
LEMMA SeenCredited ==
    ASSUME Types, Placed, NEW p \in Processes, Write(p), IsPix(proc[p].a), proc[p].snap.status = "approved"
    PROVE  months'[proc[p].a] = months[proc[p].a] + 1
<1>1. PixCredited(p)
  BY WriteForms DEF PixFails, PixStays, CardOn, CardWaits, CardOff, CardFails, CardStays
<1>2. proc[p].a \in Attempts
  BY SyncingRow
<1> QED BY <1>1, <1>2 DEF PixCredited, Types

\* What ends a Pix that is pending is a payment of it, a rejection, or its time.
LEMMA PixTurns ==
    ASSUME Types, Placed, Rows, Paid, [Next]_vars, NEW a \in Attempts, IsPix(a), attempt[a].ref,
           attempt[a].status = "PENDING", attempt'[a].status # "PENDING"
    PROVE  \/ /\ months'[a] = months[a] + 1 /\ provider[a].status \in {"approved", "rejected"}
           \/ provider[a].status = "rejected"
           \/ CronExpire /\ proc[Cron].a = a
<1>1. Turned(a)
  BY AttemptMoves DEF Made, Posted
<1>2. ~ByFailure(a)
  BY DEF ByFailure, CheckoutFailed, At, Placed, Processes
<1>3. ASSUME NEW p \in Processes, Write(p), proc[p].a = a, PixCredited(p) \/ CardOn(p) \/ PixFails(p) \/ CardFails(p)
      PROVE  \/ months'[a] = months[a] + 1 /\ provider[a].status \in {"approved", "rejected"}
             \/ provider[a].status = "rejected"
  <2>1. proc[p].pc = "write"
    BY <1>3 DEF Write, At
  <2>2. CASE PixCredited(p)
    BY <1>3, <2>1, <2>2, SeenCredited DEF PixCredited, Paid
  <2>3. CASE PixFails(p)
    BY <1>3, <2>1, <2>3 DEF PixFails, Paid
  <2> QED BY <1>3, <2>2, <2>3 DEF CardOn, CardFails
<1> QED BY <1>1, <1>2, <1>3 DEF Turned, ByWrite, ByExpiry

\* A Pix whose time runs is pending, and one that was paid is awaited.
LEMMA AwaitedKept ==
    ASSUME Types, Placed, Rows, Paid, Credit, Awaited, CronSees, [Next]_vars
    PROVE  Awaited'
<1> SUFFICES ASSUME NEW a \in Attempts, attempt'[a].method = "PIX", attempt'[a].ref
             PROVE  /\ provider'[a].status = "pending" /\ now' <= attempt'[a].until => attempt'[a].status = "PENDING"
                    /\ provider'[a].status = "approved" /\ months'[a] = 0 /\ a \notin blind'
                          => attempt'[a].status = "PENDING" /\ Heard(a, "approved")'
  BY DEF Awaited, IsPix
<1>1. CASE ~attempt[a].ref
  <2>1. Posted(a)
    BY <1>1, AttemptMoves DEF Made, Turned
  <2>2. PICK p \in Workers : CheckoutPosted(p) /\ proc[p].a = a
    BY <2>1 DEF Posted
  <2>3. attempt'[a].status = "PENDING"
    BY <2>1, <2>2 DEF Posted, CheckoutPosted, At, Placed, Processes
  <2>4. provider'[a].status # "approved"
    <3>1. provider[a].status = "none"
      BY <1>1 DEF Rows
    <3> QED BY <1>1, <3>1, ObjectMoves DEF ObjectKept, ObjectPosted, ObjectPaid, PixPaid, ObjectRejected, ObjectMoved
  <2> QED BY <2>3, <2>4
<1>2. CASE attempt[a].ref
  <2>0. /\ IsPix(a) /\ attempt'[a].until = attempt[a].until /\ ~ObjectPosted(a) /\ attempt[a].status # "NONE"
    BY <1>2, RowKept, PostedObject DEF IsPix, Rows
  <2>1. /\ now \in Nat /\ now' \in Nat /\ now <= now' /\ attempt[a].until \in Nat /\ months[a] \in Nat
    BY TimeMoves DEF Types, AttemptRow, Tick
  <2>2. /\ provider[a].status = "pending" /\ now <= attempt[a].until => attempt[a].status = "PENDING"
        /\ provider[a].status = "approved" /\ months[a] = 0 /\ a \notin blind
              => attempt[a].status = "PENDING" /\ Heard(a, "approved")
    BY <1>2, <2>0 DEF Awaited
  <2>3. ASSUME provider'[a].status = "pending", now' <= attempt'[a].until PROVE attempt'[a].status = "PENDING"
    <3>1. provider[a].status = "pending"
      BY <2>0, <2>3, ObjectMoves DEF ObjectKept, ObjectPaid, ObjectRejected, ObjectMoved
    <3>2. attempt[a].status = "PENDING"
      BY <2>0, <2>1, <2>2, <2>3, <3>1
    <3>3. ~(CronExpire /\ proc[Cron].a = a)
      <4>1. CronExpire /\ proc[Cron].a = a => attempt[a].until < now
        BY Numbers DEF CronExpire, At, Placed, CronOwn
      <4> QED BY <2>0, <2>1, <2>3, <4>1
    <3> QED BY <1>2, <2>0, <3>1, <3>2, <3>3, PixTurns
  <2>4. ASSUME provider'[a].status = "approved", months'[a] = 0, a \notin blind'
        PROVE  attempt'[a].status = "PENDING" /\ Heard(a, "approved")'
    <3>1. CASE ObjectPaid(a)
      <4>1. /\ provider[a].status = "pending" /\ now <= attempt[a].until /\ attempt' = attempt /\ a \in notices'
        BY <3>1 DEF ObjectPaid, PixPaid, Moves, local
      <4> QED BY <2>2, <4>1 DEF Heard
    <3>2. CASE ObjectKept(a)
      <4>1. provider[a].status = "approved" /\ a \notin blind
        BY <2>4, <3>2, BlindMoves DEF ObjectKept
      <4>2. months[a] = 0
        BY <2>1, <2>4, MonthsOf
      <4>3. attempt[a].status = "PENDING" /\ Heard(a, "approved")
        BY <2>2, <4>1, <4>2
      <4>4. ~(CronExpire /\ proc[Cron].a = a)
        <5>1. CronExpire /\ proc[Cron].a = a => proc[Cron].pc = "expire" /\ proc[Cron].op = "cron"
          BY Numbers DEF CronExpire, At, Placed, CronOwn
        <5> QED BY <2>0, <4>1, <4>2, <5>1 DEF CronSees, CronOwn
      <4>5. attempt'[a].status = "PENDING"
        BY <1>2, <2>0, <2>4, <4>1, <4>2, <4>3, <4>4, PixTurns
      <4>6. ASSUME NEW p \in Processes, Write(p), proc[p].a = a, proc[p].snap.status = "approved" PROVE FALSE
        BY <2>0, <2>4, <4>2, <4>6, SeenCredited
      <4> QED BY <1>2, <4>1, <4>3, <4>5, <4>6, HeardKept
    <3> QED BY <2>0, <2>4, <3>1, <3>2, ObjectMoves DEF ObjectRejected, ObjectMoved
  <2> QED BY <2>3, <2>4
<1> QED BY <1>1, <1>2

\* The hourly job has seen of a paid Pix that it was paid, and has credited it.
LEMMA CronSeesKept ==
    ASSUME Types, Placed, Rows, Paid, Credit, Awaited, CronSees, [Next]_vars
    PROVE  CronSees'
<1> SUFFICES ASSUME NEW a, a = proc'[Cron].a, proc'[Cron].op = "cron", attempt'[a].method = "PIX",
                    provider'[a].status = "approved", a \notin blind'
             PROVE  /\ proc'[Cron].pc \in {"enter", "write"} => proc'[Cron].snap.status = "approved"
                    /\ proc'[Cron].pc \in {"after"} \cup CronOwn => months'[a] = 1
  BY DEF CronSees, IsPix
<1>0. Cron \in Processes
  BY Numbers
<1>1. CASE Begins(Cron)
  <2>1. CronBegin(a) /\ a \in Attempts /\ proc'[Cron].pc \in {"fetch", "reread"}
        /\ (proc'[Cron].pc = "reread" => ~attempt[a].ref)
    BY <1>1, Numbers DEF Begins
  <2>2. provider' = provider
    BY <2>1 DEF CronBegin, remote
  <2>3. proc'[Cron].pc = "fetch"
    BY <2>1, <2>2 DEF Rows
  <2> QED BY <2>3 DEF CronOwn
<1>2. CASE proc'[Cron] = proc[Cron] \/ Continues(Cron) \/ Rereads(Cron)
  <2>0. proc[Cron].op = "cron" /\ proc[Cron].a = a
    BY <1>2 DEF Continues, Rereads
  <2>1. /\ a \in Attempts /\ attempt[a].status # "NONE" /\ attempt[a].until < now
        /\ attempt[a].until \in Nat /\ now \in Nat /\ months[a] \in {0, 1}
    BY <1>0, <2>0 DEF Placed, Types, AttemptRow, Credit
  <2>2. IsPix(a)
    BY <2>1, RowKept DEF IsPix
  <2>3. provider[a].status = "approved" /\ a \notin blind
    <3>1. ~ObjectPaid(a)
      BY <2>1 DEF ObjectPaid, PixPaid
    <3>2. a \notin blind
      BY BlindMoves
    <3> QED BY <2>1, <3>1, <3>2, ObjectMoves DEF ObjectKept, ObjectPosted, ObjectRejected, ObjectMoved
  <2>4. /\ proc[Cron].pc \in {"enter", "write"} => proc[Cron].snap.status = "approved"
        /\ proc[Cron].pc \in {"after"} \cup CronOwn => months[a] = 1
    BY <2>0, <2>2, <2>3 DEF CronSees
  <2>5. months[a] = 1 => months'[a] = 1
    <3>1. ASSUME NEW p \in Processes, Write(p), PixCredited(p), proc[p].a = a PROVE months[a] = 0
      BY <3>1 DEF Credit, Write, At, PixCredited
    <3> QED BY <2>1, <3>1, MonthsOf
  <2>6. Write(Cron) => months'[a] = 1
    <3>1. ASSUME Write(Cron) PROVE months'[a] = 1
      <4>1. proc[Cron].pc = "write" /\ proc[Cron].snap.status = "approved"
        BY <2>4, <3>1 DEF Write, At
      <4>2. months[a] = 0
        BY <1>0, <2>0, <2>2, <4>1 DEF Credit
      <4> QED BY <1>0, <2>0, <2>2, <3>1, <4>1, <4>2, SeenCredited
    <3> QED BY <3>1
  <2>7. CASE proc'[Cron] = proc[Cron]
    BY <2>4, <2>5, <2>7
  <2>8. CASE Continues(Cron)
    <3>1. CASE Fetch(Cron) /\ proc'[Cron].pc = "enter" /\ proc'[Cron].snap = provider[proc[Cron].a]
      BY <2>0, <2>3, <3>1 DEF CronOwn
    <3>2. CASE Enter(Cron) /\ proc'[Cron].pc = "write" /\ proc'[Cron].snap = proc[Cron].snap
      BY <2>4, <3>2 DEF Enter, At, CronOwn
    <3>3. CASE CronReread \/ CronFind
      BY <2>4, <2>5, <2>8, <3>3 DEF CronReread, CronFind, At, CronOwn, Continues, Elsewhere, Fetch, Enter
    <3>4. CASE proc'[Cron].pc \in Elsewhere
      BY <3>4 DEF Elsewhere, CronOwn
    <3> QED BY <2>6, <2>8, <3>1, <3>2, <3>3, <3>4 DEF Continues
  <2>9. CASE Rereads(Cron)
    <3>1. proc'[Cron].pc = "reread" /\ Synced(Cron)
      BY <2>9 DEF Rereads
    <3>2. ~FetchFailed(Cron)
      BY <2>0 DEF FetchFailed, Unanswered
    <3>3. CASE After(Cron)
      BY <2>4, <2>5, <3>1, <3>3 DEF After, At
    <3>4. CASE Enter(Cron) /\ attempt[a].status # "PENDING"
      <4>1. attempt[a].ref
        BY <1>0, <2>0, <3>4, SyncingRow
      <4>2. months[a] = 1
        BY <2>1, <2>2, <2>3, <3>4, <4>1 DEF Awaited
      <4> QED BY <2>5, <3>1, <4>2
    <3> QED BY <2>0, <2>6, <3>1, <3>2, <3>3, <3>4 DEF Synced
  <2> QED BY <1>2, <2>7, <2>8, <2>9
<1> QED BY <1>0, <1>1, <1>2, ProcMoves, Records DEF Moved, Ends

-----------------------------------------------------------------------------
(* A cancelled recurrence that goes on *)

\* Whence a subscription runs on: its cancellation is announced just now, was so before and none
\* applied a picture of it, or an old picture of it is applied.
LEMMA RunsOnFrom ==
    ASSUME Types, Placed, Rows, SubRows, Reading, [Next]_vars, RunsOn',
           NEW r, r = sub'.ref
    PROVE  /\ r \in Attempts
           /\ \/ r \in notices'
              \/ /\ RunsOn /\ sub.ref = r /\ \A p \in Processes : Write(p) => proc[p].a # r
                 /\ Heard(r, "cancelled") => Heard(r, "cancelled")'
              \/ /\ provider' = provider /\ notices' = notices
                 /\ provider[r].status = "cancelled" /\ r \in stale'
                 /\ \E p \in Processes : /\ proc[p].pc = "write" /\ proc[p].a = r /\ ~IsPix(r)
                                         /\ proc[p].snap.status # "cancelled"
<1>0. sub'.method = "CARD" /\ ~sub'.courtesy /\ ~sub'.cancel /\ provider'[r].status = "cancelled"
  BY DEF RunsOn
<1>1. r \in Attempts
  BY <1>0, SubRowsKept DEF SubRows
<1>2. ASSUME NEW p \in Processes, Write(p), proc[p].a = r, ~IsPix(r), proc[p].snap.status # "cancelled"
      PROVE  /\ provider' = provider /\ notices' = notices
             /\ provider[r].status = "cancelled" /\ r \in stale'
             /\ \E q \in Processes : /\ proc[q].pc = "write" /\ proc[q].a = r /\ ~IsPix(r)
                                     /\ proc[q].snap.status # "cancelled"
  <2>1. provider' = provider /\ notices' = notices /\ proc[p].pc = "write"
    BY <1>2 DEF Write, At, remote
  <2>2. r \in stale'
    BY <1>0, <1>2, <2>1 DEF Write
  <2> QED BY <1>0, <1>2, <2>1, <2>2
<1>3. CASE SubOn
  <2>1. PICK p \in Processes : Write(p) /\ CardOn(p) /\ sub'.ref = proc[p].a
    BY <1>3 DEF SubOn
  <2> QED BY <1>1, <1>2, <2>1 DEF CardOn
<1>4. CASE SubSame
  <2>0. /\ sub.method = "CARD" /\ ~sub.courtesy /\ ~sub.cancel /\ sub.ref = r
        /\ ~IsPix(r) /\ attempt[r].ref /\ sub.status # "NONE"
    BY <1>0, <1>4 DEF SubSame, SubRows, NoSub
  <2>1. CASE ObjectMoved(r)
    BY <1>1, <2>1 DEF ObjectMoved
  <2>2. CASE ObjectKept(r)
    <3>1. RunsOn
      BY <1>0, <2>0, <2>2 DEF ObjectKept, RunsOn
    <3>2. CASE \A p \in Processes : Write(p) => proc[p].a # r
      <4>1. provider[r].status = "cancelled"
        BY <2>0, <3>1 DEF RunsOn
      <4>2. Heard(r, "cancelled") => Heard(r, "cancelled")'
        BY <1>1, <2>0, <3>2, <4>1, HeardKept
      <4> QED BY <1>1, <2>0, <3>1, <3>2, <4>2
    <3>3. ASSUME NEW p \in Processes, Write(p), proc[p].a = r, proc[p].snap.status = "cancelled" PROVE FALSE
      <4>1. Owns(p)
        BY <1>1, <2>0, <3>3, Numbers DEF Owns, Reading, Write, At
      <4>2. CardOff(p)
        BY <2>0, <3>3, <4>1, WriteForms
           DEF PixCredited, PixFails, PixStays, CardOn, CardWaits, CardFails, CardStays
      <4>3. sub' = [sub EXCEPT !.cancel = TRUE]
        BY <2>0, <4>2 DEF CardOff, Update
      <4> QED BY <1>0, <4>3 DEF Types, SubRow
    <3> QED BY <1>1, <1>2, <2>0, <3>2, <3>3
  <2>3. ~ObjectPosted(r) /\ ~ObjectPaid(r) /\ ~ObjectRejected(r)
    BY <1>0, <1>1, <2>0, PostedObject DEF ObjectPaid, ObjectRejected
  <2> QED BY <1>1, <2>1, <2>2, <2>3, ObjectMoves
<1>5. ~SubGranted /\ ~SubCredited /\ sub' # NoSub
  BY <1>0 DEF SubGranted, SubCredited, NoSub
<1> QED BY <1>3, <1>4, <1>5, SubMoves

\* Only a transaction changes which pictures were old.
LEMMA StaleMoves ==
    ASSUME [Next]_vars, NEW r, \A p \in Processes : Write(p) => proc[p].a # r
    PROVE  r \in stale <=> r \in stale'
<1>1. ASSUME NEW p, NEW a, NEW method, NEW plan, NEW typed,
             \/ CheckoutBegin(p, a, method, plan, typed) \/ Webhook(p, a) \/ Poll(p, a)
             \/ ChangeBegin(p, plan) \/ GrantBegin(p, plan)
      PROVE  stale' = stale
  BY <1>1 DEF local, CheckoutBegin, Webhook, Poll, ChangeBegin, GrantBegin
<1>2. ASSUME NEW p, \/ CancelBegin(p) \/ CheckoutPosted(p) \/ CheckoutFailed(p) \/ CancelCall(p) \/ CancelFlag(p)
                    \/ ChangeReprice(p) \/ ChangeCommit(p) \/ GrantCommit(p)
      PROVE  stale' = stale
  BY <1>2 DEF local, CancelBegin, CheckoutPosted, CheckoutFailed, CancelCall, CancelFlag, ChangeReprice,
              ChangeCommit, GrantCommit
<1>3. ASSUME NEW p, Fetch(p) \/ FetchFailed(p) \/ Enter(p) \/ After(p) \/ Crash(p)
      PROVE  stale' = stale
  BY <1>3 DEF local, Fetch, FetchFailed, Unanswered, Enter, After, Crash
<1>4. ASSUME NEW p \in Processes, Write(p) PROVE r \in stale <=> r \in stale'
  BY <1>4 DEF Write
<1>5. ASSUME NEW a, \/ PixPaid(a) \/ PixRejected(a) \/ CardAuthorized(a) \/ CardCharged(a) \/ CardPaused(a)
                    \/ CardResumed(a) \/ CardCancelled(a) \/ CronBegin(a)
      PROVE  stale' = stale
  BY <1>5 DEF local, PixPaid, PixRejected, CardAuthorized, CardCharged, CardPaused, CardResumed, CardCancelled,
              Becomes, Moves, CronBegin
<1>6. CronReread \/ CronFind \/ CronExpire \/ RemoveCourtesy \/ Tick \/ UNCHANGED vars => stale' = stale
  BY DEF local, vars, CronReread, CronFind, CronExpire, RemoveCourtesy, Tick
<1>7. stale' = stale => (r \in stale <=> r \in stale')
  OBVIOUS
<1> QED BY <1>1, <1>2, <1>3, <1>4, <1>5, <1>6, <1>7, BillingSteps, Zenon

\* A subscription that runs on will be told, unless its last picture was old.
LEMMA ToldKept ==
    ASSUME Types, Placed, Rows, SubRows, Reading, Told, [Next]_vars
    PROVE  Told'
<1> SUFFICES ASSUME RunsOn', sub'.ref \notin stale'
             PROVE  Heard(sub.ref, "cancelled")'
  BY DEF Told
<1>1. PICK r : r = sub'.ref
  OBVIOUS
<1>2. CASE r \in notices'
  BY <1>1, <1>2 DEF Heard
<1>3. CASE /\ RunsOn /\ sub.ref = r /\ \A p \in Processes : Write(p) => proc[p].a # r
           /\ Heard(r, "cancelled") => Heard(r, "cancelled")'
  <2>1. r \notin stale
    BY <1>1, <1>3, StaleMoves
  <2>2. Heard(r, "cancelled")
    BY <1>3, <2>1 DEF Told
  <2> QED BY <1>1, <1>3, <2>2 DEF Heard
<1> QED BY <1>1, <1>2, <1>3, RunsOnFrom

-----------------------------------------------------------------------------
(* The theorems *)

\* Where everything begins.
LEMMA BillingInitial == Init => BillingInv
<1> SUFFICES ASSUME Init PROVE BillingInv
  OBVIOUS
<1>0. /\ sub = NoSub /\ attempt = [a \in Attempts |-> NoRow] /\ provider = [a \in Attempts |-> NoObject]
      /\ proc = [p \in Processes |-> IdleProc] /\ now = 1 /\ months = [a \in Attempts |-> 0]
      /\ notices = {}
  BY DEF Init
<1>1. PICK r \in {0, 1} : coupon = [row |-> r, applied |-> FALSE, count |-> r, last |-> r]
  BY DEF Init
<1>2. Types
  <2>1. coupon \in CouponRow
    BY <1>1 DEF CouponRow
  <2> QED BY <1>0, <2>1, Records DEF Types
<1>3. \A p \in Processes : proc[p].pc = "idle" /\ proc[p].op = "none"
  BY <1>0, Records
<1>4. \A a \in Attempts : attempt[a].status = "NONE" /\ ~attempt[a].ref /\ provider[a].status = "none" /\ months[a] = 0
  BY <1>0 DEF NoRow, NoObject
<1>5. Placed /\ PostedOnce
  BY <1>3 DEF Placed, PostedOnce, Syncing, CronOwn
<1>6. CreditInv
  BY <1>3, <1>4 DEF CreditInv, Rows, Paid, Credit
<1>7. CouponInv
  BY <1>1, <1>3, Numbers DEF CouponInv, CouponCountExact, Found
<1>8. DaysInv
  BY <1>0, <1>3 DEF DaysInv, SubRows, Reading, NoSub
<1>9. Awaited /\ CronSees
  BY <1>3, <1>4, Numbers DEF Awaited, CronSees
<1>10. Told
  BY <1>0 DEF Told, RunsOn, NoSub
<1> QED BY <1>2, <1>5, <1>6, <1>7, <1>8, <1>9, <1>10 DEF BillingInv

\* Every step keeps the invariant.
LEMMA BillingKept == BillingInv /\ [Next]_vars => BillingInv'
<1> SUFFICES ASSUME BillingInv, [Next]_vars PROVE BillingInv'
  OBVIOUS
<1>0. /\ Types /\ Placed /\ PostedOnce /\ Rows /\ Paid /\ Credit /\ CouponInv /\ Found
      /\ SubRows /\ Reading /\ Awaited /\ CronSees /\ Told
  BY DEF BillingInv, CreditInv, CouponInv, DaysInv
<1>1. Types'
  BY <1>0, TypesKept
<1>2. Placed' /\ PostedOnce'
  BY <1>0, PlacedKept, PostedOnceKept
<1>3. CreditInv'
  BY <1>0, RowsKept, PaidKept, CreditKept DEF CreditInv
<1>4. CouponInv'
  BY <1>0, CouponKept
<1>5. DaysInv'
  BY <1>0, SubRowsKept, ReadingKept DEF DaysInv
<1>6. Awaited' /\ CronSees' /\ Told'
  BY <1>0, AwaitedKept, CronSeesKept, ToldKept
<1> QED BY <1>1, <1>2, <1>3, <1>4, <1>5, <1>6 DEF BillingInv

\* The invariant holds throughout.
LEMMA BillingInvAlways == Spec => []BillingInv
BY BillingInitial, BillingKept, PTL DEF Spec

\* CreditedOnce, for every number of attempts, notifications, polls and requests: a Pix is credited
\* at most once, and only if it was paid (applyPixPayment).
THEOREM CreditsAreOfPayments == Spec => []CreditedOnce
<1>1. BillingInv => CreditedOnce
  BY DEF BillingInv, CreditInv, Credit, CreditedOnce
<1> QED BY <1>1, BillingInvAlways, PTL

\* PixKeepsDays, however many payments are applied at the same time: the month that a Pix adds is
\* counted from the end the subscription has when it is credited (nextPeriodStart).
THEOREM CreditsAddWholeMonths == Spec => PixKeepsDays
<1>1. BillingInv /\ [Next]_vars =>
          [months' # months /\ sub.method = "PIX" /\ ~sub.courtesy => sub'.end >= sub.end + Month]_vars
  BY DaysKept DEF BillingInv, DaysInv
<1> QED BY <1>1, BillingInvAlways, PTL DEF Spec, PixKeepsDays

\* CouponCountExact, whoever ends an attempt and whenever: the number of uses of the coupon is that
\* of its redemptions (releaseCoupon).
THEOREM CouponUsesAreCounted == Spec => []CouponCountExact
<1>1. BillingInv => CouponCountExact
  BY DEF BillingInv, CouponInv
<1> QED BY <1>1, BillingInvAlways, PTL

\* LostOnlyIfBlind: once all is quiet a paid Pix has been credited, or the hourly job expired its
\* attempt without an answer of the provider (expireStaleAttempts, handleNotification).
THEOREM PaymentsAreNotLost == Spec => []LostOnlyIfBlind
<1>1. BillingInv => LostOnlyIfBlind
  <2> SUFFICES ASSUME BillingInv, Quiet, NEW a \in Attempts, provider[a].status = "approved", IsPix(a),
                      a \notin blind
               PROVE  months[a] = 1
    BY DEF LostOnlyIfBlind, Credited
  <2>1. ~Heard(a, "approved")
    BY DEF Quiet, Heard, At
  <2>2. attempt[a].ref /\ months[a] \in {0, 1}
    BY DEF BillingInv, CreditInv, Rows, Credit
  <2> QED BY <2>1, <2>2 DEF BillingInv, Awaited
<1> QED BY <1>1, BillingInvAlways, PTL

\* RunsOnOnlyIfStale: once all is quiet a subscription whose recurrence is cancelled ends with its
\* period, unless the last picture of it applied was old by then (applyPreapproval).
THEOREM RunningOnIsOfOldPictures == Spec => []RunsOnOnlyIfStale
<1>1. BillingInv => RunsOnOnlyIfStale
  <2> SUFFICES ASSUME BillingInv, Quiet, RunsOn, sub.ref \notin stale
               PROVE  FALSE
    BY DEF RunsOnOnlyIfStale, EndsWithPeriod, RunsOn
  <2>1. ~Heard(sub.ref, "cancelled")
    BY DEF Quiet, Heard, At
  <2> QED BY <2>1 DEF BillingInv, Told
<1> QED BY <1>1, BillingInvAlways, PTL

-----------------------------------------------------------------------------
(* One request at a time, and no hourly job *)

\* Nothing but one process is ever in progress.
Alone(w) == \A p \in Processes : proc[p].pc # "idle" => p = w

\* With one worker and no expiry, no other process begins.
LEMMA AloneKept ==
    ASSUME NEW w, Workers = {w}, "expire" \notin Operations,
           Types, Placed, Alone(w), [Next]_vars
    PROVE  Alone(w)'
<1> SUFFICES ASSUME NEW p \in Processes, p # w, proc'[p].pc # "idle" PROVE FALSE
  BY DEF Alone
<1>1. proc[p].pc = "idle" /\ p = Cron /\ p \notin Workers
  BY DEF Alone, Processes
<1>2. ~Begins(p)
  BY <1>1 DEF Begins, CronBegin
<1>3. ~Synced(p) /\ ~Continues(p)
  BY <1>1 DEF Continues, Elsewhere, Synced, Fetch, FetchFailed, Unanswered, Enter, Write, After, CronReread, CronFind, At
<1> QED BY <1>1, <1>2, <1>3, ProcMoves, Records DEF Moved, Rereads, Ends

\* Who alone has a picture of a recurrence that was cancelled since has a notification waiting.
LEMMA WarnedKept ==
    ASSUME NEW w, Workers = {w}, Types, Placed, PostedOnce, Rows, Alone(w), Warned, [Next]_vars
    PROVE  Warned'
<1> SUFFICES ASSUME NEW p \in Processes, proc'[p].pc \in {"enter", "write"}, attempt'[proc'[p].a].method # "PIX",
                    provider'[proc'[p].a].status = "cancelled", proc'[p].snap.status # "cancelled"
             PROVE  proc'[p].a \in notices'
  BY DEF Warned, IsPix
<1>1. CASE proc'[p] = proc[p]
  <2> DEFINE a == proc[p].a
  <2>1. a \in Attempts /\ attempt[a].ref /\ p = w
    BY <1>1, SyncingRow DEF Alone
  <2>2. ~IsPix(a)
    BY <1>1, <2>1, RowKept DEF IsPix
  <2>3. CASE ObjectKept(a)
    <3>1. a \in notices
      BY <1>1, <2>2, <2>3 DEF Warned, ObjectKept
    <3>2. ASSUME Webhook(w, a) PROVE FALSE
      BY <1>1, <2>1, <3>2 DEF Webhook, At
    <3> QED BY <1>1, <2>1, <3>1, <3>2, NoticeMoves
  <2>4. CASE ObjectMoved(a)
    BY <1>1, <2>4 DEF ObjectMoved
  <2>5. ~ObjectPosted(a) /\ ~ObjectPaid(a) /\ ~ObjectRejected(a)
    BY <1>1, <2>1, PostedObject DEF ObjectPaid, ObjectRejected
  <2> QED BY <2>1, <2>3, <2>4, <2>5, ObjectMoves
<1>2. CASE Fetch(p) /\ proc'[p].a = proc[p].a /\ proc'[p].snap = provider[proc[p].a]
  BY <1>2, SyncStill
<1>3. CASE Enter(p) /\ proc'[p].a = proc[p].a /\ proc'[p].snap = proc[p].snap
  BY <1>3, SyncStill DEF Warned, IsPix, Enter, At
<1> QED BY <1>1, <1>2, <1>3, PictureMoves

\* A subscription that runs on will be told.
LEMMA ToldAloneKept ==
    ASSUME Types, Placed, Rows, SubRows, Reading, Warned, ToldAlone, [Next]_vars
    PROVE  ToldAlone'
<1> SUFFICES ASSUME RunsOn' PROVE Heard(sub.ref, "cancelled")'
  BY DEF ToldAlone
<1>1. PICK r : r = sub'.ref
  OBVIOUS
<1>2. CASE r \in notices'
  BY <1>1, <1>2 DEF Heard
<1>3. CASE RunsOn /\ sub.ref = r /\ (Heard(r, "cancelled") => Heard(r, "cancelled")')
  <2>1. Heard(r, "cancelled")
    BY <1>3 DEF ToldAlone
  <2> QED BY <1>1, <1>3, <2>1 DEF Heard
<1>4. ASSUME NEW p \in Processes, proc[p].pc = "write", proc[p].a = r, ~IsPix(r),
             proc[p].snap.status # "cancelled", provider[r].status = "cancelled", notices' = notices
      PROVE  r \in notices'
  BY <1>4 DEF Warned
<1> QED BY <1>1, <1>2, <1>3, <1>4, RunsOnFrom

\* CardConverges, with requests one at a time and no hourly job: repeated and unordered notifications
\* then converge to what the provider says of the card. RunningOnIsOfOldPictures says what is left of
\* this when they are not.
THEOREM OneAtATimeConverges ==
    ASSUME NEW w, Workers = {w}, "expire" \notin Operations
    PROVE  Spec => []CardConverges
<1> DEFINE Inv == BillingInv /\ Alone(w) /\ Warned /\ ToldAlone
<1>1. Init => Inv
  <2> SUFFICES ASSUME Init PROVE Inv
    OBVIOUS
  <2>1. BillingInv
    BY BillingInitial
  <2>2. \A p \in Processes : proc[p].pc = "idle"
    BY Records DEF Init
  <2>3. sub.method # "CARD"
    BY DEF Init, NoSub
  <2> QED BY <2>1, <2>2, <2>3 DEF Alone, Warned, ToldAlone, RunsOn
<1>2. Inv /\ [Next]_vars => Inv'
  <2> SUFFICES ASSUME Inv, [Next]_vars PROVE Inv'
    OBVIOUS
  <2>1. Types /\ Placed /\ PostedOnce /\ Rows /\ SubRows /\ Reading
    BY DEF BillingInv, CreditInv, DaysInv
  <2>2. BillingInv'
    BY BillingKept
  <2>3. Alone(w)'
    BY <2>1, AloneKept
  <2>4. Warned'
    BY <2>1, WarnedKept
  <2>5. ToldAlone'
    BY <2>1, ToldAloneKept
  <2> QED BY <2>2, <2>3, <2>4, <2>5
<1>3. Inv => CardConverges
  <2> SUFFICES ASSUME Inv, Quiet, RunsOn PROVE FALSE
    BY DEF CardConverges, EndsWithPeriod, RunsOn
  <2>1. ~Heard(sub.ref, "cancelled")
    BY DEF Quiet, Heard, At
  <2> QED BY <2>1 DEF ToldAlone
<1> QED BY <1>1, <1>2, <1>3, PTL DEF Spec

-----------------------------------------------------------------------------
(* The abstract specification: what else the steps change *)


\* The payer's agreement: a recurrence that is authorized, or was, has had a next payment, and who
\* has the picture of it knows so; nothing was agreed to before it was posted.
Agreements ==
    /\ \A a \in Attempts :
          /\ ~attempt[a].ref => provider[a].next = NoEnd /\ ~provider[a].charged
          /\ provider[a].status \in {"authorized", "paused"} => provider[a].next # NoEnd
    /\ \A p \in Processes :
          proc[p].pc \in {"enter", "write"} /\ proc[p].snap.status = "authorized" =>
              provider[proc[p].a].next # NoEnd
\* A plan is one of the plans, in the rows and in what the processes are about to write; who writes
\* about an attempt knows the plan it was made for.
Wanted ==
    /\ \A a \in Attempts : attempt[a].status # "NONE" => attempt[a].plan \in Plans
    /\ sub.status # "NONE" => sub.plan \in Plans
    /\ \A p \in Processes :
          /\ proc[p].pc \in {"reprice", "commit", "grant"} => proc[p].plan \in Plans
          /\ proc[p].pc = "write" => /\ proc[p].att.plan = attempt[proc[p].a].plan
                                     /\ proc[p].sub.ref # NoAttempt => proc[p].sub.plan \in Plans
\* What is paid is a month or a recurrence, and only a recurrence has a reference.
Kinds ==
    /\ sub.method # "CARD" => sub.ref = NoAttempt
    /\ sub.status # "NONE" /\ ~sub.courtesy => sub.method \in Methods
\* Who has the lock has read the row as it is, its flag aside, unless a courtesy came or went.
ReadsWell ==
    \A p \in Processes : proc[p].pc = "write" /\ sub.status # "NONE" /\ ~sub.courtesy =>
        /\ proc[p].sub.status = sub.status /\ ~proc[p].sub.courtesy /\ proc[p].sub.method = sub.method
        /\ proc[p].sub.ref = sub.ref /\ proc[p].sub.plan = sub.plan /\ proc[p].sub.end = sub.end
SoldInv == now >= 1 /\ Agreements /\ Wanted /\ Kinds /\ ReadsWell

\* A row keeps the plan it was made with.
LEMMA AttemptPlans ==
    ASSUME Types, [Next]_vars, NEW a \in Attempts
    PROVE  attempt'[a].plan = attempt[a].plan \/ Made(a)
<1>0. attempt \in [Attempts -> AttemptRow]
  BY DEF Types
<1>1. ASSUME NEW b, NEW att, NEW status, Ended(b, att, status) \/ Approve(b, att)
      PROVE  attempt'[a].plan = attempt[a].plan
  <2> DEFINE back == [attempt[b] EXCEPT !.status = status,
                          !.redemption = IF att.reserved THEN 0 ELSE @,
                          !.reserved   = IF att.reserved THEN FALSE ELSE @]
             kept == [attempt[b] EXCEPT !.status = "APPROVED"]
  <2>1. attempt' = [attempt EXCEPT ![b] = back] \/ attempt' = [attempt EXCEPT ![b] = kept]
    BY <1>1 DEF Ended, Approve
  <2>2. a = b => back.plan = attempt[b].plan /\ kept.plan = attempt[b].plan
    BY <1>0 DEF AttemptRow
  <2> HIDE DEF back, kept
  <2> QED BY <1>0, <2>1, <2>2
<1>2. CASE attempt'[a] = attempt[a]
  BY <1>2
<1>3. CASE Posted(a)
  <2>1. PICK p \in Workers : CheckoutPosted(p) /\ proc[p].a = a
    BY <1>3 DEF Posted
  <2>2. attempt' = [attempt EXCEPT ![a].ref = TRUE]
    BY <2>1 DEF CheckoutPosted
  <2> QED BY <1>0, <2>2 DEF AttemptRow
<1>4. CASE ByWrite(a)
  <2>1. PICK p \in Processes : PixCredited(p) \/ CardOn(p) \/ PixFails(p) \/ CardFails(p)
    BY <1>4 DEF ByWrite
  <2>2. CASE PixCredited(p)
    BY <1>1, <2>2 DEF PixCredited
  <2>3. CASE CardOn(p)
    BY <1>1, <2>3 DEF CardOn
  <2>4. CASE PixFails(p) \/ CardFails(p)
    BY <1>1, <2>4 DEF PixFails, CardFails, Fails, ReleaseAndEnd
  <2> QED BY <2>1, <2>2, <2>3, <2>4
<1>5. CASE ByFailure(a) \/ ByExpiry(a)
  BY <1>1, <1>5 DEF ByFailure, ByExpiry, CheckoutFailed, CronExpire, ReleaseAndEnd
<1> QED BY <1>2, <1>3, <1>4, <1>5, AttemptMoves DEF Turned

\* When a recurrence will be charged next: it is set when it is authorized, and moves when it is
\* charged; a new object has no such time.
NextKept(b) == /\ provider'[b].next = provider[b].next
               /\ provider'[b].charged = provider[b].charged \/ PixPaid(b)
               /\ provider'[b].status \in {"authorized", "paused"} =>
                      provider[b].status \in {"authorized", "paused"}
NextPosted(b) == /\ \E p \in Workers : CheckoutPosted(p) /\ proc[p].a = b
                 /\ provider'[b].next = NoEnd /\ ~provider'[b].charged /\ provider'[b].status = "pending"
NextSet(b) == CardAuthorized(b) /\ provider'[b].next = now + Month
NextMoved(b) == /\ ~IsPix(b) /\ provider[b].status = "authorized" /\ provider'[b].next >= provider[b].next

\* How the time of the next charge moves.
LEMMA NextMoves ==
    ASSUME Types, [Next]_vars, NEW b \in Attempts
    PROVE  NextKept(b) \/ NextPosted(b) \/ NextSet(b) \/ NextMoved(b)
<1> DEFINE Goal == NextKept(b) \/ NextPosted(b) \/ NextSet(b) \/ NextMoved(b)
<1>0. /\ provider \in [Attempts -> Object] /\ now \in Nat /\ provider[b].next \in Nat
  BY DEF Types, Object
<1>1. ASSUME NEW p \in Workers, CheckoutPosted(p) PROVE Goal
  <2> DEFINE c == proc[p].a
             new == [NoObject EXCEPT !.status = "pending", !.plan = attempt[c].plan, !.discount = attempt[c].discount]
  <2>1. provider' = [provider EXCEPT ![c] = new]
    BY <1>1 DEF CheckoutPosted
  <2>2. new.next = NoEnd /\ ~new.charged /\ new.status = "pending"
    BY DEF NoObject, NoEnd
  <2> HIDE DEF new
  <2> QED BY <1>0, <1>1, <2>1, <2>2 DEF NextKept, NextPosted
<1>2. ASSUME NEW a, NEW x, provider' = [provider EXCEPT ![a] = x],
             a = b => /\ x.next = provider[a].next /\ (x.charged = provider[a].charged \/ PixPaid(b))
                      /\ x.status \in {"authorized", "paused"} => provider[a].status \in {"authorized", "paused"}
      PROVE  Goal
  <2>1. CASE a = b
    <3>1. provider'[b] = x
      BY <1>0, <1>2, <2>1
    <3>2. provider'[b].charged = provider[b].charged \/ PixPaid(b)
      BY <1>2, <2>1, <3>1
    <3> QED BY <1>2, <2>1, <3>1, <3>2 DEF NextKept
  <2>2. CASE a # b
    <3>1. provider'[b] = provider[b]
      BY <1>0, <1>2, <2>2
    <3> QED BY <3>1 DEF NextKept
  <2> QED BY <2>1, <2>2
<1>3. ASSUME NEW a, PixRejected(a) \/ CardPaused(a) \/ CardResumed(a) \/ CardCancelled(a)
      PROVE  Goal
  <2>1. PICK to \in {"rejected", "paused", "authorized", "cancelled"} :
            /\ provider' = [provider EXCEPT ![a] = [provider[a] EXCEPT !.status = to]]
            /\ to \in {"authorized", "paused"} => provider[a].status \in {"authorized", "paused"}
    BY <1>3, Zenon DEF PixRejected, CardPaused, CardResumed, CardCancelled, Becomes, Moves
  <2> DEFINE x == [provider[a] EXCEPT !.status = to]
  <2>2. a = b => x.status = to /\ x.next = provider[a].next /\ x.charged = provider[a].charged
    BY <1>0 DEF Object
  <2>3. provider' = [provider EXCEPT ![a] = x]
    BY <2>1
  <2> HIDE DEF x
  <2> QED BY <1>2, <2>1, <2>2, <2>3
<1>10. ASSUME NEW a, PixPaid(a) PROVE Goal
  <2> DEFINE x == [provider[a] EXCEPT !.status = "approved", !.charged = TRUE]
  <2>1. provider' = [provider EXCEPT ![a] = x]
    BY <1>10 DEF PixPaid, Moves
  <2>2. a = b => x.status = "approved" /\ x.next = provider[a].next
    BY <1>0 DEF Object
  <2> HIDE DEF x
  <2>3. CASE a = b
    <3>1. provider'[b] = x
      BY <1>0, <2>1, <2>3
    <3>2. provider'[b].next = provider[b].next /\ provider'[b].status \notin {"authorized", "paused"}
      BY <2>2, <2>3, <3>1
    <3>3. NextKept(b)
      BY <1>10, <2>3, <3>2 DEF NextKept
    <3> QED BY <3>3
  <2>4. CASE a # b
    <3>1. provider'[b] = provider[b]
      BY <1>0, <2>1, <2>4
    <3> QED BY <3>1 DEF NextKept
  <2> QED BY <2>3, <2>4
<1>4. ASSUME NEW a, CardAuthorized(a) PROVE Goal
  <2> DEFINE x == [provider[a] EXCEPT !.status = "authorized", !.next = now + Month]
  <2>1. provider' = [provider EXCEPT ![a] = x]
    BY <1>4 DEF CardAuthorized, Moves
  <2>2. a = b => x.next = now + Month
    BY <1>0 DEF Object
  <2> HIDE DEF x
  <2>3. CASE a = b
    BY <1>0, <1>4, <2>1, <2>2, <2>3 DEF NextSet
  <2>4. CASE a # b
    BY <1>0, <2>1, <2>4 DEF NextKept
  <2> QED BY <2>3, <2>4
<1>5. ASSUME NEW a, CardCharged(a) PROVE Goal
  <2> DEFINE next == IF provider[a].charged THEN provider[a].next + Month ELSE provider[a].next
             x == [provider[a] EXCEPT !.charged = TRUE, !.next = next]
  <2>1. provider' = [provider EXCEPT ![a] = x] /\ ~IsPix(a) /\ provider[a].status = "authorized"
    BY <1>5 DEF CardCharged, Moves
  <2>2. a = b => x.next = next /\ next >= provider[a].next
    BY <1>0, Numbers DEF Object
  <2> HIDE DEF x, next
  <2>3. CASE a = b
    BY <1>0, <2>1, <2>2, <2>3 DEF NextMoved
  <2>4. CASE a # b
    BY <1>0, <2>1, <2>4 DEF NextKept
  <2> QED BY <2>3, <2>4
<1>6. ASSUME provider' = provider PROVE Goal
  BY <1>6 DEF NextKept
<1>7. ASSUME NEW a, CancelObject(a) PROVE Goal
  <2> DEFINE x == [provider[a] EXCEPT !.status = "cancelled"]
  <2>1. provider' = provider \/ provider' = [provider EXCEPT ![a] = x]
    BY <1>7 DEF CancelObject, remote
  <2>2. a = b => x.next = provider[a].next /\ x.charged = provider[a].charged /\ x.status = "cancelled"
    BY <1>0 DEF Object
  <2> HIDE DEF x
  <2> QED BY <1>2, <1>6, <2>1, <2>2
<1>8. ASSUME NEW a, NEW plan, provider' = [provider EXCEPT ![a].plan = plan, ![a].discount = FALSE]
      PROVE  Goal
  <2> DEFINE x == [provider[a] EXCEPT !.plan = plan, !.discount = FALSE]
  <2>1. CASE a = b
    <3>1. provider' = [provider EXCEPT ![a] = x]
      BY <1>0, <1>8, <2>1
    <3>2. x.next = provider[a].next /\ x.charged = provider[a].charged /\ x.status = provider[a].status
      BY <1>0, <2>1 DEF Object
    <3> HIDE DEF x
    <3> QED BY <1>2, <3>1, <3>2
  <2>2. CASE a # b
    <3>1. provider'[b] = provider[b]
      BY <1>0, <1>8, <2>2
    <3> QED BY <3>1 DEF NextKept
  <2> QED BY <2>1, <2>2
<1>9. ASSUME NEW p, After(p) \/ CancelCall(p) \/ ChangeReprice(p) PROVE Goal
  BY <1>6, <1>7, <1>8, <1>9 DEF After, CancelCall, ChangeReprice, remote
<1> HIDE DEF Goal
<1>12. ASSUME NEW p, NEW a, NEW method, NEW plan, NEW typed,
              \/ CheckoutBegin(p, a, method, plan, typed) \/ Webhook(p, a) \/ Poll(p, a)
              \/ ChangeBegin(p, plan) \/ GrantBegin(p, plan)
       PROVE  provider' = provider
  BY <1>12 DEF remote, CheckoutBegin, Webhook, Poll, ChangeBegin, GrantBegin
<1>13. ASSUME NEW p, CancelBegin(p) \/ CheckoutFailed(p) \/ CancelFlag(p) \/ ChangeCommit(p) \/ GrantCommit(p)
       PROVE  provider' = provider
  BY <1>13 DEF remote, CancelBegin, CheckoutFailed, CancelFlag, ChangeCommit, GrantCommit
<1>14. ASSUME NEW p, Fetch(p) \/ FetchFailed(p) \/ Enter(p) \/ Write(p) \/ Crash(p)
       PROVE  provider' = provider
  BY <1>14 DEF remote, Fetch, FetchFailed, Unanswered, Enter, Write, Crash
<1>15. ASSUME NEW a, CronBegin(a) PROVE provider' = provider
  BY <1>15 DEF remote, CronBegin
<1>16. CronReread \/ CronFind \/ CronExpire \/ RemoveCourtesy \/ Tick \/ UNCHANGED vars => provider' = provider
  BY DEF remote, vars, CronReread, CronFind, CronExpire, RemoveCourtesy, Tick
<1>17. Goal
  BY <1>1, <1>3, <1>4, <1>5, <1>6, <1>9, <1>10, <1>12, <1>13, <1>14, <1>15, <1>16, BillingSteps, Zenon
<1> QED BY <1>17 DEF Goal

\* Who writes the row of the subscription: a transaction about a payment, a request of the owner or
\* of the platform.
LEMMA SubWriters ==
    ASSUME [Next]_vars
    PROVE  \/ sub' = sub /\ months' = months
           \/ \E p \in Workers : CancelFlag(p) \/ ChangeCommit(p) \/ GrantCommit(p)
           \/ RemoveCourtesy
           \/ \E p \in Processes : Write(p) /\ (PixCredited(p) \/ CardOn(p) \/ CardWaits(p) \/ CardOff(p))
<1>1. ASSUME NEW p \in Processes, Write(p)
      PROVE  (sub' = sub /\ months' = months) \/ PixCredited(p) \/ CardOn(p) \/ CardWaits(p) \/ CardOff(p)
  BY <1>1, WriteForms, Zenon DEF PixFails, PixStays, CardFails, CardStays, Fails
<1>2. ASSUME NEW p, NEW a, NEW method, NEW plan, NEW typed,
             \/ CheckoutBegin(p, a, method, plan, typed) \/ Webhook(p, a) \/ Poll(p, a)
             \/ ChangeBegin(p, plan) \/ GrantBegin(p, plan)
      PROVE  sub' = sub /\ months' = months
  BY <1>2 DEF local, CheckoutBegin, Webhook, Poll, ChangeBegin, GrantBegin
<1>3. ASSUME NEW p, \/ CancelBegin(p) \/ CheckoutPosted(p) \/ CheckoutFailed(p) \/ CancelCall(p)
                    \/ ChangeReprice(p)
      PROVE  sub' = sub /\ months' = months
  BY <1>3 DEF local, CancelBegin, CheckoutPosted, CheckoutFailed, CancelCall, ChangeReprice
<1>4. ASSUME NEW p, Fetch(p) \/ FetchFailed(p) \/ Enter(p) \/ After(p) \/ Crash(p)
      PROVE  sub' = sub /\ months' = months
  BY <1>4 DEF local, Fetch, FetchFailed, Unanswered, Enter, After, Crash
<1>5. ASSUME NEW a, \/ PixPaid(a) \/ PixRejected(a) \/ CardAuthorized(a) \/ CardCharged(a) \/ CardPaused(a)
                    \/ CardResumed(a) \/ CardCancelled(a) \/ CronBegin(a)
      PROVE  sub' = sub /\ months' = months
  BY <1>5 DEF local, PixPaid, PixRejected, CardAuthorized, CardCharged, CardPaused, CardResumed, CardCancelled,
              Becomes, Moves, CronBegin
<1>6. CronReread \/ CronFind \/ CronExpire \/ Tick \/ UNCHANGED vars => sub' = sub /\ months' = months
  BY DEF local, vars, CronReread, CronFind, CronExpire, Tick
<1> QED BY <1>1, <1>2, <1>3, <1>4, <1>5, <1>6, BillingSteps, Zenon

\* It never moves back.
LEMMA NextMovedTimes ==
    ASSUME Types, NEW b \in Attempts, NextMoved(b), [Next]_vars
    PROVE  provider[b].next # NoEnd => provider'[b].next # NoEnd
<1>1. provider[b].next \in Nat /\ provider'[b].next >= provider[b].next
  BY DEF Types, Object, NextMoved
<1>2. provider'[b].next \in Nat
  BY ObjectMoves DEF Object
<1> QED BY <1>1, <1>2 DEF NoEnd

-----------------------------------------------------------------------------
(* What the salon has is what was sold: the parts of the invariant *)

\* Who agreed to a recurrence has agreed: the time of the next charge does not go.
LEMMA NextLasts ==
    ASSUME Types, Placed, now >= 1, [Next]_vars, NEW b \in Attempts, attempt[b].ref,
           provider[b].next # NoEnd
    PROVE  provider'[b].next # NoEnd
<1>0. now \in Nat /\ Month \in Nat /\ provider[b].next \in Nat
  BY Numbers DEF Types, Object
<1>1. CASE NextKept(b)
  BY <1>1 DEF NextKept
<1>2. CASE NextPosted(b)
  BY <1>2 DEF NextPosted, CheckoutPosted, At, Placed, Processes
<1>3. CASE NextSet(b) \/ NextMoved(b)
  BY <1>0, <1>3, NextMovedTimes DEF NextSet, NoEnd
<1> QED BY <1>1, <1>2, <1>3, NextMoves

\* Nothing is agreed to before it is posted, and a picture of an authorized recurrence is of one that
\* was.
LEMMA AgreementsKept ==
    ASSUME Types, Placed, PostedOnce, Rows, now >= 1, Agreements, [Next]_vars
    PROVE  Agreements'
<1>0. now \in Nat /\ Month \in Nat /\ \A a \in Attempts : provider[a].next \in Nat
  BY Numbers DEF Types, Object
<1>1. ASSUME NEW a \in Attempts, ~attempt'[a].ref PROVE provider'[a].next = NoEnd /\ ~provider'[a].charged
  <2>1. ~attempt[a].ref /\ provider[a].status = "none" /\ provider[a].next = NoEnd /\ ~provider[a].charged
    BY <1>1, RowKept DEF Rows, Agreements
  <2>2. ~ObjectPosted(a)
    BY <1>1, PostedObject
  <2>3. ~NextPosted(a)
    <3>1. NextPosted(a) => ObjectPosted(a)
      BY DEF NextPosted, ObjectPosted
    <3> QED BY <2>2, <3>1
  <2>4. provider'[a].next = NoEnd
    BY <2>1, <2>3, NextMoves DEF NextKept, NextSet, NextMoved, CardAuthorized
  <2>5. ~provider'[a].charged
    BY <2>1, <2>2, ObjectMoves DEF ObjectKept, ObjectPaid, PixPaid, ObjectRejected, ObjectMoved
  <2> QED BY <2>4, <2>5
<1>2. ASSUME NEW a \in Attempts, provider'[a].status \in {"authorized", "paused"} PROVE provider'[a].next # NoEnd
  <2>1. CASE NextKept(a)
    BY <1>2, <2>1 DEF NextKept, Agreements
  <2>2. CASE NextPosted(a)
    BY <1>2, <2>2 DEF NextPosted
  <2>3. CASE NextSet(a)
    BY <1>0, <2>3 DEF NextSet, NoEnd
  <2>4. CASE NextMoved(a)
    <3>1. provider[a].next # NoEnd
      BY <2>4 DEF NextMoved, Agreements
    <3> QED BY <1>0, <2>4, <3>1, NextMovedTimes
  <2> QED BY <2>1, <2>2, <2>3, <2>4, NextMoves
<1>3. ASSUME NEW p \in Processes, proc'[p].pc \in {"enter", "write"}, proc'[p].snap.status = "authorized"
      PROVE  provider'[proc'[p].a].next # NoEnd
  <2>1. CASE proc'[p] = proc[p]
    <3>1. proc[p].a \in Attempts /\ attempt[proc[p].a].ref
      BY <1>3, <2>1, SyncingRow
    <3>2. provider[proc[p].a].next # NoEnd
      BY <1>3, <2>1 DEF Agreements
    <3> QED BY <2>1, <3>1, <3>2, NextLasts
  <2>2. CASE Fetch(p) /\ proc'[p].a = proc[p].a /\ proc'[p].snap = provider[proc[p].a]
    <3>1. proc[p].a \in Attempts /\ provider' = provider
      BY <2>2, SyncingRow, SyncStill
    <3> QED BY <1>3, <2>2, <3>1 DEF Agreements
  <2>3. CASE Enter(p) /\ proc'[p].a = proc[p].a /\ proc'[p].snap = proc[p].snap
    <3>1. proc[p].pc = "enter" /\ provider' = provider
      BY <2>3, SyncStill DEF Enter, At
    <3> QED BY <1>3, <2>3, <3>1 DEF Agreements
  <2> QED BY <1>3, <2>1, <2>2, <2>3, PictureMoves
<1> QED BY <1>1, <1>2, <1>3 DEF Agreements

\* Who is about to write a plan has got it from the request.
LEMMA PlanMoves ==
    ASSUME Types, Placed, [Next]_vars, NEW p \in Processes,
           proc'[p].pc \in {"reprice", "commit", "grant"}
    PROVE  \/ proc'[p] = proc[p]
           \/ proc'[p].plan \in Plans
           \/ proc[p].pc = "reprice" /\ proc'[p].plan = proc[p].plan
<1> DEFINE Later == {"reprice", "commit", "grant"}
           Goal == proc'[p].pc \in Later =>
                      \/ proc'[p] = proc[p]
                      \/ proc'[p].plan \in Plans
                      \/ proc[p].pc = "reprice" /\ proc'[p].plan = proc[p].plan
<1>0. proc \in [Processes -> Process]
  BY DEF Types
<1>1. ASSUME NEW q, NEW x, proc' = [proc EXCEPT ![q] = x], x.pc \notin Later PROVE Goal
  BY <1>0, <1>1
<1>2. ASSUME NEW q, NEW x, proc' = [proc EXCEPT ![q] = x], q \in Processes => x.pc \notin Later PROVE Goal
  BY <1>0, <1>2
<1>24. ASSUME NEW q, NEW pc, pc \notin Later, proc' = [proc EXCEPT ![q].pc = pc] PROVE Goal
  <2> DEFINE x == [proc[q] EXCEPT !.pc = pc]
  <2>1. proc' = [proc EXCEPT ![q] = x]
    BY <1>0, <1>24
  <2>2. q \in Processes => x.pc = pc
    BY <1>0 DEF Process
  <2> HIDE DEF x
  <2> QED BY <1>2, <1>24, <2>1, <2>2
<1>3. ASSUME NEW q \in Workers, NEW plan \in Plans, ChangeBegin(q, plan) PROVE Goal
  <2> DEFINE x == Changing(plan, sub, sub.ref, IF sub.method = "CARD" THEN "reprice" ELSE "commit")
  <2>1. proc' = [proc EXCEPT ![q] = x]
    BY <1>3 DEF ChangeBegin, Changing
  <2>2. x.plan = plan
    BY DEF Changing, IdleProc
  <2> HIDE DEF x
  <2> QED BY <1>0, <2>1, <2>2
<1>4. ASSUME NEW q \in Workers, NEW plan \in Plans, GrantBegin(q, plan) PROVE Goal
  <2> DEFINE x == Granting(plan)
  <2>1. proc' = [proc EXCEPT ![q] = x]
    BY <1>4 DEF GrantBegin, Granting
  <2>2. x.plan = plan
    BY DEF Granting, IdleProc
  <2> HIDE DEF x
  <2> QED BY <1>0, <2>1, <2>2
<1>5. IdleProc.pc \notin Later
  BY DEF IdleProc
<1>6. ASSUME NEW q, Finish(q) PROVE Goal
  BY <1>1, <1>5, <1>6 DEF Finish
<1>7. ASSUME NEW q, Done(q) PROVE Goal
  <2>1. Beginning("reread", "cron", proc[q].a).pc \notin Later
    BY DEF Beginning, IdleProc
  <2> QED BY <1>1, <1>5, <1>7, <2>1 DEF Done, Beginning
<1>8. ASSUME NEW q \in Workers, ChangeReprice(q) PROVE Goal
  <2>1. CASE proc' = [proc EXCEPT ![q].pc = "commit"]
    BY <1>0, <1>8, <2>1 DEF ChangeReprice, At, Process
  <2> QED BY <1>6, <1>8, <2>1 DEF ChangeReprice
<1>9. ASSUME NEW q \in Workers, NEW a \in Attempts, NEW pc, NEW op, pc \notin Later,
             proc' = [proc EXCEPT ![q] = [IdleProc EXCEPT !.pc = pc, !.op = op, !.a = a]]
      PROVE  Goal
  <2>1. [IdleProc EXCEPT !.pc = pc, !.op = op, !.a = a].pc = pc
    BY DEF IdleProc
  <2> QED BY <1>1, <1>9, <2>1
<1>10. ASSUME NEW q \in Workers, NEW a \in Attempts, NEW method, NEW plan, NEW typed,
              CheckoutBegin(q, a, method, plan, typed) \/ Poll(q, a)
       PROVE  Goal
  <2>1. \E pc \in {"post", "fetch"}, op \in {"checkout", "poll"} :
            proc' = [proc EXCEPT ![q] = [IdleProc EXCEPT !.pc = pc, !.op = op, !.a = a]]
    BY <1>10 DEF CheckoutBegin, Poll
  <2> QED BY <1>9, <2>1
<1>11. ASSUME NEW q \in Workers, NEW a \in Attempts, Webhook(q, a) PROVE Goal
  <2>1. \/ \E pc \in {"fetch"}, op \in {"webhook"} :
              proc' = [proc EXCEPT ![q] = [IdleProc EXCEPT !.pc = pc, !.op = op, !.a = a]]
        \/ proc' = proc
    BY <1>11 DEF Webhook
  <2> QED BY <1>9, <2>1
<1>12. ASSUME NEW q \in Workers, CancelBegin(q) PROVE Goal
  <2> DEFINE x == [IdleProc EXCEPT !.op = "cancel", !.a = sub.ref,
                      !.pc = IF sub.method = "CARD" /\ sub.ref # NoAttempt THEN "call" ELSE "flag"]
  <2>1. proc' = [proc EXCEPT ![q] = x]
    BY <1>12 DEF CancelBegin
  <2>2. x.pc \notin Later
    BY DEF IdleProc
  <2> HIDE DEF x
  <2> QED BY <1>1, <2>1, <2>2
<1>13. ASSUME NEW q, CancelCall(q) PROVE Goal
  <2>1. CASE proc' = [proc EXCEPT ![q].pc = "flag"]
    BY <1>24, <2>1
  <2> QED BY <1>6, <1>13, <2>1 DEF CancelCall
<1>14. ASSUME NEW q, CheckoutPosted(q) \/ CheckoutFailed(q) \/ CancelFlag(q) \/ ChangeCommit(q) \/ GrantCommit(q)
                     \/ Crash(q)
       PROVE  Goal
  BY <1>6, <1>14 DEF CheckoutPosted, CheckoutFailed, CancelFlag, ChangeCommit, GrantCommit, Crash
<1>15. ASSUME NEW q, Fetch(q) PROVE Goal
  <2> DEFINE x == [proc[q] EXCEPT !.pc = "enter", !.snap = provider[proc[q].a]]
  <2>1. proc' = [proc EXCEPT ![q] = x]
    BY <1>0, <1>15 DEF Fetch
  <2>2. q \in Processes => x.pc = "enter"
    BY <1>0 DEF Process
  <2> HIDE DEF x
  <2> QED BY <1>2, <2>1, <2>2
<1>16. ASSUME NEW q, FetchFailed(q) \/ After(q) PROVE Goal
  BY <1>7, <1>16 DEF FetchFailed, After
<1>17. ASSUME NEW q, Enter(q) PROVE Goal
  <2> DEFINE x == [proc[q] EXCEPT !.pc = "write", !.att = attempt[proc[q].a], !.sub = sub]
  <2>1. CASE Reads(q)
    <3>1. proc' = [proc EXCEPT ![q] = x]
      BY <1>0, <2>1 DEF Reads
    <3>2. q \in Processes => x.pc = "write"
      BY <1>0 DEF Process
    <3> HIDE DEF x
    <3> QED BY <1>2, <3>1, <3>2
  <2> QED BY <1>7, <1>17, <2>1 DEF Enter
<1>18. ASSUME NEW q, Write(q) PROVE Goal
  <2>1. Done(q) \/ proc' = [proc EXCEPT ![q].pc = "after"]
    BY <1>18, WriteForms, Zenon
       DEF PixCredited, PixFails, PixStays, CardOn, CardWaits, CardOff, CardFails, CardStays, Fails
  <2>2. CASE proc' = [proc EXCEPT ![q].pc = "after"]
    BY <1>24, <2>2
  <2> QED BY <1>7, <2>1, <2>2
<1>19. ASSUME NEW a \in Attempts, CronBegin(a) PROVE Goal
  <2> DEFINE x == [IdleProc EXCEPT !.pc = IF attempt[a].ref THEN "fetch" ELSE "reread", !.op = "cron", !.a = a]
  <2>1. proc' = [proc EXCEPT ![Cron] = x]
    BY <1>19 DEF CronBegin
  <2>2. x.pc \notin Later
    BY DEF IdleProc
  <2> HIDE DEF x
  <2> QED BY <1>1, <2>1, <2>2
<1>20. ASSUME CronReread \/ CronFind \/ CronExpire PROVE Goal
  <2> DEFINE x == [proc[Cron] EXCEPT !.pc = "find", !.att = attempt[proc[Cron].a]]
             y == [proc[Cron] EXCEPT !.pc = "expire", !.seen = Returnable(proc[Cron].att)]
  <2>1. CASE CronReread /\ proc' = [proc EXCEPT ![Cron] = x]
    <3>1. x.pc = "find"
      BY <1>0, Numbers DEF Process
    <3> HIDE DEF x
    <3> QED BY <1>2, <2>1, <3>1
  <2>2. CASE CronFind /\ proc' = [proc EXCEPT ![Cron] = y]
    <3>1. y.pc = "expire"
      BY <1>0, Numbers DEF Process
    <3> HIDE DEF y
    <3> QED BY <1>2, <2>2, <3>1
  <2>3. CronReread => Finish(Cron) \/ proc' = [proc EXCEPT ![Cron] = x]
    BY <1>0 DEF CronReread
  <2>4. CronFind => proc' = [proc EXCEPT ![Cron] = y]
    BY <1>0 DEF CronFind
  <2>5. CronExpire => Finish(Cron)
    BY DEF CronExpire
  <2> QED BY <1>6, <1>20, <2>1, <2>2, <2>3, <2>4, <2>5
<1>21. ASSUME proc' = proc PROVE Goal
  BY <1>21
<1>22. ASSUME NEW a, \/ PixPaid(a) \/ PixRejected(a) \/ CardAuthorized(a) \/ CardCharged(a) \/ CardPaused(a)
                     \/ CardResumed(a) \/ CardCancelled(a)
      PROVE  proc' = proc
  BY <1>22 DEF PixPaid, PixRejected, CardAuthorized, CardCharged, CardPaused, CardResumed, CardCancelled,
              Becomes, Moves
<1>23. RemoveCourtesy \/ Tick \/ UNCHANGED vars => proc' = proc
  BY DEF RemoveCourtesy, Tick, vars
<1> HIDE DEF Goal
<1>25. Goal
  BY <1>3, <1>4, <1>8, <1>10, <1>11, <1>12, <1>13, <1>14, <1>15, <1>16, <1>17, <1>18, <1>19, <1>20, <1>21, <1>22,
     <1>23, BillingSteps, Zenon
<1> QED BY <1>25 DEF Goal

\* A checkout makes a row of the method and plan chosen.
LEMMA CheckoutPlan ==
    ASSUME Types, NEW p, NEW a \in Attempts, NEW method, NEW plan, NEW typed,
           CheckoutBegin(p, a, method, plan, typed)
    PROVE  /\ attempt'[a].plan = plan /\ attempt'[a].method = method /\ attempt'[a].status = "PENDING"
           /\ \A b \in Attempts \ {a} : attempt'[b] = attempt[b]
<1> DEFINE red == IF Choice(typed) = "none" THEN 0 ELSE coupon'.row
           until == now + IF method = "PIX" THEN PixValidity ELSE CardTtl
<1>1. attempt' = [attempt EXCEPT ![a] =
           [status |-> "PENDING", method |-> method, plan |-> plan, discount |-> Choice(typed) # "none",
            redemption |-> red, reserved |-> Choice(typed) = "new", ref |-> FALSE, until |-> until]]
  BY DEF CheckoutBegin
<1> HIDE DEF red, until
<1> QED BY <1>1 DEF Types

\* A plan that is written is one that was ordered, switched to or given.
LEMMA WantedKept ==
    ASSUME Types, Placed, PostedOnce, Rows, SubRows, Wanted, [Next]_vars
    PROVE  Wanted'
<1>0. /\ sub \in SubRow /\ proc \in [Processes -> Process] /\ Workers \subseteq Processes
  BY DEF Types, Processes
<1>1. ASSUME NEW a \in Attempts, attempt'[a].status # "NONE" PROVE attempt'[a].plan \in Plans
  <2>1. CASE Made(a)
    <3>1. PICK p \in Workers, method \in Methods, plan \in Plans, typed \in BOOLEAN :
             CheckoutBegin(p, a, method, plan, typed)
      BY <2>1 DEF Made
    <3> QED BY <3>1, CheckoutPlan
  <2>2. CASE attempt[a].status # "NONE"
    BY <2>1, <2>2, AttemptPlans DEF Wanted
  <2>3. CASE attempt[a].status = "NONE" /\ ~Made(a)
    <3>1. ~attempt[a].ref
      BY <2>3 DEF Rows
    <3>2. ~Posted(a)
      BY <1>1, <2>3 DEF Posted
    <3>3. ~ByWrite(a)
      BY <3>1, SyncingRow DEF ByWrite
    <3>4. ~ByExpiry(a)
      BY <2>3, Numbers DEF ByExpiry, CronExpire, At, Placed, CronOwn
    <3> QED BY <1>1, <2>3, <3>2, <3>3, <3>4, AttemptMoves DEF Turned, ByFailure
  <2> QED BY <2>1, <2>2, <2>3
<1>2. ASSUME sub'.status # "NONE" PROVE sub'.plan \in Plans
  <2>1. CASE sub' = sub
    BY <1>2, <2>1 DEF Wanted
  <2>2. ASSUME NEW p \in Workers, CancelFlag(p) PROVE sub'.plan \in Plans
    <3>1. sub'.plan = sub.plan /\ sub'.status = sub.status
      BY <1>0, <2>2 DEF CancelFlag, SubRow
    <3> QED BY <1>2, <3>1 DEF Wanted
  <2>3. ASSUME NEW p \in Workers, ChangeCommit(p) PROVE sub'.plan \in Plans
    <3>1. proc[p].plan \in Plans
      BY <1>0, <2>3 DEF ChangeCommit, At, Wanted
    <3>2. sub' = sub \/ sub'.plan = proc[p].plan
      BY <1>0, <2>3 DEF ChangeCommit, SubRow
    <3> QED BY <2>1, <3>1, <3>2
  <2>4. ASSUME NEW p \in Workers, GrantCommit(p) PROVE sub'.plan \in Plans
    <3>1. proc[p].plan \in Plans
      BY <1>0, <2>4 DEF GrantCommit, At, Wanted
    <3>2. sub'.plan = proc[p].plan
      BY <1>0, <2>4 DEF GrantCommit, SubRow
    <3> QED BY <3>1, <3>2
  <2>5. CASE RemoveCourtesy
    BY <1>2, <2>5 DEF RemoveCourtesy, NoSub
  <2>6. ASSUME NEW p \in Processes, Write(p), PixCredited(p) \/ CardOn(p) PROVE sub'.plan \in Plans
    <3>1. proc[p].a \in Attempts /\ attempt[proc[p].a].status # "NONE"
      BY <2>6, SyncingRow DEF Rows
    <3>2. proc[p].att.plan \in Plans
      BY <2>6, <3>1 DEF Write, At, Wanted
    <3>3. Owns(p) => proc[p].sub.plan \in Plans
      BY <2>6, <3>1, Numbers DEF Write, At, Wanted, Owns
    <3>4. PixCredited(p) => sub'.plan = proc[p].att.plan
      BY DEF PixCredited
    <3>5. CardOn(p) => sub'.plan = IF Owns(p) THEN proc[p].sub.plan ELSE proc[p].att.plan
      BY DEF CardOn, CardAuthorizedSub
    <3> QED BY <2>6, <3>2, <3>3, <3>4, <3>5
  <2>7. ASSUME NEW p \in Processes, CardWaits(p) \/ CardOff(p) PROVE sub'.plan \in Plans
    <3>1. sub' = sub \/ (sub'.plan = sub.plan /\ sub.status # "NONE")
      BY <1>0, <2>7 DEF CardWaits, CardOff, Update, SubRow
    <3> QED BY <2>1, <3>1 DEF Wanted
  <2> QED BY <2>1, <2>2, <2>3, <2>4, <2>5, <2>6, <2>7, SubWriters
<1>3. ASSUME NEW p \in Processes, proc'[p].pc \in {"reprice", "commit", "grant"} PROVE proc'[p].plan \in Plans
  BY <1>3, PlanMoves DEF Wanted
<1>4. ASSUME NEW p \in Processes, proc'[p].pc = "write"
      PROVE  /\ proc'[p].att.plan = attempt'[proc'[p].a].plan
             /\ proc'[p].sub.ref # NoAttempt => proc'[p].sub.plan \in Plans
  <2>1. CASE proc'[p] = proc[p]
    <3>1. proc[p].a \in Attempts /\ attempt[proc[p].a].ref
      BY <1>4, <2>1, SyncingRow
    <3>2. attempt'[proc[p].a].plan = attempt[proc[p].a].plan
      BY <3>1, AttemptPlans DEF Made, Rows
    <3> QED BY <1>4, <2>1, <3>2 DEF Wanted
  <2>2. CASE Enter(p) /\ proc'[p].a = proc[p].a /\ proc'[p].att = attempt[proc[p].a] /\ proc'[p].sub = sub
    <3>1. attempt' = attempt
      BY <2>2, SyncStill
    <3>2. sub.ref # NoAttempt => sub.status # "NONE"
      BY DEF SubRows, NoSub
    <3> QED BY <2>2, <3>1, <3>2 DEF Wanted
  <2>3. \/ proc'[p] = proc[p]
        \/ Enter(p) /\ proc'[p].a = proc[p].a /\ proc'[p].att = attempt[proc[p].a] /\ proc'[p].sub = sub
    BY <1>4, ProcMoves, Records DEF Moved, Begins, Continues, Rereads, Ends, Elsewhere
  <2> QED BY <2>1, <2>2, <2>3
<1> QED BY <1>1, <1>2, <1>3, <1>4 DEF Wanted

\* What is paid is a month or a recurrence.
LEMMA KindsKept ==
    ASSUME Types, Placed, SubRows, Kinds, [Next]_vars
    PROVE  Kinds'
<1>0. /\ sub.method # "CARD" => sub.ref = NoAttempt
      /\ sub.status # "NONE" /\ ~sub.courtesy => sub.method \in Methods
  BY DEF Kinds
<1>1. CASE SubSame
  BY <1>0, <1>1 DEF SubSame, Kinds
<1>2. CASE SubGranted
  BY <1>0, <1>2 DEF SubGranted, Kinds
<1>3. CASE sub' = NoSub
  BY <1>3 DEF NoSub, Kinds
<1>4. CASE SubCredited \/ SubOn
  BY <1>4 DEF SubCredited, SubOn, Kinds, Methods
<1> QED BY <1>1, <1>2, <1>3, <1>4, SubMoves

\* Who has the lock has the row before him, its flag aside.
LEMMA ReadsWellKept ==
    ASSUME Types, Placed, ReadsWell, [Next]_vars
    PROVE  ReadsWell'
<1> SUFFICES ASSUME NEW p \in Processes, proc'[p].pc = "write", sub'.status # "NONE", ~sub'.courtesy
             PROVE  /\ proc'[p].sub.status = sub'.status /\ ~proc'[p].sub.courtesy
                    /\ proc'[p].sub.method = sub'.method /\ proc'[p].sub.ref = sub'.ref
                    /\ proc'[p].sub.plan = sub'.plan /\ proc'[p].sub.end = sub'.end
  BY DEF ReadsWell
<1>0. sub \in SubRow
  BY DEF Types
<1>1. CASE proc'[p] = proc[p]
  <2>1. proc[p].pc = "write" /\ lock = p /\ \A q \in Processes : ~Write(q)
    BY <1>1, OnlyWriter DEF Placed
  <2>2. ASSUME NEW q \in Workers, ChangeCommit(q) PROVE FALSE
    BY <2>1, <2>2, Numbers DEF ChangeCommit
  <2>3. ASSUME NEW q \in Workers, GrantCommit(q) PROVE FALSE
    BY <1>0, <2>3 DEF GrantCommit, SubRow
  <2>4. ~RemoveCourtesy
    BY DEF RemoveCourtesy, NoSub
  <2>5. /\ sub'.status = sub.status /\ sub'.courtesy = sub.courtesy /\ sub'.method = sub.method
        /\ sub'.ref = sub.ref /\ sub'.plan = sub.plan /\ sub'.end = sub.end
    <3>1. ASSUME NEW q \in Workers, CancelFlag(q)
          PROVE  /\ sub'.status = sub.status /\ sub'.courtesy = sub.courtesy /\ sub'.method = sub.method
                 /\ sub'.ref = sub.ref /\ sub'.plan = sub.plan /\ sub'.end = sub.end
      BY <1>0, <3>1 DEF CancelFlag, SubRow
    <3> QED BY <2>1, <2>2, <2>3, <2>4, <3>1, SubWriters
  <2> QED BY <1>1, <2>1, <2>5 DEF ReadsWell
<1>2. CASE Enter(p) /\ proc'[p].sub = sub
  BY <1>2, SyncStill
<1> QED BY <1>1, <1>2, PictureMoves

\* The invariant holds at first, and every step keeps it.
LEMMA SoldInitial == Init => SoldInv
<1> SUFFICES ASSUME Init PROVE SoldInv
  OBVIOUS
<1>1. /\ sub = NoSub /\ attempt = [a \in Attempts |-> NoRow] /\ provider = [a \in Attempts |-> NoObject]
      /\ proc = [p \in Processes |-> IdleProc] /\ now = 1
  BY DEF Init
<1>2. Agreements
  BY <1>1, Records DEF Agreements, NoObject, NoEnd
<1>3. Wanted
  BY <1>1, Records DEF Wanted, NoRow, NoSub
<1>4. Kinds /\ ReadsWell
  BY <1>1, Records DEF Kinds, ReadsWell, NoSub
<1> QED BY <1>1, <1>2, <1>3, <1>4 DEF SoldInv

LEMMA SoldKept == BillingInv /\ SoldInv /\ [Next]_vars => SoldInv'
<1> SUFFICES ASSUME BillingInv, SoldInv, [Next]_vars PROVE SoldInv'
  OBVIOUS
<1>0. Types /\ Placed /\ PostedOnce /\ Rows /\ SubRows /\ now >= 1 /\ Agreements /\ Wanted /\ Kinds /\ ReadsWell
  BY DEF BillingInv, CreditInv, DaysInv, SoldInv
<1>1. now' >= 1
  BY <1>0, TimeMoves DEF Tick, Types
<1>2. Agreements' /\ Wanted' /\ Kinds' /\ ReadsWell'
  BY <1>0, AgreementsKept, WantedKept, KindsKept, ReadsWellKept
<1> QED BY <1>1, <1>2 DEF SoldInv

LEMMA SoldAlways == Spec => [](BillingInv /\ SoldInv)
BY BillingInitial, BillingKept, SoldInitial, SoldKept, PTL DEF Spec

-----------------------------------------------------------------------------
(* What the salon has is what was sold: every step *)

Ordered == [a \in Attempts |-> OrderOf(attempt[a])]
AgreedTo == {a \in Attempts : Agreed(a)}
Had == {a \in Attempts : months[a] # 0}

\* The same orders, the same agreements.
Unsold == Ordered' = Ordered /\ AgreedTo' = AgreedTo /\ now' = now

\* An order is made by a checkout only.
LEMMA OrderMoves ==
    ASSUME Types, Placed, Rows, [Next]_vars, NEW a \in Attempts
    PROVE  OrderOf(attempt'[a]) = OrderOf(attempt[a]) \/ Made(a)
<1>1. CASE attempt'[a].method = attempt[a].method /\ (Posted(a) \/ Turned(a)) /\ ~Made(a)
  <2>1. attempt'[a].plan = attempt[a].plan
    BY <1>1, AttemptPlans
  <2>2. CASE Posted(a)
    BY <1>1, <2>1, <2>2 DEF Posted, OrderOf
  <2>3. CASE Turned(a)
    <3>1. attempt[a].status # "NONE"
      BY <2>3, SyncingRow, Numbers
         DEF Turned, ByWrite, ByFailure, ByExpiry, CronExpire, At, Placed, CronOwn, Rows
    <3>2. attempt'[a].status # "NONE"
      BY <3>1, RowKept
    <3> QED BY <1>1, <2>1, <3>1, <3>2 DEF OrderOf
  <2> QED BY <1>1, <2>2, <2>3
<1> QED BY <1>1, AttemptMoves

\* Only the payer agrees, and once.
LEMMA AgreedMoves ==
    ASSUME Types, Placed, PostedOnce, Rows, now >= 1, Agreements, [Next]_vars, NEW a \in Attempts
    PROVE  (Agreed(a)' <=> Agreed(a)) \/ PixPaid(a) \/ CardAuthorized(a)
<1>0. Agreements'
  BY AgreementsKept
<1>1. ASSUME ~attempt[a].ref, ~attempt'[a].ref PROVE ~Agreed(a) /\ ~Agreed(a)'
  BY <1>0, <1>1 DEF Agreements, Agreed
<1>2. CASE Made(a)
  BY <1>1, <1>2 DEF Made, Rows
<1>3. CASE attempt'[a].method = attempt[a].method
  <2>1. IsPix(a)' <=> IsPix(a)
    BY <1>3 DEF IsPix
  <2>2. CASE NextKept(a)
    BY <2>1, <2>2 DEF NextKept, Agreed
  <2>3. CASE NextPosted(a)
    <3>1. ~attempt[a].ref
      BY <2>3, PostedObject DEF NextPosted, ObjectPosted
    <3>2. ~Agreed(a)
      BY <3>1 DEF Agreements, Agreed
    <3>3. ~Agreed(a)'
      BY <2>3 DEF NextPosted, Agreed
    <3> QED BY <3>2, <3>3
  <2>4. CASE NextSet(a)
    BY <2>4 DEF NextSet
  <2>5. CASE NextMoved(a)
    <3>1. provider[a].next # NoEnd
      BY <2>5 DEF NextMoved, Agreements
    <3>2. provider'[a].next # NoEnd
      BY <2>5, <3>1, NextMovedTimes
    <3> QED BY <2>1, <2>5, <3>1, <3>2 DEF NextMoved, Agreed
  <2> QED BY <2>2, <2>3, <2>4, <2>5, NextMoves, Zenon
<1>4. Made(a) \/ attempt'[a].method = attempt[a].method
  BY AttemptMoves
<1> QED BY <1>2, <1>3, <1>4, Zenon

\* What a row says, case by case.
LEMMA Contracts ==
    ASSUME NEW row \in SubRow
    PROVE  /\ row.status = "NONE" => ContractOf(row).kind = "none"
           /\ row.status # "NONE" /\ row.courtesy => ContractOf(row).kind = "gift"
           /\ row.status # "NONE" /\ ~row.courtesy =>
                  /\ ContractOf(row).of = row.ref /\ ContractOf(row).plan = row.plan
                  /\ row.method = "PIX" => ContractOf(row).kind = "prepaid" /\ ContractOf(row).until = row.end
                  /\ row.method # "PIX" => ContractOf(row).kind = "recurring"
<1>0. row.courtesy \in BOOLEAN
  BY DEF SubRow
<1>1. CASE row.status = "NONE"
  <2>1. ContractOf(row).kind = "none"
    BY <1>1 DEF ContractOf
  <2> QED BY <1>1, <2>1
<1>2. CASE row.status # "NONE" /\ row.courtesy
  <2>1. ContractOf(row).kind = "gift"
    BY <1>2 DEF ContractOf
  <2> QED BY <1>2, <2>1
<1>3. CASE row.status # "NONE" /\ ~row.courtesy
  <2>1. ContractOf(row).of = row.ref /\ ContractOf(row).plan = row.plan
    BY <1>3 DEF ContractOf
  <2>2. row.method = "PIX" => ContractOf(row).kind = "prepaid" /\ ContractOf(row).until = row.end
    BY <1>3 DEF ContractOf
  <2>3. row.method # "PIX" => ContractOf(row).kind = "recurring"
    BY <1>3 DEF ContractOf
  <2> QED BY <1>3, <2>1, <2>2, <2>3
<1> QED BY <1>0, <1>1, <1>2, <1>3

\* What is written about a payment leaves orders and agreements alone.
LEMMA WriteUnsold ==
    ASSUME BillingInv, SoldInv, [Next]_vars, NEW p \in Processes, Write(p)
    PROVE  Unsold
<1>0. Types /\ Placed /\ PostedOnce /\ Rows /\ now >= 1 /\ Agreements
  BY DEF BillingInv, CreditInv, SoldInv
<1>1. provider' = provider /\ now' = now
  BY DEF Write, remote
<1>2. ASSUME NEW a \in Attempts PROVE ~Made(a)
  <2>1. CASE attempt' = attempt
    BY <2>1 DEF Made
  <2>2. ASSUME NEW c, NEW att, NEW status, Ended(c, att, status) \/ Approve(c, att), c \in Attempts,
               attempt[c].status # "NONE"
        PROVE  ~Made(a)
    <3>1. ASSUME a # c PROVE attempt'[a] = attempt[a]
      BY <1>0, <2>2, <3>1 DEF Ended, Approve, Types
    <3> QED BY <2>2, <3>1 DEF Made
  <2>3. proc[p].a \in Attempts /\ attempt[proc[p].a].status # "NONE"
    BY <1>0, SyncingRow DEF Rows
  <2> QED BY <2>1, <2>2, <2>3, WriteForms, Zenon
          DEF PixCredited, CardOn, PixFails, CardFails, Fails, ReleaseAndEnd, PixStays, CardWaits, CardOff, CardStays
<1>3. Ordered' = Ordered
  BY <1>0, <1>2, OrderMoves DEF Ordered
<1>4. ASSUME NEW a \in Attempts PROVE ~PixPaid(a) /\ ~CardAuthorized(a)
  <2>1. proc'[p] = proc[p] => ~Write(p)
    BY <1>0, Leaving DEF Write, At
  <2> QED BY <2>1 DEF PixPaid, CardAuthorized, Moves
<1>5. AgreedTo' = AgreedTo
  BY <1>0, <1>4, AgreedMoves DEF AgreedTo
<1> QED BY <1>1, <1>3, <1>5 DEF Unsold

\* A Pix that is credited turns a paid order into days.
LEMMA CreditTurns ==
    ASSUME BillingInv, SoldInv, [Next]_vars, NEW p \in Processes, Write(p), PixCredited(p)
    PROVE  Contract!Next
<1> DEFINE a == proc[p].a
           end == PixEnd(proc[p].sub)
           old == ContractOf(sub)
<1>0. /\ Types /\ Placed /\ Rows /\ Paid /\ Credit /\ SubRows /\ Reading /\ Wanted /\ Kinds /\ ReadsWell
      /\ sub \in SubRow /\ proc[p].sub \in SubRow /\ now \in Nat /\ Month \in Nat
  BY Numbers DEF BillingInv, CreditInv, DaysInv, SoldInv, Types, Process
<1>1. /\ a \in Attempts /\ attempt[a].ref /\ attempt[a].status # "NONE" /\ attempt[a].method = "PIX"
      /\ proc[p].pc = "write" /\ proc[p].snap.status = "approved"
  BY <1>0, SyncingRow DEF Rows, PixCredited, IsPix, Write, At
<1>2. Ordered[a].method = "PIX" /\ Ordered[a].plan = proc[p].att.plan
  BY <1>0, <1>1 DEF Ordered, OrderOf, Wanted
<1>3. a \in AgreedTo \ Had
  BY <1>0, <1>1 DEF AgreedTo, Agreed, Had, Paid, Credit, IsPix
<1>4. Had' = Had \cup {a}
  <2>1. months' = [months EXCEPT ![a] = months[a] + 1] /\ months[a] = 0
    BY <1>0, <1>1 DEF PixCredited, Credit, IsPix
  <2> QED BY <1>0, <1>1, <2>1 DEF Had, Types
<1>5. ContractOf(sub') = Contract!Prepaid(proc[p].att.plan, end)
  BY DEF PixCredited, ContractOf, Contract!Prepaid
<1>6. end \in Nat /\ end >= now + Month
  BY <1>0 DEF PixEnd, SubRow
<1>7. old.kind = "prepaid" => end = Month + IF old.until > now THEN old.until ELSE now
  <2>1. old.kind = "prepaid" => sub.method = "PIX" /\ ~sub.courtesy /\ old.until = sub.end
    BY <1>0, Contracts
  <2> QED BY <1>0, <1>1, <2>1 DEF Reading, PixEnd
<1>8. old.kind = "recurring" => end = now + Month
  <2>1. old.kind = "recurring" => sub.status # "NONE" /\ ~sub.courtesy /\ sub.method # "PIX"
    BY <1>0, Contracts
  <2> QED BY <1>0, <1>1, <2>1 DEF ReadsWell, PixEnd, Keeps
<1>9. ContractOf(sub').until = end
  BY <1>5 DEF Contract!Prepaid
<1> HIDE DEF end, old
<1>10. Contract!TurnIntoDays(a)
  <2>1. Contract!RunsTo(end)
    BY <1>6, <1>7, <1>8 DEF Contract!RunsTo, old
  <2> QED BY <1>2, <1>3, <1>4, <1>5, <1>9, <2>1, WriteUnsold
          DEF Contract!TurnIntoDays, Unsold, Ordered, AgreedTo, Had
<1>11. \E o \in Attempts : Contract!TurnIntoDays(o)
  <2>1. a \in Attempts
    BY <1>1
  <2> HIDE DEF a
  <2> QED BY <1>10, <2>1, Zenon DEF Contract!TurnIntoDays
<1> QED BY <1>11, Zenon DEF Contract!Next

\* A recurrence that is written serves an order that was authorized, with its plan or the one it has.
LEMMA CardServes ==
    ASSUME BillingInv, SoldInv, [Next]_vars, NEW p \in Processes, Write(p), CardOn(p)
    PROVE  Contract!Next
<1> DEFINE a == proc[p].a
           plan == IF Owns(p) THEN proc[p].sub.plan ELSE proc[p].att.plan
           old == ContractOf(sub)
<1>0. Types /\ Placed /\ Rows /\ SubRows /\ Agreements /\ Wanted /\ Kinds /\ ReadsWell /\ sub \in SubRow
  BY DEF BillingInv, CreditInv, DaysInv, SoldInv, Types
<1>1. /\ a \in Attempts /\ attempt[a].ref /\ attempt[a].status # "NONE" /\ ~IsPix(a)
      /\ attempt[a].method \in Methods
      /\ proc[p].pc = "write" /\ proc[p].snap.status = "authorized"
  BY <1>0, SyncingRow DEF Rows, CardOn, Write, At, Types, AttemptRow
<1>2. Ordered[a].method = "CARD" /\ Ordered[a].plan = proc[p].att.plan
  BY <1>0, <1>1 DEF Ordered, OrderOf, Wanted, IsPix, Methods
<1>3. a \in AgreedTo
  BY <1>0, <1>1 DEF AgreedTo, Agreed, Agreements
<1>4. Had' = Had
  BY DEF CardOn, Had
<1>5. ContractOf(sub') = Contract!Recurring(a, plan)
  BY DEF CardOn, CardAuthorizedSub, ContractOf, Contract!Recurring
<1>6. ContractOf(sub').plan = plan
  BY <1>5 DEF Contract!Recurring
<1>7. Owns(p) => plan \in Plans
  BY <1>0, <1>1, Numbers DEF Owns, Wanted
<1>8. ~Owns(p) => plan = Ordered[a].plan
  BY <1>2
<1>9. sub.status # "NONE" /\ ~sub.courtesy => (Owns(p) <=> sub.ref = a) /\ (Owns(p) => plan = sub.plan)
  BY <1>0, <1>1 DEF ReadsWell, Owns
<1> HIDE DEF plan
<1>10. plan \in IF old.kind \in {"none", "gift"} THEN Plans \cup {Ordered[a].plan}
                ELSE IF old.of = a THEN {old.plan} ELSE {Ordered[a].plan}
  <2>1. CASE old.kind \in {"none", "gift"}
    BY <1>7, <1>8, <2>1
  <2>2. CASE old.kind \notin {"none", "gift"}
    <3>1. sub.status # "NONE" /\ ~sub.courtesy
      BY <1>0, <2>2, Contracts
    <3>2. old.of = sub.ref /\ old.plan = sub.plan
      BY <1>0, <3>1, Contracts
    <3> HIDE DEF old
    <3> QED BY <1>8, <1>9, <2>2, <3>1, <3>2
  <2> QED BY <2>1, <2>2
<1>11. Contract!Serve(a)
  BY <1>2, <1>3, <1>4, <1>5, <1>6, <1>10, WriteUnsold
     DEF Contract!Serve, Unsold, Ordered, AgreedTo, Had
<1> QED BY <1>1, <1>11, Zenon DEF Contract!Next

\* A contract that is to end is the same contract otherwise.
LEMMA Ending ==
    ASSUME NEW row \in SubRow, NEW flag
    PROVE  ContractOf([row EXCEPT !.cancel = flag]) = [ContractOf(row) EXCEPT !.ending = flag]
<1> DEFINE x == [row EXCEPT !.cancel = flag]
<1>1. /\ x.status = row.status /\ x.courtesy = row.courtesy /\ x.method = row.method
      /\ x.ref = row.ref /\ x.plan = row.plan /\ x.end = row.end /\ x.cancel = flag
  BY DEF SubRow
<1> HIDE DEF x
<1>2. ContractOf(x) = [ContractOf(row) EXCEPT !.ending = flag]
  BY <1>1 DEF ContractOf
<1> QED BY <1>2 DEF x

\* What the owner, the platform and the provider's pauses and ends do to a contract.
LEMMA OwnerSells ==
    ASSUME BillingInv, SoldInv,
           \/ \E p \in Workers : CancelFlag(p) \/ ChangeCommit(p) \/ GrantCommit(p)
           \/ RemoveCourtesy
    PROVE  Contract!Next \/ UNCHANGED Contract!all
<1>0. /\ SubRows /\ Wanted /\ Kinds /\ sub \in SubRow /\ Workers \subseteq Processes
  BY DEF BillingInv, DaysInv, SoldInv, Types, Processes
<1>1. Unsold /\ Had' = Had
  BY DEF CancelFlag, ChangeCommit, GrantCommit, RemoveCourtesy, remote,
         Unsold, Ordered, AgreedTo, Agreed, IsPix, Had
<1>2. CASE sub' = sub
  BY <1>1, <1>2 DEF Contract!all, Unsold, Ordered, AgreedTo, Had
<1>3. ASSUME sub' = [sub EXCEPT !.cancel = TRUE], sub.status # "NONE" PROVE Contract!Next
  <2>1. ContractOf(sub') = [ContractOf(sub) EXCEPT !.ending = TRUE]
    BY <1>0, <1>3, Ending
  <2>2. ContractOf(sub).kind # "none"
    BY <1>3 DEF ContractOf
  <2>3. Contract!End
    BY <1>1, <2>1, <2>2 DEF Contract!End, Unsold, Ordered, AgreedTo, Had
  <2> QED BY <2>3, Zenon DEF Contract!Next
<1>4. ASSUME NEW plan \in Plans, sub' = [sub EXCEPT !.plan = plan], sub.status # "NONE", ~sub.courtesy
      PROVE  Contract!Next
  <2>1. ContractOf(sub') = [ContractOf(sub) EXCEPT !.plan = plan]
    BY <1>0, <1>4 DEF ContractOf, SubRow
  <2>2. ContractOf(sub).kind \in {"prepaid", "recurring"}
    BY <1>0, <1>4, Contracts
  <2>3. Contract!Switch(plan)
    BY <1>1, <2>1, <2>2 DEF Contract!Switch, Unsold, Ordered, AgreedTo, Had
  <2> QED BY <1>4, <2>3, Zenon DEF Contract!Next
<1>5. ASSUME NEW plan \in Plans, NEW end,
             sub' = [sub EXCEPT !.status = "ACTIVE", !.plan = plan, !.courtesy = TRUE, !.end = end,
                                !.cancel = FALSE]
      PROVE  Contract!Next
  <2>1. ContractOf(sub') = Contract!Gift(plan)
    BY <1>0, <1>5 DEF ContractOf, Contract!Gift, SubRow
  <2>2. Contract!Give(plan)
    BY <1>1, <2>1 DEF Contract!Give, Unsold, Ordered, AgreedTo, Had
  <2> QED BY <1>5, <2>2, Zenon DEF Contract!Next
<1>6. CASE RemoveCourtesy
  <2>1. sub.status # "NONE" /\ sub.courtesy
    BY <1>0, <1>6 DEF RemoveCourtesy, SubRows, NoSub
  <2>2. ContractOf(sub).kind = "gift"
    BY <1>0, <2>1, Contracts
  <2>3. ContractOf(sub') = Contract!None
    BY <1>6 DEF RemoveCourtesy, NoSub, NoEnd, ContractOf, Contract!None
  <2>4. Contract!TakeBack
    BY <1>1, <2>2, <2>3 DEF Contract!TakeBack, Unsold, Ordered, AgreedTo, Had
  <2> QED BY <2>4, Zenon DEF Contract!Next
<1>7. ASSUME NEW p \in Workers, CancelFlag(p) PROVE Contract!Next \/ UNCHANGED Contract!all
  BY <1>2, <1>3, <1>7 DEF CancelFlag
<1>8. ASSUME NEW p \in Workers, ChangeCommit(p) PROVE Contract!Next \/ UNCHANGED Contract!all
  <2>1. proc[p].plan \in Plans
    BY <1>0, <1>8 DEF ChangeCommit, At, Wanted
  <2>2. sub' = sub \/ (/\ sub' = [sub EXCEPT !.plan = proc[p].plan]
                       /\ sub.status # "NONE" /\ ~sub.courtesy)
    BY <1>8 DEF ChangeCommit
  <2> QED BY <1>2, <1>4, <2>1, <2>2
<1>9. ASSUME NEW p \in Workers, GrantCommit(p) PROVE Contract!Next
  <2>1. proc[p].plan \in Plans
    BY <1>0, <1>9 DEF GrantCommit, At, Wanted
  <2> QED BY <1>5, <1>9, <2>1 DEF GrantCommit
<1> QED BY <1>6, <1>7, <1>8, <1>9


LEMMA ProviderEnds ==
    ASSUME BillingInv, SoldInv, [Next]_vars, NEW p \in Processes, Write(p), CardWaits(p) \/ CardOff(p)
    PROVE  Contract!Next \/ UNCHANGED Contract!all
<1>0. Types /\ Placed /\ Kinds /\ ReadsWell /\ sub \in SubRow
  BY DEF BillingInv, SoldInv, Types
<1>1. Unsold /\ Had' = Had
  BY WriteUnsold DEF CardWaits, CardOff, Had
<1>2. CASE ContractOf(sub') = ContractOf(sub)
  BY <1>1, <1>2 DEF Contract!all, Unsold, Ordered, AgreedTo, Had
<1>3. CASE sub' = sub
  BY <1>2, <1>3
<1>4. ASSUME NEW end, sub' = [sub EXCEPT !.status = "PAST_DUE", !.end = end], sub.status # "NONE", Owns(p)
      PROVE  ContractOf(sub') = ContractOf(sub)
  <2>1. proc[p].a # NoAttempt /\ proc[p].pc = "write"
    BY <1>0, SyncingRow, Numbers DEF Write, At
  <2>2. ~sub.courtesy => sub.method # "PIX"
    BY <1>0, <1>4, <2>1 DEF ReadsWell, Kinds, Owns
  <2>3. /\ sub'.status # "NONE" /\ sub'.courtesy = sub.courtesy /\ sub'.method = sub.method
        /\ sub'.ref = sub.ref /\ sub'.plan = sub.plan /\ sub'.cancel = sub.cancel
    BY <1>0, <1>4 DEF SubRow
  <2> QED BY <1>4, <2>2, <2>3 DEF ContractOf
<1>5. CASE CardWaits(p)
  BY <1>2, <1>3, <1>4, <1>5 DEF CardWaits, Update
<1>6. ASSUME sub' = [sub EXCEPT !.cancel = TRUE], sub.status # "NONE" PROVE Contract!Next
  <2>1. ContractOf(sub') = [ContractOf(sub) EXCEPT !.ending = TRUE]
    BY <1>0, <1>6, Ending
  <2>2. ContractOf(sub).kind # "none"
    BY <1>6 DEF ContractOf
  <2>3. Contract!End
    BY <1>1, <2>1, <2>2 DEF Contract!End, Unsold, Ordered, AgreedTo, Had
  <2> QED BY <2>3, Zenon DEF Contract!Next
<1>7. CASE CardOff(p)
  BY <1>3, <1>6, <1>7 DEF CardOff, Update
<1> QED BY <1>5, <1>7

\* What leaves the contract alone is an order, an agreement, a day that passes, or nothing.
LEMMA OthersSell ==
    ASSUME BillingInv, SoldInv, [Next]_vars, sub' = sub, months' = months
    PROVE  Contract!Next \/ UNCHANGED Contract!all
<1>0. /\ Types /\ Placed /\ PostedOnce /\ Rows /\ now >= 1 /\ Agreements
      /\ ContractOf(sub') = ContractOf(sub) /\ Had' = Had
  BY DEF BillingInv, CreditInv, SoldInv, Had
<1>1. ASSUME NEW a \in Attempts, Made(a) PROVE Contract!Next
  <2>1. PICK p \in Workers, method \in Methods, plan \in Plans, typed \in BOOLEAN :
           CheckoutBegin(p, a, method, plan, typed)
    BY <1>1 DEF Made
  <2>2. provider' = provider /\ now' = now
    BY <2>1 DEF CheckoutBegin, remote
  <2>3. Ordered' = [Ordered EXCEPT ![a] = [method |-> method, plan |-> plan]]
    <3>1. /\ OrderOf(attempt'[a]) = [method |-> method, plan |-> plan]
          /\ \A b \in Attempts \ {a} : attempt'[b] = attempt[b]
      BY <1>0, <2>1, CheckoutPlan DEF OrderOf
    <3> QED BY <3>1 DEF Ordered
  <2>4. ~attempt[a].ref /\ ~attempt'[a].ref
    BY <1>0, <1>1 DEF Rows, Made
  <2>5. ASSUME NEW b \in Attempts PROVE Agreed(b)' <=> Agreed(b)
    <3>1. CASE b = a
      <4>1. provider[a].next = NoEnd /\ ~provider[a].charged
        BY <1>0, <2>4 DEF Agreements
      <4> QED BY <2>2, <3>1, <4>1 DEF Agreed
    <3>2. CASE b # a
      <4>1. attempt'[b] = attempt[b]
        BY <1>0, <2>1, <3>2, CheckoutPlan
      <4> QED BY <2>2, <4>1 DEF Agreed, IsPix
    <3> QED BY <3>1, <3>2
  <2>6. AgreedTo' = AgreedTo
    BY <2>5 DEF AgreedTo
  <2>7. Contract!Open(a)
    BY <1>1 DEF Contract!Open, Made, OrderOf
  <2>8. Contract!Order(a, method, plan)
    BY <1>0, <2>2, <2>3, <2>6, <2>7 DEF Contract!Order, Ordered, AgreedTo, Had
  <2>9. method \in {"PIX", "CARD"}
    BY DEF Methods
  <2> QED BY <2>8, <2>9, Zenon DEF Contract!Next
<1>2. ASSUME NEW a \in Attempts, PixPaid(a) \/ CardAuthorized(a) PROVE Contract!Next
  <2>1. attempt' = attempt /\ now' = now
    BY <1>2 DEF PixPaid, CardAuthorized, Moves, local
  <2>2. \E x : provider' = [provider EXCEPT ![a] = x]
    BY <1>2 DEF PixPaid, CardAuthorized, Moves
  <2>3. ASSUME NEW b \in Attempts, b # a PROVE Agreed(b)' <=> Agreed(b)
    <3>1. provider'[b] = provider[b]
      BY <2>2, <2>3, <1>0 DEF Types
    <3> QED BY <2>1, <3>1 DEF Agreed, IsPix
  <2>4. Agreed(a)'
    <3>1. CASE PixPaid(a)
      <4>1. provider'[a].charged
        BY <1>0, <3>1 DEF PixPaid, Moves, Types, Object
      <4> QED BY <2>1, <3>1, <4>1 DEF Agreed, IsPix, PixPaid
    <3>2. CASE CardAuthorized(a)
      <4>1. provider'[a].next = now + Month
        BY <1>0, <3>2 DEF CardAuthorized, Moves, Types, Object
      <4>2. provider'[a].next # NoEnd
        BY <1>0, <4>1, Numbers DEF NoEnd, Types
      <4> QED BY <2>1, <3>2, <4>2 DEF Agreed, IsPix, CardAuthorized
    <3> QED BY <1>2, <3>1, <3>2
  <2>5. AgreedTo' = AgreedTo \cup {a}
    BY <2>3, <2>4 DEF AgreedTo
  <2>6. ~Contract!Open(a)
    <3>1. attempt[a].ref
      BY <1>2 DEF PixPaid, CardAuthorized
    <3>2. attempt[a].status # "NONE" /\ attempt[a].method # "none"
      BY <1>0, <3>1 DEF Rows, Types, AttemptRow, Methods
    <3> QED BY <3>2 DEF Contract!Open, OrderOf
  <2>7. Contract!Agree(a)
    BY <1>0, <2>1, <2>5, <2>6 DEF Contract!Agree, Ordered, AgreedTo, Had
  <2> QED BY <2>7, Zenon DEF Contract!Next
<1>3. CASE Tick
  <2>1. attempt' = attempt /\ provider' = provider /\ now' = now + 1
    BY <1>3 DEF Tick, local, remote
  <2>2. Ordered' = Ordered /\ AgreedTo' = AgreedTo
    BY <2>1 DEF Ordered, AgreedTo, Agreed, IsPix
  <2>3. Contract!DayPasses
    BY <1>0, <2>1, <2>2 DEF Contract!DayPasses, Ordered, AgreedTo, Had
  <2> QED BY <2>3, Zenon DEF Contract!Next
<1>4. ASSUME \A a \in Attempts : ~Made(a) /\ ~PixPaid(a) /\ ~CardAuthorized(a), ~Tick
      PROVE  UNCHANGED Contract!all
  <2>1. Ordered' = Ordered
    BY <1>0, <1>4, OrderMoves DEF Ordered
  <2>2. AgreedTo' = AgreedTo
    BY <1>0, <1>4, AgreedMoves DEF AgreedTo
  <2>3. now' = now
    BY <1>4, TimeMoves
  <2> QED BY <1>0, <2>1, <2>2, <2>3 DEF Contract!all, Ordered, AgreedTo, Had
<1> QED BY <1>1, <1>2, <1>3, <1>4

LEMMA SaleRefines == BillingInv /\ SoldInv /\ [Next]_vars => Contract!Next \/ UNCHANGED Contract!all
<1> SUFFICES ASSUME BillingInv, SoldInv, [Next]_vars PROVE Contract!Next \/ UNCHANGED Contract!all
  OBVIOUS
<1> QED BY SubWriters, CreditTurns, CardServes, ProviderEnds, OwnerSells, OthersSell, Zenon

\* The payments implement Subscription: whatever notifications, polls, jobs and requests read and
\* write, and in whatever order, what the salon has is what was ordered, agreed to and not had before,
\* switched or given since (applyPixPayment, applyPreapproval, cancel, changePlan, and the courtesies).
THEOREM BillingImplementsSubscription == Spec => ImplementsSubscription
<1>1. Init => Contract!Init
  <2> SUFFICES ASSUME Init PROVE Contract!Init
    OBVIOUS
  <2>1. Ordered = [a \in Attempts |-> [method |-> "none", plan |-> NoAttempt]]
    BY DEF Init, Ordered, OrderOf, NoRow
  <2>2. AgreedTo = {} /\ Had = {}
    BY DEF Init, AgreedTo, Agreed, Had, NoObject, NoEnd
  <2>3. ContractOf(sub) = Contract!None /\ now = 1
    BY DEF Init, NoSub, NoEnd, ContractOf, Contract!None
  <2> QED BY <2>1, <2>2, <2>3 DEF Contract!Init, Ordered, AgreedTo, Had
<1>2. BillingInv /\ SoldInv /\ [Next]_vars => [Contract!Next]_Contract!all
  BY SaleRefines
<1> QED BY <1>1, <1>2, SoldAlways, PTL DEF Spec, ImplementsSubscription, Contract!Spec
=============================================================================
