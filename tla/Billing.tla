------------------------------ MODULE Billing ------------------------------
(***************************************************************************)
(* How a salon pays for its plan: payments.service.ts, with the courtesy   *)
(* plans of platform-admin.service.ts and the one coupon the salon may     *)
(* use.  One tenant is modelled: all of this state, and the advisory lock  *)
(* billing:<tenant>, is per tenant.                                        *)
(*                                                                         *)
(* The provider (Mercado Pago) is external: what the code tells it and     *)
(* asks of it, and the notifications it sends back until one is answered   *)
(* with 200.  HTTP requests and webhook deliveries run in Workers, the     *)
(* hourly job in Cron.  A process gives way to the others at every call to *)
(* the provider, on entering and on leaving a locked transaction, and      *)
(* between the reads and the writes of a transaction without the lock.     *)
(***************************************************************************)
EXTENDS Integers, FiniteSets

CONSTANTS
    Attempts,       \* ids that rows of the BillingAttempt table may get
    Workers,        \* HTTP requests that may be in progress at once
    Cron,           \* the hourly expireStaleAttempts
    Plans,
    Operations,     \* what owner, provider and platform do in a run (a bound)
    Month, RenewalWindow, PixValidity, CardTtl,
    LastTick,       \* the clock stops here (a bound)
    MaxRedemptions, \* rows the coupon redemption may go through (a bound)
    NoAttempt, NoWorker, NoPlan

ASSUME BillingAssumption ==
    /\ {Month, RenewalWindow, PixValidity, CardTtl, LastTick, MaxRedemptions} \subseteq Nat
    /\ Cron \notin Workers /\ NoWorker \notin Workers \cup {Cron}
    /\ NoAttempt \notin Attempts /\ Attempts # {} /\ NoPlan \notin Plans

VARIABLES
    sub,        \* the row of Subscription
    attempt,    \* attempt[a]: a row of BillingAttempt
    coupon,     \* the salon's CouponRedemption row and its share of redemptionCount
    provider,   \* provider[a]: the payment or preapproval created for attempt a
    notices,    \* attempts with a provider notification not yet answered with 200
    lock,       \* who holds the advisory lock billing:<tenant>
    proc,       \* proc[p]: where process p stands and what it has read
    now,        \* the clock
    months,     \* history: months of access credited for the Pix of attempt a
    blind,      \* history: attempts whose expiry found the provider out of reach
    stale       \* history: attempts whose last picture was old when it was applied

vars == <<sub, attempt, coupon, provider, notices, lock, proc, now, months, blind, stale>>
remote == <<provider, notices>>
local  == <<sub, attempt, coupon, months, stale>>

Processes == Workers \cup {Cron}
Methods == {"PIX", "CARD"}
NoEnd == 0      \* currentPeriodEnd = null; the clock starts after it
Times == 0 .. LastTick + Month * Cardinality(Attempts)

NoSub == [status |-> "NONE", plan |-> NoPlan, courtesy |-> FALSE, method |-> "NONE",
          ref |-> NoAttempt, end |-> NoEnd, cancel |-> FALSE]
NoRow == [status |-> "NONE", method |-> "PIX", plan |-> NoPlan, discount |-> FALSE,
          redemption |-> 0, reserved |-> FALSE, ref |-> FALSE, until |-> 0]
NoObject == [status |-> "none", next |-> 0, charged |-> FALSE, plan |-> NoPlan,
             discount |-> FALSE]
IdleProc == [pc |-> "idle", op |-> "none", a |-> NoAttempt, plan |-> NoPlan,
             snap |-> NoObject, att |-> NoRow, sub |-> NoSub, seen |-> FALSE]

Subs == [status : {"NONE", "ACTIVE", "PAST_DUE"}, plan : Plans \cup {NoPlan},
         courtesy : BOOLEAN, method : Methods \cup {"NONE"},
         ref : Attempts \cup {NoAttempt}, end : Times, cancel : BOOLEAN]
AttemptRows ==
        [status : {"NONE", "PENDING", "APPROVED", "FAILED", "EXPIRED"}, method : Methods,
         plan : Plans \cup {NoPlan}, discount : BOOLEAN, redemption : 0 .. MaxRedemptions,
         reserved : BOOLEAN, ref : BOOLEAN, until : Nat]
Objects ==
        [status : {"none", "pending", "approved", "rejected", "authorized", "paused",
                   "cancelled"},
         next : Times, charged : BOOLEAN, plan : Plans \cup {NoPlan}, discount : BOOLEAN]

TypeOK ==
    /\ sub \in Subs
    /\ attempt \in [Attempts -> AttemptRows]
    /\ coupon \in [row : 0 .. MaxRedemptions, applied : BOOLEAN, count : Nat,
                   last : 0 .. MaxRedemptions]
    /\ provider \in [Attempts -> Objects]
    /\ notices \subseteq Attempts
    /\ lock \in Processes \cup {NoWorker}
    /\ proc \in [Processes ->
                   [pc : {"idle", "post", "fetch", "enter", "write", "after", "reread",
                          "find", "expire", "call", "flag", "reprice", "commit", "grant"},
                    op : {"none", "checkout", "webhook", "poll", "cron", "cancel",
                          "change", "courtesy"},
                    a : Attempts \cup {NoAttempt}, plan : Plans \cup {NoPlan},
                    snap : Objects, att : AttemptRows, sub : Subs, seen : BOOLEAN]]
    /\ now \in Nat
    /\ months \in [Attempts -> Nat]
    /\ blind \subseteq Attempts
    /\ stale \subseteq Attempts

-----------------------------------------------------------------------------
(* Processes *)

At(p, pc) == proc[p].pc = pc
Finish(p) == proc' = [proc EXCEPT ![p] = IdleProc]

\* A synchronisation is over: the hourly job goes on to expire the attempt.
Done(p) ==
    proc' = [proc EXCEPT ![p] =
        IF proc[p].op = "cron"
          THEN [IdleProc EXCEPT !.pc = "reread", !.op = "cron", !.a = proc[p].a]
          ELSE IdleProc]

\* The server dies: transactions roll back, the provider will notify again.
Crash(p) ==
    /\ "crash" \in Operations
    /\ ~At(p, "idle")
    /\ Finish(p)
    /\ lock' = IF lock = p THEN NoWorker ELSE lock
    /\ notices' = IF proc[p].op = "webhook" THEN notices \cup {proc[p].a} ELSE notices
    /\ UNCHANGED <<local, provider, now, blind>>

-----------------------------------------------------------------------------
(* Coupons *)

\* chooseCoupon: a code already used is refused, a redemption not yet spent is
\* used again, a code never redeemed takes a new use ("new").
Choice(typed) ==
    IF coupon.row # 0 /\ ~coupon.applied THEN "existing"
    ELSE IF ~typed THEN "none"
    ELSE IF coupon.row # 0 THEN "refused" ELSE "new"

\* reserve and couponRedemption.create.
Reserve == [row |-> coupon.last + 1, applied |-> FALSE, count |-> coupon.count + 1,
            last |-> coupon.last + 1]

\* couponRedemption.updateMany({ id, appliedAt: null }).
Spend(att) ==
    IF att.redemption # 0 /\ coupon.row = att.redemption
      THEN [coupon EXCEPT !.applied = TRUE] ELSE coupon

\* Does releaseCoupon find a redemption of this attempt to give back?
Returnable(att) ==
    att.reserved /\ att.redemption # 0 /\ coupon.row = att.redemption /\ ~coupon.applied

\* The row goes and the use comes back: GREATEST(redemptionCount - 1, 0).
GiveBack(att) ==
    [coupon EXCEPT !.row = 0, !.applied = FALSE, !.count = IF @ > 0 THEN @ - 1 ELSE 0]

\* The end of an attempt that was not paid: couponReserved and couponRedemptionId go.
Ended(a, att, status) ==
    attempt' = [attempt EXCEPT
        ![a].status     = status,
        ![a].redemption = IF att.reserved THEN 0 ELSE @,
        ![a].reserved   = IF att.reserved THEN FALSE ELSE @]

ReleaseAndEnd(a, att, status) ==
    /\ coupon' = IF Returnable(att) THEN GiveBack(att) ELSE coupon
    /\ Ended(a, att, status)

-----------------------------------------------------------------------------
(* Checkout: startCard and startPix *)

StillRunning == ~sub.cancel \/ sub.end = NoEnd \/ sub.end > now

\* assertCanStart
CanStart(method) ==
    \/ sub.status = "NONE" \/ sub.courtesy
    \/ sub.method = "CARD" /\ ~StillRunning
    \/ sub.method = "PIX" /\ sub.end - now <= RenewalWindow

\* createAttempt, one transaction under the lock.
CheckoutBegin(p, a, method, plan, typed) ==
    LET choice == Choice(typed) IN
    /\ "checkout" \in Operations
    /\ attempt[a].status = "NONE"
    /\ lock = NoWorker
    /\ CanStart(method)
    /\ choice # "refused"
    /\ typed => "coupon" \in Operations
    /\ choice = "new" => coupon.last < MaxRedemptions   \* a bound
    /\ coupon' = IF choice = "new" THEN Reserve ELSE coupon
    /\ attempt' = [attempt EXCEPT ![a] =
           [status |-> "PENDING", method |-> method, plan |-> plan,
            discount |-> choice # "none",
            redemption |-> IF choice = "none" THEN 0 ELSE coupon'.row,
            reserved |-> choice = "new", ref |-> FALSE,
            until |-> now + IF method = "PIX" THEN PixValidity ELSE CardTtl]]
    /\ At(p, "idle")
    /\ proc' = [proc EXCEPT ![p] = [IdleProc EXCEPT !.pc = "post", !.op = "checkout", !.a = a]]
    /\ UNCHANGED <<sub, months, stale, remote, lock, now, blind>>

\* The provider creates the object and the owner gets the link or the QR code.
CheckoutPosted(p) ==
    LET a == proc[p].a IN
    /\ At(p, "post")
    /\ provider' = [provider EXCEPT ![a] =
           [NoObject EXCEPT !.status = "pending", !.plan = attempt[a].plan,
                            !.discount = attempt[a].discount]]
    /\ attempt' = [attempt EXCEPT ![a].ref = TRUE]
    /\ Finish(p)
    /\ UNCHANGED <<sub, coupon, months, stale, notices, lock, now, blind>>

\* failAttempt: the call, or the write of its answer, went wrong.
CheckoutFailed(p) ==
    LET a == proc[p].a IN
    /\ At(p, "post")
    /\ IF attempt[a].status = "PENDING"
         THEN ReleaseAndEnd(a, attempt[a], "FAILED")
         ELSE UNCHANGED <<attempt, coupon>>
    /\ Finish(p)
    /\ UNCHANGED <<sub, months, stale, remote, lock, now, blind>>

-----------------------------------------------------------------------------
(* The provider *)

Moves(a, object) ==
    /\ provider' = [provider EXCEPT ![a] = object]
    /\ notices' = notices \cup {a}
    /\ UNCHANGED <<local, lock, proc, now, blind>>

Becomes(a, from, to) ==
    /\ provider[a].status \in from
    /\ Moves(a, [provider[a] EXCEPT !.status = to])

IsPix(a) == attempt[a].method = "PIX"

PixPaid(a) ==
    /\ IsPix(a) /\ attempt[a].ref /\ provider[a].status = "pending"
    /\ now <= attempt[a].until
    /\ Moves(a, [provider[a] EXCEPT !.status = "approved", !.charged = TRUE])

\* Rejected, cancelled, refunded or charged back.
PixRejected(a) == IsPix(a) /\ Becomes(a, {"pending", "approved"}, "rejected")

CardAuthorized(a) ==
    /\ ~IsPix(a) /\ attempt[a].ref /\ provider[a].status = "pending"
    /\ Moves(a, [provider[a] EXCEPT !.status = "authorized", !.next = now + Month])

CardCharged(a) ==
    /\ ~IsPix(a) /\ provider[a].status = "authorized"
    /\ ~provider[a].charged \/ provider[a].next <= now
    /\ Moves(a, [provider[a] EXCEPT !.charged = TRUE,
                                    !.next = IF provider[a].charged THEN @ + Month ELSE @])

CardPaused(a)    == "pause" \in Operations /\ ~IsPix(a) /\ Becomes(a, {"authorized"}, "paused")
CardResumed(a)   == ~IsPix(a) /\ Becomes(a, {"paused"}, "authorized")
CardCancelled(a) == ~IsPix(a) /\ Becomes(a, {"pending", "authorized", "paused"}, "cancelled")

\* cancelPreapproval, called by the code.
CancelObject(a) ==
    IF provider[a].status \in {"pending", "authorized", "paused"}
      THEN /\ provider' = [provider EXCEPT ![a].status = "cancelled"]
           /\ notices' = notices \cup {a}
      ELSE UNCHANGED remote

-----------------------------------------------------------------------------
(* Synchronisation: syncAttempt *)

\* handleNotification: the notification only says which attempt to look at.
Webhook(p, a) ==
    /\ a \in notices
    /\ notices' = notices \ {a}
    /\ At(p, "idle")
    /\ IF attempt[a].ref
         THEN proc' = [proc EXCEPT ![p] =
                  [IdleProc EXCEPT !.pc = "fetch", !.op = "webhook", !.a = a]]
         ELSE UNCHANGED proc
    /\ UNCHANGED <<local, provider, lock, now, blind>>

\* getAttempt (the page waiting for a pending attempt) and syncCardForTenant.
Poll(p, a) ==
    /\ "poll" \in Operations
    /\ attempt[a].ref
    /\ \/ attempt[a].status = "PENDING"
       \/ attempt[a].method = "CARD" /\ sub.ref \in {a, NoAttempt}
    /\ At(p, "idle")
    /\ proc' = [proc EXCEPT ![p] = [IdleProc EXCEPT !.pc = "fetch", !.op = "poll", !.a = a]]
    /\ UNCHANGED <<local, remote, lock, now, blind>>

\* expireStaleAttempts, were it to expire without reading the provider.
CronBeginUnread(a) ==
    /\ "expire" \in Operations
    /\ attempt[a].status = "PENDING" /\ attempt[a].until < now
    /\ At(Cron, "idle")
    /\ proc' = [proc EXCEPT ![Cron] =
           [IdleProc EXCEPT !.pc = "reread", !.op = "cron", !.a = a]]
    /\ UNCHANGED <<local, remote, lock, now, blind>>
\* expireStaleAttempts, for one of the attempts it found.
CronBegin(a) ==
    /\ "expire" \in Operations
    /\ attempt[a].status = "PENDING" /\ attempt[a].until < now
    /\ At(Cron, "idle")
    /\ proc' = [proc EXCEPT ![Cron] =
           [IdleProc EXCEPT !.pc = IF attempt[a].ref THEN "fetch" ELSE "reread",
                            !.op = "cron", !.a = a]]
    /\ UNCHANGED <<local, remote, lock, now, blind>>

\* getPayment or getPreapproval: a picture of the provider, taken without the lock.
Fetch(p) ==
    /\ At(p, "fetch")
    /\ proc' = [proc EXCEPT ![p].pc = "enter", ![p].snap = provider[proc[p].a]]
    /\ UNCHANGED <<local, remote, lock, now, blind>>

\* No answer from the provider, were the notification answered with 200 all the same.
UnansweredButAcknowledged(p) ==
    /\ At(p, "fetch")
    /\ blind' = IF p = Cron THEN blind \cup {proc[p].a} ELSE blind
    /\ UNCHANGED <<local, remote, lock, now>>
\* The provider does not answer: 503 to a notification, which will come again; the
\* hourly job logs it.
Unanswered(p) ==
    /\ At(p, "fetch")
    /\ notices' = IF proc[p].op = "webhook" THEN notices \cup {proc[p].a} ELSE notices
    /\ blind' = IF p = Cron THEN blind \cup {proc[p].a} ELSE blind
    /\ UNCHANGED <<local, provider, lock, now>>
\* The hourly job, were an unreachable provider to end its round.
FetchFailedEndsRound(p) == Unanswered(p) /\ Finish(p)
FetchFailed(p) == Unanswered(p) /\ Done(p)

\* The rows as they are now, to be worked on until Write.
Reads(p) ==
    proc' = [proc EXCEPT ![p].pc = "write", ![p].att = attempt[proc[p].a], ![p].sub = sub]

\* The transaction begins, were it not to take the lock.
EnterUnlocked(p) ==
    /\ At(p, "enter")
    /\ IF IsPix(proc[p].a) /\ attempt[proc[p].a].status # "PENDING" THEN Done(p) ELSE Reads(p)
    /\ UNCHANGED <<local, remote, lock, now, blind>>
\* The transaction begins, were it not to look at the status of the attempt again.
EnterWhateverStatus(p) ==
    /\ At(p, "enter")
    /\ lock = NoWorker
    /\ lock' = p
    /\ Reads(p)
    /\ UNCHANGED <<local, remote, now, blind>>
\* applyPixPayment and applyPreapproval take the lock and read the rows again.
Enter(p) ==
    /\ At(p, "enter")
    /\ lock = NoWorker
    /\ IF IsPix(proc[p].a) /\ attempt[proc[p].a].status # "PENDING"
         THEN Done(p) /\ UNCHANGED lock
         ELSE Reads(p) /\ lock' = p
    /\ UNCHANGED <<local, remote, now, blind>>

Approve(a, att) ==
    /\ attempt' = [attempt EXCEPT ![a].status = "APPROVED"]
    /\ coupon' = Spend(att)

Keeps(read) == read.status # "NONE" /\ ~read.courtesy /\ read.method = "PIX"
\* nextPeriodStart and addOneMonth: who pays before the end keeps the days left.
PixEnd(read) == Month + IF Keeps(read) /\ read.end > now THEN read.end ELSE now

ApplyPix(p) ==
    LET a == proc[p].a   att == proc[p].att   read == proc[p].sub IN
    CASE proc[p].snap.status = "approved" ->
           /\ sub' = [status |-> "ACTIVE", plan |-> att.plan, courtesy |-> FALSE,
                      method |-> "PIX", ref |-> NoAttempt, end |-> PixEnd(read),
                      cancel |-> FALSE]
           /\ Approve(a, att)
           /\ months' = [months EXCEPT ![a] = @ + 1]
           /\ IF read.ref # NoAttempt THEN proc' = [proc EXCEPT ![p].pc = "after"] ELSE Done(p)
      [] proc[p].snap.status = "rejected" ->
           ReleaseAndEnd(a, att, "FAILED") /\ Done(p) /\ UNCHANGED <<sub, months>>
      [] OTHER -> Done(p) /\ UNCHANGED <<sub, attempt, coupon, months>>

Owns(p) == proc[p].sub.ref = proc[p].a

\* The discount is over, but the recurrence still has its amount, and the plan is
\* still the one of the attempt.
PriceToRestore(p) ==
    LET snap == proc[p].snap   att == proc[p].att IN
    /\ Owns(p) => proc[p].sub.plan = att.plan
    /\ att.discount /\ snap.charged
    /\ snap.discount \/ snap.plan # att.plan

\* What it writes, were a plan switched meanwhile to give way to the one ordered.
CardAuthorizedSubAsOrdered(p, dated) ==
    LET read == proc[p].sub IN
    [status |-> "ACTIVE", plan |-> proc[p].att.plan, courtesy |-> FALSE, method |-> "CARD",
     ref |-> proc[p].a,
     end |-> IF dated THEN proc[p].snap.next ELSE IF Owns(p) THEN read.end ELSE now + Month,
     cancel |-> FALSE]
\* What an authorized recurrence writes.
CardAuthorizedSub(p, dated) ==
    LET read == proc[p].sub IN
    [status |-> "ACTIVE", plan |-> IF Owns(p) THEN read.plan ELSE proc[p].att.plan,
     courtesy |-> FALSE, method |-> "CARD", ref |-> proc[p].a,
     end |-> IF dated THEN proc[p].snap.next ELSE IF Owns(p) THEN read.end ELSE now + Month,
     cancel |-> FALSE]

\* subscription.update: the row may have gone with a courtesy removed meanwhile.
Update(row) == sub' = IF sub.status = "NONE" THEN sub ELSE row

ApplyCard(p) ==
    LET a == proc[p].a   att == proc[p].att   pending == att.status = "PENDING" IN
    CASE proc[p].snap.status = "authorized" ->
           /\ \E dated \in BOOLEAN : sub' = CardAuthorizedSub(p, dated)
           /\ IF pending THEN Approve(a, att) ELSE UNCHANGED <<attempt, coupon>>
           /\ IF PriceToRestore(p) THEN proc' = [proc EXCEPT ![p].pc = "after"] ELSE Done(p)
           /\ UNCHANGED months
      [] proc[p].snap.status = "paused" /\ Owns(p) ->
           /\ \E dated \in BOOLEAN :
                Update([sub EXCEPT !.status = "PAST_DUE",
                                   !.end = IF dated THEN proc[p].snap.next ELSE @])
           /\ Done(p) /\ UNCHANGED <<attempt, coupon, months>>
      [] proc[p].snap.status = "cancelled" /\ Owns(p) ->
           Update([sub EXCEPT !.cancel = TRUE]) /\ Done(p)
           /\ UNCHANGED <<attempt, coupon, months>>
      [] proc[p].snap.status = "cancelled" /\ ~Owns(p) /\ pending ->
           ReleaseAndEnd(a, att, "FAILED") /\ Done(p) /\ UNCHANGED <<sub, months>>
      [] OTHER -> Done(p) /\ UNCHANGED <<sub, attempt, coupon, months>>

\* The writes of the transaction, its commit and the end of its lock.
Write(p) ==
    /\ At(p, "write")
    /\ IF IsPix(proc[p].a) THEN ApplyPix(p) ELSE ApplyCard(p)
    /\ stale' = IF proc[p].snap.status = provider[proc[p].a].status
                  THEN stale \ {proc[p].a} ELSE stale \cup {proc[p].a}
    /\ lock' = IF lock = p THEN NoWorker ELSE lock
    /\ UNCHANGED <<remote, now, blind>>

\* After the commit, best effort: the recurrence the Pix replaces is cancelled, or
\* the discounted recurrence goes back to the list price.
After(p) ==
    /\ At(p, "after")
    /\ \/ UNCHANGED remote
       \/ IsPix(proc[p].a) /\ CancelObject(proc[p].sub.ref)
       \/ /\ ~IsPix(proc[p].a)
          /\ provider' = [provider EXCEPT ![proc[p].a].plan = proc[p].att.plan,
                                          ![proc[p].a].discount = FALSE]
          /\ UNCHANGED notices
    /\ Done(p)
    /\ UNCHANGED <<local, lock, now, blind>>

-----------------------------------------------------------------------------
(* Expiry: the hourly job goes on, in a transaction without the lock *)

CronReread ==
    LET a == proc[Cron].a IN
    /\ At(Cron, "reread")
    /\ IF attempt[a].status = "PENDING"
         THEN proc' = [proc EXCEPT ![Cron].pc = "find", ![Cron].att = attempt[a]]
         ELSE Finish(Cron)
    /\ UNCHANGED <<local, remote, lock, now, blind>>

\* releaseCoupon reads the redemption; from here on, seen says whether it found one.
CronFind ==
    /\ At(Cron, "find")
    /\ proc' = [proc EXCEPT ![Cron].pc = "expire", ![Cron].seen = Returnable(proc[Cron].att)]
    /\ UNCHANGED <<local, remote, lock, now, blind>>

\* The end of an expiry, were a row already deleted no error.
CronExpireDeleteMany ==
    LET a == proc[Cron].a   att == proc[Cron].att IN
    /\ At(Cron, "expire")
    /\ coupon' = IF proc[Cron].seen
                   THEN [coupon EXCEPT !.count = IF @ > 0 THEN @ - 1 ELSE 0,
                                       !.row = IF @ = att.redemption THEN 0 ELSE @]
                   ELSE coupon
    /\ Ended(a, att, "EXPIRED")
    /\ Finish(Cron)
    /\ UNCHANGED <<sub, months, stale, remote, lock, now, blind>>
\* A redemption that is gone by now makes the delete fail and the transaction roll back.
CronExpire ==
    LET a == proc[Cron].a   att == proc[Cron].att   seen == proc[Cron].seen IN
    /\ At(Cron, "expire")
    /\ IF seen /\ coupon.row # att.redemption
         THEN UNCHANGED <<attempt, coupon>>
         ELSE /\ coupon' = IF seen THEN GiveBack(att) ELSE coupon
              /\ Ended(a, att, "EXPIRED")
    /\ Finish(Cron)
    /\ UNCHANGED <<sub, months, stale, remote, lock, now, blind>>

-----------------------------------------------------------------------------
(* The owner cancels: cancel *)

CancelBegin(p) ==
    /\ "cancel" \in Operations
    /\ sub.status # "NONE" /\ ~sub.courtesy /\ ~sub.cancel
    /\ At(p, "idle")
    /\ proc' = [proc EXCEPT ![p] =
           [IdleProc EXCEPT !.op = "cancel", !.a = sub.ref,
                !.pc = IF sub.method = "CARD" /\ sub.ref # NoAttempt THEN "call" ELSE "flag"]]
    /\ UNCHANGED <<local, remote, lock, now, blind>>

\* The call is done and answered, or its failure (502) is all the code learns.
CancelCall(p) ==
    /\ At(p, "call")
    /\ \/ CancelObject(proc[p].a) /\ proc' = [proc EXCEPT ![p].pc = "flag"]
       \/ CancelObject(proc[p].a) /\ Finish(p)
       \/ UNCHANGED remote /\ Finish(p)
    /\ UNCHANGED <<local, lock, now, blind>>

\* updateMany, outside the lock.
CancelFlag(p) ==
    /\ At(p, "flag")
    /\ sub' = IF sub.status # "NONE" /\ ~sub.courtesy THEN [sub EXCEPT !.cancel = TRUE] ELSE sub
    /\ Finish(p)
    /\ UNCHANGED <<attempt, coupon, months, stale, remote, lock, now, blind>>

-----------------------------------------------------------------------------
(* The owner changes plans: changePlan *)

ChangeBegin(p, plan) ==
    /\ "change" \in Operations
    /\ sub.status = "ACTIVE" /\ ~sub.courtesy /\ ~sub.cancel /\ sub.plan # plan
    /\ sub.method = "PIX" => sub.end = NoEnd \/ sub.end > now
    /\ At(p, "idle")
    /\ proc' = [proc EXCEPT ![p] =
           [IdleProc EXCEPT !.op = "change", !.plan = plan, !.sub = sub, !.a = sub.ref,
                            !.pc = IF sub.method = "CARD" THEN "reprice" ELSE "commit"]]
    /\ UNCHANGED <<local, remote, lock, now, blind>>

\* getPreapproval, then updatePreapprovalAmount: refused before the first charge.
ChangeReprice(p) ==
    LET a == proc[p].a
        repriced == [provider EXCEPT ![a].plan = proc[p].plan, ![a].discount = FALSE] IN
    /\ At(p, "reprice")
    /\ \/ provider[a].charged /\ provider' = repriced
          /\ proc' = [proc EXCEPT ![p].pc = "commit"]
       \/ provider[a].charged /\ provider' = repriced /\ Finish(p)
       \/ UNCHANGED provider /\ Finish(p)
    /\ UNCHANGED <<local, notices, lock, now, blind>>

ChangeCommit(p) ==
    /\ At(p, "commit")
    /\ lock = NoWorker
    /\ sub' = IF sub.status = "ACTIVE" /\ ~sub.courtesy /\ sub.plan = proc[p].sub.plan
                THEN [sub EXCEPT !.plan = proc[p].plan] ELSE sub
    /\ Finish(p)
    /\ UNCHANGED <<attempt, coupon, months, stale, remote, lock, now, blind>>

-----------------------------------------------------------------------------
(* Courtesy plans: grantCourtesy and removeCourtesy *)

GrantBegin(p, plan) ==
    /\ "courtesy" \in Operations
    /\ sub.status = "NONE" \/ sub.courtesy
    /\ At(p, "idle")
    /\ proc' = [proc EXCEPT ![p] =
           [IdleProc EXCEPT !.op = "courtesy", !.pc = "grant", !.plan = plan]]
    /\ UNCHANGED <<local, remote, lock, now, blind>>

\* An upsert that does not look at courtesy again and leaves method and reference.
GrantCommit(p) ==
    /\ At(p, "grant")
    /\ \E end \in {NoEnd, now + Month} :
           sub' = [sub EXCEPT !.status = "ACTIVE", !.plan = proc[p].plan, !.courtesy = TRUE,
                              !.end = end, !.cancel = FALSE]
    /\ Finish(p)
    /\ UNCHANGED <<attempt, coupon, months, stale, remote, lock, now, blind>>

RemoveCourtesy ==
    /\ sub.courtesy
    /\ sub' = NoSub
    /\ UNCHANGED <<attempt, coupon, months, stale, remote, lock, proc, now, blind>>

-----------------------------------------------------------------------------
(* A tick is a matter of days, a request of seconds. *)
Tick ==
    /\ now < LastTick
    /\ \A p \in Processes : At(p, "idle")
    /\ now' = now + 1
    /\ UNCHANGED <<local, remote, lock, proc, blind>>

\* A salon may have redeemed the coupon when it signed up.
Init ==
    /\ sub = NoSub
    /\ attempt = [a \in Attempts |-> NoRow]
    /\ coupon \in {[row |-> r, applied |-> FALSE, count |-> r, last |-> r] :
                      r \in IF "coupon" \in Operations THEN {0, 1} ELSE {0}}
    /\ provider = [a \in Attempts |-> NoObject]
    /\ notices = {}
    /\ lock = NoWorker
    /\ proc = [p \in Processes |-> IdleProc]
    /\ now = 1
    /\ months = [a \in Attempts |-> 0]
    /\ blind = {}
    /\ stale = {}

ProviderMoves(a) ==
    PixPaid(a) \/ PixRejected(a) \/ CardAuthorized(a) \/ CardCharged(a) \/ CardPaused(a)
    \/ CardResumed(a) \/ CardCancelled(a)

RequestArrives(p) ==
    \/ \E a \in Attempts, method \in Methods \cap Operations, plan \in Plans,
          typed \in BOOLEAN : CheckoutBegin(p, a, method, plan, typed)
    \/ \E a \in Attempts : Webhook(p, a) \/ Poll(p, a)
    \/ CancelBegin(p)
    \/ \E plan \in Plans : ChangeBegin(p, plan) \/ GrantBegin(p, plan)

RequestContinues(p) ==
    \/ CheckoutPosted(p) \/ CheckoutFailed(p)
    \/ CancelCall(p) \/ CancelFlag(p)
    \/ ChangeReprice(p) \/ ChangeCommit(p)
    \/ GrantCommit(p)

SyncContinues(p) == Fetch(p) \/ FetchFailed(p) \/ Enter(p) \/ Write(p) \/ After(p)

CronContinues == CronReread \/ CronFind \/ CronExpire

Next ==
    \/ \E p \in Workers : RequestArrives(p) \/ RequestContinues(p)
    \/ \E p \in Processes : SyncContinues(p) \/ Crash(p)
    \/ \E a \in Attempts : ProviderMoves(a) \/ CronBegin(a)
    \/ CronContinues
    \/ RemoveCourtesy
    \/ Tick

Spec == Init /\ [][Next]_vars

\* The scheduler runs the hourly job and its steps come to an end; the queue of the
\* advisory lock is served in order, so the job gets it in the end.
Fairness ==
    /\ WF_vars(\E a \in Attempts : CronBegin(a))
    /\ WF_vars(Fetch(Cron) \/ FetchFailed(Cron))
    /\ SF_vars(Enter(Cron))
    /\ \A p \in Processes : WF_vars(Write(p))
    /\ WF_vars(After(Cron))
    /\ WF_vars(CronContinues)

FairSpec == Spec /\ Fairness

-----------------------------------------------------------------------------
(* Properties *)

\* The Pix of an attempt is credited at most once, and only if it was paid, however
\* many notifications, polls and hourly jobs read it as approved at the same time
\* (applyPixPayment looks at the status again under the lock).
CreditedOnce ==
    \A a \in Attempts : months[a] <= 1 /\ (months[a] = 1 => provider[a].charged)

\* A Pix paid before the end of the month adds a whole month to it, also when two are
\* credited at the same time: no credit is computed from an end that another has moved
\* (nextPeriodStart, and the lock of applyPixPayment).
PixKeepsDays ==
    [][months' # months /\ sub.method = "PIX" /\ ~sub.courtesy
         => sub'.end >= sub.end + Month]_vars

\* The coupon's redemptionCount is the number of its redemptions, though an attempt is
\* ended by the checkout, a notification or the hourly job, the last one without a lock
\* (releaseCoupon).
CouponCountExact == coupon.count = IF coupon.row = 0 THEN 0 ELSE 1

\* Nothing is in progress and the provider has nothing left to say.
Quiet == notices = {} /\ \A p \in Processes : At(p, "idle")

Credited(a) == provider[a].status = "approved" /\ IsPix(a) => months[a] = 1

\* Once all is quiet a paid Pix has been credited, unless the hourly job expired its
\* attempt with the provider out of reach.
LostOnlyIfBlind == Quiet => \A a \in Attempts : Credited(a) \/ a \in blind

\* payments.service.ts says that repeated and unordered notifications converge to the
\* real state: once all is quiet, a paid Pix has been credited.
PixConverges == Quiet => \A a \in Attempts : Credited(a)

EndsWithPeriod ==
    sub.method = "CARD" /\ ~sub.courtesy /\ provider[sub.ref].status = "cancelled"
        => sub.cancel

\* The same claim for the card: once all is quiet, a subscription whose recurrence the
\* provider has cancelled is one that ends with its period.
CardConverges == Quiet => EndsWithPeriod

\* Once all is quiet, a cancelled recurrence leaves the subscription running only when
\* the picture of it applied last was already old: one read of the provider overtaken
\* by another, or by the owner's cancel, is the only cause (applyPreapproval).
RunsOnOnlyIfStale == Quiet => EndsWithPeriod \/ sub.ref \in stale

\* An attempt past its time does not stay pending: the hourly job ends it, the provider
\* answering or not (expireStaleAttempts, syncAttemptSafely).
StaleAttemptsEnd ==
    \A a \in Attempts :
        attempt[a].status = "PENDING" /\ attempt[a].until < now
            ~> attempt[a].status # "PENDING"
-----------------------------------------------------------------------------
(* The abstract specification *)

\* What the rows say the salon has.
ContractOf(row) ==
    [kind   |-> IF row.status = "NONE" THEN "none" ELSE IF row.courtesy THEN "gift"
                ELSE IF row.method = "PIX" THEN "prepaid" ELSE "recurring",
     of     |-> IF row.courtesy THEN NoAttempt ELSE row.ref,
     plan   |-> IF row.status = "NONE" THEN NoAttempt ELSE row.plan,
     until  |-> IF row.method = "PIX" /\ ~row.courtesy THEN row.end ELSE 0,
     ending |-> row.cancel]

OrderOf(row) ==
    [method |-> IF row.status = "NONE" THEN "none" ELSE row.method,
     plan   |-> IF row.status = "NONE" THEN NoAttempt ELSE row.plan]

\* The payer agreed: the Pix was charged, or the recurrence has had a next payment.
Agreed(a) == IF IsPix(a) THEN provider[a].charged ELSE provider[a].next # NoEnd

Contract == INSTANCE Subscription WITH
    Orders   <- Attempts,
    Nobody   <- NoAttempt,
    order    <- [a \in Attempts |-> OrderOf(attempt[a])],
    agreed   <- {a \in Attempts : Agreed(a)},
    used     <- {a \in Attempts : months[a] # 0},
    contract <- ContractOf(sub),
    today    <- now

\* Whatever notifications, polls, jobs and requests read and write, in whatever order: the
\* salon's subscription is what was ordered, agreed to and, if a month, not had before,
\* switched or given since (payments.service.ts and the courtesies of
\* platform-admin.service.ts, taken together).
ImplementsSubscription == Contract!Spec
=============================================================================
