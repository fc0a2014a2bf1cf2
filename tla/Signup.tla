------------------------------- MODULE Signup -------------------------------
(***************************************************************************)
(* New salons, made by the public form (signup.service.ts) or by the       *)
(* platform (createTenant), the campaign coupon they redeem, and the       *)
(* platform's edits of that coupon.                                        *)
(*                                                                         *)
(* A signup is one transaction, run again when another took its address.   *)
(* It holds the coupon's row from the conditional UPDATE to its end; what  *)
(* it inserts is seen by others when it commits.                           *)
(***************************************************************************)
EXTENDS Integers, FiniteSets, FiniteSetsExt

CONSTANTS
    Requests,       \* signups in progress at once
    Emails,
    Slugs,          \* the base slug and the suffixed ones, by their suffix
    Reserved,       \* slugs isReservedSlug refuses
    MaxAttempts,    \* MAX_SLUG_ATTEMPTS
    Limits,         \* values of maxRedemptions
    Unlimited,      \* maxRedemptions null: above any number of uses
    NoOne

\* Assumed of the constants by whoever instantiates the module.
SignupAssumption ==
    /\ Slugs \subseteq Nat /\ IsFiniteSet(Slugs) /\ Reserved \subseteq Slugs
    /\ MaxAttempts \in Nat \ {0}
    /\ Limits \subseteq Nat \ {0} /\ Unlimited \in Nat /\ NoOne \notin Requests

VARIABLES
    tenants,    \* the committed salons: slug, owner's e-mail, redemption
    coupon,     \* the Coupon row: isActive, validUntil passed, redemptionCount, maxRedemptions
    holder,     \* the transaction that has updated the coupon and not ended
    signup,     \* signup[r]: a request and what it has read
    edit,       \* the platform's edit of the coupon
    lowered     \* history: a limit was written below the uses there were

signupVars == <<tenants, coupon, holder, signup, edit, lowered>>

Idle == [pc |-> "idle", email |-> NoOne, code |-> FALSE, slug |-> 0, attempt |-> 0, tried |-> {}]
NoEdit == [pc |-> "idle", limit |-> Unlimited]

TypeOK ==
    /\ \A t \in tenants : t.slug \in Slugs \ Reserved /\ t.email \in Emails
    /\ coupon.used \in 0..Cardinality(Slugs) + 1
    /\ coupon.limit \in Limits \cup {Unlimited}
    /\ holder \in Requests \cup {NoOne}
    /\ \A r \in Requests : /\ signup[r].attempt \in 0..MaxAttempts
                           /\ signup[r].slug \in Slugs \cup {0}
                           /\ holder = r => signup[r].pc \in {"slug", "insert"}

-----------------------------------------------------------------------------
(* The coupon *)

\* What others read while a transaction holds the row.
Committed == coupon.used - IF holder = NoOne THEN 0 ELSE 1

\* couponState(coupon) = "ACTIVE", of a count of uses.
Redeemable(used) == coupon.active /\ ~coupon.expired /\ used < coupon.limit

\* The condition of the UPDATE, were the limit left to the earlier check.
ReservableAnyCount == coupon.active /\ ~coupon.expired
Reservable == Redeemable(coupon.used)

\* The end of a transaction that leaves the use it counted.
UndoButTheUse(r) ==
    /\ coupon' = coupon
    /\ holder' = IF holder = r THEN NoOne ELSE holder

\* The transaction of r ends without a trace.
Undo(r) ==
    /\ coupon' = IF holder = r THEN [coupon EXCEPT !.used = @ - 1] ELSE coupon
    /\ holder' = IF holder = r THEN NoOne ELSE holder

-----------------------------------------------------------------------------
(* A signup *)

Goto(r, label) == signup' = [signup EXCEPT ![r].pc = label]
Start(code) == IF code THEN "code" ELSE "slug"

\* With or without a coupon; the platform's createTenant takes none.
Submit(r, e, code) ==
    /\ signup[r].pc = "idle"
    /\ signup' = [signup EXCEPT ![r] = [Idle EXCEPT !.pc = Start(code), !.email = e,
                                                    !.code = code, !.attempt = 1]]
    /\ UNCHANGED <<tenants, coupon, holder, edit, lowered>>

\* reserve looks at the coupon first, and then counts a use in one conditional statement.
ReadCoupon(r) ==
    /\ signup[r].pc = "code"
    /\ IF Redeemable(Committed) THEN Goto(r, "reserve") ELSE signup' = [signup EXCEPT ![r] = Idle]
    /\ UNCHANGED <<tenants, coupon, holder, edit, lowered>>

Reserve(r) ==
    /\ signup[r].pc = "reserve" /\ holder = NoOne
    /\ IF Reservable
         THEN /\ coupon' = [coupon EXCEPT !.used = @ + 1]
              /\ holder' = r
              /\ Goto(r, "slug")
         ELSE /\ signup' = [signup EXCEPT ![r] = Idle]
              /\ UNCHANGED <<coupon, holder>>
    /\ UNCHANGED <<tenants, edit, lowered>>

TakenSlugs == {t.slug : t \in tenants}

\* generateUniqueSlug: the first that is neither reserved nor taken. Slugs are never given back,
\* so its reads, one per candidate, find what a single read would find at the last of them.
FreeSlugs == Slugs \ (Reserved \cup TakenSlugs)
ChooseSlug(r) ==
    /\ signup[r].pc = "slug" /\ FreeSlugs # {}
    /\ signup' = [signup EXCEPT ![r].pc = "insert", ![r].slug = Min(FreeSlugs),
                                ![r].tried = @ \cup {Min(FreeSlugs)}]
    /\ UNCHANGED <<tenants, coupon, holder, edit, lowered>>

\* Tenant, owner and redemption; a unique index refuses the slug first, then the e-mail.
Insert(r) ==
    LET s == signup[r] IN
    /\ s.pc = "insert"
    /\ \/ /\ s.slug \in TakenSlugs /\ s.attempt < MaxAttempts
          /\ Undo(r) /\ UNCHANGED tenants
          /\ signup' = [signup EXCEPT ![r].pc = Start(s.code), ![r].attempt = @ + 1]
       \/ /\ s.slug \in TakenSlugs /\ s.attempt = MaxAttempts
          /\ Undo(r) /\ UNCHANGED tenants
          /\ Goto(r, "gaveUp")
       \/ /\ s.slug \notin TakenSlugs /\ \E t \in tenants : t.email = s.email
          /\ Undo(r) /\ UNCHANGED tenants
          /\ signup' = [signup EXCEPT ![r] = Idle]
       \/ /\ s.slug \notin TakenSlugs /\ \A t \in tenants : t.email # s.email
          /\ tenants' = tenants \cup {[slug |-> s.slug, email |-> s.email, redeemed |-> s.code]}
          /\ holder' = IF holder = r THEN NoOne ELSE holder
          /\ signup' = [signup EXCEPT ![r] = Idle]
          /\ UNCHANGED coupon
    /\ UNCHANGED <<edit, lowered>>

\* The error reaches whoever was signing up.
Answered(r) ==
    /\ signup[r].pc = "gaveUp"
    /\ signup' = [signup EXCEPT ![r] = Idle]
    /\ UNCHANGED <<tenants, coupon, holder, edit, lowered>>

\* The transaction runs out of time, or its process dies.
RollBack(r) ==
    /\ signup[r].pc \in {"slug", "insert"}
    /\ Undo(r)
    /\ signup' = [signup EXCEPT ![r] = Idle]
    /\ UNCHANGED <<tenants, edit, lowered>>

-----------------------------------------------------------------------------
(* The platform's coupon page: activate, extend, or change the limit after a look at the uses *)

EditRead(limit) ==
    /\ edit.pc = "idle" /\ limit >= Committed
    /\ edit' = [pc |-> "write", limit |-> limit]
    /\ UNCHANGED <<tenants, coupon, holder, signup, lowered>>

\* The row is free of transactions when it is written.
EditWrite ==
    /\ edit.pc = "write" /\ holder = NoOne
    /\ \E active, expired \in BOOLEAN :
         coupon' = [coupon EXCEPT !.limit = edit.limit, !.active = active, !.expired = expired]
    /\ lowered' = (lowered \/ edit.limit < coupon.used)
    /\ edit' = NoEdit
    /\ UNCHANGED <<tenants, holder, signup>>

Expire ==
    /\ ~coupon.expired
    /\ coupon' = [coupon EXCEPT !.expired = TRUE]
    /\ UNCHANGED <<tenants, holder, signup, edit, lowered>>

Init ==
    /\ tenants = {}
    /\ coupon \in [active : {TRUE}, expired : {FALSE}, used : {0}, limit : Limits \cup {Unlimited}]
    /\ holder = NoOne
    /\ signup = [r \in Requests |-> Idle]
    /\ edit = NoEdit /\ lowered = FALSE

Next ==
    \/ \E r \in Requests :
         \/ \E e \in Emails, code \in BOOLEAN : Submit(r, e, code)
         \/ ReadCoupon(r) \/ Reserve(r) \/ ChooseSlug(r) \/ Insert(r) \/ Answered(r) \/ RollBack(r)
    \/ \E limit \in Limits : EditRead(limit)
    \/ EditWrite \/ Expire

Spec == Init /\ [][Next]_signupVars

-----------------------------------------------------------------------------
(* Properties *)

\* The uses counted are the salons that redeemed, whatever failed on the way (coupons.service.ts:
\* "se o negócio não for criado, o resgate (e a contagem de usos) é desfeito junto").
UsesAreRedemptions == Committed = Cardinality({t \in tenants : t.redeemed})

\* Signups together never use a coupon past its limit ("dois cadastros simultâneos no último uso
\* não passam os dois", reserve), unless an edit wrote a limit below the uses since its look.
LimitBrokenOnlyIfLowered == coupon.used <= coupon.limit \/ lowered
=============================================================================
