-------------------------- MODULE BackOfficeProofs --------------------------
(***************************************************************************)
(* Proofs about what the people of a salon and of the platform change at   *)
(* once, for any number of requests, salons, professionals, rules, clients *)
(* and files.                                                              *)
(***************************************************************************)
EXTENDS MCBackOffice, FiniteSetTheorems, TLAPS

-----------------------------------------------------------------------------
(* Signup: the coupon and the salons that redeem it *)

Salons == [slug : Slugs \ Reserved, email : Emails, redeemed : BOOLEAN]
SignupRow == [pc : {"idle", "code", "reserve", "slug", "insert", "gaveUp"},
              email : Emails \cup {NoOne}, code : BOOLEAN, slug : Slugs \cup {0},
              attempt : 0..MaxAttempts, tried : SUBSET Slugs]
Campaign == [active : BOOLEAN, expired : BOOLEAN, used : Nat, limit : Limits \cup {Unlimited}]

\* A request that is about to insert has an address that may be given, and one in progress an e-mail.
Signups == {q \in SignupRow : /\ q.pc = "insert" => q.slug \in Slugs \ Reserved
                              /\ q.pc # "idle" => q.email \in Emails
                              /\ q.pc \in {"code", "reserve"} => q.code}

\* The requests that have counted a use and not ended.
Holds(q) == q.pc \in {"slug", "insert"} /\ q.code

Redeemed == {t \in tenants : t.redeemed}
SignupTypes ==
    /\ tenants \subseteq Salons /\ IsFiniteSet(tenants)
    /\ coupon \in Campaign /\ holder \in Requests \cup {NoOne}
    /\ signup \in [Requests -> Signups]
    /\ edit \in [pc : {"idle", "write"}, limit : Limits \cup {Unlimited}] /\ lowered \in BOOLEAN

OneAddress == \A t, u \in tenants : t.slug = u.slug => t = u
HolderHolds == \A r \in Requests : holder = r <=> Holds(signup[r])
UsesCounted == coupon.used = Cardinality(Redeemed) + IF holder = NoOne THEN 0 ELSE 1

SignupInv == /\ SignupTypes /\ OneAddress /\ HolderHolds /\ UsesCounted
             /\ NewSalons!LimitBrokenOnlyIfLowered

\* What the assumptions on the constants say.
LEMMA SalonNumbers ==
    /\ Slugs \subseteq Nat /\ IsFiniteSet(Slugs) /\ Reserved \subseteq Slugs /\ MaxAttempts \in Nat \ {0}
    /\ Limits \subseteq Nat /\ Unlimited \in Nat /\ NoOne \notin Requests
BY SalonsAssumed DEF NewSalons!SignupAssumption, NewSalons!IsFiniteSet, IsFiniteSet

\* The cardinality the modules count with is that of FiniteSets, which the library speaks of.
LEMMA SameCardinality ==
    \A S : /\ NewSalons!Cardinality(S) = Cardinality(S) /\ Tenant!Cardinality(S) = Cardinality(S)
           /\ Page!Cardinality(S) = Cardinality(S)
BY DEF NewSalons!Cardinality, Cardinality, NewSalons!IsFiniteSet, IsFiniteSet, Tenant!Cardinality,
       Tenant!IsFiniteSet, Page!Cardinality, Page!IsFiniteSet

\* A set of numbers that is not empty has a least one.
LEMMA NumbersAreWellFounded ==
    \E less : IsWellFoundedOn(less, Nat) /\ \A x, y \in Nat : <<y, x>> \in less <=> y < x
<1> DEFINE R == {ss \in Nat \X Nat : ss[1] < ss[2]}
<1>1. R = OpToRel(<, Nat)
  BY Zenon DEF OpToRel
<1>2. IsWellFoundedOn(R, Nat)
  BY <1>1, NatLessThanWellFounded, Zenon
<1>3. \A x, y \in Nat : <<y, x>> \in R <=> y < x
  OBVIOUS
<1> QED BY <1>2, <1>3

\* The least of some numbers is one of them: an address that is chosen was free.
LEMMA LeastOne ==
    ASSUME NEW S, S \subseteq Nat, S # {}
    PROVE  NewSalons!Min(S) \in S
<1>1. PICK less : IsWellFoundedOn(less, Nat) /\ \A x, y \in Nat : <<y, x>> \in less <=> y < x
  BY NumbersAreWellFounded
<1>2. PICK x \in S : \A y \in S : ~(<<y, x>> \in less)
  BY <1>1, WFMin
<1>3. ASSUME NEW y \in S PROVE x =< y
  <2>1. ~(<<y, x>> \in less) /\ x \in Nat /\ y \in Nat
    BY <1>2
  <2> QED BY <1>1, <2>1
<1> QED BY <1>3 DEF NewSalons!Min

\* What a request is when it begins, goes on, and is over.
Begun(e, code) ==
    [NewSalons!Idle EXCEPT !.pc = NewSalons!Start(code), !.email = e, !.code = code, !.attempt = 1]
Stage(q, pc) == [q EXCEPT !.pc = pc]
Chosen(q, s) == [q EXCEPT !.pc = "insert", !.slug = s, !.tried = @ \cup {s}]
Again(q) == [q EXCEPT !.pc = NewSalons!Start(q.code), !.attempt = @ + 1]

\* Each is a request, and holds the coupon or does not.
LEMMA IdleSignup == NewSalons!Idle \in Signups /\ ~Holds(NewSalons!Idle)
BY SalonNumbers DEF Signups, SignupRow, Holds, NewSalons!Idle

\* A signup that begins holds no use of the coupon.
LEMMA BegunSignup ==
    ASSUME NEW e \in Emails, NEW code \in BOOLEAN
    PROVE  Begun(e, code) \in Signups /\ ~Holds(Begun(e, code))
<1>1. 0 \in 0..MaxAttempts /\ 1 \in 0..MaxAttempts
  BY SalonNumbers
<1>2. PICK label : label = IF code THEN "code" ELSE "slug"
  OBVIOUS
<1>3. label \in {"code", "slug"} /\ (label = "code" <=> code)
  BY <1>2
<1>4. PICK a : a = [NewSalons!Idle EXCEPT !.pc = label]
  OBVIOUS
<1>5. PICK b : b = [a EXCEPT !.email = e]
  OBVIOUS
<1>6. PICK c : c = [b EXCEPT !.code = code]
  OBVIOUS
<1>7. Begun(e, code) = [c EXCEPT !.attempt = 1]
  BY <1>2, <1>4, <1>5, <1>6, Zenon DEF Begun, NewSalons!Start
<1>8. NewSalons!Idle \in SignupRow
  BY <1>1 DEF NewSalons!Idle, SignupRow
<1>9. a \in SignupRow /\ a.pc = label
  BY <1>3, <1>4, <1>8 DEF SignupRow
<1>10. b \in SignupRow /\ b.pc = label /\ b.email = e
  BY <1>5, <1>9 DEF SignupRow
<1>11. c \in SignupRow /\ c.pc = label /\ c.email = e /\ c.code = code
  BY <1>6, <1>10 DEF SignupRow
<1>12. /\ Begun(e, code) \in SignupRow /\ Begun(e, code).pc = label
       /\ Begun(e, code).email = e /\ Begun(e, code).code = code
  BY <1>1, <1>7, <1>11 DEF SignupRow
<1> QED BY <1>3, <1>12 DEF Signups, Holds

\* The reservation makes a signup hold a use, and giving up takes it back.
LEMMA StageSignup ==
    ASSUME NEW q \in Signups
    PROVE  /\ q.pc = "code" => Stage(q, "reserve") \in Signups /\ ~Holds(Stage(q, "reserve"))
           /\ q.pc = "reserve" => Stage(q, "slug") \in Signups /\ Holds(Stage(q, "slug"))
           /\ q.pc = "insert" => Stage(q, "gaveUp") \in Signups /\ ~Holds(Stage(q, "gaveUp"))
BY DEF Signups, SignupRow, Holds, Stage

\* Choosing an address leaves the use as it was.
LEMMA ChosenSignup ==
    ASSUME NEW q \in Signups, NEW s \in Slugs \ Reserved, q.pc = "slug"
    PROVE  Chosen(q, s) \in Signups /\ (Holds(Chosen(q, s)) <=> Holds(q))
BY DEF Signups, SignupRow, Holds, Chosen

\* A signup whose address was taken meanwhile tries again, and holds no use.
LEMMA AgainSignup ==
    ASSUME NEW q \in Signups, q.pc = "insert", q.attempt < MaxAttempts
    PROVE  Again(q) \in Signups /\ ~Holds(Again(q))
<1>1. q.attempt + 1 \in 0..MaxAttempts
  BY SalonNumbers DEF Signups, SignupRow
<1>2. CASE q.code
  BY <1>1, <1>2 DEF Signups, SignupRow, Holds, Again, NewSalons!Start
<1>3. CASE ~q.code
  BY <1>1, <1>3 DEF Signups, SignupRow, Holds, Again, NewSalons!Start
<1> QED BY <1>2, <1>3 DEF Signups, SignupRow

-----------------------------------------------------------------------------
(* What a step of a signup does *)

Puts(r, q) == q \in Signups /\ signup' = [signup EXCEPT ![r] = q]
Inserted(r) == [slug |-> signup[r].slug, email |-> signup[r].email, redeemed |-> signup[r].code]

\* It goes on or ends with what it holds, counts a use, ends without a trace, or makes its salon;
\* the platform edits the coupon, or its time runs out.
SignupWaits ==
    /\ UNCHANGED <<tenants, coupon, holder>>
    /\ signup' = signup \/ \E r \in Requests, q \in Signups : Puts(r, q) /\ (Holds(q) <=> Holds(signup[r]))
SignupCounts ==
    \E r \in Requests, q \in Signups :
        /\ Puts(r, q) /\ Holds(q) /\ holder = NoOne /\ holder' = r /\ tenants' = tenants
        /\ coupon' = [coupon EXCEPT !.used = @ + 1] /\ coupon.used < coupon.limit
SignupUndone ==
    \E r \in Requests, q \in Signups :
        Puts(r, q) /\ ~Holds(q) /\ NewSalons!Undo(r) /\ tenants' = tenants
SignupMade ==
    \E r \in Requests, q \in Signups :
        /\ Puts(r, q) /\ ~Holds(q) /\ signup[r].pc = "insert"
        /\ \A t \in tenants : t.slug # signup[r].slug
        /\ tenants' = tenants \cup {Inserted(r)}
        /\ holder' = (IF holder = r THEN NoOne ELSE holder) /\ coupon' = coupon
CouponEdited ==
    /\ UNCHANGED <<tenants, holder, signup>>
    /\ coupon' \in Campaign /\ coupon'.used = coupon.used
    /\ \/ coupon'.limit = coupon.limit /\ lowered' = lowered
       \/ lowered' = (lowered \/ coupon'.limit < coupon.used)
SignupStep == \/ lowered' = lowered /\ (SignupWaits \/ SignupCounts \/ SignupUndone \/ SignupMade)
              \/ CouponEdited

\* Every action on signups is one of the steps above.
LEMMA SignupSteps ==
    ASSUME SignupTypes, [NewSalons!Next]_signupVars
    PROVE  SignupStep
<1> USE DEF SignupTypes, Puts
<1>1. ASSUME NEW r \in Requests, NEW e \in Emails, NEW code \in BOOLEAN, NewSalons!Submit(r, e, code)
      PROVE  SignupStep
  <2>1. Puts(r, Begun(e, code)) /\ ~Holds(signup[r])
    BY <1>1, BegunSignup DEF NewSalons!Submit, Begun, Holds
  <2> QED BY <1>1, <2>1, BegunSignup DEF NewSalons!Submit, SignupStep, SignupWaits
<1>2. ASSUME NEW r \in Requests, NewSalons!ReadCoupon(r) PROVE SignupStep
  <2>1. signup[r] \in Signups /\ signup[r].pc = "code" /\ ~Holds(signup[r])
    BY <1>2 DEF NewSalons!ReadCoupon, Holds
  <2>2. Puts(r, Stage(signup[r], "reserve")) \/ Puts(r, NewSalons!Idle)
    BY <1>2, <2>1, StageSignup, IdleSignup DEF NewSalons!ReadCoupon, NewSalons!Goto, Stage
  <2> QED BY <1>2, <2>1, <2>2, StageSignup, IdleSignup DEF NewSalons!ReadCoupon, SignupStep, SignupWaits
<1>3. ASSUME NEW r \in Requests, NewSalons!Reserve(r) PROVE SignupStep
  <2>1. signup[r] \in Signups /\ signup[r].pc = "reserve" /\ ~Holds(signup[r])
    BY <1>3 DEF NewSalons!Reserve, Holds
  <2>2. CASE NewSalons!Reservable
    <3>1. Puts(r, Stage(signup[r], "slug"))
      BY <1>3, <2>1, <2>2, StageSignup DEF NewSalons!Reserve, NewSalons!Goto, Stage
    <3> QED BY <1>3, <2>1, <2>2, <3>1, StageSignup
            DEF NewSalons!Reserve, NewSalons!Reservable, NewSalons!Redeemable, SignupStep, SignupCounts
  <2>3. CASE ~NewSalons!Reservable
    BY <1>3, <2>1, <2>3, IdleSignup DEF NewSalons!Reserve, SignupStep, SignupWaits
  <2> QED BY <2>2, <2>3
<1>4. ASSUME NEW r \in Requests, NewSalons!ChooseSlug(r) PROVE SignupStep
  <2> DEFINE s == NewSalons!Min(NewSalons!FreeSlugs)
  <2>1. s \in Slugs \ Reserved
    BY <1>4, LeastOne, SalonNumbers DEF NewSalons!ChooseSlug, NewSalons!FreeSlugs
  <2>2. signup[r] \in Signups /\ signup[r].pc = "slug"
    BY <1>4 DEF NewSalons!ChooseSlug
  <2> HIDE DEF s
  <2>3. Puts(r, Chosen(signup[r], s))
    BY <1>4, <2>1, <2>2, ChosenSignup DEF NewSalons!ChooseSlug, Chosen, s
  <2> QED BY <1>4, <2>1, <2>2, <2>3, ChosenSignup DEF NewSalons!ChooseSlug, SignupStep, SignupWaits
<1>5. ASSUME NEW r \in Requests, NewSalons!Insert(r) PROVE SignupStep
  <2>1. signup[r] \in Signups /\ signup[r].pc = "insert"
    BY <1>5 DEF NewSalons!Insert
  <2>2. ASSUME signup[r].attempt < MaxAttempts, NewSalons!Undo(r), tenants' = tenants, lowered' = lowered,
               signup' = [signup EXCEPT ![r].pc = NewSalons!Start(signup[r].code), ![r].attempt = @ + 1]
        PROVE  SignupStep
    <3>1. PICK n, l : n = signup[r].attempt + 1 /\ l = NewSalons!Start(signup[r].code)
      OBVIOUS
    <3>2. signup' = [signup EXCEPT ![r].pc = l, ![r].attempt = n]
      BY <2>2, <3>1, Zenon
    <3>3. signup' = [signup EXCEPT ![r] = [signup[r] EXCEPT !.pc = l, !.attempt = n]]
      BY <2>1, <3>2 DEF Signups, SignupRow
    <3>4. Puts(r, Again(signup[r]))
      BY <2>1, <2>2, <3>1, <3>3, AgainSignup, Zenon DEF Again
    <3> QED BY <2>1, <2>2, <3>4, AgainSignup, Zenon DEF SignupStep, SignupUndone
  <2>3. ASSUME NewSalons!Goto(r, "gaveUp"), NewSalons!Undo(r), tenants' = tenants, lowered' = lowered
        PROVE  SignupStep
    <3>1. Puts(r, Stage(signup[r], "gaveUp"))
      BY <2>1, <2>3, StageSignup DEF NewSalons!Goto, Stage
    <3> QED BY <2>1, <2>3, <3>1, StageSignup, Zenon DEF SignupStep, SignupUndone
  <2>4. ASSUME signup' = [signup EXCEPT ![r] = NewSalons!Idle], NewSalons!Undo(r), tenants' = tenants,
               lowered' = lowered
        PROVE  SignupStep
    BY <2>4, IdleSignup, Zenon DEF SignupStep, SignupUndone
  <2>5. ASSUME signup[r].slug \notin NewSalons!TakenSlugs, signup' = [signup EXCEPT ![r] = NewSalons!Idle],
               lowered' = lowered, coupon' = coupon,
               tenants' = tenants \cup {Inserted(r)}, holder' = IF holder = r THEN NoOne ELSE holder
        PROVE  SignupStep
    <3>1. \A t \in tenants : t.slug # signup[r].slug
      BY <2>5 DEF NewSalons!TakenSlugs
    <3> QED BY <2>1, <2>5, <3>1, IdleSignup, Zenon DEF SignupStep, SignupMade
  <2> QED BY <1>5, <2>2, <2>3, <2>4, <2>5, Zenon DEF NewSalons!Insert, Inserted
<1>6. ASSUME NEW r \in Requests, NewSalons!Answered(r) \/ NewSalons!RollBack(r) PROVE SignupStep
  <2>1. CASE NewSalons!Answered(r)
    BY <2>1, IdleSignup DEF NewSalons!Answered, Holds, SignupStep, SignupWaits
  <2>2. CASE NewSalons!RollBack(r)
    BY <2>2, IdleSignup DEF NewSalons!RollBack, SignupStep, SignupUndone
  <2> QED BY <1>6, <2>1, <2>2
<1>7. ASSUME NEW limit, NewSalons!EditRead(limit) PROVE SignupStep
  BY <1>7 DEF NewSalons!EditRead, SignupStep, SignupWaits
<1>8. CASE NewSalons!EditWrite
  <2>1. PICK active \in BOOLEAN, expired \in BOOLEAN :
            coupon' = [coupon EXCEPT !.limit = edit.limit, !.active = active, !.expired = expired]
    BY <1>8 DEF NewSalons!EditWrite
  <2>2. coupon' \in Campaign /\ coupon'.used = coupon.used /\ coupon'.limit = edit.limit
    BY <2>1 DEF Campaign
  <2> QED BY <1>8, <2>2 DEF NewSalons!EditWrite, SignupStep, CouponEdited
<1>9. CASE NewSalons!Expire
  BY <1>9 DEF NewSalons!Expire, SignupStep, CouponEdited, Campaign
<1>10. CASE UNCHANGED signupVars
  BY <1>10 DEF signupVars, SignupStep, SignupWaits
<1> QED
  BY <1>1, <1>2, <1>3, <1>4, <1>5, <1>6, <1>7, <1>8, <1>9, <1>10, Zenon DEF NewSalons!Next

\* What the platform's edit holds is a limit.
LEMMA EditKept ==
    ASSUME SignupTypes, [NewSalons!Next]_signupVars
    PROVE  edit' \in [pc : {"idle", "write"}, limit : Limits \cup {Unlimited}] /\ lowered' \in BOOLEAN
<1>1. ASSUME edit' = edit, lowered' = lowered
      PROVE  edit' \in [pc : {"idle", "write"}, limit : Limits \cup {Unlimited}] /\ lowered' \in BOOLEAN
  BY <1>1 DEF SignupTypes
<1>2. ASSUME NEW r \in Requests,
             \/ \E e \in Emails, code \in BOOLEAN : NewSalons!Submit(r, e, code)
             \/ NewSalons!ReadCoupon(r) \/ NewSalons!Reserve(r) \/ NewSalons!ChooseSlug(r)
             \/ NewSalons!Insert(r) \/ NewSalons!Answered(r) \/ NewSalons!RollBack(r)
      PROVE  edit' = edit /\ lowered' = lowered
  BY <1>2, Zenon DEF NewSalons!Submit, NewSalons!ReadCoupon, NewSalons!Reserve, NewSalons!ChooseSlug,
                     NewSalons!Insert, NewSalons!Answered, NewSalons!RollBack
<1>3. ASSUME NEW limit \in Limits, NewSalons!EditRead(limit)
      PROVE  edit' \in [pc : {"idle", "write"}, limit : Limits \cup {Unlimited}] /\ lowered' \in BOOLEAN
  BY <1>3 DEF NewSalons!EditRead, SignupTypes
<1>4. ASSUME NewSalons!EditWrite
      PROVE  edit' \in [pc : {"idle", "write"}, limit : Limits \cup {Unlimited}] /\ lowered' \in BOOLEAN
  <2>1. edit' \in [pc : {"idle", "write"}, limit : Limits \cup {Unlimited}]
    BY <1>4 DEF NewSalons!EditWrite, NewSalons!NoEdit
  <2>2. lowered' \in BOOLEAN
    BY <1>4, Zenon DEF NewSalons!EditWrite
  <2> QED BY <2>1, <2>2
<1>5. NewSalons!Expire => edit' = edit /\ lowered' = lowered
  BY DEF NewSalons!Expire
<1>6. UNCHANGED signupVars => edit' = edit /\ lowered' = lowered
  BY DEF signupVars
<1> QED BY <1>1, <1>2, <1>3, <1>4, <1>5, <1>6, Zenon DEF NewSalons!Next

\* Every step keeps the types.
LEMMA SignupTypesKept ==
    ASSUME SignupTypes, HolderHolds, UsesCounted, SignupStep,
           edit' \in [pc : {"idle", "write"}, limit : Limits \cup {Unlimited}], lowered' \in BOOLEAN
    PROVE  SignupTypes'
<1> USE DEF SignupTypes, Puts
<1>1. IsFiniteSet(Redeemed) /\ Cardinality(Redeemed) \in Nat
  BY FS_Subset, FS_CardinalityType DEF Redeemed
<1>2. CASE SignupWaits
  BY <1>2 DEF SignupWaits
<1>3. CASE SignupCounts
  BY <1>3 DEF SignupCounts, Campaign
<1>4. CASE SignupUndone
  <2>1. PICK r \in Requests, q \in Signups : Puts(r, q) /\ NewSalons!Undo(r) /\ tenants' = tenants
    BY <1>4 DEF SignupUndone
  <2>2. holder = r => coupon.used - 1 \in Nat
    BY <1>1, <2>1, SalonNumbers DEF UsesCounted
  <2>3. coupon' \in Campaign
    BY <2>1, <2>2 DEF NewSalons!Undo, Campaign
  <2> QED BY <2>1, <2>3 DEF NewSalons!Undo
<1>5. CASE SignupMade
  <2>1. PICK r \in Requests, q \in Signups :
            /\ Puts(r, q) /\ tenants' = tenants \cup {Inserted(r)} /\ coupon' = coupon
            /\ signup[r].pc = "insert" /\ holder' = (IF holder = r THEN NoOne ELSE holder)
    BY <1>5 DEF SignupMade
  <2>2. Inserted(r) \in Salons
    BY <2>1 DEF Inserted, Salons, Signups, SignupRow
  <2>3. IsFiniteSet(tenants')
    BY <2>1, FS_AddElement
  <2> QED BY <2>1, <2>2, <2>3
<1>6. CASE CouponEdited
  BY <1>6 DEF CouponEdited
<1> QED BY <1>2, <1>3, <1>4, <1>5, <1>6 DEF SignupStep

\* A salon is made at an address that no salon has.
LEMMA OneAddressKept == ASSUME SignupTypes, OneAddress, SignupStep PROVE OneAddress'
<1>1. tenants' = tenants \/ \E x : x.slug \notin {t.slug : t \in tenants} /\ tenants' = tenants \cup {x}
  <2>1. CASE SignupMade
    <3>1. PICK r \in Requests :
              (\A t \in tenants : t.slug # signup[r].slug) /\ tenants' = tenants \cup {Inserted(r)}
      BY <2>1 DEF SignupMade
    <3>2. Inserted(r).slug \notin {t.slug : t \in tenants}
      BY <3>1 DEF Inserted
    <3> QED BY <3>1, <3>2
  <2>2. CASE SignupWaits \/ SignupCounts \/ SignupUndone \/ CouponEdited
    BY <2>2 DEF SignupWaits, SignupCounts, SignupUndone, CouponEdited
  <2> QED BY <2>1, <2>2 DEF SignupStep
<1> QED BY <1>1 DEF OneAddress

\* The coupon's row is held by the request that counted a use and has not ended.
LEMMA HolderKept == ASSUME SignupTypes, HolderHolds, SignupStep PROVE HolderHolds'
<1> SUFFICES ASSUME NEW s \in Requests PROVE holder' = s <=> Holds(signup'[s])
  BY DEF HolderHolds
<1>1. holder = s <=> Holds(signup[s])
  BY DEF HolderHolds
<1>2. \A r \in Requests : \A q : Puts(r, q) => signup'[s] = IF s = r THEN q ELSE signup[s]
  BY DEF Puts, SignupTypes
<1>3. CASE SignupWaits
  BY <1>1, <1>2, <1>3 DEF SignupWaits
<1>4. CASE SignupCounts
  BY <1>1, <1>2, <1>4, SalonNumbers DEF SignupCounts
<1>5. CASE SignupUndone
  BY <1>1, <1>2, <1>5, SalonNumbers DEF SignupUndone, NewSalons!Undo
<1>6. CASE SignupMade
  BY <1>1, <1>2, <1>6, SalonNumbers DEF SignupMade
<1>7. CASE CouponEdited
  BY <1>1, <1>7 DEF CouponEdited
<1> QED BY <1>3, <1>4, <1>5, <1>6, <1>7 DEF SignupStep

\* The uses are counted with the salons that redeemed.
LEMMA UsesKept == ASSUME SignupTypes, HolderHolds, UsesCounted, SignupStep PROVE UsesCounted'
<1>1. /\ IsFiniteSet(Redeemed) /\ Cardinality(Redeemed) \in Nat
      /\ coupon \in Campaign /\ coupon.used \in Nat /\ holder \in Requests \cup {NoOne}
      /\ NoOne \notin Requests
  BY FS_Subset, FS_CardinalityType, SalonNumbers DEF Redeemed, SignupTypes, Campaign
<1>2. CASE SignupWaits
  BY <1>2 DEF SignupWaits, UsesCounted, Redeemed
<1>3. CASE SignupCounts
  <2>1. Redeemed' = Redeemed /\ holder = NoOne /\ holder' # NoOne /\ coupon'.used = coupon.used + 1
    BY <1>1, <1>3 DEF SignupCounts, Redeemed, Campaign
  <2> QED BY <1>1, <2>1 DEF UsesCounted
<1>4. CASE SignupUndone
  <2>1. PICK r \in Requests : NewSalons!Undo(r) /\ tenants' = tenants
    BY <1>4 DEF SignupUndone
  <2>2. Redeemed' = Redeemed
    BY <2>1 DEF Redeemed
  <2>3. CASE holder = r
    BY <1>1, <2>1, <2>2, <2>3 DEF NewSalons!Undo, UsesCounted, Campaign
  <2>4. CASE holder # r
    BY <2>1, <2>2, <2>4 DEF NewSalons!Undo, UsesCounted
  <2> QED BY <2>3, <2>4
<1>5. CASE SignupMade
  <2>1. PICK r \in Requests :
            /\ signup[r].pc = "insert" /\ \A t \in tenants : t.slug # signup[r].slug
            /\ tenants' = tenants \cup {Inserted(r)}
            /\ holder' = (IF holder = r THEN NoOne ELSE holder) /\ coupon' = coupon
    BY <1>5 DEF SignupMade
  <2>2. Inserted(r) \notin tenants /\ (Inserted(r).redeemed <=> holder = r)
    BY <2>1 DEF Inserted, HolderHolds, Holds
  <2>3. CASE holder = r
    <3>1. Redeemed' = Redeemed \cup {Inserted(r)} /\ Inserted(r) \notin Redeemed
      BY <2>1, <2>2, <2>3 DEF Redeemed
    <3>2. Cardinality(Redeemed') = Cardinality(Redeemed) + 1
      BY <1>1, <3>1, FS_AddElement
    <3> QED BY <1>1, <2>1, <2>3, <3>2 DEF UsesCounted
  <2>4. CASE holder # r
    <3>1. Redeemed' = Redeemed
      BY <2>1, <2>2, <2>4 DEF Redeemed
    <3> QED BY <2>1, <2>4, <3>1 DEF UsesCounted
  <2> QED BY <2>3, <2>4
<1>6. CASE CouponEdited
  BY <1>6 DEF CouponEdited, UsesCounted, Redeemed
<1> QED BY <1>2, <1>3, <1>4, <1>5, <1>6 DEF SignupStep

\* No use is counted past the limit, unless an edit lowered it.
LEMMA LimitKept ==
    ASSUME SignupTypes, NewSalons!LimitBrokenOnlyIfLowered, SignupStep, SignupTypes'
    PROVE  NewSalons!LimitBrokenOnlyIfLowered'
<1>1. coupon \in Campaign /\ coupon' \in Campaign /\ coupon.used \in Nat /\ coupon.limit \in Nat
  BY SalonNumbers DEF SignupTypes, Campaign
<1>2. ASSUME lowered' = lowered, coupon'.used <= coupon.used, coupon'.limit = coupon.limit
      PROVE  NewSalons!LimitBrokenOnlyIfLowered'
  <2>1. coupon'.used \in Nat
    BY <1>1 DEF Campaign
  <2> QED BY <1>1, <1>2, <2>1 DEF NewSalons!LimitBrokenOnlyIfLowered
<1>3. CASE SignupWaits /\ lowered' = lowered
  BY <1>1, <1>2, <1>3 DEF SignupWaits
<1>4. CASE SignupCounts
  <2>1. coupon'.used = coupon.used + 1 /\ coupon'.limit = coupon.limit /\ coupon.used < coupon.limit
    BY <1>1, <1>4 DEF SignupCounts, Campaign
  <2> QED BY <1>1, <2>1 DEF NewSalons!LimitBrokenOnlyIfLowered
<1>5. CASE SignupUndone /\ lowered' = lowered
  <2>1. coupon'.used <= coupon.used /\ coupon'.limit = coupon.limit
    BY <1>1, <1>5 DEF SignupUndone, NewSalons!Undo, Campaign
  <2> QED BY <1>2, <1>5, <2>1
<1>6. CASE SignupMade /\ lowered' = lowered
  BY <1>1, <1>2, <1>6 DEF SignupMade
<1>7. CASE CouponEdited
  <2>1. CASE coupon'.limit = coupon.limit /\ lowered' = lowered
    BY <1>1, <1>2, <1>7, <2>1 DEF CouponEdited
  <2>2. CASE lowered' = (lowered \/ coupon'.limit < coupon.used)
    <3>1. coupon'.used = coupon.used /\ coupon'.limit \in Nat
      BY <1>1, <1>7, SalonNumbers DEF CouponEdited, Campaign
    <3>2. coupon'.used <= coupon'.limit \/ coupon'.limit < coupon.used
      BY <1>1, <3>1
    <3> QED BY <2>2, <3>2, Zenon DEF NewSalons!LimitBrokenOnlyIfLowered
  <2> QED BY <1>7, <2>1, <2>2, Zenon DEF CouponEdited
<1> QED BY <1>3, <1>4, <1>5, <1>6, <1>7, Zenon DEF SignupStep

\* The invariant of signups holds at the start, and every step keeps it.
LEMMA SignupInitial == NewSalons!Init => SignupInv
<1> SUFFICES ASSUME NewSalons!Init PROVE SignupInv
  OBVIOUS
<1>1. signup \in [Requests -> Signups] /\ \A r \in Requests : ~Holds(signup[r])
  BY IdleSignup DEF NewSalons!Init
<1>2. coupon \in Campaign /\ coupon.used = 0 /\ 0 <= coupon.limit
  <2>1. coupon \in [active : {TRUE}, expired : {FALSE}, used : {0}, limit : Limits \cup {Unlimited}]
    BY Zenon DEF NewSalons!Init
  <2>2. ASSUME NEW A, NEW B, NEW C, NEW D, A \subseteq BOOLEAN, B \subseteq BOOLEAN, C \subseteq Nat,
               coupon \in [active : A, expired : B, used : C, limit : D]
        PROVE  coupon \in [active : BOOLEAN, expired : BOOLEAN, used : Nat, limit : D]
               /\ coupon.used \in C /\ coupon.limit \in D
    BY <2>2
  <2>3. {TRUE} \subseteq BOOLEAN /\ {FALSE} \subseteq BOOLEAN /\ {0} \subseteq Nat
    OBVIOUS
  <2>4. coupon \in Campaign /\ coupon.used \in {0} /\ coupon.limit \in Limits \cup {Unlimited}
    BY <2>1, <2>2, <2>3, Zenon DEF Campaign
  <2>5. \A n \in Nat : 0 <= n
    OBVIOUS
  <2> QED BY <2>4, <2>5, SalonNumbers, Zenon
<1>3. edit \in [pc : {"idle", "write"}, limit : Limits \cup {Unlimited}]
  BY DEF NewSalons!Init, NewSalons!NoEdit
<1>4. Redeemed = {} /\ tenants = {} /\ IsFiniteSet({}) /\ Cardinality({}) = 0
  BY FS_EmptySet DEF NewSalons!Init, Redeemed
<1>5. holder = NoOne /\ lowered = FALSE /\ NoOne \notin Requests
  BY SalonNumbers DEF NewSalons!Init
<1>6. SignupTypes
  BY <1>1, <1>2, <1>3, <1>4, <1>5 DEF SignupTypes
<1>7. OneAddress /\ HolderHolds /\ UsesCounted
  BY <1>1, <1>2, <1>4, <1>5 DEF OneAddress, HolderHolds, UsesCounted
<1> QED BY <1>2, <1>6, <1>7 DEF SignupInv, NewSalons!LimitBrokenOnlyIfLowered

\* Every step keeps the invariant of signups.
LEMMA SignupKept == SignupInv /\ [NewSalons!Next]_signupVars => SignupInv'
<1> SUFFICES ASSUME SignupInv, [NewSalons!Next]_signupVars PROVE SignupInv'
  OBVIOUS
<1> USE DEF SignupInv
<1>1. SignupStep
  BY SignupSteps
<1>2. SignupTypes'
  BY <1>1, EditKept, SignupTypesKept
<1> QED BY <1>1, <1>2, OneAddressKept, HolderKept, UsesKept, LimitKept

\* What the invariant says of the uses of a coupon, and of the types.
LEMMA SignupShown == SignupInv => NewSalons!UsesAreRedemptions /\ NewSalons!TypeOK
<1> SUFFICES ASSUME SignupInv PROVE NewSalons!UsesAreRedemptions /\ NewSalons!TypeOK
  OBVIOUS
<1> USE DEF SignupInv, SignupTypes
<1>1. /\ IsFiniteSet(Redeemed) /\ Cardinality(Redeemed) \in Nat
      /\ Cardinality(Redeemed) <= Cardinality(tenants) /\ Cardinality(tenants) \in Nat
      /\ IsFiniteSet(Slugs) /\ Cardinality(Slugs) \in Nat
  BY FS_Subset, FS_CardinalityType, SalonNumbers DEF Redeemed
<1>2. NewSalons!UsesAreRedemptions
  <2>1. NewSalons!Committed = Cardinality(Redeemed)
    BY <1>1 DEF NewSalons!Committed, UsesCounted, Campaign
  <2> QED BY <2>1, SameCardinality DEF NewSalons!UsesAreRedemptions, Redeemed
<1>3. Cardinality(tenants) <= Cardinality(Slugs)
  <2>1. SUFFICES ASSUME Cardinality(Slugs) < Cardinality(tenants) PROVE FALSE
    BY <1>1
  <2>2. PICK at : at = [t \in tenants |-> t.slug]
    OBVIOUS
  <2>3. at \in [tenants -> Slugs]
    BY <2>2 DEF Salons
  <2>4. PICK t \in tenants, u \in tenants : t # u /\ at[t] = at[u]
    BY <1>1, <2>1, <2>3, FS_PigeonHole
  <2> QED BY <2>2, <2>4 DEF OneAddress
<1>4. coupon.used \in 0..NewSalons!Cardinality(Slugs) + 1
  BY <1>1, <1>3, SameCardinality DEF UsesCounted
<1>5. \A t \in tenants : t.slug \in Slugs \ Reserved /\ t.email \in Emails
  BY DEF Salons
<1>6. coupon.limit \in Limits \cup {Unlimited}
  BY DEF Campaign
<1>7. \A r \in Requests : /\ signup[r].attempt \in 0..MaxAttempts
                          /\ signup[r].slug \in Slugs \cup {0}
                          /\ holder = r => signup[r].pc \in {"slug", "insert"}
  BY DEF HolderHolds, Holds, Signups, SignupRow
<1> QED BY <1>2, <1>4, <1>5, <1>6, <1>7 DEF NewSalons!TypeOK

-----------------------------------------------------------------------------
(* Tenancy: what the platform and the owner of a salon change at once *)

Deeds == {"idle", "extend", "grantCount", "grantWrite", "pay", "add", "activate"}
OrderRow == [op : Deeds, tier : Tiers, pro : Pros \cup {NoPro}, seen : Nat, next : Nat,
             days : Days \cup {0}, overtaken : BOOLEAN]

\* A request that is over has forgotten what it read; an extension goes on from the end it read.
Orders == {q \in OrderRow :
              /\ q.op = "idle" <=> q = Tenant!Idle
              /\ q.op \in {"add", "activate"} => q.pro \in Pros
              /\ q.op = "extend" => q.next >= q.seen + q.days /\ q.next <= LastDay + MaxAhead}

Subscriptions == [kind : {"none", "courtesy", "paid"}, tier : Tiers]
TenantTypes ==
    /\ today \in 0..LastDay
    /\ suspended \in Reasons \cup {NoReason} /\ trail \in Seq(Reasons \cup {NoReason})
    /\ trialEnd \in 0..(LastDay + MaxAhead) /\ granted \in Nat
    /\ sub \in Subscriptions
    /\ team \subseteq staff /\ staff \subseteq Pros /\ IsFiniteSet(team)
    /\ req \in [Requests -> Orders]
    /\ pardoned \in BOOLEAN

\* What a request has looked at still holds, until another one writes.
Holding(q) ==
    /\ q.op \in {"grantWrite", "pay"} => Cardinality(team) <= Ceiling[q.tier]
    /\ q.op = "add" => q.pro \notin staff /\ Tenant!Room
    /\ q.op = "activate" => q.pro \in staff /\ (q.pro \notin team => Tenant!Room)
    /\ q.op \in {"grantCount", "grantWrite"} => sub.kind # "paid"
Looked == \A r \in Requests : ~req[r].overtaken => Holding(req[r])

\* The audit log tells whether the salon is suspended, and the trial has its extensions.
Told == suspended = IF trail = <<>> THEN NoReason ELSE trail[Len(trail)]
Alternating == \A i \in 1..Len(trail) : (trail[i] = NoReason) <=> (i % 2 = 0)
TrialTold == trialEnd >= Trial + granted

TenantInv == /\ TenantTypes /\ Looked /\ Told /\ Alternating /\ TrialTold
             /\ Tenant!OverLimitOnlyIfOvertaken

\* What the assumptions on the constants say.
LEMMA TenantNumbers ==
    /\ Entry \in Tiers /\ Ceiling \in [Tiers -> Nat] /\ Days \subseteq Nat /\ NoReason \notin Reasons
    /\ Trial \in Nat /\ MaxAhead \in Nat /\ LastDay \in Nat /\ MaxTrail \in Nat /\ Trial <= MaxAhead
BY TenantAssumed DEF Tenant!TenancyAssumption

\* The later of two days is one of them and no earlier than either.
LEMMA LaterOfTwo ==
    ASSUME NEW m \in Nat, NEW n \in Nat
    PROVE  Tenant!Max({m, n}) \in Nat /\ Tenant!Max({m, n}) >= m /\ Tenant!Max({m, n}) >= n
<1>1. \E x \in {m, n} : \A y \in {m, n} : x >= y
  OBVIOUS
<1>2. Tenant!Max({m, n}) \in {m, n} /\ \A y \in {m, n} : Tenant!Max({m, n}) >= y
  BY <1>1 DEF Tenant!Max
<1> QED BY <1>2

\* What a request is when it has looked, goes on, and is overtaken.
Extending(days, seen, next) == [Tenant!Idle EXCEPT !.op = "extend", !.seen = seen, !.days = days, !.next = next]
Planning(op, tier) == [Tenant!Idle EXCEPT !.op = op, !.tier = tier]
Hiring(op, p) == [Tenant!Idle EXCEPT !.op = op, !.pro = p]
Fitting(q) == [q EXCEPT !.op = "grantWrite"]
Late(q) == [q EXCEPT !.overtaken = TRUE]

\* A request that is not in progress.
LEMMA IdleOrder == Tenant!Idle \in Orders /\ Tenant!Idle.op = "idle" /\ ~Tenant!Idle.overtaken
BY TenantNumbers DEF Orders, OrderRow, Deeds, Tenant!Idle

\* A request that extends the trial, as it is made.
LEMMA ExtendingOrder ==
    ASSUME NEW days \in Days, NEW seen \in Nat, NEW next \in Nat,
           next >= seen + days, next <= LastDay + MaxAhead
    PROVE  Extending(days, seen, next) \in Orders /\ Extending(days, seen, next).op = "extend"
<1>1. PICK a : a = [Tenant!Idle EXCEPT !.op = "extend"]
  OBVIOUS
<1>2. a \in OrderRow /\ a.op = "extend"
  BY <1>1, IdleOrder DEF Orders, OrderRow, Deeds
<1>3. PICK b : b = [a EXCEPT !.seen = seen]
  OBVIOUS
<1>4. b \in OrderRow /\ b.op = "extend" /\ b.seen = seen
  BY <1>2, <1>3 DEF OrderRow
<1>5. PICK c : c = [b EXCEPT !.days = days]
  OBVIOUS
<1>6. c \in OrderRow /\ c.op = "extend" /\ c.seen = seen /\ c.days = days
  BY <1>4, <1>5 DEF OrderRow
<1>7. PICK d : d = [c EXCEPT !.next = next]
  OBVIOUS
<1>8. d \in OrderRow /\ d.op = "extend" /\ d.seen = seen /\ d.days = days /\ d.next = next
  BY <1>6, <1>7 DEF OrderRow
<1>9. d \in Orders
  BY <1>8, IdleOrder DEF Orders
<1>10. Extending(days, seen, next) = d
  BY <1>1, <1>3, <1>5, <1>7, Zenon DEF Extending
<1> QED BY <1>8, <1>9, <1>10

\* A request for a courtesy or a payment, as it is made.
LEMMA PlanningOrder ==
    ASSUME NEW op \in {"grantCount", "pay"}, NEW tier \in Tiers
    PROVE  /\ Planning(op, tier) \in Orders
           /\ Planning(op, tier).op = op /\ Planning(op, tier).tier = tier
<1>1. PICK a : a = [Tenant!Idle EXCEPT !.op = op]
  OBVIOUS
<1>2. a \in OrderRow /\ a.op = op
  BY <1>1, IdleOrder DEF Orders, OrderRow, Deeds
<1>3. PICK b : b = [a EXCEPT !.tier = tier]
  OBVIOUS
<1>4. b \in OrderRow /\ b.op = op /\ b.tier = tier
  BY <1>2, <1>3 DEF OrderRow
<1>5. b \in Orders
  BY <1>4, IdleOrder DEF Orders
<1>6. Planning(op, tier) = b
  BY <1>1, <1>3, Zenon DEF Planning
<1> QED BY <1>4, <1>5, <1>6

\* A request that adds or activates a professional, as it is made.
LEMMA HiringOrder ==
    ASSUME NEW op \in {"add", "activate"}, NEW p \in Pros
    PROVE  /\ Hiring(op, p) \in Orders
           /\ Hiring(op, p).op = op /\ Hiring(op, p).pro = p
<1>1. PICK a : a = [Tenant!Idle EXCEPT !.op = op]
  OBVIOUS
<1>2. a \in OrderRow /\ a.op = op
  BY <1>1, IdleOrder DEF Orders, OrderRow, Deeds
<1>3. PICK b : b = [a EXCEPT !.pro = p]
  OBVIOUS
<1>4. b \in OrderRow /\ b.op = op /\ b.pro = p
  BY <1>2, <1>3 DEF OrderRow
<1>5. b \in Orders
  BY <1>4, IdleOrder DEF Orders
<1>6. Hiring(op, p) = b
  BY <1>1, <1>3, Zenon DEF Hiring
<1> QED BY <1>4, <1>5, <1>6

\* A request that another one overtook, and a courtesy whose team fits.
LEMMA LaterOrder ==
    ASSUME NEW q \in Orders
    PROVE  /\ q # Tenant!Idle => Late(q) \in Orders /\ Late(q).overtaken
           /\ q.op = "grantCount" => /\ Fitting(q) \in Orders /\ Fitting(q).op = "grantWrite"
                                     /\ Fitting(q).tier = q.tier /\ Fitting(q).overtaken = q.overtaken
<1>1. q \in OrderRow
  BY DEF Orders
<1>2. /\ Late(q) \in OrderRow /\ Late(q).op = q.op /\ Late(q).pro = q.pro /\ Late(q).next = q.next
      /\ Late(q).seen = q.seen /\ Late(q).days = q.days /\ Late(q).overtaken = TRUE
  BY <1>1 DEF Late, OrderRow
<1>3. q # Tenant!Idle => Late(q) \in Orders
  BY <1>2, IdleOrder DEF Orders
<1>4. /\ Fitting(q) \in OrderRow /\ Fitting(q).op = "grantWrite" /\ Fitting(q).tier = q.tier
      /\ Fitting(q).overtaken = q.overtaken
  BY <1>1 DEF Fitting, OrderRow, Deeds
<1>5. Fitting(q) \in Orders
  BY <1>4, IdleOrder DEF Orders
<1> QED BY <1>2, <1>3, <1>4, <1>5, Zenon

-----------------------------------------------------------------------------
(* What a step does to the plan, the team and the requests *)

\* It does nothing to them, or one request looks, goes on or ends, or one writes.
PlanKept == UNCHANGED <<sub, staff, team, pardoned>>
OrderPut == \E r \in Requests, q \in Orders :
    req' = [req EXCEPT ![r] = q] /\ PlanKept /\ (~q.overtaken => Holding(q))
PlanSet == \E r \in Requests, kind \in {"courtesy", "paid"} :
    /\ req[r].op = IF kind = "paid" THEN "pay" ELSE "grantWrite"
    /\ Tenant!SetPlan(r, kind)
CourtesyEnded == Tenant!RemoveCourtesy
Hired == \E r \in Requests :
    /\ req[r].op \in {"add", "activate"} /\ ~((req[r].op = "add") = (req[r].pro \in staff))
    /\ staff' = staff \cup {req[r].pro} /\ team' = team \cup {req[r].pro} /\ sub' = sub
    /\ Tenant!Wrote(r) /\ Tenant!Pardon(req[r].overtaken)
Left == \E p \in Pros, removed \in BOOLEAN : Tenant!Leave(p, removed)
PlanStep == \/ PlanKept /\ req' = req
            \/ OrderPut \/ PlanSet \/ CourtesyEnded \/ Hired \/ Left

\* What a step does to the plan and the team.
LEMMA PlanSteps == ASSUME TenantTypes, Looked, [Tenant!Next]_tenancyVars PROVE PlanStep
<1> USE DEF TenantTypes
<1>1. ASSUME NEW r \in Requests, NEW days \in Days, Tenant!ExtendRead(r, days) PROVE PlanStep
  <2>1. PICK next : next = Tenant!Max({today, trialEnd}) + days
    OBVIOUS
  <2>2. next \in Nat /\ next >= trialEnd + days /\ next <= LastDay + MaxAhead /\ trialEnd \in Nat
    <3>1. PICK m : m = Tenant!Max({today, trialEnd})
      OBVIOUS
    <3>2. m \in Nat /\ m >= trialEnd /\ trialEnd \in Nat /\ today \in Nat /\ today <= LastDay
      BY <3>1, LaterOfTwo, TenantNumbers
    <3>3. m + days <= today + MaxAhead
      BY <1>1, <3>1, Zenon DEF Tenant!ExtendRead
    <3> QED BY <2>1, <3>1, <3>2, <3>3, TenantNumbers
  <2>3. req' = [req EXCEPT ![r] = Extending(days, trialEnd, next)] /\ PlanKept
    BY <1>1, <2>1 DEF Tenant!ExtendRead, Tenant!Busy, Extending, PlanKept
  <2>4. Extending(days, trialEnd, next) \in Orders /\ Extending(days, trialEnd, next).op = "extend"
    BY <2>2, ExtendingOrder
  <2>5. Holding(Extending(days, trialEnd, next))
    BY <2>4 DEF Holding
  <2> QED BY <2>3, <2>4, <2>5, Zenon DEF PlanStep, OrderPut
<1>2. ASSUME NEW r \in Requests, NEW tier \in Tiers, Tenant!GrantRead(r, tier) PROVE PlanStep
  <2>1. req' = [req EXCEPT ![r] = Planning("grantCount", tier)] /\ PlanKept
    BY <1>2 DEF Tenant!GrantRead, Tenant!Busy, Planning, PlanKept
  <2>2. /\ Planning("grantCount", tier) \in Orders
        /\ Planning("grantCount", tier).op = "grantCount"
    BY PlanningOrder
  <2>3. Holding(Planning("grantCount", tier))
    BY <1>2, <2>2 DEF Holding, Tenant!GrantRead, Tenant!Grantable
  <2> QED BY <2>1, <2>2, <2>3, Zenon DEF PlanStep, OrderPut
<1>3. ASSUME NEW r \in Requests, NEW tier \in Tiers, Tenant!CheckOut(r, tier) PROVE PlanStep
  <2>1. req' = [req EXCEPT ![r] = Planning("pay", tier)] /\ PlanKept
    BY <1>3 DEF Tenant!CheckOut, Tenant!Busy, Planning, PlanKept
  <2>2. /\ Planning("pay", tier) \in Orders
        /\ Planning("pay", tier).op = "pay" /\ Planning("pay", tier).tier = tier
    BY PlanningOrder
  <2>3. Holding(Planning("pay", tier))
    BY <1>3, <2>2, SameCardinality DEF Holding, Tenant!CheckOut
  <2> QED BY <2>1, <2>2, <2>3, Zenon DEF PlanStep, OrderPut
<1>4. ASSUME NEW r \in Requests, NEW p \in Pros, Tenant!Add(r, p) \/ Tenant!Activate(r, p)
      PROVE  PlanStep
  <2>1. PICK op \in {"add", "activate"} :
            /\ req' = [req EXCEPT ![r] = Hiring(op, p)] /\ PlanKept
            /\ op = "add" => p \notin staff /\ Tenant!Room
            /\ op = "activate" => p \in staff /\ (p \notin team => Tenant!Room)
    BY <1>4, Zenon DEF Tenant!Add, Tenant!Activate, Tenant!Busy, Hiring, PlanKept
  <2>2. Hiring(op, p) \in Orders /\ Hiring(op, p).op = op /\ Hiring(op, p).pro = p
    BY HiringOrder
  <2>3. Holding(Hiring(op, p))
    BY <2>1, <2>2 DEF Holding
  <2> QED BY <2>1, <2>2, <2>3, Zenon DEF PlanStep, OrderPut
<1>5. \A r : Tenant!Quit(r) /\ r \in Requests /\ PlanKept => PlanStep
  BY IdleOrder DEF Tenant!Quit, PlanStep, OrderPut, Holding
<1>6. ASSUME NEW r \in Requests, Tenant!ExtendWrite(r) \/ Tenant!Unpaid(r) PROVE PlanStep
  BY <1>5, <1>6 DEF Tenant!ExtendWrite, Tenant!Unpaid, PlanKept
<1>7. ASSUME NEW r \in Requests, Tenant!GrantCount(r) PROVE PlanStep
  <2>1. PlanKept /\ req[r].op = "grantCount" /\ req[r] \in Orders
    BY <1>7 DEF Tenant!GrantCount, PlanKept
  <2>2. CASE Tenant!Cardinality(team) <= Ceiling[req[r].tier]
    <3>1. req' = [req EXCEPT ![r] = Fitting(req[r])]
      BY <1>7, <2>2 DEF Tenant!GrantCount, Tenant!Busy, Fitting
    <3>2. /\ Fitting(req[r]) \in Orders /\ Fitting(req[r]).op = "grantWrite"
          /\ Fitting(req[r]).tier = req[r].tier /\ Fitting(req[r]).overtaken = req[r].overtaken
      BY <2>1, LaterOrder
    <3>3. ~Fitting(req[r]).overtaken => Holding(Fitting(req[r]))
      BY <2>1, <2>2, <3>2, SameCardinality DEF Looked, Holding
    <3> QED BY <2>1, <3>1, <3>2, <3>3, Zenon DEF PlanStep, OrderPut
  <2>3. CASE ~(Tenant!Cardinality(team) <= Ceiling[req[r].tier])
    BY <1>5, <1>7, <2>1, <2>3 DEF Tenant!GrantCount
  <2> QED BY <2>2, <2>3
<1>8. ASSUME NEW r \in Requests, Tenant!GrantWrite(r) \/ Tenant!Paid(r) PROVE PlanStep
  BY <1>8, Zenon DEF Tenant!GrantWrite, Tenant!Paid, PlanStep, PlanSet
<1>9. ASSUME NEW r \in Requests, Tenant!AddWrite(r) PROVE PlanStep
  <2>1. CASE (req[r].op = "add") = (req[r].pro \in staff)
    BY <1>5, <1>9, <2>1 DEF Tenant!AddWrite, PlanKept
  <2>2. CASE ~((req[r].op = "add") = (req[r].pro \in staff))
    BY <1>9, <2>2, Zenon DEF Tenant!AddWrite, PlanStep, Hired
  <2> QED BY <2>1, <2>2
<1>10. ASSUME NEW reason \in Reasons, Tenant!Suspend(reason) PROVE PlanStep
  BY <1>10 DEF Tenant!Suspend, PlanStep, PlanKept
<1>11. CASE Tenant!Reactivate \/ Tenant!NextDay \/ UNCHANGED tenancyVars
  BY <1>11 DEF Tenant!Reactivate, Tenant!NextDay, tenancyVars, PlanStep, PlanKept
<1>12. CASE Tenant!RemoveCourtesy \/ \E p \in Pros, removed \in BOOLEAN : Tenant!Leave(p, removed)
  BY <1>12, Zenon DEF PlanStep, CourtesyEnded, Left
<1> QED BY <1>1, <1>2, <1>3, <1>4, <1>6, <1>7, <1>8, <1>9, <1>10, <1>11, <1>12, Zenon
        DEF Tenant!Next

\* The day, the suspension and the trial change in five of the steps only.
Extended == \E r \in Requests : /\ req[r].op = "extend" /\ trialEnd = req[r].seen
                                /\ trialEnd' = req[r].next /\ granted' = granted + req[r].days
TrailStep ==
    /\ UNCHANGED <<suspended, trail>> \/ (\E reason \in Reasons : Tenant!Suspend(reason)) \/ Tenant!Reactivate
    /\ UNCHANGED <<trialEnd, granted>> \/ Extended
    /\ today' = today \/ (today < LastDay /\ today' = today + 1)

\* What a step does to the suspension, the trial and their log.
LEMMA TrailSteps == ASSUME [Tenant!Next]_tenancyVars PROVE TrailStep
<1>1. ASSUME NEW reason \in Reasons, Tenant!Suspend(reason) PROVE TrailStep
  BY <1>1, Zenon DEF Tenant!Suspend, TrailStep
<1>2. CASE Tenant!Reactivate
  BY <1>2, Zenon DEF Tenant!Reactivate, TrailStep
<1>3. CASE Tenant!NextDay
  BY <1>3, Zenon DEF Tenant!NextDay, TrailStep
<1>4. CASE Tenant!RemoveCourtesy \/ UNCHANGED tenancyVars
  BY <1>4 DEF Tenant!RemoveCourtesy, tenancyVars, TrailStep
<1>5. ASSUME NEW p \in Pros, NEW removed \in BOOLEAN, Tenant!Leave(p, removed) PROVE TrailStep
  BY <1>5, Zenon DEF Tenant!Leave, TrailStep
<1>6. ASSUME NEW r \in Requests, Tenant!ExtendWrite(r) PROVE TrailStep
  <2>1. UNCHANGED <<today, suspended, trail>>
    BY <1>6 DEF Tenant!ExtendWrite
  <2>2. CASE Tenant!StillExtendable(req[r])
    BY <1>6, <2>1, <2>2 DEF Tenant!ExtendWrite, Tenant!StillExtendable, TrailStep, Extended
  <2>3. CASE ~Tenant!StillExtendable(req[r])
    BY <1>6, <2>1, <2>3 DEF Tenant!ExtendWrite, TrailStep
  <2> QED BY <2>2, <2>3
<1>7. ASSUME NEW r \in Requests,
             \/ \E days \in Days : Tenant!ExtendRead(r, days)
             \/ \E tier \in Tiers : Tenant!GrantRead(r, tier) \/ Tenant!CheckOut(r, tier)
             \/ \E p \in Pros : Tenant!Add(r, p) \/ Tenant!Activate(r, p)
             \/ Tenant!GrantCount(r) \/ Tenant!GrantWrite(r) \/ Tenant!Paid(r) \/ Tenant!Unpaid(r)
             \/ Tenant!AddWrite(r)
      PROVE  UNCHANGED <<today, suspended, trail, trialEnd, granted>>
  BY <1>7, Zenon DEF Tenant!ExtendRead, Tenant!GrantRead, Tenant!CheckOut, Tenant!Add, Tenant!Activate,
                     Tenant!GrantCount, Tenant!GrantWrite, Tenant!Paid, Tenant!SetPlan, Tenant!Unpaid,
                     Tenant!AddWrite
<1>8. UNCHANGED <<today, suspended, trail, trialEnd, granted>> => TrailStep
  BY DEF TrailStep
<1> QED BY <1>1, <1>2, <1>3, <1>4, <1>5, <1>6, <1>7, <1>8, Zenon DEF Tenant!Next

\* Every step keeps the suspension what the audit log tells, and gives the trial its extension.
TrailTypes ==
    /\ today \in 0..LastDay
    /\ suspended \in Reasons \cup {NoReason} /\ trail \in Seq(Reasons \cup {NoReason})
    /\ trialEnd \in 0..(LastDay + MaxAhead) /\ granted \in Nat

\* The log goes on telling the state.
LEMMA TrailKept ==
    ASSUME TenantTypes, Told, Alternating, TrialTold, TrailStep
    PROVE  TrailTypes' /\ Told' /\ Alternating' /\ TrialTold'
<1> USE TenantNumbers
<1>1. today' \in 0..LastDay
  BY DEF TrailStep, TenantTypes
<1>2. trialEnd' \in 0..(LastDay + MaxAhead) /\ granted' \in Nat /\ TrialTold'
  <2>1. CASE UNCHANGED <<trialEnd, granted>>
    BY <2>1 DEF TenantTypes, TrialTold
  <2>2. CASE Extended
    <3>1. PICK r \in Requests : /\ req[r].op = "extend" /\ trialEnd = req[r].seen
                                /\ trialEnd' = req[r].next /\ granted' = granted + req[r].days
      BY <2>2 DEF Extended
    <3>2. PICK q \in Orders : q = req[r]
      BY DEF TenantTypes
    <3>3. q.next \in Nat /\ q.days \in Nat /\ q.seen \in Nat
          /\ q.next >= q.seen + q.days /\ q.next <= LastDay + MaxAhead
      <4>1. q \in OrderRow /\ q.op = "extend"
        BY <3>1, <3>2 DEF Orders
      <4>2. q.next \in Nat /\ q.days \in Days \cup {0} /\ q.seen \in Nat
        BY <4>1 DEF OrderRow
      <4>3. Days \cup {0} \subseteq Nat
        OBVIOUS
      <4> QED BY <4>1, <4>2, <4>3 DEF Orders
    <3>4. trialEnd \in Nat /\ granted \in Nat /\ trialEnd >= Trial + granted
      BY DEF TenantTypes, TrialTold
    <3> QED BY <3>1, <3>2, <3>3, <3>4 DEF TrialTold
  <2> QED BY <2>1, <2>2 DEF TrailStep
<1>3. ASSUME NEW s \in Reasons \cup {NoReason}, trail' = Append(trail, s), suspended' = s,
             s = NoReason <=> suspended # NoReason
      PROVE  suspended' \in Reasons \cup {NoReason} /\ trail' \in Seq(Reasons \cup {NoReason})
             /\ Told' /\ Alternating'
  <2>1. PICK n \in Nat : n = Len(trail)
    BY DEF TenantTypes
  <2>2. /\ trail' \in Seq(Reasons \cup {NoReason}) /\ Len(trail') = n + 1 /\ trail' # <<>>
        /\ trail'[n + 1] = s /\ \A i \in 1..n : trail'[i] = trail[i]
    BY <1>3, <2>1 DEF TenantTypes
  <2>3. Told'
    BY <1>3, <2>2 DEF Told
  <2>4. suspended = NoReason <=> n % 2 = 0
    <3>1. CASE trail = <<>>
      BY <2>1, <3>1 DEF Told
    <3>2. CASE trail # <<>>
      <4>1. n \in 1..Len(trail) /\ suspended = trail[n]
        BY <2>1, <3>2 DEF Told, TenantTypes
      <4> QED BY <4>1 DEF Alternating
    <3> QED BY <3>1, <3>2
  <2>5. n % 2 = 0 <=> (n + 1) % 2 # 0
    OBVIOUS
  <2>6. s = NoReason <=> (n + 1) % 2 = 0
    BY <1>3, <2>4, <2>5
  <2>7. ASSUME NEW i \in 1..(n + 1) PROVE trail'[i] = NoReason <=> i % 2 = 0
    <3>1. CASE i \in 1..n
      BY <2>1, <2>2, <3>1 DEF Alternating
    <3>2. CASE i = n + 1
      BY <2>2, <2>6, <3>2
    <3> QED BY <3>1, <3>2
  <2>8. Alternating'
    BY <2>2, <2>7 DEF Alternating
  <2> QED BY <1>3, <2>2, <2>3, <2>8
<1>4. suspended' \in Reasons \cup {NoReason} /\ trail' \in Seq(Reasons \cup {NoReason})
      /\ Told' /\ Alternating'
  <2>1. CASE UNCHANGED <<suspended, trail>>
    BY <2>1 DEF TenantTypes, Told, Alternating
  <2>2. ASSUME NEW reason \in Reasons, Tenant!Suspend(reason)
        PROVE  /\ trail' = Append(trail, reason) /\ suspended' = reason
               /\ reason = NoReason <=> suspended # NoReason
    BY <2>2 DEF Tenant!Suspend, Tenant!Suspendable
  <2>3. ASSUME Tenant!Reactivate
        PROVE  /\ trail' = Append(trail, NoReason) /\ suspended' = NoReason
               /\ NoReason = NoReason <=> suspended # NoReason
    BY <2>3 DEF Tenant!Reactivate
  <2> QED BY <1>3, <2>1, <2>2, <2>3 DEF TrailStep
<1> QED BY <1>1, <1>2, <1>4 DEF TrailTypes

\* What becomes of a request when another writes.
LEMMA Overtaken ==
    ASSUME TenantTypes, NEW r, Tenant!Wrote(r)
    PROVE  req' \in [Requests -> Orders] /\ Looked'
<1>1. ASSUME NEW q \in Requests
      PROVE  /\ req'[q] \in Orders
             /\ req'[q] = Tenant!Idle \/ req'[q].overtaken
  <2>1. req[q] \in Orders
    BY DEF TenantTypes
  <2>2. req'[q] = IF q = r \/ req[q] = Tenant!Idle THEN Tenant!Idle ELSE Late(req[q])
    BY DEF Tenant!Wrote, Late
  <2> QED BY <2>1, <2>2, IdleOrder, LaterOrder, Zenon
<1>2. req' \in [Requests -> Orders]
  <2>1. req' = [q \in Requests |-> req'[q]]
    BY DEF Tenant!Wrote
  <2> QED BY <1>1, <2>1
<1>3. ASSUME NEW q \in Requests, ~req'[q].overtaken PROVE Holding(req[q])'
  <2>1. req'[q].op = "idle"
    BY <1>1, <1>3, IdleOrder
  <2> QED BY <2>1 DEF Holding
<1> QED BY <1>2, <1>3, Zenon DEF Looked

\* Every step keeps the team and the requests what they are, and what requests know.
LEMMA PlanKeptTypes ==
    ASSUME TenantTypes, Looked, PlanStep
    PROVE  /\ sub' \in Subscriptions /\ team' \subseteq staff' /\ staff' \subseteq Pros
           /\ IsFiniteSet(team') /\ req' \in [Requests -> Orders] /\ pardoned' \in BOOLEAN /\ Looked'
<1> USE DEF TenantTypes
<1>1. CASE PlanKept /\ req' = req
  BY <1>1 DEF PlanKept, Looked, Holding, Tenant!Room
<1>2. CASE OrderPut
  <2>1. PICK r \in Requests, q \in Orders :
            req' = [req EXCEPT ![r] = q] /\ PlanKept /\ (~q.overtaken => Holding(q))
    BY <1>2, Zenon DEF OrderPut
  <2>2. req' \in [Requests -> Orders]
    BY <2>1
  <2>3. ASSUME NEW s \in Requests, ~req'[s].overtaken PROVE Holding(req[s])'
    <3>1. PICK x : x = req'[s]
      OBVIOUS
    <3>2. Holding(x)
      BY <2>1, <2>3, <3>1 DEF Looked
    <3> QED BY <2>1, <3>1, <3>2 DEF Holding, PlanKept, Tenant!Room
  <2> QED BY <2>1, <2>2, <2>3 DEF PlanKept, Looked
<1>3. CASE PlanSet
  <2>1. PICK r \in Requests, kind \in {"courtesy", "paid"} : Tenant!SetPlan(r, kind)
    BY <1>3 DEF PlanSet
  <2>2. req' \in [Requests -> Orders] /\ Looked'
    BY <2>1, Overtaken DEF Tenant!SetPlan
  <2>3. sub' \in Subscriptions
    BY <2>1 DEF Tenant!SetPlan, Subscriptions, Orders, OrderRow
  <2>4. pardoned' \in BOOLEAN
    BY <2>1, Zenon DEF Tenant!SetPlan, Tenant!Pardon
  <2> QED BY <2>1, <2>2, <2>3, <2>4 DEF Tenant!SetPlan
<1>4. CASE CourtesyEnded
  <2>1. req' \in [Requests -> Orders] /\ Looked'
    BY <1>4, Overtaken DEF CourtesyEnded, Tenant!RemoveCourtesy
  <2>2. sub' \in Subscriptions
    BY <1>4, TenantNumbers DEF CourtesyEnded, Tenant!RemoveCourtesy, Subscriptions
  <2>3. pardoned' \in BOOLEAN
    BY <1>4, Zenon DEF CourtesyEnded, Tenant!RemoveCourtesy, Tenant!Pardon
  <2> QED BY <1>4, <2>1, <2>2, <2>3 DEF CourtesyEnded, Tenant!RemoveCourtesy
<1>5. CASE Hired
  <2>1. PICK r \in Requests :
            /\ req[r].op \in {"add", "activate"} /\ sub' = sub
            /\ staff' = staff \cup {req[r].pro} /\ team' = team \cup {req[r].pro}
            /\ Tenant!Wrote(r) /\ Tenant!Pardon(req[r].overtaken)
    BY <1>5, Zenon DEF Hired
  <2>2. req' \in [Requests -> Orders] /\ Looked'
    BY <2>1, Overtaken
  <2>3. req[r].pro \in Pros
    BY <2>1 DEF Orders
  <2>4. pardoned' \in BOOLEAN
    BY <2>1, Zenon DEF Tenant!Pardon
  <2>5. IsFiniteSet(team')
    BY <2>1, FS_AddElement
  <2> QED BY <2>1, <2>2, <2>3, <2>4, <2>5
<1>6. CASE Left
  <2>1. PICK p \in Pros, removed \in BOOLEAN : Tenant!Leave(p, removed)
    BY <1>6 DEF Left
  <2>2. req' \in [Requests -> Orders] /\ Looked'
    BY <2>1, Overtaken DEF Tenant!Leave
  <2>3. pardoned' \in BOOLEAN
    BY <2>1, Zenon DEF Tenant!Leave, Tenant!Pardon
  <2>4. IsFiniteSet(team')
    BY <2>1, FS_RemoveElement DEF Tenant!Leave
  <2>5. team' \subseteq staff' /\ staff' \subseteq Pros /\ sub' = sub
    BY <2>1 DEF Tenant!Leave
  <2> QED BY <2>2, <2>3, <2>4, <2>5
<1> QED BY <1>1, <1>2, <1>3, <1>4, <1>5, <1>6, Zenon DEF PlanStep

\* The team fits the plan, unless a write was overtaken or a courtesy was taken away.
LEMMA TeamFits ==
    ASSUME TenantTypes, Looked, Tenant!OverLimitOnlyIfOvertaken, PlanStep, TenantTypes'
    PROVE  Tenant!OverLimitOnlyIfOvertaken'
<1> DEFINE size == Cardinality(team)  room == Tenant!Limit(sub)
<1>1. Tenant!OverLimitOnlyIfOvertaken <=> size <= room \/ pardoned
  BY SameCardinality DEF Tenant!OverLimitOnlyIfOvertaken
<1>2. Tenant!OverLimitOnlyIfOvertaken' <=> size' <= room' \/ pardoned'
  BY SameCardinality DEF Tenant!OverLimitOnlyIfOvertaken
<1>3. size \in Nat /\ size' \in Nat
  BY FS_CardinalityType DEF TenantTypes
<1>4. room \in Nat /\ room' \in Nat
  BY TenantNumbers DEF TenantTypes, Subscriptions, Tenant!Limit
<1>5. \A cause : Tenant!Pardon(cause) => (pardoned' <=> (pardoned \/ cause) /\ size' > room')
  BY SameCardinality DEF Tenant!Pardon
<1> HIDE DEF size, room
<1>6. \A cause : Tenant!Pardon(cause) /\ (size' <= room' \/ pardoned \/ cause) => size' <= room' \/ pardoned'
  BY <1>3, <1>4, <1>5
<1>7. CASE PlanKept
  BY <1>1, <1>2, <1>7 DEF PlanKept, size, room, Tenant!Limit
<1>8. CASE PlanSet
  <2>1. PICK r \in Requests, kind \in {"courtesy", "paid"} :
            req[r].op \in {"grantWrite", "pay"} /\ Tenant!SetPlan(r, kind)
    BY <1>8 DEF PlanSet
  <2>2. team' = team /\ sub' = [kind |-> kind, tier |-> req[r].tier] /\ Tenant!Pardon(req[r].overtaken)
    BY <2>1 DEF Tenant!SetPlan
  <2>3. size' = size /\ room' = Ceiling[req[r].tier]
    BY <2>2 DEF size, room, Tenant!Limit
  <2>4. ~req[r].overtaken => size <= Ceiling[req[r].tier]
    BY <2>1 DEF Looked, Holding, size
  <2> QED BY <1>2, <1>6, <2>2, <2>3, <2>4
<1>9. CASE CourtesyEnded
  <2>1. Tenant!Pardon(TRUE)
    BY <1>9 DEF CourtesyEnded, Tenant!RemoveCourtesy
  <2> QED BY <1>2, <1>6, <2>1
<1>10. CASE Hired
  <2>1. PICK r \in Requests :
            /\ req[r].op \in {"add", "activate"} /\ sub' = sub /\ team' = team \cup {req[r].pro}
            /\ Tenant!Pardon(req[r].overtaken)
    BY <1>10, Zenon DEF Hired
  <2>2. room' = room /\ size' = IF req[r].pro \in team THEN size ELSE size + 1
    BY <2>1, FS_AddElement DEF TenantTypes, size, room, Tenant!Limit
  <2>3. CASE req[r].pro \in team
    BY <1>1, <1>2, <1>6, <2>1, <2>2, <2>3
  <2>4. CASE req[r].pro \notin team /\ req[r].overtaken
    BY <1>2, <1>6, <2>1, <2>4
  <2>5. CASE req[r].pro \notin team /\ ~req[r].overtaken
    <3>1. Tenant!Room
      BY <2>1, <2>5 DEF Looked, Holding
    <3>2. size < room
      BY <3>1, SameCardinality DEF Tenant!Room, size, room
    <3> QED BY <1>2, <1>3, <1>4, <2>2, <2>5, <3>2
  <2> QED BY <2>3, <2>4, <2>5
<1>11. CASE Left
  <2>1. PICK p \in Pros : team' = team \ {p} /\ sub' = sub /\ Tenant!Pardon(FALSE)
    BY <1>11 DEF Left, Tenant!Leave
  <2>2. room' = room /\ size' <= size
    <3>1. room' = room
      BY <2>1 DEF room, Tenant!Limit
    <3>2. size' <= size
      BY <2>1, FS_Subset DEF TenantTypes, size
    <3> QED BY <3>1, <3>2
  <2>3. size' <= room' \/ pardoned
    BY <1>1, <1>3, <1>4, <2>2
  <2> QED BY <1>2, <1>6, <2>1, <2>3
<1> QED BY <1>7, <1>8, <1>9, <1>10, <1>11, Zenon DEF PlanStep, OrderPut

\* The invariant of a salon holds at the start, and every step keeps it.
LEMMA TenantInitial == Tenant!Init => TenantInv
<1> SUFFICES ASSUME Tenant!Init PROVE TenantInv
  OBVIOUS
<1> USE TenantNumbers DEF Tenant!Init
<1>1. sub \in Subscriptions /\ Cardinality(team) = 0 /\ IsFiniteSet(team) /\ Tenant!Limit(sub) \in Nat
  BY FS_EmptySet DEF Subscriptions, Tenant!Limit
<1>2. req \in [Requests -> Orders] /\ \A r \in Requests : req[r].op = "idle"
  BY IdleOrder
<1>3. TenantTypes
  <2>1. today \in 0..LastDay /\ trialEnd \in 0..(LastDay + MaxAhead) /\ granted \in Nat
    OBVIOUS
  <2>2. suspended \in Reasons \cup {NoReason} /\ trail \in Seq(Reasons \cup {NoReason})
    OBVIOUS
  <2>3. team \subseteq staff /\ staff \subseteq Pros /\ pardoned \in BOOLEAN
    OBVIOUS
  <2> QED BY <1>1, <1>2, <2>1, <2>2, <2>3, Zenon DEF TenantTypes
<1>4. Looked
  BY <1>2 DEF Looked, Holding
<1>5. Told /\ Alternating /\ TrialTold
  BY DEF Told, Alternating, TrialTold
<1>6. Tenant!OverLimitOnlyIfOvertaken
  BY <1>1, SameCardinality DEF Tenant!OverLimitOnlyIfOvertaken
<1> QED BY <1>3, <1>4, <1>5, <1>6 DEF TenantInv

\* Every step keeps the invariant of a salon.
LEMMA TenantKept == TenantInv /\ [Tenant!Next]_tenancyVars => TenantInv'
<1> SUFFICES ASSUME TenantInv, [Tenant!Next]_tenancyVars PROVE TenantInv'
  OBVIOUS
<1> USE DEF TenantInv
<1>1. PlanStep /\ TrailStep
  BY PlanSteps, TrailSteps
<1>2. TrailTypes' /\ Told' /\ Alternating' /\ TrialTold'
  BY <1>1, TrailKept
<1>3. TenantTypes' /\ Looked'
  BY <1>1, <1>2, PlanKeptTypes DEF TrailTypes, TenantTypes
<1> QED BY <1>1, <1>2, <1>3, TeamFits

\* What the invariant says: the audit log tells the salon's state, the rows have their shape, and a
\* paid subscription becomes a courtesy only by a request that it overtook.
LEMMA TenantShown ==
    TenantInv => /\ Tenant!AuditTellsSalon /\ Tenant!TypeOK
                 /\ \A r \in Requests : req[r].op = "grantWrite" /\ sub.kind = "paid" => req[r].overtaken
<1> SUFFICES ASSUME TenantInv
             PROVE  /\ Tenant!AuditTellsSalon /\ Tenant!TypeOK
                    /\ \A r \in Requests : req[r].op = "grantWrite" /\ sub.kind = "paid" => req[r].overtaken
  OBVIOUS
<1> USE DEF TenantInv
<1>1. Tenant!AuditTellsSalon
  BY Zenon DEF Tenant!AuditTellsSalon, Told, Alternating, TrialTold
<1>2. Tenant!TypeOK
  BY DEF Tenant!TypeOK, TenantTypes, Orders, Subscriptions
<1>3. \A r \in Requests : req[r].op = "grantWrite" /\ sub.kind = "paid" => req[r].overtaken
  BY DEF Looked, Holding
<1> QED BY <1>1, <1>2, <1>3

\* A paid subscription becomes a courtesy by a request that had been overtaken.
LEMMA CourtesyStep ==
    ASSUME TenantInv, [Tenant!Next]_tenancyVars, sub.kind = "paid", sub'.kind = "courtesy"
    PROVE  \E r \in Requests : req[r].op = "grantWrite" /\ req[r].overtaken
<1>1. PlanStep
  BY PlanSteps DEF TenantInv
<1>2. PICK r \in Requests, kind \in {"courtesy", "paid"} :
          req[r].op = (IF kind = "paid" THEN "pay" ELSE "grantWrite") /\ Tenant!SetPlan(r, kind)
  BY <1>1 DEF PlanStep, PlanKept, OrderPut, PlanSet, CourtesyEnded, Tenant!RemoveCourtesy, Hired, Left,
              Tenant!Leave
<1>3. kind = "courtesy"
  BY <1>2 DEF Tenant!SetPlan
<1> QED BY <1>2, <1>3, TenantShown

-----------------------------------------------------------------------------
(* Ledger: categories and entries *)

FinanceCalls == {q \in [pc : {"idle", "defaults", "settle"}, id : EntryIds \cup {0}, overtaken : BOOLEAN] :
                    q.pc = "settle" => q.id \in EntryIds}
EntryStates == Finances!EntryRow \cup {Finances!None}

OneOfAName == \A a, b \in categories : a.name = b.name /\ a.direction = b.direction => a = b

\* A settlement is of an entry that is there, and is overtaken when it was cancelled meanwhile.
SettlesKnown == \A c \in Calls : call[c].pc = "settle" =>
    entries[call[c].id] # Finances!None /\ (entries[call[c].id].status = "CANCELED" => call[c].overtaken)
TicketsArePaid == \A i \in EntryIds : entries[i].source = "TICKET" => entries[i].status = "PAID"

LedgerInv ==
    /\ categories \subseteq Finances!Category /\ OneOfAName
    /\ entries \in [EntryIds -> EntryStates] /\ TicketsArePaid
    /\ call \in [Calls -> FinanceCalls] /\ SettlesKnown

\* What the assumptions on the constants say.
LEMMA LedgerNames ==
    /\ Sales \in Names /\ Commissions \in Names /\ NoCategory \notin Names
    /\ Defaults \subseteq Finances!Category
    /\ \A a, b \in Defaults : a.name = b.name /\ a.direction = b.direction => a = b
<1>1. Sales \in Names /\ Commissions \in Names /\ NoCategory \notin Names
  BY FinancesAssumed DEF Finances!LedgerAssumption
<1> QED BY <1>1 DEF Defaults, Finances!Category, Finances!Directions

\* No entry is the row that is not there.
LEMMA EntriesAreThere ==
    ASSUME NEW e \in EntryStates, e # Finances!None
    PROVE  e \in Finances!EntryRow /\ e.source \in {"MANUAL", "TICKET", "COMMISSION"}
BY DEF EntryStates, Finances!EntryRow, Finances!None

\* An entry stays as it is, is written for the first time, changes its category, is settled, or is
\* cancelled, which every settlement of it on its way will know.
EntryWritten(i) == /\ entries[i] = Finances!None /\ entries'[i] \in Finances!EntryRow
                   /\ entries'[i].status # "CANCELED"
                   /\ entries'[i].source = "TICKET" => entries'[i].status = "PAID"
EntryNamed(i) == /\ entries[i] # Finances!None /\ entries'[i] \in Finances!EntryRow
                 /\ entries'[i].status = entries[i].status /\ entries'[i].source = entries[i].source
EntrySettled(i) == /\ entries[i] # Finances!None /\ entries'[i] = [entries[i] EXCEPT !.status = "PAID"]
                   /\ \E c \in Calls : call[c].pc = "settle" /\ call[c].id = i
EntryCancelled(i) == /\ entries[i] # Finances!None /\ entries[i].source # "TICKET"
                     /\ entries'[i] = [entries[i] EXCEPT !.status = "CANCELED"]
                     /\ \A c \in Calls : call'[c].pc = "settle" /\ call'[c].id = i => call'[c].overtaken
EntryMove(i) == \/ entries'[i] = entries[i]
                \/ EntryWritten(i) \/ EntryNamed(i) \/ EntrySettled(i) \/ EntryCancelled(i)

\* Every action is one of the moves above, for each entry.
LEMMA EntryMoves ==
    ASSUME LedgerInv, [Finances!Next]_ledgerVars
    PROVE  entries' = [i \in EntryIds |-> entries'[i]] /\ \A i \in EntryIds : EntryMove(i)
<1> DEFINE Goal == entries' = [i \in EntryIds |-> entries'[i]] /\ \A i \in EntryIds : EntryMove(i)
<1> USE DEF LedgerInv
<1>1. entries' = entries => Goal
  BY DEF EntryMove
<1>2. ASSUME NEW i \in EntryIds, NEW e, entries' = [entries EXCEPT ![i] = e], entries'[i] = e => EntryMove(i)
      PROVE  Goal
  <2>1. entries'[i] = e /\ \A j \in EntryIds \ {i} : entries'[j] = entries[j]
    BY <1>2
  <2>2. \A j \in EntryIds : EntryMove(j)
    BY <1>2, <2>1, Zenon DEF EntryMove
  <2> QED BY <1>2, <2>2
<1> HIDE DEF Goal
<1>3. ASSUME NEW i \in EntryIds, NEW source \in {"TICKET", "COMMISSION"}, NEW direction \in Finances!Directions,
             NEW name \in Names, Finances!Record(i, source, direction, name)
      PROVE  Goal
  <2>1. PICK k : k = Finances!Lookup(name, direction)
    OBVIOUS
  <2>2. k \in Names \cup {NoCategory}
    BY <2>1 DEF Finances!Lookup
  <2>3. PICK e : e = [source |-> source, direction |-> direction, category |-> k, status |-> "PAID"]
    OBVIOUS
  <2>4. e \in Finances!EntryRow /\ e.status = "PAID"
    BY <2>2, <2>3 DEF Finances!EntryRow
  <2>5. entries[i] = Finances!None /\ entries' = [entries EXCEPT ![i] = e]
    BY <1>3, <2>1, <2>3, Zenon DEF Finances!Record
  <2>6. entries'[i] = e => EntryMove(i)
    BY <2>4, <2>5 DEF EntryMove, EntryWritten
  <2> QED BY <1>2, <2>5, <2>6
<1>4. ASSUME NEW i \in EntryIds, NEW category \in Names \cup {NoCategory},
             NEW direction \in Finances!Directions, NEW paid \in BOOLEAN,
             Finances!CreateEntry(i, direction, category, paid)
      PROVE  Goal
  <2>1. PICK status : status = IF paid THEN "PAID" ELSE "PENDING"
    OBVIOUS
  <2>2. PICK e : e = [source |-> "MANUAL", direction |-> direction, category |-> category, status |-> status]
    OBVIOUS
  <2>3. e \in Finances!EntryRow /\ e.status # "CANCELED" /\ e.source = "MANUAL"
    BY <2>1, <2>2 DEF Finances!EntryRow
  <2>4. entries[i] = Finances!None /\ entries' = [entries EXCEPT ![i] = e]
    BY <1>4, <2>1, <2>2, Zenon DEF Finances!CreateEntry
  <2>5. entries'[i] = e => EntryMove(i)
    BY <2>3, <2>4 DEF EntryMove, EntryWritten
  <2> QED BY <1>2, <2>4, <2>5
<1>5. ASSUME NEW i \in EntryIds, NEW category \in Names \cup {NoCategory}, Finances!UpdateEntry(i, category)
      PROVE  Goal
  <2>1. entries[i] # Finances!None
    BY <1>5 DEF Finances!UpdateEntry, Finances!None
  <2>2. entries[i] \in Finances!EntryRow
    BY <2>1, EntriesAreThere
  <2>3. PICK e : e = [entries[i] EXCEPT !.category = category]
    OBVIOUS
  <2>4. e \in Finances!EntryRow /\ e.status = entries[i].status /\ e.source = entries[i].source
    BY <2>2, <2>3 DEF Finances!EntryRow
  <2>5. entries' = [entries EXCEPT ![i] = e]
    BY <1>5, <2>3 DEF Finances!UpdateEntry
  <2>6. entries'[i] = e => EntryMove(i)
    BY <2>1, <2>4 DEF EntryMove, EntryNamed
  <2> QED BY <1>2, <2>5, <2>6
<1>6. ASSUME NEW c \in Calls, Finances!SettleWrite(c) PROVE Goal
  <2>1. call[c].pc = "settle" /\ call[c].id \in EntryIds /\ entries[call[c].id] # Finances!None
    BY <1>6 DEF Finances!SettleWrite, SettlesKnown, FinanceCalls
  <2>2. PICK i \in EntryIds : i = call[c].id
    BY <2>1
  <2>3. entries' = [entries EXCEPT ![i] = [entries[i] EXCEPT !.status = "PAID"]]
    BY <1>6, <2>2 DEF Finances!SettleWrite
  <2>4. entries'[i] = [entries[i] EXCEPT !.status = "PAID"] => EntryMove(i)
    BY <2>1, <2>2, Zenon DEF EntryMove, EntrySettled
  <2> QED BY <1>2, <2>3, <2>4
<1>7. ASSUME NEW i \in EntryIds, Finances!CancelEntry(i) PROVE Goal
  <2>1. entries[i] # Finances!None /\ entries[i].source # "TICKET"
    BY <1>7 DEF Finances!CancelEntry, Finances!None
  <2>2. entries' = [entries EXCEPT ![i] = [entries[i] EXCEPT !.status = "CANCELED"]]
    BY <1>7 DEF Finances!CancelEntry
  <2>3. ASSUME NEW c \in Calls, call'[c].pc = "settle", call'[c].id = i PROVE call'[c].overtaken
    <3>1. call[c] \in FinanceCalls
      OBVIOUS
    <3>2. call'[c] = IF call[c].pc = "settle" /\ call[c].id = i THEN Late(call[c]) ELSE call[c]
      BY <1>7 DEF Finances!CancelEntry, Late
    <3> QED BY <2>3, <3>1, <3>2 DEF Late, FinanceCalls
  <2>4. entries'[i] = [entries[i] EXCEPT !.status = "CANCELED"] => EntryMove(i)
    BY <2>1, <2>3, Zenon DEF EntryMove, EntryCancelled
  <2> QED BY <1>2, <2>2, <2>4
<1>8. ASSUME NEW k \in categories, NEW name \in Names, NEW archived \in BOOLEAN,
             Finances!UpdateCategory(k, name, archived)
      PROVE  Goal
  <2>1. entries' = [i \in EntryIds |->
           IF entries[i] # Finances!None /\ entries[i].category = k.name /\ entries[i].direction = k.direction
             THEN [entries[i] EXCEPT !.category = name] ELSE entries[i]]
    BY <1>8 DEF Finances!UpdateCategory
  <2>2. ASSUME NEW i \in EntryIds PROVE EntryMove(i)
    <3>1. CASE entries[i] # Finances!None /\ entries[i].category = k.name /\ entries[i].direction = k.direction
      <4>1. entries[i] \in Finances!EntryRow
        BY <3>1, EntriesAreThere
      <4>2. PICK e : e = [entries[i] EXCEPT !.category = name]
        OBVIOUS
      <4>3. e \in Finances!EntryRow /\ e.status = entries[i].status /\ e.source = entries[i].source
        BY <4>1, <4>2 DEF Finances!EntryRow
      <4>4. entries'[i] = e
        BY <2>1, <3>1, <4>2
      <4> QED BY <3>1, <4>3, <4>4 DEF EntryMove, EntryNamed
    <3>2. CASE ~(entries[i] # Finances!None /\ entries[i].category = k.name /\ entries[i].direction = k.direction)
      BY <2>1, <3>2 DEF EntryMove
    <3> QED BY <3>1, <3>2
  <2> QED BY <2>1, <2>2, Zenon DEF Goal
<1>9. ASSUME NEW c \in Calls,
             \/ Finances!ListCategories(c) \/ Finances!CreateDefaults(c)
             \/ \E i \in EntryIds : Finances!SettleRead(c, i)
      PROVE  Goal
  BY <1>1, <1>9, Zenon DEF Finances!ListCategories, Finances!CreateDefaults, Finances!SettleRead
<1>10. ASSUME NEW name, NEW direction, Finances!CreateCategory(name, direction) PROVE Goal
  BY <1>1, <1>10 DEF Finances!CreateCategory
<1>11. UNCHANGED ledgerVars => Goal
  BY <1>1 DEF ledgerVars
<1>12. "INCOME" \in Finances!Directions /\ "EXPENSE" \in Finances!Directions
  BY DEF Finances!Directions
<1>13. Goal
  BY <1>3, <1>4, <1>5, <1>6, <1>7, <1>8, <1>9, <1>10, <1>11, <1>12, LedgerNames, Zenon DEF Finances!Next
<1> QED BY <1>13 DEF Goal

\* A request goes on to something other than a settlement, begins one, or is overtaken in it.
CallMove(c) ==
    /\ call'[c] \in FinanceCalls
    /\ \/ call'[c].pc # "settle"
       \/ /\ call'[c].id \in EntryIds /\ entries[call'[c].id] # Finances!None
          /\ entries[call'[c].id].status # "CANCELED" /\ entries' = entries
       \/ call[c].pc = "settle" /\ call'[c].id = call[c].id /\ (call[c].overtaken => call'[c].overtaken)

\* Every action is one of the moves above, for each request.
LEMMA CallMoves ==
    ASSUME LedgerInv, [Finances!Next]_ledgerVars
    PROVE  call' = [c \in Calls |-> call'[c]] /\ \A c \in Calls : CallMove(c)
<1> DEFINE Goal == call' = [c \in Calls |-> call'[c]] /\ \A c \in Calls : CallMove(c)
<1> USE DEF LedgerInv
<1>1. call' = call => Goal
  BY DEF CallMove
<1>2. ASSUME NEW c \in Calls, NEW q, call' = [call EXCEPT ![c] = q], call'[c] = q => CallMove(c)
      PROVE  Goal
  <2>1. call'[c] = q /\ \A d \in Calls \ {c} : call'[d] = call[d]
    BY <1>2
  <2>2. \A d \in Calls \ {c} : CallMove(d)
    BY <2>1 DEF CallMove
  <2> QED BY <1>2, <2>1, <2>2
<1> HIDE DEF Goal
<1>3. ASSUME NEW c \in Calls, NEW pc \in {"idle", "defaults"},
             call' = [call EXCEPT ![c] = [Finances!IdleCall EXCEPT !.pc = pc]]
      PROVE  Goal
  <2>1. PICK q : q = [Finances!IdleCall EXCEPT !.pc = pc]
    OBVIOUS
  <2>2. q \in FinanceCalls /\ q.pc # "settle"
    BY <2>1 DEF Finances!IdleCall, FinanceCalls
  <2> QED BY <1>2, <1>3, <2>1, <2>2, Zenon DEF CallMove
<1>4. Finances!IdleCall = [Finances!IdleCall EXCEPT !.pc = "idle"]
  BY DEF Finances!IdleCall
<1>5. ASSUME NEW c \in Calls,
             Finances!ListCategories(c) \/ Finances!CreateDefaults(c) \/ Finances!SettleWrite(c)
      PROVE  Goal
  BY <1>3, <1>4, <1>5, Zenon
     DEF Finances!ListCategories, Finances!CreateDefaults, Finances!SettleWrite, Finances!Reply
<1>6. ASSUME NEW c \in Calls, NEW i \in EntryIds, Finances!SettleRead(c, i) PROVE Goal
  <2>1. PICK q : q = [Finances!IdleCall EXCEPT !.pc = "settle", !.id = i]
    OBVIOUS
  <2>2. q \in FinanceCalls /\ q.id = i
    BY <2>1 DEF Finances!IdleCall, FinanceCalls
  <2>3. call' = [call EXCEPT ![c] = q]
    BY <1>6, <2>1 DEF Finances!SettleRead, Finances!Reply
  <2>4. entries' = entries /\ entries[i] # Finances!None /\ entries[i].status # "CANCELED"
    BY <1>6 DEF Finances!SettleRead, Finances!Settleable
  <2>5. call'[c] = q => CallMove(c)
    BY <2>2, <2>4, Zenon DEF CallMove
  <2> QED BY <1>2, <2>3, <2>5
<1>7. ASSUME NEW i \in EntryIds, Finances!CancelEntry(i) PROVE Goal
  <2>1. call' = [c \in Calls |-> IF call[c].pc = "settle" /\ call[c].id = i THEN Late(call[c]) ELSE call[c]]
    BY <1>7 DEF Finances!CancelEntry, Late
  <2>2. ASSUME NEW c \in Calls PROVE CallMove(c)
    <3>1. call[c] \in FinanceCalls
      OBVIOUS
    <3>2. /\ Late(call[c]) \in FinanceCalls /\ Late(call[c]).pc = call[c].pc
          /\ Late(call[c]).id = call[c].id /\ Late(call[c]).overtaken
      BY <3>1 DEF Late, FinanceCalls
    <3>3. call'[c] = call[c] \/ call'[c] = Late(call[c])
      BY <2>1
    <3> QED BY <3>1, <3>2, <3>3 DEF CallMove
  <2> QED BY <2>1, <2>2 DEF Goal
<1>8. ASSUME NEW k, NEW name, NEW archived, Finances!UpdateCategory(k, name, archived) PROVE Goal
  BY <1>1, <1>8 DEF Finances!UpdateCategory
<1>9. ASSUME NEW name, NEW direction, Finances!CreateCategory(name, direction) PROVE Goal
  BY <1>1, <1>9 DEF Finances!CreateCategory
<1>10. ASSUME NEW i \in EntryIds,
              \/ Finances!Record(i, "TICKET", "INCOME", Sales)
              \/ Finances!Record(i, "COMMISSION", "EXPENSE", Commissions)
              \/ \E category : Finances!UpdateEntry(i, category)
              \/ \E category, direction, paid : Finances!CreateEntry(i, direction, category, paid)
       PROVE  Goal
  BY <1>1, <1>10, Zenon DEF Finances!Record, Finances!UpdateEntry, Finances!CreateEntry
<1>11. UNCHANGED ledgerVars => Goal
  BY <1>1 DEF ledgerVars
<1>12. Goal
  BY <1>5, <1>6, <1>7, <1>8, <1>9, <1>10, <1>11, Zenon DEF Finances!Next
<1> QED BY <1>12 DEF Goal

\* Two categories of a name and a direction are the same one.
LEMMA CategoriesKept ==
    ASSUME LedgerInv, [Finances!Next]_ledgerVars
    PROVE  categories' \subseteq Finances!Category /\ OneOfAName'
<1> DEFINE Goal == categories' \subseteq Finances!Category /\ OneOfAName'
<1> USE DEF LedgerInv
<1>1. categories' = categories => Goal
  BY DEF OneOfAName
<1>2. ASSUME NEW name \in Names, NEW direction \in Finances!Directions, Finances!CreateCategory(name, direction)
      PROVE  Goal
  <2>1. PICK k : k = [name |-> name, direction |-> direction, isArchived |-> FALSE]
    OBVIOUS
  <2>2. k \in Finances!Category /\ k.name = name /\ k.direction = direction
    BY <2>1 DEF Finances!Category
  <2>3. categories' = categories \cup {k} /\ \A a \in categories : a.name # name \/ a.direction # direction
    BY <1>2, <2>1 DEF Finances!CreateCategory, Finances!Holds
  <2> QED BY <2>2, <2>3 DEF OneOfAName
<1>3. ASSUME NEW k \in categories, NEW name \in Names, NEW archived \in BOOLEAN,
             Finances!UpdateCategory(k, name, archived)
      PROVE  Goal
  <2>1. PICK n : n = [name |-> name, direction |-> k.direction, isArchived |-> archived]
    OBVIOUS
  <2>2. k \in Finances!Category
    OBVIOUS
  <2>3. n \in Finances!Category /\ n.name = name /\ n.direction = k.direction
    BY <2>1, <2>2 DEF Finances!Category
  <2>4. categories' = (categories \ {k}) \cup {n}
    BY <1>3, <2>1 DEF Finances!UpdateCategory
  <2>5. \A a \in categories \ {k} : a.name # name \/ a.direction # k.direction
    <3>1. CASE name = k.name
      BY <3>1 DEF OneOfAName
    <3>2. CASE name # k.name
      BY <1>3, <3>2 DEF Finances!UpdateCategory, Finances!Holds
    <3> QED BY <3>1, <3>2
  <2> QED BY <2>3, <2>4, <2>5 DEF OneOfAName
<1>4. ASSUME NEW c \in Calls, Finances!CreateDefaults(c) PROVE Goal
  <2>1. categories' = categories \cup {d \in Defaults : ~\E k \in categories : Finances!Same(k, d)}
    BY <1>4 DEF Finances!CreateDefaults
  <2> QED BY <2>1, LedgerNames DEF Finances!Same, OneOfAName
<1> HIDE DEF Goal
<1>5. ASSUME NEW c \in Calls,
             \/ Finances!ListCategories(c) \/ Finances!SettleWrite(c)
             \/ \E i \in EntryIds : Finances!SettleRead(c, i)
      PROVE  Goal
  BY <1>1, <1>5, Zenon DEF Finances!ListCategories, Finances!SettleWrite, Finances!SettleRead
<1>6. ASSUME NEW i \in EntryIds,
             \/ Finances!Record(i, "TICKET", "INCOME", Sales)
             \/ Finances!Record(i, "COMMISSION", "EXPENSE", Commissions)
             \/ Finances!CancelEntry(i)
             \/ \E category : Finances!UpdateEntry(i, category)
             \/ \E category, direction, paid : Finances!CreateEntry(i, direction, category, paid)
      PROVE  Goal
  BY <1>1, <1>6, Zenon DEF Finances!Record, Finances!UpdateEntry, Finances!CreateEntry, Finances!CancelEntry
<1>7. UNCHANGED ledgerVars => Goal
  BY <1>1 DEF ledgerVars
<1>8. Goal
  BY <1>2, <1>3, <1>4, <1>5, <1>6, <1>7, Zenon DEF Finances!Next
<1> QED BY <1>8 DEF Goal

\* The invariant of the ledger holds at the start, and every step keeps it.
LEMMA LedgerInitial == Finances!Init => LedgerInv
<1> SUFFICES ASSUME Finances!Init PROVE LedgerInv
  OBVIOUS
<1>1. Finances!IdleCall \in FinanceCalls /\ Finances!IdleCall.pc = "idle"
  BY DEF Finances!IdleCall, FinanceCalls
<1>2. Finances!None \in EntryStates /\ Finances!None.source = "none"
  BY DEF EntryStates, Finances!None
<1> QED BY <1>1, <1>2 DEF Finances!Init, LedgerInv, OneOfAName, TicketsArePaid, SettlesKnown

\* Every step keeps the invariant of the entries.
LEMMA LedgerKept == LedgerInv /\ [Finances!Next]_ledgerVars => LedgerInv'
<1> SUFFICES ASSUME LedgerInv, [Finances!Next]_ledgerVars PROVE LedgerInv'
  OBVIOUS
<1>1. \A i \in EntryIds : EntryMove(i)
  BY EntryMoves
<1>2. \A c \in Calls : CallMove(c)
  BY CallMoves
<1>3. ASSUME NEW i \in EntryIds
      PROVE  /\ entries'[i] \in EntryStates
             /\ entries'[i].source = "TICKET" => entries'[i].status = "PAID"
             /\ entries[i] # Finances!None => entries'[i] # Finances!None
  <2>1. /\ entries[i] \in EntryStates /\ Finances!EntryRow \subseteq EntryStates
        /\ Finances!None \notin Finances!EntryRow
        /\ entries[i].source = "TICKET" => entries[i].status = "PAID"
    BY DEF LedgerInv, TicketsArePaid, EntryStates, Finances!EntryRow, Finances!None
  <2>2. \A status \in {"PAID", "CANCELED"} : entries[i] # Finances!None =>
            /\ [entries[i] EXCEPT !.status = status] \in Finances!EntryRow
            /\ [entries[i] EXCEPT !.status = status].source = entries[i].source
            /\ [entries[i] EXCEPT !.status = status].status = status
    <3>1. entries[i] # Finances!None => entries[i] \in Finances!EntryRow
      BY <2>1, EntriesAreThere
    <3> QED BY <3>1 DEF Finances!EntryRow
  <2>3. EntryMove(i)
    BY <1>1
  <2> QED BY <2>1, <2>2, <2>3, Zenon
          DEF EntryMove, EntryWritten, EntryNamed, EntrySettled, EntryCancelled
<1>4. entries' \in [EntryIds -> EntryStates] /\ TicketsArePaid'
  <2>1. entries' = [i \in EntryIds |-> entries'[i]]
    BY EntryMoves
  <2>2. entries' \in [EntryIds -> EntryStates]
    BY <1>3, <2>1
  <2> QED BY <1>3, <2>2 DEF TicketsArePaid
<1>5. call' \in [Calls -> FinanceCalls]
  <2>1. call' = [c \in Calls |-> call'[c]]
    BY CallMoves
  <2> QED BY <1>2, <2>1 DEF CallMove
<1>6. SettlesKnown'
  <2> SUFFICES ASSUME NEW c \in Calls, call'[c].pc = "settle"
               PROVE  /\ entries'[call'[c].id] # Finances!None
                      /\ entries'[call'[c].id].status = "CANCELED" => call'[c].overtaken
    BY DEF SettlesKnown
  <2>1. CASE /\ call'[c].id \in EntryIds /\ entries[call'[c].id] # Finances!None
             /\ entries[call'[c].id].status # "CANCELED" /\ entries' = entries
    BY <2>1
  <2>2. CASE call[c].pc = "settle" /\ call'[c].id = call[c].id /\ (call[c].overtaken => call'[c].overtaken)
    <3>1. PICK i : i = call[c].id
      OBVIOUS
    <3>2. /\ i \in EntryIds /\ entries[i] # Finances!None
          /\ entries[i].status = "CANCELED" => call[c].overtaken
      BY <2>2, <3>1 DEF LedgerInv, SettlesKnown, FinanceCalls
    <3>3. entries'[i] # Finances!None
      BY <1>3, <3>2
    <3>4. ASSUME entries'[i].status = "CANCELED" PROVE call'[c].overtaken
      <4>1. EntryMove(i)
        BY <1>1, <3>2
      <4>2. CASE entries'[i].status = entries[i].status
        BY <2>2, <3>2, <3>4, <4>2
      <4>3. CASE EntryCancelled(i)
        BY <2>2, <3>1, <4>3 DEF EntryCancelled
      <4>4. CASE EntrySettled(i)
        <5>1. entries[i] \in Finances!EntryRow
          BY <3>2, EntriesAreThere DEF LedgerInv
        <5>2. entries'[i].status = "PAID"
          BY <4>4, <5>1 DEF EntrySettled, Finances!EntryRow
        <5> QED BY <3>4, <5>2
      <4> QED BY <3>2, <3>4, <4>1, <4>2, <4>3, <4>4, Zenon DEF EntryMove, EntryWritten, EntryNamed
    <3> QED BY <2>2, <3>1, <3>3, <3>4
  <2> QED BY <1>2, <2>1, <2>2 DEF CallMove
<1> QED BY <1>4, <1>5, <1>6, CategoriesKept DEF LedgerInv

\* What the invariant says: the rows have their shape, and a name is one category of its direction.
LEMMA LedgerShown == LedgerInv => Finances!TypeOK
BY DEF LedgerInv, Finances!TypeOK, OneOfAName, EntryStates, TicketsArePaid, SettlesKnown

\* A cancelled entry comes back by a settlement that had read it before.
LEMMA CanceledBack ==
    ASSUME LedgerInv, [Finances!Next]_ledgerVars, NEW i \in EntryIds,
           entries[i] # Finances!None, entries[i].status = "CANCELED", entries'[i].status # "CANCELED"
    PROVE  \E c \in Calls : call[c].pc = "settle" /\ call[c].id = i /\ call[c].overtaken
<1>1. EntryMove(i)
  BY EntryMoves
<1>2. ~EntryCancelled(i)
  <2>1. entries[i] \in Finances!EntryRow
    BY EntriesAreThere DEF LedgerInv
  <2> QED BY <2>1 DEF EntryCancelled, Finances!EntryRow
<1>3. EntrySettled(i)
  BY <1>1, <1>2, Zenon DEF EntryMove, EntryWritten, EntryNamed
<1> QED BY <1>3 DEF EntrySettled, LedgerInv, SettlesKnown

-----------------------------------------------------------------------------
(* CommissionRules: the rules of a professional *)

RuleRow == [target : Commission!Targets, isActive : BOOLEAN]
RuleStates == RuleRow \cup {Commission!NoRule}
Writing == {"createRule", "updateRule"}
AskRow == [pc : {"idle"} \cup Writing, id : RuleIds \cup {0}, target : Commission!Targets \cup {NoTarget},
           isActive : BOOLEAN, overtaken : BOOLEAN]
RuleAsks == {q \in AskRow :
                /\ q.pc = "idle" <=> q = Commission!IdleAsk
                /\ q.pc = "createRule" => q.id = 0
                /\ q.pc = "updateRule" => q.id \in RuleIds
                /\ q.pc \in Writing => q.target \in Commission!Targets}

\* The target of an active rule about to be written is free, until another write.
TargetFree(q) == q.pc \in Writing /\ ~q.overtaken /\ q.isActive =>
    \A j \in RuleIds \ {q.id} : rules[j] # [target |-> q.target, isActive |-> TRUE]
TargetsFree == \A c \in Asks : TargetFree(ask[c])

RulesInv ==
    /\ rules \in [RuleIds -> RuleStates] /\ ask \in [Asks -> RuleAsks]
    /\ TargetsFree /\ Commission!TieOnlyIfOvertaken

\* What the assumptions on the constants say.
LEMMA RuleNumbers == RuleIds \subseteq Nat /\ 0 \notin RuleIds /\ NoTarget \notin Commission!Targets
                      /\ NoTarget \notin Services \cup Products
BY CommissionAssumed DEF Commission!RulesAssumption

\* A request that is not in progress.
LEMMA IdleAsk == Commission!IdleAsk \in RuleAsks /\ Commission!IdleAsk.pc = "idle"
BY DEF Commission!IdleAsk, RuleAsks, AskRow, Writing

\* What a request that has checked is.
CheckedAsk(pc, i, target, active) ==
    [Commission!IdleAsk EXCEPT !.pc = pc, !.id = i, !.target = target, !.isActive = active]
IsAsk(q, pc, i, target, active) ==
    /\ q \in RuleAsks /\ q.pc = pc /\ q.id = i /\ q.target = target /\ q.isActive = active

\* A request that has checked, as it is made.
LEMMA AsksMade ==
    ASSUME NEW pc \in Writing, NEW k \in RuleIds \cup {0},
           pc = "createRule" => k = 0, pc = "updateRule" => k \in RuleIds,
           NEW target \in Commission!Targets, NEW active \in BOOLEAN
    PROVE  IsAsk(CheckedAsk(pc, k, target, active), pc, k, target, active)
<1>1. Commission!IdleAsk \in AskRow
  BY DEF Commission!IdleAsk, AskRow, Writing
<1>2. PICK a : a = [Commission!IdleAsk EXCEPT !.pc = pc]
  OBVIOUS
<1>3. a \in AskRow /\ a.pc = pc
  BY <1>1, <1>2 DEF AskRow
<1>4. PICK b : b = [a EXCEPT !.id = k]
  OBVIOUS
<1>5. b \in AskRow /\ b.pc = pc /\ b.id = k
  BY <1>3, <1>4 DEF AskRow
<1>6. PICK d : d = [b EXCEPT !.target = target]
  OBVIOUS
<1>7. d \in AskRow /\ d.pc = pc /\ d.id = k /\ d.target = target
  BY <1>5, <1>6 DEF AskRow
<1>8. PICK q : q = [d EXCEPT !.isActive = active]
  OBVIOUS
<1>9. q \in AskRow /\ q.pc = pc /\ q.id = k /\ q.target = target /\ q.isActive = active
  BY <1>7, <1>8 DEF AskRow
<1>10. q = CheckedAsk(pc, k, target, active)
  BY <1>2, <1>4, <1>6, <1>8, Zenon DEF CheckedAsk
<1>11. q \in RuleAsks
  BY <1>9, IdleAsk DEF RuleAsks, Writing
<1> QED BY <1>9, <1>10, <1>11 DEF IsAsk

-----------------------------------------------------------------------------
(* What a step does to the rules and their requests *)

\* It leaves the rules alone and puts a request that has checked, or nobody's, in its place; or it
\* writes one rule, and overtakes all other requests about rules.
RuleAsked == \E c \in Asks, q \in RuleAsks :
    ask' = [ask EXCEPT ![c] = q] /\ TargetFree(q) /\ UNCHANGED <<rules, tied>>
RulePut == \E c \in Asks, i \in RuleIds :
    /\ ask[c].pc \in Writing /\ (ask[c].pc = "createRule" => rules[i] = Commission!NoRule)
    /\ ask[c].pc = "updateRule" => i = ask[c].id
    /\ Commission!PutRule(c, i, Commission!RuleWritten(c))
RuleGone == \E i \in RuleIds : Commission!PutRule(NoTarget, i, Commission!NoRule)
RuleStep == UNCHANGED rulesVars \/ RuleAsked \/ RulePut \/ RuleGone

\* What a step does to the rules and their requests.
LEMMA RuleSteps == ASSUME RulesInv, [Commission!Next]_rulesVars PROVE RuleStep
<1> USE DEF RulesInv
<1>1. ASSUME NEW c \in Asks, NEW target \in Commission!Targets, NEW active \in BOOLEAN,
             Commission!CreateRuleRead(c, target, active)
      PROVE  RuleStep
  <2>1. PICK q : q = CheckedAsk("createRule", 0, target, active)
    OBVIOUS
  <2>2. IsAsk(q, "createRule", 0, target, active)
    BY <2>1, AsksMade DEF Writing
  <2>3. q = [Commission!IdleAsk EXCEPT !.pc = "createRule", !.target = target, !.isActive = active]
    <3>1. PICK a : a = [Commission!IdleAsk EXCEPT !.pc = "createRule"]
      OBVIOUS
    <3>2. Commission!IdleAsk \in AskRow /\ Commission!IdleAsk.id = 0
      BY DEF Commission!IdleAsk, AskRow, Writing
    <3>3. a \in AskRow /\ a.id = 0
      BY <3>1, <3>2 DEF AskRow, Writing
    <3>4. a = [a EXCEPT !.id = 0]
      BY <3>3 DEF AskRow
    <3> QED BY <2>1, <3>1, <3>4, Zenon DEF CheckedAsk
  <2>4. ask' = [ask EXCEPT ![c] = q] /\ UNCHANGED <<rules, tied>>
    BY <1>1, <2>3, Zenon DEF Commission!CreateRuleRead, Commission!Reply
  <2>5. active => \A j \in RuleIds \ {0} : rules[j] # [target |-> target, isActive |-> TRUE]
    BY <1>1, Zenon DEF Commission!CreateRuleRead, Commission!Clash
  <2>6. TargetFree(q)
    BY <2>2, <2>5 DEF IsAsk, TargetFree
  <2> QED BY <2>2, <2>4, <2>6, Zenon DEF RuleStep, RuleAsked, IsAsk
<1>2. ASSUME NEW c \in Asks, NEW i \in RuleIds, NEW target \in Commission!Targets, NEW asked \in BOOLEAN,
             NEW kept \in BOOLEAN, Commission!UpdateRuleRead(c, i, target, asked, kept)
      PROVE  RuleStep
  <2>1. PICK active \in BOOLEAN : active = (asked \/ kept)
    OBVIOUS
  <2>2. PICK q : q = CheckedAsk("updateRule", i, target, active)
    OBVIOUS
  <2>3. IsAsk(q, "updateRule", i, target, active)
    BY <2>2, AsksMade DEF Writing
  <2>4. ask' = [ask EXCEPT ![c] = q] /\ UNCHANGED <<rules, tied>>
    BY <1>2, <2>1, <2>2, Zenon DEF Commission!UpdateRuleRead, Commission!Reply, CheckedAsk
  <2>5. active => \A j \in RuleIds \ {i} : rules[j] # [target |-> target, isActive |-> TRUE]
    BY <1>2, <2>1, Zenon DEF Commission!UpdateRuleRead, Commission!Clash
  <2>6. TargetFree(q)
    BY <2>3, <2>5 DEF IsAsk, TargetFree
  <2> QED BY <2>3, <2>4, <2>6, Zenon DEF RuleStep, RuleAsked, IsAsk
<1>3. ASSUME NEW c \in Asks, NEW i \in RuleIds, Commission!CreateRuleWrite(c, i) PROVE RuleStep
  <2>1. ask[c].pc = "createRule" /\ rules[i] = Commission!NoRule
        /\ Commission!PutRule(c, i, Commission!RuleWritten(c))
    BY <1>3, Zenon DEF Commission!CreateRuleWrite
  <2>2. ask[c].pc \in Writing /\ (ask[c].pc = "updateRule" => i = ask[c].id)
    BY <2>1 DEF Writing
  <2> QED BY <2>1, <2>2, Zenon DEF RuleStep, RulePut
<1>4. ASSUME NEW c \in Asks, Commission!UpdateRuleWrite(c) PROVE RuleStep
  <2>1. ask[c].pc = "updateRule" /\ ask[c].id \in RuleIds /\ ask[c].pc \in Writing
        /\ ask[c].pc # "createRule"
    BY <1>4 DEF Commission!UpdateRuleWrite, RuleAsks, Writing
  <2>2. CASE rules[ask[c].id] # Commission!NoRule
    <3>1. Commission!PutRule(c, ask[c].id, Commission!RuleWritten(c))
      BY <1>4, <2>2, Zenon DEF Commission!UpdateRuleWrite
    <3> QED BY <2>1, <3>1, Zenon DEF RuleStep, RulePut
  <2>3. CASE rules[ask[c].id] = Commission!NoRule
    <3>1. ask' = [ask EXCEPT ![c] = Commission!IdleAsk] /\ UNCHANGED <<rules, tied>>
      BY <1>4, <2>3 DEF Commission!UpdateRuleWrite, Commission!Reply
    <3>2. TargetFree(Commission!IdleAsk)
      BY IdleAsk DEF TargetFree, Writing
    <3> QED BY <3>1, <3>2, IdleAsk, Zenon DEF RuleStep, RuleAsked
  <2> QED BY <2>2, <2>3
<1>5. ASSUME NEW i \in RuleIds, Commission!DeleteRule(i) PROVE RuleStep
  BY <1>5, Zenon DEF Commission!DeleteRule, RuleStep, RuleGone
<1>6. CASE UNCHANGED rulesVars
  BY <1>6 DEF RuleStep
<1> QED BY <1>1, <1>2, <1>3, <1>4, <1>5, <1>6, Zenon DEF Commission!Next

\* What becomes of the requests when a rule is written.
LEMMA AsksOvertaken ==
    ASSUME RulesInv, NEW c, NEW i, NEW rule, Commission!PutRule(c, i, rule)
    PROVE  ask' \in [Asks -> RuleAsks] /\ TargetsFree'
<1>1. ASSUME NEW d \in Asks
      PROVE  /\ ask'[d] \in RuleAsks
             /\ ask'[d].pc = "idle" \/ ask'[d].overtaken
  <2>1. ask[d] \in RuleAsks /\ ask[d] \in AskRow
    BY DEF RulesInv, RuleAsks
  <2>2. CASE d # c /\ ask[d].pc \in Writing
    <3>1. ask'[d] = Late(ask[d])
      BY <2>2 DEF Commission!PutRule, Late, Writing
    <3>2. /\ Late(ask[d]) \in AskRow /\ Late(ask[d]).pc = ask[d].pc /\ Late(ask[d]).id = ask[d].id
          /\ Late(ask[d]).target = ask[d].target /\ Late(ask[d]).overtaken
      BY <2>1 DEF Late, AskRow
    <3>3. Late(ask[d]) \in RuleAsks
      BY <2>1, <2>2, <3>2, IdleAsk DEF RuleAsks, Writing
    <3> QED BY <3>1, <3>2, <3>3
  <2>3. CASE d = c \/ ask[d].pc \notin Writing
    <3>1. ask'[d] = Commission!IdleAsk \/ (ask'[d] = ask[d] /\ ask[d].pc \notin Writing)
      BY <2>3 DEF Commission!PutRule, Writing
    <3>2. ask[d].pc \in {"idle"} \cup Writing
      BY <2>1 DEF AskRow
    <3> QED BY <2>1, <3>1, <3>2, IdleAsk
  <2> QED BY <2>2, <2>3
<1>2. ask' \in [Asks -> RuleAsks]
  BY <1>1 DEF Commission!PutRule
<1>3. ASSUME NEW d \in Asks PROVE TargetFree(ask[d])'
  BY <1>1, <1>3 DEF TargetFree, Writing
<1> QED BY <1>2, <1>3 DEF TargetsFree

\* The invariant of the rules holds at the start, and every step keeps it.
LEMMA RulesInitial == Commission!Init => RulesInv
<1> SUFFICES ASSUME Commission!Init PROVE RulesInv
  OBVIOUS
<1>1. rules \in [RuleIds -> RuleStates] /\ \A i \in RuleIds : rules[i].isActive = FALSE
  BY DEF Commission!Init, RuleStates, Commission!NoRule
<1>2. ask \in [Asks -> RuleAsks] /\ \A c \in Asks : ask[c].pc = "idle"
  BY IdleAsk DEF Commission!Init
<1>3. TargetsFree
  BY <1>2 DEF TargetsFree, TargetFree, Writing
<1>4. Commission!TieOnlyIfOvertaken
  BY <1>1 DEF Commission!TieOnlyIfOvertaken, Commission!TiedRules
<1> QED BY <1>1, <1>2, <1>3, <1>4 DEF RulesInv

\* Every step keeps the invariant of the rules.
LEMMA RulesKept == RulesInv /\ [Commission!Next]_rulesVars => RulesInv'
<1> SUFFICES ASSUME RulesInv, [Commission!Next]_rulesVars PROVE RulesInv'
  OBVIOUS
<1>1. CASE UNCHANGED rulesVars
  BY <1>1 DEF rulesVars, RulesInv, TargetsFree, TargetFree, Commission!TieOnlyIfOvertaken, Commission!TiedRules
<1>2. CASE RuleAsked
  <2>1. PICK c \in Asks, q \in RuleAsks :
            ask' = [ask EXCEPT ![c] = q] /\ TargetFree(q) /\ UNCHANGED <<rules, tied>>
    BY <1>2, Zenon DEF RuleAsked
  <2>2. ask' \in [Asks -> RuleAsks]
    BY <2>1 DEF RulesInv
  <2>3. ASSUME NEW d \in Asks PROVE TargetFree(ask[d])'
    <3>1. PICK x : x = ask'[d]
      OBVIOUS
    <3>2. TargetFree(x)
      BY <2>1, <3>1 DEF RulesInv, TargetsFree
    <3> QED BY <2>1, <3>1, <3>2 DEF TargetFree
  <2> QED BY <2>1, <2>2, <2>3 DEF RulesInv, TargetsFree, Commission!TieOnlyIfOvertaken, Commission!TiedRules
<1>3. CASE RulePut
  <2>1. PICK c \in Asks, i \in RuleIds :
            /\ ask[c].pc \in Writing /\ (ask[c].pc = "updateRule" => i = ask[c].id)
            /\ Commission!PutRule(c, i, Commission!RuleWritten(c))
    BY <1>3, Zenon DEF RulePut
  <2>2. ask[c] \in RuleAsks /\ ask[c] \in AskRow
    BY DEF RulesInv, RuleAsks
  <2>3. PICK rule : rule = [target |-> ask[c].target, isActive |-> ask[c].isActive]
    OBVIOUS
  <2>4. rule \in RuleRow /\ rule.target = ask[c].target /\ rule.isActive = ask[c].isActive
    BY <2>1, <2>2, <2>3 DEF RuleRow, RuleAsks, AskRow
  <2>5. rules' = [rules EXCEPT ![i] = rule] /\ rules' \in [RuleIds -> RuleStates]
    BY <2>1, <2>3, <2>4 DEF Commission!PutRule, Commission!RuleWritten, RulesInv, RuleStates
  <2>6. Commission!TieOnlyIfOvertaken'
    <3>1. SUFFICES ASSUME Commission!TiedRules(rules'), ~tied, ~ask[c].overtaken PROVE FALSE
      BY <2>1, Zenon DEF Commission!PutRule, Commission!TieOnlyIfOvertaken
    <3>2. PICK j \in RuleIds, k \in RuleIds : j # k /\ rules'[j] = rules'[k] /\ rules'[j].isActive
      BY <3>1 DEF Commission!TiedRules
    <3>3. j = i \/ k = i
      BY <2>5, <3>1, <3>2 DEF RulesInv, Commission!TieOnlyIfOvertaken, Commission!TiedRules
    <3>4. PICK other \in RuleIds \ {i} : rules[other] = rule
      BY <2>5, <3>2, <3>3 DEF RulesInv
    <3>5. rules'[i] = rule /\ rule.isActive
      BY <2>5, <3>2, <3>3 DEF RulesInv
    <3>6. rule = [target |-> ask[c].target, isActive |-> TRUE]
      BY <2>3, <2>4, <3>5 DEF RuleRow
    <3>7. ask[c].id # other
      BY <2>1, <2>2, RuleNumbers DEF RuleAsks, Writing
    <3> QED BY <2>1, <2>4, <3>1, <3>4, <3>5, <3>6, <3>7 DEF RulesInv, TargetsFree, TargetFree
  <2> QED BY <2>1, <2>5, <2>6, AsksOvertaken DEF RulesInv
<1>4. CASE RuleGone
  <2>1. PICK i \in RuleIds : Commission!PutRule(NoTarget, i, Commission!NoRule)
    BY <1>4 DEF RuleGone
  <2>2. rules' = [rules EXCEPT ![i] = Commission!NoRule] /\ Commission!NoRule.isActive = FALSE
        /\ rules' \in [RuleIds -> RuleStates]
    BY <2>1 DEF Commission!PutRule, RulesInv, RuleStates, Commission!NoRule
  <2>3. Commission!TieOnlyIfOvertaken'
    <3>1. SUFFICES ASSUME Commission!TiedRules(rules'), ~tied PROVE FALSE
      BY <2>1, Zenon DEF Commission!PutRule, Commission!TieOnlyIfOvertaken
    <3>2. PICK j \in RuleIds, k \in RuleIds : j # k /\ rules'[j] = rules'[k] /\ rules'[j].isActive
      BY <3>1 DEF Commission!TiedRules
    <3>3. j # i /\ k # i
      BY <2>2, <3>2 DEF RulesInv
    <3> QED BY <2>2, <3>1, <3>2, <3>3 DEF RulesInv, Commission!TieOnlyIfOvertaken, Commission!TiedRules
  <2> QED BY <2>1, <2>2, <2>3, AsksOvertaken DEF RulesInv
<1> QED BY <1>1, <1>2, <1>3, <1>4, RuleSteps, Zenon DEF RuleStep

\* Two targets that match one item and score alike are one target.
LEMMA ScoresTell ==
    ASSUME NEW item \in Commission!Items, NEW t \in Commission!Targets, NEW u \in Commission!Targets,
           Commission!Matches(t, item), Commission!Matches(u, item),
           Commission!Score(t, item) = Commission!Score(u, item)
    PROVE  t = u
<1> DEFINE Exact(x) == x.id # NoTarget /\ x.id = item.id
<1>1. \A x \in Commission!Targets : x = [base |-> x.base, id |-> x.id]
  BY DEF Commission!Targets
<1>2. \A x \in Commission!Targets : x.base = "ALL" => x.id = NoTarget
  BY DEF Commission!Targets
<1>3. item.kind # "ALL"
  BY DEF Commission!Items
<1>4. /\ t.base = "ALL" <=> u.base = "ALL"
      /\ Exact(t) <=> Exact(u)
  BY <1>2 DEF Commission!Score
<1>5. t.base = u.base /\ t.id = u.id
  BY <1>2, <1>3, <1>4 DEF Commission!Matches
<1>6. t = [base |-> t.base, id |-> t.id] /\ u = [base |-> u.base, id |-> u.id]
  BY <1>1, Zenon
<1>7. [base |-> t.base, id |-> t.id] = [base |-> u.base, id |-> u.id]
  BY <1>5
<1> QED BY <1>6, <1>7, Zenon

\* What pays a sale is one rule, unless two active rules have one target.
LEMMA OneRulePays == RulesInv => Commission!OnePays
<1> SUFFICES ASSUME RulesInv, ~tied, NEW item \in Commission!Items,
                    NEW i \in Commission!PickRule(item), NEW j \in Commission!PickRule(item), i # j
             PROVE  FALSE
  BY DEF Commission!OnePays
<1> DEFINE ScoreOf(k) == Commission!Score(rules[k].target, item)
<1>1. /\ i \in RuleIds /\ rules[i].isActive /\ Commission!Matches(rules[i].target, item)
      /\ j \in RuleIds /\ rules[j].isActive /\ Commission!Matches(rules[j].target, item)
      /\ ScoreOf(i) <= ScoreOf(j) /\ ScoreOf(j) <= ScoreOf(i)
  BY DEF Commission!PickRule
<1>2. rules[i] \in RuleRow /\ rules[j] \in RuleRow
  BY <1>1 DEF RulesInv, RuleStates, Commission!NoRule
<1>3. ScoreOf(i) \in Int /\ ScoreOf(j) \in Int
  BY DEF Commission!Score
<1>4. ScoreOf(i) = ScoreOf(j)
  BY <1>1, <1>3
<1>5. rules[i].target = rules[j].target
  BY <1>1, <1>2, <1>4, ScoresTell DEF RuleRow
<1>6. rules[i] = rules[j]
  BY <1>1, <1>2, <1>5 DEF RuleRow
<1> QED BY <1>1, <1>6 DEF RulesInv, Commission!TieOnlyIfOvertaken, Commission!TiedRules

\* What the invariant says: the rows have their shape.
LEMMA RulesShown == RulesInv => Commission!TypeOK
BY IdleAsk DEF RulesInv, Commission!TypeOK, RuleStates, RuleRow, RuleAsks

-----------------------------------------------------------------------------
(* Patrons: clients, accounts, links and bookings *)

BookingRow == [client : ClientIds \cup {NoClient}, by : Consumers \cup {NoConsumer},
               status : {"none", "CONFIRMED", "CANCELED", "COMPLETED"},
               review : {"none", "VISIBLE", "PENDING_REPORT", "HIDDEN"},
               reviewer : Consumers \cup {NoConsumer}]

PatronTypes ==
    /\ phone \in [ClientIds -> Phones \cup {NoClient}] /\ renumbered \subseteq ClientIds
    /\ account \in [Consumers -> {"none", "registered"}]
    /\ link \in [Consumers -> ClientIds \cup {NoClient}]
    /\ joining \in [Consumers -> ClientIds \cup {NoClient}]
    /\ booking \in [Bookings -> BookingRow]

OnePhone == \A k, l \in ClientIds : k # l /\ phone[k] # NoClient => phone[k] # phone[l]
OneLink == \A c, d \in Consumers : c # d /\ link[c] # NoClient => link[c] # link[d]
Reviewers == \A b \in Bookings : booking[b].review # "none" =>
                 booking[b].reviewer \in {c \in Consumers : account[c] = "registered"}

\* A client that is linked to c, or about to be, has c's phone, unless the staff changed it.
Reached(c, k) == k = NoClient \/ k \in renumbered \/ phone[k] = c
LinksReach == \A c \in Consumers : Reached(c, link[c]) /\ Reached(c, joining[c])

\* Who made a booking is linked, and to its client unless the staff changed a phone.
SameClient(c, k) == k = link[c] \/ k \in renumbered \/ link[c] \in renumbered
OwnersLinked == \A c \in Consumers, b \in Bookings : booking[b].by = c =>
                    link[c] # NoClient /\ SameClient(c, booking[b].client)

PatronsInv == PatronTypes /\ OnePhone /\ OneLink /\ Reviewers /\ LinksReach /\ OwnersLinked

\* What the assumptions on the constants say.
LEMMA PatronNames == Consumers \subseteq Phones /\ NoConsumer \notin Consumers
                     /\ NoClient \notin ClientIds /\ NoClient \notin Phones
BY ClientsAssumed DEF Clients!PatronsAssumption

\* What a step does to a phone: it gives one that nobody has, to a new client or as the staff says;
PhoneMove == \/ UNCHANGED phone
             \/ \E k \in ClientIds, p \in Phones :
                  /\ phone' = [phone EXCEPT ![k] = p] /\ \A l \in ClientIds : phone[l] # p
                  /\ phone[k] = NoClient \/ k \in renumbered'
\* to a link: it is dropped along with the owner of its bookings, or made to a client with the phone;
LinkMade(c, k) == link[c] = NoClient /\ Clients!LinkFits(c, k) /\ Reached(c, k)'
                  /\ link' = [link EXCEPT ![c] = k]
LinkDropped(c) == link' = [link EXCEPT ![c] = NoClient] /\ \A b \in Bookings : booking'[b].by # c
LinkMove == UNCHANGED link \/ \E c \in Consumers : LinkDropped(c) \/ \E k \in ClientIds : LinkMade(c, k)
\* to who is joining, and to an account;
JoinMove == \A c \in Consumers :
    joining'[c] = joining[c] \/ joining'[c] = NoClient
    \/ (joining'[c] \in ClientIds /\ phone'[joining'[c]] = c)
AccountMove == \A c \in Consumers :
    account'[c] = account[c] \/ account'[c] = "registered" \/ \A b \in Bookings : booking'[b].reviewer # c
\* to a booking: its owner stays, goes, or is a consumer who books under the client of the phone.
Owned(b, c, k) == /\ booking'[b].by = c /\ booking'[b].client = k
                  /\ k \in Clients!Upserted(c) /\ Clients!LinkFits(c, k) /\ link' = Clients!Linked(c, k)
OwnerMove(b) == \/ booking'[b].by = booking[b].by /\ booking'[b].client = booking[b].client
                \/ booking'[b].by = NoConsumer
                \/ \E c \in Consumers, k \in ClientIds : Owned(b, c, k)
ReviewMove(b) == booking'[b].review # "none" =>
    \/ booking[b].review # "none" /\ booking'[b].reviewer = booking[b].reviewer
    \/ /\ booking'[b].reviewer \in {c \in Consumers : account[c] = "registered"}
       /\ UNCHANGED account
BookingMove(b) == booking'[b] \in BookingRow /\ OwnerMove(b) /\ ReviewMove(b)
BookingsMove == DOMAIN booking' = Bookings /\ booking' = [b \in Bookings |-> booking'[b]]
                /\ \A b \in Bookings : BookingMove(b)

PatronStep ==
    /\ phone' \in [ClientIds -> Phones \cup {NoClient}]
    /\ renumbered \subseteq renumbered' /\ renumbered' \subseteq ClientIds
    /\ account' \in [Consumers -> {"none", "registered"}]
    /\ link' \in [Consumers -> ClientIds \cup {NoClient}]
    /\ joining' \in [Consumers -> ClientIds \cup {NoClient}]
    /\ PhoneMove /\ LinkMove /\ JoinMove /\ AccountMove /\ BookingsMove

\* No booking changes.
LEMMA BookingsStay == ASSUME PatronTypes, booking' = booking PROVE BookingsMove
BY DEF PatronTypes, BookingsMove, BookingMove, OwnerMove, ReviewMove

\* One booking changes.
LEMMA OneBooking ==
    ASSUME PatronTypes, NEW b \in Bookings, NEW row \in BookingRow,
           booking' = [booking EXCEPT ![b] = row], BookingMove(b)
    PROVE  BookingsMove
<1>1. booking' \in [Bookings -> BookingRow]
  BY DEF PatronTypes
<1>2. ASSUME NEW a \in Bookings PROVE BookingMove(a)
  <2>1. CASE a = b
    BY <2>1
  <2>2. CASE a # b
    BY <1>1, <2>2 DEF PatronTypes, BookingMove, OwnerMove, ReviewMove
  <2> QED BY <2>1, <2>2
<1> QED BY <1>1, <1>2 DEF BookingsMove

\* The upsert by phone.
LEMMA Upserting ==
    ASSUME PatronTypes, NEW p \in Phones, NEW k \in ClientIds, k \in Clients!Upserted(p),
           phone' = [phone EXCEPT ![k] = p]
    PROVE  /\ PhoneMove /\ phone'[k] = p /\ phone' \in [ClientIds -> Phones \cup {NoClient}]
           /\ phone[k] = p \/ (phone[k] = NoClient /\ \A l \in ClientIds : phone[l] # p)
<1>1. phone[k] = p \/ (phone[k] = NoClient /\ \A l \in ClientIds : phone[l] # p)
  BY DEF Clients!Upserted, Clients!WithPhone, Clients!Fresh
<1>2. phone'[k] = p /\ phone' \in [ClientIds -> Phones \cup {NoClient}]
  BY DEF PatronTypes
<1>3. CASE phone[k] = p
  <2>1. phone' = phone
    BY <1>3 DEF PatronTypes
  <2> QED BY <1>1, <1>2, <2>1 DEF PhoneMove
<1> QED BY <1>1, <1>2, <1>3 DEF PhoneMove

\* The link's upsert.
LEMMA Linking ==
    ASSUME PatronTypes, NEW c \in Consumers, NEW k \in ClientIds, Clients!LinkFits(c, k), Reached(c, k)',
           link' = Clients!Linked(c, k)
    PROVE  LinkMove /\ link' \in [Consumers -> ClientIds \cup {NoClient}]
<1>1. link' = link \/ LinkMade(c, k)
  BY DEF Clients!Linked, LinkMade
<1>2. link' \in [Consumers -> ClientIds \cup {NoClient}]
  BY <1>1 DEF PatronTypes, LinkMade
<1> QED BY <1>1, <1>2, Zenon DEF LinkMove

\* The row of a booking as it is made.
BookedRow(c, k) == [Clients!NoBooking EXCEPT !.client = k, !.by = c, !.status = "CONFIRMED"]
\* A booking as it is made has its client and its owner, and no review.
LEMMA BookingMade ==
    ASSUME NEW c \in Consumers \cup {NoConsumer}, NEW k \in ClientIds
    PROVE  /\ BookedRow(c, k) \in BookingRow /\ BookedRow(c, k).by = c /\ BookedRow(c, k).client = k
           /\ BookedRow(c, k).review = "none"
<1>1. Clients!NoBooking \in BookingRow /\ Clients!NoBooking.review = "none"
  BY DEF Clients!NoBooking, BookingRow
<1>2. PICK x : x = [Clients!NoBooking EXCEPT !.client = k]
  OBVIOUS
<1>3. x \in BookingRow /\ x.review = "none" /\ x.client = k
  BY <1>1, <1>2 DEF BookingRow
<1>4. PICK y : y = [x EXCEPT !.by = c]
  OBVIOUS
<1>5. y \in BookingRow /\ y.review = "none" /\ y.client = k /\ y.by = c
  BY <1>3, <1>4 DEF BookingRow
<1>6. PICK z : z = [y EXCEPT !.status = "CONFIRMED"]
  OBVIOUS
<1>7. z \in BookingRow /\ z.review = "none" /\ z.client = k /\ z.by = c
  BY <1>5, <1>6 DEF BookingRow
<1>8. z = BookedRow(c, k)
  BY <1>2, <1>4, <1>6, Zenon DEF BookedRow
<1> QED BY <1>7, <1>8

\* A booking whose owner and client stay, and whose review stays as it was or is one that is allowed.
LEMMA BookingTouched ==
    ASSUME PatronTypes, NEW b \in Bookings, NEW row \in BookingRow,
           booking' = [booking EXCEPT ![b] = row], row.by = booking[b].by, row.client = booking[b].client,
           \/ row.review # "none" => booking[b].review # "none" /\ row.reviewer = booking[b].reviewer
           \/ row.reviewer \in {c \in Consumers : account[c] = "registered"} /\ account' = account
    PROVE  BookingsMove
<1>1. booking'[b] = row
  BY DEF PatronTypes
<1>2. BookingMove(b)
  BY <1>1 DEF BookingMove, OwnerMove, ReviewMove
<1> QED BY <1>2, OneBooking

\* What a step does to the clients and their bookings.
LEMMA PatronSteps == ASSUME PatronsInv, [Clients!Next]_patronVars PROVE PatronStep
<1> USE PatronNames DEF PatronsInv
<1>1. ASSUME UNCHANGED <<phone, account, link, joining, renumbered>>, BookingsMove PROVE PatronStep
  BY <1>1 DEF PatronStep, PatronTypes, PhoneMove, LinkMove, JoinMove, AccountMove
<1>2. ASSUME UNCHANGED patronVars PROVE PatronStep
  BY <1>1, <1>2, BookingsStay DEF patronVars
<1>3. ASSUME NEW k \in ClientIds, NEW p \in Phones, Clients!CreateClient(k, p) PROVE PatronStep
  <2>1. PhoneMove /\ phone' \in [ClientIds -> Phones \cup {NoClient}]
    BY <1>3 DEF Clients!CreateClient, Clients!Fresh, Clients!WithPhone, PhoneMove, PatronTypes
  <2> QED BY <1>3, <2>1, BookingsStay
          DEF Clients!CreateClient, PatronStep, PatronTypes, LinkMove, JoinMove, AccountMove
<1>4. ASSUME NEW k \in ClientIds, NEW p \in Phones, Clients!UpdatePhone(k, p) PROVE PatronStep
  <2>1. PhoneMove /\ phone' \in [ClientIds -> Phones \cup {NoClient}]
    BY <1>4 DEF Clients!UpdatePhone, Clients!Fresh, Clients!WithPhone, PhoneMove, PatronTypes
  <2> QED BY <1>4, <2>1, BookingsStay
          DEF Clients!UpdatePhone, PatronStep, PatronTypes, LinkMove, JoinMove, AccountMove
<1>5. ASSUME NEW c \in Consumers, Clients!Register(c) PROVE PatronStep
  <2>1. LinkMove /\ link' \in [Consumers -> ClientIds \cup {NoClient}]
    <3>1. CASE link' = link
      BY <3>1 DEF LinkMove, PatronTypes
    <3>2. CASE link' # link
      <4>1. PICK k \in ClientIds : phone[k] = c /\ Clients!LinkFits(c, k) /\ link' = Clients!Linked(c, k)
        BY <1>5, <3>2, Zenon DEF Clients!Register, Clients!WithPhone
      <4>2. Reached(c, k)'
        BY <1>5, <4>1 DEF Clients!Register, Reached
      <4> QED BY <4>1, <4>2, Linking
    <3> QED BY <3>1, <3>2
  <2>2. /\ account' = [account EXCEPT ![c] = "registered"]
        /\ UNCHANGED <<phone, booking, joining, renumbered>>
    BY <1>5, Zenon DEF Clients!Register
  <2> QED BY <2>1, <2>2, BookingsStay DEF PatronStep, PatronTypes, PhoneMove, JoinMove, AccountMove
<1>6. ASSUME NEW c \in Consumers, Clients!DeleteAccount(c) PROVE PatronStep
  <2>1. ASSUME NEW b \in Bookings
        PROVE  /\ BookingMove(b) /\ booking'[b].by # c /\ booking'[b].reviewer # c
    <3>1. booking[b] \in BookingRow
      BY DEF PatronTypes
    <3>2. PICK x : x = [booking[b] EXCEPT !.by = IF booking[b].by = c THEN NoConsumer ELSE booking[b].by]
      OBVIOUS
    <3>3. /\ x \in BookingRow /\ x.by # c /\ x.by \in {NoConsumer, booking[b].by}
          /\ x.client = booking[b].client /\ x.review = booking[b].review /\ x.reviewer = booking[b].reviewer
      BY <3>1, <3>2 DEF BookingRow
    <3>4. PICK y : y = [x EXCEPT !.review = IF booking[b].reviewer = c THEN "none" ELSE booking[b].review]
      OBVIOUS
    <3>5. /\ y \in BookingRow /\ y.by = x.by /\ y.client = booking[b].client
          /\ y.reviewer = booking[b].reviewer
          /\ y.review # "none" => booking[b].review # "none" /\ booking[b].reviewer # c
      BY <3>3, <3>4 DEF BookingRow
    <3>6. PICK z : z = [y EXCEPT !.reviewer = IF booking[b].reviewer = c
                                                THEN NoConsumer ELSE booking[b].reviewer]
      OBVIOUS
    <3>7. /\ z \in BookingRow /\ z.by = x.by /\ z.client = booking[b].client /\ z.reviewer # c
          /\ z.review # "none" => booking[b].review # "none" /\ z.reviewer = booking[b].reviewer
      BY <3>5, <3>6 DEF BookingRow
    <3>8. booking'[b] = z
      BY <1>6, <3>2, <3>4, <3>6, Zenon DEF Clients!DeleteAccount
    <3> QED BY <3>3, <3>7, <3>8 DEF BookingMove, OwnerMove, ReviewMove
  <2>2. BookingsMove
    <3>1. DOMAIN booking' = Bookings /\ booking' = [b \in Bookings |-> booking'[b]]
      <4> DEFINE Row(b) == [booking[b] EXCEPT !.by = IF @ = c THEN NoConsumer ELSE @,
                              !.review = IF booking[b].reviewer = c THEN "none" ELSE @,
                              !.reviewer = IF @ = c THEN NoConsumer ELSE @]
      <4>1. booking' = [b \in Bookings |-> Row(b)]
        BY <1>6, Zenon DEF Clients!DeleteAccount
      <4> HIDE DEF Row
      <4> QED BY <4>1
    <3> QED BY <2>1, <3>1, Zenon DEF BookingsMove
  <2>3. /\ account' = [account EXCEPT ![c] = "none"] /\ link' = [link EXCEPT ![c] = NoClient]
        /\ joining' = [joining EXCEPT ![c] = NoClient] /\ UNCHANGED <<phone, renumbered>>
    BY <1>6, Zenon DEF Clients!DeleteAccount
  <2>4. LinkMove
    BY <2>1, <2>3, Zenon DEF LinkMove, LinkDropped
  <2> QED BY <2>1, <2>2, <2>3, <2>4 DEF PatronStep, PatronTypes, PhoneMove, JoinMove, AccountMove
<1>7. ASSUME NEW c \in Consumers, Clients!JoinLink(c) PROVE PatronStep
  <2>1. PICK k \in ClientIds : k = joining[c]
    BY <1>7 DEF Clients!JoinLink, PatronTypes
  <2>2. Reached(c, k)'
    BY <1>7, <2>1 DEF Clients!JoinLink, LinksReach, Reached
  <2>3. link' = link \/ (Clients!LinkFits(c, k) /\ link' = Clients!Linked(c, k))
    BY <1>7, <2>1, Zenon DEF Clients!JoinLink
  <2>4. LinkMove /\ link' \in [Consumers -> ClientIds \cup {NoClient}]
    BY <2>2, <2>3, Linking DEF LinkMove, PatronTypes
  <2>5. joining' = [joining EXCEPT ![c] = NoClient] /\ UNCHANGED <<phone, account, booking, renumbered>>
    BY <1>7, Zenon DEF Clients!JoinLink
  <2> QED BY <2>4, <2>5, BookingsStay DEF PatronStep, PatronTypes, PhoneMove, JoinMove, AccountMove
<1>8. ASSUME NEW c \in Consumers, Clients!JoinFails(c) PROVE PatronStep
  BY <1>8, BookingsStay DEF Clients!JoinFails, PatronStep, PatronTypes, PhoneMove, LinkMove, JoinMove, AccountMove
<1>9. ASSUME NEW c \in Consumers, NEW k \in ClientIds, Clients!JoinWaitlist(c, k) PROVE PatronStep
  <2>1. /\ k \in Clients!Upserted(c) /\ phone' = [phone EXCEPT ![k] = c]
        /\ joining' = [joining EXCEPT ![c] = k] /\ UNCHANGED <<account, link, booking, renumbered>>
    BY <1>9, Zenon DEF Clients!JoinWaitlist
  <2>2. PhoneMove /\ phone'[k] = c /\ phone' \in [ClientIds -> Phones \cup {NoClient}]
    BY <2>1, Upserting
  <2>3. JoinMove /\ joining' \in [Consumers -> ClientIds \cup {NoClient}]
    BY <2>1, <2>2 DEF JoinMove, PatronTypes
  <2> QED BY <2>1, <2>2, <2>3, BookingsStay DEF PatronStep, PatronTypes, LinkMove, AccountMove
<1>10. ASSUME NEW c \in Consumers, NEW b \in Bookings, Clients!CancelForConsumer(c, b) PROVE PatronStep
  <2>1. PICK row : row = [booking[b] EXCEPT !.status = "CANCELED"]
    OBVIOUS
  <2>2. /\ row \in BookingRow /\ row.by = booking[b].by /\ row.client = booking[b].client
        /\ row.review = booking[b].review /\ row.reviewer = booking[b].reviewer
    BY <2>1 DEF PatronTypes, BookingRow
  <2>3. booking' = [booking EXCEPT ![b] = row] /\ UNCHANGED <<phone, account, link, joining, renumbered>>
    BY <1>10, <2>1 DEF Clients!CancelForConsumer
  <2> QED BY <1>1, <2>2, <2>3, BookingTouched
<1>11. ASSUME NEW b \in Bookings, Clients!Complete(b) PROVE PatronStep
  <2>1. PICK row : row = [booking[b] EXCEPT !.status = "COMPLETED"]
    OBVIOUS
  <2>2. /\ row \in BookingRow /\ row.by = booking[b].by /\ row.client = booking[b].client
        /\ row.review = booking[b].review /\ row.reviewer = booking[b].reviewer
    BY <2>1 DEF PatronTypes, BookingRow
  <2>3. booking' = [booking EXCEPT ![b] = row] /\ UNCHANGED <<phone, account, link, joining, renumbered>>
    BY <1>11, <2>1 DEF Clients!Complete
  <2> QED BY <1>1, <2>2, <2>3, BookingTouched
<1>12. ASSUME NEW b \in Bookings, NEW status \in {"PENDING_REPORT", "HIDDEN"}, Clients!Moderate(b, status)
       PROVE  PatronStep
  <2>1. PICK row : row = [booking[b] EXCEPT !.review = status]
    OBVIOUS
  <2>2. /\ row \in BookingRow /\ row.by = booking[b].by /\ row.client = booking[b].client
        /\ booking[b].review # "none" /\ row.reviewer = booking[b].reviewer
    BY <1>12, <2>1 DEF PatronTypes, BookingRow, Clients!Moderate
  <2>3. booking' = [booking EXCEPT ![b] = row] /\ UNCHANGED <<phone, account, link, joining, renumbered>>
    BY <1>12, <2>1 DEF Clients!Moderate
  <2> QED BY <1>1, <2>2, <2>3, BookingTouched
<1>13. ASSUME NEW c \in Consumers, NEW b \in Bookings, Clients!Review(c, b) PROVE PatronStep
  <2>1. PICK x : x = [booking[b] EXCEPT !.review = "VISIBLE"]
    OBVIOUS
  <2>2. x \in BookingRow /\ x.by = booking[b].by /\ x.client = booking[b].client
    BY <2>1 DEF PatronTypes, BookingRow
  <2>3. PICK row : row = [x EXCEPT !.reviewer = c]
    OBVIOUS
  <2>4. row \in BookingRow /\ row.by = booking[b].by /\ row.client = booking[b].client /\ row.reviewer = c
    BY <2>2, <2>3 DEF BookingRow
  <2>5. PICK f : f = [booking EXCEPT ![b] = x]
    OBVIOUS
  <2>6. booking' = [f EXCEPT ![b].reviewer = c]
    BY <1>13, <2>1, <2>5, Zenon DEF Clients!Review
  <2>7. booking' = [booking EXCEPT ![b] = row]
    BY <2>3, <2>5, <2>6 DEF PatronTypes
  <2>8. UNCHANGED <<phone, account, link, joining, renumbered>> /\ account[c] = "registered"
    BY <1>13 DEF Clients!Review
  <2> QED BY <1>1, <2>4, <2>7, <2>8, BookingTouched
<1>14. ASSUME NEW b \in Bookings, NEW p \in Phones, NEW k \in ClientIds, Clients!BookByStaff(b, p, k)
       PROVE  PatronStep
  <2>1. PICK x : x = [Clients!NoBooking EXCEPT !.client = k]
    OBVIOUS
  <2>2. [x EXCEPT !.by = NoConsumer] = x
    <3>1. Clients!NoBooking \in BookingRow /\ Clients!NoBooking.by = NoConsumer
      BY DEF Clients!NoBooking, BookingRow
    <3>2. x \in BookingRow /\ x.by = NoConsumer
      BY <2>1, <3>1 DEF BookingRow
    <3> QED BY <3>2 DEF BookingRow
  <2>3. BookedRow(NoConsumer, k) = [Clients!NoBooking EXCEPT !.client = k, !.status = "CONFIRMED"]
    BY <2>1, <2>2, Zenon DEF BookedRow
  <2>4. /\ k \in Clients!Upserted(p) /\ phone' = [phone EXCEPT ![k] = p]
        /\ booking' = [booking EXCEPT ![b] = BookedRow(NoConsumer, k)]
        /\ UNCHANGED <<account, link, joining, renumbered>>
    BY <1>14, <2>3, Zenon DEF Clients!BookByStaff
  <2>5. /\ BookedRow(NoConsumer, k) \in BookingRow /\ BookedRow(NoConsumer, k).by = NoConsumer
        /\ BookedRow(NoConsumer, k).review = "none"
    BY BookingMade
  <2>6. booking'[b] = BookedRow(NoConsumer, k)
    BY <2>4 DEF PatronTypes
  <2>7. BookingMove(b)
    BY <2>5, <2>6 DEF BookingMove, OwnerMove, ReviewMove
  <2>8. BookingsMove
    BY <2>4, <2>5, <2>7, OneBooking
  <2>9. PhoneMove /\ phone' \in [ClientIds -> Phones \cup {NoClient}]
    BY <2>4, Upserting
  <2> QED BY <2>4, <2>8, <2>9 DEF PatronStep, PatronTypes, LinkMove, JoinMove, AccountMove
<1>15. ASSUME NEW c \in Consumers, NEW b \in Bookings, NEW k \in ClientIds, Clients!Book(c, b, k)
       PROVE  PatronStep
  <2>1. /\ k \in Clients!Upserted(c) /\ Clients!LinkFits(c, k)
        /\ phone' = [phone EXCEPT ![k] = c] /\ link' = Clients!Linked(c, k)
        /\ booking' = [booking EXCEPT ![b] = BookedRow(c, k)]
        /\ UNCHANGED <<account, joining, renumbered>>
    BY <1>15, Zenon DEF Clients!Book, BookedRow
  <2>2. PhoneMove /\ phone'[k] = c /\ phone' \in [ClientIds -> Phones \cup {NoClient}]
    BY <2>1, Upserting
  <2>3. LinkMove /\ link' \in [Consumers -> ClientIds \cup {NoClient}]
    BY <2>1, <2>2, Linking DEF Reached
  <2>4. /\ BookedRow(c, k) \in BookingRow /\ BookedRow(c, k).by = c /\ BookedRow(c, k).client = k
        /\ BookedRow(c, k).review = "none"
    BY BookingMade
  <2>5. booking'[b] = BookedRow(c, k)
    BY <2>1 DEF PatronTypes
  <2>6. BookingMove(b)
    BY <2>1, <2>4, <2>5, Zenon DEF BookingMove, OwnerMove, ReviewMove, Owned
  <2>7. BookingsMove
    BY <2>1, <2>4, <2>6, OneBooking
  <2> QED BY <2>1, <2>2, <2>3, <2>7 DEF PatronStep, PatronTypes, JoinMove, AccountMove
<1> QED BY <1>2, <1>3, <1>4, <1>5, <1>6, <1>7, <1>8, <1>9, <1>10, <1>11, <1>12, <1>13, <1>14, <1>15, Zenon
        DEF Clients!Next

\* The invariant of the clients holds at the start, and every step keeps it.
LEMMA PatronsInitial == Clients!Init => PatronsInv
<1> SUFFICES ASSUME Clients!Init PROVE PatronsInv
  OBVIOUS
<1> USE PatronNames DEF Clients!Init
<1>1. Clients!NoBooking \in BookingRow /\ Clients!NoBooking.review = "none"
      /\ Clients!NoBooking.by = NoConsumer
  BY DEF Clients!NoBooking, BookingRow
<1>2. booking \in [Bookings -> BookingRow]
      /\ \A b \in Bookings : booking[b].review = "none" /\ booking[b].by = NoConsumer
  BY <1>1
<1> HIDE DEF Clients!Init
<1>3. PatronTypes
  BY <1>2 DEF Clients!Init, PatronTypes
<1>4. OnePhone /\ OneLink /\ LinksReach
  BY DEF Clients!Init, OnePhone, OneLink, LinksReach, Reached
<1>5. Reviewers /\ OwnersLinked
  BY <1>2 DEF Reviewers, OwnersLinked
<1> QED BY <1>3, <1>4, <1>5 DEF PatronsInv

\* A client that has been reached stays so.
LEMMA ReachedStays ==
    ASSUME PatronTypes, PatronStep, NEW c \in Consumers, NEW k \in ClientIds \cup {NoClient}, Reached(c, k)
    PROVE  Reached(c, k)'
<1>1. CASE UNCHANGED phone
  BY <1>1 DEF Reached, PatronStep
<1>2. CASE ~UNCHANGED phone
  <2>1. PICK l \in ClientIds, p \in Phones :
            phone' = [phone EXCEPT ![l] = p] /\ (phone[l] = NoClient \/ l \in renumbered')
    BY <1>2 DEF PatronStep, PhoneMove
  <2> QED BY <2>1, PatronNames DEF PatronStep, PatronTypes, Reached
<1> QED BY <1>1, <1>2

\* A phone stays one client's.
LEMMA OnePhoneKept == ASSUME PatronTypes, OnePhone, PatronStep PROVE OnePhone'
<1>1. CASE UNCHANGED phone
  BY <1>1 DEF OnePhone
<1>2. CASE ~UNCHANGED phone
  <2>1. PICK l \in ClientIds, p \in Phones :
            phone' = [phone EXCEPT ![l] = p] /\ \A k \in ClientIds : phone[k] # p
    BY <1>2 DEF PatronStep, PhoneMove
  <2> QED BY <2>1 DEF OnePhone, PatronTypes
<1> QED BY <1>1, <1>2

\* A client stays linked to one consumer, which reached it by its phone.
LEMMA LinksKept == ASSUME PatronTypes, OneLink, LinksReach, PatronStep PROVE OneLink' /\ LinksReach'
<1> USE PatronNames
<1>1. LinkMove /\ JoinMove
  BY DEF PatronStep
<1>2. OneLink'
  <2>1. CASE UNCHANGED link
    BY <2>1 DEF OneLink
  <2>2. ASSUME NEW c \in Consumers, LinkDropped(c) PROVE OneLink'
    BY <2>2 DEF OneLink, LinkDropped, PatronTypes
  <2>3. ASSUME NEW c \in Consumers, NEW k \in ClientIds, LinkMade(c, k) PROVE OneLink'
    BY <2>3 DEF OneLink, LinkMade, PatronTypes, Clients!LinkFits
  <2> QED BY <1>1, <2>1, <2>2, <2>3, Zenon DEF LinkMove
<1>3. ASSUME NEW c \in Consumers PROVE Reached(c, link[c])'
  <2>1. PICK k : k = link'[c]
    OBVIOUS
  <2>2. k = link[c] \/ k = NoClient \/ Reached(c, k)'
    <3>1. CASE UNCHANGED link
      BY <2>1, <3>1
    <3>2. ASSUME NEW d \in Consumers, LinkDropped(d) PROVE k = link[c] \/ k = NoClient
      BY <2>1, <3>2 DEF LinkDropped, PatronTypes
    <3>3. ASSUME NEW d \in Consumers, NEW l \in ClientIds, LinkMade(d, l)
          PROVE  k = link[c] \/ Reached(c, k)'
      <4>1. CASE c = d
        <5>1. k = l
          BY <2>1, <3>3, <4>1 DEF LinkMade, PatronTypes
        <5> QED BY <3>3, <4>1, <5>1 DEF LinkMade
      <4>2. CASE c # d
        BY <2>1, <3>3, <4>2 DEF LinkMade, PatronTypes
      <4> QED BY <4>1, <4>2
    <3> QED BY <1>1, <3>1, <3>2, <3>3, Zenon DEF LinkMove
  <2>3. link[c] \in ClientIds \cup {NoClient} /\ Reached(c, link[c])
    BY DEF PatronTypes, LinksReach
  <2>4. Reached(c, k)'
    BY <2>2, <2>3, ReachedStays DEF Reached
  <2> QED BY <2>1, <2>4 DEF Reached
<1>4. ASSUME NEW c \in Consumers PROVE Reached(c, joining[c])'
  <2>1. PICK k : k = joining'[c]
    OBVIOUS
  <2>2. k = joining[c] \/ k = NoClient \/ phone'[k] = c
    BY <1>1, <2>1 DEF JoinMove
  <2>3. joining[c] \in ClientIds \cup {NoClient} /\ Reached(c, joining[c])
    BY DEF PatronTypes, LinksReach
  <2>4. Reached(c, k)'
    BY <2>2, <2>3, ReachedStays DEF Reached
  <2> QED BY <2>1, <2>4 DEF Reached
<1> QED BY <1>2, <1>3, <1>4 DEF LinksReach

\* Who reviewed has an account.
LEMMA ReviewersKept == ASSUME PatronTypes, Reviewers, PatronStep PROVE Reviewers'
<1> SUFFICES ASSUME NEW b \in Bookings, booking'[b].review # "none"
             PROVE  booking'[b].reviewer \in {c \in Consumers : account'[c] = "registered"}
  BY DEF Reviewers
<1>1. PICK c : c = booking'[b].reviewer
  OBVIOUS
<1>2. c \in Consumers /\ account[c] = "registered"
  BY <1>1 DEF Reviewers, PatronStep, BookingsMove, BookingMove, ReviewMove
<1>3. account'[c] = "registered"
  BY <1>1, <1>2 DEF PatronStep, AccountMove
<1> QED BY <1>1, <1>2, <1>3

\* A link that a booking's owner has is kept with it.
LEMMA OwnersKept == ASSUME PatronsInv, PatronStep PROVE OwnersLinked'
<1> USE PatronNames DEF PatronsInv
<1> SUFFICES ASSUME NEW c \in Consumers, NEW b \in Bookings, booking'[b].by = c
             PROVE  link'[c] # NoClient /\ SameClient(c, booking[b].client)'
  BY Zenon DEF OwnersLinked
<1>1. link'[c] = link[c] \/ link[c] = NoClient
  <2>1. CASE UNCHANGED link
    BY <2>1
  <2>2. ASSUME NEW d \in Consumers, LinkDropped(d) PROVE link'[c] = link[c]
    <3>1. c # d
      BY <2>2 DEF LinkDropped
    <3> QED BY <2>2, <3>1 DEF LinkDropped, PatronTypes
  <2>3. ASSUME NEW d \in Consumers, NEW k \in ClientIds, LinkMade(d, k)
        PROVE  link'[c] = link[c] \/ link[c] = NoClient
    BY <2>3 DEF LinkMade, PatronTypes
  <2> QED BY <2>1, <2>2, <2>3, Zenon DEF PatronStep, LinkMove
<1>2. renumbered \subseteq renumbered' /\ OwnerMove(b)
  BY DEF PatronStep, BookingsMove, BookingMove
<1>3. CASE booking'[b].by = booking[b].by /\ booking'[b].client = booking[b].client
  <2>1. link[c] # NoClient /\ SameClient(c, booking[b].client)
    BY <1>3 DEF OwnersLinked
  <2> QED BY <1>1, <1>2, <1>3, <2>1 DEF SameClient
<1>4. CASE booking'[b].by = NoConsumer
  BY <1>4
<1>5. ASSUME NEW d \in Consumers, NEW k \in ClientIds, Owned(b, d, k)
      PROVE  link'[c] # NoClient /\ SameClient(c, booking[b].client)'
  <2>1. /\ d = c /\ booking'[b].client = k
        /\ k \in Clients!Upserted(c) /\ link' = Clients!Linked(c, k)
    BY <1>5 DEF Owned
  <2>2. CASE link[c] = NoClient
    <3>1. link'[c] = k
      BY <2>1, <2>2 DEF Clients!Linked, PatronTypes
    <3> QED BY <2>1, <3>1 DEF SameClient
  <2>3. CASE link[c] # NoClient
    <3>1. PICK l \in ClientIds : l = link[c]
      BY <2>3 DEF PatronTypes
    <3>2. link' = link
      BY <2>1, <2>3, Zenon DEF Clients!Linked
    <3>3. l \in renumbered \/ phone[l] = c
      BY <2>3, <3>1 DEF LinksReach, Reached
    <3>4. ASSUME phone[l] = c PROVE k = l
      <4>1. phone[k] = c
        BY <2>1, <3>4 DEF Clients!Upserted, Clients!WithPhone
      <4> QED BY <3>4, <4>1 DEF OnePhone
    <3> QED BY <1>2, <2>1, <2>3, <3>1, <3>2, <3>3, <3>4 DEF SameClient
  <2> QED BY <2>2, <2>3
<1> QED BY <1>2, <1>3, <1>4, <1>5, Zenon DEF OwnerMove

\* Every step keeps the invariant of the clients.
LEMMA PatronsKept == PatronsInv /\ [Clients!Next]_patronVars => PatronsInv'
<1> SUFFICES ASSUME PatronsInv, [Clients!Next]_patronVars PROVE PatronsInv'
  OBVIOUS
<1>1. PatronStep
  BY PatronSteps
<1>2. PatronTypes'
  BY <1>1 DEF PatronStep, PatronTypes, BookingsMove, BookingMove
<1> QED BY <1>1, <1>2, OnePhoneKept, LinksKept, ReviewersKept, OwnersKept DEF PatronsInv

\* What the invariant says: the rows have their shape, and a consumer sees the bookings it made.
LEMMA PatronsShown == PatronsInv => Clients!TypeOK /\ Clients!BookedIsListedUnlessRenumbered
<1> SUFFICES ASSUME PatronsInv PROVE Clients!TypeOK /\ Clients!BookedIsListedUnlessRenumbered
  OBVIOUS
<1> USE PatronNames DEF PatronsInv
<1>1. Clients!TypeOK
  <2>1. \A b \in Bookings : booking[b].client \in ClientIds \cup {NoClient}
    BY DEF PatronTypes, BookingRow
  <2> QED BY <2>1 DEF Clients!TypeOK, PatronTypes, OnePhone, OneLink, Reviewers
<1>2. ASSUME NEW c \in Consumers, NEW b \in Bookings, booking[b].by = c, b \notin Clients!Listed(c)
      PROVE  {link[c], booking[b].client} \cap renumbered # {}
  <2>1. booking[b] # Clients!NoBooking
    BY <1>2 DEF Clients!NoBooking
  <2>2. booking[b].client # link[c]
    BY <1>2, <2>1 DEF Clients!Listed
  <2> QED BY <1>2, <2>2 DEF OwnersLinked, SameClient
<1> QED BY <1>1, <1>2 DEF Clients!BookedIsListedUnlessRenumbered

-----------------------------------------------------------------------------
(* Showcase: files and the rows that name them, the hours *)

PhotoWork == {"photoFile", "photoRow", "photoDelete"}
LogoWork == {"logoSet", "logoClear"}
GalleryWork == {"galleryFile", "galleryRow", "galleryDelete"}
UploadRow == [op : {"idle", "hours"} \cup PhotoWork \cup LogoWork \cup GalleryWork,
              old : Files \cup {NoFile}, new : Files \cup {NoFile}, saw : SUBSET (Uploads \X Page!Interval)]
Works == {q \in UploadRow : q.op = "idle" => q = Page!NoWork}

PageTypes ==
    /\ disk \subseteq Files \cup {Page!Logo} /\ gallery \subseteq Files /\ spare \subseteq Files
    /\ photo \in Files \cup {NoFile} /\ hours \subseteq Uploads \X Page!Interval
    /\ upload \in [Uploads -> Works]

\* The file of a request is one request's: no row names it yet, and nobody is to delete it.
FreshNames == \A u \in Uploads : upload[u].new # NoFile =>
    /\ upload[u].new \notin spare \cup gallery \cup {photo}
    /\ \A v \in Uploads : upload[u].new # upload[v].old /\ (v # u => upload[u].new # upload[v].new)
\* A name once given is not given again; one that a photo had is not an image's of the gallery.
TakenNames ==
    /\ photo \notin spare \cup gallery /\ gallery \cap spare = {}
    /\ \A u \in Uploads : upload[u].old \notin spare
                          /\ (upload[u].op \in PhotoWork => upload[u].old \notin gallery)
\* A file is written before a row names it, and deleted only when the row no longer does.
FilesWritten == \A u \in Uploads :
    /\ upload[u].op \in {"photoFile", "galleryFile", "galleryRow"} => upload[u].new # NoFile
    /\ upload[u].op \in {"photoRow", "galleryRow"} => upload[u].new \in disk \cup {NoFile}
PhotoReplaced == \A u \in Uploads :
    upload[u].op = "photoDelete" => upload[u].old = NoFile \/ upload[u].old # photo

PhotoOnDisk == photo # NoFile => photo \in disk
GalleryOnDisk == gallery \subseteq disk \cup dropped
FilesInv == FreshNames /\ TakenNames /\ FilesWritten /\ PhotoReplaced /\ PhotoOnDisk /\ GalleryOnDisk

\* Unless they crossed, one request at a time is about the logo, and its file is written before its row.
LogoKnown == "logo" \in crossed \/
    /\ \A u, v \in Uploads : upload[u].op \in LogoWork /\ upload[v].op \in LogoWork => u = v
    /\ \A u \in Uploads : upload[u].op = "logoSet" => Page!Logo \in disk
LogoOnDisk == logo => Page!Logo \in disk \/ Page!Working("logoClear") # {} \/ "logo" \in crossed

\* Unless they raced, who replaces the hours has seen all of them.
HoursSeen == "hours" \in crossed \/ \A u \in Uploads : upload[u].op = "hours" => hours \subseteq upload[u].saw

PageInv == /\ PageTypes /\ FilesInv /\ LogoKnown /\ LogoOnDisk /\ HoursSeen
           /\ Page!HoursOverlapOnlyIfRaced

\* What the assumptions on the constants say.
LEMMA PageNames ==
    /\ NoFile \notin Files /\ Page!Logo \notin Files /\ Page!Logo # NoFile
    /\ \A week \in WorkingWeeks : /\ week \subseteq Page!Interval
                                  /\ \A i, j \in week : ~Page!Overlap(i, j)
BY PageAssumed DEF Page!ShowcaseAssumption

\* A request that is not in progress.
LEMMA IdleWork == /\ Page!NoWork \in Works /\ Page!NoWork.op = "idle" /\ Page!NoWork.old = NoFile
                  /\ Page!NoWork.new = NoFile /\ Page!NoWork.saw = {}
BY DEF Page!NoWork, Works, UploadRow

-----------------------------------------------------------------------------
(* What a step does to the requests about a salon's page *)

\* Only u's request moves; another's changes in what it has seen of the hours at most.
Becomes(u, op, old, new) ==
    /\ upload' \in [Uploads -> Works]
    /\ upload'[u].op = op /\ upload'[u].old = old /\ upload'[u].new = new
    /\ \A v \in Uploads \ {u} : /\ upload'[v].op = upload[v].op
                                /\ upload'[v].old = upload[v].old /\ upload'[v].new = upload[v].new
SawSame(u) == \A v \in Uploads \ {u} : upload'[v].saw = upload[v].saw

\* A request takes its next row.
LEMMA RowBecomes ==
    ASSUME PageTypes, NEW u \in Uploads, NEW row \in Works, upload' = [upload EXCEPT ![u] = row]
    PROVE  Becomes(u, row.op, row.old, row.new) /\ SawSame(u) /\ upload'[u] = row
BY DEF PageTypes, Becomes, SawSame

\* A request goes on to its next operation.
LEMMA DoesBecomes ==
    ASSUME PageTypes, NEW u \in Uploads, NEW op \in PhotoWork \cup LogoWork \cup GalleryWork,
           NEW old \in Files \cup {NoFile}, NEW new \in Files \cup {NoFile}, Page!Does(u, op, old, new)
    PROVE  Becomes(u, op, old, new) /\ SawSame(u)
<1>1. Page!NoWork \in UploadRow
  BY IdleWork DEF Works
<1>2. PICK x : x = [Page!NoWork EXCEPT !.op = op]
  OBVIOUS
<1>3. x \in UploadRow /\ x.op = op
  BY <1>1, <1>2 DEF UploadRow
<1>4. PICK y : y = [x EXCEPT !.old = old]
  OBVIOUS
<1>5. y \in UploadRow /\ y.op = op /\ y.old = old
  BY <1>3, <1>4 DEF UploadRow
<1>6. PICK z : z = [y EXCEPT !.new = new]
  OBVIOUS
<1>7. z \in UploadRow /\ z.op = op /\ z.old = old /\ z.new = new
  BY <1>5, <1>6 DEF UploadRow
<1>8. upload' = [upload EXCEPT ![u] = z]
  BY <1>2, <1>4, <1>6, Zenon DEF Page!Does
<1>9. z \in Works
  BY <1>7 DEF Works, PhotoWork, LogoWork, GalleryWork
<1> QED BY <1>7, <1>8, <1>9, RowBecomes

\* A request ends.
LEMMA EndsBecomes ==
    ASSUME PageTypes, NEW u \in Uploads, Page!Ends(u)
    PROVE  Becomes(u, "idle", NoFile, NoFile) /\ SawSame(u)
BY IdleWork, RowBecomes DEF Page!Ends

\* What a step does to the files, and to the rows and the requests that name them.
PhotoBegun(u, f) ==
    /\ Becomes(u, IF f = NoFile THEN "photoRow" ELSE "photoFile", photo, f)
    /\ f \in spare \cup {NoFile} /\ spare' = spare \ {f} /\ UNCHANGED <<disk, photo, gallery, dropped>>
FileWritten(u, op) ==
    /\ upload[u].op \in {"photoFile", "galleryFile"}
    /\ op = IF upload[u].op = "photoFile" THEN "photoRow" ELSE "galleryRow"
    /\ Becomes(u, op, IF op = "photoRow" THEN upload[u].old ELSE NoFile, upload[u].new)
    /\ disk' = disk \cup {upload[u].new} /\ UNCHANGED <<photo, gallery, spare, dropped>>
PhotoNamed(u) ==
    /\ upload[u].op = "photoRow" /\ Becomes(u, "photoDelete", upload[u].old, NoFile)
    /\ photo' = upload[u].new /\ UNCHANGED <<disk, gallery, spare, dropped>>
PhotoUnlinked(u) ==
    /\ upload[u].op = "photoDelete" /\ Becomes(u, "idle", NoFile, NoFile)
    /\ disk' = disk \ {upload[u].old} /\ UNCHANGED <<photo, gallery, spare, dropped>>
ImageBegun(u, f) ==
    /\ f \in spare /\ Becomes(u, "galleryFile", NoFile, f)
    /\ spare' = spare \ {f} /\ UNCHANGED <<disk, photo, gallery, dropped>>
ImageNamed(u) ==
    /\ upload[u].op = "galleryRow" /\ Becomes(u, "idle", NoFile, NoFile)
    /\ gallery' = gallery \cup {upload[u].new} /\ UNCHANGED <<disk, photo, spare, dropped>>
ImageUnlinked(u, f) ==
    /\ f \in gallery /\ Becomes(u, "galleryDelete", f, NoFile)
    /\ disk' = disk \ {f} /\ dropped' = dropped \cup {f} /\ UNCHANGED <<photo, gallery, spare>>
Elsewhere(u, op) ==
    /\ op \in {"idle", "hours"} \cup LogoWork /\ Becomes(u, op, NoFile, NoFile)
    /\ gallery' \subseteq gallery /\ disk' \subseteq Files \cup {Page!Logo}
    /\ (\A f \in Files : f \in disk' <=> f \in disk) /\ UNCHANGED <<photo, spare, dropped>>
FileStep(u) ==
    \/ PhotoNamed(u) \/ PhotoUnlinked(u) \/ ImageNamed(u)
    \/ \E f \in Files \cup {NoFile} : PhotoBegun(u, f) \/ ImageBegun(u, f) \/ ImageUnlinked(u, f)
    \/ \E op \in {"idle", "hours"} \cup PhotoWork \cup LogoWork \cup GalleryWork :
           FileWritten(u, op) \/ Elsewhere(u, op)

\* What it does to the logo: nothing, or what its request is at.
LogoSame(u) ==
    /\ \E op, old, new : Becomes(u, op, old, new) /\ op \notin LogoWork
    /\ upload[u].op \notin LogoWork /\ (Page!Logo \in disk' <=> Page!Logo \in disk)
    /\ ("logo" \in crossed => "logo" \in crossed') /\ UNCHANGED logo
LogoBegun(u, op) ==
    /\ op \in LogoWork /\ Becomes(u, op, NoFile, NoFile) /\ upload[u].op = "idle"
    /\ (Page!Logo \in disk' <=> op = "logoSet") /\ UNCHANGED logo
    /\ "logo" \in crossed \/ ~Page!Alone(u) => "logo" \in crossed'
LogoNamed(u) ==
    /\ upload[u].op \in LogoWork /\ Becomes(u, "idle", NoFile, NoFile)
    /\ logo' = (upload[u].op = "logoSet") /\ UNCHANGED disk
    /\ "logo" \in crossed => "logo" \in crossed' \/ (Page!Alone(u) /\ Page!Logo \in disk)
LogoStopped(u) ==
    /\ upload[u].op \in LogoWork /\ Becomes(u, "idle", NoFile, NoFile) /\ UNCHANGED <<logo, disk>>
    /\ "logo" \in crossed \/ upload[u].op = "logoClear" => "logo" \in crossed'
LogoStep(u) == LogoSame(u) \/ LogoNamed(u) \/ LogoStopped(u) \/ \E op \in LogoWork : LogoBegun(u, op)

\* What it does to the hours: nothing, or what its request is at.
HoursSame(u) ==
    /\ SawSame(u) /\ (\E op, old, new : Becomes(u, op, old, new) /\ op # "hours")
    /\ UNCHANGED hours /\ ("hours" \in crossed => "hours" \in crossed')
HoursBegun(u) ==
    /\ SawSame(u) /\ Becomes(u, "hours", NoFile, NoFile) /\ upload'[u].saw = hours
    /\ UNCHANGED <<hours, crossed>>
HoursPut(u) == \E week \in WorkingWeeks :
    /\ upload[u].op = "hours" /\ Becomes(u, "idle", NoFile, NoFile)
    /\ hours' = Page!Left(u) \cup {<<u, i>> : i \in week}
    /\ IF Page!Working("hours") = {u} THEN "hours" \in crossed /\ Page!Left(u) # {} => "hours" \in crossed'
       ELSE "hours" \in crossed'
HoursStep(u) == HoursSame(u) \/ HoursBegun(u) \/ HoursPut(u)

PageStep == \E u \in Uploads : FileStep(u) /\ LogoStep(u) /\ HoursStep(u)

\* A request about the photo or the gallery leaves logo and hours alone.
LEMMA PageElsewhere ==
    ASSUME NEW u \in Uploads, NEW op \in {"idle"} \cup PhotoWork \cup GalleryWork, NEW old, NEW new,
           Becomes(u, op, old, new), SawSame(u), upload[u].op \notin LogoWork,
           Page!Logo \in disk' <=> Page!Logo \in disk, UNCHANGED <<logo, hours, crossed>>
    PROVE  LogoStep(u) /\ HoursStep(u)
<1>1. op \notin LogoWork /\ op # "hours"
  BY DEF LogoWork, PhotoWork, GalleryWork
<1> QED BY <1>1, Zenon DEF LogoStep, LogoSame, HoursStep, HoursSame

\* What a step does to a salon's page.
LEMMA PageSteps == ASSUME PageTypes, [Page!Next]_showcaseVars PROVE UNCHANGED showcaseVars \/ PageStep
<1> USE PageNames
<1> USE DEF PhotoWork, GalleryWork, LogoWork
<1>0. ASSUME NEW u \in Uploads
      PROVE  /\ upload[u] \in UploadRow /\ upload[u].old \in Files \cup {NoFile}
             /\ upload[u].new \in Files \cup {NoFile} /\ (upload[u] = Page!NoWork => upload[u].op = "idle")
  BY IdleWork DEF PageTypes, Works, UploadRow
<1>1. ASSUME NEW u \in Uploads, NEW f \in Files \cup {NoFile}, Page!PhotoStart(u, f) PROVE PageStep
  <2>1. PICK op \in {"photoRow", "photoFile"} : op = IF f = NoFile THEN "photoRow" ELSE "photoFile"
    OBVIOUS
  <2>2. /\ upload[u] = Page!NoWork /\ f \in spare \cup {NoFile} /\ Page!Does(u, op, photo, f)
        /\ spare' = spare \ {f} /\ UNCHANGED <<disk, photo, logo, gallery, hours, dropped, crossed>>
    BY <1>1, <2>1, Zenon DEF Page!PhotoStart
  <2>3. Becomes(u, op, photo, f) /\ SawSame(u)
    BY <2>2, DoesBecomes DEF PageTypes
  <2>4. upload[u].op \notin LogoWork
    BY <1>0, <2>2
  <2>5. LogoStep(u) /\ HoursStep(u)
    BY <2>2, <2>3, <2>4, PageElsewhere
  <2>6. PhotoBegun(u, f)
    BY <2>1, <2>2, <2>3, Zenon DEF PhotoBegun
  <2> QED BY <2>5, <2>6, Zenon DEF PageStep, FileStep
<1>2. ASSUME NEW u \in Uploads, Page!PhotoFile(u) PROVE PageStep
  <2>1. /\ upload[u].op = "photoFile" /\ disk' = disk \cup {upload[u].new}
        /\ Page!Does(u, "photoRow", upload[u].old, upload[u].new)
        /\ UNCHANGED <<photo, logo, gallery, spare, hours, dropped, crossed>>
    BY <1>2, Zenon DEF Page!PhotoFile
  <2>2. Becomes(u, "photoRow", upload[u].old, upload[u].new) /\ SawSame(u)
    BY <1>0, <2>1, DoesBecomes
  <2>3. LogoStep(u) /\ HoursStep(u)
    <3>1. Page!Logo \in disk' <=> Page!Logo \in disk
      BY <1>0, <2>1
    <3>2. upload[u].op \notin LogoWork
      BY <2>1
    <3> QED BY <2>1, <2>2, <3>1, <3>2, PageElsewhere
  <2>4. FileWritten(u, "photoRow")
    BY <2>1, <2>2, Zenon DEF FileWritten
  <2> QED BY <2>3, <2>4 DEF PageStep, FileStep
<1>3. ASSUME NEW u \in Uploads, Page!PhotoRow(u) PROVE PageStep
  <2>1. /\ upload[u].op = "photoRow" /\ photo' = upload[u].new
        /\ Page!Does(u, "photoDelete", upload[u].old, NoFile)
        /\ UNCHANGED <<disk, logo, gallery, spare, hours, dropped, crossed>>
    BY <1>3, Zenon DEF Page!PhotoRow
  <2>2. Becomes(u, "photoDelete", upload[u].old, NoFile) /\ SawSame(u)
    BY <1>0, <2>1, DoesBecomes
  <2>3. upload[u].op \notin LogoWork
    BY <2>1
  <2>4. LogoStep(u) /\ HoursStep(u)
    BY <2>1, <2>2, <2>3, PageElsewhere
  <2>5. PhotoNamed(u)
    BY <2>1, <2>2, Zenon DEF PhotoNamed
  <2> QED BY <2>4, <2>5, Zenon DEF PageStep, FileStep
<1>4. ASSUME NEW u \in Uploads, Page!PhotoDelete(u) PROVE PageStep
  <2>1. /\ upload[u].op = "photoDelete" /\ disk' = disk \ {upload[u].old} /\ Page!Ends(u)
        /\ UNCHANGED <<photo, logo, gallery, spare, hours, dropped, crossed>>
    BY <1>4, Zenon DEF Page!PhotoDelete, Page!Replaced
  <2>2. Becomes(u, "idle", NoFile, NoFile) /\ SawSame(u)
    BY <2>1, EndsBecomes
  <2>3. LogoStep(u) /\ HoursStep(u)
    <3>1. Page!Logo \in disk' <=> Page!Logo \in disk
      BY <1>0, <2>1
    <3>2. upload[u].op \notin LogoWork
      BY <2>1
    <3> QED BY <2>1, <2>2, <3>1, <3>2, PageElsewhere
  <2>4. PhotoUnlinked(u)
    BY <2>1, <2>2, Zenon DEF PhotoUnlinked
  <2> QED BY <2>3, <2>4, Zenon DEF PageStep, FileStep
<1>5. ASSUME NEW u \in Uploads, NEW f \in Files, Page!GalleryCount(u, f) PROVE PageStep
  <2>1. /\ upload[u] = Page!NoWork /\ f \in spare /\ Page!Does(u, "galleryFile", NoFile, f)
        /\ spare' = spare \ {f} /\ UNCHANGED <<disk, photo, logo, gallery, hours, dropped, crossed>>
    BY <1>5, Zenon DEF Page!GalleryCount
  <2>2. Becomes(u, "galleryFile", NoFile, f) /\ SawSame(u)
    BY <2>1, DoesBecomes
  <2>3. upload[u].op \notin LogoWork
    BY <1>0, <2>1
  <2>4. LogoStep(u) /\ HoursStep(u)
    BY <2>1, <2>2, <2>3, PageElsewhere
  <2>5. ImageBegun(u, f) /\ f \in Files \cup {NoFile}
    BY <2>1, <2>2, Zenon DEF ImageBegun
  <2> QED BY <2>4, <2>5, Zenon DEF PageStep, FileStep
<1>6. ASSUME NEW u \in Uploads, Page!GalleryFile(u) PROVE PageStep
  <2>1. /\ upload[u].op = "galleryFile" /\ disk' = disk \cup {upload[u].new}
        /\ Page!Does(u, "galleryRow", NoFile, upload[u].new)
        /\ UNCHANGED <<photo, logo, gallery, spare, hours, dropped, crossed>>
    BY <1>6, Zenon DEF Page!GalleryFile
  <2>2. Becomes(u, "galleryRow", NoFile, upload[u].new) /\ SawSame(u)
    BY <1>0, <2>1, DoesBecomes
  <2>3. LogoStep(u) /\ HoursStep(u)
    <3>1. Page!Logo \in disk' <=> Page!Logo \in disk
      BY <1>0, <2>1
    <3>2. upload[u].op \notin LogoWork
      BY <2>1
    <3> QED BY <2>1, <2>2, <3>1, <3>2, PageElsewhere
  <2>4. FileWritten(u, "galleryRow")
    BY <2>1, <2>2 DEF FileWritten
  <2> QED BY <2>3, <2>4 DEF PageStep, FileStep
<1>7. ASSUME NEW u \in Uploads, Page!GalleryRow(u) PROVE PageStep
  <2>1. /\ upload[u].op = "galleryRow" /\ gallery' = gallery \cup {upload[u].new} /\ Page!Ends(u)
        /\ UNCHANGED <<disk, photo, logo, spare, hours, dropped, crossed>>
    BY <1>7, Zenon DEF Page!GalleryRow
  <2>2. Becomes(u, "idle", NoFile, NoFile) /\ SawSame(u)
    BY <2>1, EndsBecomes
  <2>3. upload[u].op \notin LogoWork
    BY <2>1
  <2>4. LogoStep(u) /\ HoursStep(u)
    BY <2>1, <2>2, <2>3, PageElsewhere
  <2>5. ImageNamed(u)
    BY <2>1, <2>2, Zenon DEF ImageNamed
  <2> QED BY <2>4, <2>5, Zenon DEF PageStep, FileStep
<1>8. ASSUME NEW u \in Uploads, NEW f \in Files, Page!GalleryUnlink(u, f) PROVE PageStep
  <2>1. /\ upload[u] = Page!NoWork /\ f \in gallery /\ Page!Does(u, "galleryDelete", f, NoFile)
        /\ disk' = disk \ {f} /\ dropped' = dropped \cup {f}
        /\ UNCHANGED <<photo, logo, gallery, spare, hours, crossed>>
    BY <1>8, Zenon DEF Page!GalleryUnlink
  <2>2. Becomes(u, "galleryDelete", f, NoFile) /\ SawSame(u)
    BY <2>1, DoesBecomes
  <2>3. LogoStep(u) /\ HoursStep(u)
    <3>1. Page!Logo \in disk' <=> Page!Logo \in disk
      BY <2>1
    <3>2. upload[u].op \notin LogoWork
      BY <1>0, <2>1
    <3> QED BY <2>1, <2>2, <3>1, <3>2, PageElsewhere
  <2>4. ImageUnlinked(u, f) /\ f \in Files \cup {NoFile}
    BY <2>1, <2>2, Zenon DEF ImageUnlinked
  <2> QED BY <2>3, <2>4, Zenon DEF PageStep, FileStep
<1>9. ASSUME NEW u \in Uploads, Page!GalleryDelete(u) PROVE PageStep
  <2>1. /\ upload[u].op = "galleryDelete" /\ gallery' = gallery \ {upload[u].old} /\ Page!Ends(u)
        /\ UNCHANGED <<disk, photo, logo, spare, hours, dropped, crossed>>
    BY <1>9, Zenon DEF Page!GalleryDelete
  <2>2. Becomes(u, "idle", NoFile, NoFile) /\ SawSame(u)
    BY <2>1, EndsBecomes
  <2>3. upload[u].op \notin LogoWork
    BY <2>1
  <2>4. LogoStep(u) /\ HoursStep(u)
    BY <2>1, <2>2, <2>3, PageElsewhere
  <2>5. Elsewhere(u, "idle")
    BY <2>1, <2>2 DEF Elsewhere, PageTypes
  <2> QED BY <2>4, <2>5 DEF PageStep, FileStep
<1>10. ASSUME NEW u \in Uploads, NEW op \in LogoWork, Page!LogoFile(u, op) PROVE PageStep
  <2>1. /\ upload[u] = Page!NoWork /\ Page!Does(u, op, NoFile, NoFile)
        /\ disk' = (IF op = "logoSet" THEN disk \cup {Page!Logo} ELSE disk \ {Page!Logo})
        /\ crossed' = (IF Page!Alone(u) THEN crossed ELSE crossed \cup {"logo"})
        /\ UNCHANGED <<photo, logo, gallery, spare, hours, dropped>>
    BY <1>10, Zenon DEF Page!LogoFile
  <2>2. Becomes(u, op, NoFile, NoFile) /\ SawSame(u)
    BY <2>1, DoesBecomes
  <2>3. upload[u].op = "idle"
    BY <1>0, <2>1
  <2>4. /\ Page!Logo \in disk' <=> op = "logoSet"
        /\ disk' \subseteq Files \cup {Page!Logo} /\ \A f \in Files : f \in disk' <=> f \in disk
    BY <2>1 DEF PageTypes
  <2>5. /\ "logo" \in crossed \/ ~Page!Alone(u) => "logo" \in crossed'
        /\ "hours" \in crossed => "hours" \in crossed'
    BY <2>1
  <2>6. LogoBegun(u, op)
    BY <2>1, <2>2, <2>3, <2>4, <2>5, Zenon DEF LogoBegun
  <2>7. HoursSame(u)
    <3>1. op # "hours"
      OBVIOUS
    <3> QED BY <2>1, <2>2, <2>5, <3>1, Zenon DEF HoursSame
  <2>8. Elsewhere(u, op)
    BY <2>1, <2>2, <2>4 DEF Elsewhere
  <2>9. FileStep(u)
    BY <2>8 DEF FileStep
  <2> QED BY <2>6, <2>7, <2>9, Zenon DEF PageStep, LogoStep, HoursStep
<1>11. ASSUME NEW u \in Uploads, Page!LogoRow(u) PROVE PageStep
  <2>1. /\ upload[u].op \in LogoWork /\ logo' = (upload[u].op = "logoSet") /\ Page!Ends(u)
        /\ crossed' = (IF Page!Alone(u) /\ Page!Logo \in disk THEN crossed \ {"logo"} ELSE crossed)
        /\ UNCHANGED <<disk, photo, gallery, spare, hours, dropped>>
    BY <1>11, Zenon DEF Page!LogoRow
  <2>2. Becomes(u, "idle", NoFile, NoFile) /\ SawSame(u)
    BY <2>1, EndsBecomes
  <2>3. /\ "logo" \in crossed => "logo" \in crossed' \/ (Page!Alone(u) /\ Page!Logo \in disk)
        /\ "hours" \in crossed => "hours" \in crossed'
    BY <2>1
  <2>4. LogoNamed(u)
    BY <2>1, <2>2, <2>3, Zenon DEF LogoNamed
  <2>5. HoursSame(u)
    BY <2>1, <2>2, <2>3 DEF HoursSame
  <2>6. Elsewhere(u, "idle")
    BY <2>1, <2>2 DEF Elsewhere, PageTypes
  <2>7. FileStep(u)
    BY <2>6 DEF FileStep
  <2> QED BY <2>4, <2>5, <2>7, Zenon DEF PageStep, LogoStep, HoursStep
<1>12. ASSUME NEW u \in Uploads, Page!Stop(u) PROVE PageStep
  <2>1. /\ crossed' = (IF upload[u].op = "logoClear" THEN crossed \cup {"logo"} ELSE crossed) /\ Page!Ends(u)
        /\ UNCHANGED <<disk, photo, logo, gallery, spare, hours, dropped>>
    BY <1>12, Zenon DEF Page!Stop
  <2>2. Becomes(u, "idle", NoFile, NoFile) /\ SawSame(u)
    BY <2>1, EndsBecomes
  <2>3. /\ "logo" \in crossed \/ upload[u].op = "logoClear" => "logo" \in crossed'
        /\ "hours" \in crossed => "hours" \in crossed'
    BY <2>1
  <2>4. LogoStopped(u) \/ LogoSame(u)
    BY <2>1, <2>2, <2>3 DEF LogoStopped, LogoSame
  <2>5. HoursSame(u)
    BY <2>1, <2>2, <2>3 DEF HoursSame
  <2>6. Elsewhere(u, "idle")
    BY <2>1, <2>2 DEF Elsewhere, PageTypes
  <2>7. FileStep(u)
    BY <2>6 DEF FileStep
  <2> QED BY <2>4, <2>5, <2>7, Zenon DEF PageStep, LogoStep, HoursStep
<1>13. ASSUME NEW u \in Uploads, Page!HoursDelete(u) PROVE PageStep
  <2>1. PICK x : x = [Page!NoWork EXCEPT !.op = "hours"]
    OBVIOUS
  <2>2. x \in UploadRow /\ x.op = "hours" /\ x.old = NoFile /\ x.new = NoFile
    BY <2>1, IdleWork DEF Works, UploadRow
  <2>3. PICK row : row = [x EXCEPT !.saw = hours]
    OBVIOUS
  <2>4. row \in UploadRow /\ row.op = "hours" /\ row.old = NoFile /\ row.new = NoFile /\ row.saw = hours
    BY <2>2, <2>3 DEF UploadRow, PageTypes
  <2>5. /\ upload[u] = Page!NoWork /\ upload' = [upload EXCEPT ![u] = row]
        /\ UNCHANGED <<disk, photo, logo, gallery, spare, hours, dropped, crossed>>
    BY <1>13, <2>1, <2>3, Zenon DEF Page!HoursDelete
  <2>6. row \in Works
    BY <2>4 DEF Works
  <2>7. Becomes(u, "hours", NoFile, NoFile) /\ SawSame(u) /\ upload'[u].saw = hours
    BY <2>4, <2>5, <2>6, RowBecomes
  <2>8. HoursBegun(u)
    BY <2>5, <2>7, Zenon DEF HoursBegun
  <2>9. LogoSame(u)
    BY <1>0, <2>5, <2>7 DEF LogoSame
  <2>10. Elsewhere(u, "hours")
    BY <2>5, <2>7 DEF Elsewhere, PageTypes
  <2>11. FileStep(u)
    BY <2>10 DEF FileStep
  <2> QED BY <2>8, <2>9, <2>11, Zenon DEF PageStep, LogoStep, HoursStep
<1>14. ASSUME NEW u \in Uploads, NEW week \in WorkingWeeks, Page!HoursCommit(u, week) PROVE PageStep
  <2>1. /\ upload[u].op = "hours" /\ hours' = Page!Left(u) \cup {<<u, i>> : i \in week}
        /\ UNCHANGED <<disk, photo, logo, gallery, spare, dropped>>
    BY <1>14, Zenon DEF Page!HoursCommit
  <2>2. Becomes(u, "idle", NoFile, NoFile)
    <3>1. upload' = [v \in Uploads |-> IF v = u THEN Page!NoWork
                                       ELSE [upload[v] EXCEPT !.saw = upload[v].saw \ upload[u].saw]]
      BY <1>14, Zenon DEF Page!HoursCommit
    <3>2. upload'[u] = Page!NoWork
      BY <3>1
    <3>3. ASSUME NEW v \in Uploads \ {u}
          PROVE  /\ upload'[v] \in Works /\ upload'[v].op = upload[v].op
                 /\ upload'[v].old = upload[v].old /\ upload'[v].new = upload[v].new
      <4>1. PICK x : x = [upload[v] EXCEPT !.saw = upload[v].saw \ upload[u].saw]
        OBVIOUS
      <4>2. upload[v] \in Works /\ upload[v] \in UploadRow
        BY DEF PageTypes, Works
      <4>3. x \in UploadRow /\ x.op = upload[v].op /\ x.old = upload[v].old /\ x.new = upload[v].new
            /\ x.saw = upload[v].saw \ upload[u].saw
        BY <4>1, <4>2 DEF UploadRow
      <4>4. x.op = "idle" => x = Page!NoWork
        <5>1. SUFFICES ASSUME x.op = "idle" PROVE x = Page!NoWork
          OBVIOUS
        <5>2. upload[v] = Page!NoWork
          BY <4>2, <4>3, <5>1 DEF Works
        <5>3. x.saw = upload[v].saw
          BY <4>3, <5>2, IdleWork
        <5>4. x = upload[v]
          BY <4>2, <4>3, <5>3 DEF UploadRow
        <5> QED BY <5>2, <5>4
      <4>5. upload'[v] = x
        BY <3>1, <4>1
      <4> QED BY <4>3, <4>4, <4>5 DEF Works
    <3>4. upload' \in [Uploads -> Works]
      <4>1. DOMAIN upload' = Uploads /\ upload' = [v \in Uploads |-> upload'[v]]
        BY <3>1
      <4> QED BY <3>2, <3>3, <4>1, IdleWork
    <3> QED BY <3>2, <3>3, <3>4, IdleWork DEF Becomes
  <2>3. /\ "logo" \in crossed => "logo" \in crossed'
        /\ IF Page!Working("hours") = {u}
           THEN "hours" \in crossed /\ Page!Left(u) # {} => "hours" \in crossed'
           ELSE "hours" \in crossed'
    BY <1>14 DEF Page!HoursCommit
  <2>4. HoursPut(u)
    BY <2>1, <2>2, <2>3, Zenon DEF HoursPut
  <2>5. LogoSame(u)
    BY <2>1, <2>2, <2>3 DEF LogoSame
  <2>6. Elsewhere(u, "idle")
    BY <2>1, <2>2 DEF Elsewhere, PageTypes
  <2>7. FileStep(u)
    BY <2>6 DEF FileStep
  <2> QED BY <2>4, <2>5, <2>7, Zenon DEF PageStep, LogoStep, HoursStep
<1> QED BY <1>1, <1>2, <1>3, <1>4, <1>5, <1>6, <1>7, <1>8, <1>9, <1>10, <1>11, <1>12, <1>13, <1>14, Zenon
        DEF Page!Next

\* The rows of a page keep their shape.
LEMMA PageTypesKept == ASSUME PageTypes, FilesWritten, PageStep PROVE PageTypes'
<1> USE PageNames
<1>1. PICK u \in Uploads : FileStep(u) /\ HoursStep(u)
  BY Zenon DEF PageStep
<1>2. upload[u] \in UploadRow
  BY DEF PageTypes, Works
<1>3. upload[u].old \in Files \cup {NoFile} /\ upload[u].new \in Files \cup {NoFile}
  BY <1>2 DEF UploadRow
<1>4. upload' \in [Uploads -> Works]
  BY <1>1 DEF FileStep, PhotoBegun, FileWritten, PhotoNamed, PhotoUnlinked, ImageBegun, ImageNamed,
              ImageUnlinked, Elsewhere, Becomes
<1>5. /\ disk' \subseteq Files \cup {Page!Logo} /\ gallery' \subseteq Files /\ spare' \subseteq Files
      /\ photo' \in Files \cup {NoFile}
  <2> DEFINE Typed == /\ disk' \subseteq Files \cup {Page!Logo} /\ gallery' \subseteq Files
                      /\ spare' \subseteq Files /\ photo' \in Files \cup {NoFile}
  <2>1. ASSUME PhotoNamed(u) PROVE Typed
    BY <1>3, <2>1 DEF PhotoNamed, PageTypes
  <2>2. ASSUME PhotoUnlinked(u) PROVE Typed
    BY <2>2 DEF PhotoUnlinked, PageTypes
  <2>3. ASSUME ImageNamed(u), upload[u].new \in Files PROVE Typed
    BY <2>3 DEF ImageNamed, PageTypes
  <2>4. ASSUME NEW f, PhotoBegun(u, f) \/ ImageBegun(u, f) \/ ImageUnlinked(u, f) PROVE Typed
    BY <2>4 DEF PhotoBegun, ImageBegun, ImageUnlinked, PageTypes
  <2>5. ASSUME NEW op, FileWritten(u, op), upload[u].new \in Files PROVE Typed
    BY <2>5 DEF FileWritten, PageTypes
  <2>6. ASSUME NEW op, Elsewhere(u, op) PROVE Typed
    BY <2>6 DEF Elsewhere, PageTypes
  <2>7. upload[u].op \in {"photoFile", "galleryFile", "galleryRow"} => upload[u].new \in Files
    BY <1>3 DEF FilesWritten
  <2>8. ASSUME ImageNamed(u) PROVE Typed
    <3>1. upload[u].op = "galleryRow"
      BY <2>8, Zenon DEF ImageNamed
    <3> QED BY <2>3, <2>7, <2>8, <3>1
  <2>9. ASSUME NEW op, FileWritten(u, op) PROVE Typed
    <3>1. upload[u].op \in {"photoFile", "galleryFile"}
      BY <2>9, Zenon DEF FileWritten
    <3> QED BY <2>5, <2>7, <2>9, <3>1
  <2> HIDE DEF Typed
  <2>10. Typed
    BY <1>1, <2>1, <2>2, <2>4, <2>6, <2>8, <2>9, Zenon DEF FileStep
  <2> QED BY <2>10 DEF Typed
<1>6. hours' \subseteq Uploads \X Page!Interval
  <2>1. CASE UNCHANGED hours
    BY <2>1 DEF PageTypes
  <2>2. CASE HoursPut(u)
    BY <2>2 DEF HoursPut, PageTypes, Page!Left
  <2> QED BY <1>1, <2>1, <2>2 DEF HoursStep, HoursSame, HoursBegun
<1> QED BY <1>4, <1>5, <1>6 DEF PageTypes

\* The photo on show and the gallery's images stay on the disk, whatever is written and deleted.
LEMMA FilesKept == ASSUME PageTypes, FilesInv, PageStep PROVE FilesInv'
<1> USE PageNames
<1> USE DEF PhotoWork, GalleryWork, LogoWork
<1>1. PICK u \in Uploads : FileStep(u)
  BY Zenon DEF PageStep
<1>2. ASSUME NEW v \in Uploads
      PROVE  upload[v].old \in Files \cup {NoFile} /\ upload[v].new \in Files \cup {NoFile}
  BY DEF PageTypes, Works, UploadRow
<1>3. ASSUME NEW f \in Files \cup {NoFile}, PhotoBegun(u, f) PROVE FilesInv'
  <2> USE <1>2, <1>3 DEF PhotoBegun, Becomes, FilesInv, PageTypes
  <2>1. FreshNames'
    BY DEF FreshNames, TakenNames
  <2>2. TakenNames'
    BY DEF TakenNames
  <2>3. FilesWritten'
    BY DEF FilesWritten
  <2>4. PhotoReplaced'
    BY DEF PhotoReplaced
  <2> QED BY <2>1, <2>2, <2>3, <2>4 DEF PhotoOnDisk, GalleryOnDisk
<1>4. ASSUME NEW op, FileWritten(u, op) PROVE FilesInv'
  <2> USE <1>2, <1>4 DEF FileWritten, Becomes, FilesInv
  <2>1. FreshNames'
    BY DEF FreshNames
  <2>2. TakenNames'
    BY DEF TakenNames, PageTypes
  <2>3. FilesWritten'
    BY DEF FilesWritten
  <2>4. PhotoReplaced'
    BY DEF PhotoReplaced
  <2> QED BY <2>1, <2>2, <2>3, <2>4 DEF PhotoOnDisk, GalleryOnDisk
<1>5. CASE PhotoNamed(u)
  <2> USE <1>2, <1>5 DEF PhotoNamed, Becomes, FilesInv
  <2>1. FreshNames'
    BY DEF FreshNames
  <2>2. TakenNames'
    BY DEF TakenNames, FreshNames, PageTypes
  <2>3. FilesWritten'
    BY DEF FilesWritten
  <2>4. PhotoReplaced'
    BY DEF PhotoReplaced, FreshNames
  <2> QED BY <2>1, <2>2, <2>3, <2>4 DEF PhotoOnDisk, GalleryOnDisk, FilesWritten
<1>6. CASE PhotoUnlinked(u)
  <2> USE <1>2, <1>6 DEF PhotoUnlinked, Becomes, FilesInv
  <2>1. FreshNames'
    BY DEF FreshNames
  <2>2. TakenNames'
    BY DEF TakenNames, PageTypes
  <2>3. FilesWritten'
    BY DEF FilesWritten, FreshNames
  <2>4. PhotoReplaced'
    BY DEF PhotoReplaced
  <2> QED BY <2>1, <2>2, <2>3, <2>4 DEF PhotoOnDisk, GalleryOnDisk, PhotoReplaced, TakenNames
<1>7. ASSUME NEW f \in Files \cup {NoFile}, ImageBegun(u, f) PROVE FilesInv'
  <2> USE <1>2, <1>7 DEF ImageBegun, Becomes, FilesInv, PageTypes
  <2>1. FreshNames'
    BY DEF FreshNames, TakenNames
  <2>2. TakenNames'
    BY DEF TakenNames
  <2>3. FilesWritten'
    BY DEF FilesWritten
  <2>4. PhotoReplaced'
    BY DEF PhotoReplaced
  <2> QED BY <2>1, <2>2, <2>3, <2>4 DEF PhotoOnDisk, GalleryOnDisk
<1>8. CASE ImageNamed(u)
  <2> USE <1>2, <1>8 DEF ImageNamed, Becomes, FilesInv
  <2>1. FreshNames'
    BY DEF FreshNames, PageTypes
  <2>2. TakenNames'
    BY DEF TakenNames, FreshNames, FilesWritten, PageTypes
  <2>3. FilesWritten'
    BY DEF FilesWritten
  <2>4. PhotoReplaced'
    BY DEF PhotoReplaced
  <2> QED BY <2>1, <2>2, <2>3, <2>4 DEF PhotoOnDisk, GalleryOnDisk, FilesWritten
<1>9. ASSUME NEW f \in Files \cup {NoFile}, ImageUnlinked(u, f) PROVE FilesInv'
  <2> USE <1>2, <1>9 DEF ImageUnlinked, Becomes, FilesInv
  <2>1. FreshNames'
    BY DEF FreshNames
  <2>2. TakenNames'
    BY DEF TakenNames, PageTypes
  <2>3. FilesWritten'
    BY DEF FilesWritten, FreshNames
  <2>4. PhotoReplaced'
    BY DEF PhotoReplaced
  <2> QED BY <2>1, <2>2, <2>3, <2>4 DEF PhotoOnDisk, GalleryOnDisk, TakenNames
<1>10. ASSUME NEW op, Elsewhere(u, op) PROVE FilesInv'
  <2> USE <1>2, <1>10 DEF Elsewhere, Becomes, FilesInv
  <2>1. FreshNames'
    BY DEF FreshNames
  <2>2. TakenNames'
    BY DEF TakenNames, PageTypes
  <2>3. FilesWritten'
    BY DEF FilesWritten
  <2>4. PhotoReplaced'
    BY DEF PhotoReplaced
  <2> QED BY <2>1, <2>2, <2>3, <2>4 DEF PhotoOnDisk, GalleryOnDisk, PageTypes
<1> QED BY <1>1, <1>3, <1>4, <1>5, <1>6, <1>7, <1>8, <1>9, <1>10, Zenon DEF FileStep

\* The logo: who crosses whom is recorded, and the file is there while its row says so.
LEMMA LogoKept ==
    ASSUME PageTypes, LogoKnown, LogoOnDisk, PageStep PROVE LogoKnown' /\ LogoOnDisk'
<1> USE DEF LogoWork
<1>1. PICK u \in Uploads : LogoStep(u)
  BY Zenon DEF PageStep
<1>2. CASE LogoSame(u)
  <2>1. \A v \in Uploads : upload'[v].op = upload[v].op
                           \/ (upload'[v].op \notin LogoWork /\ upload[v].op \notin LogoWork)
    BY <1>2 DEF LogoSame, Becomes
  <2>2. LogoKnown'
    BY <1>2, <2>1 DEF LogoSame, LogoKnown
  <2>3. LogoOnDisk'
    BY <1>2, <2>1 DEF LogoSame, LogoOnDisk, Page!Working
  <2> QED BY <2>2, <2>3
<1>3. ASSUME NEW op \in LogoWork, LogoBegun(u, op) PROVE LogoKnown' /\ LogoOnDisk'
  <2>1. "logo" \in crossed' \/ (/\ "logo" \notin crossed
                                /\ \A v \in Uploads : upload[v].op \in LogoWork => v = u)
    BY <1>3 DEF LogoBegun, Page!Alone, Page!Working
  <2>2. LogoKnown'
    BY <1>3, <2>1 DEF LogoBegun, Becomes, LogoKnown
  <2>3. upload'[u].op = op
    BY <1>3 DEF LogoBegun, Becomes
  <2>4. LogoOnDisk'
    BY <1>3, <2>3 DEF LogoBegun, LogoOnDisk, Page!Working
  <2> QED BY <2>2, <2>4
<1>4. CASE LogoNamed(u)
  <2>1. /\ upload'[u].op = "idle" /\ (\A v \in Uploads \ {u} : upload'[v].op = upload[v].op)
        /\ disk' = disk /\ upload[u].op \in LogoWork
    BY <1>4 DEF LogoNamed, Becomes
  <2>2. "logo" \in crossed => "logo" \in crossed'
            \/ (Page!Logo \in disk /\ \A v \in Uploads : upload[v].op \in LogoWork => v = u)
    BY <1>4 DEF LogoNamed, Page!Alone, Page!Working
  <2>3. LogoKnown'
    BY <2>1, <2>2 DEF LogoKnown
  <2>4. logo' => upload[u].op = "logoSet"
    BY <1>4, Zenon DEF LogoNamed
  <2>5. upload[u].op = "logoSet" => Page!Logo \in disk \/ "logo" \in crossed
    BY DEF LogoKnown
  <2>6. logo' => Page!Logo \in disk' \/ "logo" \in crossed'
    <3>1. CASE upload[u].op = "logoSet"
      BY <2>1, <2>2, <2>5, <3>1
    <3> QED BY <2>4, <3>1, Zenon
  <2> QED BY <2>3, <2>6, Zenon DEF LogoOnDisk
<1>5. CASE LogoStopped(u)
  <2>1. /\ upload'[u].op = "idle" /\ (\A v \in Uploads \ {u} : upload'[v].op = upload[v].op)
        /\ disk' = disk
        /\ "logo" \in crossed \/ upload[u].op = "logoClear" => "logo" \in crossed'
    BY <1>5 DEF LogoStopped, Becomes
  <2>2. LogoKnown'
    BY <2>1 DEF LogoKnown
  <2>3. Page!Working("logoClear") # {} => Page!Working("logoClear")' # {} \/ "logo" \in crossed'
    BY <2>1 DEF Page!Working
  <2>4. ("logo" \in crossed => "logo" \in crossed') /\ logo' = logo
    BY <1>5, Zenon DEF LogoStopped
  <2> QED BY <2>1, <2>2, <2>3, <2>4, Zenon DEF LogoOnDisk
<1> QED BY <1>1, <1>2, <1>3, <1>4, <1>5, Zenon DEF LogoStep

\* Who replaces the hours alone has seen all of them, and puts intervals that do not overlap.
LEMMA HoursKept ==
    ASSUME PageTypes, HoursSeen, Page!HoursOverlapOnlyIfRaced, PageStep
    PROVE  HoursSeen' /\ Page!HoursOverlapOnlyIfRaced'
<1>1. PICK u \in Uploads : HoursStep(u)
  BY Zenon DEF PageStep
<1>2. CASE HoursSame(u)
  <2>1. /\ \A v \in Uploads : upload'[v].op = "hours" => upload[v].op = "hours" /\ upload'[v].saw = upload[v].saw
        /\ hours' = hours /\ ("hours" \in crossed => "hours" \in crossed')
    BY <1>2 DEF HoursSame, SawSame, Becomes
  <2>2. HoursSeen'
    BY <2>1 DEF HoursSeen
  <2> QED BY <2>1, <2>2, Zenon DEF Page!HoursOverlapOnlyIfRaced
<1>3. CASE HoursBegun(u)
  <2>1. /\ \A v \in Uploads \ {u} : upload'[v].op = upload[v].op /\ upload'[v].saw = upload[v].saw
        /\ upload'[u].saw = hours /\ hours' = hours /\ crossed' = crossed
    BY <1>3 DEF HoursBegun, SawSame, Becomes
  <2>2. HoursSeen'
    BY <2>1 DEF HoursSeen
  <2> QED BY <2>1, <2>2, Zenon DEF Page!HoursOverlapOnlyIfRaced
<1>4. CASE HoursPut(u)
  <2>1. PICK week \in WorkingWeeks :
            /\ upload[u].op = "hours" /\ Becomes(u, "idle", NoFile, NoFile)
            /\ hours' = Page!Left(u) \cup {<<u, i>> : i \in week}
            /\ IF Page!Working("hours") = {u}
               THEN "hours" \in crossed /\ Page!Left(u) # {} => "hours" \in crossed'
               ELSE "hours" \in crossed'
    BY <1>4, Zenon DEF HoursPut
  <2>2. CASE "hours" \in crossed'
    BY <2>2, Zenon DEF HoursSeen, Page!HoursOverlapOnlyIfRaced
  <2>3. CASE "hours" \notin crossed'
    <3>1. Page!Working("hours") = {u}
      BY <2>1, <2>3
    <3>2. \A v \in Uploads : upload'[v].op # "hours"
      <4>1. ASSUME NEW v \in Uploads \ {u} PROVE upload'[v].op # "hours"
        BY <2>1, <3>1 DEF Page!Working, Becomes
      <4> QED BY <2>1, <4>1 DEF Becomes
    <3>3. Page!Left(u) = {}
      BY <2>1, <2>3, <3>1 DEF HoursSeen, Page!Left
    <3>4. hours' = {<<u, i>> : i \in week}
      BY <2>1, <3>3
    <3>5. ASSUME NEW x \in hours', NEW y \in hours' PROVE ~Page!Overlap(x[2], y[2])
      <4>1. x[2] \in week /\ y[2] \in week
        BY <3>4, <3>5
      <4> QED BY <4>1, PageNames
    <3> QED BY <3>2, <3>5, Zenon DEF HoursSeen, Page!HoursOverlapOnlyIfRaced
  <2> QED BY <2>2, <2>3
<1> QED BY <1>1, <1>2, <1>3, <1>4, Zenon DEF HoursStep

\* The invariant of a page holds at the start, and every step keeps it.
LEMMA PageInitial == Page!Init => PageInv
<1> SUFFICES ASSUME Page!Init PROVE PageInv
  OBVIOUS
<1> USE PageNames
<1>1. upload \in [Uploads -> Works]
      /\ \A u \in Uploads : upload[u].op = "idle" /\ upload[u].old = NoFile /\ upload[u].new = NoFile
  BY IdleWork DEF Page!Init
<1>2. PageTypes
  BY <1>1 DEF Page!Init, PageTypes
<1>3. FreshNames /\ TakenNames /\ FilesWritten /\ PhotoReplaced
  BY <1>1 DEF Page!Init, FreshNames, TakenNames, FilesWritten, PhotoReplaced
<1>4. PhotoOnDisk /\ GalleryOnDisk
  BY DEF Page!Init, PhotoOnDisk, GalleryOnDisk
<1>5. LogoKnown /\ HoursSeen
  BY <1>1 DEF LogoKnown, HoursSeen, LogoWork
<1>6. LogoOnDisk
  BY DEF Page!Init, LogoOnDisk
<1>7. Page!HoursOverlapOnlyIfRaced
  BY DEF Page!Init, Page!HoursOverlapOnlyIfRaced
<1> QED BY <1>2, <1>3, <1>4, <1>5, <1>6, <1>7 DEF PageInv, FilesInv

\* Every step keeps the invariant of a page.
LEMMA PageKept == PageInv /\ [Page!Next]_showcaseVars => PageInv'
<1> SUFFICES ASSUME PageInv, [Page!Next]_showcaseVars PROVE PageInv'
  OBVIOUS
<1> USE DEF PageInv
<1>1. CASE UNCHANGED showcaseVars
  BY <1>1 DEF showcaseVars, PageTypes, FilesInv, FreshNames, TakenNames, FilesWritten, PhotoReplaced,
              PhotoOnDisk, GalleryOnDisk, LogoKnown, LogoOnDisk, HoursSeen, Page!Working,
              Page!HoursOverlapOnlyIfRaced
<1>2. CASE PageStep
  BY <1>2, PageTypesKept, FilesKept, LogoKept, HoursKept DEF FilesInv
<1> QED BY <1>1, <1>2, PageSteps

\* What the invariant says: the rows have their shape, and what a page shows is on the disk.
LEMMA PageShown == PageInv => Page!TypeOK /\ Page!ShownFilesExist
<1> SUFFICES ASSUME PageInv PROVE Page!TypeOK /\ Page!ShownFilesExist
  OBVIOUS
<1>1. Page!TypeOK
  BY DEF PageInv, PageTypes, Works, Page!TypeOK
<1>2. Page!ShownFilesExist
  BY Zenon DEF PageInv, FilesInv, PhotoOnDisk, GalleryOnDisk, LogoOnDisk, Page!ShownFilesExist
<1> QED BY <1>1, <1>2

-----------------------------------------------------------------------------
(* The whole *)

BackOfficeInv == SignupInv /\ TenantInv /\ LedgerInv /\ RulesInv /\ PatronsInv /\ PageInv

\* A step moves one part, and leaves the others alone.
LEMMA PartsMove ==
    [Next]_vars => /\ [NewSalons!Next]_signupVars /\ [Tenant!Next]_tenancyVars
                   /\ [Finances!Next]_ledgerVars /\ [Commission!Next]_rulesVars
                   /\ [Clients!Next]_patronVars /\ [Page!Next]_showcaseVars
<1>1. CASE UNCHANGED vars
  BY <1>1 DEF vars
<1>2. CASE Next
  BY <1>2, Zenon DEF Next
<1> QED BY <1>1, <1>2

\* The six invariants always hold together.
LEMMA BackOfficeInvAlways == Spec => []BackOfficeInv
<1>1. Init => BackOfficeInv
  BY SignupInitial, TenantInitial, LedgerInitial, RulesInitial, PatronsInitial, PageInitial, Zenon
     DEF Init, BackOfficeInv
<1>2. BackOfficeInv /\ [Next]_vars => BackOfficeInv'
  BY PartsMove, SignupKept, TenantKept, LedgerKept, RulesKept, PatronsKept, PageKept, Zenon
     DEF BackOfficeInv
<1> QED BY <1>1, <1>2, PTL DEF Spec

\* Every row and request of the six parts keeps its shape: among them, a phone is one client's, a
\* client one consumer's, and a review an account's that is still there.
THEOREM ShapesKept == Spec => []TypeOK
<1>1. BackOfficeInv => TypeOK
  BY SignupShown, TenantShown, LedgerShown, RulesShown, PatronsShown, PageShown, Zenon
     DEF BackOfficeInv, TypeOK
<1> QED BY <1>1, BackOfficeInvAlways, PTL

\* The uses a coupon counts are the salons that redeemed it, and the one about to: a signup that
\* fails after the reservation gives its use back (signup, registerOwner).
THEOREM UsesAreCounted == Spec => []UsesAreRedemptions
<1>1. BackOfficeInv => UsesAreRedemptions
  BY SignupShown DEF BackOfficeInv, UsesAreRedemptions
<1> QED BY <1>1, BackOfficeInvAlways, PTL

\* The audit log tells the salon's state, however the platform's requests interleave: its last
\* suspension or reactivation, and the days of trial it was granted.
THEOREM TrailTells == Spec => []AuditTellsSalon
<1>1. BackOfficeInv => AuditTellsSalon
  BY TenantShown DEF BackOfficeInv, AuditTellsSalon
<1> QED BY <1>1, BackOfficeInvAlways, PTL

\* A coupon's limit, a plan's limit of professionals, the one active rule of a target and intervals
\* that do not overlap: what a service looks at before it writes breaks only under a race.
THEOREM ChecksHold == Spec => []ChecksBreakOnlyIfRaced
<1>1. BackOfficeInv => ChecksBreakOnlyIfRaced
  BY OneRulePays, Zenon DEF BackOfficeInv, SignupInv, TenantInv, RulesInv, PageInv, ChecksBreakOnlyIfRaced
<1> QED BY <1>1, BackOfficeInvAlways, PTL

\* A consumer sees the bookings made from the account, unless the staff changed a phone.
THEOREM BookedIsListed == Spec => []BookedIsListedUnlessRenumbered
<1>1. BackOfficeInv => BookedIsListedUnlessRenumbered
  BY PatronsShown DEF BackOfficeInv, BookedIsListedUnlessRenumbered
<1> QED BY <1>1, BackOfficeInvAlways, PTL

\* What a salon's page shows is on the disk, wherever requests stop or pass each other.
THEOREM ShownExist == Spec => []ShownFilesExist
<1>1. BackOfficeInv => ShownFilesExist
  BY PageShown DEF BackOfficeInv, ShownFilesExist
<1> QED BY <1>1, BackOfficeInvAlways, PTL

\* A paid subscription becomes a courtesy, and a cancelled entry comes back, only by a request that
\* had read the row before and was overtaken.
THEOREM OverwritesAreOvertaken == Spec => OverwritesOnlyIfOvertaken
<1>1. BackOfficeInv /\ [Next]_vars =>
          [sub.kind = "paid" /\ sub'.kind = "courtesy"
              => \E r \in Requests : req[r].op = "grantWrite" /\ req[r].overtaken]_(Tenant!tenancyVars)
  BY PartsMove, CourtesyStep DEF BackOfficeInv
<1>2. BackOfficeInv /\ [Next]_vars =>
          [\A i \in EntryIds :
             entries[i] # Finances!None /\ entries[i].status = "CANCELED" /\ entries'[i].status # "CANCELED"
               => \E c \in Calls : call[c].pc = "settle" /\ call[c].id = i /\ call[c].overtaken
          ]_(Finances!ledgerVars)
  BY PartsMove, CanceledBack DEF BackOfficeInv
<1> QED BY <1>1, <1>2, BackOfficeInvAlways, PTL
        DEF Spec, OverwritesOnlyIfOvertaken, Tenant!CourtesyOverPaidOnlyIfOvertaken,
            Finances!CanceledBackOnlyIfOvertaken
=============================================================================
