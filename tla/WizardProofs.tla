---------------------------- MODULE WizardProofs ----------------------------
(* Proofs about the booking wizard, for any services, experts and days,    *)
(* any number of requests in flight and of slots that others take.  They   *)
(* are lemmas about a step of the wizard; PortalProofs uses them for each  *)
(* of the wizards it explores.                                             *)
EXTENDS Wizard, FiniteSetTheorems, TLAPS

-----------------------------------------------------------------------------
(* The inductive invariant *)

Chosen == [expert |-> expert, service |-> service, day |-> day]

\* A slot of what is on the screen, once a professional is chosen.
Fits(key) == Gives(key) /\ (expert # Nobody => key = Chosen)

\* The steps are reached in order, and what is shown or still asked for is of the
\* professional, the service and the day selected: a choice that changes one of them
\* empties the slot and makes the requests before it late.
Matched ==
    /\ timer = 2 => step = 1 /\ service # Nothing
    /\ timer = 3 => step = 2 /\ expert # Nobody
    /\ step >= 2 => service # Nothing
    /\ step >= 3 => expert # Nobody
    /\ step = 4 => slot # NoKey
    /\ slot # NoKey => Fits(slot)
    /\ offer.is = "given" => Fits(offer.of.key)
    /\ \A c \in calls : c.latest => (expert # Nobody => c.key = Chosen)

\* While a booking is on its way the button waits and no error is shown.
OnItsWay ==
    post # NoKey =>
        /\ post \in Posts /\ sending = TRUE /\ told = FALSE
        /\ post.slot.expert = post.expert /\ post.slot.service = post.service
        /\ Gives(post.slot)

\* While every answer was heard, the one booking there can be is either confirmed on the
\* screen, which ends the wizard, or its answer is still to come.
Heard ==
    unheard \/
        /\ mine # {} =>
               /\ told = FALSE
               /\ \/ booked # NoKey /\ post = NoKey
                  \/ post # NoKey /\ post.at = "booked"
        /\ \A x, y \in mine : x = y

WInv == TypeOK /\ Matched /\ OnItsWay /\ Heard

-----------------------------------------------------------------------------
(* What the client chooses *)

Booking == <<sending, told, booked, post, taken, entries, mine, unheard>>

\* A choice moves nothing of the booking.
LEMMA ChoiceKeeps ==
    ASSUME WInv, UNCHANGED Booking PROVE OnItsWay' /\ Heard'
BY DEF WInv, Booking, OnItsWay, Heard, Gives

\* What is left of the invariant when a choice is made.
LEMMA MatchedIsEnough ==
    ASSUME WInv, Choosing,
           step' \in 1..4 /\ timer' \in {0, 2, 3},
           service' \in Services \cup {Nothing}, expert' \in Experts \cup {Nobody},
           day' \in Dates, slot' \in Keys \cup {NoKey}, crewCalls' \subseteq Services,
           crew'.is \in {"given", "failed", "loading"}, crew'.of \subseteq Experts,
           offer'.is \in {"given", "failed", "loading"},
           offer'.is = "given" => offer'.of \in [key : Keys, free : BOOLEAN],
           calls' \subseteq [key : Keys, latest : BOOLEAN],
           Matched'
    PROVE  WInv'
<1>1. UNCHANGED Booking
  BY DEF Choosing, Booking
<1>2. TypeOK'
  BY <1>1 DEF WInv, TypeOK, Booking
<1> QED BY <1>1, <1>2, ChoiceKeeps DEF WInv

LEMMA AdvanceKeeps == ASSUME WInv, Advance PROVE WInv'
<1>1. /\ timer # 0 /\ step' = timer /\ timer' = 0 /\ Choosing
      /\ UNCHANGED <<service, expert, day, slot, crew, crewCalls, offer, calls>>
  BY DEF Advance
<1>2. Matched'
  BY <1>1 DEF WInv, TypeOK, Matched, Fits, Gives, Chosen
<1> QED BY <1>1, <1>2, MatchedIsEnough DEF WInv, TypeOK

LEMMA JumpKeeps == ASSUME WInv, NEW to \in 1..3, Jump(to) PROVE WInv'
<1>1. /\ to < step /\ step' = to /\ timer' = 0 /\ Choosing
      /\ UNCHANGED <<service, expert, day, slot, crew, crewCalls, offer, calls>>
  BY DEF Jump
<1>2. Matched'
  BY <1>1 DEF WInv, TypeOK, Matched, Fits, Gives, Chosen
<1> QED BY <1>1, <1>2, MatchedIsEnough DEF WInv, TypeOK

LEMMA ContinueKeeps == ASSUME WInv, Continue PROVE WInv'
<1>1. /\ step = 3 /\ slot # NoKey /\ step' = 4 /\ Choosing
      /\ UNCHANGED <<timer, service, expert, day, slot, crew, crewCalls, offer, calls>>
  BY DEF Continue
<1>2. Matched'
  BY <1>1 DEF WInv, TypeOK, Matched, Fits, Gives, Chosen
<1> QED BY <1>1, <1>2, MatchedIsEnough DEF WInv, TypeOK

\* Another service: nobody is chosen any more, so what is on the screen is of nobody.
LEMMA SelectServiceKeeps ==
    ASSUME WizardAssumption, WInv, NEW s \in Services, SelectService(s) PROVE WInv'
<1>1. /\ step = 1 /\ service' = s /\ expert' = Nobody /\ timer' = 2 /\ Choosing
      /\ crew' = Loading /\ crewCalls' = crewCalls \cup {s}
      /\ UNCHANGED <<step, day, slot, offer, calls>>
  BY DEF SelectService, LoadProfessionals
<1>2. Matched'
  BY <1>1 DEF WizardAssumption, WInv, TypeOK, Matched, Fits, Gives, Chosen
<1> QED BY <1>1, <1>2, MatchedIsEnough DEF WInv, TypeOK, Loading

LEMMA RetryProfessionalsKeeps == ASSUME WInv, RetryProfessionals PROVE WInv'
<1>1. /\ service # Nothing /\ Choosing
      /\ crew' = Loading /\ crewCalls' = crewCalls \cup {service}
      /\ UNCHANGED <<step, timer, service, expert, day, slot, offer, calls>>
  BY DEF RetryProfessionals, LoadProfessionals
<1>2. Matched'
  BY <1>1 DEF WInv, TypeOK, Matched, Fits, Gives, Chosen
<1> QED BY <1>1, <1>2, MatchedIsEnough DEF WInv, TypeOK, Loading

LEMMA ProfessionalsArriveKeeps ==
    ASSUME WInv, NEW s \in Services, ProfessionalsArrive(s) PROVE WInv'
<1>1. /\ crewCalls' = crewCalls \ {s} /\ Choosing
      /\ crew' \in {Given(Crew(s)), Failed}
      /\ UNCHANGED <<step, timer, service, expert, day, slot, offer, calls>>
  BY DEF ProfessionalsArrive
<1>2. Matched'
  BY <1>1 DEF WInv, TypeOK, Matched, Fits, Gives, Chosen
<1>3. crew'.is \in {"given", "failed", "loading"} /\ crew'.of \subseteq Experts
  <2>1. Crew(s) \subseteq Experts
    BY DEF Crew
  <2>2. CASE crew' = Given(Crew(s))
    BY <2>1, <2>2 DEF Given
  <2>3. CASE crew' = Failed
    BY <2>3 DEF Failed
  <2> QED BY <1>1, <2>2, <2>3
<1> QED BY <1>1, <1>2, <1>3, MatchedIsEnough DEF WInv, TypeOK

-----------------------------------------------------------------------------
(* The day and the slot *)

\* A new request: it is the only latest one.
LEMMA OnlyLatest ==
    ASSUME TypeOK, NEW key \in Keys, LoadSlots(key)
    PROVE  /\ offer' = Loading /\ calls' \subseteq [key : Keys, latest : BOOLEAN]
           /\ \A c \in calls' : c.latest => c.key = key
<1>1. \A c \in calls : /\ [c EXCEPT !.latest = FALSE] \in [key : Keys, latest : BOOLEAN]
                       /\ ~[c EXCEPT !.latest = FALSE].latest
  BY DEF TypeOK
<1>2. calls' = {[c EXCEPT !.latest = FALSE] : c \in calls} \cup {[key |-> key, latest |-> TRUE]}
  BY DEF LoadSlots
<1> DEFINE late == {[c EXCEPT !.latest = FALSE] : c \in calls}
<1>3. /\ late \subseteq [key : Keys, latest : BOOLEAN]
      /\ \A c \in late : ~c.latest
  BY <1>1, Zenon
<1>4. calls' = late \cup {[key |-> key, latest |-> TRUE]}
  BY <1>2
<1>5. [key |-> key, latest |-> TRUE] \in [key : Keys, latest : BOOLEAN]
  OBVIOUS
<1> HIDE DEF late
<1>6. calls' \subseteq [key : Keys, latest : BOOLEAN]
  BY <1>3, <1>4, <1>5, Zenon
<1>7. ASSUME NEW c \in calls', c.latest PROVE c.key = key
  <2>1. c = [key |-> key, latest |-> TRUE]
    BY <1>3, <1>4, <1>7, Zenon
  <2> QED BY <2>1
<1> QED BY <1>6, <1>7 DEF LoadSlots

LEMMA SelectProfessionalKeeps ==
    ASSUME WizardAssumption, WInv, NEW e \in Experts, SelectProfessional(e) PROVE WInv'
<1>1. /\ step = 2 /\ expert' = e /\ slot' = NoKey /\ timer' = 3 /\ Choosing
      /\ UNCHANGED <<step, service, day, crew, crewCalls>>
  BY DEF SelectProfessional
<1> DEFINE key == [expert |-> e, service |-> service, day |-> day]
<1>2. service # Nothing /\ key \in Keys
  BY <1>1 DEF WInv, TypeOK, Matched, Keys
<1>3. LoadSlots(key)
  BY <1>2 DEF SelectProfessional
<1>4. /\ offer' = Loading /\ calls' \subseteq [key : Keys, latest : BOOLEAN]
      /\ \A c \in calls' : c.latest => c.key = key
  BY <1>2, <1>3, OnlyLatest DEF WInv
<1>5. Chosen' = key
  BY <1>1 DEF Chosen
<1> HIDE DEF key
<1>6. Matched'
  BY <1>1, <1>2, <1>4, <1>5 DEF WizardAssumption, Matched, Loading
<1> QED BY <1>1, <1>4, <1>6, MatchedIsEnough DEF WInv, TypeOK, Loading

LEMMA SelectDateKeeps ==
    ASSUME WInv, NEW d \in Dates, SelectDate(d) PROVE WInv'
<1> DEFINE key == [expert |-> expert, service |-> service, day |-> d]
<1>1. /\ step = 3 /\ day' = d /\ slot' = NoKey /\ LoadSlots(key) /\ Choosing
      /\ UNCHANGED <<step, timer, service, expert, crew, crewCalls>>
  BY DEF SelectDate
<1>2. key \in Keys
  BY <1>1 DEF WInv, TypeOK, Matched, Keys
<1>3. /\ offer' = Loading /\ calls' \subseteq [key : Keys, latest : BOOLEAN]
      /\ \A c \in calls' : c.latest => c.key = key
  BY <1>1, <1>2, OnlyLatest DEF WInv
<1>4. Chosen' = key
  BY <1>1 DEF Chosen
<1> HIDE DEF key
<1>5. Matched'
  BY <1>1, <1>3, <1>4 DEF WInv, Matched, Loading
<1> QED BY <1>1, <1>3, <1>5, MatchedIsEnough DEF WInv, TypeOK, Loading

LEMMA RetrySlotsKeeps == ASSUME WInv, RetrySlots PROVE WInv'
<1>1. /\ step = 3 /\ LoadSlots(Chosen) /\ Choosing
      /\ UNCHANGED <<step, timer, service, expert, day, slot, crew, crewCalls>>
  BY DEF RetrySlots, Chosen
<1>2. Chosen \in Keys
  BY <1>1 DEF WInv, TypeOK, Matched, Keys, Chosen
<1>3. /\ offer' = Loading /\ calls' \subseteq [key : Keys, latest : BOOLEAN]
      /\ \A c \in calls' : c.latest => c.key = Chosen
  BY <1>1, <1>2, OnlyLatest DEF WInv
<1>4. Chosen' = Chosen
  BY <1>1 DEF Chosen
<1>5. Matched'
  BY <1>1, <1>3, <1>4 DEF WInv, Matched, Loading, Fits, Gives
<1> QED BY <1>1, <1>3, <1>5, MatchedIsEnough DEF WInv, TypeOK, Loading

\* The answer shown is the one to the latest request; any other is dropped.
LEMMA SlotsArriveKeeps ==
    ASSUME WInv, NEW c \in calls, SlotsArrive(c) PROVE WInv'
<1>1. /\ calls' = calls \ {c} /\ Choosing
      /\ offer' \in IF c.latest THEN {Answer(c.key), Failed} ELSE {offer}
      /\ UNCHANGED <<step, timer, service, expert, day, slot, crew, crewCalls>>
  BY DEF SlotsArrive
<1>2. /\ calls' \subseteq [key : Keys, latest : BOOLEAN] /\ c.key \in Keys
      /\ \A x \in calls' : x \in calls
  BY <1>1 DEF WInv, TypeOK
<1>3. Chosen' = Chosen
  BY <1>1 DEF Chosen
<1>4. /\ offer'.is \in {"given", "failed", "loading"}
      /\ offer'.is = "given" => /\ offer'.of \in [key : Keys, free : BOOLEAN]
                                /\ Fits(offer'.of.key)
  <2>1. CASE c.latest
    <3>1. Failed.is = "failed"
      BY DEF Failed
    <3>2. CASE offer' = Answer(c.key) /\ Gives(c.key)
      <4>1. /\ offer'.is = "given" /\ offer'.of.key = c.key
            /\ offer'.of \in [key : Keys, free : BOOLEAN]
        BY <1>2, <3>2 DEF Answer, Given
      <4> QED BY <2>1, <3>2, <4>1 DEF WInv, Matched, Fits
    <3>3. CASE offer' = Failed \/ ~Gives(c.key)
      BY <1>1, <2>1, <3>1, <3>3 DEF Answer
    <3> QED BY <1>1, <2>1, <3>2, <3>3
  <2>2. CASE ~c.latest
    BY <1>1, <2>2 DEF WInv, TypeOK, Matched
  <2> QED BY <2>1, <2>2
<1>5. Matched'
  BY <1>1, <1>2, <1>3, <1>4 DEF WInv, Matched, Fits, Gives
<1> QED BY <1>1, <1>2, <1>4, <1>5, MatchedIsEnough DEF WInv, TypeOK

LEMMA SelectSlotKeeps == ASSUME WInv, SelectSlot PROVE WInv'
<1>1. /\ step = 3 /\ offer.is = "given" /\ slot' = offer.of.key /\ Choosing
      /\ UNCHANGED <<step, timer, service, expert, day, crew, crewCalls, offer, calls>>
  BY DEF SelectSlot, SlotsShown
<1>2. slot' \in Keys
  BY <1>1 DEF WInv, TypeOK
<1>3. Matched'
  BY <1>1 DEF WInv, Matched, Fits, Gives, Chosen
<1> QED BY <1>1, <1>2, <1>3, MatchedIsEnough DEF WInv, TypeOK

-----------------------------------------------------------------------------
(* The booking *)

\* What is left of the invariant when the screen stays as it is.
LEMMA BookingIsEnough ==
    ASSUME WInv, UNCHANGED Screen, entries' \in 0..MaxEntries, mine' \subseteq taken',
           OnItsWay', Heard'
    PROVE  WInv'
<1>1. UNCHANGED <<step, timer, service, expert, day, slot, crew, crewCalls, offer, calls>>
  BY DEF Screen
<1>2. Matched'
  BY <1>1 DEF WInv, Matched, Fits, Gives, Chosen
<1>3. TypeOK'
  BY <1>1 DEF WInv, TypeOK, OnItsWay
<1> QED BY <1>2, <1>3 DEF WInv

LEMMA JoinWaitlistKeeps ==
    ASSUME WizardAssumption, WInv, JoinWaitlist PROVE WInv'
<1>1. /\ UNCHANGED Screen /\ UNCHANGED <<sending, told, booked, post, taken, mine, unheard>>
      /\ entries < MaxEntries /\ entries' = entries + 1
  BY DEF JoinWaitlist, Screen
<1>2. entries' \in 0..MaxEntries /\ mine' \subseteq taken'
  BY <1>1 DEF WizardAssumption, WInv, TypeOK
<1>3. OnItsWay' /\ Heard'
  BY <1>1 DEF WInv, OnItsWay, Heard, Gives
<1> QED BY <1>1, <1>2, <1>3, BookingIsEnough

\* The button waits for the answer, so nothing is on its way when a booking is sent.
LEMMA ConfirmKeeps == ASSUME WizardAssumption, WInv, Confirm PROVE WInv'
<1>1. /\ step = 4 /\ slot # NoKey /\ booked = NoKey /\ ~sending
      /\ sending' = TRUE /\ told' = FALSE
      /\ post' = [expert |-> expert, service |-> service, slot |-> slot, at |-> "sent"]
      /\ UNCHANGED Screen /\ UNCHANGED <<booked, taken, entries, mine, unheard>>
  BY DEF Confirm, Screen
<1>2. entries' \in 0..MaxEntries /\ mine' \subseteq taken'
  BY <1>1 DEF WInv, TypeOK
<1>3. /\ expert \in Experts /\ service \in Services /\ slot \in Keys
      /\ slot.expert = expert /\ slot.service = service /\ Gives(slot)
  BY <1>1 DEF WInv, TypeOK, Matched, Fits, Chosen
<1>4. OnItsWay'
  BY <1>1, <1>3 DEF OnItsWay, Posts, Gives
<1>5. Heard'
  BY <1>1 DEF WInv, OnItsWay, Heard
<1> QED BY <1>1, <1>2, <1>4, <1>5, BookingIsEnough

LEMMA ServerBooksKeeps == ASSUME WizardAssumption, WInv, ServerBooks PROVE WInv'
<1> DEFINE at == <<post.expert, post.slot.day>>
           fits == <<post.expert, post.service>> \in Serves /\ at \notin taken
<1>1. /\ post # NoKey /\ post.at = "sent"
      /\ post' = [post EXCEPT !.at = IF fits THEN "booked" ELSE "refused"]
      /\ taken' = (IF fits THEN taken \cup {at} ELSE taken)
      /\ mine' = (IF fits THEN mine \cup {at} ELSE mine)
      /\ UNCHANGED Screen /\ UNCHANGED <<sending, told, booked, entries, unheard>>
  BY DEF ServerBooks
<1> HIDE DEF at, fits
<1>2. entries' \in 0..MaxEntries /\ mine' \subseteq taken'
  BY <1>1 DEF WInv, TypeOK
<1>3. /\ post \in Posts /\ sending = TRUE /\ told = FALSE
      /\ post.slot.expert = post.expert /\ post.slot.service = post.service /\ Gives(post.slot)
  BY <1>1 DEF WInv, OnItsWay
<1>4. /\ post' \in Posts /\ post'.slot = post.slot /\ post'.expert = post.expert
      /\ post'.service = post.service /\ post'.at = (IF fits THEN "booked" ELSE "refused")
  BY <1>1, <1>3 DEF Posts
<1>5. OnItsWay'
  BY <1>1, <1>3, <1>4 DEF OnItsWay, Gives
<1>6. ASSUME ~unheard PROVE mine = {}
  BY <1>1, <1>6 DEF WInv, Heard
<1>7. post' # NoKey
  BY <1>4 DEF WizardAssumption
<1>8. Heard'
  BY <1>1, <1>3, <1>4, <1>6, <1>7 DEF WInv, Heard
<1> QED BY <1>1, <1>2, <1>5, <1>8, BookingIsEnough

LEMMA ReceiveKeeps == ASSUME WizardAssumption, WInv, Receive PROVE WInv'
<1>1. /\ post # NoKey /\ post.at \in {"booked", "refused"}
      /\ sending' = FALSE /\ post' = NoKey
      /\ IF post.at = "booked" THEN booked' = post.slot /\ UNCHANGED told
         ELSE told' = TRUE /\ UNCHANGED booked
      /\ UNCHANGED Screen /\ UNCHANGED <<taken, entries, mine, unheard>>
  BY DEF Receive
<1>2. entries' \in 0..MaxEntries /\ mine' \subseteq taken'
  BY <1>1 DEF WInv, TypeOK
<1>3. OnItsWay'
  BY <1>1 DEF OnItsWay
<1>4. post.slot # NoKey
  BY <1>1 DEF WizardAssumption, WInv, OnItsWay, Posts
<1>5. Heard'
  BY <1>1, <1>4 DEF WInv, Heard
<1> QED BY <1>1, <1>2, <1>3, <1>5, BookingIsEnough

LEMMA AnswerLostKeeps == ASSUME WInv, AnswerLost PROVE WInv'
<1>1. /\ post # NoKey /\ sending' = FALSE /\ post' = NoKey /\ told' = TRUE
      /\ unheard' = (unheard \/ post.at = "booked")
      /\ UNCHANGED Screen /\ UNCHANGED <<booked, taken, entries, mine>>
  BY DEF AnswerLost
<1>2. entries' \in 0..MaxEntries /\ mine' \subseteq taken'
  BY <1>1 DEF WInv, TypeOK
<1>3. OnItsWay'
  BY <1>1 DEF OnItsWay
<1>4. Heard'
  BY <1>1 DEF WInv, Heard
<1> QED BY <1>1, <1>2, <1>3, <1>4, BookingIsEnough

LEMMA SlotTakenKeeps ==
    ASSUME WInv, NEW e, NEW d, SlotTaken(e, d) PROVE WInv'
<1>1. /\ taken' = taken \cup {<<e, d>>} /\ UNCHANGED Screen
      /\ UNCHANGED <<sending, told, booked, post, entries, mine, unheard>>
  BY DEF SlotTaken
<1>2. entries' \in 0..MaxEntries /\ mine' \subseteq taken'
  BY <1>1 DEF WInv, TypeOK
<1>3. OnItsWay' /\ Heard'
  BY <1>1 DEF WInv, OnItsWay, Heard, Gives
<1> QED BY <1>1, <1>2, <1>3, BookingIsEnough

-----------------------------------------------------------------------------
(* What a wizard that moves keeps *)

\* Every wizard starts with nothing chosen and nothing sent.
LEMMA WizardStarts == ASSUME WizardAssumption, Init PROVE WInv
<1> USE DEF WizardAssumption, Init
<1>1. TypeOK
  BY DEF TypeOK, Loading
<1>2. Matched /\ OnItsWay /\ Heard
  BY DEF Matched, OnItsWay, Heard, Loading
<1> QED BY <1>1, <1>2 DEF WInv

\* Every handler of the wizard, every answer and whatever others do keep the invariant.
LEMMA WizardStep == ASSUME WizardAssumption, WInv, [Next]_wizardVars PROVE WInv'
<1>1. CASE UNCHANGED wizardVars
  <2>1. /\ UNCHANGED Screen /\ UNCHANGED Booking
    BY <1>1 DEF wizardVars, Screen, Booking
  <2>2. entries' \in 0..MaxEntries /\ mine' \subseteq taken'
    BY <2>1 DEF WInv, TypeOK, Booking
  <2> QED BY <2>1, <2>2, ChoiceKeeps, BookingIsEnough
<1>2. CASE Advance \/ Continue \/ \E to \in 1..3 : Jump(to)
  BY <1>2, AdvanceKeeps, ContinueKeeps, JumpKeeps
<1>3. CASE \E s \in Services : SelectService(s) \/ ProfessionalsArrive(s)
  BY <1>3, SelectServiceKeeps, ProfessionalsArriveKeeps
<1>4. CASE RetryProfessionals
  BY <1>4, RetryProfessionalsKeeps
<1>5. CASE \E e \in Experts : SelectProfessional(e)
  BY <1>5, SelectProfessionalKeeps
<1>6. CASE \E d \in Dates : SelectDate(d)
  BY <1>6, SelectDateKeeps
<1>7. CASE RetrySlots \/ \E c \in calls : SlotsArrive(c)
  BY <1>7, RetrySlotsKeeps, SlotsArriveKeeps
<1>8. CASE SelectSlot \/ JoinWaitlist
  BY <1>8, SelectSlotKeeps, JoinWaitlistKeeps
<1>9. CASE Confirm \/ ServerBooks \/ Receive \/ AnswerLost
  BY <1>9, ConfirmKeeps, ServerBooksKeeps, ReceiveKeeps, AnswerLostKeeps
<1>10. CASE \E e \in Experts, d \in Dates : SlotTaken(e, d)
  BY <1>10, SlotTakenKeeps
<1> QED BY <1>1, <1>2, <1>3, <1>4, <1>5, <1>6, <1>7, <1>8, <1>9, <1>10, Zenon DEF Next

\* The invariant is all that the properties of the wizard say.
LEMMA WizardHolds ==
    ASSUME WInv PROVE TypeOK /\ SentIsOffered /\ BooksTwiceOnlyIfUnheard
<1>1. TypeOK
  BY DEF WInv
<1>2. SentIsOffered
  BY DEF WInv, TypeOK, Matched, OnItsWay, Fits, Chosen, SentIsOffered
<1>3. BooksTwiceOnlyIfUnheard
  <2>1. ASSUME ~unheard PROVE ~(Cardinality(mine) > 1)
    <3>1. CASE mine = {}
      BY <3>1, FS_EmptySet
    <3>2. CASE mine # {}
      <4>1. PICK x \in mine : mine = {x}
        BY <2>1, <3>2 DEF WInv, Heard
      <4> QED BY <4>1, FS_Singleton
    <3> QED BY <3>1, <3>2
  <2> QED BY <2>1 DEF WInv, Heard, BooksTwiceOnlyIfUnheard
<1> QED BY <1>1, <1>2, <1>3
=============================================================================
