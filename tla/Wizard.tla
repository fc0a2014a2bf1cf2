------------------------------- MODULE Wizard -------------------------------
(***************************************************************************)
(* The four steps in which a client books on a salon's page                *)
(* (BookingWizard.tsx and its steps), with the answers of the server that  *)
(* arrive late, out of order or never.                                     *)
(*                                                                         *)
(* Each professional has one time to offer on each day, so a slot is a     *)
(* professional and a day; an answer of the availability route is the slot *)
(* or nothing.                                                             *)
(***************************************************************************)
EXTENDS Naturals, FiniteSets

CONSTANTS
    Services, Experts, Dates,
    Serves,                 \* the pairs of an expert and a service it gives
    MaxCalls,               \* availability requests in flight (a bound)
    MaxEntries,             \* entries the client leaves in the waiting list (a bound)
    MaxTaken,               \* slots that others take (a bound)
    Today,                  \* the day first selected
    Nobody, Nothing, NoKey

Keys == [expert : Experts, service : Services, day : Dates]
Posts == [expert : Experts, service : Services, slot : Keys, at : {"sent", "booked", "refused"}]

\* Assumed of the constants by whoever instantiates the module.
WizardAssumption ==
    /\ Serves \subseteq Experts \X Services /\ Today \in Dates
    /\ MaxCalls \in Nat \ {0} /\ {MaxEntries, MaxTaken} \subseteq Nat
    /\ Nobody \notin Experts /\ Nothing \notin Services /\ NoKey \notin Keys \cup Posts

VARIABLES
    step, timer,            \* the step shown, and the one a pending advance will show (0: none)
    service, expert, day,   \* what is selected
    slot,                   \* the selected slot, as the request whose answer offered it
    crew,                   \* what step 2 shows: the professionals, a failure, or nothing yet
    crewCalls,              \* services whose professionals were asked for and not answered
    offer,                  \* what step 3 shows: an answer, a failure, or nothing yet
    calls,                  \* availability requests in flight; latest: slotsRequestRef is theirs
    sending, told, booked,  \* submitting, submitError, and the slot of the booking confirmed
    post,                   \* the booking request, NoKey for none
    taken, entries,         \* the server: slots that are taken, entries of the waiting list
    mine, unheard           \* history: slots the server booked; an answer of its was lost

wizardVars == <<step, timer, service, expert, day, slot, crew, crewCalls, offer, calls, sending, told, booked, post, taken, entries, mine, unheard>>

Given(x) == [is |-> "given", of |-> x]
Failed == [is |-> "failed", of |-> {}]
Loading == [is |-> "loading", of |-> {}]
Crew(s) == {e \in Experts : <<e, s>> \in Serves}

\* A choice moves nothing of the booking itself; none is made after a second booking (a bound).
Choosing ==
    /\ Cardinality(mine) < 2
    /\ UNCHANGED <<sending, told, booked, post, taken, entries, mine, unheard>>

Init ==
    /\ step = 1 /\ timer = 0
    /\ service = Nothing /\ expert = Nobody /\ day = Today /\ slot = NoKey
    /\ crew = Loading /\ crewCalls = {}
    /\ offer = Loading /\ calls = {}
    /\ sending = FALSE /\ told = FALSE /\ booked = NoKey /\ post = NoKey
    /\ taken = {} /\ entries = 0 /\ mine = {} /\ unheard = FALSE

-----------------------------------------------------------------------------
(* Moving between the steps *)

\* The pending advance, 420 ms after a choice.
Advance ==
    /\ timer # 0 /\ booked = NoKey
    /\ step' = timer /\ timer' = 0
    /\ UNCHANGED <<service, expert, day, slot, crew, crewCalls, offer, calls>>
    /\ Choosing

\* The button back and the indicator, where only the steps behind can be clicked.
Jump(to) ==
    /\ to < step /\ booked = NoKey
    /\ step' = to /\ timer' = 0
    /\ UNCHANGED <<service, expert, day, slot, crew, crewCalls, offer, calls>>
    /\ Choosing

Continue ==
    /\ step = 3 /\ slot # NoKey /\ booked = NoKey
    /\ step' = 4
    /\ UNCHANGED <<timer, service, expert, day, slot, crew, crewCalls, offer, calls>>
    /\ Choosing

-----------------------------------------------------------------------------
(* Step 1 and 2: the service, and who gives it *)

LoadProfessionals(s) ==
    /\ crew' = Loading /\ crewCalls' = crewCalls \cup {s}

SelectService(s) ==
    /\ step = 1 /\ booked = NoKey
    /\ service' = s /\ expert' = Nobody /\ timer' = 2
    /\ LoadProfessionals(s)
    /\ UNCHANGED <<step, day, slot, offer, calls>>
    /\ Choosing

RetryProfessionals ==
    /\ step = 2 /\ crew = Failed /\ service # Nothing
    /\ LoadProfessionals(service)
    /\ UNCHANGED <<step, timer, service, expert, day, slot, offer, calls>>
    /\ Choosing

\* Nothing tells an answer for the service chosen before from the one for this service.
ProfessionalsArrive(s) ==
    /\ s \in crewCalls
    /\ crewCalls' = crewCalls \ {s}
    /\ crew' \in IF crew = Failed THEN {Failed} ELSE {Given(Crew(s)), Failed}
    /\ UNCHANGED <<step, timer, service, expert, day, slot, offer, calls>>
    /\ Choosing

-----------------------------------------------------------------------------
(* Step 3: the day and the slot *)

\* loadSlots: the requests before this one are not the latest any more.
LoadSlots(key) ==
    /\ Cardinality(calls) < MaxCalls
    /\ offer' = Loading
    /\ calls' = {[c EXCEPT !.latest = FALSE] : c \in calls} \cup {[key |-> key, latest |-> TRUE]}

SelectProfessional(e) ==
    /\ step = 2 /\ crew.is = "given" /\ e \in crew.of /\ booked = NoKey
    /\ expert' = e /\ slot' = NoKey /\ timer' = 3
    /\ IF service = Nothing THEN UNCHANGED <<calls, offer>>
       ELSE LoadSlots([expert |-> e, service |-> service, day |-> day])
    /\ UNCHANGED <<step, service, day, crew, crewCalls>>
    /\ Choosing

SelectDate(d) ==
    /\ step = 3 /\ booked = NoKey
    /\ day' = d /\ slot' = NoKey
    /\ LoadSlots([expert |-> expert, service |-> service, day |-> d])
    /\ UNCHANGED <<step, timer, service, expert, crew, crewCalls>>
    /\ Choosing

RetrySlots ==
    /\ step = 3 /\ offer = Failed /\ booked = NoKey
    /\ LoadSlots([expert |-> expert, service |-> service, day |-> day])
    /\ UNCHANGED <<step, timer, service, expert, day, slot, crew, crewCalls>>
    /\ Choosing

\* What the availability route says of a key: its slot or nothing, and a failure when the
\* professional does not give the service.
Gives(key) == <<key.expert, key.service>> \in Serves
Answer(key) == IF Gives(key) THEN Given([key |-> key, free |-> <<key.expert, key.day>> \notin taken]) ELSE Failed

\* Variant: whatever request it answers.
SlotsArriveWhenever(c) ==
    /\ c \in calls
    /\ calls' = calls \ {c}
    /\ offer' \in {Answer(c.key), Failed}
    /\ UNCHANGED <<step, timer, service, expert, day, slot, crew, crewCalls>>
    /\ Choosing

\* An answer, or a failure, of a request that is not the latest is dropped.
SlotsArrive(c) ==
    /\ c \in calls
    /\ calls' = calls \ {c}
    /\ offer' \in IF c.latest THEN {Answer(c.key), Failed} ELSE {offer}
    /\ UNCHANGED <<step, timer, service, expert, day, slot, crew, crewCalls>>
    /\ Choosing

SlotsShown == step = 3 /\ offer.is = "given"

SelectSlot ==
    /\ SlotsShown /\ offer.of.free /\ booked = NoKey
    /\ slot' = offer.of.key
    /\ UNCHANGED <<step, timer, service, expert, day, crew, crewCalls, offer, calls>>
    /\ Choosing

\* The waiting list's form is there while the day shown has no slot, also after it was answered.
JoinWaitlist ==
    /\ SlotsShown /\ ~offer.of.free /\ entries < MaxEntries /\ booked = NoKey
    /\ entries' = entries + 1
    /\ UNCHANGED <<step, timer, service, expert, day, slot, crew, crewCalls, offer, calls, sending, told, booked, post, taken, mine, unheard>>

-----------------------------------------------------------------------------
(* Step 4: the booking *)

\* Variant: the button stays enabled.
ConfirmWhileSending ==
    /\ step = 4 /\ service # Nothing /\ expert # Nobody /\ slot # NoKey /\ booked = NoKey
    /\ post # NoKey => post.at # "sent"
    /\ sending' = TRUE /\ told' = FALSE
    /\ post' = [expert |-> expert, service |-> service, slot |-> slot, at |-> "sent"]
    /\ UNCHANGED <<step, timer, service, expert, day, slot, crew, crewCalls, offer, calls, booked, taken, entries, mine, unheard>>

Confirm ==
    /\ step = 4 /\ service # Nothing /\ expert # Nobody /\ slot # NoKey /\ booked = NoKey
    /\ ~sending
    /\ sending' = TRUE /\ told' = FALSE
    /\ post' = [expert |-> expert, service |-> service, slot |-> slot, at |-> "sent"]
    /\ UNCHANGED <<step, timer, service, expert, day, slot, crew, crewCalls, offer, calls, booked, taken, entries, mine, unheard>>

Screen == <<step, timer, service, expert, day, slot, crew, crewCalls, offer, calls>>

\* The server takes the booking if its professional gives the service and the slot is free.
ServerBooks ==
    /\ post # NoKey /\ post.at = "sent"
    /\ LET at == <<post.expert, post.slot.day>>
           fits == <<post.expert, post.service>> \in Serves /\ at \notin taken
       IN  /\ post' = [post EXCEPT !.at = IF fits THEN "booked" ELSE "refused"]
           /\ taken' = IF fits THEN taken \cup {at} ELSE taken
           /\ mine' = IF fits THEN mine \cup {at} ELSE mine
    /\ UNCHANGED <<Screen, sending, told, booked, entries, unheard>>

\* The answer arrives: the confirmation replaces the wizard, or the error is shown.
Receive ==
    /\ post # NoKey /\ post.at \in {"booked", "refused"}
    /\ sending' = FALSE /\ post' = NoKey
    /\ IF post.at = "booked" THEN booked' = post.slot /\ UNCHANGED told
       ELSE told' = TRUE /\ UNCHANGED booked
    /\ UNCHANGED <<Screen, taken, entries, mine, unheard>>

\* The server's answer, or the request, is lost on the way: the client is told it did not work.
AnswerLost ==
    /\ post # NoKey
    /\ sending' = FALSE /\ post' = NoKey /\ told' = TRUE
    /\ unheard' = (unheard \/ post.at = "booked")
    /\ UNCHANGED <<Screen, booked, taken, entries, mine>>

\* Somebody else takes a slot.
SlotTaken(e, d) ==
    /\ Cardinality(taken \ mine) < MaxTaken
    /\ taken' = taken \cup {<<e, d>>}
    /\ UNCHANGED <<Screen, sending, told, booked, post, entries, mine, unheard>>

Next ==
    \/ Advance \/ Continue \/ \E to \in 1..3 : Jump(to)
    \/ \E s \in Services : SelectService(s) \/ ProfessionalsArrive(s)
    \/ RetryProfessionals
    \/ \E e \in Experts : SelectProfessional(e)
    \/ \E d \in Dates : SelectDate(d)
    \/ RetrySlots \/ \E c \in calls : SlotsArrive(c)
    \/ SelectSlot \/ JoinWaitlist
    \/ Confirm \/ ServerBooks \/ Receive \/ AnswerLost
    \/ \E e \in Experts, d \in Dates : SlotTaken(e, d)

Spec == Init /\ [][Next]_wizardVars

-----------------------------------------------------------------------------
TypeOK ==
    /\ step \in 1..4 /\ timer \in {0, 2, 3}
    /\ service \in Services \cup {Nothing} /\ expert \in Experts \cup {Nobody} /\ day \in Dates
    /\ slot \in Keys \cup {NoKey} /\ crewCalls \subseteq Services
    /\ {crew.is, offer.is} \subseteq {"given", "failed", "loading"}
    /\ crew.of \subseteq Experts
    /\ offer.is = "given" => offer.of \in [key : Keys, free : BOOLEAN]
    /\ calls \subseteq [key : Keys, latest : BOOLEAN]
    /\ post \in Posts \cup {NoKey} /\ entries \in 0..MaxEntries
    /\ mine \subseteq taken

\* Whatever the order the answers arrive in, the booking sent is for a slot that was offered for the
\* very professional, service and day on the screen, by a professional who gives the service; and at
\* the last step the slot on the screen is of the day, the professional and the service chosen.
SentIsOffered ==
    /\ post # NoKey => /\ post.slot.expert = post.expert /\ post.slot.service = post.service
                       /\ Gives(post.slot)
    /\ step = 4 => slot = [expert |-> expert, service |-> service, day |-> day]

\* The client ends up with two bookings, or with one where an error is what was last said, only if an
\* answer that said booked was lost on the way back.
BooksTwiceOnlyIfUnheard ==
    Cardinality(mine) > 1 \/ (mine # {} /\ told) => unheard
=============================================================================
