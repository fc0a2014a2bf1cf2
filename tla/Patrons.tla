------------------------------ MODULE Patrons -------------------------------
(***************************************************************************)
(* Clients of one salon, kept by its staff under a phone number            *)
(* (clients.service.ts), and the people with an account of their own       *)
(* (Consumer), linked to a client when they first book or register         *)
(* (ensureLink, backfillCrossTenantLinks), with what they then see: their  *)
(* bookings, and the visits they may review.                               *)
(*                                                                         *)
(* Bookings and registrations are transactions that lock the client's row; *)
(* joining the waitlist writes client, link and entry one by one.          *)
(***************************************************************************)
EXTENDS Integers, FiniteSets

CONSTANTS
    Consumers, Phones,
    ClientIds, Bookings,
    NoClient, NoConsumer

\* Assumed of the constants by whoever instantiates the module.
PatronsAssumption ==
    /\ Consumers \subseteq Phones /\ NoConsumer \notin Consumers
    /\ NoClient \notin ClientIds \cup Phones

VARIABLES
    phone,      \* phone[k]: of a client of the salon, NoClient before it is created
    account,    \* account[c]: none, or registered (a consumer is named by its phone)
    link,       \* link[c]: the ConsumerTenantLink, the client c is taken for
    booking,    \* booking[b]: its client, who made it, its status and its review
    joining,    \* joining[c]: c's way into the waitlist
    renumbered  \* history: clients whose phone the staff changed

patronVars == <<phone, account, link, booking, joining, renumbered>>

NoBooking == [client |-> NoClient, by |-> NoConsumer, status |-> "none",
              review |-> "none", reviewer |-> NoConsumer]

TypeOK ==
    /\ phone \in [ClientIds -> Phones \cup {NoClient}]
    /\ \A k, l \in ClientIds : k # l /\ phone[k] # NoClient => phone[k] # phone[l]
    /\ account \in [Consumers -> {"none", "registered"}]
    /\ link \in [Consumers -> ClientIds \cup {NoClient}]
    /\ \A c, d \in Consumers : c # d /\ link[c] # NoClient => link[c] # link[d]
    /\ \A b \in Bookings : /\ booking[b].client \in ClientIds \cup {NoClient}
                           /\ booking[b].review # "none" =>
                                  booking[b].reviewer \in {c \in Consumers : account[c] = "registered"}

-----------------------------------------------------------------------------
(* Clients *)

WithPhone(p) == {k \in ClientIds : phone[k] = p}
Fresh == {k \in ClientIds : phone[k] = NoClient}

\* upsert by phone: the client there is, or a new one (update: only a name).
Upserted(p) == IF WithPhone(p) # {} THEN WithPhone(p) ELSE Fresh

\* create, and update of a phone: refused when another client has it, by the unique index at last.
CreateClient(k, p) ==
    /\ k \in Fresh /\ WithPhone(p) = {}
    /\ phone' = [phone EXCEPT ![k] = p]
    /\ UNCHANGED <<account, link, booking, joining, renumbered>>

\* The link of whoever had the phone stays on this client.
UpdatePhone(k, p) ==
    /\ k \notin Fresh /\ WithPhone(p) = {}
    /\ phone' = [phone EXCEPT ![k] = p]
    /\ renumbered' = renumbered \cup {k}
    /\ UNCHANGED <<account, link, booking, joining>>

-----------------------------------------------------------------------------
(* Links *)

\* A link made only along with its client, as it would be by a create nested in the upsert.
LinkedIfNew(c, k) == IF k \in Fresh /\ link[c] = NoClient THEN [link EXCEPT ![c] = k] ELSE link
\* The upsert's update is empty: a consumer linked once stays linked to that client.
Linked(c, k) == IF link[c] = NoClient THEN [link EXCEPT ![c] = k] ELSE link

\* The index, were it on client and consumer together.
LinkFitsAny(c, k) == TRUE
\* clientId is unique: a client is linked to one consumer, and a second link fails.
LinkFits(c, k) == link[c] # NoClient \/ \A d \in Consumers \ {c} : link[d] # k

\* register takes the account of its phone, and links it to the salon's client with that phone.
Register(c) ==
    /\ account[c] = "none"
    /\ account' = [account EXCEPT ![c] = "registered"]
    /\ IF WithPhone(c) = {} THEN link' = link
       ELSE \E k \in WithPhone(c) : LinkFits(c, k) /\ link' = Linked(c, k)
    /\ UNCHANGED <<phone, booking, joining, renumbered>>

\* The account, its link and its reviews go, and a link on its way fails; the clients stay.
DeleteAccount(c) ==
    /\ account[c] = "registered"
    /\ account' = [account EXCEPT ![c] = "none"]
    /\ link' = [link EXCEPT ![c] = NoClient]
    /\ joining' = [joining EXCEPT ![c] = NoClient]
    /\ booking' = [b \in Bookings |->
           [booking[b] EXCEPT !.by = IF @ = c THEN NoConsumer ELSE @,
                              !.review = IF booking[b].reviewer = c THEN "none" ELSE @,
                              !.reviewer = IF @ = c THEN NoConsumer ELSE @]]
    /\ UNCHANGED <<phone, renumbered>>

-----------------------------------------------------------------------------
(* Bookings and the waitlist *)

\* createFromPublicLink: ensureLink in the transaction of the appointment.
Book(c, b, k) ==
    /\ account[c] = "registered" /\ booking[b] = NoBooking
    /\ k \in Upserted(c) /\ LinkFits(c, k)
    /\ phone' = [phone EXCEPT ![k] = c]
    /\ link' = Linked(c, k)
    /\ booking' = [booking EXCEPT ![b] = [NoBooking EXCEPT !.client = k, !.by = c, !.status = "CONFIRMED"]]
    /\ UNCHANGED <<account, joining, renumbered>>

\* A booking made by the staff: a client by its phone (upsertForBooking), and no link.
BookByStaff(b, p, k) ==
    /\ booking[b] = NoBooking /\ k \in Upserted(p)
    /\ phone' = [phone EXCEPT ![k] = p]
    /\ booking' = [booking EXCEPT ![b] = [NoBooking EXCEPT !.client = k, !.status = "CONFIRMED"]]
    /\ UNCHANGED <<account, link, joining, renumbered>>

\* The waitlist writes the client first, then the link.
JoinWaitlist(c, k) ==
    /\ account[c] = "registered" /\ joining[c] = NoClient
    /\ k \in Upserted(c)
    /\ phone' = [phone EXCEPT ![k] = c]
    /\ joining' = [joining EXCEPT ![c] = k]
    /\ UNCHANGED <<account, link, booking, renumbered>>

JoinLink(c) ==
    /\ joining[c] # NoClient
    /\ link' = IF LinkFits(c, joining[c]) THEN Linked(c, joining[c]) ELSE link
    /\ joining' = [joining EXCEPT ![c] = NoClient]
    /\ UNCHANGED <<phone, account, booking, renumbered>>

JoinFails(c) ==
    /\ joining[c] # NoClient
    /\ joining' = [joining EXCEPT ![c] = NoClient]
    /\ UNCHANGED <<phone, account, link, booking, renumbered>>

\* findAllForConsumer, and findOwnedByConsumer before a cancellation: by the client of the link.
Listed(c) == {b \in Bookings : booking[b] # NoBooking /\ booking[b].client = link[c]}

CancelForConsumer(c, b) ==
    /\ account[c] = "registered" /\ b \in Listed(c) /\ booking[b].status = "CONFIRMED"
    /\ booking' = [booking EXCEPT ![b].status = "CANCELED"]
    /\ UNCHANGED <<phone, account, link, joining, renumbered>>

Complete(b) ==
    /\ booking[b].status = "CONFIRMED"
    /\ booking' = [booking EXCEPT ![b].status = "COMPLETED"]
    /\ UNCHANGED <<phone, account, link, joining, renumbered>>

\* A review, by whoever the booking's client is linked to; the unique index allows one.
Review(c, b) ==
    /\ account[c] = "registered" /\ b \in Listed(c)
    /\ booking[b].status = "COMPLETED" /\ booking[b].review = "none"
    /\ booking' = [booking EXCEPT ![b].review = "VISIBLE", ![b].reviewer = c]
    /\ UNCHANGED <<phone, account, link, joining, renumbered>>

\* report and hide: from any state.
Moderate(b, status) ==
    /\ booking[b].review # "none"
    /\ booking' = [booking EXCEPT ![b].review = status]
    /\ UNCHANGED <<phone, account, link, joining, renumbered>>

-----------------------------------------------------------------------------

Init ==
    /\ phone = [k \in ClientIds |-> NoClient]
    /\ account = [c \in Consumers |-> "none"]
    /\ link = [c \in Consumers |-> NoClient]
    /\ booking = [b \in Bookings |-> NoBooking]
    /\ joining = [c \in Consumers |-> NoClient]
    /\ renumbered = {}

Next ==
    \/ \E k \in ClientIds, p \in Phones : CreateClient(k, p) \/ UpdatePhone(k, p)
    \/ \E c \in Consumers :
         \/ Register(c) \/ DeleteAccount(c) \/ JoinLink(c) \/ JoinFails(c)
         \/ \E k \in ClientIds : JoinWaitlist(c, k)
         \/ \E b \in Bookings :
              CancelForConsumer(c, b) \/ Review(c, b) \/ \E k \in ClientIds : Book(c, b, k)
    \/ \E b \in Bookings :
         \/ Complete(b)
         \/ \E p \in Phones, k \in ClientIds : BookByStaff(b, p, k)
         \/ \E status \in {"PENDING_REPORT", "HIDDEN"} : Moderate(b, status)

Spec == Init /\ [][Next]_patronVars

-----------------------------------------------------------------------------
(* Properties *)

\* A consumer sees every booking made from the account, whichever way its link came about (by a
\* booking, a waitlist, a registration over a staff's client), unless the staff changed the phone
\* of the client involved.
BookedIsListedUnlessRenumbered ==
    \A c \in Consumers, b \in Bookings :
        booking[b].by = c /\ b \notin Listed(c) => {link[c], booking[b].client} \cap renumbered # {}
=============================================================================
