-------------------------------- MODULE Rows --------------------------------
(***************************************************************************)
(* The life of the row a request of the API is about: for each operation   *)
(* of the backend's services, the states it takes the row from and to,     *)
(* once the caller is allowed to ask.  An operation refuses a row it has   *)
(* no move from.                                                           *)
(*                                                                         *)
(* The input typed by the user is a valid one: a phone that is a phone, an *)
(* amount the ticket owes, a file that is an image.  What the services do  *)
(* when several requests interleave is in the other modules.               *)
(***************************************************************************)


\* A row: its state, and one fact that holds or not (which, each group below says).
Row(is, tied) == [is |-> is, tied |-> tied]
Plain(is) == Row(is, FALSE)

\* Every move from a state of the first set to a state of the second.
To(froms, tos) == {<<Plain(f), Plain(t)>> : f \in froms, t \in tos}
Stay(states) == UNION {To({s}, {s}) : s \in states}
\* The same whether the fact holds or not; once it does; and those that make it so, or undo it.
Tied(moves) == {<<Row(m[1].is, TRUE), Row(m[2].is, TRUE)>> : m \in moves}
Both(moves) == moves \cup Tied(moves)
Ties(states) == {<<Row(s, FALSE), Row(s, TRUE)>> : s \in states}
Frees(states) == {<<Row(s, TRUE), Row(s, FALSE)>> : s \in states}

-----------------------------------------------------------------------------
(* The agenda; tied: the appointment has a ticket *)

Appointed == {"SCHEDULED", "CONFIRMED", "IN_SERVICE", "COMPLETED", "NO_SHOW", "CANCELED"}

AppointmentMoves ==
    [create |-> To({"NONE"}, {"SCHEDULED", "CONFIRMED"}),
     confirm |-> Both(To({"SCHEDULED", "IN_SERVICE", "NO_SHOW"}, {"CONFIRMED"})),
     start |-> Both(To({"CONFIRMED"}, {"IN_SERVICE"})),
     complete |-> Both(To({"CONFIRMED", "IN_SERVICE"}, {"COMPLETED"})),
     noShow |-> Both(To({"SCHEDULED", "CONFIRMED"}, {"NO_SHOW"})),
     cancel |-> Both(To(Appointed \ {"COMPLETED", "CANCELED"}, {"CANCELED"})),
     reschedule |-> Both(Stay({"SCHEDULED", "CONFIRMED"})),
     openTicket |-> Ties(Appointed)]

\* A client's own appointment; tied: it was reviewed.
VisitMoves ==
    [book |-> To({"NONE"}, {"CONFIRMED"}),
     attend |-> To({"SCHEDULED"}, {"CONFIRMED"}) \cup To({"CONFIRMED"}, {"COMPLETED"}),
     cancel |-> To({"SCHEDULED", "CONFIRMED"}, {"CANCELED"}),
     reschedule |-> Stay({"SCHEDULED", "CONFIRMED"}),
     review |-> Ties({"COMPLETED"})]

BlockMoves == [create |-> To({"NONE"}, {"SET"}), remove |-> To({"SET"}, {"NONE"})]

WaitlistMoves ==
    LET Waiting == {"PENDING", "CONTACTED", "RESOLVED", "CANCELED"}
    IN  [join |-> To({"NONE"}, {"PENDING"}),
         contact |-> To(Waiting, {"CONTACTED"}), resolve |-> To(Waiting, {"RESOLVED"})]

-----------------------------------------------------------------------------
(* The till; tied: the ticket was opened from an appointment *)

\* OPEN, told apart by what is in it and what was paid: nothing at all; items nothing of which is
\* paid; a discount over all of it; a part paid; all of it paid; payments whose items were removed.
OpenTicket == {"EMPTY", "DUE", "FREE", "PART", "SETTLED", "ORPHAN"}

TicketMoves ==
    [open |-> Both(To({"NONE"}, {"EMPTY"})),
     addItem |-> Both(To({"EMPTY", "FREE"}, {"DUE", "FREE"}) \cup Stay({"DUE", "PART"})
                 \cup To({"SETTLED", "ORPHAN"}, {"PART", "SETTLED"})),
     removeItem |-> Both(To({"DUE", "FREE"}, {"DUE", "FREE", "EMPTY"})
                    \cup To({"PART", "SETTLED"}, {"PART", "SETTLED", "ORPHAN"})),
     setClient |-> Stay(OpenTicket),
     setDiscount |-> Both(Stay({"EMPTY", "ORPHAN"}) \cup To({"DUE", "FREE"}, {"DUE", "FREE"})
                     \cup To({"PART", "SETTLED"}, {"PART", "SETTLED"})),
     addPayment |-> Both(To({"DUE", "PART"}, {"PART", "SETTLED"})),
     close |-> Both(To({"FREE", "SETTLED"}, {"CLOSED"})),
     cancel |-> Both(To({"EMPTY", "DUE", "FREE"}, {"CANCELED"}))]

RegisterMoves ==
    [open |-> To({"CLOSED"}, {"OPEN"}),
     move |-> Stay({"OPEN"}),
     close |-> To({"OPEN"}, {"CLOSED"})]

\* tied: the entry was made by a ticket.
EntryMoves ==
    [create |-> To({"NONE"}, {"PENDING", "PAID"}),
     settle |-> Both(To({"PENDING"}, {"PAID"})),
     cancel |-> To({"PENDING", "PAID", "CANCELED"}, {"CANCELED"})]

\* What a professional has earned and was not paid.
PayoutMoves == [pay |-> To({"OWED"}, {"OWED", "PAID"})]

RuleMoves ==
    LET Rules == {"ACTIVE", "INACTIVE"}
    IN  [create |-> To({"NONE"}, {"ACTIVE"}), update |-> To(Rules, Rules),
         delete |-> To(Rules, {"NONE"})]

-----------------------------------------------------------------------------
(* The salon's catalogue and its team *)

ProductMoves ==
    LET Products == {"ACTIVE", "INACTIVE"}
    IN  [create |-> To({"NONE"}, {"ACTIVE"}), update |-> To(Products, Products),
         stock |-> Stay(Products)]

ServiceMoves ==
    LET Offered == {"ACTIVE", "INACTIVE"}
    IN  [create |-> To({"NONE"}, {"ACTIVE"}), update |-> To(Offered, Offered)]

\* A service that a professional gives or not.
LinkMoves == [link |-> To({"NONE", "ON", "OFF"}, {"ON", "OFF"})]

\* BUSY: active, with appointments ahead; tied: the plan has no room for one more professional,
\* as others fill it or make room.
ProfessionalMoves ==
    LET Crew == {"ACTIVE", "BUSY", "INACTIVE"}
    IN  [create |-> To({"NONE"}, {"ACTIVE"}),
         activate |-> To({"INACTIVE"}, {"ACTIVE", "BUSY"}) \cup Both(Stay({"ACTIVE", "BUSY"})),
         deactivate |-> Both(To({"ACTIVE", "INACTIVE"}, {"INACTIVE"})),
         edit |-> Both(Stay(Crew)), hours |-> Both(Stay(Crew)),
         fill |-> Ties(Crew \cup {"NONE"}), vacate |-> Frees(Crew \cup {"NONE"})]

\* A picture: of a professional, or the salon's logo.
PictureMoves == [upload |-> To({"NONE", "SET"}, {"SET"}), remove |-> To({"NONE", "SET"}, {"NONE"})]

\* The gallery: no picture, some, or as many as it takes.
GalleryMoves ==
    [add |-> To({"NONE", "SOME"}, {"SOME", "FULL"}),
     remove |-> To({"SOME", "FULL"}, {"SOME", "NONE"})]

\* What the salon says of itself; tied: it is listed in the marketplace.
SalonMoves == [profile |-> Both(Stay({"HERE"})), listing |-> Ties({"HERE"}) \cup Frees({"HERE"}) \cup Both(Stay({"HERE"}))]

-----------------------------------------------------------------------------
(* The salon's clients *)

ClientMoves == [create |-> To({"NONE"}, {"HERE"}), update |-> Stay({"HERE"})]

\* The models of intake forms, and a client's answer to one.
FormMoves ==
    LET Forms == {"ACTIVE", "INACTIVE"}
    IN  [create |-> To({"NONE"}, {"ACTIVE"}), update |-> To(Forms, Forms)]
AnswerMoves == [submit |-> To({"NONE", "GIVEN"}, {"GIVEN"})]

ReviewMoves ==
    LET Reviews == {"VISIBLE", "HIDDEN", "PENDING_REPORT"}
    IN  [hide |-> To(Reviews, {"HIDDEN"}), report |-> To(Reviews, {"PENDING_REPORT"})]

-----------------------------------------------------------------------------
(* What the platform and the clients keep *)

\* A salon, by its subscription: none yet, a courtesy, a paid one; tied: it is suspended.
TenantMoves ==
    LET Tenants == {"TRIAL", "COURTESY", "PAID"}
    IN  [create |-> To({"NONE"}, {"TRIAL"}),
         suspend |-> Ties(Tenants), reactivate |-> Frees(Tenants),
         extendTrial |-> Both(Stay({"TRIAL"})),
         grantCourtesy |-> Both(To({"TRIAL", "COURTESY"}, {"COURTESY"})),
         removeCourtesy |-> Both(To({"COURTESY"}, {"TRIAL"})),
         ownerPhone |-> Both(Stay(Tenants)), resetLink |-> Both(Stay(Tenants)),
         subscribe |-> To({"TRIAL", "COURTESY"}, {"PAID"})]

CouponMoves ==
    LET Coupons == {"ACTIVE", "INACTIVE"}
    IN  [create |-> To({"NONE"}, {"ACTIVE"}), update |-> To(Coupons, Coupons)]

\* A client's own account, and one of the devices it is signed in on.
ProfileMoves == [update |-> Stay({"HERE"}), password |-> Stay({"HERE"}), delete |-> To({"HERE"}, {"NONE"})]
SessionMoves == [end |-> To({"LIVE"}, {"OVER"})]
=============================================================================
