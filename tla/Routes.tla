------------------------------- MODULE Routes -------------------------------
(***************************************************************************)
(* The routes of the API: who may call each one, whether it is refused to  *)
(* a salon whose plan has lapsed, and what it does to the row it is about. *)
(* One definition per controller, one field per route.                     *)
(***************************************************************************)
EXTENDS Rows

\* The fields of two tables, which have none in common.
f ++ g == [x \in DOMAIN f \cup DOMAIN g |-> IF x \in DOMAIN f THEN f[x] ELSE g[x]]

Staff == {"OWNER", "RECEPTIONIST", "PROFESSIONAL"}
Desk == {"OWNER", "RECEPTIONIST"}
Owner == {"OWNER"}
Consumer == {"CONSUMER"}
Platform == {"PLATFORM"}
Roles == Staff \cup Consumer \cup Platform \cup {"VISITOR"}

\* A route that changes a row, and one that only reads.
Route(for, moves) == [for |-> for, moves |-> moves, paid |-> TRUE, own |-> FALSE]
Get(for) == Route(for, {})
\* Answered whatever the salon's plan; and, to a professional, only about himself.
Free(route) == [route EXCEPT !.paid = FALSE]
Own(route) == [route EXCEPT !.own = TRUE]

\* JwtAuthGuard, RolesGuard and TenantBillingGuard in this order, then the controller's own check.
Allows(route, role, mine, lapsed) ==
    /\ role \in route.for
    /\ route.paid => ~lapsed
    /\ route.own /\ role = "PROFESSIONAL" => mine

-----------------------------------------------------------------------------
(* A salon's staff *)

Appointments ==
    LET R(moves) == Route(Staff, moves)   M == AppointmentMoves
    IN  [list |-> Get(Staff), calendar |-> Get(Staff), create |-> R(M.create),
         status |-> [to \in {"confirm", "start", "complete", "noShow"} |-> R(M[to])],
         cancel |-> R(M.cancel), reschedule |-> R(M.reschedule)]

TimeBlocks ==
    [list |-> Own(Get(Staff)), create |-> Own(Route(Staff, BlockMoves.create)),
     remove |-> Own(Route(Staff, BlockMoves.remove))]

Tickets ==
    [list |-> Get(Desk), get |-> Get(Desk)]
    ++ [move \in DOMAIN TicketMoves |-> Route(Desk, TicketMoves[move])]
    ++ [openFor |-> Route(Desk, AppointmentMoves.openTicket)]

CashRegister == [get |-> Get(Desk)] ++ [move \in DOMAIN RegisterMoves |-> Route(Desk, RegisterMoves[move])]

Clients ==
    [list |-> Get(Desk), get |-> Get(Desk), create |-> Route(Desk, ClientMoves.create),
     update |-> Route(Desk, ClientMoves.update)]

Commissions ==
    [rules |-> Get(Owner), report |-> Get(Staff), earnings |-> Get(Staff)]
    ++ [move \in DOMAIN RuleMoves |-> Route(Owner, RuleMoves[move])]

Finance ==
    [overview |-> Get(Desk), categories |-> Get(Desk), entries |-> Get(Desk),
     create |-> Route(Desk, EntryMoves.create), settle |-> Route(Desk, EntryMoves.settle),
     cancel |-> Route(Desk, EntryMoves.cancel), payout |-> Route(Owner, PayoutMoves.pay),
     payouts |-> Get(Owner), cashFlow |-> Get(Desk), dre |-> Get(Owner),
     payables |-> Get(Desk), receivables |-> Get(Desk)]

Intake ==
    [forms |-> Get(Staff), create |-> Route(Owner, FormMoves.create),
     update |-> Route(Owner, FormMoves.update), submit |-> Route(Staff, AnswerMoves.submit)]

Products ==
    [list |-> Get(Desk), create |-> Route(Owner, ProductMoves.create),
     update |-> Route(Owner, ProductMoves.update), stock |-> Route(Desk, ProductMoves.stock)]

Professionals ==
    LET M == ProfessionalMoves   Self == {"OWNER", "PROFESSIONAL"}
    IN  [list |-> Get(Staff), get |-> Own(Get(Staff)), create |-> Route(Owner, M.create),
         activate |-> Route(Owner, M.activate), deactivate |-> Route(Owner, M.deactivate),
         edit |-> Route(Owner, M.edit), hours |-> Own(Route(Staff, M.hours)),
         upload |-> Own(Route(Self, PictureMoves.upload)),
         unload |-> Own(Route(Self, PictureMoves.remove))]

Services ==
    [list |-> Get(Staff), create |-> Route(Owner, ServiceMoves.create),
     update |-> Route(Owner, ServiceMoves.update),
     links |-> Own(Get(Staff)), link |-> Route(Owner, LinkMoves.link)]

Reports == [general |-> Get(Desk), clientMonthly |-> Get(Desk)]

Waitlist ==
    [list |-> Get(Owner), contact |-> Route(Owner, WaitlistMoves.contact),
     resolve |-> Route(Owner, WaitlistMoves.resolve),
     join |-> Route(Consumer, WaitlistMoves.join)]

Reviews ==
    [list |-> Get(Owner), hide |-> Route(Owner, ReviewMoves.hide), report |-> Route(Owner, ReviewMoves.report),
     pending |-> Free(Get(Consumer)), create |-> Free(Route(Consumer, VisitMoves.review))]

Tenants ==
    [me |-> Free(Get(Staff)), profile |-> Free(Route(Owner, SalonMoves.profile)),
     marketplace |-> Free(Get(Staff)), listing |-> Free(Route(Owner, SalonMoves.listing)),
     logo |-> Free(Route(Owner, PictureMoves.upload)), unlogo |-> Free(Route(Owner, PictureMoves.remove)),
     add |-> Free(Route(Owner, GalleryMoves.add)), remove |-> Free(Route(Owner, GalleryMoves.remove)),
     public |-> Free(Get(Roles))]

Billing == [status |-> Free(Get(Staff)), plans |-> Free(Get(Roles))]

-----------------------------------------------------------------------------
(* The clients and the platform *)

ConsumerAccount ==
    [me |-> Free(Get(Consumer)), establishments |-> Free(Get(Consumer)),
     sessions |-> Free(Get(Consumer)), bookings |-> Free(Get(Consumer)),
     update |-> Free(Route(Consumer, ProfileMoves.update)),
     password |-> Free(Route(Consumer, ProfileMoves.password)),
     end |-> Free(Route(Consumer, SessionMoves.end)),
     endOthers |-> Free(Route(Consumer, SessionMoves.end))]

ConsumerBookings ==
    [cancel |-> Free(Route(Consumer, VisitMoves.cancel)),
     reschedule |-> Free(Route(Consumer, VisitMoves.reschedule))]

PlatformAdmin ==
    LET G == Free(Get(Platform))
    IN  [me |-> G, overview |-> G, tenants |-> G, tenant |-> G, users |-> G,
         subscriptions |-> G, coupons |-> G, audit |-> G,
         createCoupon |-> Free(Route(Platform, CouponMoves.create)),
         updateCoupon |-> Free(Route(Platform, CouponMoves.update))]
        ++ [move \in DOMAIN TenantMoves \ {"subscribe"} |-> Free(Route(Platform, TenantMoves[move]))]
=============================================================================
