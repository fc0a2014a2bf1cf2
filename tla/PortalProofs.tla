---------------------------- MODULE PortalProofs ----------------------------
(* Proofs about what people see on the site: its pages, the wizard in      *)
(* which a client books, the agenda of the staff, the times that are       *)
(* offered, and the plan as its owner and the platform read it.  Each      *)
(* holds for any values of the constants of its part, and for any of the   *)
(* site's pages; MCPortal fixes the services and the days of its two       *)
(* wizards, and WizardProofs leaves those free as well.                    *)
EXTENDS MCPortal, FiniteSetTheorems, TLAPS

-----------------------------------------------------------------------------
(* The tables of the site: pages, buttons, routes and moves *)

\* The invariant of the site needs of the tables only what Fits says of a page.  That each page fits
\* is read off its definition: a lemma per kind of row it shows, and one for its reads.

\* What the proofs need of a table.  Of a page's reads: a role is refused one only on the pages
\* broken for it, where a loud one is, or because the plan lapsed, which the page of the plan does
\* not mind.
Opens(p) ==
    /\ \A route \in p.loud \cup p.told \cup p.quiet, r \in p.for :
          /\ r \in route.for \/ <<p.name, r>> \in BrokenFor
          /\ route.own /\ r = "PROFESSIONAL" => p.name = "profissional"
          /\ p.name = "plano" => ~route.paid
    /\ \A r \in p.for : <<p.name, r>> \in BrokenFor => \E route \in p.loud : r \notin route.for

\* The rows a set of moves starts from.
From(moves) == {m[1] : m \in moves}

\* A button offered to a role on a row is one whose route takes both.
Taken(p, held, b) ==
    /\ \A r \in p.for \cap b.for : <<p.name, r>> \notin BrokenFor =>
          /\ r \in b.action.route.for
          /\ b.action.route.own /\ r = "PROFESSIONAL" => p.name = "profissional"
    /\ b.in \cap RowsOf(held) \subseteq From(b.action.route.moves)

\* Every button leaves the one row it is shown for as it is.
Still(held) ==
    \A c \in DOMAIN held.controls :
        LET b == held.controls[c] IN
        /\ b.action.then # "reload"
        /\ \A m \in b.action.route.moves, w \in b.in \cap RowsOf(held) : m[2] = w

Heard(p, held, c, b) ==
    \/ <<p.name, c>> \in Deaf
    \/ b.told /\ (b.action.then \in {"leave", "answer", "reload", "render"} \/ Still(held))

Fit(p, held, c, b) ==
    /\ b.action.route.moves \subseteq held.moves
    /\ Heard(p, held, c, b)
    /\ <<p.name, c>> \in OfferedRegardless \/ Taken(p, held, b)

Suits(p, held) == \A c \in DOMAIN held.controls : Fit(p, held, c, held.controls[c])

Fits(p) == Opens(p) /\ \A k \in DOMAIN p.shows : Suits(p, p.shows[k])

\* A state that is never tied in these moves.
Loose(s, moves) == \A m \in moves : (m[1].is = s => ~m[1].tied) /\ (m[2].is = s => ~m[2].tied)

\* A move starts from its first row.
LEMMA Departure ==
    /\ \A M : \A m \in M : m[1] \in From(M)
    /\ \A M, v, w : <<v, w>> \in M => v \in From(M)
<1>1. \A M : \A m \in M : m[1] \in From(M)
  BY DEF From
<1>2. \A v, w : <<v, w>>[1] = v
  OBVIOUS
<1> QED BY <1>1, <1>2

\* From which rows the moves written with To, Stay, Both, Ties and Frees start ...
LEMMA Starting ==
    /\ \A F, T : \A f \in F, t \in T : Plain(f) \in From(To(F, T))
    /\ \A S : \A s \in S : Plain(s) \in From(Stay(S))
    /\ \A M : \A w \in From(M) : w \in From(Both(M)) /\ Row(w.is, TRUE) \in From(Both(M))
    /\ \A M, N : \A w \in From(M) : w \in From(M \cup N) /\ w \in From(N \cup M)
    /\ \A S : \A s \in S : Row(s, FALSE) \in From(Ties(S)) /\ Row(s, TRUE) \in From(Frees(S))
<1>1. \A F, T : \A f \in F, t \in T : Plain(f) \in From(To(F, T))
  <2> SUFFICES ASSUME NEW F, NEW T, NEW f \in F, NEW t \in T PROVE Plain(f) \in From(To(F, T))
    OBVIOUS
  <2>1. <<Plain(f), Plain(t)>> \in To(F, T)
    BY DEF To
  <2> QED BY <2>1 DEF From
<1>2. \A S : \A s \in S : Plain(s) \in From(Stay(S))
  <2> SUFFICES ASSUME NEW S, NEW s \in S PROVE Plain(s) \in From(Stay(S))
    OBVIOUS
  <2>1. <<Plain(s), Plain(s)>> \in To({s}, {s})
    BY DEF To
  <2>2. <<Plain(s), Plain(s)>> \in Stay(S)
    BY Zenon, <2>1 DEF Stay
  <2> QED BY <2>2 DEF From
<1>3. \A M : \A w \in From(M) : w \in From(Both(M)) /\ Row(w.is, TRUE) \in From(Both(M))
  <2> SUFFICES ASSUME NEW M, NEW m \in M
               PROVE  m[1] \in From(Both(M)) /\ Row(m[1].is, TRUE) \in From(Both(M))
    BY Zenon DEF From
  <2>1. m \in Both(M) /\ <<Row(m[1].is, TRUE), Row(m[2].is, TRUE)>> \in Both(M)
    BY Zenon DEF Both, Tied
  <2> QED BY Zenon, <2>1, Departure
<1>4. \A M, N : \A w \in From(M) : w \in From(M \cup N) /\ w \in From(N \cup M)
  BY DEF From
<1>5. \A S : \A s \in S : Row(s, FALSE) \in From(Ties(S)) /\ Row(s, TRUE) \in From(Frees(S))
  <2> SUFFICES ASSUME NEW S, NEW s \in S
               PROVE  Row(s, FALSE) \in From(Ties(S)) /\ Row(s, TRUE) \in From(Frees(S))
    BY Zenon
  <2>1. <<Row(s, FALSE), Row(s, TRUE)>> \in Ties(S) /\ <<Row(s, TRUE), Row(s, FALSE)>> \in Frees(S)
    BY Zenon DEF Ties, Frees
  <2> QED BY Zenon, <2>1, Departure
<1> QED BY Zenon, <1>1, <1>2, <1>3, <1>4, <1>5

\* ... and which states stay loose in them.
LEMMA Loosely ==
    ASSUME NEW s
    PROVE  /\ \A F, T : Loose(s, To(F, T))
           /\ \A S : Loose(s, Stay(S))
           /\ \A F, T : s \notin F /\ s \notin T => Loose(s, Both(To(F, T)))
           /\ \A S : s \notin S => Loose(s, Both(Stay(S)))
           /\ \A M, N : Loose(s, M) /\ Loose(s, N) => Loose(s, M \cup N)
           /\ \A S : s \notin S => Loose(s, Ties(S)) /\ Loose(s, Frees(S))
<1>1. \A F, T : Loose(s, To(F, T))
  BY DEF Loose, To, Plain, Row
<1>2. \A S : Loose(s, Stay(S))
  BY Zenon, <1>1 DEF Loose, Stay
<1>3. ASSUME NEW M, \A m \in M : m[1].is # s /\ m[2].is # s
      PROVE  Loose(s, Both(M))
  BY <1>3 DEF Loose, Both, Tied, Row
<1>4. ASSUME NEW F, NEW T, s \notin F, s \notin T PROVE Loose(s, Both(To(F, T)))
  <2>1. \A m \in To(F, T) : m[1].is # s /\ m[2].is # s
    BY <1>4 DEF To, Plain, Row
  <2> QED BY <2>1, <1>3
<1>5. ASSUME NEW S, s \notin S PROVE Loose(s, Both(Stay(S)))
  <2>1. \A m \in Stay(S) : m[1].is # s /\ m[2].is # s
    BY <1>5 DEF Stay, To, Plain, Row
  <2> QED BY <2>1, <1>3
<1>6. \A S : s \notin S => Loose(s, Ties(S)) /\ Loose(s, Frees(S))
  BY DEF Loose, Ties, Frees, Row
<1>7. \A M, N : Loose(s, M) /\ Loose(s, N) => Loose(s, M \cup N)
  BY DEF Loose
<1> QED BY <1>1, <1>2, <1>4, <1>5, <1>6, <1>7

\* The moves of a kind of row, and the states all of them leave loose.
LEMMA HeldRows ==
    ASSUME NEW moves, NEW controls
    PROVE  /\ \A m \in DOMAIN moves : moves[m] \subseteq Held(moves, controls).moves
           /\ \A s : (\A m \in DOMAIN moves : Loose(s, moves[m])) =>
                        \A w \in RowsOf(Held(moves, controls)) : w.is = s => ~w.tied
<1>1. \A m \in DOMAIN moves : moves[m] \subseteq Held(moves, controls).moves
  BY DEF Held
<1>2. ASSUME NEW s, \A m \in DOMAIN moves : Loose(s, moves[m]),
             NEW w \in RowsOf(Held(moves, controls)), w.is = s
      PROVE  ~w.tied
  <2>1. PICK x \in Held(moves, controls).moves : w \in {x[1], x[2]}
    BY DEF RowsOf
  <2>2. PICK m \in DOMAIN moves : x \in moves[m]
    BY DEF Held
  <2> QED BY <1>2, <2>1, <2>2 DEF Loose
<1> QED BY <1>1, <1>2

\* A state is left from wherever the moves are the same for both rows.
LEMMA Everywhere ==
    /\ \A M, S : (\A s \in S : Plain(s) \in From(M)) => In(S) \subseteq From(Both(M))
    /\ \A F, T, t, S : t \in T /\ S \subseteq F => In(S) \subseteq From(Both(To(F, T)))
    /\ \A F, S : S \subseteq F => In(S) \subseteq From(Both(Stay(F)))
<1>1. ASSUME NEW M, NEW S, \A s \in S : Plain(s) \in From(M)
      PROVE  In(S) \subseteq From(Both(M))
  <2> SUFFICES ASSUME NEW s \in S, NEW b \in BOOLEAN PROVE Row(s, b) \in From(Both(M))
    BY DEF In
  <2>1. Row(s, FALSE) \in From(M) /\ Row(s, FALSE).is = s
    BY <1>1 DEF Plain, Row
  <2>2. Row(s, FALSE) \in From(Both(M)) /\ Row(s, TRUE) \in From(Both(M))
    BY Zenon, <2>1, Starting
  <2> QED BY Zenon, <2>2
<1>2. ASSUME NEW F, NEW T, NEW t \in T, NEW S, S \subseteq F
      PROVE  In(S) \subseteq From(Both(To(F, T)))
  BY <1>1, <1>2, Starting
<1>3. ASSUME NEW F, NEW S, S \subseteq F PROVE In(S) \subseteq From(Both(Stay(F)))
  BY <1>1, <1>3, Starting
<1> QED BY <1>1, <1>2, <1>3

\* A button's route, what it needs, and what becomes of it.
Sends(b, moves, who, own, for, in, then, told) ==
    /\ b.action.route.moves = moves /\ b.action.route.for = who /\ (b.action.route.own <=> own)
    /\ b.action.then = then /\ b.for = for /\ b.in = in /\ (b.told <=> told)

\* The routes made of a whole table of moves.
LEMMA TicketsRoutes ==
    /\ \A m \in DOMAIN TicketMoves : Tickets[m] = Route(Desk, TicketMoves[m])
    /\ Tickets.openFor = Route(Desk, AppointmentMoves.openTicket)
    /\ DOMAIN TicketMoves = {"open", "addItem", "removeItem", "setClient", "setDiscount", "addPayment",
                             "close", "cancel"}
BY DEF Tickets, TicketMoves, ++

LEMMA CashRegisterRoutes ==
    /\ \A m \in DOMAIN RegisterMoves : CashRegister[m] = Route(Desk, RegisterMoves[m])
    /\ DOMAIN RegisterMoves = {"open", "move", "close"}
BY DEF CashRegister, RegisterMoves, ++

LEMMA CommissionsRoutes ==
    /\ \A m \in DOMAIN RuleMoves : Commissions[m] = Route(Owner, RuleMoves[m])
    /\ DOMAIN RuleMoves = {"create", "update", "delete"}
BY DEF Commissions, RuleMoves, ++

\* What Free leaves of a route.
LEMMA FreeRoute ==
    \A who, moves, r : r = Free(Route(who, moves)) => r.moves = moves /\ r.for = who /\ r.own = FALSE
<1>1. ASSUME NEW who, NEW moves, NEW r, r = Free(Route(who, moves))
      PROVE  r.moves = moves /\ r.for = who /\ r.own = FALSE
  BY <1>1 DEF Free, Route
<1> QED BY Zenon, <1>1

LEMMA PlatformAdminRoutes ==
    /\ DOMAIN TenantMoves = {"create", "suspend", "reactivate", "extendTrial", "grantCourtesy",
                             "removeCourtesy", "ownerPhone", "resetLink", "subscribe"}
    /\ \A m \in DOMAIN TenantMoves \ {"subscribe"} :
          /\ PlatformAdmin[m].moves = TenantMoves[m] /\ PlatformAdmin[m].for = Platform
          /\ PlatformAdmin[m].own = FALSE
    /\ LET r == PlatformAdmin.createCoupon
       IN  r.moves = CouponMoves.create /\ r.for = Platform /\ r.own = FALSE
    /\ LET r == PlatformAdmin.updateCoupon
       IN  r.moves = CouponMoves.update /\ r.for = Platform /\ r.own = FALSE
<1>1. DOMAIN TenantMoves = {"create", "suspend", "reactivate", "extendTrial", "grantCourtesy",
                            "removeCourtesy", "ownerPhone", "resetLink", "subscribe"}
  BY DEF TenantMoves
<1>2. /\ \A m \in DOMAIN TenantMoves \ {"subscribe"} : PlatformAdmin[m] = Free(Route(Platform, TenantMoves[m]))
      /\ PlatformAdmin.createCoupon = Free(Route(Platform, CouponMoves.create))
      /\ PlatformAdmin.updateCoupon = Free(Route(Platform, CouponMoves.update))
  BY <1>1 DEF PlatformAdmin, ++
<1>3. \A m \in DOMAIN TenantMoves \ {"subscribe"} :
         /\ PlatformAdmin[m].moves = TenantMoves[m] /\ PlatformAdmin[m].for = Platform
         /\ PlatformAdmin[m].own = FALSE
  <2> SUFFICES ASSUME NEW m \in DOMAIN TenantMoves \ {"subscribe"}
               PROVE  /\ PlatformAdmin[m].moves = TenantMoves[m] /\ PlatformAdmin[m].for = Platform
                      /\ PlatformAdmin[m].own = FALSE
    BY Zenon
  <2>1. PlatformAdmin[m] = Free(Route(Platform, TenantMoves[m]))
    BY <1>2
  <2> QED BY <2>1, FreeRoute
<1>4. LET r == PlatformAdmin.createCoupon
      IN  r.moves = CouponMoves.create /\ r.for = Platform /\ r.own = FALSE
  <2>1. PlatformAdmin.createCoupon = Free(Route(Platform, CouponMoves.create))
    BY <1>2
  <2> QED BY <2>1, FreeRoute
<1>5. LET r == PlatformAdmin.updateCoupon
      IN  r.moves = CouponMoves.update /\ r.for = Platform /\ r.own = FALSE
  <2>1. PlatformAdmin.updateCoupon = Free(Route(Platform, CouponMoves.update))
    BY <1>2
  <2> QED BY <2>1, FreeRoute
<1> QED BY <1>1, <1>3, <1>4, <1>5

-----------------------------------------------------------------------------
(* What each page shows: every button of it sends what its rows and its roles can take *)

LEMMA AgendaSuits == Suits(AgendaPage, AgendaPage.shows.appointment)
<1> DEFINE p == AgendaPage
           held == Held(AppointmentMoves, CreateAppointmentDialog ++ AppointmentPanel)
<1>1. p.name = "agenda" /\ p.for = Staff /\ p.shows.appointment = held
  BY DEF AgendaPage, Page
<1>2. /\ DOMAIN held.controls =
            {"create", "confirm", "start", "complete", "noShow", "reschedule", "cancel", "openTicket"}
      /\ held.controls.create = CreateAppointmentDialog.create
      /\ held.controls.confirm = StatusButtons.confirm
      /\ held.controls.start = StatusButtons.start
      /\ held.controls.complete = StatusButtons.complete
      /\ held.controls.noShow = StatusButtons.noShow
      /\ held.controls.reschedule = RescheduleForm.reschedule
      /\ held.controls.cancel = CancelForm.cancel
      /\ held.controls.openTicket = TicketOfVisit.openTicket
  BY Zenon DEF Held, CreateAppointmentDialog, AppointmentPanel, StatusButtons, RescheduleForm,
         CancelForm, TicketOfVisit, NextStatuses, ++
<1>3. DOMAIN AppointmentMoves = {"create", "confirm", "start", "complete", "noShow", "cancel",
        "reschedule", "openTicket"}
  BY DEF AppointmentMoves
<1>4. ASSUME NEW s \in {"NONE"}
      PROVE  Loose(s, AppointmentMoves.create) /\ Loose(s, AppointmentMoves.confirm) /\
             Loose(s, AppointmentMoves.start) /\ Loose(s, AppointmentMoves.complete) /\
             Loose(s, AppointmentMoves.noShow) /\ Loose(s, AppointmentMoves.cancel) /\
             Loose(s, AppointmentMoves.reschedule) /\ Loose(s, AppointmentMoves.openTicket)
  BY Zenon, Loosely DEF AppointmentMoves, Appointed
<1>5. \A w \in RowsOf(held) : w.is \in {"NONE"} => ~w.tied
  BY <1>3, <1>4, HeldRows
<1>6. Fit(p, held, "create", held.controls.create)
  <2>1. Sends(held.controls.create, AppointmentMoves.create, Staff, FALSE, Staff, In({"NONE"}),
              "reload", TRUE)
    <3>1. /\ Appointments.create.moves = AppointmentMoves.create /\ Appointments.create.for = Staff
          /\ Appointments.create.own = FALSE
      BY DEF Appointments, Route
    <3>2. AgendaActions.create = Action(Appointments.create, "render")
      BY DEF AgendaActions, Render
    <3>3. /\ held.controls.create.action.route = AgendaActions.create.route
          /\ held.controls.create.action.then = "reload"
          /\ held.controls.create.for = Staff /\ held.controls.create.told = TRUE
          /\ held.controls.create.in = In({"NONE"})
      BY <1>2, <3>2 DEF CreateAppointmentDialog, Control, By, New, Action
    <3> QED BY <3>1, <3>2, <3>3 DEF Sends, Action
  <2>2. In({"NONE"}) \cap RowsOf(held) \subseteq From(AppointmentMoves.create)
    BY <1>5, Starting, Everywhere DEF AppointmentMoves, In, Plain, Row, Appointed
  <2> QED BY <1>1, <1>3, <2>1, <2>2, HeldRows DEF Fit, Heard, Sends, Taken, Staff, Desk, Owner
<1>7. Fit(p, held, "confirm", held.controls.confirm)
  <2>1. Sends(held.controls.confirm, AppointmentMoves.confirm, Staff, FALSE, Staff,
              In({"SCHEDULED", "NO_SHOW"}), "reload", TRUE)
    <3>1. /\ Appointments.status.confirm.moves = AppointmentMoves.confirm
          /\ Appointments.status.confirm.for = Staff
          /\ Appointments.status.confirm.own = FALSE
      BY DEF Appointments, Route
    <3>2. AgendaActions.status.confirm = Action(Appointments.status.confirm, "render")
      BY DEF AgendaActions, Render, Appointments
    <3>3. held.controls.confirm = By("reload", Control(AgendaActions.status.confirm, Staff,
                                                 In({"SCHEDULED", "NO_SHOW"})))
      BY Zenon, <1>2 DEF StatusButtons, OfAppointment, NextStatuses
    <3>4. /\ held.controls.confirm.action.route = AgendaActions.status.confirm.route
          /\ held.controls.confirm.action.then = "reload"
          /\ held.controls.confirm.for = Staff /\ held.controls.confirm.told = TRUE
          /\ held.controls.confirm.in = In({"SCHEDULED", "NO_SHOW"})
      BY <3>3, <3>2 DEF Control, By, Action
    <3> QED BY <3>1, <3>2, <3>4 DEF Sends, Action
  <2>2. In({"SCHEDULED", "NO_SHOW"}) \cap RowsOf(held) \subseteq From(AppointmentMoves.confirm)
    BY <1>5, Starting, Everywhere DEF AppointmentMoves, In, Plain, Row, Appointed
  <2> QED BY <1>1, <1>3, <2>1, <2>2, HeldRows DEF Fit, Heard, Sends, Taken, Staff, Desk, Owner
<1>8. Fit(p, held, "start", held.controls.start)
  <2>1. Sends(held.controls.start, AppointmentMoves.start, Staff, FALSE, Staff,
              In({"CONFIRMED"}), "reload", TRUE)
    <3>1. /\ Appointments.status.start.moves = AppointmentMoves.start
          /\ Appointments.status.start.for = Staff
          /\ Appointments.status.start.own = FALSE
      BY DEF Appointments, Route
    <3>2. AgendaActions.status.start = Action(Appointments.status.start, "render")
      BY DEF AgendaActions, Render, Appointments
    <3>3. held.controls.start = By("reload", Control(AgendaActions.status.start, Staff,
                                                 In({"CONFIRMED"})))
      BY <1>2 DEF StatusButtons, OfAppointment, NextStatuses
    <3>4. /\ held.controls.start.action.route = AgendaActions.status.start.route
          /\ held.controls.start.action.then = "reload"
          /\ held.controls.start.for = Staff /\ held.controls.start.told = TRUE
          /\ held.controls.start.in = In({"CONFIRMED"})
      BY <3>3, <3>2 DEF Control, By, Action
    <3> QED BY <3>1, <3>2, <3>4 DEF Sends, Action
  <2>2. In({"CONFIRMED"}) \cap RowsOf(held) \subseteq From(AppointmentMoves.start)
    BY <1>5, Starting, Everywhere DEF AppointmentMoves, In, Plain, Row, Appointed
  <2> QED BY <1>1, <1>3, <2>1, <2>2, HeldRows DEF Fit, Heard, Sends, Taken, Staff, Desk, Owner
<1>9. Fit(p, held, "complete", held.controls.complete)
  <2>1. Sends(held.controls.complete, AppointmentMoves.complete, Staff, FALSE, Staff,
              In({"IN_SERVICE"}), "reload", TRUE)
    <3>1. /\ Appointments.status.complete.moves = AppointmentMoves.complete
          /\ Appointments.status.complete.for = Staff
          /\ Appointments.status.complete.own = FALSE
      BY DEF Appointments, Route
    <3>2. AgendaActions.status.complete = Action(Appointments.status.complete, "render")
      BY DEF AgendaActions, Render, Appointments
    <3>3. held.controls.complete = By("reload", Control(AgendaActions.status.complete, Staff,
                                                 In({"IN_SERVICE"})))
      BY Zenon, <1>2 DEF StatusButtons, OfAppointment, NextStatuses
    <3>4. /\ held.controls.complete.action.route = AgendaActions.status.complete.route
          /\ held.controls.complete.action.then = "reload"
          /\ held.controls.complete.for = Staff /\ held.controls.complete.told = TRUE
          /\ held.controls.complete.in = In({"IN_SERVICE"})
      BY <3>3, <3>2 DEF Control, By, Action
    <3> QED BY <3>1, <3>2, <3>4 DEF Sends, Action
  <2>2. In({"IN_SERVICE"}) \cap RowsOf(held) \subseteq From(AppointmentMoves.complete)
    BY <1>5, Starting, Everywhere DEF AppointmentMoves, In, Plain, Row, Appointed
  <2> QED BY <1>1, <1>3, <2>1, <2>2, HeldRows DEF Fit, Heard, Sends, Taken, Staff, Desk, Owner
<1>10. Fit(p, held, "noShow", held.controls.noShow)
  <2>1. Sends(held.controls.noShow, AppointmentMoves.noShow, Staff, FALSE, Staff,
              In({"SCHEDULED", "CONFIRMED"}), "reload", TRUE)
    <3>1. /\ Appointments.status.noShow.moves = AppointmentMoves.noShow
          /\ Appointments.status.noShow.for = Staff
          /\ Appointments.status.noShow.own = FALSE
      BY DEF Appointments, Route
    <3>2. AgendaActions.status.noShow = Action(Appointments.status.noShow, "render")
      BY DEF AgendaActions, Render, Appointments
    <3>3. held.controls.noShow = By("reload", Control(AgendaActions.status.noShow, Staff,
                                                 In({"SCHEDULED", "CONFIRMED"})))
      BY Zenon, <1>2 DEF StatusButtons, OfAppointment, NextStatuses
    <3>4. /\ held.controls.noShow.action.route = AgendaActions.status.noShow.route
          /\ held.controls.noShow.action.then = "reload"
          /\ held.controls.noShow.for = Staff /\ held.controls.noShow.told = TRUE
          /\ held.controls.noShow.in = In({"SCHEDULED", "CONFIRMED"})
      BY <3>3, <3>2 DEF Control, By, Action
    <3> QED BY <3>1, <3>2, <3>4 DEF Sends, Action
  <2>2. In({"SCHEDULED", "CONFIRMED"}) \cap RowsOf(held) \subseteq From(AppointmentMoves.noShow)
    BY <1>5, Starting, Everywhere DEF AppointmentMoves, In, Plain, Row, Appointed
  <2> QED BY <1>1, <1>3, <2>1, <2>2, HeldRows DEF Fit, Heard, Sends, Taken, Staff, Desk, Owner
<1>11. Fit(p, held, "reschedule", held.controls.reschedule)
  <2>1. Sends(held.controls.reschedule, AppointmentMoves.reschedule, Staff, FALSE, Staff,
              In({"SCHEDULED", "CONFIRMED"}), "reload", TRUE)
    <3>1. /\ Appointments.reschedule.moves = AppointmentMoves.reschedule
          /\ Appointments.reschedule.for = Staff
          /\ Appointments.reschedule.own = FALSE
      BY DEF Appointments, Route
    <3>2. AgendaActions.reschedule = Action(Appointments.reschedule, "render")
      BY DEF AgendaActions, Render
    <3>3. /\ held.controls.reschedule.action.route = AgendaActions.reschedule.route
          /\ held.controls.reschedule.action.then = "reload"
          /\ held.controls.reschedule.for = Staff /\ held.controls.reschedule.told = TRUE
          /\ held.controls.reschedule.in = In({"SCHEDULED", "CONFIRMED"})
      BY <1>2, <3>2 DEF RescheduleForm, OfAppointment, Control, By, Action
    <3> QED BY <3>1, <3>2, <3>3 DEF Sends, Action
  <2>2. In({"SCHEDULED", "CONFIRMED"}) \cap RowsOf(held)
           \subseteq From(AppointmentMoves.reschedule)
    BY <1>5, Starting, Everywhere DEF AppointmentMoves, In, Plain, Row, Appointed
  <2> QED BY <1>1, <1>3, <2>1, <2>2, HeldRows DEF Fit, Heard, Sends, Taken, Staff, Desk, Owner
<1>12. Fit(p, held, "cancel", held.controls.cancel)
  <2>1. Sends(held.controls.cancel, AppointmentMoves.cancel, Staff, FALSE, Staff,
              In({"SCHEDULED", "CONFIRMED", "IN_SERVICE", "NO_SHOW"}), "reload", TRUE)
    <3>1. /\ Appointments.cancel.moves = AppointmentMoves.cancel /\ Appointments.cancel.for = Staff
          /\ Appointments.cancel.own = FALSE
      BY DEF Appointments, Route
    <3>2. AgendaActions.cancel = Action(Appointments.cancel, "render")
      BY DEF AgendaActions, Render
    <3>3. /\ held.controls.cancel.action.route = AgendaActions.cancel.route
          /\ held.controls.cancel.action.then = "reload"
          /\ held.controls.cancel.for = Staff /\ held.controls.cancel.told = TRUE
          /\ held.controls.cancel.in = In({"SCHEDULED", "CONFIRMED", "IN_SERVICE", "NO_SHOW"})
      BY <1>2, <3>2 DEF CancelForm, OfAppointment, Control, By, Action
    <3> QED BY <3>1, <3>2, <3>3 DEF Sends, Action
  <2>2. In({"SCHEDULED", "CONFIRMED", "IN_SERVICE", "NO_SHOW"}) \cap RowsOf(held)
           \subseteq From(AppointmentMoves.cancel)
    BY <1>5, Starting, Everywhere DEF AppointmentMoves, In, Plain, Row, Appointed
  <2> QED BY <1>1, <1>3, <2>1, <2>2, HeldRows DEF Fit, Heard, Sends, Taken, Staff, Desk, Owner
<1>13. Fit(p, held, "openTicket", held.controls.openTicket)
  <2>1. Sends(held.controls.openTicket, AppointmentMoves.openTicket, Desk, FALSE, Staff,
              In({"CONFIRMED", "IN_SERVICE", "COMPLETED"}), "leave", FALSE)
    <3>1. /\ Tickets.openFor.moves = AppointmentMoves.openTicket /\ Tickets.openFor.for = Desk
          /\ Tickets.openFor.own = FALSE
      BY TicketsRoutes DEF Route
    <3>2. ComandaActions.openFor.route = Tickets.openFor /\ ComandaActions.openFor.then = "leave"
      BY DEF ComandaActions, Leave, Action
    <3>3. /\ held.controls.openTicket.action.route = ComandaActions.openFor.route
          /\ held.controls.openTicket.action.then = ComandaActions.openFor.then
          /\ held.controls.openTicket.for = Staff /\ held.controls.openTicket.told = FALSE
          /\ held.controls.openTicket.in = In({"CONFIRMED", "IN_SERVICE", "COMPLETED"})
      BY <1>2 DEF TicketOfVisit, Control, Silent
    <3> QED BY <3>1, <3>2, <3>3 DEF Sends
  <2> QED BY <1>1, <1>3, <2>1, HeldRows DEF Fit, Heard, Sends, OfferedRegardless, Deaf, Staff,
              Desk, Owner
<1> HIDE DEF held
<1> QED BY <1>1, <1>2, <1>6, <1>7, <1>8, <1>9, <1>10, <1>11, <1>12, <1>13 DEF Suits

LEMMA ComandasSuits == Suits(ComandasPage, ComandasPage.shows.ticket)
<1> DEFINE p == ComandasPage
           held == Held(TicketMoves, OpenTicketButton)
<1>1. p.name = "comandas" /\ p.for = Desk /\ p.shows.ticket = held
  BY DEF ComandasPage, Page
<1>2. /\ DOMAIN held.controls = {"open"}
      /\ held.controls.open = OpenTicketButton.open
  BY DEF Held, OpenTicketButton, ++
<1>3. DOMAIN TicketMoves =
            {"open", "addItem", "removeItem", "setClient", "setDiscount", "addPayment",
        "close", "cancel"}
  BY DEF TicketMoves
<1>4. Fit(p, held, "open", held.controls.open)
  <2>1. Sends(held.controls.open, TicketMoves.open, Desk, FALSE, Desk, {Plain("NONE")}, "leave",
              TRUE)
    <3>1. /\ Tickets.open.moves = TicketMoves.open /\ Tickets.open.for = Desk
          /\ Tickets.open.own = FALSE
      BY TicketsRoutes DEF Route
    <3>2. ComandaActions.open.route = Tickets.open /\ ComandaActions.open.then = "leave"
      BY DEF ComandaActions, Leave, Action
    <3>3. held.controls.open = Control(ComandaActions.open, Desk, {Plain("NONE")})
      BY <1>2 DEF OpenTicketButton
    <3>4. /\ held.controls.open.action.route = ComandaActions.open.route
          /\ held.controls.open.action.then = ComandaActions.open.then
          /\ held.controls.open.for = Desk /\ held.controls.open.told = TRUE
          /\ held.controls.open.in = {Plain("NONE")}
      BY <3>3 DEF Control
    <3> QED BY <3>1, <3>2, <3>4 DEF Sends
  <2>2. {Plain("NONE")} \cap RowsOf(held) \subseteq From(TicketMoves.open)
    BY Zenon, Starting, Everywhere DEF TicketMoves, In, Plain, Row
  <2> QED BY <1>1, <1>3, <2>1, <2>2, HeldRows DEF Fit, Heard, Sends, Taken, Staff, Desk, Owner,
              BrokenFor
<1> HIDE DEF held
<1> QED BY <1>1, <1>2, <1>4 DEF Suits

LEMMA ComandaSuits == Suits(ComandaPage, ComandaPage.shows.ticket)
<1> DEFINE p == ComandaPage
           held == Held(TicketMoves, TicketPdv)
<1>1. p.name = "comanda" /\ p.for = Staff /\ p.shows.ticket = held
  BY DEF ComandaPage, Page
<1>2. /\ DOMAIN held.controls =
            {"setClient", "addItem", "removeItem", "setDiscount", "addPayment", "close", "cancel"}
      /\ held.controls.setClient = TicketHeader.setClient
      /\ held.controls.addItem = TicketItems.addItem
      /\ held.controls.removeItem = TicketItems.removeItem
      /\ held.controls.setDiscount = TicketDiscount.setDiscount
      /\ held.controls.addPayment = TicketPayments.addPayment
      /\ held.controls.close = TicketEnd.close
      /\ held.controls.cancel = TicketEnd.cancel
  BY Zenon DEF Held, TicketPdv, TicketHeader, TicketItems, TicketDiscount, TicketPayments, TicketEnd,
         ++
<1>3. DOMAIN TicketMoves =
            {"open", "addItem", "removeItem", "setClient", "setDiscount", "addPayment",
        "close", "cancel"}
  BY DEF TicketMoves
<1>4. Fit(p, held, "setClient", held.controls.setClient)
  <2>1. Sends(held.controls.setClient, TicketMoves.setClient, Desk, FALSE, Staff,
              {Plain(s) : s \in OpenTicket}, "answer", TRUE)
    <3>1. /\ Tickets.setClient.moves = TicketMoves.setClient /\ Tickets.setClient.for = Desk
          /\ Tickets.setClient.own = FALSE
      BY TicketsRoutes DEF Route
    <3>2. /\ ComandaActions.setClient.route = Tickets.setClient
          /\ ComandaActions.setClient.then = "answer"
      BY DEF ComandaActions, Action
    <3>3. /\ held.controls.setClient.action.route = ComandaActions.setClient.route
          /\ held.controls.setClient.action.then = ComandaActions.setClient.then
          /\ held.controls.setClient.for = Staff /\ held.controls.setClient.told = TRUE
          /\ held.controls.setClient.in = {Plain(s) : s \in OpenTicket}
      BY <1>2 DEF TicketHeader, Control
    <3> QED BY <3>1, <3>2, <3>3 DEF Sends
  <2>2. {Plain(s) : s \in OpenTicket} \cap RowsOf(held) \subseteq From(TicketMoves.setClient)
    BY Starting, Everywhere DEF TicketMoves, In, Plain, Row, OpenTicket
  <2> QED BY <1>1, <1>3, <2>1, <2>2, HeldRows DEF Fit, Heard, Sends, Taken, Staff, Desk, Owner,
              BrokenFor
<1>5. Fit(p, held, "addItem", held.controls.addItem)
  <2>1. Sends(held.controls.addItem, TicketMoves.addItem, Desk, FALSE, Staff, In(OpenTicket),
              "answer", TRUE)
    <3>1. /\ Tickets.addItem.moves = TicketMoves.addItem /\ Tickets.addItem.for = Desk
          /\ Tickets.addItem.own = FALSE
      BY TicketsRoutes DEF Route
    <3>2. ComandaActions.addItem.route = Tickets.addItem /\ ComandaActions.addItem.then = "answer"
      BY DEF ComandaActions, Action
    <3>3. /\ held.controls.addItem.action.route = ComandaActions.addItem.route
          /\ held.controls.addItem.action.then = ComandaActions.addItem.then
          /\ held.controls.addItem.for = Staff /\ held.controls.addItem.told = TRUE
          /\ held.controls.addItem.in = In(OpenTicket)
      BY <1>2 DEF TicketItems, OfTicket, Control
    <3> QED BY <3>1, <3>2, <3>3 DEF Sends
  <2>2. In(OpenTicket) \cap RowsOf(held) \subseteq From(TicketMoves.addItem)
    <3> DEFINE each == To({"EMPTY", "FREE"}, {"DUE", "FREE"}) \cup Stay({"DUE", "PART"})
                  \cup To({"SETTLED", "ORPHAN"}, {"PART", "SETTLED"})
    <3>1. TicketMoves.addItem = Both(each)
      BY DEF TicketMoves
    <3>2. \A s \in OpenTicket : Plain(s) \in From(each)
      BY Zenon, Starting DEF OpenTicket
    <3> HIDE DEF each
    <3> QED BY <3>1, <3>2, Everywhere
  <2> QED BY <1>1, <1>3, <2>1, <2>2, HeldRows DEF Fit, Heard, Sends, Taken, Staff, Desk, Owner,
              BrokenFor
<1>6. Fit(p, held, "removeItem", held.controls.removeItem)
  <2>1. Sends(held.controls.removeItem, TicketMoves.removeItem, Desk, FALSE, Staff,
              In({"DUE", "FREE", "PART", "SETTLED"}), "answer", TRUE)
    <3>1. /\ Tickets.removeItem.moves = TicketMoves.removeItem /\ Tickets.removeItem.for = Desk
          /\ Tickets.removeItem.own = FALSE
      BY TicketsRoutes DEF Route
    <3>2. /\ ComandaActions.removeItem.route = Tickets.removeItem
          /\ ComandaActions.removeItem.then = "answer"
      BY DEF ComandaActions, Action
    <3>3. /\ held.controls.removeItem.action.route = ComandaActions.removeItem.route
          /\ held.controls.removeItem.action.then = ComandaActions.removeItem.then
          /\ held.controls.removeItem.for = Staff /\ held.controls.removeItem.told = TRUE
          /\ held.controls.removeItem.in = In({"DUE", "FREE", "PART", "SETTLED"})
      BY <1>2 DEF TicketItems, OfTicket, Control, Again
    <3> QED BY <3>1, <3>2, <3>3 DEF Sends
  <2>2. In({"DUE", "FREE", "PART", "SETTLED"}) \cap RowsOf(held)
           \subseteq From(TicketMoves.removeItem)
    <3> DEFINE each == To({"DUE", "FREE"}, {"DUE", "FREE", "EMPTY"})
                  \cup To({"PART", "SETTLED"}, {"PART", "SETTLED", "ORPHAN"})
    <3>1. TicketMoves.removeItem = Both(each)
      BY DEF TicketMoves
    <3>2. \A s \in {"DUE", "FREE", "PART", "SETTLED"} : Plain(s) \in From(each)
      BY Zenon, Starting
    <3> HIDE DEF each
    <3> QED BY <3>1, <3>2, Everywhere
  <2> QED BY <1>1, <1>3, <2>1, <2>2, HeldRows DEF Fit, Heard, Sends, Taken, Staff, Desk, Owner,
              BrokenFor
<1>7. Fit(p, held, "setDiscount", held.controls.setDiscount)
  <2>1. Sends(held.controls.setDiscount, TicketMoves.setDiscount, Desk, FALSE, Staff,
              In(OpenTicket), "answer", TRUE)
    <3>1. /\ Tickets.setDiscount.moves = TicketMoves.setDiscount /\ Tickets.setDiscount.for = Desk
          /\ Tickets.setDiscount.own = FALSE
      BY TicketsRoutes DEF Route
    <3>2. /\ ComandaActions.setDiscount.route = Tickets.setDiscount
          /\ ComandaActions.setDiscount.then = "answer"
      BY DEF ComandaActions, Action
    <3>3. /\ held.controls.setDiscount.action.route = ComandaActions.setDiscount.route
          /\ held.controls.setDiscount.action.then = ComandaActions.setDiscount.then
          /\ held.controls.setDiscount.for = Staff /\ held.controls.setDiscount.told = TRUE
          /\ held.controls.setDiscount.in = In(OpenTicket)
      BY <1>2 DEF TicketDiscount, OfTicket, Control, Again
    <3> QED BY <3>1, <3>2, <3>3 DEF Sends
  <2>2. In(OpenTicket) \cap RowsOf(held) \subseteq From(TicketMoves.setDiscount)
    <3> DEFINE each == Stay({"EMPTY", "ORPHAN"}) \cup To({"DUE", "FREE"}, {"DUE", "FREE"})
                  \cup To({"PART", "SETTLED"}, {"PART", "SETTLED"})
    <3>1. TicketMoves.setDiscount = Both(each)
      BY DEF TicketMoves
    <3>2. \A s \in OpenTicket : Plain(s) \in From(each)
      BY Zenon, Starting DEF OpenTicket
    <3> HIDE DEF each
    <3> QED BY <3>1, <3>2, Everywhere
  <2> QED BY <1>1, <1>3, <2>1, <2>2, HeldRows DEF Fit, Heard, Sends, Taken, Staff, Desk, Owner,
              BrokenFor
<1>8. Fit(p, held, "addPayment", held.controls.addPayment)
  <2>1. Sends(held.controls.addPayment, TicketMoves.addPayment, Desk, FALSE, Staff,
              In({"DUE", "PART"}), "answer", TRUE)
    <3>1. /\ Tickets.addPayment.moves = TicketMoves.addPayment /\ Tickets.addPayment.for = Desk
          /\ Tickets.addPayment.own = FALSE
      BY TicketsRoutes DEF Route
    <3>2. /\ ComandaActions.addPayment.route = Tickets.addPayment
          /\ ComandaActions.addPayment.then = "answer"
      BY DEF ComandaActions, Action
    <3>3. /\ held.controls.addPayment.action.route = ComandaActions.addPayment.route
          /\ held.controls.addPayment.action.then = ComandaActions.addPayment.then
          /\ held.controls.addPayment.for = Staff /\ held.controls.addPayment.told = TRUE
          /\ held.controls.addPayment.in = In({"DUE", "PART"})
      BY <1>2 DEF TicketPayments, OfTicket, Control
    <3> QED BY <3>1, <3>2, <3>3 DEF Sends
  <2>2. In({"DUE", "PART"}) \cap RowsOf(held) \subseteq From(TicketMoves.addPayment)
    BY Starting, Everywhere DEF TicketMoves, In, Plain, Row
  <2> QED BY <1>1, <1>3, <2>1, <2>2, HeldRows DEF Fit, Heard, Sends, Taken, Staff, Desk, Owner,
              BrokenFor
<1>9. Fit(p, held, "close", held.controls.close)
  <2>1. Sends(held.controls.close, TicketMoves.close, Desk, FALSE, Staff,
              In({"FREE", "SETTLED"}), "leave", TRUE)
    <3>1. /\ Tickets.close.moves = TicketMoves.close /\ Tickets.close.for = Desk
          /\ Tickets.close.own = FALSE
      BY TicketsRoutes DEF Route
    <3>2. ComandaActions.close.route = Tickets.close /\ ComandaActions.close.then = "leave"
      BY DEF ComandaActions, Leave, Action
    <3>3. /\ held.controls.close.action.route = ComandaActions.close.route
          /\ held.controls.close.action.then = ComandaActions.close.then
          /\ held.controls.close.for = Staff /\ held.controls.close.told = TRUE
          /\ held.controls.close.in = In({"FREE", "SETTLED"})
      BY <1>2 DEF TicketEnd, OfTicket, Control
    <3> QED BY <3>1, <3>2, <3>3 DEF Sends
  <2>2. In({"FREE", "SETTLED"}) \cap RowsOf(held) \subseteq From(TicketMoves.close)
    BY Starting, Everywhere DEF TicketMoves, In, Plain, Row
  <2> QED BY <1>1, <1>3, <2>1, <2>2, HeldRows DEF Fit, Heard, Sends, Taken, Staff, Desk, Owner,
              BrokenFor
<1>10. Fit(p, held, "cancel", held.controls.cancel)
  <2>1. Sends(held.controls.cancel, TicketMoves.cancel, Desk, FALSE, Staff,
              In({"EMPTY", "DUE", "FREE"}), "leave", TRUE)
    <3>1. /\ Tickets.cancel.moves = TicketMoves.cancel /\ Tickets.cancel.for = Desk
          /\ Tickets.cancel.own = FALSE
      BY TicketsRoutes DEF Route
    <3>2. ComandaActions.cancel.route = Tickets.cancel /\ ComandaActions.cancel.then = "leave"
      BY DEF ComandaActions, Leave, Action
    <3>3. /\ held.controls.cancel.action.route = ComandaActions.cancel.route
          /\ held.controls.cancel.action.then = ComandaActions.cancel.then
          /\ held.controls.cancel.for = Staff /\ held.controls.cancel.told = TRUE
          /\ held.controls.cancel.in = In({"EMPTY", "DUE", "FREE"})
      BY <1>2 DEF TicketEnd, OfTicket, Control
    <3> QED BY <3>1, <3>2, <3>3 DEF Sends
  <2>2. In({"EMPTY", "DUE", "FREE"}) \cap RowsOf(held) \subseteq From(TicketMoves.cancel)
    BY Starting, Everywhere DEF TicketMoves, In, Plain, Row
  <2> QED BY <1>1, <1>3, <2>1, <2>2, HeldRows DEF Fit, Heard, Sends, Taken, Staff, Desk, Owner,
              BrokenFor
<1> HIDE DEF held
<1> QED BY <1>1, <1>2, <1>4, <1>5, <1>6, <1>7, <1>8, <1>9, <1>10 DEF Suits

LEMMA CaixaSuits == Suits(CaixaPage, CaixaPage.shows.register)
<1> DEFINE p == CaixaPage
           held == Held(RegisterMoves, CaixaView)
<1>1. p.name = "caixa" /\ p.for = Desk /\ p.shows.register = held
  BY DEF CaixaPage, Page
<1>2. /\ DOMAIN held.controls = {"open", "move", "close"}
      /\ held.controls.open = CaixaView.open
      /\ held.controls.move = CaixaView.move
      /\ held.controls.close = CaixaView.close
  BY DEF Held, CaixaView, ++
<1>3. DOMAIN RegisterMoves = {"open", "move", "close"}
  BY DEF RegisterMoves
<1>4. ASSUME NEW s
      PROVE  Loose(s, RegisterMoves.open) /\ Loose(s, RegisterMoves.move) /\
             Loose(s, RegisterMoves.close)
  BY Zenon, Loosely DEF RegisterMoves
<1>5. \A w \in RowsOf(held) : ~w.tied
  BY <1>3, <1>4, HeldRows
<1>6. Fit(p, held, "open", held.controls.open)
  <2>1. Sends(held.controls.open, RegisterMoves.open, Desk, FALSE, Desk, In({"CLOSED"}),
              "render", TRUE)
    <3>1. /\ CashRegister.open.moves = RegisterMoves.open /\ CashRegister.open.for = Desk
          /\ CashRegister.open.own = FALSE
      BY CashRegisterRoutes DEF Route
    <3>2. CaixaActions.open.route = CashRegister.open /\ CaixaActions.open.then = "render"
      BY CashRegisterRoutes DEF CaixaActions, Render, Action
    <3>3. /\ held.controls.open.action.route = CaixaActions.open.route
          /\ held.controls.open.action.then = CaixaActions.open.then
          /\ held.controls.open.for = Desk /\ held.controls.open.told = TRUE
          /\ held.controls.open.in = In({"CLOSED"})
      BY <1>2 DEF CaixaView, Control
    <3> QED BY <3>1, <3>2, <3>3 DEF Sends
  <2>2. In({"CLOSED"}) \cap RowsOf(held) \subseteq From(RegisterMoves.open)
    BY <1>5, Starting, Everywhere DEF RegisterMoves, In, Plain, Row
  <2> QED BY <1>1, <1>3, <2>1, <2>2, HeldRows DEF Fit, Heard, Sends, Taken, Staff, Desk, Owner
<1>7. Fit(p, held, "move", held.controls.move)
  <2>1. Sends(held.controls.move, RegisterMoves.move, Desk, FALSE, Desk, In({"OPEN"}), "render",
              TRUE)
    <3>1. /\ CashRegister.move.moves = RegisterMoves.move /\ CashRegister.move.for = Desk
          /\ CashRegister.move.own = FALSE
      BY CashRegisterRoutes DEF Route
    <3>2. CaixaActions.move.route = CashRegister.move /\ CaixaActions.move.then = "render"
      BY CashRegisterRoutes DEF CaixaActions, Render, Action
    <3>3. /\ held.controls.move.action.route = CaixaActions.move.route
          /\ held.controls.move.action.then = CaixaActions.move.then
          /\ held.controls.move.for = Desk /\ held.controls.move.told = TRUE
          /\ held.controls.move.in = In({"OPEN"})
      BY <1>2 DEF CaixaView, Control
    <3> QED BY <3>1, <3>2, <3>3 DEF Sends
  <2>2. In({"OPEN"}) \cap RowsOf(held) \subseteq From(RegisterMoves.move)
    BY <1>5, Starting, Everywhere DEF RegisterMoves, In, Plain, Row
  <2> QED BY <1>1, <1>3, <2>1, <2>2, HeldRows DEF Fit, Heard, Sends, Taken, Staff, Desk, Owner
<1>8. Fit(p, held, "close", held.controls.close)
  <2>1. Sends(held.controls.close, RegisterMoves.close, Desk, FALSE, Desk, In({"OPEN"}),
              "render", TRUE)
    <3>1. /\ CashRegister.close.moves = RegisterMoves.close /\ CashRegister.close.for = Desk
          /\ CashRegister.close.own = FALSE
      BY CashRegisterRoutes DEF Route
    <3>2. CaixaActions.close.route = CashRegister.close /\ CaixaActions.close.then = "render"
      BY CashRegisterRoutes DEF CaixaActions, Render, Action
    <3>3. /\ held.controls.close.action.route = CaixaActions.close.route
          /\ held.controls.close.action.then = CaixaActions.close.then
          /\ held.controls.close.for = Desk /\ held.controls.close.told = TRUE
          /\ held.controls.close.in = In({"OPEN"})
      BY <1>2 DEF CaixaView, Control
    <3> QED BY <3>1, <3>2, <3>3 DEF Sends
  <2>2. In({"OPEN"}) \cap RowsOf(held) \subseteq From(RegisterMoves.close)
    BY <1>5, Starting, Everywhere DEF RegisterMoves, In, Plain, Row
  <2> QED BY <1>1, <1>3, <2>1, <2>2, HeldRows DEF Fit, Heard, Sends, Taken, Staff, Desk, Owner
<1> HIDE DEF held
<1> QED BY <1>1, <1>2, <1>6, <1>7, <1>8 DEF Suits

LEMMA DifferenceSuits == Suits(CaixaPage, CaixaPage.shows.difference)
<1> DEFINE p == CaixaPage
           held == Held([close |-> RegisterMoves.close], [close |-> By("none", CaixaView.close)])
<1>1. p.name = "caixa" /\ p.for = Desk /\ p.shows.difference = held
  BY DEF CaixaPage, Page
<1>2. /\ DOMAIN held.controls = {"close"}
  BY DEF Held
<1>3. DOMAIN ([close |-> RegisterMoves.close]) = {"close"}
  OBVIOUS
<1>4. ASSUME NEW s PROVE Loose(s, RegisterMoves.close)
  BY Zenon, Loosely DEF RegisterMoves
<1>5. \A w \in RowsOf(held) : ~w.tied
  BY <1>3, <1>4, HeldRows
<1>6. Fit(p, held, "close", held.controls.close)
  <2>1. Sends(held.controls.close, RegisterMoves.close, Desk, FALSE, Desk, In({"OPEN"}), "none",
              TRUE)
    <3>1. /\ CashRegister.close.moves = RegisterMoves.close /\ CashRegister.close.for = Desk
          /\ CashRegister.close.own = FALSE
      BY CashRegisterRoutes DEF Route
    <3>2. CaixaActions.close = Action(CashRegister.close, "render")
      BY CashRegisterRoutes DEF CaixaActions, Render
    <3>3. /\ held.controls.close.action.route = CaixaActions.close.route
          /\ held.controls.close.action.then = "none"
          /\ held.controls.close.for = Desk /\ held.controls.close.told = TRUE
          /\ held.controls.close.in = In({"OPEN"})
      BY <1>2, <3>2 DEF Held, CaixaView, Control, By, Action
    <3> QED BY <3>1, <3>2, <3>3 DEF Sends, Action
  <2>2. In({"OPEN"}) \cap RowsOf(held) \subseteq From(RegisterMoves.close)
    BY <1>5, Starting, Everywhere DEF RegisterMoves, In, Plain, Row
  <2> QED BY Zenon, <1>1, <1>3, <2>1, <2>2, HeldRows DEF Fit, Heard, Sends, Taken, Deaf, Staff, Desk,
              Owner
<1> HIDE DEF held
<1> QED BY <1>1, <1>2, <1>6 DEF Suits

LEMMA FinanceiroSuits == Suits(FinanceiroPage, FinanceiroPage.shows.entry)
<1> DEFINE p == FinanceiroPage
           held == Held(EntryMoves, FinanceView)
<1>1. p.name = "financeiro" /\ p.for = Desk /\ p.shows.entry = held
  BY DEF FinanceiroPage, Page
<1>2. /\ DOMAIN held.controls = {"create", "settle", "cancel"}
      /\ held.controls.create = FinanceView.create
      /\ held.controls.settle = EntryList.settle
      /\ held.controls.cancel = EntryList.cancel
  BY DEF Held, FinanceView, EntryList, ++
<1>3. DOMAIN EntryMoves = {"create", "settle", "cancel"}
  BY DEF EntryMoves
<1>4. ASSUME NEW s \in {"NONE"}
      PROVE  Loose(s, EntryMoves.create) /\ Loose(s, EntryMoves.settle) /\
             Loose(s, EntryMoves.cancel)
  BY Zenon, Loosely DEF EntryMoves
<1>5. \A w \in RowsOf(held) : w.is \in {"NONE"} => ~w.tied
  BY <1>3, <1>4, HeldRows
<1>6. Fit(p, held, "create", held.controls.create)
  <2>1. Sends(held.controls.create, EntryMoves.create, Desk, FALSE, Desk, In({"NONE"}),
              "render", TRUE)
    <3>1. /\ Finance.create.moves = EntryMoves.create /\ Finance.create.for = Desk
          /\ Finance.create.own = FALSE
      BY DEF Finance, Route
    <3>2. /\ FinanceiroActions.create.route = Finance.create
          /\ FinanceiroActions.create.then = "render"
      BY DEF FinanceiroActions, Render, Action
    <3>3. /\ held.controls.create.action.route = FinanceiroActions.create.route
          /\ held.controls.create.action.then = FinanceiroActions.create.then
          /\ held.controls.create.for = Desk /\ held.controls.create.told = TRUE
          /\ held.controls.create.in = In({"NONE"})
      BY <1>2 DEF FinanceView, ++, Control, New
    <3> QED BY <3>1, <3>2, <3>3 DEF Sends
  <2>2. In({"NONE"}) \cap RowsOf(held) \subseteq From(EntryMoves.create)
    BY <1>5, Starting, Everywhere DEF EntryMoves, In, Plain, Row
  <2> QED BY <1>1, <1>3, <2>1, <2>2, HeldRows DEF Fit, Heard, Sends, Taken, Staff, Desk, Owner
<1>7. Fit(p, held, "settle", held.controls.settle)
  <2>1. Sends(held.controls.settle, EntryMoves.settle, Desk, FALSE, Desk, In({"PENDING"}),
              "render", FALSE)
    <3>1. /\ Finance.settle.moves = EntryMoves.settle /\ Finance.settle.for = Desk
          /\ Finance.settle.own = FALSE
      BY DEF Finance, Route
    <3>2. /\ FinanceiroActions.settle.route = Finance.settle
          /\ FinanceiroActions.settle.then = "render"
      BY DEF FinanceiroActions, Render, Action
    <3>3. /\ held.controls.settle.action.route = FinanceiroActions.settle.route
          /\ held.controls.settle.action.then = FinanceiroActions.settle.then
          /\ held.controls.settle.for = Desk /\ held.controls.settle.told = FALSE
          /\ held.controls.settle.in = In({"PENDING"})
      BY Zenon, <1>2 DEF EntryList, Control, Again, Silent
    <3> QED BY <3>1, <3>2, <3>3 DEF Sends
  <2>2. In({"PENDING"}) \cap RowsOf(held) \subseteq From(EntryMoves.settle)
    BY <1>5, Starting, Everywhere DEF EntryMoves, In, Plain, Row
  <2> QED BY <1>1, <1>3, <2>1, <2>2, HeldRows DEF Fit, Heard, Sends, Taken, Deaf, Staff, Desk,
              Owner
<1>8. Fit(p, held, "cancel", held.controls.cancel)
  <2>1. Sends(held.controls.cancel, EntryMoves.cancel, Desk, FALSE, Desk, {Plain("PENDING")},
              "render", FALSE)
    <3>1. /\ Finance.cancel.moves = EntryMoves.cancel /\ Finance.cancel.for = Desk
          /\ Finance.cancel.own = FALSE
      BY DEF Finance, Route
    <3>2. /\ FinanceiroActions.cancel.route = Finance.cancel
          /\ FinanceiroActions.cancel.then = "render"
      BY DEF FinanceiroActions, Render, Action
    <3>3. /\ held.controls.cancel.action.route = FinanceiroActions.cancel.route
          /\ held.controls.cancel.action.then = FinanceiroActions.cancel.then
          /\ held.controls.cancel.for = Desk /\ held.controls.cancel.told = FALSE
          /\ held.controls.cancel.in = {Plain("PENDING")}
      BY Zenon, <1>2 DEF EntryList, Control, Again, Silent
    <3> QED BY <3>1, <3>2, <3>3 DEF Sends
  <2>2. {Plain("PENDING")} \cap RowsOf(held) \subseteq From(EntryMoves.cancel)
    BY <1>5, Starting, Everywhere DEF EntryMoves, In, Plain, Row
  <2> QED BY <1>1, <1>3, <2>1, <2>2, HeldRows DEF Fit, Heard, Sends, Taken, Deaf, Staff, Desk,
              Owner
<1> HIDE DEF held
<1> QED BY <1>1, <1>2, <1>6, <1>7, <1>8 DEF Suits

LEMMA ReportSuits == Suits(FinanceiroPage, FinanceiroPage.shows.report)
<1> DEFINE p == FinanceiroPage
           held == Held(EntryMoves, [settle |-> By("none", FinanceView.settle)])
<1>1. p.name = "financeiro" /\ p.for = Desk /\ p.shows.report = held
  BY DEF FinanceiroPage, Page
<1>2. /\ DOMAIN held.controls = {"settle"}
  BY DEF Held
<1>3. DOMAIN EntryMoves = {"create", "settle", "cancel"}
  BY DEF EntryMoves
<1>4. Fit(p, held, "settle", held.controls.settle)
  <2>1. Sends(held.controls.settle, EntryMoves.settle, Desk, FALSE, Desk, In({"PENDING"}),
              "none", FALSE)
    BY Zenon, <1>2 DEF Held, FinanceView, FinanceiroActions, Finance, Render, Again, Silent, By,
           EntryList, ++, Sends, Control, Action, Route
  <2>2. In({"PENDING"}) \cap RowsOf(held) \subseteq From(EntryMoves.settle)
    BY Starting, Everywhere DEF EntryMoves, In, Plain, Row
  <2> QED BY <1>1, <1>3, <2>1, <2>2, HeldRows DEF Fit, Heard, Sends, Taken, Deaf, Staff, Desk,
              Owner
<1> HIDE DEF held
<1> QED BY <1>1, <1>2, <1>4 DEF Suits

LEMMA ComissoesSuits == Suits(ComissoesPage, ComissoesPage.shows.rule)
<1> DEFINE p == ComissoesPage
           held == Held(RuleMoves, ComissoesView)
<1>1. p.name = "comissoes" /\ p.for = Owner /\ p.shows.rule = held
  BY DEF ComissoesPage, Page
<1>2. /\ DOMAIN held.controls = {"create", "update", "delete"}
      /\ held.controls.create = RuleForm.create
      /\ held.controls.update = RuleForm.update
      /\ held.controls.delete = ComissoesView.delete
  BY DEF Held, ComissoesView, RuleForm, ++
<1>3. DOMAIN RuleMoves = {"create", "update", "delete"}
  BY DEF RuleMoves
<1>4. ASSUME NEW s
      PROVE  Loose(s, RuleMoves.create) /\ Loose(s, RuleMoves.update) /\ Loose(s, RuleMoves.delete)
  BY Zenon, Loosely DEF RuleMoves
<1>5. \A w \in RowsOf(held) : ~w.tied
  BY <1>3, <1>4, HeldRows
<1>6. Fit(p, held, "create", held.controls.create)
  <2>1. Sends(held.controls.create, RuleMoves.create, Owner, FALSE, Owner, In({"NONE"}),
              "render", TRUE)
    <3>1. /\ Commissions.create.moves = RuleMoves.create /\ Commissions.create.for = Owner
          /\ Commissions.create.own = FALSE
      BY CommissionsRoutes DEF Route
    <3>2. /\ ComissaoActions.create.route = Commissions.create
          /\ ComissaoActions.create.then = "render"
      BY DEF ComissaoActions, Render, Action
    <3>3. /\ held.controls.create.action.route = ComissaoActions.create.route
          /\ held.controls.create.action.then = ComissaoActions.create.then
          /\ held.controls.create.for = Owner /\ held.controls.create.told = TRUE
          /\ held.controls.create.in = In({"NONE"})
      BY <1>2 DEF RuleForm, Control, New
    <3> QED BY <3>1, <3>2, <3>3 DEF Sends
  <2>2. In({"NONE"}) \cap RowsOf(held) \subseteq From(RuleMoves.create)
    BY <1>5, Starting, Everywhere DEF RuleMoves, In, Plain, Row
  <2> QED BY <1>1, <1>3, <2>1, <2>2, HeldRows DEF Fit, Heard, Sends, Taken, Staff, Desk, Owner
<1>7. Fit(p, held, "update", held.controls.update)
  <2>1. Sends(held.controls.update, RuleMoves.update, Owner, FALSE, Owner,
              In({"ACTIVE", "INACTIVE"}), "render", TRUE)
    <3>1. /\ Commissions.update.moves = RuleMoves.update /\ Commissions.update.for = Owner
          /\ Commissions.update.own = FALSE
      BY CommissionsRoutes DEF Route
    <3>2. /\ ComissaoActions.update.route = Commissions.update
          /\ ComissaoActions.update.then = "render"
      BY DEF ComissaoActions, Render, Action
    <3>3. /\ held.controls.update.action.route = ComissaoActions.update.route
          /\ held.controls.update.action.then = ComissaoActions.update.then
          /\ held.controls.update.for = Owner /\ held.controls.update.told = TRUE
          /\ held.controls.update.in = In({"ACTIVE", "INACTIVE"})
      BY <1>2 DEF RuleForm, Control, Rules
    <3> QED BY <3>1, <3>2, <3>3 DEF Sends
  <2>2. In({"ACTIVE", "INACTIVE"}) \cap RowsOf(held) \subseteq From(RuleMoves.update)
    BY <1>5, Starting, Everywhere DEF RuleMoves, In, Plain, Row
  <2> QED BY <1>1, <1>3, <2>1, <2>2, HeldRows DEF Fit, Heard, Sends, Taken, Staff, Desk, Owner
<1>8. Fit(p, held, "delete", held.controls.delete)
  <2>1. Sends(held.controls.delete, RuleMoves.delete, Owner, FALSE, Owner,
              In({"ACTIVE", "INACTIVE"}), "render", TRUE)
    <3>1. /\ Commissions.delete.moves = RuleMoves.delete /\ Commissions.delete.for = Owner
          /\ Commissions.delete.own = FALSE
      BY CommissionsRoutes DEF Route
    <3>2. /\ ComissaoActions.delete.route = Commissions.delete
          /\ ComissaoActions.delete.then = "render"
      BY DEF ComissaoActions, Render, Action
    <3>3. held.controls.delete = Control(ComissaoActions.delete, Owner, Rules)
      <4>1. ComissoesView.delete = Control(ComissaoActions.delete, Owner, Rules)
        BY DEF ComissoesView, RuleForm, ++
      <4> QED BY <1>2, <4>1
    <3>4. /\ held.controls.delete.action.route = ComissaoActions.delete.route
          /\ held.controls.delete.action.then = ComissaoActions.delete.then
          /\ held.controls.delete.for = Owner /\ held.controls.delete.told = TRUE
          /\ held.controls.delete.in = In({"ACTIVE", "INACTIVE"})
      BY <3>3 DEF Control, Rules
    <3> QED BY <3>1, <3>2, <3>4 DEF Sends
  <2>2. In({"ACTIVE", "INACTIVE"}) \cap RowsOf(held) \subseteq From(RuleMoves.delete)
    BY <1>5, Starting, Everywhere DEF RuleMoves, In, Plain, Row
  <2> QED BY <1>1, <1>3, <2>1, <2>2, HeldRows DEF Fit, Heard, Sends, Taken, Staff, Desk, Owner
<1> HIDE DEF held
<1> QED BY <1>1, <1>2, <1>6, <1>7, <1>8 DEF Suits

LEMMA EarningSuits == Suits(ComissoesPage, ComissoesPage.shows.earning)
<1> DEFINE p == ComissoesPage
           held == Held(PayoutMoves, PayoutButton)
<1>1. p.name = "comissoes" /\ p.for = Owner /\ p.shows.earning = held
  BY DEF ComissoesPage, Page
<1>2. /\ DOMAIN held.controls = {"payout"}
      /\ held.controls.payout = PayoutButton.payout
  BY DEF Held, PayoutButton, ++
<1>3. DOMAIN PayoutMoves = {"pay"}
  BY DEF PayoutMoves
<1>4. ASSUME NEW s
      PROVE  Loose(s, PayoutMoves.pay)
  BY Zenon, Loosely DEF PayoutMoves
<1>5. \A w \in RowsOf(held) : ~w.tied
  BY <1>3, <1>4, HeldRows
<1>6. Fit(p, held, "payout", held.controls.payout)
  <2>1. Sends(held.controls.payout, PayoutMoves.pay, Owner, FALSE, Owner, In({"OWED"}),
              "render", TRUE)
    <3>1. /\ Finance.payout.moves = PayoutMoves.pay /\ Finance.payout.for = Owner
          /\ Finance.payout.own = FALSE
      BY DEF Finance, Route
    <3>2. ComissaoActions.payout.route = Finance.payout /\ ComissaoActions.payout.then = "render"
      BY DEF ComissaoActions, Render, Action
    <3>3. /\ held.controls.payout.action.route = ComissaoActions.payout.route
          /\ held.controls.payout.action.then = ComissaoActions.payout.then
          /\ held.controls.payout.for = Owner /\ held.controls.payout.told = TRUE
          /\ held.controls.payout.in = In({"OWED"})
      BY <1>2 DEF PayoutButton, Control
    <3> QED BY <3>1, <3>2, <3>3 DEF Sends
  <2>2. In({"OWED"}) \cap RowsOf(held) \subseteq From(PayoutMoves.pay)
    BY <1>5, Starting, Everywhere DEF PayoutMoves, In, Plain, Row
  <2> QED BY <1>1, <1>3, <2>1, <2>2, HeldRows DEF Fit, Heard, Sends, Taken, Staff, Desk, Owner
<1> HIDE DEF held
<1> QED BY <1>1, <1>2, <1>6 DEF Suits

LEMMA ProdutosSuits == Suits(ProdutosPage, ProdutosPage.shows.product)
<1> DEFINE p == ProdutosPage
           held == Held(ProductMoves, ProductsManager ++ StockControl)
<1>1. p.name = "produtos" /\ p.for = Desk /\ p.shows.product = held
  BY DEF ProdutosPage, Page
<1>2. /\ DOMAIN held.controls = {"create", "update", "stock"}
      /\ held.controls.create = ProductsManager.create
      /\ held.controls.update = ProductsManager.update
      /\ held.controls.stock = StockControl.stock
  BY DEF Held, ProductsManager, StockControl, ++
<1>3. DOMAIN ProductMoves = {"create", "update", "stock"}
  BY DEF ProductMoves
<1>4. ASSUME NEW s
      PROVE  Loose(s, ProductMoves.create) /\ Loose(s, ProductMoves.update) /\
             Loose(s, ProductMoves.stock)
  BY Zenon, Loosely DEF ProductMoves
<1>5. \A w \in RowsOf(held) : ~w.tied
  BY <1>3, <1>4, HeldRows
<1>6. Fit(p, held, "create", held.controls.create)
  <2>1. Sends(held.controls.create, ProductMoves.create, Owner, FALSE, Desk, In({"NONE"}),
              "render", TRUE)
    <3>1. /\ Products.create.moves = ProductMoves.create /\ Products.create.for = Owner
          /\ Products.create.own = FALSE
      BY DEF Products, Route
    <3>2. ProdutoActions.create.route = Products.create /\ ProdutoActions.create.then = "render"
      BY DEF ProdutoActions, Render, Action
    <3>3. /\ held.controls.create.action.route = ProdutoActions.create.route
          /\ held.controls.create.action.then = ProdutoActions.create.then
          /\ held.controls.create.for = Desk /\ held.controls.create.told = TRUE
          /\ held.controls.create.in = In({"NONE"})
      BY <1>2 DEF ProductsManager, Control, New
    <3> QED BY <3>1, <3>2, <3>3 DEF Sends
  <2> QED BY <1>1, <1>3, <2>1, HeldRows DEF Fit, Heard, Sends, OfferedRegardless, Staff, Desk,
              Owner
<1>7. Fit(p, held, "update", held.controls.update)
  <2>1. Sends(held.controls.update, ProductMoves.update, Owner, FALSE, Desk,
              In({"ACTIVE", "INACTIVE"}), "render", FALSE)
    <3>1. /\ Products.update.moves = ProductMoves.update /\ Products.update.for = Owner
          /\ Products.update.own = FALSE
      BY DEF Products, Route
    <3>2. ProdutoActions.update.route = Products.update /\ ProdutoActions.update.then = "render"
      BY DEF ProdutoActions, Render, Action
    <3>3. /\ held.controls.update.action.route = ProdutoActions.update.route
          /\ held.controls.update.action.then = ProdutoActions.update.then
          /\ held.controls.update.for = Desk /\ held.controls.update.told = FALSE
          /\ held.controls.update.in = In({"ACTIVE", "INACTIVE"})
      BY Zenon, <1>2 DEF ProductsManager, Control, Silent, Again
    <3> QED BY <3>1, <3>2, <3>3 DEF Sends
  <2> QED BY <1>1, <1>3, <2>1, HeldRows DEF Fit, Heard, Sends, OfferedRegardless, Deaf, Staff,
              Desk, Owner
<1>8. Fit(p, held, "stock", held.controls.stock)
  <2>1. Sends(held.controls.stock, ProductMoves.stock, Desk, FALSE, Desk,
              In({"ACTIVE", "INACTIVE"}), "render", FALSE)
    <3>1. /\ Products.stock.moves = ProductMoves.stock /\ Products.stock.for = Desk
          /\ Products.stock.own = FALSE
      BY DEF Products, Route
    <3>2. ProdutoActions.stock.route = Products.stock /\ ProdutoActions.stock.then = "render"
      BY DEF ProdutoActions, Render, Action
    <3>3. /\ held.controls.stock.action.route = ProdutoActions.stock.route
          /\ held.controls.stock.action.then = ProdutoActions.stock.then
          /\ held.controls.stock.for = Desk /\ held.controls.stock.told = FALSE
          /\ held.controls.stock.in = In({"ACTIVE", "INACTIVE"})
      BY <1>2 DEF StockControl, Control, Silent
    <3> QED BY <3>1, <3>2, <3>3 DEF Sends
  <2>2. In({"ACTIVE", "INACTIVE"}) \cap RowsOf(held) \subseteq From(ProductMoves.stock)
    BY <1>5, Starting, Everywhere DEF ProductMoves, In, Plain, Row
  <2> QED BY <1>1, <1>3, <2>1, <2>2, HeldRows DEF Fit, Heard, Sends, Taken, Deaf, Staff, Desk,
              Owner
<1> HIDE DEF held
<1> QED BY <1>1, <1>2, <1>6, <1>7, <1>8 DEF Suits

LEMMA ServicosSuits == Suits(ServicosPage, ServicosPage.shows.service)
<1> DEFINE p == ServicosPage
           held == Held(ServiceMoves, CreateServiceForm ++ ServiceRow)
<1>1. p.name = "servicos" /\ p.for = Staff /\ p.shows.service = held
  BY DEF ServicosPage, Page
<1>2. /\ DOMAIN held.controls = {"create", "update"}
      /\ held.controls.create = CreateServiceForm.create
      /\ held.controls.update = ServiceRow.update
  BY DEF Held, CreateServiceForm, ServiceRow, ++
<1>3. DOMAIN ServiceMoves = {"create", "update"}
  BY DEF ServiceMoves
<1>4. ASSUME NEW s
      PROVE  Loose(s, ServiceMoves.create) /\ Loose(s, ServiceMoves.update)
  BY Zenon, Loosely DEF ServiceMoves
<1>5. \A w \in RowsOf(held) : ~w.tied
  BY <1>3, <1>4, HeldRows
<1>6. Fit(p, held, "create", held.controls.create)
  <2>1. Sends(held.controls.create, ServiceMoves.create, Owner, FALSE, Owner, In({"NONE"}),
              "render", TRUE)
    <3>1. /\ Services.create.moves = ServiceMoves.create /\ Services.create.for = Owner
          /\ Services.create.own = FALSE
      BY DEF Services, Route
    <3>2. ServicoActions.create.route = Services.create /\ ServicoActions.create.then = "render"
      BY DEF ServicoActions, Render, Action
    <3>3. /\ held.controls.create.action.route = ServicoActions.create.route
          /\ held.controls.create.action.then = ServicoActions.create.then
          /\ held.controls.create.for = Owner /\ held.controls.create.told = TRUE
          /\ held.controls.create.in = In({"NONE"})
      BY <1>2 DEF CreateServiceForm, Control, New
    <3> QED BY <3>1, <3>2, <3>3 DEF Sends
  <2>2. In({"NONE"}) \cap RowsOf(held) \subseteq From(ServiceMoves.create)
    BY <1>5, Starting, Everywhere DEF ServiceMoves, In, Plain, Row
  <2> QED BY <1>1, <1>3, <2>1, <2>2, HeldRows DEF Fit, Heard, Sends, Taken, Staff, Desk, Owner
<1>7. Fit(p, held, "update", held.controls.update)
  <2>1. Sends(held.controls.update, ServiceMoves.update, Owner, FALSE, Owner,
              In({"ACTIVE", "INACTIVE"}), "render", TRUE)
    <3>1. /\ Services.update.moves = ServiceMoves.update /\ Services.update.for = Owner
          /\ Services.update.own = FALSE
      BY DEF Services, Route
    <3>2. ServicoActions.update.route = Services.update /\ ServicoActions.update.then = "render"
      BY DEF ServicoActions, Render, Action
    <3>3. /\ held.controls.update.action.route = ServicoActions.update.route
          /\ held.controls.update.action.then = ServicoActions.update.then
          /\ held.controls.update.for = Owner /\ held.controls.update.told = TRUE
          /\ held.controls.update.in = In({"ACTIVE", "INACTIVE"})
      BY <1>2 DEF ServiceRow, Control
    <3> QED BY <3>1, <3>2, <3>3 DEF Sends
  <2>2. In({"ACTIVE", "INACTIVE"}) \cap RowsOf(held) \subseteq From(ServiceMoves.update)
    BY <1>5, Starting, Everywhere DEF ServiceMoves, In, Plain, Row
  <2> QED BY <1>1, <1>3, <2>1, <2>2, HeldRows DEF Fit, Heard, Sends, Taken, Staff, Desk, Owner
<1> HIDE DEF held
<1> QED BY <1>1, <1>2, <1>6, <1>7 DEF Suits

LEMMA ProfissionaisSuits == Suits(ProfissionaisPage, ProfissionaisPage.shows.professional)
<1> DEFINE p == ProfissionaisPage
           held == Held(ProfessionalMoves, CreateProfessionalForm ++ ProfessionalRow)
<1>1. p.name = "profissionais" /\ p.for = Staff /\ p.shows.professional = held
  BY DEF ProfissionaisPage, Page
<1>2. /\ DOMAIN held.controls = {"create", "activate", "deactivate"}
      /\ held.controls.create = CreateProfessionalForm.create
      /\ held.controls.activate = ProfessionalRow.activate
      /\ held.controls.deactivate = ProfessionalRow.deactivate
  BY DEF Held, CreateProfessionalForm, ProfessionalRow, ++
<1>3. DOMAIN ProfessionalMoves = {"create", "activate", "deactivate", "edit", "hours", "fill",
        "vacate"}
  BY DEF ProfessionalMoves
<1>4. Fit(p, held, "create", held.controls.create)
  <2>1. Sends(held.controls.create, ProfessionalMoves.create, Owner, FALSE, Owner, In({"NONE"}),
              "render", TRUE)
    <3>1. /\ Professionals.create.moves = ProfessionalMoves.create
          /\ Professionals.create.for = Owner
          /\ Professionals.create.own = FALSE
      BY DEF Professionals, Route
    <3>2. /\ ProfissionaisActions.create.route = Professionals.create
          /\ ProfissionaisActions.create.then = "render"
      BY DEF ProfissionaisActions, Render, Action
    <3>3. /\ held.controls.create.action.route = ProfissionaisActions.create.route
          /\ held.controls.create.action.then = ProfissionaisActions.create.then
          /\ held.controls.create.for = Owner /\ held.controls.create.told = TRUE
          /\ held.controls.create.in = In({"NONE"})
      BY <1>2 DEF CreateProfessionalForm, Control, New
    <3> QED BY <3>1, <3>2, <3>3 DEF Sends
  <2> QED BY <1>1, <1>3, <2>1, HeldRows DEF Fit, Heard, Sends, OfferedRegardless, Staff, Desk,
              Owner
<1>5. Fit(p, held, "activate", held.controls.activate)
  <2>1. Sends(held.controls.activate, ProfessionalMoves.activate, Owner, FALSE, Owner,
              In({"INACTIVE"}), "render", TRUE)
    <3>1. /\ Professionals.activate.moves = ProfessionalMoves.activate
          /\ Professionals.activate.for = Owner
          /\ Professionals.activate.own = FALSE
      BY DEF Professionals, Route
    <3>2. /\ ProfissionaisActions.activate.route = Professionals.activate
          /\ ProfissionaisActions.activate.then = "render"
      BY DEF ProfissionaisActions, Render, Action
    <3>3. /\ held.controls.activate.action.route = ProfissionaisActions.activate.route
          /\ held.controls.activate.action.then = ProfissionaisActions.activate.then
          /\ held.controls.activate.for = Owner /\ held.controls.activate.told = TRUE
          /\ held.controls.activate.in = In({"INACTIVE"})
      BY <1>2 DEF ProfessionalRow, Control
    <3> QED BY <3>1, <3>2, <3>3 DEF Sends
  <2> QED BY <1>1, <1>3, <2>1, HeldRows DEF Fit, Heard, Sends, OfferedRegardless, Staff, Desk,
              Owner
<1>6. Fit(p, held, "deactivate", held.controls.deactivate)
  <2>1. Sends(held.controls.deactivate, ProfessionalMoves.deactivate, Owner, FALSE, Owner,
              In({"ACTIVE", "BUSY"}), "render", TRUE)
    <3>1. /\ Professionals.deactivate.moves = ProfessionalMoves.deactivate
          /\ Professionals.deactivate.for = Owner
          /\ Professionals.deactivate.own = FALSE
      BY DEF Professionals, Route
    <3>2. /\ ProfissionaisActions.deactivate.route = Professionals.deactivate
          /\ ProfissionaisActions.deactivate.then = "render"
      BY DEF ProfissionaisActions, Render, Action
    <3>3. /\ held.controls.deactivate.action.route = ProfissionaisActions.deactivate.route
          /\ held.controls.deactivate.action.then = ProfissionaisActions.deactivate.then
          /\ held.controls.deactivate.for = Owner /\ held.controls.deactivate.told = TRUE
          /\ held.controls.deactivate.in = In({"ACTIVE", "BUSY"})
      BY <1>2 DEF ProfessionalRow, Control
    <3> QED BY <3>1, <3>2, <3>3 DEF Sends
  <2> QED BY <1>1, <1>3, <2>1, HeldRows DEF Fit, Heard, Sends, OfferedRegardless, Staff, Desk,
              Owner
<1> HIDE DEF held
<1> QED BY <1>1, <1>2, <1>4, <1>5, <1>6 DEF Suits

LEMMA ProfissionalSuits == Suits(ProfissionalPage, ProfissionalPage.shows.professional)
<1> DEFINE p == ProfissionalPage
           held == Held(ProfessionalMoves, ProfessionalProfileHeader ++ WorkingHoursEditor)
<1>1. p.name = "profissional" /\ p.for = {"OWNER", "PROFESSIONAL"} /\ p.shows.professional = held
  BY DEF ProfissionalPage, Page
<1>2. /\ DOMAIN held.controls = {"edit", "hours"}
      /\ held.controls.edit = ProfessionalProfileHeader.edit
      /\ held.controls.hours = WorkingHoursEditor.hours
  BY DEF Held, ProfessionalProfileHeader, WorkingHoursEditor, ++
<1>3. DOMAIN ProfessionalMoves = {"create", "activate", "deactivate", "edit", "hours", "fill",
        "vacate"}
  BY DEF ProfessionalMoves
<1>4. Fit(p, held, "edit", held.controls.edit)
  <2>1. Sends(held.controls.edit, ProfessionalMoves.edit, Owner, FALSE, Owner,
              In({"ACTIVE", "BUSY", "INACTIVE"}), "render", TRUE)
    <3>1. /\ Professionals.edit.moves = ProfessionalMoves.edit /\ Professionals.edit.for = Owner
          /\ Professionals.edit.own = FALSE
      BY DEF Professionals, Route
    <3>2. /\ ProfissionalActions.edit.route = Professionals.edit
          /\ ProfissionalActions.edit.then = "render"
      BY DEF ProfissionalActions, Render, Action
    <3>3. /\ held.controls.edit.action.route = ProfissionalActions.edit.route
          /\ held.controls.edit.action.then = ProfissionalActions.edit.then
          /\ held.controls.edit.for = Owner /\ held.controls.edit.told = TRUE
          /\ held.controls.edit.in = In({"ACTIVE", "BUSY", "INACTIVE"})
      BY <1>2 DEF ProfessionalProfileHeader, Control
    <3> QED BY <3>1, <3>2, <3>3 DEF Sends
  <2>2. In({"ACTIVE", "BUSY", "INACTIVE"}) \cap RowsOf(held)
           \subseteq From(ProfessionalMoves.edit)
    BY Starting, Everywhere DEF ProfessionalMoves, In, Plain, Row
  <2> QED BY <1>1, <1>3, <2>1, <2>2, HeldRows DEF Fit, Heard, Sends, Taken, Staff, Desk, Owner
<1>5. Fit(p, held, "hours", held.controls.hours)
  <2>1. Sends(held.controls.hours, ProfessionalMoves.hours, Staff, TRUE, Staff,
              In({"ACTIVE", "BUSY", "INACTIVE"}), "render", TRUE)
    <3>1. /\ Professionals.hours.moves = ProfessionalMoves.hours /\ Professionals.hours.for = Staff
          /\ Professionals.hours.own = TRUE
      BY DEF Professionals, Own, Route
    <3>2. /\ ProfissionalActions.hours.route = Professionals.hours
          /\ ProfissionalActions.hours.then = "render"
      BY DEF ProfissionalActions, Render, Action
    <3>3. /\ held.controls.hours.action.route = ProfissionalActions.hours.route
          /\ held.controls.hours.action.then = ProfissionalActions.hours.then
          /\ held.controls.hours.for = Staff /\ held.controls.hours.told = TRUE
          /\ held.controls.hours.in = In({"ACTIVE", "BUSY", "INACTIVE"})
      BY <1>2 DEF WorkingHoursEditor, Control
    <3> QED BY <3>1, <3>2, <3>3 DEF Sends
  <2>2. In({"ACTIVE", "BUSY", "INACTIVE"}) \cap RowsOf(held)
           \subseteq From(ProfessionalMoves.hours)
    BY Starting, Everywhere DEF ProfessionalMoves, In, Plain, Row
  <2> QED BY <1>1, <1>3, <2>1, <2>2, HeldRows DEF Fit, Heard, Sends, Taken, Staff, Desk, Owner
<1> HIDE DEF held
<1> QED BY <1>1, <1>2, <1>4, <1>5 DEF Suits

LEMMA PhotoSuits == Suits(ProfissionalPage, ProfissionalPage.shows.photo)
<1> DEFINE p == ProfissionalPage
           held == Held(PictureMoves, ProfessionalPhoto)
<1>1. p.name = "profissional" /\ p.for = {"OWNER", "PROFESSIONAL"} /\ p.shows.photo = held
  BY DEF ProfissionalPage, Page
<1>2. /\ DOMAIN held.controls = {"upload", "unload"}
      /\ held.controls.upload = ProfessionalPhoto.upload
      /\ held.controls.unload = ProfessionalPhoto.unload
  BY DEF Held, ProfessionalPhoto, ++
<1>3. DOMAIN PictureMoves = {"upload", "remove"}
  BY DEF PictureMoves
<1>4. ASSUME NEW s
      PROVE  Loose(s, PictureMoves.upload) /\ Loose(s, PictureMoves.remove)
  BY Zenon, Loosely DEF PictureMoves
<1>5. \A w \in RowsOf(held) : ~w.tied
  BY <1>3, <1>4, HeldRows
<1>6. Fit(p, held, "upload", held.controls.upload)
  <2>1. Sends(held.controls.upload, PictureMoves.upload, {"OWNER", "PROFESSIONAL"}, TRUE, Staff,
              In({"NONE", "SET"}), "render", TRUE)
    <3>1. /\ Professionals.upload.moves = PictureMoves.upload
          /\ Professionals.upload.for = {"OWNER", "PROFESSIONAL"}
          /\ Professionals.upload.own = TRUE
      BY DEF Professionals, Own, Route
    <3>2. /\ ProfissionalActions.upload.route = Professionals.upload
          /\ ProfissionalActions.upload.then = "render"
      BY DEF ProfissionalActions, Render, Action
    <3>3. /\ held.controls.upload.action.route = ProfissionalActions.upload.route
          /\ held.controls.upload.action.then = ProfissionalActions.upload.then
          /\ held.controls.upload.for = Staff /\ held.controls.upload.told = TRUE
          /\ held.controls.upload.in = In({"NONE", "SET"})
      BY <1>2 DEF ProfessionalPhoto, Control
    <3> QED BY <3>1, <3>2, <3>3 DEF Sends
  <2>2. In({"NONE", "SET"}) \cap RowsOf(held) \subseteq From(PictureMoves.upload)
    BY <1>5, Starting, Everywhere DEF PictureMoves, In, Plain, Row
  <2> QED BY <1>1, <1>3, <2>1, <2>2, HeldRows DEF Fit, Heard, Sends, Taken, Staff, Desk, Owner
<1>7. Fit(p, held, "unload", held.controls.unload)
  <2>1. Sends(held.controls.unload, PictureMoves.remove, {"OWNER", "PROFESSIONAL"}, TRUE, Staff,
              In({"SET"}), "render", TRUE)
    <3>1. /\ Professionals.unload.moves = PictureMoves.remove
          /\ Professionals.unload.for = {"OWNER", "PROFESSIONAL"}
          /\ Professionals.unload.own = TRUE
      BY DEF Professionals, Own, Route
    <3>2. /\ ProfissionalActions.unload.route = Professionals.unload
          /\ ProfissionalActions.unload.then = "render"
      BY DEF ProfissionalActions, Render, Action
    <3>3. /\ held.controls.unload.action.route = ProfissionalActions.unload.route
          /\ held.controls.unload.action.then = ProfissionalActions.unload.then
          /\ held.controls.unload.for = Staff /\ held.controls.unload.told = TRUE
          /\ held.controls.unload.in = In({"SET"})
      BY <1>2 DEF ProfessionalPhoto, Control
    <3> QED BY <3>1, <3>2, <3>3 DEF Sends
  <2>2. In({"SET"}) \cap RowsOf(held) \subseteq From(PictureMoves.remove)
    BY <1>5, Starting, Everywhere DEF PictureMoves, In, Plain, Row
  <2> QED BY <1>1, <1>3, <2>1, <2>2, HeldRows DEF Fit, Heard, Sends, Taken, Staff, Desk, Owner
<1> HIDE DEF held
<1> QED BY <1>1, <1>2, <1>6, <1>7 DEF Suits

LEMMA LinkSuits == Suits(ProfissionalPage, ProfissionalPage.shows.link)
<1> DEFINE p == ProfissionalPage
           held == Held(LinkMoves, ServiceLinks)
<1>1. p.name = "profissional" /\ p.for = {"OWNER", "PROFESSIONAL"} /\ p.shows.link = held
  BY DEF ProfissionalPage, Page
<1>2. /\ DOMAIN held.controls = {"link"}
      /\ held.controls.link = ServiceLinks.link
  BY DEF Held, ServiceLinks, ++
<1>3. DOMAIN LinkMoves = {"link"}
  BY DEF LinkMoves
<1>4. ASSUME NEW s
      PROVE  Loose(s, LinkMoves.link)
  BY Zenon, Loosely DEF LinkMoves
<1>5. \A w \in RowsOf(held) : ~w.tied
  BY <1>3, <1>4, HeldRows
<1>6. Fit(p, held, "link", held.controls.link)
  <2>1. Sends(held.controls.link, LinkMoves.link, Owner, FALSE, Owner,
              In({"NONE", "ON", "OFF"}), "render", TRUE)
    <3>1. /\ Services.link.moves = LinkMoves.link /\ Services.link.for = Owner
          /\ Services.link.own = FALSE
      BY DEF Services, Route
    <3>2. ProfissionalActions.link.route = Services.link /\ ProfissionalActions.link.then = "render"
      BY DEF ProfissionalActions, Render, Action
    <3>3. /\ held.controls.link.action.route = ProfissionalActions.link.route
          /\ held.controls.link.action.then = ProfissionalActions.link.then
          /\ held.controls.link.for = Owner /\ held.controls.link.told = TRUE
          /\ held.controls.link.in = In({"NONE", "ON", "OFF"})
      BY <1>2 DEF ServiceLinks, Control
    <3> QED BY <3>1, <3>2, <3>3 DEF Sends
  <2>2. In({"NONE", "ON", "OFF"}) \cap RowsOf(held) \subseteq From(LinkMoves.link)
    BY <1>5, Starting, Everywhere DEF LinkMoves, In, Plain, Row
  <2> QED BY <1>1, <1>3, <2>1, <2>2, HeldRows DEF Fit, Heard, Sends, Taken, Staff, Desk, Owner
<1> HIDE DEF held
<1> QED BY <1>1, <1>2, <1>6 DEF Suits

LEMMA BlockSuits == Suits(ProfissionalPage, ProfissionalPage.shows.block)
<1> DEFINE p == ProfissionalPage
           held == Held(BlockMoves, TimeBlocksManager)
<1>1. p.name = "profissional" /\ p.for = {"OWNER", "PROFESSIONAL"} /\ p.shows.block = held
  BY DEF ProfissionalPage, Page
<1>2. /\ DOMAIN held.controls = {"block", "unblock"}
      /\ held.controls.block = TimeBlocksManager.block
      /\ held.controls.unblock = TimeBlocksManager.unblock
  BY DEF Held, TimeBlocksManager, ++
<1>3. DOMAIN BlockMoves = {"create", "remove"}
  BY DEF BlockMoves
<1>4. ASSUME NEW s
      PROVE  Loose(s, BlockMoves.create) /\ Loose(s, BlockMoves.remove)
  BY Zenon, Loosely DEF BlockMoves
<1>5. \A w \in RowsOf(held) : ~w.tied
  BY <1>3, <1>4, HeldRows
<1>6. Fit(p, held, "block", held.controls.block)
  <2>1. Sends(held.controls.block, BlockMoves.create, Staff, TRUE, Staff, In({"NONE"}),
              "render", TRUE)
    <3>1. /\ TimeBlocks.create.moves = BlockMoves.create /\ TimeBlocks.create.for = Staff
          /\ TimeBlocks.create.own = TRUE
      BY DEF TimeBlocks, Own, Route
    <3>2. /\ ProfissionalActions.block.route = TimeBlocks.create
          /\ ProfissionalActions.block.then = "render"
      BY DEF ProfissionalActions, Render, Action
    <3>3. /\ held.controls.block.action.route = ProfissionalActions.block.route
          /\ held.controls.block.action.then = ProfissionalActions.block.then
          /\ held.controls.block.for = Staff /\ held.controls.block.told = TRUE
          /\ held.controls.block.in = In({"NONE"})
      BY <1>2 DEF TimeBlocksManager, Control, New
    <3> QED BY <3>1, <3>2, <3>3 DEF Sends
  <2>2. In({"NONE"}) \cap RowsOf(held) \subseteq From(BlockMoves.create)
    BY <1>5, Starting, Everywhere DEF BlockMoves, In, Plain, Row
  <2> QED BY <1>1, <1>3, <2>1, <2>2, HeldRows DEF Fit, Heard, Sends, Taken, Staff, Desk, Owner
<1>7. Fit(p, held, "unblock", held.controls.unblock)
  <2>1. Sends(held.controls.unblock, BlockMoves.remove, Staff, TRUE, Staff, In({"SET"}),
              "render", TRUE)
    <3>1. /\ TimeBlocks.remove.moves = BlockMoves.remove /\ TimeBlocks.remove.for = Staff
          /\ TimeBlocks.remove.own = TRUE
      BY DEF TimeBlocks, Own, Route
    <3>2. /\ ProfissionalActions.unblock.route = TimeBlocks.remove
          /\ ProfissionalActions.unblock.then = "render"
      BY DEF ProfissionalActions, Render, Action
    <3>3. /\ held.controls.unblock.action.route = ProfissionalActions.unblock.route
          /\ held.controls.unblock.action.then = ProfissionalActions.unblock.then
          /\ held.controls.unblock.for = Staff /\ held.controls.unblock.told = TRUE
          /\ held.controls.unblock.in = In({"SET"})
      BY <1>2 DEF TimeBlocksManager, Control
    <3> QED BY <3>1, <3>2, <3>3 DEF Sends
  <2>2. In({"SET"}) \cap RowsOf(held) \subseteq From(BlockMoves.remove)
    BY <1>5, Starting, Everywhere DEF BlockMoves, In, Plain, Row
  <2> QED BY <1>1, <1>3, <2>1, <2>2, HeldRows DEF Fit, Heard, Sends, Taken, Staff, Desk, Owner
<1> HIDE DEF held
<1> QED BY <1>1, <1>2, <1>6, <1>7 DEF Suits

LEMMA SalonSuits == Suits(ConfiguracoesPage, ConfiguracoesPage.shows.salon)
<1> DEFINE p == ConfiguracoesPage
           held == Held(SalonMoves, TenantProfileSettingsForm)
<1>1. p.name = "configuracoes" /\ p.for = Owner /\ p.shows.salon = held
  BY DEF ConfiguracoesPage, Page
<1>2. /\ DOMAIN held.controls = {"profile"}
      /\ held.controls.profile = TenantProfileSettingsForm.profile
  BY DEF Held, TenantProfileSettingsForm, ++
<1>3. DOMAIN SalonMoves = {"profile", "listing"}
  BY DEF SalonMoves
<1>4. Fit(p, held, "profile", held.controls.profile)
  <2>1. Sends(held.controls.profile, SalonMoves.profile, Owner, FALSE, Owner, In({"HERE"}),
              "render", TRUE)
    <3>1. /\ Tenants.profile.moves = SalonMoves.profile /\ Tenants.profile.for = Owner
          /\ Tenants.profile.own = FALSE
      BY DEF Tenants, Free, Route
    <3>2. /\ ConfiguracaoActions.profile.route = Tenants.profile
          /\ ConfiguracaoActions.profile.then = "render"
      BY DEF ConfiguracaoActions, Render, Action
    <3>3. /\ held.controls.profile.action.route = ConfiguracaoActions.profile.route
          /\ held.controls.profile.action.then = ConfiguracaoActions.profile.then
          /\ held.controls.profile.for = Owner /\ held.controls.profile.told = TRUE
          /\ held.controls.profile.in = In({"HERE"})
      BY <1>2 DEF TenantProfileSettingsForm, Control
    <3> QED BY <3>1, <3>2, <3>3 DEF Sends
  <2>2. In({"HERE"}) \cap RowsOf(held) \subseteq From(SalonMoves.profile)
    BY Starting, Everywhere DEF SalonMoves, In, Plain, Row
  <2> QED BY <1>1, <1>3, <2>1, <2>2, HeldRows DEF Fit, Heard, Sends, Taken, Staff, Desk, Owner
<1> HIDE DEF held
<1> QED BY <1>1, <1>2, <1>4 DEF Suits

LEMMA LogoSuits == Suits(ConfiguracoesPage, ConfiguracoesPage.shows.logo)
<1> DEFINE p == ConfiguracoesPage
           held == Held(PictureMoves, LogoSettings)
<1>1. p.name = "configuracoes" /\ p.for = Owner /\ p.shows.logo = held
  BY DEF ConfiguracoesPage, Page
<1>2. /\ DOMAIN held.controls = {"logo", "unlogo"}
      /\ held.controls.logo = LogoSettings.logo
      /\ held.controls.unlogo = LogoSettings.unlogo
  BY DEF Held, LogoSettings, ++
<1>3. DOMAIN PictureMoves = {"upload", "remove"}
  BY DEF PictureMoves
<1>4. ASSUME NEW s
      PROVE  Loose(s, PictureMoves.upload) /\ Loose(s, PictureMoves.remove)
  BY Zenon, Loosely DEF PictureMoves
<1>5. \A w \in RowsOf(held) : ~w.tied
  BY <1>3, <1>4, HeldRows
<1>6. Fit(p, held, "logo", held.controls.logo)
  <2>1. Sends(held.controls.logo, PictureMoves.upload, Owner, FALSE, Owner, In({"NONE", "SET"}),
              "render", TRUE)
    <3>1. /\ Tenants.logo.moves = PictureMoves.upload /\ Tenants.logo.for = Owner
          /\ Tenants.logo.own = FALSE
      BY DEF Tenants, Free, Route
    <3>2. ConfiguracaoActions.logo.route = Tenants.logo /\ ConfiguracaoActions.logo.then = "render"
      BY DEF ConfiguracaoActions, Render, Action
    <3>3. /\ held.controls.logo.action.route = ConfiguracaoActions.logo.route
          /\ held.controls.logo.action.then = ConfiguracaoActions.logo.then
          /\ held.controls.logo.for = Owner /\ held.controls.logo.told = TRUE
          /\ held.controls.logo.in = In({"NONE", "SET"})
      BY <1>2 DEF LogoSettings, Control
    <3> QED BY <3>1, <3>2, <3>3 DEF Sends
  <2>2. In({"NONE", "SET"}) \cap RowsOf(held) \subseteq From(PictureMoves.upload)
    BY <1>5, Starting, Everywhere DEF PictureMoves, In, Plain, Row
  <2> QED BY <1>1, <1>3, <2>1, <2>2, HeldRows DEF Fit, Heard, Sends, Taken, Staff, Desk, Owner
<1>7. Fit(p, held, "unlogo", held.controls.unlogo)
  <2>1. Sends(held.controls.unlogo, PictureMoves.remove, Owner, FALSE, Owner, In({"SET"}),
              "render", TRUE)
    <3>1. /\ Tenants.unlogo.moves = PictureMoves.remove /\ Tenants.unlogo.for = Owner
          /\ Tenants.unlogo.own = FALSE
      BY DEF Tenants, Free, Route
    <3>2. /\ ConfiguracaoActions.unlogo.route = Tenants.unlogo
          /\ ConfiguracaoActions.unlogo.then = "render"
      BY DEF ConfiguracaoActions, Render, Action
    <3>3. /\ held.controls.unlogo.action.route = ConfiguracaoActions.unlogo.route
          /\ held.controls.unlogo.action.then = ConfiguracaoActions.unlogo.then
          /\ held.controls.unlogo.for = Owner /\ held.controls.unlogo.told = TRUE
          /\ held.controls.unlogo.in = In({"SET"})
      BY <1>2 DEF LogoSettings, Control
    <3> QED BY <3>1, <3>2, <3>3 DEF Sends
  <2>2. In({"SET"}) \cap RowsOf(held) \subseteq From(PictureMoves.remove)
    BY <1>5, Starting, Everywhere DEF PictureMoves, In, Plain, Row
  <2> QED BY <1>1, <1>3, <2>1, <2>2, HeldRows DEF Fit, Heard, Sends, Taken, Staff, Desk, Owner
<1> HIDE DEF held
<1> QED BY <1>1, <1>2, <1>6, <1>7 DEF Suits

LEMMA GallerySuits == Suits(ConfiguracoesPage, ConfiguracoesPage.shows.gallery)
<1> DEFINE p == ConfiguracoesPage
           held == Held(GalleryMoves, GalleryManager)
<1>1. p.name = "configuracoes" /\ p.for = Owner /\ p.shows.gallery = held
  BY DEF ConfiguracoesPage, Page
<1>2. /\ DOMAIN held.controls = {"add", "remove"}
      /\ held.controls.add = GalleryManager.add
      /\ held.controls.remove = GalleryManager.remove
  BY DEF Held, GalleryManager, ++
<1>3. DOMAIN GalleryMoves = {"add", "remove"}
  BY DEF GalleryMoves
<1>4. ASSUME NEW s
      PROVE  Loose(s, GalleryMoves.add) /\ Loose(s, GalleryMoves.remove)
  BY Zenon, Loosely DEF GalleryMoves
<1>5. \A w \in RowsOf(held) : ~w.tied
  BY <1>3, <1>4, HeldRows
<1>6. Fit(p, held, "add", held.controls.add)
  <2>1. Sends(held.controls.add, GalleryMoves.add, Owner, FALSE, Owner,
              In({"NONE", "SOME", "FULL"}), "render", TRUE)
    <3>1. /\ Tenants.add.moves = GalleryMoves.add /\ Tenants.add.for = Owner
          /\ Tenants.add.own = FALSE
      BY DEF Tenants, Free, Route
    <3>2. ConfiguracaoActions.add.route = Tenants.add /\ ConfiguracaoActions.add.then = "render"
      BY DEF ConfiguracaoActions, Render, Action
    <3>3. /\ held.controls.add.action.route = ConfiguracaoActions.add.route
          /\ held.controls.add.action.then = ConfiguracaoActions.add.then
          /\ held.controls.add.for = Owner /\ held.controls.add.told = TRUE
          /\ held.controls.add.in = In({"NONE", "SOME", "FULL"})
      BY <1>2 DEF GalleryManager, Control
    <3> QED BY <3>1, <3>2, <3>3 DEF Sends
  <2> QED BY <1>1, <1>3, <2>1, HeldRows DEF Fit, Heard, Sends, OfferedRegardless, Staff, Desk,
              Owner
<1>7. Fit(p, held, "remove", held.controls.remove)
  <2>1. Sends(held.controls.remove, GalleryMoves.remove, Owner, FALSE, Owner,
              In({"SOME", "FULL"}), "render", TRUE)
    <3>1. /\ Tenants.remove.moves = GalleryMoves.remove /\ Tenants.remove.for = Owner
          /\ Tenants.remove.own = FALSE
      BY DEF Tenants, Free, Route
    <3>2. /\ ConfiguracaoActions.remove.route = Tenants.remove
          /\ ConfiguracaoActions.remove.then = "render"
      BY DEF ConfiguracaoActions, Render, Action
    <3>3. /\ held.controls.remove.action.route = ConfiguracaoActions.remove.route
          /\ held.controls.remove.action.then = ConfiguracaoActions.remove.then
          /\ held.controls.remove.for = Owner /\ held.controls.remove.told = TRUE
          /\ held.controls.remove.in = In({"SOME", "FULL"})
      BY <1>2 DEF GalleryManager, Control
    <3> QED BY <3>1, <3>2, <3>3 DEF Sends
  <2>2. In({"SOME", "FULL"}) \cap RowsOf(held) \subseteq From(GalleryMoves.remove)
    BY <1>5, Starting, Everywhere DEF GalleryMoves, In, Plain, Row
  <2> QED BY <1>1, <1>3, <2>1, <2>2, HeldRows DEF Fit, Heard, Sends, Taken, Staff, Desk, Owner
<1> HIDE DEF held
<1> QED BY <1>1, <1>2, <1>6, <1>7 DEF Suits

LEMMA ListingSuits == Suits(MarketplacePage, MarketplacePage.shows.salon)
<1> DEFINE p == MarketplacePage
           held == Held(SalonMoves, MarketplaceSettings)
<1>1. p.name = "marketplace" /\ p.for = Owner /\ p.shows.salon = held
  BY DEF MarketplacePage, Page
<1>2. /\ DOMAIN held.controls = {"save"}
      /\ held.controls.save = MarketplaceSettings.save
  BY DEF Held, MarketplaceSettings, ++
<1>3. DOMAIN SalonMoves = {"profile", "listing"}
  BY DEF SalonMoves
<1>4. Fit(p, held, "save", held.controls.save)
  <2>1. Sends(held.controls.save, SalonMoves.listing, Owner, FALSE, Owner, In({"HERE"}),
              "render", TRUE)
    <3>1. /\ Tenants.listing.moves = SalonMoves.listing /\ Tenants.listing.for = Owner
          /\ Tenants.listing.own = FALSE
      BY DEF Tenants, Free, Route
    <3>2. MarketplaceActions.save.route = Tenants.listing /\ MarketplaceActions.save.then = "render"
      BY DEF MarketplaceActions, Render, Action
    <3>3. /\ held.controls.save.action.route = MarketplaceActions.save.route
          /\ held.controls.save.action.then = MarketplaceActions.save.then
          /\ held.controls.save.for = Owner /\ held.controls.save.told = TRUE
          /\ held.controls.save.in = In({"HERE"})
      BY <1>2 DEF MarketplaceSettings, Control
    <3> QED BY <3>1, <3>2, <3>3 DEF Sends
  <2>2. In({"HERE"}) \cap RowsOf(held) \subseteq From(SalonMoves.listing)
    <3>1. In({"HERE"}) \subseteq From(Both(Stay({"HERE"})))
      BY Everywhere
    <3> QED BY Zenon, <3>1, Starting DEF SalonMoves
  <2> QED BY <1>1, <1>3, <2>1, <2>2, HeldRows DEF Fit, Heard, Sends, Taken, Staff, Desk, Owner
<1> HIDE DEF held
<1> QED BY <1>1, <1>2, <1>4 DEF Suits

LEMMA ReviewSuits == Suits(MarketplacePage, MarketplacePage.shows.review)
<1> DEFINE p == MarketplacePage
           held == Held(ReviewMoves, ReviewsModeration)
<1>1. p.name = "marketplace" /\ p.for = Owner /\ p.shows.review = held
  BY DEF MarketplacePage, Page
<1>2. /\ DOMAIN held.controls = {"hide", "report"}
      /\ held.controls.hide = ReviewsModeration.hide
      /\ held.controls.report = ReviewsModeration.report
  BY DEF Held, ReviewsModeration, ++
<1>3. DOMAIN ReviewMoves = {"hide", "report"}
  BY DEF ReviewMoves
<1>4. ASSUME NEW s
      PROVE  Loose(s, ReviewMoves.hide) /\ Loose(s, ReviewMoves.report)
  BY Zenon, Loosely DEF ReviewMoves
<1>5. \A w \in RowsOf(held) : ~w.tied
  BY <1>3, <1>4, HeldRows
<1>6. Fit(p, held, "hide", held.controls.hide)
  <2>1. Sends(held.controls.hide, ReviewMoves.hide, Owner, FALSE, Owner, In({"VISIBLE"}),
              "render", FALSE)
    <3>1. /\ Reviews.hide.moves = ReviewMoves.hide /\ Reviews.hide.for = Owner
          /\ Reviews.hide.own = FALSE
      BY DEF Reviews, Route
    <3>2. MarketplaceActions.hide.route = Reviews.hide /\ MarketplaceActions.hide.then = "render"
      BY DEF MarketplaceActions, Render, Action
    <3>3. /\ held.controls.hide.action.route = MarketplaceActions.hide.route
          /\ held.controls.hide.action.then = MarketplaceActions.hide.then
          /\ held.controls.hide.for = Owner /\ held.controls.hide.told = FALSE
          /\ held.controls.hide.in = In({"VISIBLE"})
      BY <1>2 DEF ReviewsModeration, Control, Silent
    <3> QED BY <3>1, <3>2, <3>3 DEF Sends
  <2>2. In({"VISIBLE"}) \cap RowsOf(held) \subseteq From(ReviewMoves.hide)
    BY <1>5, Starting, Everywhere DEF ReviewMoves, In, Plain, Row
  <2> QED BY <1>1, <1>3, <2>1, <2>2, HeldRows DEF Fit, Heard, Sends, Taken, Deaf, Staff, Desk,
              Owner
<1>7. Fit(p, held, "report", held.controls.report)
  <2>1. Sends(held.controls.report, ReviewMoves.report, Owner, FALSE, Owner, In({"VISIBLE"}),
              "render", FALSE)
    <3>1. /\ Reviews.report.moves = ReviewMoves.report /\ Reviews.report.for = Owner
          /\ Reviews.report.own = FALSE
      BY DEF Reviews, Route
    <3>2. /\ MarketplaceActions.report.route = Reviews.report
          /\ MarketplaceActions.report.then = "render"
      BY DEF MarketplaceActions, Render, Action
    <3>3. /\ held.controls.report.action.route = MarketplaceActions.report.route
          /\ held.controls.report.action.then = MarketplaceActions.report.then
          /\ held.controls.report.for = Owner /\ held.controls.report.told = FALSE
          /\ held.controls.report.in = In({"VISIBLE"})
      BY <1>2 DEF ReviewsModeration, Control, Silent
    <3> QED BY <3>1, <3>2, <3>3 DEF Sends
  <2>2. In({"VISIBLE"}) \cap RowsOf(held) \subseteq From(ReviewMoves.report)
    BY <1>5, Starting, Everywhere DEF ReviewMoves, In, Plain, Row
  <2> QED BY <1>1, <1>3, <2>1, <2>2, HeldRows DEF Fit, Heard, Sends, Taken, Deaf, Staff, Desk,
              Owner
<1> HIDE DEF held
<1> QED BY <1>1, <1>2, <1>6, <1>7 DEF Suits

LEMMA EsperaSuits == Suits(ListaEsperaPage, ListaEsperaPage.shows.waiting)
<1> DEFINE p == ListaEsperaPage
           held == Held(WaitlistMoves, WaitlistRow)
<1>1. p.name = "espera" /\ p.for = Owner /\ p.shows.waiting = held
  BY DEF ListaEsperaPage, Page
<1>2. /\ DOMAIN held.controls = {"contact", "resolve"}
      /\ held.controls.contact = WaitlistRow.contact
      /\ held.controls.resolve = WaitlistRow.resolve
  BY DEF Held, WaitlistRow, ++
<1>3. DOMAIN WaitlistMoves = {"join", "contact", "resolve"}
  BY DEF WaitlistMoves
<1>4. ASSUME NEW s
      PROVE  Loose(s, WaitlistMoves.join) /\ Loose(s, WaitlistMoves.contact) /\
             Loose(s, WaitlistMoves.resolve)
  BY Zenon, Loosely DEF WaitlistMoves
<1>5. \A w \in RowsOf(held) : ~w.tied
  BY <1>3, <1>4, HeldRows
<1>6. Fit(p, held, "contact", held.controls.contact)
  <2>1. Sends(held.controls.contact, WaitlistMoves.contact, Owner, FALSE, Owner,
              In({"PENDING"}), "render", TRUE)
    <3>1. /\ Waitlist.contact.moves = WaitlistMoves.contact /\ Waitlist.contact.for = Owner
          /\ Waitlist.contact.own = FALSE
      BY DEF Waitlist, Route
    <3>2. EsperaActions.contact.route = Waitlist.contact /\ EsperaActions.contact.then = "render"
      BY DEF EsperaActions, Render, Action
    <3>3. /\ held.controls.contact.action.route = EsperaActions.contact.route
          /\ held.controls.contact.action.then = EsperaActions.contact.then
          /\ held.controls.contact.for = Owner /\ held.controls.contact.told = TRUE
          /\ held.controls.contact.in = In({"PENDING"})
      BY <1>2 DEF WaitlistRow, Control
    <3> QED BY <3>1, <3>2, <3>3 DEF Sends
  <2>2. In({"PENDING"}) \cap RowsOf(held) \subseteq From(WaitlistMoves.contact)
    BY <1>5, Starting, Everywhere DEF WaitlistMoves, In, Plain, Row
  <2> QED BY <1>1, <1>3, <2>1, <2>2, HeldRows DEF Fit, Heard, Sends, Taken, Staff, Desk, Owner
<1>7. Fit(p, held, "resolve", held.controls.resolve)
  <2>1. Sends(held.controls.resolve, WaitlistMoves.resolve, Owner, FALSE, Owner,
              In({"PENDING"}), "render", TRUE)
    <3>1. /\ Waitlist.resolve.moves = WaitlistMoves.resolve /\ Waitlist.resolve.for = Owner
          /\ Waitlist.resolve.own = FALSE
      BY DEF Waitlist, Route
    <3>2. EsperaActions.resolve.route = Waitlist.resolve /\ EsperaActions.resolve.then = "render"
      BY DEF EsperaActions, Render, Action
    <3>3. /\ held.controls.resolve.action.route = EsperaActions.resolve.route
          /\ held.controls.resolve.action.then = EsperaActions.resolve.then
          /\ held.controls.resolve.for = Owner /\ held.controls.resolve.told = TRUE
          /\ held.controls.resolve.in = In({"PENDING"})
      BY <1>2 DEF WaitlistRow, Control
    <3> QED BY <3>1, <3>2, <3>3 DEF Sends
  <2>2. In({"PENDING"}) \cap RowsOf(held) \subseteq From(WaitlistMoves.resolve)
    BY <1>5, Starting, Everywhere DEF WaitlistMoves, In, Plain, Row
  <2> QED BY <1>1, <1>3, <2>1, <2>2, HeldRows DEF Fit, Heard, Sends, Taken, Staff, Desk, Owner
<1> HIDE DEF held
<1> QED BY <1>1, <1>2, <1>6, <1>7 DEF Suits

LEMMA FichasSuits == Suits(FichasPage, FichasPage.shows.form)
<1> DEFINE p == FichasPage
           held == Held(FormMoves, FormsManager)
<1>1. p.name = "fichas" /\ p.for = Owner /\ p.shows.form = held
  BY DEF FichasPage, Page
<1>2. /\ DOMAIN held.controls = {"create", "update"}
      /\ held.controls.create = FormsManager.create
      /\ held.controls.update = FormsManager.update
  BY DEF Held, FormsManager, ++
<1>3. DOMAIN FormMoves = {"create", "update"}
  BY DEF FormMoves
<1>4. ASSUME NEW s
      PROVE  Loose(s, FormMoves.create) /\ Loose(s, FormMoves.update)
  BY Zenon, Loosely DEF FormMoves
<1>5. \A w \in RowsOf(held) : ~w.tied
  BY <1>3, <1>4, HeldRows
<1>6. Fit(p, held, "create", held.controls.create)
  <2>1. Sends(held.controls.create, FormMoves.create, Owner, FALSE, Owner, In({"NONE"}),
              "render", TRUE)
    <3>1. /\ Intake.create.moves = FormMoves.create /\ Intake.create.for = Owner
          /\ Intake.create.own = FALSE
      BY DEF Intake, Route
    <3>2. FichaActions.create.route = Intake.create /\ FichaActions.create.then = "render"
      BY DEF FichaActions, Render, Action
    <3>3. /\ held.controls.create.action.route = FichaActions.create.route
          /\ held.controls.create.action.then = FichaActions.create.then
          /\ held.controls.create.for = Owner /\ held.controls.create.told = TRUE
          /\ held.controls.create.in = In({"NONE"})
      BY <1>2 DEF FormsManager, Control, New
    <3> QED BY <3>1, <3>2, <3>3 DEF Sends
  <2>2. In({"NONE"}) \cap RowsOf(held) \subseteq From(FormMoves.create)
    BY <1>5, Starting, Everywhere DEF FormMoves, In, Plain, Row
  <2> QED BY <1>1, <1>3, <2>1, <2>2, HeldRows DEF Fit, Heard, Sends, Taken, Staff, Desk, Owner
<1>7. Fit(p, held, "update", held.controls.update)
  <2>1. Sends(held.controls.update, FormMoves.update, Owner, FALSE, Owner,
              In({"ACTIVE", "INACTIVE"}), "render", TRUE)
    <3>1. /\ Intake.update.moves = FormMoves.update /\ Intake.update.for = Owner
          /\ Intake.update.own = FALSE
      BY DEF Intake, Route
    <3>2. FichaActions.update.route = Intake.update /\ FichaActions.update.then = "render"
      BY DEF FichaActions, Render, Action
    <3>3. /\ held.controls.update.action.route = FichaActions.update.route
          /\ held.controls.update.action.then = FichaActions.update.then
          /\ held.controls.update.for = Owner /\ held.controls.update.told = TRUE
          /\ held.controls.update.in = In({"ACTIVE", "INACTIVE"})
      BY <1>2 DEF FormsManager, Control
    <3> QED BY <3>1, <3>2, <3>3 DEF Sends
  <2>2. In({"ACTIVE", "INACTIVE"}) \cap RowsOf(held) \subseteq From(FormMoves.update)
    BY <1>5, Starting, Everywhere DEF FormMoves, In, Plain, Row
  <2> QED BY <1>1, <1>3, <2>1, <2>2, HeldRows DEF Fit, Heard, Sends, Taken, Staff, Desk, Owner
<1> HIDE DEF held
<1> QED BY <1>1, <1>2, <1>6, <1>7 DEF Suits

LEMMA NovoClienteSuits == Suits(NovoClientePage, NovoClientePage.shows.client)
<1> DEFINE p == NovoClientePage
           held == Held(ClientMoves, [create |-> ClientForm.create])
<1>1. p.name = "novoCliente" /\ p.for = Desk /\ p.shows.client = held
  BY DEF NovoClientePage, Page
<1>2. /\ DOMAIN held.controls = {"create"}
  BY DEF Held
<1>3. DOMAIN ClientMoves = {"create", "update"}
  BY DEF ClientMoves
<1>4. ASSUME NEW s
      PROVE  Loose(s, ClientMoves.create) /\ Loose(s, ClientMoves.update)
  BY Zenon, Loosely DEF ClientMoves
<1>5. \A w \in RowsOf(held) : ~w.tied
  BY <1>3, <1>4, HeldRows
<1>6. Fit(p, held, "create", held.controls.create)
  <2>1. Sends(held.controls.create, ClientMoves.create, Desk, FALSE, Desk, In({"NONE"}),
              "leave", TRUE)
    <3>1. /\ Clients.create.moves = ClientMoves.create /\ Clients.create.for = Desk
          /\ Clients.create.own = FALSE
      BY DEF Clients, Route
    <3>2. ClienteActions.create.route = Clients.create /\ ClienteActions.create.then = "leave"
      BY DEF ClienteActions, Leave, Action
    <3>3. /\ held.controls.create.action.route = ClienteActions.create.route
          /\ held.controls.create.action.then = ClienteActions.create.then
          /\ held.controls.create.for = Desk /\ held.controls.create.told = TRUE
          /\ held.controls.create.in = In({"NONE"})
      BY <1>2 DEF Held, ClientForm, Control, New
    <3> QED BY <3>1, <3>2, <3>3 DEF Sends
  <2>2. In({"NONE"}) \cap RowsOf(held) \subseteq From(ClientMoves.create)
    BY <1>5, Starting, Everywhere DEF ClientMoves, In, Plain, Row
  <2> QED BY <1>1, <1>3, <2>1, <2>2, HeldRows DEF Fit, Heard, Sends, Taken, Staff, Desk, Owner
<1> HIDE DEF held
<1> QED BY <1>1, <1>2, <1>6 DEF Suits

LEMMA ClienteSuits == Suits(ClientePage, ClientePage.shows.client)
<1> DEFINE p == ClientePage
           held == Held(ClientMoves, [update |-> ClientForm.update])
<1>1. p.name = "cliente" /\ p.for = Staff /\ p.shows.client = held
  BY DEF ClientePage, Page
<1>2. /\ DOMAIN held.controls = {"update"}
  BY DEF Held
<1>3. DOMAIN ClientMoves = {"create", "update"}
  BY DEF ClientMoves
<1>4. ASSUME NEW s
      PROVE  Loose(s, ClientMoves.create) /\ Loose(s, ClientMoves.update)
  BY Zenon, Loosely DEF ClientMoves
<1>5. \A w \in RowsOf(held) : ~w.tied
  BY <1>3, <1>4, HeldRows
<1>6. Fit(p, held, "update", held.controls.update)
  <2>1. Sends(held.controls.update, ClientMoves.update, Desk, FALSE, Desk, In({"HERE"}),
              "render", TRUE)
    <3>1. /\ Clients.update.moves = ClientMoves.update /\ Clients.update.for = Desk
          /\ Clients.update.own = FALSE
      BY DEF Clients, Route
    <3>2. ClienteActions.update.route = Clients.update /\ ClienteActions.update.then = "render"
      BY DEF ClienteActions, Render, Action
    <3>3. /\ held.controls.update.action.route = ClienteActions.update.route
          /\ held.controls.update.action.then = ClienteActions.update.then
          /\ held.controls.update.for = Desk /\ held.controls.update.told = TRUE
          /\ held.controls.update.in = In({"HERE"})
      BY <1>2 DEF Held, ClientForm, Control
    <3> QED BY <3>1, <3>2, <3>3 DEF Sends
  <2>2. In({"HERE"}) \cap RowsOf(held) \subseteq From(ClientMoves.update)
    BY <1>5, Starting, Everywhere DEF ClientMoves, In, Plain, Row
  <2> QED BY <1>1, <1>3, <2>1, <2>2, HeldRows DEF Fit, Heard, Sends, Taken, Staff, Desk, Owner
<1> HIDE DEF held
<1> QED BY <1>1, <1>2, <1>6 DEF Suits

LEMMA AnswerSuits == Suits(ClientePage, ClientePage.shows.answer)
<1> DEFINE p == ClientePage
           held == Held(AnswerMoves, IntakeSection)
<1>1. p.name = "cliente" /\ p.for = Staff /\ p.shows.answer = held
  BY DEF ClientePage, Page
<1>2. /\ DOMAIN held.controls = {"submit"}
      /\ held.controls.submit = IntakeSection.submit
  BY DEF Held, IntakeSection, ++
<1>3. DOMAIN AnswerMoves = {"submit"}
  BY DEF AnswerMoves
<1>4. ASSUME NEW s
      PROVE  Loose(s, AnswerMoves.submit)
  BY Zenon, Loosely DEF AnswerMoves
<1>5. \A w \in RowsOf(held) : ~w.tied
  BY <1>3, <1>4, HeldRows
<1>6. Fit(p, held, "submit", held.controls.submit)
  <2>1. Sends(held.controls.submit, AnswerMoves.submit, Staff, FALSE, Desk,
              In({"NONE", "GIVEN"}), "render", TRUE)
    <3>1. /\ Intake.submit.moves = AnswerMoves.submit /\ Intake.submit.for = Staff
          /\ Intake.submit.own = FALSE
      BY DEF Intake, Route
    <3>2. ClienteActions.submit.route = Intake.submit /\ ClienteActions.submit.then = "render"
      BY DEF ClienteActions, Render, Action
    <3>3. /\ held.controls.submit.action.route = ClienteActions.submit.route
          /\ held.controls.submit.action.then = ClienteActions.submit.then
          /\ held.controls.submit.for = Desk /\ held.controls.submit.told = TRUE
          /\ held.controls.submit.in = In({"NONE", "GIVEN"})
      BY <1>2 DEF IntakeSection, Control
    <3> QED BY <3>1, <3>2, <3>3 DEF Sends
  <2>2. In({"NONE", "GIVEN"}) \cap RowsOf(held) \subseteq From(AnswerMoves.submit)
    BY <1>5, Starting, Everywhere DEF AnswerMoves, In, Plain, Row
  <2> QED BY <1>1, <1>3, <2>1, <2>2, HeldRows DEF Fit, Heard, Sends, Taken, Staff, Desk, Owner
<1> HIDE DEF held
<1> QED BY <1>1, <1>2, <1>6 DEF Suits

\* The menu of a salon's actions, wherever the platform shows it.
LEMMA TenantMenuSuits ==
    ASSUME NEW p, p.for = Platform
    PROVE  Suits(p, Held(TenantMoves, TenantActionsMenu))
<1> DEFINE held == Held(TenantMoves, TenantActionsMenu)
<1>1. p.for = Platform /\ Held(TenantMoves, TenantActionsMenu) = held
  OBVIOUS
<1>2. /\ DOMAIN held.controls =
            {"suspend", "reactivate", "extendTrial", "grantCourtesy", "removeCourtesy", "ownerPhone", "resetLink"}
      /\ held.controls.suspend = SuspendDialog.suspend
      /\ held.controls.reactivate = ReactivateDialog.reactivate
      /\ held.controls.extendTrial = TrialDialog.extendTrial
      /\ held.controls.grantCourtesy = CourtesyDialog.grantCourtesy
      /\ held.controls.removeCourtesy = RemoveCourtesyDialog.removeCourtesy
      /\ held.controls.ownerPhone = PhoneDialog.ownerPhone
      /\ held.controls.resetLink = LinkDialog.resetLink
  BY ZenonT(60) DEF Held, TenantActionsMenu, SuspendDialog, ReactivateDialog, TrialDialog,
         CourtesyDialog, RemoveCourtesyDialog, PhoneDialog, LinkDialog, ++
<1>3. DOMAIN TenantMoves = {"create", "suspend", "reactivate", "extendTrial", "grantCourtesy",
        "removeCourtesy", "ownerPhone", "resetLink", "subscribe"}
  BY DEF TenantMoves
<1>4. Fit(p, held, "suspend", held.controls.suspend)
  <2>1. Sends(held.controls.suspend, TenantMoves.suspend, Platform, FALSE, Platform,
              {Row(s, FALSE) : s \in Salons}, "render", TRUE)
    <3>1. /\ PlatformAdmin.suspend.moves = TenantMoves.suspend
          /\ PlatformAdmin.suspend.for = Platform
          /\ PlatformAdmin.suspend.own = FALSE
      BY PlatformAdminRoutes
    <3>2. /\ PlataformaActions.suspend.route = PlatformAdmin.suspend
          /\ PlataformaActions.suspend.then = "render"
      BY PlatformAdminRoutes DEF PlataformaActions, Render, Action, ++
    <3>3. held.controls.suspend =
             Control(PlataformaActions.suspend, Platform, {Row(s, FALSE) : s \in Salons})
      BY <1>2 DEF SuspendDialog, OfTenant
    <3>4. /\ held.controls.suspend.action.route = PlataformaActions.suspend.route
          /\ held.controls.suspend.action.then = PlataformaActions.suspend.then
          /\ held.controls.suspend.for = Platform /\ held.controls.suspend.told = TRUE
          /\ held.controls.suspend.in = {Row(s, FALSE) : s \in Salons}
      BY <3>3 DEF Control
    <3> QED BY <3>1, <3>2, <3>4 DEF Sends
  <2>2. {Row(s, FALSE) : s \in Salons} \cap RowsOf(held) \subseteq From(TenantMoves.suspend)
    BY Zenon, Starting, Everywhere DEF TenantMoves, In, Plain, Row, Salons
  <2> QED BY Zenon, <1>1, <1>3, <2>1, <2>2, HeldRows DEF Fit, Heard, Sends, Taken, Staff, Desk, Owner
<1>5. Fit(p, held, "reactivate", held.controls.reactivate)
  <2>1. Sends(held.controls.reactivate, TenantMoves.reactivate, Platform, FALSE, Platform,
              {Row(s, TRUE) : s \in Salons}, "render", TRUE)
    <3>1. /\ PlatformAdmin.reactivate.moves = TenantMoves.reactivate
          /\ PlatformAdmin.reactivate.for = Platform
          /\ PlatformAdmin.reactivate.own = FALSE
      BY PlatformAdminRoutes
    <3>2. /\ PlataformaActions.reactivate.route = PlatformAdmin.reactivate
          /\ PlataformaActions.reactivate.then = "render"
      BY PlatformAdminRoutes DEF PlataformaActions, Render, Action, ++
    <3>3. held.controls.reactivate =
             Control(PlataformaActions.reactivate, Platform, {Row(s, TRUE) : s \in Salons})
      BY <1>2 DEF ReactivateDialog, OfTenant
    <3>4. /\ held.controls.reactivate.action.route = PlataformaActions.reactivate.route
          /\ held.controls.reactivate.action.then = PlataformaActions.reactivate.then
          /\ held.controls.reactivate.for = Platform /\ held.controls.reactivate.told = TRUE
          /\ held.controls.reactivate.in = {Row(s, TRUE) : s \in Salons}
      BY <3>3 DEF Control
    <3> QED BY <3>1, <3>2, <3>4 DEF Sends
  <2>2. {Row(s, TRUE) : s \in Salons} \cap RowsOf(held) \subseteq From(TenantMoves.reactivate)
    BY Zenon, Starting, Everywhere DEF TenantMoves, In, Plain, Row, Salons
  <2> QED BY Zenon, <1>1, <1>3, <2>1, <2>2, HeldRows DEF Fit, Heard, Sends, Taken, Staff, Desk, Owner
<1>6. Fit(p, held, "extendTrial", held.controls.extendTrial)
  <2>1. Sends(held.controls.extendTrial, TenantMoves.extendTrial, Platform, FALSE, Platform,
              In({"TRIAL"}), "render", TRUE)
    <3>1. /\ PlatformAdmin.extendTrial.moves = TenantMoves.extendTrial
          /\ PlatformAdmin.extendTrial.for = Platform
          /\ PlatformAdmin.extendTrial.own = FALSE
      BY PlatformAdminRoutes
    <3>2. /\ PlataformaActions.extendTrial.route = PlatformAdmin.extendTrial
          /\ PlataformaActions.extendTrial.then = "render"
      BY PlatformAdminRoutes DEF PlataformaActions, Render, Action, ++
    <3>3. /\ held.controls.extendTrial.action.route = PlataformaActions.extendTrial.route
          /\ held.controls.extendTrial.action.then = PlataformaActions.extendTrial.then
          /\ held.controls.extendTrial.for = Platform /\ held.controls.extendTrial.told = TRUE
          /\ held.controls.extendTrial.in = In({"TRIAL"})
      BY <1>2 DEF TrialDialog, OfTenant, Control
    <3> QED BY <3>1, <3>2, <3>3 DEF Sends
  <2>2. In({"TRIAL"}) \cap RowsOf(held) \subseteq From(TenantMoves.extendTrial)
    BY Starting, Everywhere DEF TenantMoves, In, Plain, Row
  <2> QED BY <1>1, <1>3, <2>1, <2>2, HeldRows DEF Fit, Heard, Sends, Taken, Staff, Desk, Owner
<1>7. Fit(p, held, "grantCourtesy", held.controls.grantCourtesy)
  <2>1. Sends(held.controls.grantCourtesy, TenantMoves.grantCourtesy, Platform, FALSE, Platform,
              In({"TRIAL", "COURTESY"}), "render", TRUE)
    <3>1. /\ PlatformAdmin.grantCourtesy.moves = TenantMoves.grantCourtesy
          /\ PlatformAdmin.grantCourtesy.for = Platform
          /\ PlatformAdmin.grantCourtesy.own = FALSE
      BY PlatformAdminRoutes
    <3>2. /\ PlataformaActions.grantCourtesy.route = PlatformAdmin.grantCourtesy
          /\ PlataformaActions.grantCourtesy.then = "render"
      BY PlatformAdminRoutes DEF PlataformaActions, Render, Action, ++
    <3>3. /\ held.controls.grantCourtesy.action.route = PlataformaActions.grantCourtesy.route
          /\ held.controls.grantCourtesy.action.then = PlataformaActions.grantCourtesy.then
          /\ held.controls.grantCourtesy.for = Platform /\ held.controls.grantCourtesy.told = TRUE
          /\ held.controls.grantCourtesy.in = In({"TRIAL", "COURTESY"})
      BY <1>2 DEF CourtesyDialog, OfTenant, Control
    <3> QED BY <3>1, <3>2, <3>3 DEF Sends
  <2>2. In({"TRIAL", "COURTESY"}) \cap RowsOf(held) \subseteq From(TenantMoves.grantCourtesy)
    BY Starting, Everywhere DEF TenantMoves, In, Plain, Row
  <2> QED BY <1>1, <1>3, <2>1, <2>2, HeldRows DEF Fit, Heard, Sends, Taken, Staff, Desk, Owner
<1>8. Fit(p, held, "removeCourtesy", held.controls.removeCourtesy)
  <2>1. Sends(held.controls.removeCourtesy, TenantMoves.removeCourtesy, Platform, FALSE,
              Platform, In({"COURTESY"}), "render", TRUE)
    <3>1. /\ PlatformAdmin.removeCourtesy.moves = TenantMoves.removeCourtesy
          /\ PlatformAdmin.removeCourtesy.for = Platform
          /\ PlatformAdmin.removeCourtesy.own = FALSE
      BY PlatformAdminRoutes
    <3>2. /\ PlataformaActions.removeCourtesy.route = PlatformAdmin.removeCourtesy
          /\ PlataformaActions.removeCourtesy.then = "render"
      BY PlatformAdminRoutes DEF PlataformaActions, Render, Action, ++
    <3>3. /\ held.controls.removeCourtesy.action.route = PlataformaActions.removeCourtesy.route
          /\ held.controls.removeCourtesy.action.then = PlataformaActions.removeCourtesy.then
          /\ held.controls.removeCourtesy.for = Platform /\ held.controls.removeCourtesy.told = TRUE
          /\ held.controls.removeCourtesy.in = In({"COURTESY"})
      BY <1>2 DEF RemoveCourtesyDialog, OfTenant, Control
    <3> QED BY <3>1, <3>2, <3>3 DEF Sends
  <2>2. In({"COURTESY"}) \cap RowsOf(held) \subseteq From(TenantMoves.removeCourtesy)
    BY Starting, Everywhere DEF TenantMoves, In, Plain, Row
  <2> QED BY <1>1, <1>3, <2>1, <2>2, HeldRows DEF Fit, Heard, Sends, Taken, Staff, Desk, Owner
<1>9. Fit(p, held, "ownerPhone", held.controls.ownerPhone)
  <2>1. Sends(held.controls.ownerPhone, TenantMoves.ownerPhone, Platform, FALSE, Platform,
              In(Salons), "render", TRUE)
    <3>1. /\ PlatformAdmin.ownerPhone.moves = TenantMoves.ownerPhone
          /\ PlatformAdmin.ownerPhone.for = Platform
          /\ PlatformAdmin.ownerPhone.own = FALSE
      BY PlatformAdminRoutes
    <3>2. /\ PlataformaActions.ownerPhone.route = PlatformAdmin.ownerPhone
          /\ PlataformaActions.ownerPhone.then = "render"
      BY PlatformAdminRoutes DEF PlataformaActions, Render, Action, ++
    <3>3. /\ held.controls.ownerPhone.action.route = PlataformaActions.ownerPhone.route
          /\ held.controls.ownerPhone.action.then = PlataformaActions.ownerPhone.then
          /\ held.controls.ownerPhone.for = Platform /\ held.controls.ownerPhone.told = TRUE
          /\ held.controls.ownerPhone.in = In(Salons)
      BY <1>2 DEF PhoneDialog, OfTenant, Control
    <3> QED BY <3>1, <3>2, <3>3 DEF Sends
  <2>2. In(Salons) \cap RowsOf(held) \subseteq From(TenantMoves.ownerPhone)
    BY Starting, Everywhere DEF TenantMoves, In, Plain, Row, Salons
  <2> QED BY <1>1, <1>3, <2>1, <2>2, HeldRows DEF Fit, Heard, Sends, Taken, Staff, Desk, Owner
<1>10. Fit(p, held, "resetLink", held.controls.resetLink)
  <2>1. Sends(held.controls.resetLink, TenantMoves.resetLink, Platform, FALSE, Platform,
              In(Salons), "render", TRUE)
    <3>1. /\ PlatformAdmin.resetLink.moves = TenantMoves.resetLink
          /\ PlatformAdmin.resetLink.for = Platform
          /\ PlatformAdmin.resetLink.own = FALSE
      BY PlatformAdminRoutes
    <3>2. /\ PlataformaActions.resetLink.route = PlatformAdmin.resetLink
          /\ PlataformaActions.resetLink.then = "render"
      BY PlatformAdminRoutes DEF PlataformaActions, Render, Action, ++
    <3>3. /\ held.controls.resetLink.action.route = PlataformaActions.resetLink.route
          /\ held.controls.resetLink.action.then = PlataformaActions.resetLink.then
          /\ held.controls.resetLink.for = Platform /\ held.controls.resetLink.told = TRUE
          /\ held.controls.resetLink.in = In(Salons)
      BY <1>2 DEF LinkDialog, OfTenant, Control
    <3> QED BY <3>1, <3>2, <3>3 DEF Sends
  <2>2. In(Salons) \cap RowsOf(held) \subseteq From(TenantMoves.resetLink)
    BY Starting, Everywhere DEF TenantMoves, In, Plain, Row, Salons
  <2> QED BY <1>1, <1>3, <2>1, <2>2, HeldRows DEF Fit, Heard, Sends, Taken, Staff, Desk, Owner
<1> HIDE DEF held
<1> QED BY <1>1, <1>2, <1>4, <1>5, <1>6, <1>7, <1>8, <1>9, <1>10 DEF Suits

LEMMA NegociosSuits == Suits(NegociosPage, NegociosPage.shows.tenant)
<1>1. /\ NegociosPage.for = Platform
      /\ NegociosPage.shows.tenant = Held(TenantMoves, TenantActionsMenu)
  BY DEF NegociosPage, Page
<1> QED BY <1>1, TenantMenuSuits

LEMMA NegocioSuits == Suits(NegocioPage, NegocioPage.shows.tenant)
<1>1. NegocioPage.for = Platform /\ NegocioPage.shows.tenant = Held(TenantMoves, TenantActionsMenu)
  BY DEF NegocioPage, Page
<1> QED BY <1>1, TenantMenuSuits

LEMMA NovoNegocioSuits == Suits(NovoNegocioPage, NovoNegocioPage.shows.tenant)
<1> DEFINE p == NovoNegocioPage
           held == Held(TenantMoves, NewTenantForm)
<1>1. p.name = "novoNegocio" /\ p.for = Platform /\ p.shows.tenant = held
  BY DEF NovoNegocioPage, Page
<1>2. /\ DOMAIN held.controls = {"create"}
      /\ held.controls.create = NewTenantForm.create
  BY DEF Held, NewTenantForm, ++
<1>3. DOMAIN TenantMoves = {"create", "suspend", "reactivate", "extendTrial", "grantCourtesy",
        "removeCourtesy", "ownerPhone", "resetLink", "subscribe"}
  BY DEF TenantMoves
<1>4. ASSUME NEW s \in {"NONE"}
      PROVE  Loose(s, TenantMoves.create) /\ Loose(s, TenantMoves.suspend) /\
             Loose(s, TenantMoves.reactivate) /\ Loose(s, TenantMoves.extendTrial) /\
             Loose(s, TenantMoves.grantCourtesy) /\ Loose(s, TenantMoves.removeCourtesy) /\
             Loose(s, TenantMoves.ownerPhone) /\ Loose(s, TenantMoves.resetLink) /\
             Loose(s, TenantMoves.subscribe)
  BY Zenon, Loosely DEF TenantMoves
<1>5. \A w \in RowsOf(held) : w.is \in {"NONE"} => ~w.tied
  BY <1>3, <1>4, HeldRows
<1>6. Fit(p, held, "create", held.controls.create)
  <2>1. Sends(held.controls.create, TenantMoves.create, Platform, FALSE, Platform, In({"NONE"}),
              "render", TRUE)
    <3>1. /\ PlatformAdmin.create.moves = TenantMoves.create /\ PlatformAdmin.create.for = Platform
          /\ PlatformAdmin.create.own = FALSE
      BY PlatformAdminRoutes
    <3>2. /\ PlataformaActions.create.route = PlatformAdmin.create
          /\ PlataformaActions.create.then = "render"
      BY PlatformAdminRoutes DEF PlataformaActions, Render, Action, ++
    <3>3. /\ held.controls.create.action.route = PlataformaActions.create.route
          /\ held.controls.create.action.then = PlataformaActions.create.then
          /\ held.controls.create.for = Platform /\ held.controls.create.told = TRUE
          /\ held.controls.create.in = In({"NONE"})
      BY <1>2 DEF NewTenantForm, Control, New
    <3> QED BY <3>1, <3>2, <3>3 DEF Sends
  <2>2. In({"NONE"}) \cap RowsOf(held) \subseteq From(TenantMoves.create)
    BY <1>5, Starting, Everywhere DEF TenantMoves, In, Plain, Row
  <2> QED BY <1>1, <1>3, <2>1, <2>2, HeldRows DEF Fit, Heard, Sends, Taken, Staff, Desk, Owner
<1> HIDE DEF held
<1> QED BY <1>1, <1>2, <1>6 DEF Suits

LEMMA CuponsSuits == Suits(CuponsPage, CuponsPage.shows.coupon)
<1> DEFINE p == CuponsPage
           held == Held(CouponMoves, CouponForm ++ CouponToggle)
<1>1. p.name = "cupons" /\ p.for = Platform /\ p.shows.coupon = held
  BY DEF CuponsPage, Page
<1>2. /\ DOMAIN held.controls = {"create", "update"}
      /\ held.controls.create = CouponForm.create
      /\ held.controls.update = CouponToggle.update
  BY DEF Held, CouponForm, CouponToggle, ++
<1>3. DOMAIN CouponMoves = {"create", "update"}
  BY DEF CouponMoves
<1>4. ASSUME NEW s
      PROVE  Loose(s, CouponMoves.create) /\ Loose(s, CouponMoves.update)
  BY Zenon, Loosely DEF CouponMoves
<1>5. \A w \in RowsOf(held) : ~w.tied
  BY <1>3, <1>4, HeldRows
<1>6. Fit(p, held, "create", held.controls.create)
  <2>1. Sends(held.controls.create, CouponMoves.create, Platform, FALSE, Platform, In({"NONE"}),
              "render", TRUE)
    <3>1. /\ PlatformAdmin.createCoupon.moves = CouponMoves.create
          /\ PlatformAdmin.createCoupon.for = Platform
          /\ PlatformAdmin.createCoupon.own = FALSE
      BY PlatformAdminRoutes
    <3>2. /\ PlataformaActions.createCoupon.route = PlatformAdmin.createCoupon
          /\ PlataformaActions.createCoupon.then = "render"
      BY PlatformAdminRoutes DEF PlataformaActions, Render, Action, ++
    <3>3. /\ held.controls.create.action.route = PlataformaActions.createCoupon.route
          /\ held.controls.create.action.then = PlataformaActions.createCoupon.then
          /\ held.controls.create.for = Platform /\ held.controls.create.told = TRUE
          /\ held.controls.create.in = In({"NONE"})
      BY <1>2 DEF CouponForm, Control, New
    <3> QED BY <3>1, <3>2, <3>3 DEF Sends
  <2>2. In({"NONE"}) \cap RowsOf(held) \subseteq From(CouponMoves.create)
    BY <1>5, Starting, Everywhere DEF CouponMoves, In, Plain, Row
  <2> QED BY <1>1, <1>3, <2>1, <2>2, HeldRows DEF Fit, Heard, Sends, Taken, Staff, Desk, Owner
<1>7. Fit(p, held, "update", held.controls.update)
  <2>1. Sends(held.controls.update, CouponMoves.update, Platform, FALSE, Platform,
              In({"ACTIVE", "INACTIVE"}), "render", TRUE)
    <3>1. /\ PlatformAdmin.updateCoupon.moves = CouponMoves.update
          /\ PlatformAdmin.updateCoupon.for = Platform
          /\ PlatformAdmin.updateCoupon.own = FALSE
      BY PlatformAdminRoutes
    <3>2. /\ PlataformaActions.updateCoupon.route = PlatformAdmin.updateCoupon
          /\ PlataformaActions.updateCoupon.then = "render"
      BY PlatformAdminRoutes DEF PlataformaActions, Render, Action, ++
    <3>3. /\ held.controls.update.action.route = PlataformaActions.updateCoupon.route
          /\ held.controls.update.action.then = PlataformaActions.updateCoupon.then
          /\ held.controls.update.for = Platform /\ held.controls.update.told = TRUE
          /\ held.controls.update.in = In({"ACTIVE", "INACTIVE"})
      BY <1>2 DEF CouponToggle, Control
    <3> QED BY <3>1, <3>2, <3>3 DEF Sends
  <2>2. In({"ACTIVE", "INACTIVE"}) \cap RowsOf(held) \subseteq From(CouponMoves.update)
    BY <1>5, Starting, Everywhere DEF CouponMoves, In, Plain, Row
  <2> QED BY <1>1, <1>3, <2>1, <2>2, HeldRows DEF Fit, Heard, Sends, Taken, Staff, Desk, Owner
<1> HIDE DEF held
<1> QED BY <1>1, <1>2, <1>6, <1>7 DEF Suits

LEMMA VisitSuits == Suits(MinhaContaPage, MinhaContaPage.shows.visit)
<1> DEFINE p == MinhaContaPage
           held == Held(VisitMoves, AppointmentTicket)
<1>1. p.name = "minhaConta" /\ p.for = Consumer /\ p.shows.visit = held
  BY DEF MinhaContaPage, Page
<1>2. /\ DOMAIN held.controls = {"cancel", "reschedule"}
      /\ held.controls.cancel = AppointmentTicket.cancel
      /\ held.controls.reschedule = AppointmentTicket.reschedule
  BY DEF Held, AppointmentTicket, ++
<1>3. DOMAIN VisitMoves = {"book", "attend", "cancel", "reschedule", "review"}
  BY DEF VisitMoves
<1>4. ASSUME NEW s \in {"CONFIRMED"}
      PROVE  Loose(s, VisitMoves.book) /\ Loose(s, VisitMoves.attend) /\
             Loose(s, VisitMoves.cancel) /\ Loose(s, VisitMoves.reschedule) /\
             Loose(s, VisitMoves.review)
  BY Zenon, Loosely DEF VisitMoves
<1>5. \A w \in RowsOf(held) : w.is \in {"CONFIRMED"} => ~w.tied
  BY <1>3, <1>4, HeldRows
<1>6. Fit(p, held, "cancel", held.controls.cancel)
  <2>1. Sends(held.controls.cancel, VisitMoves.cancel, Consumer, FALSE, Consumer,
              In({"CONFIRMED"}), "render", TRUE)
    <3>1. /\ ConsumerBookings.cancel.moves = VisitMoves.cancel
          /\ ConsumerBookings.cancel.for = Consumer
          /\ ConsumerBookings.cancel.own = FALSE
      BY DEF ConsumerBookings, Free, Route
    <3>2. ContaActions.cancel.route = ConsumerBookings.cancel /\ ContaActions.cancel.then = "render"
      BY DEF ContaActions, Render, Action
    <3>3. /\ held.controls.cancel.action.route = ContaActions.cancel.route
          /\ held.controls.cancel.action.then = ContaActions.cancel.then
          /\ held.controls.cancel.for = Consumer /\ held.controls.cancel.told = TRUE
          /\ held.controls.cancel.in = In({"CONFIRMED"})
      BY <1>2 DEF AppointmentTicket, Control
    <3> QED BY <3>1, <3>2, <3>3 DEF Sends
  <2>2. In({"CONFIRMED"}) \cap RowsOf(held) \subseteq From(VisitMoves.cancel)
    <3>1. Plain("CONFIRMED") \in From(VisitMoves.cancel)
      BY Starting DEF VisitMoves
    <3>2. ASSUME NEW b \in BOOLEAN, Row("CONFIRMED", b) \in RowsOf(held)
          PROVE  Row("CONFIRMED", b) = Plain("CONFIRMED")
      <4> HIDE DEF held
      <4>1. ~Row("CONFIRMED", b).tied
        BY <3>2, <1>5 DEF Row
      <4> QED BY Zenon, <4>1 DEF Row, Plain
    <3> HIDE DEF held
    <3> QED BY <3>1, <3>2 DEF In
  <2> QED BY <1>1, <1>3, <2>1, <2>2, HeldRows DEF Fit, Heard, Sends, Taken, Staff, Desk, Owner
<1>7. Fit(p, held, "reschedule", held.controls.reschedule)
  <2>1. Sends(held.controls.reschedule, VisitMoves.reschedule, Consumer, FALSE, Consumer,
              In({"CONFIRMED"}), "render", TRUE)
    <3>1. /\ ConsumerBookings.reschedule.moves = VisitMoves.reschedule
          /\ ConsumerBookings.reschedule.for = Consumer
          /\ ConsumerBookings.reschedule.own = FALSE
      BY DEF ConsumerBookings, Free, Route
    <3>2. /\ ContaActions.reschedule.route = ConsumerBookings.reschedule
          /\ ContaActions.reschedule.then = "render"
      BY DEF ContaActions, Render, Action
    <3>3. /\ held.controls.reschedule.action.route = ContaActions.reschedule.route
          /\ held.controls.reschedule.action.then = ContaActions.reschedule.then
          /\ held.controls.reschedule.for = Consumer /\ held.controls.reschedule.told = TRUE
          /\ held.controls.reschedule.in = In({"CONFIRMED"})
      BY <1>2 DEF AppointmentTicket, Control
    <3> QED BY <3>1, <3>2, <3>3 DEF Sends
  <2>2. In({"CONFIRMED"}) \cap RowsOf(held) \subseteq From(VisitMoves.reschedule)
    <3>1. Plain("CONFIRMED") \in From(VisitMoves.reschedule)
      BY Starting DEF VisitMoves
    <3>2. ASSUME NEW b \in BOOLEAN, Row("CONFIRMED", b) \in RowsOf(held)
          PROVE  Row("CONFIRMED", b) = Plain("CONFIRMED")
      <4> HIDE DEF held
      <4>1. ~Row("CONFIRMED", b).tied
        BY <3>2, <1>5 DEF Row
      <4> QED BY Zenon, <4>1 DEF Row, Plain
    <3> HIDE DEF held
    <3> QED BY <3>1, <3>2 DEF In
  <2> QED BY <1>1, <1>3, <2>1, <2>2, HeldRows DEF Fit, Heard, Sends, Taken, Staff, Desk, Owner
<1> HIDE DEF held
<1> QED BY <1>1, <1>2, <1>6, <1>7 DEF Suits

LEMMA ProfileSuits == Suits(MinhaContaPage, MinhaContaPage.shows.profile)
<1> DEFINE p == MinhaContaPage
           held == Held(ProfileMoves, ProfileForm)
<1>1. p.name = "minhaConta" /\ p.for = Consumer /\ p.shows.profile = held
  BY DEF MinhaContaPage, Page
<1>2. /\ DOMAIN held.controls = {"update", "password"}
      /\ held.controls.update = ProfileForm.update
      /\ held.controls.password = PasswordForm.password
  BY DEF Held, ProfileForm, PasswordForm, ++
<1>3. DOMAIN ProfileMoves = {"update", "password", "delete"}
  BY DEF ProfileMoves
<1>4. ASSUME NEW s
      PROVE  Loose(s, ProfileMoves.update) /\ Loose(s, ProfileMoves.password) /\
             Loose(s, ProfileMoves.delete)
  BY Zenon, Loosely DEF ProfileMoves
<1>5. \A w \in RowsOf(held) : ~w.tied
  BY <1>3, <1>4, HeldRows
<1>6. Sends(held.controls.update, ProfileMoves.update, Consumer, FALSE, Consumer, In({"HERE"}),
              "render", TRUE)
    <3>1. /\ ConsumerAccount.update.moves = ProfileMoves.update
          /\ ConsumerAccount.update.for = Consumer
          /\ ConsumerAccount.update.own = FALSE
      BY DEF ConsumerAccount, Free, Route
    <3>2. ContaActions.update.route = ConsumerAccount.update /\ ContaActions.update.then = "render"
      BY DEF ContaActions, Render, Action
    <3>3. /\ held.controls.update.action.route = ContaActions.update.route
          /\ held.controls.update.action.then = ContaActions.update.then
          /\ held.controls.update.for = Consumer /\ held.controls.update.told = TRUE
          /\ held.controls.update.in = In({"HERE"})
      BY <1>2 DEF ProfileForm, ++, Control
    <3> QED BY <3>1, <3>2, <3>3 DEF Sends
<1>7. Sends(held.controls.password, ProfileMoves.password, Consumer, FALSE, Consumer,
              In({"HERE"}), "none", TRUE)
    <3>1. /\ ConsumerAccount.password.moves = ProfileMoves.password
          /\ ConsumerAccount.password.for = Consumer
          /\ ConsumerAccount.password.own = FALSE
      BY DEF ConsumerAccount, Free, Route
    <3>2. /\ ContaActions.password.route = ConsumerAccount.password
          /\ ContaActions.password.then = "none"
      BY DEF ContaActions, Action
    <3>3. /\ held.controls.password.action.route = ContaActions.password.route
          /\ held.controls.password.action.then = ContaActions.password.then
          /\ held.controls.password.for = Consumer /\ held.controls.password.told = TRUE
          /\ held.controls.password.in = In({"HERE"})
      BY <1>2 DEF PasswordForm, Control
    <3> QED BY <3>1, <3>2, <3>3 DEF Sends
<1>8. Still(held)
  <2>1. \A m \in ProfileMoves.update \cup ProfileMoves.password : m[2] = Plain("HERE")
    BY DEF ProfileMoves, Stay, To
  <2>2. \A w \in In({"HERE"}) \cap RowsOf(held) : w = Plain("HERE")
    BY <1>5 DEF In, Plain, Row
  <2>3. DOMAIN held.controls = {"update", "password"}
    BY <1>2
  <2> HIDE DEF held
  <2> QED BY <1>6, <1>7, <2>1, <2>2, <2>3 DEF Still, Sends
<1>9. Fit(p, held, "update", held.controls.update)
  <2>1. In({"HERE"}) \cap RowsOf(held) \subseteq From(ProfileMoves.update)
    BY <1>5, Starting DEF ProfileMoves, In, Plain, Row
  <2> QED BY <1>1, <1>3, <1>6, <1>8, <2>1, HeldRows DEF Fit, Heard, Sends, Taken, Staff, Desk, Owner
<1>10. Fit(p, held, "password", held.controls.password)
  <2>1. In({"HERE"}) \cap RowsOf(held) \subseteq From(ProfileMoves.password)
    BY <1>5, Starting DEF ProfileMoves, In, Plain, Row
  <2> QED BY <1>1, <1>3, <1>7, <1>8, <2>1, HeldRows DEF Fit, Heard, Sends, Taken, Staff, Desk, Owner
<1> HIDE DEF held
<1> QED BY <1>1, <1>2, <1>9, <1>10 DEF Suits

LEMMA SessionSuits == Suits(MinhaContaPage, MinhaContaPage.shows.session)
<1> DEFINE p == MinhaContaPage
           held == Held(SessionMoves, SessionsList)
<1>1. p.name = "minhaConta" /\ p.for = Consumer /\ p.shows.session = held
  BY DEF MinhaContaPage, Page
<1>2. /\ DOMAIN held.controls = {"end", "endOthers"}
      /\ held.controls.end = SessionsList.end
      /\ held.controls.endOthers = SessionsList.endOthers
  BY DEF Held, SessionsList, ++
<1>3. DOMAIN SessionMoves = {"end"}
  BY DEF SessionMoves
<1>4. ASSUME NEW s
      PROVE  Loose(s, SessionMoves.end)
  BY Zenon, Loosely DEF SessionMoves
<1>5. \A w \in RowsOf(held) : ~w.tied
  BY <1>3, <1>4, HeldRows
<1>6. Fit(p, held, "end", held.controls.end)
  <2>1. Sends(held.controls.end, SessionMoves.end, Consumer, FALSE, Consumer, In({"LIVE"}),
              "render", FALSE)
    <3>1. /\ ConsumerAccount.end.moves = SessionMoves.end /\ ConsumerAccount.end.for = Consumer
          /\ ConsumerAccount.end.own = FALSE
      BY DEF ConsumerAccount, Free, Route
    <3>2. ContaActions.end.route = ConsumerAccount.end /\ ContaActions.end.then = "render"
      BY DEF ContaActions, Render, Action
    <3>3. /\ held.controls.end.action.route = ContaActions.end.route
          /\ held.controls.end.action.then = ContaActions.end.then
          /\ held.controls.end.for = Consumer /\ held.controls.end.told = FALSE
          /\ held.controls.end.in = In({"LIVE"})
      BY <1>2 DEF SessionsList, Control, Silent
    <3> QED BY <3>1, <3>2, <3>3 DEF Sends
  <2>2. In({"LIVE"}) \cap RowsOf(held) \subseteq From(SessionMoves.end)
    BY <1>5, Starting, Everywhere DEF SessionMoves, In, Plain, Row
  <2> QED BY <1>1, <1>3, <2>1, <2>2, HeldRows DEF Fit, Heard, Sends, Taken, Deaf, Staff, Desk,
              Owner
<1>7. Fit(p, held, "endOthers", held.controls.endOthers)
  <2>1. Sends(held.controls.endOthers, SessionMoves.end, Consumer, FALSE, Consumer,
              In({"LIVE"}), "render", FALSE)
    <3>1. /\ ConsumerAccount.endOthers.moves = SessionMoves.end
          /\ ConsumerAccount.endOthers.for = Consumer
          /\ ConsumerAccount.endOthers.own = FALSE
      BY DEF ConsumerAccount, Free, Route
    <3>2. /\ ContaActions.endOthers.route = ConsumerAccount.endOthers
          /\ ContaActions.endOthers.then = "render"
      BY DEF ContaActions, Render, Action
    <3>3. /\ held.controls.endOthers.action.route = ContaActions.endOthers.route
          /\ held.controls.endOthers.action.then = ContaActions.endOthers.then
          /\ held.controls.endOthers.for = Consumer /\ held.controls.endOthers.told = FALSE
          /\ held.controls.endOthers.in = In({"LIVE"})
      BY <1>2 DEF SessionsList, Control, Silent
    <3> QED BY <3>1, <3>2, <3>3 DEF Sends
  <2>2. In({"LIVE"}) \cap RowsOf(held) \subseteq From(SessionMoves.end)
    BY <1>5, Starting, Everywhere DEF SessionMoves, In, Plain, Row
  <2> QED BY <1>1, <1>3, <2>1, <2>2, HeldRows DEF Fit, Heard, Sends, Taken, Deaf, Staff, Desk,
              Owner
<1> HIDE DEF held
<1> QED BY <1>1, <1>2, <1>6, <1>7 DEF Suits

LEMMA AvaliarSuits == Suits(AvaliarPage, AvaliarPage.shows.visit)
<1> DEFINE p == AvaliarPage
           held == Held(VisitMoves, ReviewList)
<1>1. p.name = "avaliar" /\ p.for = Consumer /\ p.shows.visit = held
  BY DEF AvaliarPage, Page
<1>2. /\ DOMAIN held.controls = {"submit"}
      /\ held.controls.submit = ReviewList.submit
  BY DEF Held, ReviewList, ++
<1>3. DOMAIN VisitMoves = {"book", "attend", "cancel", "reschedule", "review"}
  BY DEF VisitMoves
<1>4. Fit(p, held, "submit", held.controls.submit)
  <2>1. Sends(held.controls.submit, VisitMoves.review, Consumer, FALSE, Consumer,
              {Plain("COMPLETED")}, "answer", TRUE)
    <3>1. /\ Reviews.create.moves = VisitMoves.review /\ Reviews.create.for = Consumer
          /\ Reviews.create.own = FALSE
      BY DEF Reviews, Free, Route
    <3>2. AvaliarActions.submit.route = Reviews.create /\ AvaliarActions.submit.then = "answer"
      BY DEF AvaliarActions, Action
    <3>3. held.controls.submit = Control(AvaliarActions.submit, Consumer, {Plain("COMPLETED")})
      BY <1>2 DEF ReviewList
    <3>4. /\ held.controls.submit.action.route = AvaliarActions.submit.route
          /\ held.controls.submit.action.then = AvaliarActions.submit.then
          /\ held.controls.submit.for = Consumer /\ held.controls.submit.told = TRUE
          /\ held.controls.submit.in = {Plain("COMPLETED")}
      BY <3>3 DEF Control
    <3> QED BY <3>1, <3>2, <3>4 DEF Sends
  <2>2. {Plain("COMPLETED")} \cap RowsOf(held) \subseteq From(VisitMoves.review)
    BY Zenon, Starting, Everywhere DEF VisitMoves, In, Plain, Row
  <2> QED BY <1>1, <1>3, <2>1, <2>2, HeldRows DEF Fit, Heard, Sends, Taken, Staff, Desk, Owner
<1> HIDE DEF held
<1> QED BY <1>1, <1>2, <1>4 DEF Suits

\* What a page only displays has no button.
LEMMA DisplaySuits ==
    \A p, states : /\ DOMAIN Display(states) = {"display"}
                   /\ Suits(p, Display(states).display)
<1>1. DOMAIN <<>> = {}
  OBVIOUS
<1> QED BY <1>1 DEF Display, Suits

-----------------------------------------------------------------------------
(* Every page fits: its reads too *)

LEMMA AgendaFits == Fits(AgendaPage)
<1>1. /\ AgendaPage.name = "agenda" /\ AgendaPage.for = Staff
      /\ AgendaPage.loud = {}
      /\ AgendaPage.loud \cup AgendaPage.told \cup AgendaPage.quiet =
            {Appointments.calendar, Services.list}
  BY DEF AgendaPage, Page
<1>2. /\ Appointments.calendar.for = Staff /\ ~Appointments.calendar.own
      /\ Services.list.for = Staff /\ ~Services.list.own
  BY DEF Appointments, Services, Get, Route
<1>3. Opens(AgendaPage)
  BY <1>1, <1>2 DEF Opens, BrokenFor, Staff, Desk, Owner, Consumer, Platform
<1>4. DOMAIN AgendaPage.shows = {"appointment"}
  BY DEF AgendaPage, Page
<1> QED BY <1>3, <1>4, AgendaSuits DEF Fits

LEMMA ComandasFits == Fits(ComandasPage)
<1>1. /\ ComandasPage.name = "comandas" /\ ComandasPage.for = Desk
      /\ ComandasPage.loud = {}
      /\ ComandasPage.loud \cup ComandasPage.told \cup ComandasPage.quiet = {Tickets.list}
  BY DEF ComandasPage, Page
<1>2. /\ Tickets.list.for = Desk /\ ~Tickets.list.own
  BY DEF Tickets, ++, Get, Route, TicketMoves
<1>3. Opens(ComandasPage)
  BY <1>1, <1>2 DEF Opens, BrokenFor, Staff, Desk, Owner, Consumer, Platform
<1>4. DOMAIN ComandasPage.shows = {"ticket"}
  BY DEF ComandasPage, Page
<1> QED BY <1>3, <1>4, ComandasSuits DEF Fits

LEMMA ComandaFits == Fits(ComandaPage)
<1>1. /\ ComandaPage.name = "comanda" /\ ComandaPage.for = Staff
      /\ ComandaPage.loud = {Tickets.get}
      /\ ComandaPage.loud \cup ComandaPage.told \cup ComandaPage.quiet =
            {Tickets.get, Services.list, Products.list, Professionals.list}
  BY DEF ComandaPage, Page
<1>2. /\ Tickets.get.for = Desk /\ ~Tickets.get.own
      /\ Services.list.for = Staff /\ ~Services.list.own
      /\ Products.list.for = Desk /\ ~Products.list.own
      /\ Professionals.list.for = Staff /\ ~Professionals.list.own
  BY DEF Tickets, Services, Products, Professionals, ++, Get, Route, TicketMoves
<1>3. Opens(ComandaPage)
  BY <1>1, <1>2 DEF Opens, BrokenFor, Staff, Desk, Owner, Consumer, Platform
<1>4. DOMAIN ComandaPage.shows = {"ticket"}
  BY DEF ComandaPage, Page
<1> QED BY <1>3, <1>4, ComandaSuits DEF Fits

LEMMA CaixaFits == Fits(CaixaPage)
<1>1. /\ CaixaPage.name = "caixa" /\ CaixaPage.for = Desk
      /\ CaixaPage.loud = {}
      /\ CaixaPage.loud \cup CaixaPage.told \cup CaixaPage.quiet = {CashRegister.get}
  BY DEF CaixaPage, Page
<1>2. /\ CashRegister.get.for = Desk /\ ~CashRegister.get.own
  BY DEF CashRegister, ++, Get, RegisterMoves, Route
<1>3. Opens(CaixaPage)
  BY <1>1, <1>2 DEF Opens, BrokenFor, Staff, Desk, Owner, Consumer, Platform
<1>4. DOMAIN CaixaPage.shows = {"register", "difference"}
  BY DEF CaixaPage, Page
<1> QED BY <1>3, <1>4, CaixaSuits, DifferenceSuits DEF Fits

LEMMA FinanceiroFits == Fits(FinanceiroPage)
<1>1. /\ FinanceiroPage.name = "financeiro" /\ FinanceiroPage.for = Desk
      /\ FinanceiroPage.loud = {}
      /\ FinanceiroPage.loud \cup FinanceiroPage.told \cup FinanceiroPage.quiet =
            {Finance.overview, Finance.entries, Finance.categories}
  BY DEF FinanceiroPage, Page
<1>2. /\ Finance.overview.for = Desk /\ ~Finance.overview.own
      /\ Finance.entries.for = Desk /\ ~Finance.entries.own
      /\ Finance.categories.for = Desk /\ ~Finance.categories.own
  BY DEF Finance, Get, Route
<1>3. Opens(FinanceiroPage)
  BY <1>1, <1>2 DEF Opens, BrokenFor, Staff, Desk, Owner, Consumer, Platform
<1>4. DOMAIN FinanceiroPage.shows = {"entry", "report"}
  BY DEF FinanceiroPage, Page
<1> QED BY <1>3, <1>4, FinanceiroSuits, ReportSuits DEF Fits

LEMMA ComissoesFits == Fits(ComissoesPage)
<1>1. /\ ComissoesPage.name = "comissoes" /\ ComissoesPage.for = Owner
      /\ ComissoesPage.loud = {}
      /\ ComissoesPage.loud \cup ComissoesPage.told \cup ComissoesPage.quiet =
            {Commissions.earnings, Commissions.rules, Professionals.list, Services.list, Products.list}
  BY DEF ComissoesPage, Page
<1>2. /\ Commissions.earnings.for = Staff /\ ~Commissions.earnings.own
      /\ Commissions.rules.for = Owner /\ ~Commissions.rules.own
      /\ Professionals.list.for = Staff /\ ~Professionals.list.own
      /\ Services.list.for = Staff /\ ~Services.list.own
      /\ Products.list.for = Desk /\ ~Products.list.own
  BY DEF Commissions, Professionals, Services, Products, ++, Get, Route, RuleMoves
<1>3. Opens(ComissoesPage)
  BY <1>1, <1>2 DEF Opens, BrokenFor, Staff, Desk, Owner, Consumer, Platform
<1>4. DOMAIN ComissoesPage.shows = {"rule", "earning"}
  BY DEF ComissoesPage, Page
<1> QED BY <1>3, <1>4, ComissoesSuits, EarningSuits DEF Fits

LEMMA ProdutosFits == Fits(ProdutosPage)
<1>1. /\ ProdutosPage.name = "produtos" /\ ProdutosPage.for = Desk
      /\ ProdutosPage.loud = {}
      /\ ProdutosPage.loud \cup ProdutosPage.told \cup ProdutosPage.quiet = {Products.list}
  BY DEF ProdutosPage, Page
<1>2. /\ Products.list.for = Desk /\ ~Products.list.own
  BY DEF Products, Get, Route
<1>3. Opens(ProdutosPage)
  BY <1>1, <1>2 DEF Opens, BrokenFor, Staff, Desk, Owner, Consumer, Platform
<1>4. DOMAIN ProdutosPage.shows = {"product"}
  BY DEF ProdutosPage, Page
<1> QED BY <1>3, <1>4, ProdutosSuits DEF Fits

LEMMA ServicosFits == Fits(ServicosPage)
<1>1. /\ ServicosPage.name = "servicos" /\ ServicosPage.for = Staff
      /\ ServicosPage.loud = {}
      /\ ServicosPage.loud \cup ServicosPage.told \cup ServicosPage.quiet = {Services.list}
  BY DEF ServicosPage, Page
<1>2. /\ Services.list.for = Staff /\ ~Services.list.own
  BY DEF Services, Get, Route
<1>3. Opens(ServicosPage)
  BY <1>1, <1>2 DEF Opens, BrokenFor, Staff, Desk, Owner, Consumer, Platform
<1>4. DOMAIN ServicosPage.shows = {"service"}
  BY DEF ServicosPage, Page
<1> QED BY <1>3, <1>4, ServicosSuits DEF Fits

LEMMA ProfissionaisFits == Fits(ProfissionaisPage)
<1>1. /\ ProfissionaisPage.name = "profissionais" /\ ProfissionaisPage.for = Staff
      /\ ProfissionaisPage.loud = {}
      /\ ProfissionaisPage.loud \cup ProfissionaisPage.told \cup ProfissionaisPage.quiet =
            {Professionals.list}
  BY DEF ProfissionaisPage, Page
<1>2. /\ Professionals.list.for = Staff /\ ~Professionals.list.own
  BY DEF Professionals, Get, Route
<1>3. Opens(ProfissionaisPage)
  BY <1>1, <1>2 DEF Opens, BrokenFor, Staff, Desk, Owner, Consumer, Platform
<1>4. DOMAIN ProfissionaisPage.shows = {"professional"}
  BY DEF ProfissionaisPage, Page
<1> QED BY <1>3, <1>4, ProfissionaisSuits DEF Fits

LEMMA ProfissionalFits == Fits(ProfissionalPage)
<1>1. /\ ProfissionalPage.name = "profissional" /\ ProfissionalPage.for = {"OWNER", "PROFESSIONAL"}
      /\ ProfissionalPage.loud = {Professionals.get, Services.list, Services.links, TimeBlocks.list}
      /\ ProfissionalPage.loud \cup ProfissionalPage.told \cup ProfissionalPage.quiet =
            {Professionals.get, Services.list, Services.links, TimeBlocks.list}
  BY DEF ProfissionalPage, Page
<1>2. /\ Professionals.get.for = Staff /\ Professionals.get.own
      /\ Services.list.for = Staff /\ ~Services.list.own
      /\ Services.links.for = Staff /\ Services.links.own
      /\ TimeBlocks.list.for = Staff /\ TimeBlocks.list.own
  BY DEF Professionals, Services, TimeBlocks, Get, Own, Route
<1>3. Opens(ProfissionalPage)
  BY <1>1, <1>2 DEF Opens, BrokenFor, Staff, Desk, Owner, Consumer, Platform
<1>4. DOMAIN ProfissionalPage.shows = {"professional", "photo", "link", "block"}
  BY DEF ProfissionalPage, Page
<1> QED BY <1>3, <1>4, ProfissionalSuits, PhotoSuits, LinkSuits, BlockSuits DEF Fits

LEMMA ConfiguracoesFits == Fits(ConfiguracoesPage)
<1>1. /\ ConfiguracoesPage.name = "configuracoes" /\ ConfiguracoesPage.for = Owner
      /\ ConfiguracoesPage.loud = {Tenants.me}
      /\ ConfiguracoesPage.loud \cup ConfiguracoesPage.told \cup ConfiguracoesPage.quiet =
            {Tenants.me}
  BY DEF ConfiguracoesPage, Page
<1>2. /\ Tenants.me.for = Staff /\ ~Tenants.me.own
  BY DEF Tenants, Free, Get, Route
<1>3. Opens(ConfiguracoesPage)
  BY <1>1, <1>2 DEF Opens, BrokenFor, Staff, Desk, Owner, Consumer, Platform
<1>4. DOMAIN ConfiguracoesPage.shows = {"salon", "logo", "gallery"}
  BY DEF ConfiguracoesPage, Page
<1> QED BY <1>3, <1>4, SalonSuits, LogoSuits, GallerySuits DEF Fits

LEMMA MarketplaceFits == Fits(MarketplacePage)
<1>1. /\ MarketplacePage.name = "marketplace" /\ MarketplacePage.for = Owner
      /\ MarketplacePage.loud = {Tenants.marketplace}
      /\ MarketplacePage.loud \cup MarketplacePage.told \cup MarketplacePage.quiet =
            {Tenants.marketplace, Reviews.list}
  BY DEF MarketplacePage, Page
<1>2. /\ Tenants.marketplace.for = Staff /\ ~Tenants.marketplace.own
      /\ Reviews.list.for = Owner /\ ~Reviews.list.own
  BY DEF Tenants, Reviews, Free, Get, Route
<1>3. Opens(MarketplacePage)
  BY <1>1, <1>2 DEF Opens, BrokenFor, Staff, Desk, Owner, Consumer, Platform
<1>4. DOMAIN MarketplacePage.shows = {"salon", "review"}
  BY DEF MarketplacePage, Page
<1> QED BY <1>3, <1>4, ListingSuits, ReviewSuits DEF Fits

LEMMA ListaEsperaFits == Fits(ListaEsperaPage)
<1>1. /\ ListaEsperaPage.name = "espera" /\ ListaEsperaPage.for = Owner
      /\ ListaEsperaPage.loud = {}
      /\ ListaEsperaPage.loud \cup ListaEsperaPage.told \cup ListaEsperaPage.quiet =
            {Waitlist.list}
  BY DEF ListaEsperaPage, Page
<1>2. /\ Waitlist.list.for = Owner /\ ~Waitlist.list.own
  BY DEF Waitlist, Get, Route
<1>3. Opens(ListaEsperaPage)
  BY <1>1, <1>2 DEF Opens, BrokenFor, Staff, Desk, Owner, Consumer, Platform
<1>4. DOMAIN ListaEsperaPage.shows = {"waiting"}
  BY DEF ListaEsperaPage, Page
<1> QED BY <1>3, <1>4, EsperaSuits DEF Fits

LEMMA FichasFits == Fits(FichasPage)
<1>1. /\ FichasPage.name = "fichas" /\ FichasPage.for = Owner
      /\ FichasPage.loud = {}
      /\ FichasPage.loud \cup FichasPage.told \cup FichasPage.quiet = {Intake.forms}
  BY DEF FichasPage, Page
<1>2. /\ Intake.forms.for = Staff /\ ~Intake.forms.own
  BY DEF Intake, Get, Route
<1>3. Opens(FichasPage)
  BY <1>1, <1>2 DEF Opens, BrokenFor, Staff, Desk, Owner, Consumer, Platform
<1>4. DOMAIN FichasPage.shows = {"form"}
  BY DEF FichasPage, Page
<1> QED BY <1>3, <1>4, FichasSuits DEF Fits

LEMMA ClientesFits == Fits(ClientesPage)
<1>1. /\ ClientesPage.name = "clientes" /\ ClientesPage.for = Desk
      /\ ClientesPage.loud = {}
      /\ ClientesPage.loud \cup ClientesPage.told \cup ClientesPage.quiet = {Clients.list}
  BY DEF ClientesPage, Page
<1>2. /\ Clients.list.for = Desk /\ ~Clients.list.own
  BY DEF Clients, Get, Route
<1>3. Opens(ClientesPage)
  BY <1>1, <1>2 DEF Opens, BrokenFor, Staff, Desk, Owner, Consumer, Platform
<1>4. ClientesPage.shows = Display({"SOME", "MORE"})
  BY DEF ClientesPage, Page
<1> QED BY <1>3, <1>4, DisplaySuits DEF Fits

LEMMA NovoClienteFits == Fits(NovoClientePage)
<1>1. /\ NovoClientePage.name = "novoCliente" /\ NovoClientePage.for = Desk
      /\ NovoClientePage.loud = {}
      /\ NovoClientePage.loud \cup NovoClientePage.told \cup NovoClientePage.quiet = {}
  BY DEF NovoClientePage, Page
<1>2. Opens(NovoClientePage)
  BY <1>1 DEF Opens, BrokenFor, Staff, Desk, Owner, Consumer, Platform
<1>3. DOMAIN NovoClientePage.shows = {"client"}
  BY DEF NovoClientePage, Page
<1> QED BY <1>2, <1>3, NovoClienteSuits DEF Fits

LEMMA ClienteFits == Fits(ClientePage)
<1>1. /\ ClientePage.name = "cliente" /\ ClientePage.for = Staff
      /\ ClientePage.loud = {Clients.get}
      /\ ClientePage.loud \cup ClientePage.told \cup ClientePage.quiet =
            {Clients.get, Intake.forms}
  BY DEF ClientePage, Page
<1>2. /\ Clients.get.for = Desk /\ ~Clients.get.own
      /\ Intake.forms.for = Staff /\ ~Intake.forms.own
  BY DEF Clients, Intake, Get, Route
<1>3. Opens(ClientePage)
  BY <1>1, <1>2 DEF Opens, BrokenFor, Staff, Desk, Owner, Consumer, Platform
<1>4. DOMAIN ClientePage.shows = {"client", "answer"}
  BY DEF ClientePage, Page
<1> QED BY <1>3, <1>4, ClienteSuits, AnswerSuits DEF Fits

LEMMA RelatoriosFits == Fits(RelatoriosPage)
<1>1. /\ RelatoriosPage.name = "relatorios" /\ RelatoriosPage.for = Staff
      /\ RelatoriosPage.loud = {Reports.general}
      /\ RelatoriosPage.loud \cup RelatoriosPage.told \cup RelatoriosPage.quiet =
            {Reports.general}
  BY DEF RelatoriosPage, Page
<1>2. /\ Reports.general.for = Desk /\ ~Reports.general.own
  BY DEF Reports, Get, Route
<1>3. Opens(RelatoriosPage)
  BY <1>1, <1>2 DEF Opens, BrokenFor, Staff, Desk, Owner, Consumer, Platform
<1>4. RelatoriosPage.shows = Display({"SOME", "MORE"})
  BY DEF RelatoriosPage, Page
<1> QED BY <1>3, <1>4, DisplaySuits DEF Fits

LEMMA PlanoFits == Fits(PlanoPage)
<1>1. /\ PlanoPage.name = "plano" /\ PlanoPage.for = Staff
      /\ PlanoPage.loud = {}
      /\ PlanoPage.loud \cup PlanoPage.told \cup PlanoPage.quiet = {Billing.status, Billing.plans}
  BY DEF PlanoPage, Page
<1>2. /\ Billing.status.for = Staff /\ ~Billing.status.own /\ ~Billing.status.paid
      /\ Billing.plans.for = Roles /\ ~Billing.plans.own /\ ~Billing.plans.paid
  BY DEF Billing, Free, Get, Route
<1>3. Opens(PlanoPage)
  BY <1>1, <1>2 DEF Opens, BrokenFor, Staff, Desk, Owner, Consumer, Platform, Roles
<1>4. PlanoPage.shows = Display({"PLAN", "OTHER"})
  BY DEF PlanoPage, Page
<1> QED BY <1>3, <1>4, DisplaySuits DEF Fits

LEMMA OverviewFits == Fits(OverviewPage)
<1>1. /\ OverviewPage.name = "overview" /\ OverviewPage.for = Platform
      /\ OverviewPage.loud = {PlatformAdmin.overview}
      /\ OverviewPage.loud \cup OverviewPage.told \cup OverviewPage.quiet =
            {PlatformAdmin.overview}
  BY DEF OverviewPage, Page
<1>2. /\ PlatformAdmin.overview.for = Platform /\ ~PlatformAdmin.overview.own
  BY DEF PlatformAdmin, ++, Free, Get, Route, TenantMoves
<1>3. Opens(OverviewPage)
  BY <1>1, <1>2 DEF Opens, BrokenFor, Staff, Desk, Owner, Consumer, Platform
<1>4. OverviewPage.shows = Display({"SOME", "MORE"})
  BY DEF OverviewPage, Page
<1> QED BY <1>3, <1>4, DisplaySuits DEF Fits

LEMMA NegociosFits == Fits(NegociosPage)
<1>1. /\ NegociosPage.name = "negocios" /\ NegociosPage.for = Platform
      /\ NegociosPage.loud = {PlatformAdmin.tenants}
      /\ NegociosPage.loud \cup NegociosPage.told \cup NegociosPage.quiet =
            {PlatformAdmin.tenants}
  BY DEF NegociosPage, Page
<1>2. /\ PlatformAdmin.tenants.for = Platform /\ ~PlatformAdmin.tenants.own
  BY DEF PlatformAdmin, ++, Free, Get, Route, TenantMoves
<1>3. Opens(NegociosPage)
  BY <1>1, <1>2 DEF Opens, BrokenFor, Staff, Desk, Owner, Consumer, Platform
<1>4. DOMAIN NegociosPage.shows = {"tenant"}
  BY DEF NegociosPage, Page
<1> QED BY <1>3, <1>4, NegociosSuits DEF Fits

LEMMA NegocioFits == Fits(NegocioPage)
<1>1. /\ NegocioPage.name = "negocio" /\ NegocioPage.for = Platform
      /\ NegocioPage.loud = {PlatformAdmin.tenant}
      /\ NegocioPage.loud \cup NegocioPage.told \cup NegocioPage.quiet = {PlatformAdmin.tenant}
  BY DEF NegocioPage, Page
<1>2. /\ PlatformAdmin.tenant.for = Platform /\ ~PlatformAdmin.tenant.own
  BY DEF PlatformAdmin, ++, Free, Get, Route, TenantMoves
<1>3. Opens(NegocioPage)
  BY <1>1, <1>2 DEF Opens, BrokenFor, Staff, Desk, Owner, Consumer, Platform
<1>4. DOMAIN NegocioPage.shows = {"tenant"}
  BY DEF NegocioPage, Page
<1> QED BY <1>3, <1>4, NegocioSuits DEF Fits

LEMMA NovoNegocioFits == Fits(NovoNegocioPage)
<1>1. /\ NovoNegocioPage.name = "novoNegocio" /\ NovoNegocioPage.for = Platform
      /\ NovoNegocioPage.loud = {}
      /\ NovoNegocioPage.loud \cup NovoNegocioPage.told \cup NovoNegocioPage.quiet = {}
  BY DEF NovoNegocioPage, Page
<1>2. Opens(NovoNegocioPage)
  BY <1>1 DEF Opens, BrokenFor, Staff, Desk, Owner, Consumer, Platform
<1>3. DOMAIN NovoNegocioPage.shows = {"tenant"}
  BY DEF NovoNegocioPage, Page
<1> QED BY <1>2, <1>3, NovoNegocioSuits DEF Fits

LEMMA AssinaturasFits == Fits(AssinaturasPage)
<1>1. /\ AssinaturasPage.name = "assinaturas" /\ AssinaturasPage.for = Platform
      /\ AssinaturasPage.loud = {PlatformAdmin.subscriptions}
      /\ AssinaturasPage.loud \cup AssinaturasPage.told \cup AssinaturasPage.quiet =
            {PlatformAdmin.subscriptions}
  BY DEF AssinaturasPage, Page
<1>2. /\ PlatformAdmin.subscriptions.for = Platform /\ ~PlatformAdmin.subscriptions.own
  BY DEF PlatformAdmin, ++, Free, Get, Route, TenantMoves
<1>3. Opens(AssinaturasPage)
  BY <1>1, <1>2 DEF Opens, BrokenFor, Staff, Desk, Owner, Consumer, Platform
<1>4. AssinaturasPage.shows = Display({"SOME", "MORE"})
  BY DEF AssinaturasPage, Page
<1> QED BY <1>3, <1>4, DisplaySuits DEF Fits

LEMMA UsuariosFits == Fits(UsuariosPage)
<1>1. /\ UsuariosPage.name = "usuarios" /\ UsuariosPage.for = Platform
      /\ UsuariosPage.loud = {PlatformAdmin.users}
      /\ UsuariosPage.loud \cup UsuariosPage.told \cup UsuariosPage.quiet = {PlatformAdmin.users}
  BY DEF UsuariosPage, Page
<1>2. /\ PlatformAdmin.users.for = Platform /\ ~PlatformAdmin.users.own
  BY DEF PlatformAdmin, ++, Free, Get, Route, TenantMoves
<1>3. Opens(UsuariosPage)
  BY <1>1, <1>2 DEF Opens, BrokenFor, Staff, Desk, Owner, Consumer, Platform
<1>4. UsuariosPage.shows = Display({"SOME", "MORE"})
  BY DEF UsuariosPage, Page
<1> QED BY <1>3, <1>4, DisplaySuits DEF Fits

LEMMA CuponsFits == Fits(CuponsPage)
<1>1. /\ CuponsPage.name = "cupons" /\ CuponsPage.for = Platform
      /\ CuponsPage.loud = {PlatformAdmin.coupons}
      /\ CuponsPage.loud \cup CuponsPage.told \cup CuponsPage.quiet = {PlatformAdmin.coupons}
  BY DEF CuponsPage, Page
<1>2. /\ PlatformAdmin.coupons.for = Platform /\ ~PlatformAdmin.coupons.own
  BY DEF PlatformAdmin, ++, Free, Get, Route, TenantMoves
<1>3. Opens(CuponsPage)
  BY <1>1, <1>2 DEF Opens, BrokenFor, Staff, Desk, Owner, Consumer, Platform
<1>4. DOMAIN CuponsPage.shows = {"coupon"}
  BY DEF CuponsPage, Page
<1> QED BY <1>3, <1>4, CuponsSuits DEF Fits

LEMMA AuditoriaFits == Fits(AuditoriaPage)
<1>1. /\ AuditoriaPage.name = "auditoria" /\ AuditoriaPage.for = Platform
      /\ AuditoriaPage.loud = {PlatformAdmin.audit}
      /\ AuditoriaPage.loud \cup AuditoriaPage.told \cup AuditoriaPage.quiet =
            {PlatformAdmin.audit}
  BY DEF AuditoriaPage, Page
<1>2. /\ PlatformAdmin.audit.for = Platform /\ ~PlatformAdmin.audit.own
  BY DEF PlatformAdmin, ++, Free, Get, Route, TenantMoves
<1>3. Opens(AuditoriaPage)
  BY <1>1, <1>2 DEF Opens, BrokenFor, Staff, Desk, Owner, Consumer, Platform
<1>4. AuditoriaPage.shows = Display({"SOME", "MORE"})
  BY DEF AuditoriaPage, Page
<1> QED BY <1>3, <1>4, DisplaySuits DEF Fits

LEMMA MinhaContaFits == Fits(MinhaContaPage)
<1>1. /\ MinhaContaPage.name = "minhaConta" /\ MinhaContaPage.for = Consumer
      /\ MinhaContaPage.loud = {}
      /\ MinhaContaPage.loud \cup MinhaContaPage.told \cup MinhaContaPage.quiet =
            {ConsumerAccount.me, ConsumerAccount.bookings, ConsumerAccount.establishments, ConsumerAccount.sessions}
  BY DEF MinhaContaPage, Page
<1>2. /\ ConsumerAccount.me.for = Consumer /\ ~ConsumerAccount.me.own
      /\ ConsumerAccount.bookings.for = Consumer /\ ~ConsumerAccount.bookings.own
      /\ ConsumerAccount.establishments.for = Consumer /\ ~ConsumerAccount.establishments.own
      /\ ConsumerAccount.sessions.for = Consumer /\ ~ConsumerAccount.sessions.own
  BY DEF ConsumerAccount, Free, Get, Route
<1>3. Opens(MinhaContaPage)
  BY <1>1, <1>2 DEF Opens, BrokenFor, Staff, Desk, Owner, Consumer, Platform
<1>4. DOMAIN MinhaContaPage.shows = {"visit", "profile", "session"}
  BY DEF MinhaContaPage, Page
<1> QED BY <1>3, <1>4, VisitSuits, ProfileSuits, SessionSuits DEF Fits

LEMMA AvaliarFits == Fits(AvaliarPage)
<1>1. /\ AvaliarPage.name = "avaliar" /\ AvaliarPage.for = Consumer
      /\ AvaliarPage.loud = {}
      /\ AvaliarPage.loud \cup AvaliarPage.told \cup AvaliarPage.quiet = {Reviews.pending}
  BY DEF AvaliarPage, Page
<1>2. /\ Reviews.pending.for = Consumer /\ ~Reviews.pending.own
  BY DEF Reviews, Free, Get, Route
<1>3. Opens(AvaliarPage)
  BY <1>1, <1>2 DEF Opens, BrokenFor, Staff, Desk, Owner, Consumer, Platform
<1>4. DOMAIN AvaliarPage.shows = {"visit"}
  BY DEF AvaliarPage, Page
<1> QED BY <1>3, <1>4, AvaliarSuits DEF Fits

LEMMA SiteFits == \A p \in SitePages : Fits(p)
<1>1. \A p \in Dashboard : Fits(p)
  BY AgendaFits, ComandasFits, ComandaFits, CaixaFits, FinanceiroFits, ComissoesFits,
     ProdutosFits, ServicosFits, ProfissionaisFits, ProfissionalFits, ConfiguracoesFits, MarketplaceFits,
     ListaEsperaFits, FichasFits, ClientesFits, NovoClienteFits, ClienteFits, RelatoriosFits,
     PlanoFits
     DEF Dashboard
<1>2. \A p \in Outside : Fits(p)
  BY OverviewFits, NegociosFits, NegocioFits, NovoNegocioFits, AssinaturasFits, UsuariosFits,
     CuponsFits, AuditoriaFits, MinhaContaFits, AvaliarFits
     DEF Outside
<1> QED BY <1>1, <1>2 DEF SitePages

-----------------------------------------------------------------------------
(* The site in use *)

\* A request on its way: a button the role was offered, for the row it was offered for.
Request ==
    {q \in [control : Controls, about : RowsOf(Shows), answer : {"none", "done", "refused"},
            left : RowsOf(Shows)] :
        LET b == Shows.controls[q.control] IN role \in b.for /\ q.about \in b.in}

\* What is looked at, and by whom, fits.
Looked ==
    /\ Fits(page) /\ role \in page.for /\ kind \in DOMAIN page.shows
    /\ mine = (page.name = "profissional")

Seen ==
    /\ view \in {"closed", "whole", "empty", "told", "broken", "away", "left"}
    /\ lapsed \in BOOLEAN /\ blocked \in BOOLEAN /\ (lapsed => Inside)
    /\ view = "closed" => sent = <<>>
    /\ view = "whole" \/ sent # <<>> => <<page.name, role>> \notin BrokenFor

Asked ==
    /\ row \in RowsOf(Shows) /\ shown \in RowsOf(Shows)
    /\ sent \in Seq(Request) /\ Len(sent) <= count
    /\ count \in 0..MaxSent /\ others \in 0..MaxOthers
    /\ Still(Shows) => \A i \in DOMAIN sent : sent[i].about = shown /\ sent[i].left = shown
    /\ unseen \subseteq Controls /\ \A c \in unseen : <<page.name, c>> \in Deaf

SiteInv == Looked /\ Seen /\ Asked /\ OpensWhole /\ OfferedIsTaken

\* A page whose reads fit breaks, or is left empty, only as OpensWhole says ...
LEMMA ReadsFit ==
    ASSUME Looked, lapsed \in BOOLEAN
    PROVE  /\ Read \in {"whole", "empty", "told", "broken"}
           /\ <<page.name, role>> \in BrokenFor => Read = "broken"
           /\ Read \in {"broken", "empty"} => \/ lapsed /\ page.name # "plano"
                                              \/ Read = "broken" /\ <<page.name, role>> \in BrokenFor
<1>1. ASSUME <<page.name, role>> \in BrokenFor PROVE Read = "broken"
  <2>1. PICK route \in page.loud : role \notin route.for
    BY <1>1 DEF Looked, Fits, Opens
  <2> QED BY <2>1 DEF Read, Answers, Allows
<1>2. ASSUME NEW route \in page.loud \cup page.told \cup page.quiet, ~Answers(route),
             <<page.name, role>> \notin BrokenFor
      PROVE  lapsed /\ page.name # "plano"
  BY Zenon, <1>2 DEF Looked, Fits, Opens, Answers, Allows
<1> QED BY <1>1, <1>2 DEF Read

\* ... behind the gate of the dashboard too.
LEMMA BehindFits ==
    ASSUME Looked, lapsed \in BOOLEAN, NEW gate \in BOOLEAN, lapsed => Inside
    PROVE  /\ Behind(gate) \in {"whole", "empty", "told", "broken", "away"}
           /\ Behind(gate) = "whole" => <<page.name, role>> \notin BrokenFor
           /\ Behind(gate) \in {"broken", "empty"} =>
                 \/ lapsed /\ ~gate
                 \/ Behind(gate) = "broken" /\ <<page.name, role>> \in BrokenFor
BY ReadsFit DEF Behind, Gated

LEMMA SiteStarts ==
    ASSUME Init, \A p \in Site : Fits(p)
    PROVE  SiteInv
<1>1. Looked
  BY DEF Init, Looked
<1>2. Seen
  BY Zenon DEF Init, Seen
<1>3. Asked
  BY PortalAssumption DEF Init, Asked
<1>4. OpensWhole /\ OfferedIsTaken
  BY DEF Init, OpensWhole, OfferedIsTaken
<1> QED BY <1>1, <1>2, <1>3, <1>4 DEF SiteInv

\* Nothing of what is looked at changes.
\* Nobody walks from one page to another.
LEMMA StillLooked ==
    ASSUME Looked, UNCHANGED <<page, role, mine, kind>>
    PROVE  /\ Looked' /\ Shows' = Shows /\ Controls' = Controls /\ Request' = Request
           /\ (Inside' <=> Inside)
BY DEF Looked, Shows, Controls, Request, RowsOf, Inside

\* Who opens the page, or comes back to it.
\* The invariant, action by action.
LEMMA ArriveStep == SiteInv /\ (Arrive \/ Return) => SiteInv'
<1> SUFFICES ASSUME SiteInv, Arrive \/ Return PROVE SiteInv'
  OBVIOUS
<1> USE DEF SiteInv
<1>1. PICK gate \in BOOLEAN :
        /\ view' = Behind(gate) /\ blocked' = gate /\ shown' = row /\ unseen' \in {unseen, {}}
        /\ sent = <<>>
        /\ UNCHANGED <<page, role, mine, kind, row, lapsed, sent, refused, count, others>>
  BY Zenon DEF Arrive, Return, Seen
<1>2. Looked /\ lapsed \in BOOLEAN /\ (lapsed => Inside)
  BY DEF Seen
<1>3. Looked' /\ Shows' = Shows /\ Controls' = Controls /\ Request' = Request /\ (Inside' <=> Inside)
  BY <1>1, StillLooked
<1>4. /\ Behind(gate) \in {"whole", "empty", "told", "broken", "away"}
      /\ Behind(gate) = "whole" => <<page.name, role>> \notin BrokenFor
      /\ Behind(gate) \in {"broken", "empty"} =>
            \/ lapsed /\ ~gate
            \/ Behind(gate) = "broken" /\ <<page.name, role>> \in BrokenFor
  BY <1>2, BehindFits
<1>5. Seen'
  BY <1>1, <1>3, <1>4 DEF Seen
<1>6. Asked'
  BY <1>1, <1>3 DEF Asked
<1>7. OpensWhole' /\ OfferedIsTaken'
  BY <1>1, <1>4 DEF OpensWhole, OfferedIsTaken
<1> QED BY <1>3, <1>5, <1>6, <1>7

LEMMA PressStep == \A c \in Controls : SiteInv /\ Press(c) => SiteInv'
<1> SUFFICES ASSUME NEW c \in Controls, SiteInv, Press(c) PROVE SiteInv'
  OBVIOUS
<1> USE DEF SiteInv
<1> DEFINE q == [control |-> c, about |-> shown, answer |-> "none", left |-> shown]
<1>1. /\ view = "whole" /\ sent' = Append(sent, q) /\ count' = count + 1 /\ count < MaxSent
      /\ UNCHANGED <<page, role, mine, kind, row, shown, view, lapsed, blocked, unseen, refused, others>>
  BY DEF Press
<1>2. Looked' /\ Shows' = Shows /\ Controls' = Controls /\ Request' = Request /\ (Inside' <=> Inside)
  BY <1>1, StillLooked
<1>3. q \in Request
  BY DEF Press, Asked, Request
<1>4. sent \in Seq(Request) /\ count \in Nat /\ MaxSent \in Nat
  BY PortalAssumption DEF Asked
<1>5. Seen'
  BY <1>1, <1>2 DEF Seen
<1>6. /\ sent' \in Seq(Request) /\ Len(sent') = Len(sent) + 1
      /\ \A i \in DOMAIN sent' : (i \in DOMAIN sent /\ sent'[i] = sent[i]) \/ sent'[i] = q
  BY <1>1, <1>3, <1>4
<1>7. Asked'
  <2>1. Still(Shows) => \A i \in DOMAIN sent' : sent'[i].about = shown' /\ sent'[i].left = shown'
    BY <1>1, <1>6 DEF Asked
  <2> QED BY <1>1, <1>2, <1>4, <1>6, <2>1 DEF Asked
<1>8. OpensWhole' /\ OfferedIsTaken'
  BY <1>1 DEF OpensWhole, OfferedIsTaken
<1> QED BY <1>2, <1>5, <1>7, <1>8

LEMMA ElsewhereStep == SiteInv /\ (Other \/ Lapse) => SiteInv'
<1> SUFFICES ASSUME SiteInv, Other \/ Lapse PROVE SiteInv'
  OBVIOUS
<1> USE DEF SiteInv
<1>1. UNCHANGED <<page, role, mine, kind, shown, view, blocked, sent, unseen, refused, count>>
  BY DEF Other, Lapse
<1>2. Looked' /\ Shows' = Shows /\ Controls' = Controls /\ Request' = Request /\ (Inside' <=> Inside)
  BY <1>1, StillLooked
<1>3. row' \in RowsOf(Shows) /\ others' \in 0..MaxOthers
  BY PortalAssumption DEF Other, Lapse, Asked, RowsOf
<1>4. lapsed' \in BOOLEAN /\ (lapsed => lapsed') /\ (lapsed' => Inside)
  <2>1. CASE Other
    BY <2>1 DEF Other, Seen
  <2>2. CASE Lapse
    BY <2>2 DEF Lapse
  <2> QED BY <2>1, <2>2
<1>5. Seen'
  BY <1>1, <1>2, <1>4 DEF Seen
<1>6. Asked'
  BY <1>1, <1>2, <1>3 DEF Asked
<1>7. OpensWhole' /\ OfferedIsTaken'
  BY <1>1, <1>4 DEF OpensWhole, OfferedIsTaken
<1> QED BY <1>2, <1>5, <1>6, <1>7

\* The server answers as the row and the salon's plan are when it does.
LEMMA ServeStep == SiteInv /\ Serve => SiteInv'
<1> SUFFICES ASSUME SiteInv, Serve PROVE SiteInv'
  OBVIOUS
<1> USE DEF SiteInv
<1> DEFINE h == sent[1]
           b == Shows.controls[h.control]
           route == b.action.route
<1>1. /\ sent # <<>>
      /\ UNCHANGED <<page, role, mine, kind, shown, view, lapsed, blocked, unseen, count, others>>
  BY Zenon DEF Serve
<1>2. Looked' /\ Shows' = Shows /\ Controls' = Controls /\ Request' = Request /\ (Inside' <=> Inside)
  BY <1>1, StillLooked
<1>3. /\ sent \in Seq(Request) /\ Len(sent) \in Nat /\ 1 \in DOMAIN sent /\ Head(sent) = h /\ h \in Request
  BY <1>1 DEF Asked
<1>4. /\ h.control \in Controls /\ role \in b.for /\ h.about \in b.in /\ h.about \in RowsOf(Shows)
      /\ h.left \in RowsOf(Shows)
  BY <1>3 DEF Request
<1>5. Suits(page, Shows)
  BY DEF Looked, Fits, Shows
<1>6. route.moves \subseteq Shows.moves
  BY Zenon, <1>4, <1>5 DEF Suits, Fit, Controls
<1>7. \/ \E m \in {x \in route.moves : x[1] = row} :
            row' = m[2] /\ sent' = [sent EXCEPT ![1].answer = "done", ![1].left = m[2]] /\ UNCHANGED refused
      \/ /\ ~Answers(route) \/ {m \in route.moves : m[1] = row} = {}
         /\ sent' = [sent EXCEPT ![1].answer = "refused"]
         /\ refused' = [control |-> h.control, stale |-> h.about # row]
         /\ UNCHANGED row
  BY Zenon, <1>3 DEF Serve
<1>8. CASE \E m \in {x \in route.moves : x[1] = row} :
            row' = m[2] /\ sent' = [sent EXCEPT ![1].answer = "done", ![1].left = m[2]] /\ UNCHANGED refused
  <2>1. PICK m \in route.moves :
            /\ m[1] = row /\ row' = m[2]
            /\ sent' = [sent EXCEPT ![1].answer = "done", ![1].left = m[2]] /\ UNCHANGED refused
    BY Zenon, <1>8
  <2> DEFINE x == [[h EXCEPT !.answer = "done"] EXCEPT !.left = m[2]]
  <2>2. m[2] \in RowsOf(Shows)
    BY <2>1, <1>6 DEF RowsOf
  <2>3. x \in Request /\ x.about = h.about /\ x.left = m[2]
    BY Zenon, <1>3, <2>2 DEF Request
  <2>4. sent' = [sent EXCEPT ![1] = x]
    BY Zenon, <2>1, <1>3
  <2> HIDE DEF x
  <2>5. /\ sent' \in Seq(Request) /\ Len(sent') = Len(sent) /\ DOMAIN sent' = DOMAIN sent
        /\ sent'[1] = x /\ \A i \in DOMAIN sent : i # 1 => sent'[i] = sent[i]
    BY <2>3, <2>4, <1>3
  <2>6. Still(Shows) => \A i \in DOMAIN sent' : sent'[i].about = shown' /\ sent'[i].left = shown'
    <3>1. ASSUME Still(Shows) PROVE m[2] = h.about /\ h.about = shown
      BY <3>1, <1>3, <1>4, <2>1 DEF Still, Asked, Controls
    <3> QED BY <3>1, <2>3, <2>5, <1>1 DEF Asked
  <2>7. Asked'
    BY <2>2, <2>5, <2>6, <2>1, <1>1, <1>2 DEF Asked
  <2>8. sent' # <<>>
    BY <2>5, <1>3
  <2>9. Seen'
    BY <2>8, <1>1, <1>2 DEF Seen
  <2>10. OpensWhole' /\ OfferedIsTaken'
    BY <2>1, <1>1 DEF OpensWhole, OfferedIsTaken
  <2> QED BY <1>2, <2>7, <2>9, <2>10
<1>9. CASE /\ ~Answers(route) \/ {m \in route.moves : m[1] = row} = {}
           /\ sent' = [sent EXCEPT ![1].answer = "refused"]
           /\ refused' = [control |-> h.control, stale |-> h.about # row]
           /\ UNCHANGED row
  <2> DEFINE x == [h EXCEPT !.answer = "refused"]
  <2>1. x \in Request /\ x.about = h.about /\ x.left = h.left
    BY <1>3 DEF Request
  <2>2. sent' = [sent EXCEPT ![1] = x]
    BY <1>9, <1>3
  <2> HIDE DEF x
  <2>3. /\ sent' \in Seq(Request) /\ Len(sent') = Len(sent) /\ DOMAIN sent' = DOMAIN sent
        /\ sent'[1] = x /\ \A i \in DOMAIN sent : i # 1 => sent'[i] = sent[i]
    BY <2>1, <2>2, <1>3
  <2>4. Still(Shows) => \A i \in DOMAIN sent' : sent'[i].about = shown' /\ sent'[i].left = shown'
    BY <2>1, <2>3, <1>1, <1>3 DEF Asked
  <2>5. Asked'
    BY <1>9, <2>3, <2>4, <1>1, <1>2 DEF Asked
  <2>6. sent' # <<>>
    BY <2>3, <1>3
  <2>7. Seen'
    BY <2>6, <1>1, <1>2 DEF Seen
  <2>8. OpensWhole'
    BY <1>1 DEF OpensWhole
  <2>9. ASSUME h.about = row, ~lapsed, <<page.name, h.control>> \notin OfferedRegardless PROVE FALSE
    <3>1. Taken(page, Shows, b)
      BY <1>4, <1>5, <2>9 DEF Suits, Fit, Controls
    <3>2. role \in page.for \cap b.for /\ <<page.name, role>> \notin BrokenFor
      BY <1>1, <1>4 DEF Looked, Seen
    <3>3. Answers(route)
      BY Zenon, <3>1, <3>2, <2>9 DEF Taken, Answers, Allows, Looked
    <3>4. row \in From(route.moves)
      BY <3>1, <1>4, <2>9 DEF Taken
    <3> QED BY <1>9, <3>3, <3>4 DEF From
  <2>10. OfferedIsTaken'
    BY Zenon, <1>9, <1>1, <2>9 DEF OfferedIsTaken
  <2> QED BY <1>2, <2>5, <2>7, <2>8, <2>10
<1> QED BY Zenon, <1>7, <1>8, <1>9

\* The screen hears of it: it shows the row as it was left, or the refusal, or is known not to.
LEMMA AnswerStep == SiteInv /\ Answer => SiteInv'
<1> SUFFICES ASSUME SiteInv, Answer PROVE SiteInv'
  OBVIOUS
<1> USE DEF SiteInv
<1> DEFINE h == sent[1]
           c == h.control
           b == Shows.controls[c]
           then == b.action.then
<1>1. /\ sent # <<>> /\ sent' = Tail(sent)
      /\ UNCHANGED <<page, role, mine, kind, row, lapsed, refused, count, others>>
  BY DEF Answer
<1>2. Looked' /\ Shows' = Shows /\ Controls' = Controls /\ Request' = Request /\ (Inside' <=> Inside)
  BY <1>1, StillLooked
<1>3. /\ sent \in Seq(Request) /\ Len(sent) \in Nat /\ 1 \in DOMAIN sent /\ Head(sent) = h /\ h \in Request
  BY <1>1 DEF Asked
<1>4. c \in Controls /\ h.left \in RowsOf(Shows)
  BY <1>3 DEF Request
<1>5. Heard(page, Shows, c, b)
  BY Zenon, <1>4 DEF Looked, Fits, Shows, Suits, Fit, Controls
<1>6. /\ sent' \in Seq(Request) /\ Len(sent') <= Len(sent) /\ Len(sent') \in Nat
      /\ \A i \in DOMAIN sent' : i + 1 \in DOMAIN sent /\ sent'[i] = sent[i + 1]
  BY <1>1, <1>3
<1>7. <<page.name, role>> \notin BrokenFor /\ view # "closed"
  BY <1>1 DEF Seen
<1>8. Looked /\ lapsed \in BOOLEAN /\ blocked \in BOOLEAN /\ (lapsed => Inside)
  BY DEF Seen
<1>9. /\ Behind(lapsed) \in {"whole", "empty", "told", "broken", "away"}
      /\ Behind(lapsed) \notin {"broken", "empty"}
  BY <1>7, <1>8, BehindFits
<1>10. Still(Shows) => h.left = shown /\ \A i \in DOMAIN sent' : sent'[i].about = shown /\ sent'[i].left = shown
  BY <1>3, <1>6 DEF Asked
<1>11. \/ Shown(c, h.left)
       \/ /\ UNCHANGED <<shown, view, blocked>>
          /\ unseen' = IF b.told THEN unseen ELSE unseen \cup {c}
  BY <1>3 DEF Answer
<1>12. /\ \/ view' \in {view, "left", "told"} /\ blocked' = blocked
          \/ view' = Behind(lapsed) /\ blocked' = lapsed
       /\ shown' \in {shown, h.left, row}
       /\ Still(Shows) => shown' = shown
       /\ unseen' \in {unseen, {}, unseen \cup {c}}
       /\ unseen' \in {unseen, {}} \/ <<page.name, c>> \in Deaf
  <2>1. CASE UNCHANGED <<shown, view, blocked>>
             /\ (unseen' = IF b.told THEN unseen ELSE unseen \cup {c})
    BY <2>1, <1>5 DEF Heard
  <2>2. CASE Shown(c, h.left) /\ then \in {"leave", "answer", "render"}
    BY <2>2, <1>10 DEF Shown
  <2>3. CASE Shown(c, h.left) /\ then = "reload"
    <3>1. ~Still(Shows)
      BY <2>3, <1>4 DEF Still, Controls
    <3> QED BY <2>3, <3>1 DEF Shown
  <2>4. CASE Shown(c, h.left) /\ then \notin {"leave", "answer", "reload", "render"}
    <3>1. UNCHANGED <<shown, view, blocked>> /\ unseen' = IF shown = h.left THEN unseen ELSE unseen \cup {c}
      BY <2>4 DEF Shown
    <3>2. <<page.name, c>> \in Deaf \/ Still(Shows)
      BY <2>4, <1>5 DEF Heard
    <3> QED BY <3>1, <3>2, <1>10
  <2> QED BY <1>11, <2>1, <2>2, <2>3, <2>4
<1>13. Seen'
  BY <1>1, <1>2, <1>7, <1>9, <1>12 DEF Seen
<1>14. shown' \in RowsOf(Shows)
  BY <1>4, <1>12 DEF Asked
<1>15. unseen' \subseteq Controls /\ \A d \in unseen' : <<page.name, d>> \in Deaf
  BY <1>4, <1>12 DEF Asked
<1>16. Asked'
  BY <1>1, <1>2, <1>6, <1>10, <1>12, <1>14, <1>15, <1>3 DEF Asked
<1>17. OpensWhole' /\ OfferedIsTaken'
  BY <1>1, <1>9, <1>12 DEF OpensWhole, OfferedIsTaken
<1> QED BY <1>2, <1>13, <1>16, <1>17

LEMMA SiteStep == SiteInv /\ [Next]_vars => SiteInv'
<1> SUFFICES ASSUME SiteInv, [Next]_vars PROVE SiteInv'
  OBVIOUS
<1>1. CASE UNCHANGED vars
  <2>1. Looked' /\ Shows' = Shows /\ Controls' = Controls /\ Request' = Request /\ (Inside' <=> Inside)
    BY <1>1, StillLooked DEF vars, SiteInv
  <2>2. Seen' /\ Asked'
    BY <1>1, <2>1 DEF vars, screenVars, SiteInv, Seen, Asked
  <2> QED BY <1>1, <2>1, <2>2 DEF vars, screenVars, SiteInv, OpensWhole, OfferedIsTaken
<1>2. CASE Next
  BY <1>2, ArriveStep, PressStep, ServeStep, AnswerStep, ElsewhereStep DEF Next
<1> QED BY <1>1, <1>2

LEMMA SiteHolds == SiteInv => OfferedIsTaken /\ OutcomeSeen /\ OpensWhole
<1> SUFFICES ASSUME SiteInv PROVE OutcomeSeen
  BY DEF SiteInv
<1>1. mine \in BOOLEAN
  BY DEF SiteInv, Looked
<1>2. \A i \in DOMAIN sent : sent[i].control \in Controls /\ sent[i].answer \in {"none", "done", "refused"}
  BY DEF SiteInv, Asked, Request
<1>3. Len(sent) <= MaxSent
  BY PortalAssumption DEF SiteInv, Asked
<1> QED BY <1>1, <1>2, <1>3 DEF SiteInv, Looked, Seen, Asked, OutcomeSeen, TypeOK

\* The other parts leave the site alone.
LEMMA SiteMoves == [MCNext]_allVars => [Next]_vars
BY DEF MCNext, allVars

LEMMA SiteAlways == MCSpec => []SiteInv
<1>1. MCInit => SiteInv
  <2> SUFFICES ASSUME MCInit PROVE SiteInv
    OBVIOUS
  <2>1. Init
    BY DEF MCInit
  <2>2. \A p \in Site : Fits(p)
    BY SiteFits, SiteAssumed
  <2> QED BY <2>1, <2>2, SiteStarts
<1>2. SiteInv /\ [MCNext]_allVars => SiteInv'
  BY SiteMoves, SiteStep
<1> QED BY <1>1, <1>2, PTL DEF MCSpec

\* A button shown on a row to a role is one the backend carries out (roles.guard.ts, the transitions
\* of appointments.service.ts and the checks of the other services, against their copies in the
\* frontend), however many requests are on their way and whatever others do meanwhile.
THEOREM OfferedButtonsAreTaken == MCSpec => []OfferedIsTaken
BY SiteAlways, SiteHolds, PTL

\* What became of a request reaches the screen (revalidatePath, redirect and the state of each form),
\* save for the components known to be deaf to it.
THEOREM OutcomesAreSeen == MCSpec => []OutcomeSeen
BY SiteAlways, SiteHolds, PTL

\* A page opens whole to every role its guard lets in, unless the plan lapsed and the dashboard's
\* frame does not know it (BillingGate.tsx); the pages broken for a role are listed.
THEOREM PagesOpenWhole == MCSpec => []OpensWhole
BY SiteAlways, SiteHolds, PTL

-----------------------------------------------------------------------------
(* The other parts *)

\* A part that does not move keeps its variables, one that moves takes its own steps.
LEMMA PartsMove ==
    ASSUME [MCNext]_allVars
    PROVE  /\ part' = part
           /\ part = "plan" => [Plan!Next]_planVars
           /\ part = "services" => [Services2!Next]_wizardVars
           /\ part = "days" => [Days2!Next]_wizardVars
           /\ part = "screen" => [Screen!Next]_agendaVars
           /\ part = "times" => [Times!Next]_timeVars
<1>1. CASE UNCHANGED allVars
  BY <1>1 DEF allVars
<1>2. CASE MCNext
  BY <1>2 DEF MCNext
<1> QED BY <1>1, <1>2

-----------------------------------------------------------------------------
(* The wizard *)

\* WizardProofs, for each of the two wizards.
Svc == INSTANCE WizardProofs WITH Services <- {"cut", "dye"}, Dates <- {Today}, Nobody <- NoExpert,
                                  Serves <- Gives({"cut", "dye"}), MaxEntries <- 0,
                                  offer <- slots, told <- warned, mine <- got
Day == INSTANCE WizardProofs WITH Services <- {"cut"}, Dates <- {Today, Today + 1}, Nobody <- NoExpert,
                                  Serves <- Gives({"cut"}), offer <- slots, told <- warned, mine <- got

\* Both count with the cardinality of FiniteSets.
LEMMA SameCardinality ==
    \A S : /\ Svc!Cardinality(S) = Services2!Cardinality(S)
           /\ Day!Cardinality(S) = Days2!Cardinality(S)
BY DEF Svc!Cardinality, Services2!Cardinality, Svc!IsFiniteSet, Services2!IsFiniteSet,
       Day!Cardinality, Days2!Cardinality, Day!IsFiniteSet, Days2!IsFiniteSet

\* The wizard that Svc speaks of is Services2: it moves alike ...
LEMMA ServicesMove == [Services2!Next]_wizardVars => [Svc!Next]_(Svc!wizardVars)
BY Zenon, SameCardinality DEF wizardVars, Svc!wizardVars,
      Services2!Next, Services2!Advance, Services2!Continue, Services2!Jump,
      Services2!SelectService, Services2!ProfessionalsArrive, Services2!RetryProfessionals,
      Services2!SelectProfessional, Services2!SelectDate, Services2!RetrySlots,
      Services2!SlotsArrive, Services2!SelectSlot, Services2!JoinWaitlist,
      Services2!Confirm, Services2!ServerBooks, Services2!Receive, Services2!AnswerLost,
      Services2!SlotTaken, Services2!Choosing, Services2!LoadProfessionals,
      Services2!LoadSlots, Services2!Loading, Services2!Given, Services2!Failed,
      Services2!Crew, Services2!Answer, Services2!Gives, Services2!SlotsShown,
      Services2!Screen, Svc!Next, Svc!Advance, Svc!Continue, Svc!Jump, Svc!SelectService,
      Svc!ProfessionalsArrive, Svc!RetryProfessionals, Svc!SelectProfessional,
      Svc!SelectDate, Svc!RetrySlots, Svc!SlotsArrive, Svc!SelectSlot, Svc!JoinWaitlist,
      Svc!Confirm, Svc!ServerBooks, Svc!Receive, Svc!AnswerLost, Svc!SlotTaken,
      Svc!Choosing, Svc!LoadProfessionals, Svc!LoadSlots, Svc!Loading, Svc!Given,
      Svc!Failed, Svc!Crew, Svc!Answer, Svc!Gives, Svc!SlotsShown, Svc!Screen

\* ... starts alike, and promises the same.
LEMMA ServicesPromise ==
    /\ Services2!WizardAssumption => Svc!WizardAssumption
    /\ Days2!Init => Svc!Init
    /\ Svc!TypeOK /\ Svc!SentIsOffered => Services2!TypeOK /\ Services2!SentIsOffered
    /\ Svc!BooksTwiceOnlyIfUnheard => Services2!BooksTwiceOnlyIfUnheard
BY SameCardinality DEF Days2!Init, Days2!Loading,
      Services2!WizardAssumption, Services2!Keys, Services2!Posts, Services2!Init,
      Services2!TypeOK, Services2!SentIsOffered, Services2!BooksTwiceOnlyIfUnheard,
      Services2!Loading, Services2!Gives, Svc!WizardAssumption, Svc!Keys, Svc!Posts,
      Svc!Init, Svc!TypeOK, Svc!SentIsOffered, Svc!BooksTwiceOnlyIfUnheard, Svc!Loading,
      Svc!Gives

\* The wizard that Day speaks of is Days2: it moves alike ...
LEMMA DaysMove == [Days2!Next]_wizardVars => [Day!Next]_(Day!wizardVars)
BY Zenon, SameCardinality DEF wizardVars, Day!wizardVars,
      Days2!Next, Days2!Advance, Days2!Continue, Days2!Jump, Days2!SelectService,
      Days2!ProfessionalsArrive, Days2!RetryProfessionals, Days2!SelectProfessional,
      Days2!SelectDate, Days2!RetrySlots, Days2!SlotsArrive, Days2!SelectSlot,
      Days2!JoinWaitlist, Days2!Confirm, Days2!ServerBooks, Days2!Receive, Days2!AnswerLost,
      Days2!SlotTaken, Days2!Choosing, Days2!LoadProfessionals, Days2!LoadSlots,
      Days2!Loading, Days2!Given, Days2!Failed, Days2!Crew, Days2!Answer, Days2!Gives,
      Days2!SlotsShown, Days2!Screen, Day!Next, Day!Advance, Day!Continue, Day!Jump,
      Day!SelectService, Day!ProfessionalsArrive, Day!RetryProfessionals,
      Day!SelectProfessional, Day!SelectDate, Day!RetrySlots, Day!SlotsArrive,
      Day!SelectSlot, Day!JoinWaitlist, Day!Confirm, Day!ServerBooks, Day!Receive,
      Day!AnswerLost, Day!SlotTaken, Day!Choosing, Day!LoadProfessionals, Day!LoadSlots,
      Day!Loading, Day!Given, Day!Failed, Day!Crew, Day!Answer, Day!Gives, Day!SlotsShown,
      Day!Screen

\* ... starts alike, and promises the same.
LEMMA DaysPromise ==
    /\ Days2!WizardAssumption => Day!WizardAssumption
    /\ Days2!Init => Day!Init
    /\ Day!TypeOK /\ Day!SentIsOffered => Days2!TypeOK /\ Days2!SentIsOffered
    /\ Day!BooksTwiceOnlyIfUnheard => Days2!BooksTwiceOnlyIfUnheard
BY SameCardinality DEF Days2!Init, Days2!Loading,
      Days2!WizardAssumption, Days2!Keys, Days2!Posts, Days2!Init, Days2!TypeOK,
      Days2!SentIsOffered, Days2!BooksTwiceOnlyIfUnheard, Days2!Loading, Days2!Gives,
      Day!WizardAssumption, Day!Keys, Day!Posts, Day!Init, Day!TypeOK, Day!SentIsOffered,
      Day!BooksTwiceOnlyIfUnheard, Day!Loading, Day!Gives

WizardInv == Booking(Svc!WInv, Day!WInv)

LEMMA WizardsStart == MCInit => WizardInv
BY WizardsAssumed, ServicesPromise, DaysPromise, Svc!WizardStarts, Day!WizardStarts
   DEF MCInit, WizardInv, Booking, Of

LEMMA WizardsStep == WizardInv /\ [MCNext]_allVars => WizardInv'
<1> SUFFICES ASSUME WizardInv, [MCNext]_allVars PROVE WizardInv'
  OBVIOUS
<1>1. part' = part
  BY PartsMove
<1>2. CASE part = "services"
  <2>1. Svc!WInv /\ Svc!WizardAssumption /\ [Svc!Next]_(Svc!wizardVars)
    BY <1>2, PartsMove, WizardsAssumed, ServicesMove, ServicesPromise DEF WizardInv, Booking, Of
  <2> QED BY <1>1, <1>2, <2>1, Svc!WizardStep DEF WizardInv, Booking, Of
<1>3. CASE part = "days"
  <2>1. Day!WInv /\ Day!WizardAssumption /\ [Day!Next]_(Day!wizardVars)
    BY <1>3, PartsMove, WizardsAssumed, DaysMove, DaysPromise DEF WizardInv, Booking, Of
  <2> QED BY <1>1, <1>3, <2>1, Day!WizardStep DEF WizardInv, Booking, Of
<1> QED BY <1>1, <1>2, <1>3 DEF WizardInv, Booking, Of

LEMMA WizardsAlways == MCSpec => []WizardInv
<1>1. MCInit => WizardInv
  BY WizardsStart
<1>2. WizardInv /\ [MCNext]_allVars => WizardInv'
  BY WizardsStep
<1> QED BY <1>1, <1>2, PTL DEF MCSpec

\* In whatever order the answers arrive, the booking a client sends is for a slot that was
\* offered for the professional, the service and the day on the screen (BookingWizard.tsx).
THEOREM SentSlotsWereOffered == MCSpec => []SentIsOffered
<1>1. WizardInv => SentIsOffered
  BY Svc!WizardHolds, Day!WizardHolds, ServicesPromise, DaysPromise
     DEF WizardInv, SentIsOffered, Booking, Of
<1> QED BY <1>1, WizardsAlways, PTL

\* A client whose answers all arrived has one booking at most, and no error is the last thing
\* said about it (handleConfirm of BookingWizard.tsx).
THEOREM HeardIsBookedOnce == MCSpec => []BooksTwiceOnlyIfUnheard
<1>1. WizardInv => BooksTwiceOnlyIfUnheard
  BY Svc!WizardHolds, Day!WizardHolds, ServicesPromise, DaysPromise
     DEF WizardInv, BooksTwiceOnlyIfUnheard, Booking, Of
<1> QED BY <1>1, WizardsAlways, PTL

-----------------------------------------------------------------------------
(* The agenda of the staff *)

Ops == {"load", "change", "create"}
Actions == [op : Ops, date : Days, filter : Team \cup {Everyone}]

\* An action of the day and the professional on the screen.
OfScreen(action, d, f) == action.date = d /\ action.filter = f

\* While the user does not stray from a change on its way, every change is of what the
\* screen shows, the last load as well, and with no load to come the calendar is.
Followed ==
    astray \/
        /\ \A i \in 1..Len(queue) : queue[i].op # "load" => OfScreen(queue[i], date, filter)
        /\ \A i \in 1..Len(queue) :
               queue[i].op = "load" /\ (\A j \in (i + 1)..Len(queue) : queue[j].op # "load")
                   => OfScreen(queue[i], date, filter)
        /\ (\A i \in 1..Len(queue) : queue[i].op # "load") =>
               loadError \/ calendar = [date |-> date, filter |-> filter, saved |-> saved]

\* The selector lists nobody until a first load, and everyone from then on.
Listed ==
    /\ options \in {{}, Team}
    /\ filter # Everyone => options = Team

ScreenTyped ==
    /\ date \in Days /\ filter \in Team \cup {Everyone} /\ saved \in Nat
    /\ calendar \in [date : Days, filter : Team \cup {Everyone}, saved : 0..saved]
    /\ loadError \in BOOLEAN /\ astray \in BOOLEAN
    /\ panel \in {"closed", "open", "saving"} /\ dialog \in {"closed", "open", "saving"}
    /\ queue \in Seq(Actions)

ScreenInv == ScreenTyped /\ Followed /\ Listed

\* The user moves: a load of what the screen now shows is the last action.
LEMMA ReloadKeeps ==
    ASSUME ScreenInv, NEW d \in Days, NEW f \in Team \cup {Everyone},
           f # Everyone => options = Team,
           date' = d, filter' = f, Screen!reload(d, f),
           UNCHANGED <<calendar, loadError, options, panel, dialog, saved>>
    PROVE  ScreenInv'
<1> DEFINE last == [op |-> "load", date |-> d, filter |-> f]
<1>1. /\ queue' = Append(queue, last) /\ last \in Actions
      /\ astray' = (astray \/ Screen!Changes({"change", "create"}) # {})
  BY DEF Screen!reload, Screen!Load, Actions, Ops
<1>2. queue \in Seq(Actions) /\ last.op = "load" /\ last.date = d /\ last.filter = f
  BY DEF ScreenInv, ScreenTyped
<1> HIDE DEF last
<1>3. /\ queue' \in Seq(Actions) /\ Len(queue') = Len(queue) + 1 /\ Len(queue) \in Nat
      /\ \A i \in 1..Len(queue) : queue'[i] = queue[i]
      /\ queue'[Len(queue) + 1] = last
  BY <1>1, <1>2
<1>4. astray' \in BOOLEAN
  BY <1>1 DEF ScreenInv, ScreenTyped
<1>5. ASSUME ~astray' PROVE \A i \in 1..Len(queue) : queue[i].op = "load"
  <2>1. \A i \in DOMAIN queue : ~(queue[i].op \in {"change", "create"})
    BY Zenon, <1>1, <1>5 DEF Screen!Changes
  <2>2. DOMAIN queue = 1..Len(queue) /\ \A i \in 1..Len(queue) : queue[i] \in Actions
    BY <1>2
  <2> QED BY <2>1, <2>2 DEF Actions, Ops
<1>6. Followed'
  <2> SUFFICES ASSUME ~astray' PROVE
                   /\ \A i \in 1..Len(queue') : queue'[i].op # "load" => OfScreen(queue'[i], d, f)
                   /\ \A i \in 1..Len(queue') :
                        queue'[i].op = "load" /\ (\A j \in (i + 1)..Len(queue') : queue'[j].op # "load")
                          => OfScreen(queue'[i], d, f)
                   /\ ~(\A i \in 1..Len(queue') : queue'[i].op # "load")
    BY DEF Followed
  <2> QED BY <1>2, <1>3, <1>5 DEF OfScreen
<1> QED BY <1>3, <1>4, <1>6 DEF ScreenInv, ScreenTyped, Listed

\* The panel and the dialog open and close over the same calendar.
LEMMA PanelsKeep ==
    ASSUME ScreenInv, panel' \in {"closed", "open", "saving"}, dialog' \in {"closed", "open", "saving"},
           UNCHANGED <<date, filter, calendar, loadError, options, queue, saved, astray>>
    PROVE  ScreenInv'
BY Zenon DEF ScreenInv, ScreenTyped, Followed, Listed, OfScreen

\* A change of what the screen shows is sent: it is no load, and the loads stay.
LEMMA SaveKeeps == ASSUME ScreenInv, Screen!Save PROVE ScreenInv'
<1>1. PICK op \in {"change", "create"} : queue' = Append(queue, Screen!Change(op))
  BY DEF Screen!Save
<1>2. /\ panel' \in {"closed", "open", "saving"} /\ dialog' \in {"closed", "open", "saving"}
      /\ UNCHANGED <<date, filter, calendar, loadError, options, saved, astray>>
  BY DEF ScreenInv, ScreenTyped, Screen!Save
<1> DEFINE last == Screen!Change(op)
<1>3. last \in Actions /\ last.op # "load" /\ OfScreen(last, date, filter)
  BY DEF ScreenInv, ScreenTyped, Actions, Ops, OfScreen, Screen!Change
<1>4. queue \in Seq(Actions) /\ queue' = Append(queue, last)
  BY <1>1 DEF ScreenInv, ScreenTyped
<1> HIDE DEF last
<1>5. /\ queue' \in Seq(Actions) /\ Len(queue') = Len(queue) + 1 /\ Len(queue) \in Nat
      /\ \A i \in 1..Len(queue) : queue'[i] = queue[i]
      /\ queue'[Len(queue) + 1] = last
  BY <1>3, <1>4
<1>6. Followed'
  <2> SUFFICES ASSUME ~astray PROVE
                   /\ \A i \in 1..Len(queue') : queue'[i].op # "load" => OfScreen(queue'[i], date, filter)
                   /\ \A i \in 1..Len(queue') :
                        queue'[i].op = "load" /\ (\A j \in (i + 1)..Len(queue') : queue'[j].op # "load")
                          => OfScreen(queue'[i], date, filter)
                   /\ (\A i \in 1..Len(queue') : queue'[i].op # "load") =>
                        loadError \/ calendar = [date |-> date, filter |-> filter, saved |-> saved]
    BY <1>2 DEF Followed, OfScreen
  <2>1. \A i \in 1..Len(queue') : i \in 1..Len(queue) \/ i = Len(queue) + 1
    BY <1>5
  <2>2. \A i \in 1..Len(queue') : queue'[i].op # "load" => OfScreen(queue'[i], date, filter)
    BY <1>3, <1>5, <2>1 DEF ScreenInv, Followed
  <2>3. ASSUME NEW i \in 1..Len(queue'), queue'[i].op = "load",
               \A j \in (i + 1)..Len(queue') : queue'[j].op # "load"
        PROVE  OfScreen(queue'[i], date, filter)
    <3>1. i \in 1..Len(queue) /\ queue[i].op = "load"
      BY <1>3, <1>5, <2>1, <2>3
    <3>2. \A j \in (i + 1)..Len(queue) : queue[j].op # "load"
      BY <1>5, <2>3, <3>1
    <3> QED BY <1>5, <3>1, <3>2 DEF ScreenInv, Followed
  <2>4. (\A i \in 1..Len(queue') : queue'[i].op # "load") => \A i \in 1..Len(queue) : queue[i].op # "load"
    BY <1>5
  <2> QED BY <2>2, <2>3, <2>4 DEF ScreenInv, Followed
<1> QED BY <1>2, <1>5, <1>6 DEF ScreenInv, ScreenTyped, Listed

\* What the oldest action leaves behind.
LEMMA RestOfQueue ==
    ASSUME queue \in Seq(Actions), queue # <<>>
    PROVE  /\ Head(queue) = queue[1] /\ Head(queue) \in Actions /\ 1 \in 1..Len(queue)
           /\ Tail(queue) \in Seq(Actions) /\ Len(Tail(queue)) = Len(queue) - 1 /\ Len(queue) \in Nat
           /\ \A i \in 1..Len(Tail(queue)) : Tail(queue)[i] = queue[i + 1] /\ i + 1 \in 1..Len(queue)
           /\ \A i \in 2..Len(queue) : i - 1 \in 1..Len(Tail(queue)) /\ queue[i] = Tail(queue)[i - 1]
<1>1. Len(queue) \in Nat /\ Len(queue) # 0
  OBVIOUS
<1>2. /\ Tail(queue) \in Seq(Actions) /\ Len(Tail(queue)) = Len(queue) - 1
      /\ \A i \in 1..(Len(queue) - 1) : Tail(queue)[i] = queue[i + 1]
  OBVIOUS
<1>3. /\ 1 \in 1..Len(queue) /\ Head(queue) = queue[1]
      /\ \A i \in 1..Len(queue) : queue[i] \in Actions
  BY <1>1
<1>4. \A i \in 2..Len(queue) : i - 1 \in 1..(Len(queue) - 1) /\ (i - 1) + 1 = i
  BY <1>1
<1> QED BY <1>1, <1>2, <1>3, <1>4

\* A load brings the calendar it asked for, or says that it failed.
LEMMA LoadedKeeps == ASSUME ScreenInv, Screen!Loaded PROVE ScreenInv'
<1> DEFINE first == Head(queue)
           rest == Tail(queue)
<1>1. /\ queue # <<>> /\ first.op = "load" /\ queue' = rest /\ panel' = "closed"
      /\ \/ /\ calendar' = [date |-> first.date, filter |-> first.filter, saved |-> saved]
            /\ options' = Screen!Names(first.filter)
            /\ loadError' = FALSE
         \/ loadError' = TRUE /\ UNCHANGED <<calendar, options>>
      /\ UNCHANGED <<date, filter, dialog, saved, astray>>
  BY DEF Screen!Loaded
<1>2. /\ first = queue[1] /\ first \in Actions /\ 1 \in 1..Len(queue)
      /\ rest \in Seq(Actions) /\ Len(rest) = Len(queue) - 1 /\ Len(queue) \in Nat
      /\ \A i \in 1..Len(rest) : rest[i] = queue[i + 1] /\ i + 1 \in 1..Len(queue)
      /\ \A i \in 2..Len(queue) : i - 1 \in 1..Len(rest) /\ queue[i] = rest[i - 1]
  BY <1>1, RestOfQueue DEF ScreenInv, ScreenTyped
<1> HIDE DEF first, rest
<1>3. ScreenTyped'
  <2>1. calendar' \in [date : Days, filter : Team \cup {Everyone}, saved : 0..saved]
    <3>1. first.date \in Days /\ first.filter \in Team \cup {Everyone} /\ saved \in 0..saved
      BY <1>2 DEF ScreenInv, ScreenTyped, Actions
    <3>2. [date |-> first.date, filter |-> first.filter, saved |-> saved]
              \in [date : Days, filter : Team \cup {Everyone}, saved : 0..saved]
      BY <3>1, Zenon
    <3> QED BY <1>1, <3>2 DEF ScreenInv, ScreenTyped
  <2>2. loadError' \in BOOLEAN
    BY Zenon, <1>1 DEF ScreenInv, ScreenTyped
  <2> QED BY <1>1, <1>2, <2>1, <2>2 DEF ScreenInv, ScreenTyped
<1>4. Listed'
  BY <1>1 DEF ScreenInv, Listed, Screen!Names
<1>5. Followed'
  <2> SUFFICES ASSUME ~astray PROVE
                   /\ \A i \in 1..Len(rest) : rest[i].op # "load" => OfScreen(rest[i], date, filter)
                   /\ \A i \in 1..Len(rest) :
                        rest[i].op = "load" /\ (\A j \in (i + 1)..Len(rest) : rest[j].op # "load")
                          => OfScreen(rest[i], date, filter)
                   /\ (\A i \in 1..Len(rest) : rest[i].op # "load") =>
                        loadError' \/ calendar' = [date |-> date, filter |-> filter, saved |-> saved]
    BY <1>1 DEF Followed, OfScreen
  <2>1. \A i \in 1..Len(rest) : rest[i].op # "load" => OfScreen(rest[i], date, filter)
    BY <1>2 DEF ScreenInv, Followed
  <2>2. ASSUME NEW i \in 1..Len(rest), rest[i].op = "load",
               \A j \in (i + 1)..Len(rest) : rest[j].op # "load"
        PROVE  OfScreen(rest[i], date, filter)
    <3>1. i + 1 \in 1..Len(queue) /\ queue[i + 1] = rest[i]
      BY <1>2
    <3>2. \A j \in ((i + 1) + 1)..Len(queue) : queue[j].op # "load"
      <4> TAKE j \in ((i + 1) + 1)..Len(queue)
      <4>1. j \in 2..Len(queue) /\ j - 1 \in (i + 1)..Len(rest)
        BY <1>2
      <4> QED BY <1>2, <2>2, <4>1
    <3> QED BY Zenon, <2>2, <3>1, <3>2 DEF ScreenInv, Followed
  <2>3. ASSUME \A i \in 1..Len(rest) : rest[i].op # "load"
        PROVE  OfScreen(first, date, filter)
    <3>1. \A j \in (1 + 1)..Len(queue) : queue[j].op # "load"
      BY <1>2, <2>3
    <3> QED BY <1>1, <1>2, <3>1 DEF ScreenInv, Followed
  <2> QED BY <1>1, <2>1, <2>2, <2>3 DEF OfScreen
<1> QED BY <1>3, <1>4, <1>5 DEF ScreenInv

\* A change that is taken asks for its day again; one that is refused leaves the calendar true.
LEMMA AnsweredKeeps == ASSUME ScreenInv, Screen!Answered PROVE ScreenInv'
<1> DEFINE first == Head(queue)
           rest == Tail(queue)
           last == Screen!Load(first.date, first.filter)
<1>1. /\ queue # <<>> /\ first.op # "load"
      /\ \/ saved' = saved + 1 /\ queue' = Append(rest, last)
         \/ saved' = saved /\ queue' = rest
      /\ UNCHANGED <<date, filter, calendar, loadError, options, astray>>
  BY DEF Screen!Answered
<1>2. panel' \in {"closed", "open", "saving"} /\ dialog' \in {"closed", "open", "saving"}
  BY DEF ScreenInv, ScreenTyped, Screen!Answered
<1>3. /\ first = queue[1] /\ first \in Actions /\ 1 \in 1..Len(queue)
      /\ rest \in Seq(Actions) /\ Len(rest) = Len(queue) - 1 /\ Len(queue) \in Nat
      /\ \A i \in 1..Len(rest) : rest[i] = queue[i + 1] /\ i + 1 \in 1..Len(queue)
      /\ \A i \in 2..Len(queue) : i - 1 \in 1..Len(rest) /\ queue[i] = rest[i - 1]
  BY <1>1, RestOfQueue DEF ScreenInv, ScreenTyped
<1>4. last \in Actions /\ last.op = "load" /\ last.date = first.date /\ last.filter = first.filter
  BY <1>3 DEF Actions, Ops, Screen!Load
<1> HIDE DEF first, rest, last
<1>5. ScreenTyped'
  <2>1. saved' \in Nat /\ 0..saved \subseteq 0..saved'
    BY <1>1 DEF ScreenInv, ScreenTyped
  <2>2. queue' \in Seq(Actions)
    <3>1. rest \in Seq(Actions) /\ Append(rest, last) \in Seq(Actions)
      BY <1>3, <1>4
    <3> QED BY <1>1, <3>1, Zenon
  <2> QED BY <1>1, <1>2, <2>1, <2>2 DEF ScreenInv, ScreenTyped
<1>6. Followed'
  <2>1. ASSUME ~astray
        PROVE  \A i \in 1..Len(rest) : rest[i].op # "load" => OfScreen(rest[i], date, filter)
    BY Zenon, <1>3, <2>1 DEF ScreenInv, Followed
  <2>2. CASE saved' = saved + 1 /\ queue' = Append(rest, last)
    <3>1. /\ Len(queue') = Len(rest) + 1 /\ Len(rest) \in Nat
          /\ \A i \in 1..Len(rest) : queue'[i] = rest[i]
          /\ queue'[Len(rest) + 1] = last
      BY <1>3, <1>4, <2>2
    <3>2. \A i \in 1..Len(queue') : i \in 1..Len(rest) \/ i = Len(rest) + 1
      BY <3>1
    <3>3. ASSUME ~astray PROVE OfScreen(last, date, filter)
      BY <1>1, <1>3, <1>4, <3>3 DEF ScreenInv, Followed, OfScreen
    <3> SUFFICES ASSUME ~astray PROVE
                   /\ \A i \in 1..Len(queue') : queue'[i].op # "load" => OfScreen(queue'[i], date, filter)
                   /\ \A i \in 1..Len(queue') :
                        queue'[i].op = "load" /\ (\A j \in (i + 1)..Len(queue') : queue'[j].op # "load")
                          => OfScreen(queue'[i], date, filter)
                   /\ ~(\A i \in 1..Len(queue') : queue'[i].op # "load")
      BY <1>1 DEF Followed, OfScreen
    <3>4. \A i \in 1..Len(queue') : queue'[i].op # "load" => OfScreen(queue'[i], date, filter)
      BY <1>4, <2>1, <3>1, <3>2
    <3>5. Len(rest) + 1 \in 1..Len(queue') /\ queue'[Len(rest) + 1].op = "load"
      BY <1>4, <3>1
    <3>6. ASSUME NEW i \in 1..Len(queue'), \A j \in (i + 1)..Len(queue') : queue'[j].op # "load"
          PROVE  i = Len(rest) + 1
      BY <3>1, <3>2, <3>5, <3>6
    <3> QED BY <3>1, <3>3, <3>4, <3>5, <3>6
  <2>3. CASE saved' = saved /\ queue' = rest
    <3> SUFFICES ASSUME ~astray PROVE
                   /\ \A i \in 1..Len(rest) :
                        rest[i].op = "load" /\ (\A j \in (i + 1)..Len(rest) : rest[j].op # "load")
                          => OfScreen(rest[i], date, filter)
                   /\ (\A i \in 1..Len(rest) : rest[i].op # "load") =>
                        loadError \/ calendar = [date |-> date, filter |-> filter, saved |-> saved]
      BY <1>1, <2>1, <2>3 DEF Followed, OfScreen
    <3>1. ASSUME NEW i \in 1..Len(rest), rest[i].op = "load",
                 \A j \in (i + 1)..Len(rest) : rest[j].op # "load"
          PROVE  OfScreen(rest[i], date, filter)
      <4>1. i + 1 \in 1..Len(queue) /\ queue[i + 1] = rest[i]
        BY <1>3
      <4>2. \A j \in ((i + 1) + 1)..Len(queue) : queue[j].op # "load"
        <5> TAKE j \in ((i + 1) + 1)..Len(queue)
        <5>1. j \in 2..Len(queue) /\ j - 1 \in (i + 1)..Len(rest)
          BY <1>3
        <5> QED BY <1>3, <3>1, <5>1
      <4> QED BY Zenon, <3>1, <4>1, <4>2 DEF ScreenInv, Followed
    <3>2. (\A i \in 1..Len(rest) : rest[i].op # "load") => \A i \in 1..Len(queue) : queue[i].op # "load"
      <4>1. \A i \in 1..Len(queue) : i = 1 \/ i \in 2..Len(queue)
        BY <1>3
      <4> QED BY Zenon, <1>1, <1>3, <4>1
    <3> QED BY <3>1, <3>2 DEF ScreenInv, Followed
  <2> QED BY <1>1, <2>2, <2>3
<1> QED BY <1>1, <1>5, <1>6 DEF ScreenInv, Listed

LEMMA ScreenStarts == Screen!Init => ScreenInv
<1> SUFFICES ASSUME Screen!Init PROVE ScreenInv
  OBVIOUS
<1>1. ScreenTyped
  <2>1. saved = 0 /\ 0 \in 0..saved /\ queue = <<>>
    BY DEF Screen!Init
  <2>2. calendar \in [date : Days, filter : Team \cup {Everyone}, saved : 0..saved]
    BY <2>1 DEF Screen!Init
  <2>3. queue \in Seq(Actions)
    BY <2>1
  <2>4. date \in Days /\ filter \in Team \cup {Everyone} /\ saved \in Nat
    BY <2>1 DEF Screen!Init
  <2>5. loadError \in BOOLEAN /\ astray \in BOOLEAN
    BY Zenon DEF Screen!Init
  <2>6. panel \in {"closed", "open", "saving"} /\ dialog \in {"closed", "open", "saving"}
    BY DEF Screen!Init
  <2> QED BY <2>2, <2>3, <2>4, <2>5, <2>6, Zenon DEF ScreenTyped
<1>2. Followed /\ Listed
  BY DEF Screen!Init, Followed, Listed
<1> QED BY <1>1, <1>2 DEF ScreenInv

LEMMA ScreenStep == ScreenInv /\ [Screen!Next]_agendaVars => ScreenInv'
<1> SUFFICES ASSUME ScreenInv, [Screen!Next]_agendaVars PROVE ScreenInv'
  OBVIOUS
<1>1. date \in Days /\ filter \in Team \cup {Everyone} /\ (filter # Everyone => options = Team)
  BY DEF ScreenInv, ScreenTyped, Listed
<1>2. CASE UNCHANGED agendaVars
  BY <1>2, PanelsKeep DEF agendaVars, ScreenInv, ScreenTyped
<1>3. ASSUME NEW d \in Days, Screen!ShiftDay(d) PROVE ScreenInv'
  BY <1>1, <1>3, ReloadKeeps DEF Screen!ShiftDay
<1>4. ASSUME NEW f \in Team \cup {Everyone}, Screen!Choose(f) PROVE ScreenInv'
  <2>1. f # Everyone => options = Team
    BY <1>4 DEF Screen!Choose, ScreenInv, Listed
  <2> QED BY <1>1, <1>4, <2>1, ReloadKeeps DEF Screen!Choose
<1>5. CASE Screen!TryAgain
  BY <1>1, <1>5, ReloadKeeps DEF Screen!TryAgain
<1>6. CASE Screen!Open \/ Screen!Close
  BY <1>6, PanelsKeep DEF Screen!Open, Screen!Close, ScreenInv, ScreenTyped
<1>7. CASE Screen!Save \/ Screen!Loaded \/ Screen!Answered
  BY <1>7, SaveKeeps, LoadedKeeps, AnsweredKeeps
<1> QED BY <1>2, <1>3, <1>4, <1>5, <1>6, <1>7, Zenon DEF Screen!Next

\* Once nothing is on its way, the agenda shows the day and the professional selected with every
\* change the user made, or says that it could not load it, unless the user strayed from a change
\* being saved; and the selector keeps listing everyone (AgendaView.tsx).
THEOREM AgendaShowsItsDay == MCSpec => []ShowsItsDay
<1> DEFINE Inv == Of("screen", ScreenInv)
<1>1. MCInit => Inv
  BY ScreenStarts DEF MCInit, Of
<1>2. Inv /\ [MCNext]_allVars => Inv'
  BY PartsMove, ScreenStep DEF Of
<1>3. Inv => ShowsItsDay
  <2> SUFFICES ASSUME ScreenInv PROVE Screen!TypeOK /\ Screen!ShowsItsDay
    BY DEF ShowsItsDay, Of
  <2>1. Screen!TypeOK
    <3>1. queue \in Seq(Actions)
      BY DEF ScreenInv, ScreenTyped
    <3>2. \A i \in DOMAIN queue : queue[i] \in Actions
      BY <3>1
    <3>3. \A i \in DOMAIN queue : queue[i].op \in Ops
      BY <3>2 DEF Actions
    <3> QED BY <3>3 DEF ScreenInv, ScreenTyped, Listed, Screen!TypeOK, Ops
  <2>2. Screen!ShowsItsDay
    BY DEF ScreenInv, ScreenTyped, Followed, Listed, Screen!ShowsItsDay
  <2> QED BY <2>1, <2>2
<1> HIDE DEF Inv
<1> QED BY <1>1, <1>2, <1>3, PTL DEF MCSpec

-----------------------------------------------------------------------------
(* The times that are offered *)

\* A minute that begins before the instant x ends no later than x rounded up.
LEMMA RoundedUp ==
    ASSUME NEW m \in Nat \ {0}, NEW x \in Nat, NEW s \in Nat, m * s < x
    PROVE  s < (x + m - 1) \div m
<1> DEFINE q == (x + m - 1) \div m
<1>1. q \in Int /\ x + m - 1 < m * (q + 1)
  OBVIOUS
<1>2. m * s \in Int /\ m * (s + 1) = m * s + m
  OBVIOUS
<1>3. m * (s + 1) < m * (q + 1)
  BY <1>1, <1>2
<1>4. s + 1 < q + 1
  <2> SUFFICES ASSUME q + 1 <= s + 1 PROVE m * (q + 1) <= m * (s + 1)
    BY <1>1, <1>3
  <2> QED BY <1>1
<1> QED BY <1>1, <1>4

\* An instant before a minute is, rounded down, before it.
LEMMA RoundedDown ==
    ASSUME NEW m \in Nat \ {0}, NEW x \in Nat, NEW e \in Nat, x < m * e
    PROVE  x \div m < e
<1> DEFINE q == x \div m
<1>1. q \in Int /\ m * q <= x
  OBVIOUS
<1>2. m * q < m * e
  BY <1>1
<1>3. ~(e <= q)
  <2> SUFFICES ASSUME e <= q PROVE m * e <= m * q
    BY <1>1, <1>2
  <2> QED BY <1>1
<1> QED BY <1>1, <1>3

OfferTyped ==
    /\ now \in 0..LastInstant /\ ahead \in 0..(MaxLead + 1) /\ hours \in Weeks /\ busy \subseteq Stretches
    /\ gives \in BOOLEAN /\ shut \in BOOLEAN
    /\ visit \in [booked : BOOLEAN, at : [from : Nat, to : Nat], first : Durations,
                  second : Durations \cup {0}]
    /\ offer \in [starts : SUBSET (0..DayMinutes), service : Durations, changed : BOOLEAN]
    /\ outcome \in [done : {"none", "kept", "refused"}, excused : BOOLEAN, inside : BOOLEAN]

\* A start at which a service of d minutes is given: in the hours, and clear of the day's stretches.
Given(s, d) ==
    /\ gives
    /\ \E i \in hours : i.from <= s /\ s + d <= i.to
    /\ \A b \in busy : ~Times!Overlap(Times!Range(s, d), b)

\* While nothing changed since the times were asked for, the service can be given at each of
\* them, and for a visit that is moved it is the visit's own.
StillGiven ==
    offer.changed \/
        /\ visit.booked => offer.service = visit.first
        /\ \A s \in offer.starts : Given(s, offer.service)

OfferInv == OfferTyped /\ StillGiven /\ Times!OfferIsKept

\* The calendar of minutes that getAvailableSlots looks at leaves no instant out: a service clear of
\* the busy minutes is clear of the appointments and the blocks.
LEMMA MinutesAreEnough ==
    ASSUME NEW s \in Nat, NEW d \in Nat, NEW b \in Stretches,
           ~Times!Overlap(Times!Interval(s, s + d), Times!BusyMinutes(b))
    PROVE  ~Times!Overlap(Times!Range(s, d), b)
<1>1. Minute \in Nat \ {0} /\ b.from \in Nat /\ b.to \in Nat
  BY TimesAssumed DEF Times!OfferAssumption
<1>2. SUFFICES ASSUME Minute * s < b.to, b.from < Minute * (s + d) PROVE FALSE
  BY DEF Times!Overlap, Times!Range, Times!Interval
<1>3. s < (b.to + Minute - 1) \div Minute
  BY Zenon, <1>1, <1>2, RoundedUp
<1>4. s + d \in Nat
  OBVIOUS
<1>5. b.from \div Minute < s + d
  BY Zenon, <1>1, <1>2, <1>4, RoundedDown
<1> QED BY <1>3, <1>5 DEF Times!Overlap, Times!BusyMinutes, Times!Interval

\* What is offered can be given.
LEMMA SlotsAreGiven ==
    ASSUME OfferTyped, NEW d \in Durations, NEW s \in Times!Slots(d)
    PROVE  s \in 0..DayMinutes /\ Given(s, d)
<1>1. /\ hours \in SUBSET [from : 0..DayMinutes, to : 0..DayMinutes] /\ DayMinutes \in Nat
      /\ d \in Nat \ {0} /\ busy \subseteq Stretches
  BY TimesAssumed DEF OfferTyped, Times!OfferAssumption
<1>2. /\ s \in Times!Candidates(d) /\ gives
      /\ \A b \in busy \cup Times!Own :
            ~Times!Overlap(Times!Interval(s, s + d), Times!BusyMinutes(b))
  BY DEF Times!Slots, OfferTyped
<1>3. PICK i \in hours : s \in i.from..i.to /\ s + d <= i.to
  BY <1>2 DEF Times!Candidates
<1>4. i.from \in 0..DayMinutes /\ i.to \in 0..DayMinutes
  BY <1>1
<1>5. s \in Nat /\ s \in 0..DayMinutes /\ i.from <= s
  BY <1>1, <1>3, <1>4
<1>6. \A b \in busy : ~Times!Overlap(Times!Range(s, d), b)
  BY <1>1, <1>2, <1>5, MinutesAreEnough
<1> QED BY <1>2, <1>3, <1>5, <1>6 DEF Given

LEMMA AskKeeps == ASSUME OfferInv, Times!Ask PROVE OfferInv'
<1>1. PICK d \in IF visit.booked THEN {visit.first} ELSE Durations :
          offer' = [starts |-> Times!Slots(d), service |-> d, changed |-> FALSE]
  BY Zenon DEF Times!Ask
<1>2. d \in Durations /\ (visit.booked => d = visit.first)
  BY DEF OfferInv, OfferTyped
<1>3. UNCHANGED <<now, ahead, hours, gives, shut, busy, visit, outcome>>
  BY DEF Times!Ask
<1>4. \A s \in Times!Slots(d) : s \in 0..DayMinutes /\ Given(s, d)
  BY <1>2, SlotsAreGiven DEF OfferInv
<1>5. offer' \in [starts : SUBSET (0..DayMinutes), service : Durations, changed : BOOLEAN]
  <2>1. Times!Slots(d) \in SUBSET (0..DayMinutes)
    BY <1>4
  <2> QED BY <1>1, <1>2, <2>1, Zenon
<1>6. offer'.starts = Times!Slots(d) /\ offer'.service = d
  BY <1>1, Zenon
<1>7. StillGiven'
  BY <1>2, <1>3, <1>4, <1>6 DEF StillGiven, Given
<1> QED BY <1>3, <1>5, <1>7 DEF OfferInv, OfferTyped, Times!OfferIsKept

\* A time still given is taken by the backend, unless it came meanwhile, the visit has two services
\* or a new one is asked of a salon that is shut.
LEMMA TakeKeeps == ASSUME OfferInv, NEW start \in 0..DayMinutes, Times!Take(start) PROVE OfferInv'
<1> DEFINE minutes == IF visit.booked THEN visit.first + visit.second ELSE offer.service
           ok == Times!Accepted(start, minutes)
<1>1. /\ start \in offer.starts
      /\ visit' = IF ok
                    THEN [visit EXCEPT !.booked = TRUE, !.at = Times!Range(start, minutes),
                                       !.first = IF visit.booked THEN visit.first ELSE offer.service,
                                       !.second = IF visit.booked THEN visit.second ELSE 0]
                    ELSE visit
      /\ outcome' = [done |-> IF ok THEN "kept" ELSE "refused",
                     excused |-> offer.changed \/ Times!Instant(start) <= now
                                 \/ (IF visit.booked THEN visit.second > 0 ELSE shut),
                     inside |-> \E i \in hours : i.from <= start /\ start + minutes <= i.to]
      /\ offer' = [offer EXCEPT !.changed = offer.changed \/ ok]
      /\ UNCHANGED <<now, ahead, hours, gives, shut, busy>>
  BY Zenon DEF Times!Take
<1>2. /\ visit \in [booked : BOOLEAN, at : [from : Nat, to : Nat], first : Durations,
                    second : Durations \cup {0}]
      /\ offer \in [starts : SUBSET (0..DayMinutes), service : Durations, changed : BOOLEAN]
      /\ Durations \subseteq Nat /\ Minute \in Nat /\ DayMinutes \in Nat
  BY TimesAssumed DEF OfferInv, OfferTyped, Times!OfferAssumption
<1>3. minutes \in Nat /\ start \in Nat
  <2>1. visit.first \in Nat /\ visit.second \in Nat /\ offer.service \in Nat
    <3>1. visit.first \in Durations /\ visit.second \in Durations \cup {0} /\ offer.service \in Durations
      BY <1>2, Zenon
    <3>2. Durations \subseteq Nat /\ 0 \in Nat
      BY <1>2
    <3> QED BY <3>1, <3>2, Zenon
  <2>2. visit.first + visit.second \in Nat
    BY <2>1
  <2> QED BY <1>2, <2>1, <2>2
<1>4. Times!Range(start, minutes) \in [from : Nat, to : Nat]
  BY <1>2, <1>3 DEF Times!Range, Times!Interval
<1>5. /\ offer'.starts = offer.starts /\ offer'.service = offer.service
      /\ offer'.changed = (offer.changed \/ ok)
      /\ offer' \in [starts : SUBSET (0..DayMinutes), service : Durations, changed : BOOLEAN]
  <2>1. (offer.changed \/ ok) \in BOOLEAN
    BY <1>2
  <2> HIDE DEF ok
  <2> QED BY Zenon, <1>1, <1>2, <2>1
<1>6. visit' \in [booked : BOOLEAN, at : [from : Nat, to : Nat], first : Durations,
                  second : Durations \cup {0}]
  <2>1. (IF visit.booked THEN visit.first ELSE offer.service) \in Durations
    BY <1>2
  <2>2. (IF visit.booked THEN visit.second ELSE 0) \in Durations \cup {0}
    BY <1>2
  <2> DEFINE f == IF visit.booked THEN visit.first ELSE offer.service
             t == IF visit.booked THEN visit.second ELSE 0
             at == Times!Range(start, minutes)
  <2>3. visit' = IF ok THEN [visit EXCEPT !.booked = TRUE, !.at = at, !.first = f, !.second = t]
                 ELSE visit
    BY <1>1
  <2>4. at \in [from : Nat, to : Nat] /\ f \in Durations /\ t \in Durations \cup {0}
    BY <1>4, <2>1, <2>2
  <2> HIDE DEF ok, at, f, t
  <2> QED BY Zenon, <1>2, <2>3, <2>4
<1>7. /\ outcome'.done = (IF ok THEN "kept" ELSE "refused")
      /\ outcome'.excused = (offer.changed \/ Times!Instant(start) <= now
                                 \/ (IF visit.booked THEN visit.second > 0 ELSE shut))
      /\ outcome'.inside = (\E i \in hours : i.from <= start /\ start + minutes <= i.to)
      /\ outcome' \in [done : {"none", "kept", "refused"}, excused : BOOLEAN, inside : BOOLEAN]
  <2> DEFINE done == IF ok THEN "kept" ELSE "refused"
             excused == offer.changed \/ Times!Instant(start) <= now
                            \/ (IF visit.booked THEN visit.second > 0 ELSE shut)
             inside == \E i \in hours : i.from <= start /\ start + minutes <= i.to
  <2>1. done \in {"none", "kept", "refused"} /\ inside \in BOOLEAN
    OBVIOUS
  <2>2. excused \in BOOLEAN
    BY <1>2 DEF OfferInv, OfferTyped
  <2>3. outcome' = [done |-> done, excused |-> excused, inside |-> inside]
    BY <1>1, Zenon
  <2> HIDE DEF done, excused, inside
  <2>4. /\ outcome'.done = done /\ outcome'.excused = excused /\ outcome'.inside = inside
        /\ outcome' \in [done : {"none", "kept", "refused"}, excused : BOOLEAN, inside : BOOLEAN]
    BY <2>1, <2>2, <2>3, Zenon
  <2> QED BY <2>4 DEF done, excused, inside
<1>8. StillGiven'
  <2>1. CASE ok
    BY <1>5, <2>1 DEF StillGiven
  <2>2. CASE ~ok
    <3>1. visit' = visit
      BY <1>1, <2>2
    <3>2. offer'.changed = offer.changed
      BY <1>2, <1>5, <2>2
    <3> QED BY <1>1, <1>5, <3>1, <3>2 DEF OfferInv, StillGiven, Given
  <2> QED BY <2>1, <2>2
<1>9. Times!OfferIsKept'
  <2>1. SUFFICES ASSUME ~offer.changed, ~(Times!Instant(start) <= now),
                        ~(IF visit.booked THEN visit.second > 0 ELSE shut)
                 PROVE  ok /\ \E i \in hours : i.from <= start /\ start + minutes <= i.to
    BY <1>7 DEF Times!OfferIsKept
  <2>2. minutes = offer.service
    <3>1. visit.second \in Nat /\ visit.first \in Nat
      <4>1. visit.first \in Durations /\ visit.second \in Durations \cup {0}
        BY <1>2, Zenon
      <4>2. Durations \subseteq Nat /\ 0 \in Nat
        BY <1>2
      <4> QED BY <4>1, <4>2, Zenon
    <3>2. CASE visit.booked
      <4>1. visit.second = 0
        BY <2>1, <3>1, <3>2
      <4>2. offer.service = visit.first
        BY <2>1, <3>2, Zenon DEF OfferInv, StillGiven
      <4> QED BY <3>1, <3>2, <4>1, <4>2
    <3>3. CASE ~visit.booked
      BY <3>3
    <3> QED BY <3>2, <3>3
  <2>3. Given(start, minutes)
    BY <1>1, <2>1, <2>2 DEF OfferInv, StillGiven
  <2>4. Times!Instant(start) > now
    BY <1>2, <1>3, <2>1 DEF Times!Instant, OfferInv, OfferTyped
  <2>5. Times!TakesBookings
    BY <2>1 DEF Times!TakesBookings
  <2> HIDE DEF minutes
  <2> QED BY <2>3, <2>4, <2>5 DEF Given, Times!Accepted
<1> HIDE DEF ok, minutes
<1> QED BY <1>1, <1>5, <1>6, <1>7, <1>8, <1>9 DEF OfferInv, OfferTyped

\* Whatever the salon does, the times on the screen are of a day that is not that day any more.
LEMMA SalonKeeps ==
    ASSUME OfferInv, offer' = [offer EXCEPT !.changed = TRUE], UNCHANGED <<now, ahead, outcome>>,
           hours' \in Weeks, busy' \subseteq Stretches, gives' \in BOOLEAN, UNCHANGED shut,
           visit' \in [booked : BOOLEAN, at : [from : Nat, to : Nat], first : Durations,
                       second : Durations \cup {0}]
    PROVE  OfferInv'
<1>1. /\ offer' \in [starts : SUBSET (0..DayMinutes), service : Durations, changed : BOOLEAN]
      /\ offer'.changed
  BY Zenon DEF OfferInv, OfferTyped
<1> QED BY Zenon, <1>1 DEF OfferInv, OfferTyped, StillGiven, Times!OfferIsKept

LEMMA StaffKeeps == ASSUME OfferInv, Times!Staff PROVE OfferInv'
<1>1. PICK at \in Stretches, extra \in Durations \cup {0} :
          visit' = [visit EXCEPT !.booked = TRUE, !.at = at, !.second = extra]
  BY Zenon DEF Times!Staff
<1>2. /\ offer' = [offer EXCEPT !.changed = TRUE]
      /\ UNCHANGED <<now, ahead, hours, gives, shut, busy, outcome>>
  BY DEF Times!Staff
<1>3. at \in [from : Nat, to : Nat]
  BY TimesAssumed DEF Times!OfferAssumption
<1>4. visit' \in [booked : BOOLEAN, at : [from : Nat, to : Nat], first : Durations,
                  second : Durations \cup {0}]
  BY Zenon, <1>1, <1>3 DEF OfferInv, OfferTyped
<1> QED BY <1>2, <1>4, SalonKeeps DEF OfferInv, OfferTyped

LEMMA OfferStarts == Times!Init => OfferInv
<1> SUFFICES ASSUME Times!Init PROVE OfferInv
  OBVIOUS
<1>1. PICK d \in Durations :
          /\ visit = [booked |-> FALSE, at |-> Times!Interval(0, 0), first |-> d, second |-> 0]
          /\ offer = [starts |-> {}, service |-> d, changed |-> FALSE]
  BY Zenon DEF Times!Init
<1>2. Times!Interval(0, 0) \in [from : Nat, to : Nat]
  BY DEF Times!Interval
<1>3. visit \in [booked : BOOLEAN, at : [from : Nat, to : Nat], first : Durations,
                 second : Durations \cup {0}]
  BY <1>1, <1>2
<1>4. /\ offer \in [starts : SUBSET (0..DayMinutes), service : Durations, changed : BOOLEAN]
      /\ StillGiven
  BY <1>1 DEF StillGiven
<1>5. outcome \in [done : {"none", "kept", "refused"}, excused : BOOLEAN, inside : BOOLEAN]
  BY DEF Times!Init
<1>6. now \in 0..LastInstant
  BY TimesAssumed DEF Times!Init, Times!OfferAssumption
<1> QED BY <1>3, <1>4, <1>5, <1>6 DEF Times!Init, OfferInv, OfferTyped, Times!OfferIsKept

LEMMA OfferStep == OfferInv /\ [Times!Next]_timeVars => OfferInv'
<1> SUFFICES ASSUME OfferInv, [Times!Next]_timeVars PROVE OfferInv'
  OBVIOUS
<1>1. CASE UNCHANGED timeVars
  BY <1>1 DEF timeVars, OfferInv, OfferTyped, StillGiven, Given, Times!OfferIsKept
<1>2. CASE Times!Ask
  BY <1>2, AskKeeps
<1>3. CASE \E s \in 0..DayMinutes : Times!Take(s)
  BY <1>3, TakeKeeps
<1>4. CASE Times!Staff
  BY <1>4, StaffKeeps
<1>5. CASE Times!Fill
  <2>1. busy' \subseteq Stretches
    BY <1>5 DEF Times!Fill, OfferInv, OfferTyped
  <2>2. /\ offer' = [offer EXCEPT !.changed = TRUE]
        /\ UNCHANGED <<now, ahead, hours, gives, shut, visit, outcome>>
    BY <1>5 DEF Times!Fill
  <2> QED BY <2>1, <2>2, SalonKeeps DEF OfferInv, OfferTyped
<1>6. CASE Times!SetHours
  BY <1>6, SalonKeeps DEF Times!SetHours, OfferInv, OfferTyped
<1>7. CASE Times!SetServices
  BY <1>7, SalonKeeps DEF Times!SetServices, OfferInv, OfferTyped
<1>8. CASE Times!LapseOrPay
  <2>1. shut' \in BOOLEAN /\ UNCHANGED <<now, ahead, hours, gives, busy, visit, offer, outcome>>
    BY <1>8 DEF Times!LapseOrPay, OfferInv, OfferTyped
  <2> QED BY <2>1 DEF OfferInv, OfferTyped, StillGiven, Given, Times!OfferIsKept
<1>9. CASE Times!Tick
  <2>1. now' \in 0..LastInstant
    BY <1>9, TimesAssumed DEF Times!Tick, Times!OfferAssumption, OfferInv, OfferTyped
  <2>2. UNCHANGED <<ahead, hours, gives, shut, busy, visit, offer, outcome>>
    BY <1>9 DEF Times!Tick
  <2> QED BY <2>1, <2>2 DEF OfferInv, OfferTyped, StillGiven, Given, Times!OfferIsKept
<1> QED BY <1>1, <1>2, <1>3, <1>4, <1>5, <1>6, <1>7, <1>8, <1>9, Zenon DEF Times!Next

\* A time on the screen is taken by the backend, and lies in the hours the professional works,
\* unless the day changed or the time came after it was offered, the visit being moved has more than
\* one service, or the booking is a new one and the salon is shut (getAvailableSlots against
\* assertTenantAcceptsBookings and assertNoConflict).  A salon that is shut refuses no move.
THEOREM OffersAreKept == MCSpec => []OfferIsKept
<1> DEFINE Inv == Of("times", OfferInv)
<1>1. MCInit => Inv
  BY OfferStarts DEF MCInit, Of
<1>2. Inv /\ [MCNext]_allVars => Inv'
  BY PartsMove, OfferStep DEF Of
<1>3. Inv => OfferIsKept
  <2> SUFFICES ASSUME OfferInv PROVE Times!TypeOK /\ Times!OfferIsKept
    BY DEF OfferIsKept, Of
  <2> QED BY DEF OfferInv, OfferTyped, Times!TypeOK
<1> HIDE DEF Inv
<1> QED BY <1>1, <1>2, <1>3, PTL DEF MCSpec

-----------------------------------------------------------------------------
(* The plan *)

Subscriptions ==
    [status : {"NONE", "ACTIVE", "PAST_DUE"}, courtesy : BOOLEAN,
     method : {"NONE", "CARD_RECURRING", "PIX_MONTHLY"}, tier : Plans \cup {"NONE"},
     until : Nat \cup {Forever}, ending : BOOLEAN]

\* A courtesy, a Pix month and a card, each with the recurrence it can have: one that is
\* authorized charges a card in order, one that is paused has failed to, one that is
\* cancelled lets the period end.
Gift(p) == p.status = "ACTIVE" /\ p.courtesy /\ p.method = "NONE" /\ ~p.ending
Pix(p) == p.status = "ACTIVE" /\ ~p.courtesy /\ p.method = "PIX_MONTHLY" /\ p.until \in Nat
Card(p) ==
    /\ ~p.courtesy /\ p.method = "CARD_RECURRING" /\ p.until \in Nat
    /\ \/ agreement = "authorized" /\ p.status = "ACTIVE" /\ ~p.ending
       \/ agreement = "paused" /\ p.status = "PAST_DUE"
       \/ agreement = "cancelled" /\ p.status \in {"ACTIVE", "PAST_DUE"} /\ p.ending

PlanSound ==
    \/ agreement = "none" /\ (plan = Plan!NoPlan \/ Gift(plan) \/ Pix(plan))
    \/ Card(plan)

PlanTyped ==
    /\ clock \in 0..Closing /\ trialUntil \in Nat
    /\ barred \in BOOLEAN /\ online \in BOOLEAN /\ charged \in BOOLEAN
    /\ plan \in Subscriptions /\ headcount \in 0..MaxTeam

PlanInv == PlanTyped /\ PlanSound

\* A row as a payment, a courtesy or nothing fills it.
LEMMA Filled ==
    ASSUME NEW m \in {"NONE", "CARD_RECURRING", "PIX_MONTHLY"}, NEW t \in Plans \cup {"NONE"},
           NEW until \in Nat \cup {Forever}
    PROVE  /\ Plan!Paid(m, t, until) \in Subscriptions
           /\ Plan!Paid(m, t, until).status = "ACTIVE" /\ ~Plan!Paid(m, t, until).courtesy
           /\ Plan!Paid(m, t, until).method = m /\ Plan!Paid(m, t, until).until = until
           /\ ~Plan!Paid(m, t, until).ending
BY DEF Plan!Paid, Subscriptions

LEMMA NoPlanIs ==
    /\ Plan!NoPlan \in Subscriptions /\ Plan!NoPlan.status = "NONE" /\ Plan!NoPlan.method = "NONE"
    /\ ~Plan!NoPlan.courtesy /\ ~Plan!NoPlan.ending /\ Plan!NoPlan.until = Forever
    /\ \A p \in Subscriptions : Gift(p) \/ Pix(p) \/ Card(p) => p # Plan!NoPlan /\ p.status # "NONE"
<1> DEFINE r == Plan!Paid("NONE", "NONE", Forever)
<1>1. /\ r \in Subscriptions /\ ~r.courtesy /\ r.method = "NONE" /\ r.until = Forever /\ ~r.ending
      /\ Plan!NoPlan = [r EXCEPT !.status = "NONE"]
  BY Filled DEF Plan!NoPlan
<1> HIDE DEF r
<1>2. /\ Plan!NoPlan \in Subscriptions /\ Plan!NoPlan.status = "NONE"
      /\ Plan!NoPlan.method = "NONE" /\ ~Plan!NoPlan.courtesy /\ ~Plan!NoPlan.ending
      /\ Plan!NoPlan.until = Forever
  BY <1>1 DEF Subscriptions
<1>3. \A p \in Subscriptions : Gift(p) \/ Pix(p) \/ Card(p) => p.status # "NONE"
  BY DEF Gift, Pix, Card
<1> QED BY <1>2, <1>3

LEMMA PlanStep == PlanInv /\ [Plan!Next]_planVars => PlanInv'
<1> SUFFICES ASSUME PlanInv, [Plan!Next]_planVars PROVE PlanInv'
  OBVIOUS
<1>0. Closing \in Nat /\ Month \in Nat /\ Forever \notin Nat /\ clock \in Nat
  BY PlanAssumed DEF Plan!AccessAssumption, PlanInv, PlanTyped
<1>t. /\ clock \in 0..Closing /\ trialUntil \in Nat
      /\ barred \in BOOLEAN /\ online \in BOOLEAN /\ charged \in BOOLEAN
      /\ plan \in Subscriptions /\ headcount \in 0..MaxTeam
  BY DEF PlanInv, PlanTyped
<1>1. CASE UNCHANGED planVars
  BY <1>1 DEF planVars, PlanInv, PlanTyped, PlanSound, Card
<1>2. ASSUME NEW t \in Plans, Plan!PayByCard(t) PROVE PlanInv'
  <2>1. /\ plan' = Plan!Paid("CARD_RECURRING", t, clock + Month) /\ clock + Month \in Nat
        /\ agreement' = "authorized" /\ charged' = FALSE
        /\ UNCHANGED <<clock, trialUntil, barred, online, headcount>>
    BY <1>0, <1>2 DEF Plan!PayByCard
  <2>2. plan' \in Subscriptions /\ Card(plan)'
    BY <2>1, Filled DEF Card
  <2> QED BY Zenon, <1>t, <2>1, <2>2 DEF PlanInv, PlanTyped, PlanSound
<1>3. ASSUME NEW t \in Plans, Plan!PayByPix(t) PROVE PlanInv'
  <2> DEFINE keeps == plan # Plan!NoPlan /\ plan.method = "PIX_MONTHLY" /\ ~Plan!Over(plan)
             from == IF keeps THEN plan.until ELSE clock
  <2>1. /\ plan' = Plan!Paid("PIX_MONTHLY", t, from + Month)
        /\ agreement' = "none" /\ charged' = FALSE
        /\ UNCHANGED <<clock, trialUntil, barred, online, headcount>>
    BY <1>3 DEF Plan!PayByPix
  <2>2. from \in Nat
    BY <1>0, NoPlanIs DEF PlanInv, PlanSound, Gift, Pix, Card
  <2> HIDE DEF from
  <2>3. from + Month \in Nat
    BY <1>0, <2>2
  <2>4. plan' \in Subscriptions /\ Pix(plan')
    BY <2>1, <2>3, Filled DEF Pix
  <2> QED BY Zenon, <1>t, <2>1, <2>4 DEF PlanInv, PlanTyped, PlanSound
<1>4. ASSUME NEW t \in Plans, Plan!ChangePlan(t) PROVE PlanInv'
  <2>1. /\ plan' = [plan EXCEPT !.tier = t] /\ plan # Plan!NoPlan
        /\ UNCHANGED <<clock, trialUntil, barred, online, agreement, charged, headcount>>
    BY <1>4 DEF Plan!ChangePlan, Plan!CanChange
  <2>2. /\ plan' \in Subscriptions /\ plan'.status = plan.status /\ plan'.courtesy = plan.courtesy
        /\ plan'.method = plan.method /\ plan'.until = plan.until /\ plan'.ending = plan.ending
    BY <1>t, <2>1 DEF Subscriptions
  <2> QED BY <1>t, <2>1, <2>2 DEF PlanInv, PlanTyped, PlanSound, Gift, Pix, Card
<1>5. ASSUME NEW t \in Plans, NEW until \in {Forever, clock + 1}, Plan!GrantCourtesy(t, until)
      PROVE  PlanInv'
  <2>1. /\ plan' = Plan!Free(t, until) /\ (plan = Plan!NoPlan \/ plan.courtesy)
        /\ UNCHANGED <<clock, trialUntil, barred, online, agreement, charged, headcount>>
    BY <1>5 DEF Plan!GrantCourtesy
  <2>2. plan' \in Subscriptions /\ Gift(plan')
    <3> DEFINE r == Plan!Paid("NONE", t, until)
    <3>1. r \in Subscriptions /\ r.status = "ACTIVE" /\ r.method = "NONE" /\ ~r.ending
      <4>1. until \in Nat \cup {Forever}
        BY <1>0
      <4> QED BY <4>1, Filled
    <3>2. plan' = [r EXCEPT !.courtesy = TRUE]
      BY <2>1 DEF Plan!Free
    <3> HIDE DEF r
    <3> QED BY Zenon, <3>1, <3>2 DEF Subscriptions, Gift
  <2>3. agreement = "none"
    BY <1>t, <2>1, NoPlanIs DEF PlanInv, PlanSound, Card
  <2> QED BY <1>t, <2>1, <2>2, <2>3 DEF PlanInv, PlanTyped, PlanSound
<1>6. CASE Plan!Cancel
  <2>1. /\ plan' = [plan EXCEPT !.ending = TRUE] /\ plan # Plan!NoPlan /\ ~plan.courtesy
        /\ agreement' = IF agreement = "none" THEN "none" ELSE "cancelled"
        /\ Plan!Status = "ACTIVE" /\ UNCHANGED <<clock, trialUntil, barred, online, charged, headcount>>
    BY <1>6 DEF Plan!Cancel, Plan!CancelOffered
  <2>2. /\ plan' \in Subscriptions /\ plan'.status = plan.status /\ plan'.courtesy = plan.courtesy
        /\ plan'.method = plan.method /\ plan'.until = plan.until /\ plan'.ending
    BY Zenon, <1>t, <2>1 DEF Subscriptions
  <2> QED BY <1>t, <2>1, <2>2 DEF PlanInv, PlanTyped, PlanSound, Gift, Pix, Card
<1>7. CASE Plan!Charge
  <2> DEFINE until == IF charged THEN plan.until + Month ELSE plan.until
  <2>1. /\ plan' = [plan EXCEPT !.status = "ACTIVE", !.ending = FALSE, !.until = until]
        /\ agreement = "authorized" /\ charged' = TRUE
        /\ UNCHANGED <<clock, trialUntil, barred, online, agreement, headcount>>
    BY <1>7, Zenon DEF Plan!Charge
  <2>2. Card(plan)
    BY <2>1 DEF PlanInv, PlanSound
  <2>3. until \in Nat
    BY <1>0, <2>2 DEF Card
  <2> HIDE DEF until
  <2>4. /\ plan' \in Subscriptions /\ plan'.status = "ACTIVE" /\ plan'.courtesy = plan.courtesy
        /\ plan'.method = plan.method /\ plan'.until = until /\ ~plan'.ending
    BY Zenon, <1>t, <2>1, <2>3 DEF Subscriptions
  <2> QED BY <1>t, <2>1, <2>2, <2>3, <2>4 DEF PlanInv, PlanTyped, PlanSound, Card
<1>8. CASE Plan!Pause
  <2>1. /\ plan' = [plan EXCEPT !.status = "PAST_DUE"] /\ agreement = "authorized"
        /\ agreement' = "paused" /\ UNCHANGED <<clock, trialUntil, barred, online, charged, headcount>>
    BY <1>8 DEF Plan!Pause
  <2>2. /\ plan' \in Subscriptions /\ plan'.status = "PAST_DUE" /\ plan'.courtesy = plan.courtesy
        /\ plan'.method = plan.method /\ plan'.until = plan.until
    BY <1>t, <2>1 DEF Subscriptions
  <2> QED BY <1>t, <2>1, <2>2 DEF PlanInv, PlanTyped, PlanSound, Card
<1>9. CASE Plan!Resume
  <2> DEFINE until == clock + Month
  <2>1. /\ plan' = [plan EXCEPT !.status = "ACTIVE", !.ending = FALSE, !.until = until]
        /\ agreement = "paused" /\ agreement' = "authorized" /\ charged' = TRUE
        /\ UNCHANGED <<clock, trialUntil, barred, online, headcount>>
    BY <1>9, Zenon DEF Plan!Resume
  <2>2. until \in Nat
    BY <1>0
  <2> HIDE DEF until
  <2>3. /\ plan' \in Subscriptions /\ plan'.status = "ACTIVE" /\ plan'.courtesy = plan.courtesy
        /\ plan'.method = plan.method /\ plan'.until = until /\ ~plan'.ending
    BY Zenon, <1>t, <2>1, <2>2 DEF Subscriptions
  <2> QED BY <1>t, <2>1, <2>2, <2>3 DEF PlanInv, PlanTyped, PlanSound, Card
<1>10. CASE Plan!EndAgreement
  <2>1. /\ plan' = [plan EXCEPT !.ending = TRUE] /\ agreement \in {"authorized", "paused"}
        /\ agreement' = "cancelled" /\ UNCHANGED <<clock, trialUntil, barred, online, charged, headcount>>
    BY <1>10 DEF Plan!EndAgreement
  <2>2. /\ plan' \in Subscriptions /\ plan'.status = plan.status /\ plan'.courtesy = plan.courtesy
        /\ plan'.method = plan.method /\ plan'.until = plan.until /\ plan'.ending
    BY Zenon, <1>t, <2>1 DEF Subscriptions
  <2> QED BY <1>t, <2>1, <2>2 DEF PlanInv, PlanTyped, PlanSound, Card
<1>11. CASE Plan!RemoveCourtesy
  <2>1. /\ plan' = Plan!NoPlan /\ plan.courtesy /\ plan # Plan!NoPlan
        /\ UNCHANGED <<clock, trialUntil, barred, online, agreement, charged, headcount>>
    BY <1>11 DEF Plan!RemoveCourtesy
  <2>2. agreement = "none"
    BY <2>1 DEF PlanInv, PlanSound, Card
  <2> QED BY <1>t, <2>1, <2>2, NoPlanIs DEF PlanInv, PlanTyped, PlanSound
<1>12. CASE Plan!Suspension
  BY <1>t, <1>12 DEF Plan!Suspension, PlanInv, PlanTyped, PlanSound, Card
<1>13. CASE Plan!DayPasses
  BY <1>0, <1>t, <1>13 DEF Plan!DayPasses, PlanInv, PlanTyped, PlanSound, Card
<1>14. CASE Plan!Hire \/ Plan!Dismiss
  <2>1. headcount' \in 0..MaxTeam
    BY <1>t, <1>14, PlanAssumed DEF Plan!Hire, Plan!Dismiss, Plan!AccessAssumption
  <2>2. UNCHANGED <<clock, trialUntil, barred, online, plan, agreement, charged>>
    BY <1>14 DEF Plan!Hire, Plan!Dismiss
  <2> QED BY <1>t, <2>1, <2>2 DEF PlanInv, PlanTyped, PlanSound, Card
<1> QED BY <1>1, <1>2, <1>3, <1>4, <1>5, <1>6, <1>7, <1>8, <1>9, <1>10, <1>11, <1>12, <1>13, <1>14,
           Zenon DEF Plan!Next

\* The status the server computes, for each kind of subscription a salon can have.
LEMMA StatusIs ==
    ASSUME PlanInv, ~barred
    PROVE  /\ Plan!Status \in Plan!Statuses \ {"SUSPENDED"}
           /\ plan = Plan!NoPlan =>
                  Plan!Status = IF trialUntil > clock THEN "TRIALING" ELSE "TRIAL_EXPIRED"
           /\ Gift(plan) => Plan!Status = IF Plan!Over(plan) THEN "EXPIRED" ELSE "ACTIVE"
           /\ Pix(plan) => Plan!Status = IF Plan!Over(plan) THEN "PERIOD_ENDED" ELSE "ACTIVE"
           /\ Card(plan) => \/ Plan!Status = plan.status
                            \/ Plan!Status = "CANCELED" /\ plan.ending /\ Plan!Over(plan)
                            \/ Plan!Status = "UNPAID" /\ plan.status = "PAST_DUE" /\ Plan!Over(plan)
<1>1. plan \in Subscriptions
  BY DEF PlanInv, PlanTyped
<1>2. CASE plan = Plan!NoPlan
  BY <1>2, NoPlanIs DEF Plan!Status, Plan!StatusOf, Plan!Statuses, Gift, Pix, Card
<1>3. CASE Gift(plan)
  <2>1. plan # Plan!NoPlan
    BY <1>1, <1>3, NoPlanIs
  <2> QED BY <1>3, <2>1 DEF Plan!Status, Plan!StatusOf, Plan!Statuses, Gift, Pix, Card
<1>4. CASE Pix(plan)
  <2>1. plan # Plan!NoPlan
    BY <1>1, <1>4, NoPlanIs
  <2> QED BY <1>4, <2>1 DEF Plan!Status, Plan!StatusOf, Plan!Statuses, Gift, Pix, Card
<1>5. CASE Card(plan)
  <2>1. plan # Plan!NoPlan
    BY <1>1, <1>5, NoPlanIs
  <2> QED BY <1>5, <2>1 DEF Plan!Status, Plan!StatusOf, Plan!Statuses, Gift, Pix, Card
<1> QED BY <1>2, <1>3, <1>4, <1>5 DEF PlanInv, PlanSound

LEMMA SuspendedIs == ASSUME barred PROVE Plan!Status = "SUSPENDED" /\ Plan!ListedStatus = "SUSPENDED"
BY DEF Plan!Status, Plan!ListedStatus, Plan!StatusOf

\* A plan the team does not exceed has room for it.
LEMMA RoomIs == ASSUME PlanInv, NEW t \in Plans, ~Plan!TeamExceeds(t) PROVE Plan!HasRoom(t)
<1>1. Ceiling[t] \in Nat /\ headcount \in Nat
  BY PlanAssumed DEF Plan!AccessAssumption, PlanInv, PlanTyped
<1> QED BY <1>1 DEF Plan!TeamExceeds, Plan!HasRoom

\* What the plan page offers, the server takes.
LEMMA PageAgrees == ASSUME PlanInv PROVE Plan!PlanPageAgrees
<1>1. /\ plan \in Subscriptions /\ clock \in Nat /\ Forever \notin Nat /\ Window \in Nat
      /\ barred \in BOOLEAN /\ online \in BOOLEAN /\ charged \in BOOLEAN
  BY PlanAssumed DEF PlanInv, PlanTyped, Plan!AccessAssumption
<1>2. ASSUME NEW t \in Plans, Plan!Choices(t) # {}, Plan!HasRoom(t)
      PROVE  Plan!CanStart(t) \/ Plan!PausedCard
  <2>1. Plan!PlanActionFor(t) \in {"SUBSCRIBE", "RENEW_PIX"}
    BY <1>2 DEF Plan!Choices
  <2>2. online /\ ~barred
    BY <2>1, SuspendedIs DEF Plan!PlanActionFor
  <2>3. CASE plan = Plan!NoPlan \/ Gift(plan)
    BY <1>2, <2>2, <2>3 DEF Plan!CanStart, Gift
  <2>4. CASE Pix(plan)
    <3>1. ~plan.courtesy /\ plan.method = "PIX_MONTHLY" /\ plan # Plan!NoPlan /\ plan.until \in Nat
      BY <1>1, <2>4, NoPlanIs DEF Pix
    <3>2. Plan!Status # "ACTIVE" \/ Plan!NearEnd(plan)
      BY <2>1, <3>1 DEF Plan!PlanActionFor
    <3>3. plan.until - clock <= Window
      <4>1. CASE Plan!Over(plan)
        BY <1>1, <3>1, <4>1 DEF Plan!Over
      <4>2. CASE ~Plan!Over(plan)
        <5>1. Plan!NearEnd(plan)
          BY <2>2, <2>4, <3>2, <4>2, StatusIs
        <5> QED BY <1>1, <3>1, <5>1 DEF Plan!NearEnd
      <4> QED BY <4>1, <4>2
    <3> QED BY <1>2, <2>2, <3>1, <3>3 DEF Plan!CanStart
  <2>5. CASE Card(plan)
    <3>1. ~plan.courtesy /\ plan.method = "CARD_RECURRING" /\ plan # Plan!NoPlan
      BY <1>1, <2>5, NoPlanIs DEF Card
    <3>2. Plan!Status \notin {"ACTIVE", "PAST_DUE"}
      BY <2>1, <2>2, <3>1 DEF Plan!PlanActionFor
    <3>3. Plan!Over(plan) /\ (plan.ending \/ plan.status = "PAST_DUE")
      BY <2>2, <2>5, <3>2, StatusIs DEF Card
    <3> QED BY <1>2, <2>2, <2>5, <3>1, <3>3 DEF Plan!CanStart, Plan!PausedCard, Card
  <2> QED BY <2>3, <2>4, <2>5 DEF PlanInv, PlanSound
<1>3. ASSUME NEW t \in Plans, Plan!PlanActionFor(t) = "CHANGE", Plan!HasRoom(t)
      PROVE  Plan!CanChange(t) \/ (agreement = "authorized" /\ ~charged)
  <2>1. /\ online /\ ~barred /\ Plan!Status = "ACTIVE" /\ ~plan.ending /\ plan.tier # t
        /\ plan # Plan!NoPlan /\ ~plan.courtesy
    BY <1>3, SuspendedIs DEF Plan!PlanActionFor
  <2>2. CASE Pix(plan)
    <3>1. ~Plan!Over(plan)
      BY <2>1, <2>2, StatusIs
    <3> QED BY <1>3, <2>1, <2>2, <3>1 DEF Plan!CanChange, Pix
  <2>3. CASE Card(plan)
    <3>1. plan.status = "ACTIVE"
      BY <2>1, <2>3, StatusIs
    <3> QED BY <1>1, <1>3, <2>1, <2>3, <3>1 DEF Plan!CanChange, Card
  <2> QED BY <2>1, <2>2, <2>3 DEF PlanInv, PlanSound, Gift
<1>4. Plan!CancelOffered => Plan!CanCancel \/ ~online
  BY <1>1 DEF Plan!CancelOffered, Plan!CanCancel
<1>5. (Plan!BannerFor(Plan!Status) = "danger") <=> ~Plan!HasAccess(Plan!Status)
  BY DEF Plan!BannerFor, Plan!HasAccess
<1> QED BY <1>2, <1>3, <1>4, <1>5, RoomIs DEF Plan!PlanPageAgrees

\* The heading the overview counts a salon under.
Heading ==
    IF barred THEN "SUSPENDED"
    ELSE IF plan = Plan!NoPlan THEN IF trialUntil > clock THEN "TRIALING" ELSE "TRIAL_EXPIRED"
    ELSE plan.status

LEMMA HeadingIs == ASSUME PlanInv PROVE Plan!Headings = {Heading} /\ Heading \in Plan!Statuses
<1>1. /\ plan \in Subscriptions /\ clock \in Nat /\ trialUntil \in Nat
      /\ plan = Plan!NoPlan => plan.status = "NONE"
      /\ plan # Plan!NoPlan => plan.status \in {"ACTIVE", "PAST_DUE"}
  BY NoPlanIs DEF PlanInv, PlanTyped, PlanSound, Gift, Pix, Card
<1>2. Heading \in Plan!Statuses
  BY <1>1 DEF Heading, Plan!Statuses
<1>3. ASSUME NEW s \in Plan!Statuses PROVE Plan!FoundUnder(s) <=> s = Heading
  <2>1. CASE s = "SUSPENDED"
    BY <1>1, <2>1 DEF Plan!FoundUnder, Heading
  <2>2. CASE s = "TRIALING"
    BY <1>1, <2>2 DEF Plan!FoundUnder, Heading
  <2>3. CASE s = "TRIAL_EXPIRED"
    BY <1>1, <2>3 DEF Plan!FoundUnder, Heading
  <2>4. CASE s \notin {"SUSPENDED", "TRIALING", "TRIAL_EXPIRED"}
    <3>1. Plan!FoundUnder(s) <=> ~barred /\ plan.status = s
      BY <2>4 DEF Plan!FoundUnder
    <3> QED BY <1>1, <1>3, <2>4, <3>1 DEF Heading, Plan!Statuses
  <2> QED BY <2>1, <2>2, <2>3, <2>4
<1> QED BY <1>2, <1>3 DEF Plan!Headings

LEMMA SamePlanCardinality == \A S : Plan!Cardinality(S) = Cardinality(S)
BY DEF Plan!Cardinality, Cardinality, Plan!IsFiniteSet, IsFiniteSet

\* What the platform's lists show is the status, but for the four they cannot tell.
LEMMA PlatformSees == ASSUME PlanInv PROVE Plan!PlatformSeesStatus
<1>1. plan \in Subscriptions /\ barred \in BOOLEAN
  BY DEF PlanInv, PlanTyped
<1>2. Plan!ListedStatus # Plan!Status => Plan!Status = "PERIOD_ENDED"
  <2>1. CASE barred
    BY <2>1, SuspendedIs
  <2>2. CASE ~barred /\ plan = Plan!NoPlan
    BY <2>2 DEF Plan!ListedStatus, Plan!Status
  <2>3. CASE ~barred /\ plan # Plan!NoPlan
    <3> DEFINE p == [plan EXCEPT !.method = "NONE"]
    <3>1. /\ p.status = plan.status /\ p.courtesy = plan.courtesy /\ p.until = plan.until
          /\ p.ending = plan.ending /\ p.method = "NONE"
      BY <1>1 DEF Subscriptions
    <3>2. p # Plan!NoPlan
      BY Zenon, <2>3, <3>1, NoPlanIs DEF PlanInv, PlanSound, Gift, Pix, Card
    <3>3. Plan!ListedStatus = Plan!StatusOf(p) /\ Plan!Status = Plan!StatusOf(plan)
      BY <2>3 DEF Plan!ListedStatus, Plan!Status
    <3> HIDE DEF p
    <3>4. Plan!Over(p) = Plan!Over(plan)
      BY <3>1 DEF Plan!Over
    <3> QED BY <2>3, <3>1, <3>2, <3>3, <3>4 DEF Plan!StatusOf
  <2> QED BY <1>1, <2>1, <2>2, <2>3
<1>3. Plan!Cardinality(Plan!Headings) = 1
  BY Zenon, HeadingIs, SamePlanCardinality, FS_Singleton
<1>4. Heading # Plan!Status => Plan!Status \in {"EXPIRED", "PERIOD_ENDED", "CANCELED", "UNPAID"}
  <2>1. CASE barred
    BY <2>1, SuspendedIs DEF Heading
  <2>2. CASE ~barred /\ plan = Plan!NoPlan
    BY <2>2, StatusIs DEF Heading
  <2>3. CASE ~barred /\ (Gift(plan) \/ Pix(plan) \/ Card(plan))
    <3>1. Heading = plan.status
      BY <1>1, <2>3, NoPlanIs DEF Heading
    <3> QED BY <2>3, <3>1, StatusIs DEF Gift, Pix
  <2> QED BY <1>1, <2>1, <2>2, <2>3 DEF PlanInv, PlanSound
<1>5. Plan!InRevenue /\ ~Plan!HasAccess(Plan!Status) => Heading # Plan!Status
  BY DEF Plan!InRevenue, Plan!Running, Plan!HasAccess, Heading
<1> QED BY <1>2, <1>3, <1>4, <1>5, HeadingIs DEF Plan!PlatformSeesStatus

LEMMA PlanStarts == Plan!Init => PlanInv
<1> SUFFICES ASSUME Plan!Init PROVE PlanInv
  OBVIOUS
<1>1. TrialDays \in Nat /\ Closing \in Nat
  BY PlanAssumed DEF Plan!AccessAssumption
<1>2. PlanTyped
  <2>1. clock \in 0..Closing /\ trialUntil \in Nat
    BY <1>1 DEF Plan!Init
  <2>2. barred \in BOOLEAN /\ online \in BOOLEAN /\ charged \in BOOLEAN
    BY Zenon DEF Plan!Init
  <2>3. plan \in Subscriptions /\ headcount \in 0..MaxTeam
    BY NoPlanIs, PlanAssumed DEF Plan!Init, Plan!AccessAssumption
  <2> QED BY <2>1, <2>2, <2>3 DEF PlanTyped
<1>3. PlanSound
  BY DEF Plan!Init, PlanSound
<1> QED BY <1>2, <1>3 DEF PlanInv

\* The server, the plan page and the platform read one subscription apart and say the same of it
\* (billing-status.util.ts, lib/billing.ts and platform-admin.service.ts), but for the buttons of the
\* page that the server may refuse, which PlanPageAgrees names: a plan without room for the team
\* (assertCanDowngrade), a payment over a paused card, and a change before the first charge.
THEOREM ReadingsAgree == MCSpec => []ScreensAgree
<1> DEFINE Inv == Of("plan", PlanInv)
<1>1. MCInit => Inv
  BY PlanStarts DEF MCInit, Of
<1>2. Inv /\ [MCNext]_allVars => Inv'
  BY PartsMove, PlanStep DEF Of
<1>3. Inv => ScreensAgree
  <2> SUFFICES ASSUME PlanInv PROVE Plan!TypeOK /\ Plan!ScreensAgree
    BY DEF ScreensAgree, Of
  <2>1. Plan!Status \in Plan!Statuses
    BY StatusIs, SuspendedIs DEF Plan!Statuses
  <2>2. Plan!TypeOK
    BY <2>1, NoPlanIs DEF PlanInv, PlanTyped, PlanSound, Card, Plan!TypeOK
  <2> QED BY <2>2, PageAgrees, PlatformSees DEF Plan!ScreensAgree
<1> HIDE DEF Inv
<1> QED BY <1>1, <1>2, <1>3, PTL DEF MCSpec
=============================================================================
