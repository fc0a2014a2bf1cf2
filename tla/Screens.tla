------------------------------ MODULE Screens ------------------------------
(***************************************************************************)
(* What the components of the frontend offer: one definition per component *)
(* and one field per button or form, with the action it sends, the roles   *)
(* and the rows it is shown for, whether it is disabled while an action of *)
(* its component runs, and whether it shows the error of a refused one.    *)
(***************************************************************************)
EXTENDS Actions

Control(action, for, in) ==
    [action |-> action, for |-> for, in |-> in, once |-> TRUE, told |-> TRUE]
\* Stays enabled while its request runs; ignores the outcome; is told the new row another way.
Again(control) == [control EXCEPT !.once = FALSE]
Silent(control) == [control EXCEPT !.told = FALSE]
By(how, control) == [control EXCEPT !.action.then = how]

\* Rows in one of the states, whatever their other fact.
In(states) == {Row(s, b) : s \in states, b \in BOOLEAN}
New == In({"NONE"})

-----------------------------------------------------------------------------
(* The agenda: AgendaView keeps the calendar, and loads it again itself after every change *)

\* Variant: a visit that nobody confirmed can be started.
NextStatusesAtOnce ==
    [confirm |-> {"SCHEDULED", "NO_SHOW"}, start |-> {"SCHEDULED", "CONFIRMED"}, complete |-> {"IN_SERVICE"},
     noShow |-> {"SCHEDULED", "CONFIRMED"}]

NextStatuses ==
    [confirm |-> {"SCHEDULED", "NO_SHOW"}, start |-> {"CONFIRMED"}, complete |-> {"IN_SERVICE"},
     noShow |-> {"SCHEDULED", "CONFIRMED"}]

CreateAppointmentDialog == [create |-> By("reload", Control(AgendaActions.create, Staff, New))]

\* The agenda reads its day again by itself.
OfAppointment(action, states) == By("reload", Control(action, Staff, In(states)))
StatusButtons == [to \in DOMAIN NextStatuses |-> OfAppointment(AgendaActions.status[to], NextStatuses[to])]
RescheduleForm == [reschedule |-> OfAppointment(AgendaActions.reschedule, {"SCHEDULED", "CONFIRMED"})]
CancelForm ==
    [cancel |-> OfAppointment(AgendaActions.cancel, {"SCHEDULED", "CONFIRMED", "IN_SERVICE", "NO_SHOW"})]
TicketOfVisit ==
    [openTicket |-> Silent(Control(ComandaActions.openFor, Staff, In({"CONFIRMED", "IN_SERVICE", "COMPLETED"})))]

AppointmentPanel == StatusButtons ++ RescheduleForm ++ CancelForm ++ TicketOfVisit

-----------------------------------------------------------------------------
(* The till *)

OpenTicketButton == [open |-> Control(ComandaActions.open, Desk, {Plain("NONE")})]

\* The screen of one ticket, its parts from top to bottom: a control of an open ticket in these states.
OfTicket(action, states) == Control(action, Staff, In(states))

TicketHeader == [setClient |-> Control(ComandaActions.setClient, Staff, {Plain(s) : s \in OpenTicket})]
TicketItems ==
    [addItem |-> OfTicket(ComandaActions.addItem, OpenTicket),
     removeItem |-> Again(OfTicket(ComandaActions.removeItem, {"DUE", "FREE", "PART", "SETTLED"}))]
TicketDiscount == [setDiscount |-> Again(OfTicket(ComandaActions.setDiscount, OpenTicket))]
TicketPayments == [addPayment |-> OfTicket(ComandaActions.addPayment, {"DUE", "PART"})]
TicketEnd ==
    [close |-> OfTicket(ComandaActions.close, {"FREE", "SETTLED"}),
     cancel |-> OfTicket(ComandaActions.cancel, {"EMPTY", "DUE", "FREE"})]

TicketPdv == TicketHeader ++ TicketItems ++ TicketDiscount ++ TicketPayments ++ TicketEnd

CaixaView ==
    [open |-> Control(CaixaActions.open, Desk, In({"CLOSED"})),
     move |-> Control(CaixaActions.move, Desk, In({"OPEN"})),
     close |-> Control(CaixaActions.close, Desk, In({"OPEN"}))]

\* The entries of a ticket have no cancel button.
EntryList ==
    [settle |-> Silent(Again(Control(FinanceiroActions.settle, Desk, In({"PENDING"})))),
     cancel |-> Silent(Again(Control(FinanceiroActions.cancel, Desk, {Plain("PENDING")})))]
FinanceView == [create |-> Control(FinanceiroActions.create, Desk, New)] ++ EntryList

Rules == In({"ACTIVE", "INACTIVE"})
RuleForm ==
    [create |-> Control(ComissaoActions.create, Owner, New),
     update |-> Control(ComissaoActions.update, Owner, Rules)]
ComissoesView == RuleForm ++ [delete |-> Control(ComissaoActions.delete, Owner, Rules)]

PayoutButton == [payout |-> Control(ComissaoActions.payout, Owner, In({"OWED"}))]

-----------------------------------------------------------------------------
(* The catalogue and the team *)

ProductsManager ==
    LET Shelf == In({"ACTIVE", "INACTIVE"})
    IN  [create |-> Control(ProdutoActions.create, Desk, New),
         update |-> Silent(Again(Control(ProdutoActions.update, Desk, Shelf)))]

StockControl == [stock |-> Silent(Control(ProdutoActions.stock, Desk, In({"ACTIVE", "INACTIVE"})))]

CreateServiceForm == [create |-> Control(ServicoActions.create, Owner, New)]
ServiceRow == [update |-> Control(ServicoActions.update, Owner, In({"ACTIVE", "INACTIVE"}))]

CreateProfessionalForm == [create |-> Control(ProfissionaisActions.create, Owner, New)]
ProfessionalRow ==
    [activate |-> Control(ProfissionaisActions.activate, Owner, In({"INACTIVE"})),
     deactivate |-> Control(ProfissionaisActions.deactivate, Owner, In({"ACTIVE", "BUSY"}))]

ProfessionalProfileHeader == [edit |-> Control(ProfissionalActions.edit, Owner, In({"ACTIVE", "BUSY", "INACTIVE"}))]
WorkingHoursEditor == [hours |-> Control(ProfissionalActions.hours, Staff, In({"ACTIVE", "BUSY", "INACTIVE"}))]
ServiceLinks == [link |-> Control(ProfissionalActions.link, Owner, In({"NONE", "ON", "OFF"}))]
TimeBlocksManager ==
    [block |-> Control(ProfissionalActions.block, Staff, New),
     unblock |-> Control(ProfissionalActions.unblock, Staff, In({"SET"}))]
ProfessionalPhoto ==
    [upload |-> Control(ProfissionalActions.upload, Staff, In({"NONE", "SET"})),
     unload |-> Control(ProfissionalActions.unload, Staff, In({"SET"}))]

-----------------------------------------------------------------------------
(* The salon and its clients *)

TenantProfileSettingsForm ==
    [profile |-> Control(ConfiguracaoActions.profile, Owner, In({"HERE"}))]
LogoSettings ==
    [logo |-> Control(ConfiguracaoActions.logo, Owner, In({"NONE", "SET"})),
     unlogo |-> Control(ConfiguracaoActions.unlogo, Owner, In({"SET"}))]
GalleryManager ==
    [add |-> Control(ConfiguracaoActions.add, Owner, In({"NONE", "SOME", "FULL"})),
     remove |-> Control(ConfiguracaoActions.remove, Owner, In({"SOME", "FULL"}))]

MarketplaceSettings == [save |-> Control(MarketplaceActions.save, Owner, In({"HERE"}))]
ReviewsModeration ==
    [hide |-> Silent(Control(MarketplaceActions.hide, Owner, In({"VISIBLE"}))),
     report |-> Silent(Control(MarketplaceActions.report, Owner, In({"VISIBLE"})))]

WaitlistRow ==
    [contact |-> Control(EsperaActions.contact, Owner, In({"PENDING"})),
     resolve |-> Control(EsperaActions.resolve, Owner, In({"PENDING"}))]

FormsManager ==
    [create |-> Control(FichaActions.create, Owner, New),
     update |-> Control(FichaActions.update, Owner, In({"ACTIVE", "INACTIVE"}))]

ClientForm ==
    [create |-> Control(ClienteActions.create, Desk, New),
     update |-> Control(ClienteActions.update, Desk, In({"HERE"}))]
IntakeSection == [submit |-> Control(ClienteActions.submit, Desk, In({"NONE", "GIVEN"}))]

-----------------------------------------------------------------------------
(* The platform's panel *)

Salons == {"TRIAL", "COURTESY", "PAID"}
OfTenant(move, rows) == Control(PlataformaActions[move], Platform, rows)

SuspendDialog == [suspend |-> OfTenant("suspend", {Row(s, FALSE) : s \in Salons})]
ReactivateDialog == [reactivate |-> OfTenant("reactivate", {Row(s, TRUE) : s \in Salons})]
TrialDialog == [extendTrial |-> OfTenant("extendTrial", In({"TRIAL"}))]
CourtesyDialog == [grantCourtesy |-> OfTenant("grantCourtesy", In({"TRIAL", "COURTESY"}))]
RemoveCourtesyDialog == [removeCourtesy |-> OfTenant("removeCourtesy", In({"COURTESY"}))]
PhoneDialog == [ownerPhone |-> OfTenant("ownerPhone", In(Salons))]
LinkDialog == [resetLink |-> OfTenant("resetLink", In(Salons))]

TenantActionsMenu ==
    SuspendDialog ++ ReactivateDialog ++ TrialDialog ++ CourtesyDialog ++ RemoveCourtesyDialog
    ++ PhoneDialog ++ LinkDialog

NewTenantForm == [create |-> Control(PlataformaActions.create, Platform, New)]

CouponForm == [create |-> Control(PlataformaActions.createCoupon, Platform, New)]
CouponToggle == [update |-> Control(PlataformaActions.updateCoupon, Platform, In({"ACTIVE", "INACTIVE"}))]

-----------------------------------------------------------------------------
(* The client's account *)

AppointmentTicket ==
    [cancel |-> Control(ContaActions.cancel, Consumer, In({"CONFIRMED"})),
     reschedule |-> Control(ContaActions.reschedule, Consumer, In({"CONFIRMED"}))]
PasswordForm == [password |-> Control(ContaActions.password, Consumer, In({"HERE"}))]
ProfileForm == [update |-> Control(ContaActions.update, Consumer, In({"HERE"}))] ++ PasswordForm
SessionsList ==
    [end |-> Silent(Control(ContaActions.end, Consumer, In({"LIVE"}))),
     endOthers |-> Silent(Control(ContaActions.endOthers, Consumer, In({"LIVE"})))]
ReviewList == [submit |-> Control(AvaliarActions.submit, Consumer, {Plain("COMPLETED")})]
=============================================================================
