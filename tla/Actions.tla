------------------------------ MODULE Actions -------------------------------
(***************************************************************************)
(* The server actions of the frontend: each calls one route and, when the  *)
(* call succeeds, renders the page again ("render"), leaves it ("leave"),  *)
(* hands the answer to whoever asked ("answer"), or does nothing ("none"). *)
(* One definition per actions.ts, one field per action.                    *)
(***************************************************************************)
EXTENDS Routes

Action(route, then) == [route |-> route, then |-> then]
Render(route) == Action(route, "render")
Leave(route) == Action(route, "leave")

-----------------------------------------------------------------------------
(* The dashboard *)

AgendaActions ==
    [create |-> Render(Appointments.create),
     status |-> [to \in DOMAIN Appointments.status |-> Render(Appointments.status[to])],
     cancel |-> Render(Appointments.cancel), reschedule |-> Render(Appointments.reschedule)]

ComandaActions ==
    [open |-> Leave(Tickets.open), openFor |-> Leave(Tickets.openFor),
     addItem |-> Action(Tickets.addItem, "answer"), removeItem |-> Action(Tickets.removeItem, "answer"),
     setClient |-> Action(Tickets.setClient, "answer"), setDiscount |-> Action(Tickets.setDiscount, "answer"),
     addPayment |-> Action(Tickets.addPayment, "answer"),
     close |-> Leave(Tickets.close), cancel |-> Leave(Tickets.cancel)]

CaixaActions == [move \in DOMAIN RegisterMoves |-> Render(CashRegister[move])]

ClienteActions ==
    [create |-> Leave(Clients.create), update |-> Render(Clients.update),
     submit |-> Render(Intake.submit)]

ComissaoActions ==
    [create |-> Render(Commissions.create), update |-> Render(Commissions.update),
     delete |-> Render(Commissions.delete), payout |-> Render(Finance.payout)]

FinanceiroActions ==
    [create |-> Render(Finance.create), settle |-> Render(Finance.settle),
     cancel |-> Render(Finance.cancel)]

ConfiguracaoActions ==
    [profile |-> Render(Tenants.profile), logo |-> Render(Tenants.logo),
     unlogo |-> Render(Tenants.unlogo), add |-> Render(Tenants.add), remove |-> Render(Tenants.remove)]

FichaActions == [create |-> Render(Intake.create), update |-> Render(Intake.update)]

\* Variant: without revalidatePath.
EsperaActionsUnseen ==
    [contact |-> Action(Waitlist.contact, "none"), resolve |-> Action(Waitlist.resolve, "none")]

EsperaActions == [contact |-> Render(Waitlist.contact), resolve |-> Render(Waitlist.resolve)]

MarketplaceActions ==
    [save |-> Render(Tenants.listing), hide |-> Render(Reviews.hide), report |-> Render(Reviews.report)]

ProdutoActions ==
    [create |-> Render(Products.create), update |-> Render(Products.update), stock |-> Render(Products.stock)]

ProfissionaisActions ==
    [create |-> Render(Professionals.create), activate |-> Render(Professionals.activate),
     deactivate |-> Render(Professionals.deactivate)]

ProfissionalActions ==
    [hours |-> Render(Professionals.hours), edit |-> Render(Professionals.edit),
     link |-> Render(Services.link), block |-> Render(TimeBlocks.create),
     unblock |-> Render(TimeBlocks.remove), upload |-> Render(Professionals.upload),
     unload |-> Render(Professionals.unload)]

ServicoActions == [create |-> Render(Services.create), update |-> Render(Services.update)]

-----------------------------------------------------------------------------
(* The platform's panel and the client's account *)

PlataformaActions ==
    [move \in (DOMAIN TenantMoves \ {"subscribe"}) |-> Render(PlatformAdmin[move])]
    ++ [createCoupon |-> Render(PlatformAdmin.createCoupon), updateCoupon |-> Render(PlatformAdmin.updateCoupon)]

ContaActions ==
    [update |-> Render(ConsumerAccount.update), password |-> Action(ConsumerAccount.password, "none"),
     end |-> Render(ConsumerAccount.end), endOthers |-> Render(ConsumerAccount.endOthers),
     cancel |-> Render(ConsumerBookings.cancel), reschedule |-> Render(ConsumerBookings.reschedule)]

AgendarActions == [join |-> Action(Waitlist.join, "none")]

AvaliarActions == [submit |-> Action(Reviews.create, "answer")]
=============================================================================
