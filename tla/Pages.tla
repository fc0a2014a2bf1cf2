------------------------------- MODULE Pages -------------------------------
(***************************************************************************)
(* The pages: who is let in (the others are sent away or shown a locked    *)
(* page before anything is read), the routes whose refusal breaks the page *)
(* (loud), is told on it (told) or leaves a list empty (quiet), and what   *)
(* its components show, by the kind of row.  One definition per page.tsx.  *)
(***************************************************************************)
EXTENDS Screens

Held(moves, controls) ==
    [moves |-> UNION {moves[m] : m \in DOMAIN moves}, controls |-> controls]
Page(name, for, loud, told, quiet, shows) ==
    [name |-> name, for |-> for, loud |-> loud, told |-> told, quiet |-> quiet, shows |-> shows]

\* Something the page only displays, which somebody else may change.
Display(states) == [display |-> [moves |-> To(states, states), controls |-> <<>>]]

-----------------------------------------------------------------------------
(* The dashboard *)

AgendaPage ==
    Page("agenda", Staff, {}, {Appointments.calendar}, {Services.list},
         [appointment |-> Held(AppointmentMoves, CreateAppointmentDialog ++ AppointmentPanel)])

ComandasPage ==
    Page("comandas", Desk, {}, {}, {Tickets.list}, [ticket |-> Held(TicketMoves, OpenTicketButton)])

ComandaPage ==
    Page("comanda", Staff, {Tickets.get}, {}, {Services.list, Products.list, Professionals.list},
         [ticket |-> Held(TicketMoves, TicketPdv)])

\* The difference found on closing is kept by the form that closes; the page, rendered again with
\* the register closed, shows the other form.
CaixaPage ==
    Page("caixa", Desk, {}, {}, {CashRegister.get},
         [register |-> Held(RegisterMoves, CaixaView),
          difference |-> Held([close |-> RegisterMoves.close], [close |-> By("none", CaixaView.close)])])

\* The tabs of reports keep what they loaded.
FinanceiroPage ==
    Page("financeiro", Desk, {}, {}, {Finance.overview, Finance.entries, Finance.categories},
         [entry |-> Held(EntryMoves, FinanceView),
          report |-> Held(EntryMoves, [settle |-> By("none", FinanceView.settle)])])

ComissoesPage ==
    Page("comissoes", Owner, {}, {Commissions.earnings},
         {Commissions.rules, Professionals.list, Services.list, Products.list},
         [rule |-> Held(RuleMoves, ComissoesView), earning |-> Held(PayoutMoves, PayoutButton)])

ProdutosPage ==
    Page("produtos", Desk, {}, {}, {Products.list}, [product |-> Held(ProductMoves, ProductsManager ++ StockControl)])

ServicosPage ==
    Page("servicos", Staff, {}, {}, {Services.list}, [service |-> Held(ServiceMoves, CreateServiceForm ++ ServiceRow)])

ProfissionaisPage ==
    Page("profissionais", Staff, {}, {}, {Professionals.list},
         [professional |-> Held(ProfessionalMoves, CreateProfessionalForm ++ ProfessionalRow)])

\* Opened by the owner, and by a professional for himself.
ProfissionalPage ==
    Page("profissional", {"OWNER", "PROFESSIONAL"}, {Professionals.get, Services.list, Services.links, TimeBlocks.list}, {}, {},
         [professional |-> Held(ProfessionalMoves, ProfessionalProfileHeader ++ WorkingHoursEditor),
          photo |-> Held(PictureMoves, ProfessionalPhoto), link |-> Held(LinkMoves, ServiceLinks),
          block |-> Held(BlockMoves, TimeBlocksManager)])

ConfiguracoesPage ==
    Page("configuracoes", Owner, {Tenants.me}, {}, {},
         [salon |-> Held(SalonMoves, TenantProfileSettingsForm), logo |-> Held(PictureMoves, LogoSettings),
          gallery |-> Held(GalleryMoves, GalleryManager)])

MarketplacePage ==
    Page("marketplace", Owner, {Tenants.marketplace}, {}, {Reviews.list},
         [salon |-> Held(SalonMoves, MarketplaceSettings), review |-> Held(ReviewMoves, ReviewsModeration)])

\* Variant: the reception is let in.
ListaEsperaPageForDesk ==
    Page("espera", Desk, {}, {}, {Waitlist.list}, [waiting |-> Held(WaitlistMoves, WaitlistRow)])

ListaEsperaPage == Page("espera", Owner, {}, {}, {Waitlist.list}, [waiting |-> Held(WaitlistMoves, WaitlistRow)])

FichasPage == Page("fichas", Owner, {}, {}, {Intake.forms}, [form |-> Held(FormMoves, FormsManager)])

ClientesPage == Page("clientes", Desk, {}, {}, {Clients.list}, Display({"SOME", "MORE"}))

NovoClientePage == Page("novoCliente", Desk, {}, {}, {}, [client |-> Held(ClientMoves, [create |-> ClientForm.create])])

ClientePage ==
    Page("cliente", Staff, {Clients.get}, {}, {Intake.forms},
         [client |-> Held(ClientMoves, [update |-> ClientForm.update]),
          answer |-> Held(AnswerMoves, IntakeSection)])

RelatoriosPage == Page("relatorios", Staff, {Reports.general}, {}, {}, Display({"SOME", "MORE"}))

PlanoPage == Page("plano", Staff, {}, {Billing.status, Billing.plans}, {}, Display({"PLAN", "OTHER"}))

-----------------------------------------------------------------------------
(* The platform's panel; its layout asks who is signed in *)

OverviewPage == Page("overview", Platform, {PlatformAdmin.overview}, {}, {}, Display({"SOME", "MORE"}))
NegociosPage ==
    Page("negocios", Platform, {PlatformAdmin.tenants}, {}, {}, [tenant |-> Held(TenantMoves, TenantActionsMenu)])
NegocioPage ==
    Page("negocio", Platform, {PlatformAdmin.tenant}, {}, {}, [tenant |-> Held(TenantMoves, TenantActionsMenu)])
NovoNegocioPage == Page("novoNegocio", Platform, {}, {}, {}, [tenant |-> Held(TenantMoves, NewTenantForm)])
AssinaturasPage == Page("assinaturas", Platform, {PlatformAdmin.subscriptions}, {}, {}, Display({"SOME", "MORE"}))
UsuariosPage == Page("usuarios", Platform, {PlatformAdmin.users}, {}, {}, Display({"SOME", "MORE"}))
CuponsPage ==
    Page("cupons", Platform, {PlatformAdmin.coupons}, {}, {}, [coupon |-> Held(CouponMoves, CouponForm ++ CouponToggle)])
AuditoriaPage == Page("auditoria", Platform, {PlatformAdmin.audit}, {}, {}, Display({"SOME", "MORE"}))

-----------------------------------------------------------------------------
(* The client's account *)

MinhaContaPage ==
    Page("minhaConta", Consumer, {}, {},
         {ConsumerAccount.me, ConsumerAccount.bookings, ConsumerAccount.establishments, ConsumerAccount.sessions},
         [visit |-> Held(VisitMoves, AppointmentTicket), profile |-> Held(ProfileMoves, ProfileForm),
          session |-> Held(SessionMoves, SessionsList)])

AvaliarPage == Page("avaliar", Consumer, {}, {}, {Reviews.pending}, [visit |-> Held(VisitMoves, ReviewList)])

-----------------------------------------------------------------------------

\* The pages of the salon's staff: those inside the dashboard, behind its gate.
Dashboard ==
    {AgendaPage, ComandasPage, ComandaPage, CaixaPage, FinanceiroPage, ComissoesPage,
     ProdutosPage, ServicosPage, ProfissionaisPage, ProfissionalPage, ConfiguracoesPage,
     MarketplacePage, ListaEsperaPage, FichasPage, ClientesPage, NovoClientePage,
     ClientePage, RelatoriosPage, PlanoPage}

Outside ==
    {OverviewPage, NegociosPage, NegocioPage, NovoNegocioPage, AssinaturasPage,
     UsuariosPage, CuponsPage, AuditoriaPage, MinhaContaPage, AvaliarPage}

SitePages == Dashboard \cup Outside
=============================================================================
