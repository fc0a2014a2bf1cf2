# Formal models of TotalAgenda (Marquo)

TotalAgenda is a multi-tenant SaaS for beauty salons: a NestJS backend over one
PostgreSQL database, a Next.js frontend in front of it, and Mercado Pago as payment
provider.  This directory holds TLA+ models of the parts whose correctness depends on
the order in which things happen, the TLC configurations that check them, and proofs
of what matters most.

Every HTTP request runs as a Node.js handler that gives way at each `await`, and the
database isolates transactions at READ COMMITTED.  So the models have one rule:
**a step ends where another request can see or change what the handler works with**.
What a handler reads before its first write is one action, its write (with the commit
of its transaction) another; a transaction that takes an advisory lock has a step that
waits for it.  A handler's tail (the rest of the transaction, the release of the lock)
is part of the action that writes.

## 1. Inventory

Paths are under `src/apps/backend/src` unless they say otherwise.  "Hard" is what a
unit test with mocked Prisma (the repository's style) does not reach.

| Component | State | Operations | Hard behaviour | What makes it correct |
|---|---|---|---|---|
| Appointments `appointments/` | `Appointment` rows, advisory lock per professional, EXCLUDE constraint | book (client, staff), reschedule, change status, cancel | overlapping requests; status read before the write and not again; NO_SHOW frees a slot and may take it back | no double booking; a final status is final |
| Time blocks `time-blocks/` | `TimeBlock` rows | create, remove | conflict check outside any lock | no block over an appointment |
| Professionals `professionals/` | `isActive`, working hours, user | create, update, remove, hours, invitation | agenda ahead counted before the write; plan limit counted before the write | no future appointment without an active professional |
| Availability `availability/` | none | slots of a day | slot offered is stale when booked | slots offered are free and inside working hours |
| Services `services/` | catalogue | CRUD | – | prices and durations of the tenant |
| Tickets `tickets/` | `Ticket`, `TicketItem`, `Payment`, advisory lock per ticket | open, items, client, discount, payment, close, cancel | double click, two cashiers; discount or removal after payment | a closed ticket is paid and settled exactly once |
| Stock `products/` | `Product`, `StockMovement` | CRUD, movements, sale on close | balance is a sum, may go negative | one sale movement per item sold |
| Commissions `commissions/` | rules, `CommissionEntry` | rules CRUD, computed on close, summaries | most specific rule; duplicates raced in | at most the value sold |
| Finance `finance/` | `FinancialEntry`, `CommissionPayout`, lock per payee | manual entries, ticket income, payouts, reports | payout sent twice; unique keys roll back | never paid out more than earned |
| Cash register `cash-register/` | `CashRegister`, `CashMovement` | open, deposit, withdraw, close | every check outside a lock | one open register; drawer not negative |
| Payments `billing/payments/` | `Subscription`, `BillingAttempt`, `CouponRedemption`, lock per tenant, Mercado Pago | checkout by Pix/card, sync (webhook, poll, hourly), change plan, cancel, expire | lost, repeated and late notifications; provider down; reads of the provider overtaken; best-effort calls after commit | paid once = credited once; cancelled = ends; coupon used once |
| Access status `billing/` | none | compute status, guard | – | a function of subscription and clock |
| Plan limits `billing/` | counts | assertCanAdd, assertCanDowngrade | count then write | never above the plan |
| Coupons `coupons/` | `Coupon.redemptionCount` | reserve, record | last use raced | count = redemptions, never above the limit |
| Platform admin `platform-admin/` | audit log, all tenants | courtesy, suspension, users, coupons, sign-in | checks outside transactions | a courtesy never replaces a paid plan |
| Signup `signup/` | tenant + owner + redemption | signup | slug taken meanwhile, retries, last use of a coupon | all or nothing |
| Staff auth `auth/` | `User` lockout, `RefreshToken` families | login, refresh, logout, password links | rotation raced by tabs, reuse and grace, revocation between consume and issue | no session survives its revocation |
| Consumer auth `consumer-auth/` | `Consumer`, `ConsumerSession`, links | sign-up, login, refresh, password, sessions, clean-up | same, plus a daily job | same; one link per salon |
| Clients `clients/` | `Client` by phone, `ConsumerTenantLink` | CRUD, link on first booking | a phone changed by the staff, three ways to a link | a client sees its own bookings |
| Waitlist `waitlist/` | `WaitlistEntry` | join, contact, resolve | client, link and entry written one by one | – |
| Tenants, photos `tenants/` | profile, logo, gallery, files on disk | profile, upload, remove | file and row written one after the other | a page shows files that exist |
| Intake `intake/` | forms, answers | CRUD | – | – |
| Reviews `reviews/` | `Review` | create, report, hide | check then insert | one review per appointment |
| Marketplace, reports, internal | none | queries | – | read-only |
| Frontend: pages `src/apps/frontend/src/app` | the row as last read, requests sent | pages, buttons, server actions | the row changes under the page; transitions and roles decided twice; answers ignored | what is offered is taken; the outcome is seen |
| Frontend: booking `components/booking` | wizard's choices | choose, load slots, confirm | late, reordered and lost answers | what is sent was offered |
| Frontend: sessions `lib/auth.ts`, `proxy.ts` | cookies, renewals shared in a process | renew | several tabs renew at once | one exchange per process |

How they interact: `appointments` reads `time-blocks` and professionals' `isActive`
(and they read appointments) in the shared database; `tickets.close` calls `products`,
`commissions` and `finance` inside its transaction; `tickets.addPayment` asks
`cash-register` for the open session; `payments` and `platform-admin` write the same
`Subscription` row, the second without the first's lock; `payments` is called by its own
controller, the webhook controller and the scheduler; `signup` and `platform-admin` reserve
uses of coupons.  The frontend has no database: its pages read the API, its server actions
call one route each, and its server keeps the cookies.

## 2. Modules

| Module | Models | State ↔ code |
|---|---|---|
| `SlotCalendar` | abstract: what an appointment book promises | `held[a]`: the slot of appointment `a` |
| `Agenda` | appointments, time blocks, activation of professionals | `appt`, `blocks`, `active` = rows; `lock[p]` = advisory lock `hashtext(professionalId)`; `req[r]` = locals of the handler serving request `r`; `now` = server clock |
| `Billing` | one tenant's subscription, attempts and coupon, with Mercado Pago | `sub`, `attempt`, `coupon` = rows; `provider[a]` = payment or preapproval of attempt `a`; `notices` = notifications not answered with 200; `lock` = advisory lock `billing:<tenant>`; `proc[p]` = locals of a handler or of the hourly job |
| `Subscription` | abstract: what a salon has for its money | `order[o]`, `agreed`, `used`: what was ordered, agreed to, turned into days; `contract` |
| `Comanda` | tickets, payments, what closing writes, payouts, cash register | `ticket`, `register`, `income`, `accrued`, `paidOut`, `usedKeys`, `settled` = rows or sums of rows; `lock[x]` = lock of ticket or payee `x` |
| `StaffSessions` | refresh tokens of a staff account, and the Next.js server that renews them | `row[t]` = `RefreshToken`; `user` = the account; `cookie` = the browser's; `renewals[p]` = map of process `p` |
| `ConsumerSessions` | a client's account and its devices | `consumer`, `session[s]` = rows; `token[d]` = cookie of device `d` |
| `Lockout` | the lock after wrong passwords, in three services | `account` = `failedLoginAttempts`, `lockedUntil`, in a row or in memory |
| `Signup` | new salons and the coupon they redeem | `tenants`, `coupon` = rows; `holder` = the transaction that updated the coupon |
| `Tenancy` | suspension, trial, courtesy, paid plan, team | `suspended`, `trialEnd`, `sub`, `staff`, `team` = rows; `trail`, `granted` = audit log |
| `Ledger` | financial categories and entries | rows |
| `CommissionRules` | the rules' create, update, delete; `pickRule` | rows |
| `Patrons` | clients, accounts, links, bookings, reviews, waitlist | `phone[k]`, `account`, `link[c]`, `booking[b]` = rows |
| `Showcase` | photo, logo, gallery, working hours | `disk` = files; the rest = rows |
| `Rows`, `Routes` | the backend as the frontend sees it: moves of a row; who may call which route | none: records |
| `Actions`, `Screens`, `Pages` | the frontend: server actions; buttons and forms; pages | none: records |
| `Portal` | one user before one page while others change the row | `shown` = the row as rendered; `sent` = requests in flight |
| `Access` | billing status, read by server, plan page, banner, platform | `plan`, `trialUntil`, `barred` = rows; `agreement` = recurrence at the provider; `headcount` = active professionals |
| `Wizard` | the booking wizard | the component's state and refs; `calls`, `post` = requests in flight |
| `AgendaScreen` | the staff's calendar | the component's state; `queue` = server actions in flight |
| `Offer` | the times offered against the times accepted | `hours`, `gives`, `busy`, `visit` = rows; `shut` = no access in `computeBillingStatus`; `offer` = what the screen shows |
| `AgendaProofs`, `ComandaProofs`, `SessionsProofs`, `StaffProofs`, `BillingProofs`, `BackOfficeProofs`, `WizardProofs`, `PortalProofs` | theorems about the module named, the sessions, the back office or the site, and their proofs (section 4) | – |
| `MCAgenda`, `MCBilling`, `MCComanda`, `MCSessions`, `MCBackOffice`, `MCPortal` | values and symmetry for TLC; the last three instantiate several modules | `part`: which of them moves |

History variables (`freed`, `months`, `blind`, `stale`, `shrunk`, `spent`, `excused`, `unended`,
`wrong`, `due`, `raced`, `late`, `lowered`, `pardoned`, `tied`,
`renumbered`, `dropped`, `crossed`, `unseen`, `refused`, `unheard`, `astray`, and the flags
`overtaken` of requests) are written and steer no action (save the bound on `wrong`): they
only let a property speak of the past.

### Agenda
`BookBegin` is everything `createFromPublicLink`/`createByStaff` do before their
transaction; `LockAndCheck` is `lockProfessional` + `assertNoConflict`; `BookCommit` the
insert, which the EXCLUDE constraint (`Exclusion`) may refuse with a 409.  `Move…` is
`applyReschedule`, which locks only the target professional and keeps the status the row
has at the time of writing.  `StatusCommit` updates by id alone, as `updateStatus` and
`applyCancel` do.  `BlockBegin`/`BlockCommit` and `DeactivateBegin`/`DeactivateCommit` are
the check and the write of `TimeBlocksService.create` and `ProfessionalsService.update`.
Left out: who may call (roles), which services a professional performs (a duration from
`Durations`), names and prices, and what only refuses: the plan limit on reactivation (`Tenancy`) and
`assertTenantAcceptsBookings` (`Offer`).

### Billing
`CheckoutBegin` is `createAttempt` (one transaction under the lock, coupon included);
`CheckoutPosted`/`CheckoutFailed` the answer of the provider and `failAttempt`.
`Webhook`, `Poll` and `CronBegin` start a synchronisation; `Fetch` reads the provider
**without** the lock; `Enter` takes the lock and reads the rows again; `Write` applies
`applyPixPayment` or `applyPreapproval`; `After` is the best-effort call that follows the
commit.  `CronReread`, `CronFind`, `CronExpire` are the expiry transaction, which takes no
lock and is split at its awaits.  `cancel`, `changePlan`, `grantCourtesy` are split at
their provider calls and transactions.  `Crash` ends any process and makes the provider
repeat the notification it was handling.
Abstractions: amounts are reduced to the plan they belong to and whether they are
discounted; one coupon; `next_payment_date` may be missing (`dated`); the "latest
attempt" of `syncCardForTenant` is any card attempt; refusals that change nothing
(suspended tenant, plan limit, malformed code) are left out; a tick is a day or more, so
the clock moves only between requests.  A payer can pay only after the code has stored
the provider's reference, because only then are the link or the QR code shown.
`ImplementsSubscription` reads all this as a contract: `ContractOf` the row (a courtesy hides what
it replaced, a flag is an `ending`, a pause is nothing), `Agreed` the provider's side of an attempt
(a Pix charged, a recurrence with a next payment), `months` the Pix already turned into days.

### Comanda
`…Lock` is `lockedOpenTicket` and the checks that follow it, `…Write` the writes and the
commit.  `CloseWrite` does everything `close` does in its transaction: status, stock,
commissions, income; a second `FinancialEntry` of a ticket breaks its unique key and rolls
all back.  `PayoutLock`/`PayoutWrite` are `registerCommissionPayout`.  The cash register
has no lock: `…Read` then `…Write`.  Abstractions: an item is its value and professional;
each professional has one rule of a fixed amount; payments of a ticket are their sum
(each is at least 1); an appointment opens a ticket with one item.  Left out: `setClient`
(a move of `Rows`).

### StaffSessions, ConsumerSessions, Lockout
`RefreshRead`, `Claim`, `Issue` are the steps of `AuthService.refresh`: what it reads of token
and account, the conditional UPDATE of `consume`, and `issue`.  `SetPasswordRead`,
`SetPasswordWrite`, `RevokeAll` are `setPassword`; `Visit`, `Answer`, `Unreachable`, `Overtaken`,
`Deliver` are the frontend's `auth()` callback with the renewal it shares for `Share` ticks
and the cookies that come back late or never.  Grace period and share last less than a tick
(0), so two uses in one tick are "at once".  `ConsumerSessions` splits `register`, `login`,
`refresh`, `changePassword`, `logout` at their writes; `Cut` is a process that stops between
the hash and the revocation; `Cleanup` the daily job.  `Lockout` covers the three
logins: `Wrong` is the atomic increment, `Lock` the later write of `lockedUntil`; in
`platform-auth` both are one assignment in memory, lost on `Restart`.

### Signup, Tenancy, Ledger, CommissionRules, Patrons, Showcase
One pattern: a request reads and checks, then writes, and another may write in between
(`overtaken`).  `Signup!Reserve` is the conditional UPDATE that holds the coupon's row until
the transaction ends; `RollBack` undoes it, and the insert is tried again with another slug.
`Tenancy!ExtendWrite` is the compare-and-set on `trialEndsAt`, `Suspend` the one on
`suspendedAt`; `Paid` stands for all of `Billing`.  `Patrons!Linked` is `ensureLink`, under
the client's row lock; joining the waitlist writes client, link and entry apart and may stop
after any.  `Showcase!Stop` is a process that stops between a file and its row.
`CommissionRules!PickRule` is the set of rules among which only the order of the rows decides
(`orderBy createdAt`): `OnePays` says it has one at most, whatever the item, unless a write was
overtaken.

### Rows, Routes, Actions, Screens, Pages, Portal
The frontend decides again what the backend decides: which status follows which, who sees which
button.  The five data modules write both sides down from their own sources — `Rows` from the
services, `Routes` from the controllers' decorators, `Actions` from the `actions.ts`, `Screens`
from the components' conditions, `Pages` from the `page.tsx` — and `Portal` runs them against
each other: any page, role, kind of row and state; a request is answered as the guards, the
route and the row's move say; others change the row; the plan lapses; the answer renders
the page again, leaves it, or is ignored.  A row is reduced to its state and one fact (`tied`:
that the appointment has a ticket, that the salon is suspended, …).  Input is taken to be
valid: a form whose refusal depends on what is typed is not offered wrongly.
Three sets name the exceptions, read off the code: `OfferedRegardless` (buttons whose page does
not know what the server will look at), `Deaf` (components that throw an answer away),
`BrokenFor` (pages open to a role whose reads are refused to it).

### Access, Wizard, AgendaScreen, Offer
`Access` has `computeBillingStatus` once and its four readers: `assertCanStart`/`changePlan`/`cancel`,
`planActionFor` and `paymentChoices` of the plan page, the banner, and the platform's list,
counts and revenue.  `HasRoom` is `assertCanDowngrade`, which `createAttempt` and `changePlan`
call, and the same check in `grantCourtesy`: the plan page does not know the team (`ChangePlanDialog.tsx` says so and
waits for the 409), so the plans it offers are taken only if the team fits (`TeamExceeds` names the
exception).  `Hire` and `Dismiss` are the owner's routes and behind the guard: a salon shut out must
pay for a plan its team fits.  A payment is one step, so the team is counted as the salon pays; what
happens between the attempt and the payment is `Billing`'s, and between the count and its write
`Tenancy`'s.  `Wizard` keeps `slotsRequestRef` (`latest` of a call), the pending
advance (`timer`) and the effects of `BookingWizard.tsx`; answers arrive in any order, fail, or
are lost after the booking was made (`AnswerLost`, on the way from the API to Next.js, where the
server action turns it into an error; lost on the way to the browser, the button would wait on).  `AgendaScreen` keeps what `AgendaView.tsx`
keeps and runs one server action at a time, as Next.js does; the answer's closure carries the
day and filter of the screen that sent it.  `Offer` computes free starts in minutes as
`getAvailableSlots` does, on a clock that is finer (`Minute` instants), and books as
`createFromPublicLink` and `applyReschedule` check.  The two look at the professional and the service
alike (`gives`, switched by `SetServices`) and at the salon's billing apart: `getAvailableSlots` and
the pages do not, `createFromPublicLink` refuses whoever books at a salon that is `shut`
(`TakesBookings`), and `applyReschedule` moves a visit all the same.  So `OfferIsKept` excuses a new
booking at such a salon, and no move; the mutant `TakesNothingWhileShut` refuses the move.

## 3. Runs

| Run | Instance | Shows |
|---|---|---|
| `agenda` | 2 appointments, 2 professionals, 3 instants; either 2 requests at once over one length, or one request at a time with a block, the clock and 2 lengths | types, no double booking, the lock protects a slot from check to write, refinement of `SlotCalendar`; serially, blocks and deactivated professionals meet an appointment only if it had freed its slot |
| `agenda_final` ✗ | 1 appointment, 2 requests | a completed or cancelled appointment is rewritten |
| `billing_pix` | 2 Pix attempts, 1 worker + hourly job, coupon | credited once, days kept, coupon count exact, lost only if the provider was out of reach, stale attempts end |
| `billing_card` | 1 card attempt, 2 workers, 2 plans, pause, change, cancel | a cancelled recurrence runs on only through a stale read; it serves the plan ordered or switched to (refinement of `Subscription`) |
| `billing_switch` | 2 attempts, Pix/card/courtesy, crash, 1 worker | serially, a cancelled recurrence ends |
| `billing_pix_lost` ✗ | as `billing_pix` | a paid Pix is never credited |
| `comanda` | 1 ticket, 2 items, 2 requests, 1 register, payouts | a closed ticket is settled once and fully; payouts never exceed sales |
| `sessions` | 3 tokens, 1 process, 2 requests; 2 devices, 2 sessions; lock after 2 of 4 wrong passwords | a revoked family is over, a token is spent once, an old password opens nothing, no wrong password is uncounted — up to the windows each property names |
| `sessions_survive` ✗ | the staff part | a renewal in progress survives the change of password |
| `back_office` | 2 requests in each of six parts | uses are redemptions, the audit log tells the salon, checks and refusals fail only by a race, bookings are listed, files shown exist |
| `portal` | all pages × roles × rows, 2 requests, 1 change by others; plan over 9 days; the wizard twice; 2 days and 2 professionals; one day of 8 minutes | what screens offer, show and send is what the backend takes and has, with every exception named |
| `way_to_pay` ✗ | the plan part | shut out with nothing to pay |

✗ marks a run in which TLC must find a violation: the code does something else than a
comment or a table of the repository says.  `PROJECT.json` ("findings") quotes each.

`MCSessions`, `MCBackOffice` and `MCPortal` explore their modules one at a time (`part`): the
modules share no variable, and the product of their states would say nothing more.  The
parts that do not move keep one initial state.  These MC modules also state, as ASSUMEs, what
each instantiated module asks of its constants; the proofs start from the same ASSUMEs.

**Bounds.**  Two requests in progress are enough for the races here: every conflict is
between one handler's check and one other handler's write.  Two appointments are enough
for every pairwise property of the agenda, three instants (`Horizon` = 2) give disjoint,
equal and containing intervals; `LastTick` lets the future become the past.  `RowsLeft`
and `Cardinality(BlockIds)` keep ids for the inserts in progress.  In `Billing`, one Pix
needs two attempts (renewal, shared coupon) but one worker next to the job; the card needs
two workers but one attempt; `Operations` says which operations a run includes;
`MaxRedemptions` bounds how often the coupon is redeemed, returned and redeemed again;
`RenewalWindow` = 2 lets a renewal be paid before the end.  In `Comanda`, prices include 0
(an item that costs nothing) and one below the fixed commission; `MaxDrawer` bounds
what is put in the drawer.  In `sessions`, three tokens give a token, its successor and the
successor of a copy; two sessions a stolen and an own device; the threshold of 2 is passed
twice.  `purgeExpired` needs a clock beyond `Horizon` and is modelled but not reached there.
In `back_office`, limits of 1 and 2 uses, plans of 1 and 2 professionals out of 3, one reserved
slug out of three (so that a signup retries and gives up), three phones for two consumers, two
commission rules (their properties are pairwise) for any sale, any of a kind or one service.  In
`portal`, `WorkingWeeks` and `BusyStretches` (given to `Weeks` and `Stretches`) have a day with
a break and a shorter one, and stretches that start or end between two minutes; two requests
are a double click or a stale button, `MaxOthers` = 1 is the row changing once; `Closing` = 8
days is a trial, a paid month, its grace and a day more; one plan is for one professional and one for
any team, and `MaxTeam` = 2 is one too many for the first.  The ids and clocks used up, nothing
is left to do: deadlock is checked in `agenda` alone. Symmetry permutes names only (requests,
professionals, tokens never: they are ordered), in runs without liveness.

**Fairness** (`Billing!Fairness`).  Nest's scheduler runs `expireStaleAttempts` every hour and
its awaits return (weak fairness of its steps); PostgreSQL serves an advisory lock in
order of arrival, and holders only do local work, so the job gets the lock (strong
fairness of `Enter(Cron)`, weak of every `Write`).  Nothing is assumed of users or of the
provider: it may never answer.  `StaleAttemptsEnd` needs no more than that, because
`syncAttemptSafely` swallows the error.  No other part promises progress: everything else
waits for a user.

**Mutants.**  Each property of a passing run names a mutation of a definition that breaks it
(the old partial index, the lock taken on the source, no second look at the status,
`deleteMany` for `delete`, a 200 for a 503, a claim without its condition, a counter written
from what was read, a late answer not dropped, …): the operators whose comment says "Variant"
or "were it", or named "…Unchecked", "…Unlocked", are those mutations and are used nowhere else.

**What a run does not catch.**  `BlockOverlapOnlyIfFreedAlone` and `OrphanOnlyIfFreedAlone` are about
requests one at a time: that another comes between check and write is the first item below.  In
`billing_card` there is one card attempt, so that Pix and courtesy next to it rest on
`BillingProofs`.  `PayoutsEarned` bounds the payouts: one sent twice within the balance is two
payouts to the code as well.  `ShownFilesExist` excuses a logo whose removal stopped between
file and row.  `Tenancy` reads plan and team of `assertCanAddProfessional` in one step.

**What the code lets happen**, seen in the models and not the subject of a run:
- an appointment back from NO_SHOW may lie on a block made meanwhile; two requests at once
  may block over a booking or orphan one;
- one coupon redemption may discount two pending attempts that are both paid
  (`payments.service.ts:145`), two card checkouts may both be authorized, an APPROVED attempt
  may end EXPIRED (its credit stays);
- two cash registers may be open at once, two withdrawals may empty a drawer twice, and a cash
  payment may be tied to a register already counted; the difference found on closing is in the
  answer and the page, rendered again with the register closed, no longer shows it;
- cancelling the expense of a commission (`finance.service.ts:229`) leaves its payout;
- a visit of several services, being moved, is offered times for the first service alone, and
  its own time counts as busy (`AppointmentTicket.tsx:56`);
- the waiting list says a contacted client "continua na lista" (`WaitlistRow.tsx:49`) and lists
  PENDING entries only (`lista-espera/page.tsx:33`); joining twice makes two entries;
- the plan page offers plans too small for the team, and the booking pages times of a salon that
  takes no bookings; both are refused by the API when chosen;
- the platform's list shows a salon whose Pix month ended as active (`platform-admin.service.ts:220`
  does not select the method), and its monthly revenue counts courtesies (line 104).

## 4. Proofs

`AgendaProofs`, from `AgendaAssumption` alone (any sets of appointments, professionals,
requests, any horizon):

- `TypeCorrect`, `NeverDoubleBooked`, `LockIsEnough`: `Spec => []TypeOK`, `[]NoDoubleBooking`,
  `[]LockProtects`.
- `AgendaImplementsCalendar`: `Spec => Calendar!Spec`.

The inductive invariant is `IInv`: types; `LockOwned` (a lock is held exactly by the
request that checked under it); `Targets` (a request carries what its write needs);
`FreedKnown` (a row that exists and does not occupy its slot is in `freed`); `Placed`;
and the two properties.  `NoDoubleBooking` alone is inductive thanks to the constraint;
`LockProtects` is not, and the argument is: a slot newly taken is taken by a commit of the
holder of the same lock (excluded by `LockOwned`), by a status change of a row that had
left its slot (in `freed` by `FreedKnown`), and by nothing else.  The refinement maps each
commit to `Take`, `GiveBack` or a stutter; `NoDoubleBooking` gives `Take` its guard.

`MCAgenda` also lets requests come one at a time (`serial`), and about those two more are proved:

- `BlocksAreKept`, `NobodyIsOrphaned`: `MCSpec => []BlockOverlapOnlyIfFreedAlone`,
  `[]OrphanOnlyIfFreedAlone`.

`SerialInv` adds to `IInv` that one request is in progress (`OneAtATime`) and what it has seen
(`SeenIsSo`): who books or moves still has an active professional and, once past the check, no block
in the way; who makes a block or deactivates still has no appointment in the way.  Only the clock,
the removal of a block and a reactivation can come in between, and they make it no less true.

`ComandaProofs`, from `ComandaAssumption` alone (any sets of tickets, items, professionals,
registers and requests, any prices):

- `TicketsEndEven`: `Spec => []EndsEven`, what a ticket is settled or cancelled with.
- `TillTypes`, `PaymentsFit`, `PayoutsAreEarned`: `Spec => []TypeOK`, `[]OverpaidOnlyIfShrunk`,
  `[]PayoutsEarned`.

None of them is inductive: they depend on what a request found out before it writes.
`IInv`, for the first, adds `Shape` (the types the argument uses); `Locked` (a request between lock and
write holds the lock of an open ticket, and the payments it checked are still so);
`OwnItems` (two tickets share no item) and `FreshIds` (the id `addItem` is about to insert
is new).  The argument: only the holder of a ticket's lock writes it, so a ticket that
`close` found paid is open and paid when it is closed, its income cannot exist yet, and
settling its items touches no other ticket.  `ElsewhereStep` covers every step that leaves
tickets alone, `LockStep` and `WriteStep` all requests on a ticket but `close`.

The last three are about sums, which the model takes with `MapThenSumSet`, a fold.  What a fold
computes needs induction over finite sets; the library's induction theorems take an operator as
parameter, which no prover here instantiates, but the strict inclusion of finite subsets is
well-founded, and that theorem (`WFMin`) speaks of sets alone.  `SmallestSet` is its form for
the proofs: of the sets with which something is wrong take a smallest one.  From it: a fold's
recursive function exists and is unique (`SumsExist`, `SumsAgree`), any element may come first
(`SumAnyFirst`), sums are amounts, add up over disjoint sets and compare (`SumIsNat`,
`SumOfUnion`, `SumOfLess`); `ValuesSum` and `SharesSum` say that the two folds of `Comanda` are
such sums.  `MoneyInv` then adds to `IInv`: tickets have finitely many items (`Counted`); a payment
checked under the lock still fits (`Fits`); a payout holds its payee's lock and is still owed
(`Owed`); nobody was paid more than was accrued, and no more was accrued than the closed tickets'
items cost (`Earned`).  Closing adds a ticket's items to what is sold, disjoint from it by
`OwnItems`, and its commissions, each at most the item's price, to what is accrued.

`SessionsProofs` and `StaffProofs`, about the three protocols `MCSessions` puts side by side,
from `LockAssumed`, `ClientAssumed` and `StaffAssumed` (any numbers of tokens, requests,
processes of the frontend, devices and attempts; any durations, the schedule of the lock as
in the code).  A step of one protocol leaves the other two alone, so each has its own invariant:

- `EveryFailureIsCounted`, `TheLockBites`: `[]NoneUncounted`, `[]LockBites`, by `LockInv`.
  `PendingIsLatest`: a lock still to be written that nothing raced with is the only one and is for
  the number of failures there are, so the lock written last is the one due.  `GuessesLeft`
  bounds what is compared under the lock by what was past the check when it was written: the
  passwords compared and those still to be compared are together fewer than the attempts, because
  the attempt that made the lock is neither.
- `OldSessionsEnd`: `[]OldSessionOnlyIfUnended`, by `ClientInv`.  The property speaks of cookies;
  `NoneOld` says it of whatever may become one (answers on their way, requests past the guard),
  except while a change of password has still to revoke (`Replacing`).  `HandedOut` (ids and hashes
  in use are below the next), `Owned` and `Passed` say that a new session is opened with the
  present password; `Issued` that nothing names a session before it exists.
- `RevokedFamiliesEnd`, `ExchangesAreInTime`, `ExchangesAreShared`, `SessionsTypes`:
  `[]RevokedIsOver`, `[]SpentOnce`, `[]ExchangedOncePerProcess`, `[]TypeOK`, by `StaffInv`.  `Heads`:
  a family is named after its first token, so two families share no row.  `Spending`: the column
  `usedAt` that the claim tests is the time of the first exchange, and who may issue a
  successor claimed within the grace of it.  For the last one, `Orderly`: until an answer is lost
  or overtaken, whoever exchanges a token is the one its process waits for, the process
  remembers what it exchanged for as long as somebody still holds it, and then nobody does;
  `Keyed` ties the memory of a process to its requests, `Ages` orders tokens by issue.

`BillingProofs`, from `BillingAssumption` (any attempts, requests and plans, any durations):

- `CreditsAreOfPayments`, `CouponUsesAreCounted`, `PaymentsAreNotLost`, `RunningOnIsOfOldPictures`:
  `[]CreditedOnce`, `[]CouponCountExact`, `[]LostOnlyIfBlind`, `[]RunsOnOnlyIfStale`;
- `CreditsAddWholeMonths`: the action property `PixKeepsDays`;
- `OneAtATimeConverges`: `[]CardConverges`, where `Workers` has one member and nothing expires;
- `BillingImplementsSubscription`: `Spec => Contract!Spec`.

None is inductive.  `BillingInv` has what a process knows at each of its awaits: `Placed` (who
writes has the lock; who posts has an attempt without a reference; the job only holds
attempts past their time), `PostedOnce`, `Paid` (an APPROVED picture of a Pix is of a charge),
`Credit` (a month is credited once, to an attempt no longer pending, and who writes under the
lock about a Pix has seen that it is not credited), `CouponInv`, `Reading` (under the lock the
subscription read is still the one there: this is what `PixKeepsDays` needs), and three
about what is still on its way: `Awaited` and `CronSees` (a paid Pix not credited is notified, or
being handled, or will be read by the job, or the job was blind), `Told` (a
cancelled recurrence is known, on its way, or was overwritten with an old picture).  With one
worker `Alone` and `Warned` say in addition that nothing overtakes it.  TLC checked `BillingInv`
on the constants of the three passing runs of `Billing` before it was proved.

The refinement needs `SoldInv` besides, which TLC checked on the same three: `Agreements` (what is
authorized has a next payment, a picture of it is of one that has, and nothing was agreed to before
it was posted), `Wanted` (a plan in a row or about to be written is one of the plans, and who writes
about an attempt has its plan), `Kinds` (only a recurrence has a reference) and `ReadsWell` (under
the lock, the row read is the row there, its flag aside, unless a courtesy came or went: the
transactions without the lock are `CancelFlag`, which writes the flag alone, and the two of the
courtesies).  Each write then maps to a step: a credited Pix to `TurnIntoDays`, guarded by `Paid` and
`Credit`; an authorized recurrence to `Serve`, where `ReadsWell` decides which plan it may write; a
cancellation to `End`; a pause to none.  The provider's `PixPaid` and `CardAuthorized` are `Agree`, a
checkout is `Order`, and whatever else happens is a stutter (`OthersSell`).

`BackOfficeProofs`, about the six parts `MCBackOffice` explores, from the assumptions each of them
states (any requests, salons, professionals, entries, rules, clients, files; any limits):

- `ShapesKept`, `ChecksHold`: `[]TypeOK`, `[]ChecksBreakOnlyIfRaced`, about all of them;
- `UsesAreCounted`: `[]UsesAreRedemptions`; `TrailTells`: `[]AuditTellsSalon`; `BookedIsListed`:
  `[]BookedIsListedUnlessRenumbered`; `ShownExist`: `[]ShownFilesExist`;
- `OverwritesAreOvertaken`: the action property `OverwritesOnlyIfOvertaken`.

A step moves one part and leaves the others alone (`PartsMove`), so each has its own invariant.
`SignupInv`: who holds the coupon's row is the one transaction that counted a use and has not
ended (`HolderHolds`), so the count is the redemptions and that one (`UsesCounted`); two salons
share no address. `TenantInv`: what a request that is about to write has looked at still holds,
or it was overtaken (`Looked`: the team fits the plan, the subscription is not a paid one); the
log alternates and ends with the present state. `LedgerInv`: a settlement is of an entry that is
there, and is overtaken if that was cancelled (`SettlesKnown`). `RulesInv`: the target of an active
rule about to be written is free, or the request was overtaken (`TargetsFree`); two targets that match
one item and score alike are one (`ScoresTell`), so what pays a sale is unique. `PatronsInv`: a client
linked to a consumer, or about to be, has the consumer's phone unless the staff changed it
(`LinksReach`), and whoever owns a booking is linked, to its client or through a changed phone
(`OwnersLinked`); with one client for a phone that is what a second booking by the same consumer
needs. `PageInv`: the file a request has written is named by no row and about to be deleted by
nobody (`FreshNames`), names are not given twice and a photo's is never an image's (`TakenNames`),
who deletes a photo has taken it off the row (`PhotoReplaced`); unless requests crossed, one at a
time is about the logo (`LogoKnown`), and who replaces the hours has seen them all (`HoursSeen`).

`PortalProofs`, about the parts of `MCPortal` in which something moves, from the assumptions of each
(any plans, ceilings and bound on the team, any lengths of month, grace and trial; any experts, calls in flight and entries; any
days, team and length of the queue; any hours, stretches, durations, granularity and lead; any of
the site's pages, requests in flight and changes by others):

- `OfferedButtonsAreTaken`, `OutcomesAreSeen`, `PagesOpenWhole`: `MCSpec => []OfferedIsTaken`,
  `[]OutcomeSeen`, `[]OpensWhole`;
- `SentSlotsWereOffered`, `HeardIsBookedOnce`: `MCSpec => []SentIsOffered`,
  `[]BooksTwiceOnlyIfUnheard`;
- `AgendaShowsItsDay`: `[]ShowsItsDay`; `OffersAreKept`: `[]OfferIsKept`; `ReadingsAgree`:
  `[]ScreensAgree`.

The three of the site have two halves.  One is about the tables: `SiteFits` says that every page in
`SitePages` fits (`Fits`), that is, of its reads, that a role let in is refused one only on the pages
named broken for it or because of the plan, a professional reading of himself only (`Opens`), and of each of its buttons
(`Fit`) that its route takes every role and every row it is shown for or is named as offered regardless
(`Taken`), and that what becomes of the request is shown or the component is named deaf (`Heard`).
There is a lemma for each kind of row a page shows and one for its reads, from the definitions of the
page, its components, the actions they call, the routes behind these and the moves of the rows;
`Starting`, `Everywhere` and `Loosely` say once which rows the moves written with `To`, `Stay`, `Both`,
`Ties` and `Frees` start from.  The other half, `SiteStep`, uses only `Fits`: in `SiteInv` every request
on its way was pressed by a role and on a row the button is shown for (`Request`), so that the server
refuses it only over a row changed since or a lapsed plan; and where every button leaves the one row
it is shown for as it is, what each request leaves is what is shown (`Still`).

Those of the booking come from `WizardProofs`, which holds for any services and days as well and is
instantiated for each of the two wizards of `MCPortal`.  `WInv`: the steps are reached in order, and
whatever is shown, selected or asked for last is of the professional, the service and the day
selected, because a choice that changes one of them empties the slot and makes earlier requests late
(`Matched`); while a booking is on its way the button waits and no error is shown (`OnItsWay`); while
every answer was heard the one booking is confirmed on the screen or its answer is still to come
(`Heard`).  `ScreenInv`: unless the user strayed from a change on its way, every change in the queue
and the last load are of the day and professional on the screen, and with no load to come the
calendar is (`Followed`).  `OfferInv`: while nothing changed since the times were asked for, the
professional still gives the service and it fits at each of them (`StillGiven`), whether or not the
salon has been shut since.  The code looks at whole minutes rounded
outwards and the backend at instants; `MinutesAreEnough` says that rounding loses no overlap, from
what quotients are (`RoundedDown`, `RoundedUp`).  `PlanInv`: a subscription is nothing, a courtesy, a
Pix month or a card whose row agrees with the recurrence at the provider (`PlanSound`); the three
readings are then compared case by case, for a plan with room for the team (`RoomIs`).

Only model-checked: `StaleAttemptsEnd` (liveness under fairness is out of the prover's reach).

## 5. What is not modelled, and the plan

Not modelled: marketplace search, reports and the internal listings (read-only);
percentages of commission and the summaries; amounts and quotes; validation and
parsing of input, uploads' contents, throttling, pagination and filters of lists; landing pages
and the look of every page; time zones (blocks are made in the server's,
`profissionais/[id]/actions.ts:84`); tenant isolation (every query has the tenant in its WHERE:
there is no state to explore); migrations of data and the seed.

Next: `pricing.ts` as a pure function against a reference definition.
