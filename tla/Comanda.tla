------------------------------ MODULE Comanda ------------------------------
(***************************************************************************)
(* The till of a salon: tickets ("comandas") and their payments            *)
(* (tickets.service.ts), what closing one writes to stock, commissions and *)
(* finance, the payouts of commissions (finance.service.ts) and the cash   *)
(* register (cash-register.service.ts).                                    *)
(*                                                                         *)
(* A request on a ticket, or a payout, is a transaction that takes an      *)
(* advisory lock and reads (...Lock), then writes and commits (...Write).  *)
(* A request on the cash register takes no lock: it reads (...Read), then  *)
(* writes.                                                                 *)
(***************************************************************************)
EXTENDS Integers, FiniteSets, FiniteSetsExt

CONSTANTS
    Tickets,        \* ids that rows of the Ticket table may get
    ItemIds,        \* ids that rows of the TicketItem table may get
    Pros,           \* professionals
    Registers,      \* ids that rows of the CashRegister table may get
    Keys,           \* request keys of payouts
    Requests,       \* HTTP requests that may be in progress at once
    Prices,         \* what an item may cost (unit price times quantity)
    Amounts,        \* sums that may be paid, discounted or moved
    Rate,           \* the fixed commission of a professional for an item
    MaxDrawer,      \* most money a register is filled with (a bound)
    NoPro, NoKey, NoRequest, NoTicket, NoRegister, NoItem

ASSUME ComandaAssumption ==
    /\ Prices \subseteq Nat /\ Amounts \subseteq Nat /\ 0 \notin Amounts
    /\ Rate \in Nat /\ MaxDrawer \in Nat
    /\ NoPro \notin Pros /\ NoKey \notin Keys /\ NoRequest \notin Requests
    /\ NoTicket \notin Tickets /\ NoRegister \notin Registers /\ NoItem \notin ItemIds
    /\ Tickets \cap Pros = {}

VARIABLES
    ticket,     \* ticket[t]: the row of t with its items, discount and payments
    income,     \* income[t]: amounts of the FinancialEntry rows of ticket t
    settled,    \* ids of the items whose stock movement and commission were written
    accrued,    \* accrued[p]: sum of p's CommissionEntry rows
    paidOut,    \* paidOut[p]: sum of p's CommissionPayout rows
    usedKeys,   \* the keys on those rows
    register,   \* register[k]: a cash register session
    lock,       \* lock[x]: the request that holds the advisory lock of ticket or payee x
    req,        \* req[r]: where request r stands and what it has read
    shrunk      \* history: tickets whose total went down after a payment

vars == <<ticket, income, settled, accrued, paidOut, usedKeys, register, lock, req, shrunk>>
sale    == <<ticket, income, settled, accrued, shrunk>>
payouts == <<paidOut, usedKeys>>

Items == [id : ItemIds, value : Prices, pro : Pros \cup {NoPro}]
Statuses == {"NONE", "OPEN", "CLOSED", "CANCELED"}
NoRow == [status |-> "NONE", items |-> {}, discount |-> 0, paid |-> 0]
NoSession == [status |-> "NONE", cash |-> 0, moved |-> 0]
IdleReq == [op |-> "idle", t |-> NoTicket, id |-> NoItem, amount |-> 0,
            pro |-> NoPro, key |-> NoKey, register |-> NoRegister]

Rows == [status : Statuses, items : SUBSET Items, discount : Nat, paid : Nat]

\* What a request may be doing: idle, with a ticket, paying out, at the cash register.
TicketOps == {"addItem", "removeItem", "discount", "payment", "close", "cancel"}
Ops == {"idle", "payout", "open", "deposit", "withdraw", "closeRegister"} \cup TicketOps
Reqs == [op : Ops, t : Tickets \cup {NoTicket}, id : ItemIds \cup {NoItem}, amount : Nat,
         pro : Pros \cup {NoPro}, key : Keys \cup {NoKey},
         register : Registers \cup {NoRegister}]

TypeOK ==
    /\ ticket \in [Tickets -> Rows]
    /\ \A t \in Tickets : income[t] \subseteq Nat
    /\ settled \subseteq ItemIds
    /\ accrued \in [Pros -> Nat] /\ paidOut \in [Pros -> Nat]
    /\ usedKeys \subseteq Keys
    /\ register \in [Registers -> [status : {"NONE", "OPEN", "CLOSED"}, cash : Nat, moved : Int]]
    /\ lock \in [Tickets \cup Pros -> Requests \cup {NoRequest}]
    /\ req \in [Requests -> Reqs]
    /\ shrunk \subseteq Tickets

-----------------------------------------------------------------------------
(* Money *)

Subtotal(row) == MapThenSumSet(LAMBDA i : i.value, row.items)
\* A total that a large discount makes negative.
TotalUnclamped(row) == Subtotal(row) - row.discount
\* What the client owes.  Items removed later may cost less than the discount.
Total(row) == IF Subtotal(row) > row.discount THEN Subtotal(row) - row.discount ELSE 0

\* A fixed commission, were it paid in full whatever the item costs.
CommissionUncapped(item) == IF item.pro = NoPro THEN 0 ELSE Rate
\* computeForTicket with one rule of fixed value per professional: never more than the sale.
Commission(item) ==
    IF item.pro = NoPro THEN 0 ELSE IF Rate < item.value THEN Rate ELSE item.value

CommissionsOf(p, items) == MapThenSumSet(Commission, {i \in items : i.pro = p})

-----------------------------------------------------------------------------
(* Requests and locks *)

Idle(r) == req[r].op = "idle"
Finish(r) == req' = [req EXCEPT ![r] = IdleReq]

\* The lock, were nobody to wait for it.
LockIgnored(x) == TRUE
LockFree(x) == lock[x] = NoRequest
Take(r, x) == LockFree(x) /\ lock' = [lock EXCEPT ![x] = r]
Release(r) == lock' = [x \in DOMAIN lock |-> IF lock[x] = r THEN NoRequest ELSE lock[x]]

-----------------------------------------------------------------------------
(* Tickets *)

\* Ids of items that some row or some request has.
TakenIds == {i.id : i \in UNION {ticket[t].items : t \in Tickets}} \cup settled
            \cup {req[r].id : r \in Requests}

\* open: from an appointment with one service and its professional, or empty.
Open(t) ==
    /\ ticket[t].status = "NONE"
    /\ \E items \in {{}} \cup {{i} : i \in {x \in Items : x.id \notin TakenIds /\ x.pro # NoPro}} :
           ticket' = [ticket EXCEPT ![t] = [NoRow EXCEPT !.status = "OPEN", !.items = items]]
    /\ UNCHANGED <<income, settled, accrued, shrunk, payouts, register, lock, req>>

\* lockedOpenTicket: the lock of the ticket, then the ticket as it is.
TicketLock(r, op, t, id, amount, k) ==
    /\ Idle(r)
    /\ Take(r, t)
    /\ ticket[t].status = "OPEN"
    /\ req' = [req EXCEPT ![r] = [IdleReq EXCEPT !.op = op, !.t = t, !.id = id,
                                                 !.amount = amount, !.register = k]]
    /\ UNCHANGED <<sale, payouts, register>>

AddItemLock(r, t) ==
    \E id \in ItemIds \ TakenIds : TicketLock(r, "addItem", t, id, 0, NoRegister)
RemoveItemLock(r, t) ==
    \E i \in ticket[t].items : TicketLock(r, "removeItem", t, i.id, 0, NoRegister)
\* A discount above the subtotal is refused.
DiscountLock(r, t) ==
    \E d \in Amounts \cup {0} :
        d <= Subtotal(ticket[t]) /\ TicketLock(r, "discount", t, NoItem, d, NoRegister)
OpenRegisters == {k \in Registers : register[k].status = "OPEN"}
\* A payment above what is left is refused; cash goes to a register that is open, if any.
PaymentLock(r, t) ==
    \E amount \in Amounts, cash \in BOOLEAN :
      \E k \in IF cash /\ OpenRegisters # {} THEN OpenRegisters ELSE {NoRegister} :
        /\ ticket[t].paid + amount <= Total(ticket[t])
        /\ TicketLock(r, "payment", t, NoItem, amount, k)
CloseLock(r, t) ==
    /\ ticket[t].items # {} /\ ticket[t].paid >= Total(ticket[t])
    /\ TicketLock(r, "close", t, NoItem, 0, NoRegister)
CancelLock(r, t) ==
    ticket[t].paid = 0 /\ TicketLock(r, "cancel", t, NoItem, 0, NoRegister)

\* The end of a transaction on a ticket that leaves stock and finance alone.
Writes(r, row) ==
    LET t == req[r].t IN
    /\ ticket' = [ticket EXCEPT ![t] = row]
    /\ shrunk' = IF row.paid > 0 /\ Total(row) < Total(ticket[t]) THEN shrunk \cup {t}
                 ELSE shrunk
    /\ Finish(r)
    /\ Release(r)
    /\ UNCHANGED <<income, settled, accrued, payouts>>

Now(r) == ticket[req[r].t]

AddItemWrite(r) ==
    /\ req[r].op = "addItem"
    /\ \E value \in Prices, pro \in Pros \cup {NoPro} :
           Writes(r, [Now(r) EXCEPT !.items =
                         @ \cup {[id |-> req[r].id, value |-> value, pro |-> pro]}])
    /\ UNCHANGED register
RemoveItemWrite(r) ==
    /\ req[r].op = "removeItem"
    /\ Writes(r, [Now(r) EXCEPT !.items = {i \in @ : i.id # req[r].id}])
    /\ UNCHANGED register
DiscountWrite(r) ==
    /\ req[r].op = "discount"
    /\ Writes(r, [Now(r) EXCEPT !.discount = req[r].amount])
    /\ UNCHANGED register
PaymentWrite(r) ==
    /\ req[r].op = "payment"
    /\ Writes(r, [Now(r) EXCEPT !.paid = @ + req[r].amount])
    /\ register' = IF req[r].register = NoRegister THEN register
                   ELSE [register EXCEPT ![req[r].register].cash = @ + req[r].amount]
CancelWrite(r) ==
    /\ req[r].op = "cancel"
    /\ Writes(r, [Now(r) EXCEPT !.status = "CANCELED"])
    /\ UNCHANGED register

\* close: status, stock, commissions and income in one transaction.  The database
\* allows one FinancialEntry per ticket: a second one rolls everything back.
CloseWrite(r) ==
    LET t == req[r].t IN
    /\ req[r].op = "close"
    /\ IF income[t] # {}
         THEN UNCHANGED sale
         ELSE /\ ticket' = [ticket EXCEPT ![t].status = "CLOSED"]
              /\ settled' = settled \cup {i.id : i \in ticket[t].items}
              /\ accrued' = [p \in Pros |-> accrued[p] + CommissionsOf(p, ticket[t].items)]
              /\ income' = [income EXCEPT ![t] = @ \cup {Total(ticket[t])}]
              /\ UNCHANGED shrunk
    /\ Finish(r)
    /\ Release(r)
    /\ UNCHANGED <<payouts, register>>

-----------------------------------------------------------------------------
(* Payouts: registerCommissionPayout *)

\* A key seen before answers with the payout it made; more than the balance is refused.
PayoutLock(r, p, amount, key) ==
    /\ Idle(r)
    /\ Take(r, p)
    /\ key \notin usedKeys
    /\ amount <= accrued[p] - paidOut[p]
    /\ req' = [req EXCEPT ![r] = [IdleReq EXCEPT !.op = "payout", !.pro = p,
                                                 !.amount = amount, !.key = key]]
    /\ UNCHANGED <<sale, payouts, register>>

\* The key is unique in the database: taken meanwhile, the transaction rolls back.
PayoutWrite(r) ==
    LET q == req[r] IN
    /\ q.op = "payout"
    /\ IF q.key \in usedKeys
         THEN UNCHANGED payouts
         ELSE /\ paidOut' = [paidOut EXCEPT ![q.pro] = @ + q.amount]
              /\ usedKeys' = IF q.key = NoKey THEN usedKeys ELSE usedKeys \cup {q.key}
    /\ Finish(r)
    /\ Release(r)
    /\ UNCHANGED <<sale, register>>

-----------------------------------------------------------------------------
(* The cash register, without locks *)

Expected(k) == register[k].cash + register[k].moved

RegisterAsks(r, op, k, amount) ==
    /\ Idle(r)
    /\ req' = [req EXCEPT ![r] = [IdleReq EXCEPT !.op = op, !.register = k, !.amount = amount]]
    /\ UNCHANGED <<sale, payouts, register, lock>>

RegisterOpenRead(r) ==
    /\ OpenRegisters = {}
    /\ \E float \in {a \in Amounts \cup {0} : a <= MaxDrawer} :
           RegisterAsks(r, "open", NoRegister, float)
DepositRead(r) ==
    \E k \in OpenRegisters, amount \in Amounts :
        Expected(k) + amount <= MaxDrawer /\ RegisterAsks(r, "deposit", k, amount)
WithdrawRead(r) ==
    \E k \in OpenRegisters, amount \in Amounts :
        amount <= Expected(k) /\ RegisterAsks(r, "withdraw", k, amount)
RegisterCloseRead(r) == \E k \in OpenRegisters : RegisterAsks(r, "closeRegister", k, 0)

RegisterOpenWrite(r) ==
    /\ req[r].op = "open"
    /\ \E k \in Registers :
           /\ register[k].status = "NONE"
           /\ register' = [register EXCEPT ![k] =
                  [status |-> "OPEN", cash |-> 0, moved |-> req[r].amount]]
    /\ Finish(r)
    /\ UNCHANGED <<sale, payouts, lock>>
MovementWrite(r) ==
    /\ req[r].op \in {"deposit", "withdraw"}
    /\ register' = [register EXCEPT ![req[r].register].moved =
           IF req[r].op = "deposit" THEN @ + req[r].amount ELSE @ - req[r].amount]
    /\ Finish(r)
    /\ UNCHANGED <<sale, payouts, lock>>
\* update by id alone: a register closed meanwhile is closed again.
RegisterCloseWrite(r) ==
    /\ req[r].op = "closeRegister"
    /\ register' = [register EXCEPT ![req[r].register].status = "CLOSED"]
    /\ Finish(r)
    /\ UNCHANGED <<sale, payouts, lock>>

-----------------------------------------------------------------------------
Init ==
    /\ ticket = [t \in Tickets |-> NoRow]
    /\ income = [t \in Tickets |-> {}]
    /\ settled = {}
    /\ accrued = [p \in Pros |-> 0]
    /\ paidOut = [p \in Pros |-> 0]
    /\ usedKeys = {}
    /\ register = [k \in Registers |-> NoSession]
    /\ lock = [x \in Tickets \cup Pros |-> NoRequest]
    /\ req = [r \in Requests |-> IdleReq]
    /\ shrunk = {}

Reads(r) ==
    \/ \E t \in Tickets : AddItemLock(r, t) \/ RemoveItemLock(r, t) \/ DiscountLock(r, t)
                          \/ PaymentLock(r, t) \/ CloseLock(r, t) \/ CancelLock(r, t)
    \/ \E p \in Pros, amount \in Amounts, key \in Keys \cup {NoKey} :
           PayoutLock(r, p, amount, key)
    \/ RegisterOpenRead(r) \/ DepositRead(r) \/ WithdrawRead(r) \/ RegisterCloseRead(r)

WritesBack(r) ==
    \/ AddItemWrite(r) \/ RemoveItemWrite(r) \/ DiscountWrite(r) \/ PaymentWrite(r)
    \/ CancelWrite(r) \/ CloseWrite(r) \/ PayoutWrite(r)
    \/ RegisterOpenWrite(r) \/ MovementWrite(r) \/ RegisterCloseWrite(r)

Next == (\E t \in Tickets : Open(t)) \/ \E r \in Requests : Reads(r) \/ WritesBack(r)

Spec == Init /\ [][Next]_vars

-----------------------------------------------------------------------------
(* Properties *)

\* What a ticket says and what its closing wrote agree for ever after: one income of
\* its total, paid in full, every item settled and none settled for an open ticket
\* (lockedOpenTicket, TicketsService.close).
ClosedIsSettled ==
    \A t \in Tickets :
        LET ids == {i.id : i \in ticket[t].items} IN
        IF ticket[t].status = "CLOSED"
          THEN income[t] = {Total(ticket[t])} /\ ticket[t].paid >= Total(ticket[t])
               /\ ids \subseteq settled
          ELSE income[t] = {} /\ ids \cap settled = {}

\* Simultaneous payments never exceed the total (the comment on lockedOpenTicket): more
\* was paid than a ticket costs only when it got cheaper after a payment.
OverpaidOnlyIfShrunk ==
    \A t \in Tickets : ticket[t].paid > Total(ticket[t]) => t \in shrunk

\* A cancelled ticket holds no money (TicketsService.cancel refuses while a payment is there).
CanceledUnpaid == \A t \in Tickets : ticket[t].status = "CANCELED" => ticket[t].paid = 0

\* A ticket that ended owes nobody anything: settled if it was closed, unpaid if it was cancelled,
\* whatever close, cancel and the payments overtake (the status each of them reads again).
EndsEven == ClosedIsSettled /\ CanceledUnpaid

\* A professional is never paid more commission than the closed tickets earned, two
\* payouts at once included, and never more than what those items cost (the lock of
\* registerCommissionPayout, the cap of computeForTicket).
PayoutsEarned ==
    \A p \in Pros :
        paidOut[p] <= MapThenSumSet(LAMBDA i : i.value,
            UNION {{i \in ticket[t].items : i.pro = p} :
                      t \in {x \in Tickets : ticket[x].status = "CLOSED"}})

=============================================================================
