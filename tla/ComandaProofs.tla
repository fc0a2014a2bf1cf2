--------------------------- MODULE ComandaProofs ---------------------------
(* Proofs about the till, for any number of tickets, items, professionals, *)
(* registers and requests, and for any prices and sums.                    *)
EXTENDS Comanda, FiniteSetTheorems, TLAPS

-----------------------------------------------------------------------------
(* The inductive invariant *)

ItemsOf(t) == {i.id : i \in ticket[t].items}

\* The shape of the state that the arguments below need.
Shape ==
    /\ ticket \in [Tickets -> Rows]
    /\ income \in [Tickets -> SUBSET {Total(row) : row \in Rows}]
    /\ lock \in [Tickets \cup Pros -> Requests \cup {NoRequest}]
    /\ req \in [Requests -> Reqs]

\* A request between its lock and its write holds the lock of an open ticket, and what
\* it found out under the lock is still so.
Holds(r) ==
    LET t == req[r].t IN
    /\ t \in Tickets
    /\ lock[t] = r
    /\ ticket[t].status = "OPEN"
    /\ req[r].op = "close" => ticket[t].paid >= Total(ticket[t])
    /\ req[r].op = "cancel" => ticket[t].paid = 0

Locked == \A r \in Requests : req[r].op \in TicketOps => Holds(r)

\* Two tickets share no item.
OwnItems == \A s, t \in Tickets : s # t => ItemsOf(s) \cap ItemsOf(t) = {}

\* The id that addItem is about to insert is new, and nobody else's.
Fresh(r) ==
    /\ req[r].id \in ItemIds \ settled
    /\ \A t \in Tickets : req[r].id \notin ItemsOf(t)
    /\ \A q \in Requests \ {r} : req[q].op = "addItem" => req[q].id # req[r].id

FreshIds == \A r \in Requests : req[r].op = "addItem" => Fresh(r)

IInv == Shape /\ Locked /\ OwnItems /\ FreshIds /\ ClosedIsSettled /\ CanceledUnpaid

-----------------------------------------------------------------------------
(* Steps that write no ticket *)

LEMMA InitInv == Init => IInv
<1> SUFFICES ASSUME Init PROVE IInv
  OBVIOUS
<1> USE ComandaAssumption DEF Init, NoRow, IdleReq
<1>1. Shape
  <2>1. NoRow \in Rows
    BY DEF Rows, Statuses
  <2>2. IdleReq \in Reqs
    BY DEF Reqs, Ops
  <2> QED BY <2>1, <2>2 DEF Shape
<1>2. \A t \in Tickets : ItemsOf(t) = {}
  BY DEF ItemsOf
<1> QED BY <1>1, <1>2 DEF IInv, Locked, TicketOps, OwnItems, FreshIds, ClosedIsSettled,
                          CanceledUnpaid, ItemsOf

\* Request r neither gains nor takes away the lock of a ticket another request holds.
OthersKeep(r) ==
    \A q \in Requests \ {r} :
        /\ req'[q] = req[q]
        /\ \A t \in Tickets : lock[t] = q => lock'[t] = q

\* Whatever a request does that leaves tickets, income and settled items alone and ends
\* with it at work on no ticket keeps the invariant.
LEMMA ElsewhereStep ==
    ASSUME IInv, Shape', NEW r \in Requests, OthersKeep(r),
           UNCHANGED <<ticket, income, settled>>, req'[r].op \notin TicketOps
    PROVE  IInv'
<1>1. Locked'
  <2> SUFFICES ASSUME NEW q \in Requests, req'[q].op \in TicketOps
               PROVE  Holds(q)'
    BY DEF Locked
  <2>1. q # r /\ req'[q] = req[q]
    BY DEF OthersKeep
  <2>2. Holds(q)
    BY <2>1 DEF IInv, Locked
  <2> QED BY <2>1, <2>2 DEF Holds, OthersKeep
<1>2. OwnItems' /\ ClosedIsSettled' /\ CanceledUnpaid'
  BY DEF IInv, OwnItems, ItemsOf, ClosedIsSettled, CanceledUnpaid
<1>3. FreshIds'
  BY DEF IInv, FreshIds, Fresh, ItemsOf, OthersKeep, TicketOps
<1> QED BY <1>1, <1>2, <1>3 DEF IInv

LEMMA IdleIsReq == IdleReq \in Reqs
BY ComandaAssumption DEF IdleReq, Reqs, Ops

LEMMA ReleaseKeeps ==
    ASSUME Shape, NEW r \in Requests, Release(r), Finish(r)
    PROVE  /\ OthersKeep(r)
           /\ lock' \in [Tickets \cup Pros -> Requests \cup {NoRequest}]
           /\ req' \in [Requests -> Reqs] /\ req'[r] = IdleReq
BY IdleIsReq DEF Shape, Release, Finish, OthersKeep

\* The payout of a commission takes the lock of the payee, which is no ticket's.
LEMMA PayoutStep ==
    ASSUME IInv, NEW r \in Requests,
           \/ \E p \in Pros, amount \in Amounts, key \in Keys \cup {NoKey} :
                 PayoutLock(r, p, amount, key)
           \/ PayoutWrite(r)
    PROVE  IInv'
<1> USE DEF IInv
<1>1. ASSUME NEW p \in Pros, NEW amount \in Amounts, NEW key \in Keys \cup {NoKey},
             PayoutLock(r, p, amount, key)
      PROVE  IInv'
  <2> DEFINE q == [IdleReq EXCEPT !.op = "payout", !.pro = p, !.amount = amount, !.key = key]
  <2>1. q \in Reqs /\ q.op = "payout"
    BY ComandaAssumption DEF IdleReq, Reqs, Ops
  <2>2. req' = [req EXCEPT ![r] = q] /\ lock' = [lock EXCEPT ![p] = r]
    BY <1>1, Zenon DEF PayoutLock, Take
  <2>3. UNCHANGED <<ticket, income, settled>>
    BY <1>1 DEF PayoutLock, sale
  <2>4. Shape'
    BY <2>1, <2>2, <2>3 DEF Shape
  <2>5. OthersKeep(r)
    BY <2>2, ComandaAssumption DEF OthersKeep, Shape
  <2>6. req'[r].op \notin TicketOps
    BY <2>1, <2>2 DEF Shape, TicketOps
  <2> QED BY <2>3, <2>4, <2>5, <2>6, ElsewhereStep
<1>2. CASE PayoutWrite(r)
  <2>1. UNCHANGED <<ticket, income, settled>> /\ Finish(r) /\ Release(r)
    BY <1>2 DEF PayoutWrite, sale
  <2>2. OthersKeep(r) /\ Shape' /\ req'[r] = IdleReq
    BY <2>1, ReleaseKeeps DEF Shape
  <2> QED BY <2>1, <2>2, ElsewhereStep DEF IdleReq, TicketOps
<1> QED BY <1>1, <1>2

\* The cash register knows no tickets and takes no lock.
LEMMA RegisterStep ==
    ASSUME IInv, NEW r \in Requests,
           \/ RegisterOpenRead(r) \/ DepositRead(r) \/ WithdrawRead(r) \/ RegisterCloseRead(r)
           \/ RegisterOpenWrite(r) \/ MovementWrite(r) \/ RegisterCloseWrite(r)
    PROVE  IInv'
<1> USE DEF IInv
<1>1. ASSUME NEW op \in {"open", "deposit", "withdraw", "closeRegister"},
             NEW k \in Registers \cup {NoRegister}, NEW amount \in Amounts \cup {0},
             RegisterAsks(r, op, k, amount)
      PROVE  IInv'
  <2> DEFINE q == [IdleReq EXCEPT !.op = op, !.register = k, !.amount = amount]
  <2>0. amount \in Nat /\ op \in Ops
    BY ComandaAssumption DEF Ops
  <2>1. q \in Reqs /\ q.op = op
    BY <2>0 DEF IdleReq, Reqs
  <2>2. req' = [req EXCEPT ![r] = q]
    BY <1>1, Zenon DEF RegisterAsks
  <2>3. UNCHANGED <<ticket, income, settled, lock>>
    BY <1>1 DEF RegisterAsks, sale
  <2>4. Shape' /\ OthersKeep(r)
    BY <2>1, <2>2, <2>3 DEF Shape, OthersKeep
  <2>5. req'[r].op \notin TicketOps
    BY <2>1, <2>2 DEF Shape, TicketOps
  <2> QED BY <2>3, <2>4, <2>5, ElsewhereStep
<1>2. CASE RegisterOpenRead(r) \/ DepositRead(r) \/ WithdrawRead(r) \/ RegisterCloseRead(r)
  <2>1. CASE RegisterOpenRead(r)
    BY <1>1, <2>1 DEF RegisterOpenRead
  <2>2. CASE DepositRead(r)
    BY <1>1, <2>2 DEF DepositRead, OpenRegisters
  <2>3. CASE WithdrawRead(r)
    BY <1>1, <2>3 DEF WithdrawRead, OpenRegisters
  <2>4. CASE RegisterCloseRead(r)
    BY <1>1, <2>4 DEF RegisterCloseRead, OpenRegisters
  <2> QED BY <1>2, <2>1, <2>2, <2>3, <2>4
<1>3. CASE RegisterOpenWrite(r) \/ MovementWrite(r) \/ RegisterCloseWrite(r)
  <2>1. UNCHANGED <<ticket, income, settled, lock>> /\ Finish(r)
    BY <1>3 DEF RegisterOpenWrite, MovementWrite, RegisterCloseWrite, sale
  <2>2. Shape' /\ OthersKeep(r) /\ req'[r] = IdleReq
    BY <2>1, IdleIsReq DEF Shape, Finish, OthersKeep
  <2> QED BY <2>1, <2>2, ElsewhereStep DEF IdleReq, TicketOps
<1> QED BY <1>2, <1>3

-----------------------------------------------------------------------------
(* Steps on a ticket *)

\* Taking the lock of an open ticket, with what the handler found out under it.
LEMMA LockStep ==
    ASSUME IInv, NEW r \in Requests, NEW t \in Tickets, NEW op \in TicketOps,
           NEW id \in ItemIds \cup {NoItem}, NEW amount \in Nat,
           NEW k \in Registers \cup {NoRegister}, TicketLock(r, op, t, id, amount, k),
           op = "close" => ticket[t].paid >= Total(ticket[t]),
           op = "cancel" => ticket[t].paid = 0,
           op = "addItem" => id \in ItemIds \ TakenIds
    PROVE  IInv'
<1> USE DEF IInv
<1> DEFINE q == [IdleReq EXCEPT !.op = op, !.t = t, !.id = id, !.amount = amount,
                                !.register = k]
<1>1. op \in Ops
  BY DEF Ops
<1>2. q \in Reqs /\ q.op = op /\ q.t = t /\ q.id = id
  BY <1>1, ComandaAssumption DEF IdleReq, Reqs
<1>3. /\ req' = [req EXCEPT ![r] = q] /\ lock' = [lock EXCEPT ![t] = r]
      /\ lock[t] = NoRequest /\ ticket[t].status = "OPEN"
      /\ UNCHANGED <<ticket, income, settled>>
  BY DEF TicketLock, Take, LockFree, sale
<1>4. Shape'
  BY <1>2, <1>3 DEF Shape
<1>5. req'[r] = q /\ (\A p \in Requests \ {r} : req'[p] = req[p])
      /\ lock'[t] = r /\ (\A s \in Tickets \ {t} : lock'[s] = lock[s])
  BY <1>3 DEF Shape
<1>6. Locked'
  <2> SUFFICES ASSUME NEW p \in Requests, req'[p].op \in TicketOps
               PROVE  Holds(p)'
    BY DEF Locked
  <2>1. CASE p = r
    BY ZenonT(60), <2>1, <1>2, <1>3, <1>5 DEF Holds
  <2>2. CASE p # r
    <3>1. req'[p] = req[p] /\ Holds(p)
      BY <2>2, <1>5 DEF Locked
    <3>2. req[p].t # t
      BY <3>1, <1>3, ComandaAssumption DEF Holds
    <3> QED BY <3>1, <3>2, <1>3, <1>5 DEF Holds
  <2> QED BY <2>1, <2>2
<1>7. OwnItems' /\ ClosedIsSettled' /\ CanceledUnpaid'
  BY <1>3 DEF OwnItems, ItemsOf, ClosedIsSettled, CanceledUnpaid
<1>8. FreshIds'
  <2> SUFFICES ASSUME NEW p \in Requests, req'[p].op = "addItem"
               PROVE  Fresh(p)'
    BY DEF FreshIds
  <2>1. \A u \in Tickets : ItemsOf(u)' = ItemsOf(u)
    BY <1>3 DEF ItemsOf
  <2>2. op = "addItem" => /\ id \in ItemIds \ settled
                          /\ \A u \in Tickets : id \notin ItemsOf(u)
                          /\ \A u \in Requests : req[u].id # id
    BY DEF TakenIds, ItemsOf
  <2>3. CASE p = r
    <3>1. op = "addItem" /\ req'[p].id = id
      BY <2>3, <1>2, <1>5
    <3>2. \A u \in Requests \ {p} : req'[u].id # req'[p].id
      BY <3>1, <2>2, <2>3, <1>5
    <3>3. req'[p].id \in ItemIds \ settled' /\ \A u \in Tickets : req'[p].id \notin ItemsOf(u)'
      BY <3>1, <2>1, <2>2, <1>3
    <3> QED BY <3>2, <3>3 DEF Fresh
  <2>4. CASE p # r
    BY <2>1, <2>2, <2>4, <1>2, <1>3, <1>5 DEF Fresh, FreshIds
  <2> QED BY <2>3, <2>4
<1> QED BY <1>4, <1>6, <1>7, <1>8

\* Any of the requests that take the lock of a ticket.
LEMMA TicketLockStep ==
    ASSUME IInv, NEW r \in Requests, NEW t \in Tickets,
           \/ AddItemLock(r, t) \/ RemoveItemLock(r, t) \/ DiscountLock(r, t)
           \/ PaymentLock(r, t) \/ CloseLock(r, t) \/ CancelLock(r, t)
    PROVE  IInv'
<1> USE ComandaAssumption DEF TicketOps
<1>1. CASE AddItemLock(r, t)
  BY <1>1, LockStep DEF AddItemLock
<1>2. CASE RemoveItemLock(r, t)
  <2>1. \A i \in ticket[t].items : i.id \in ItemIds
    BY DEF IInv, Shape, Rows, Items
  <2> QED BY <1>2, <2>1, LockStep DEF RemoveItemLock
<1>3. CASE DiscountLock(r, t)
  BY <1>3, LockStep DEF DiscountLock
<1>4. CASE PaymentLock(r, t)
  <2>1. PICK amount \in Amounts, k \in Registers \cup {NoRegister} :
            TicketLock(r, "payment", t, NoItem, amount, k)
    BY <1>4 DEF PaymentLock, OpenRegisters
  <2> QED BY <2>1, LockStep
<1>5. CASE CloseLock(r, t)
  BY <1>5, LockStep DEF CloseLock
<1>6. CASE CancelLock(r, t)
  BY <1>6, LockStep DEF CancelLock
<1> QED BY <1>1, <1>2, <1>3, <1>4, <1>5, <1>6

\* What the write of request r may make of its ticket: an open row, or a cancelled one
\* without payments, with no items but those it had and the one addItem brings.
Admits(r, row) ==
    /\ row \in Rows
    /\ row.status = "OPEN" \/ (row.status = "CANCELED" /\ row.paid = 0)
    /\ \A i \in row.items :
           i.id \in ItemsOf(req[r].t) \/ (req[r].op = "addItem" /\ i.id = req[r].id)

LEMMA WriteStep ==
    ASSUME IInv, NEW r \in Requests, req[r].op \in TicketOps, NEW row, Admits(r, row),
           Writes(r, row)
    PROVE  IInv'
<1> USE DEF IInv
<1>1. PICK t \in Tickets : t = req[r].t /\ lock[t] = r /\ ticket[t].status = "OPEN"
  BY DEF Locked, Holds
<1>2. /\ ticket' = [ticket EXCEPT ![t] = row] /\ UNCHANGED <<income, settled>>
      /\ Finish(r) /\ Release(r)
  BY <1>1 DEF Writes
<1>3. OthersKeep(r) /\ Shape' /\ req'[r] = IdleReq
  BY <1>1, <1>2, ReleaseKeeps DEF Shape, Admits
<1>4. ticket'[t] = row /\ \A s \in Tickets \ {t} : ticket'[s] = ticket[s]
  BY <1>1, <1>2 DEF Shape
<1>5. ItemsOf(t)' \subseteq ItemsOf(t) \cup (IF req[r].op = "addItem" THEN {req[r].id} ELSE {})
  BY <1>1, <1>4 DEF ItemsOf, Admits
<1>6. \A s \in Tickets \ {t} : ItemsOf(s)' = ItemsOf(s)
  BY <1>4 DEF ItemsOf
<1>7. req[r].op = "addItem" => Fresh(r)
  BY DEF FreshIds
<1>8. \A q \in Requests : req'[q].op # "idle" => q # r /\ req'[q] = req[q]
  BY <1>3 DEF OthersKeep, IdleReq
<1>9. Locked'
  <2> SUFFICES ASSUME NEW q \in Requests, req'[q].op \in TicketOps
               PROVE  Holds(q)'
    BY DEF Locked
  <2>1. q # r /\ req'[q] = req[q] /\ Holds(q)
    BY <1>8 DEF Locked, TicketOps
  <2>2. req[q].t # t
    BY <2>1, <1>1 DEF Holds
  <2> QED BY <2>1, <2>2, <1>3, <1>4 DEF Holds, OthersKeep
<1>10. OwnItems'
  BY <1>1, <1>5, <1>6, <1>7 DEF OwnItems, Fresh
<1>11. FreshIds'
  <2> SUFFICES ASSUME NEW q \in Requests, req'[q].op = "addItem"
               PROVE  Fresh(q)'
    BY DEF FreshIds
  <2>1. q # r /\ req'[q] = req[q] /\ Fresh(q)
    BY <1>8 DEF FreshIds
  <2>2. \A p \in Requests : req'[p].op = "addItem" => p # r /\ req'[p] = req[p]
    BY <1>8
  <2>3. req[r].op = "addItem" => req[r].id # req[q].id
    BY <2>1 DEF Fresh
  <2> QED BY <2>1, <2>2, <2>3, <1>2, <1>5, <1>6 DEF Fresh
<1>12. ClosedIsSettled'
  <2> SUFFICES ASSUME NEW s \in Tickets
               PROVE  IF ticket'[s].status = "CLOSED"
                        THEN /\ income'[s] = {Total(ticket'[s])}
                             /\ ticket'[s].paid >= Total(ticket'[s])
                             /\ ItemsOf(s)' \subseteq settled'
                        ELSE income'[s] = {} /\ ItemsOf(s)' \cap settled' = {}
    BY DEF ClosedIsSettled, ItemsOf
  <2>1. CASE s = t
    <3>1. income[t] = {} /\ ItemsOf(t) \cap settled = {}
      BY <1>1 DEF ClosedIsSettled, ItemsOf
    <3>2. ticket'[t].status # "CLOSED"
      BY <1>4 DEF Admits
    <3>3. ItemsOf(t)' \cap settled = {}
      BY <3>1, <1>5, <1>7 DEF Fresh
    <3> QED BY <2>1, <3>1, <3>2, <3>3, <1>2
  <2>2. CASE s # t
    BY <2>2, <1>2, <1>4, <1>6 DEF ClosedIsSettled, ItemsOf
  <2> QED BY <2>1, <2>2
<1>13. CanceledUnpaid'
  BY <1>4 DEF CanceledUnpaid, Admits
<1> QED BY <1>3, <1>9, <1>10, <1>11, <1>12, <1>13

\* Any of the writes that leave stock and finance alone.
LEMMA TicketWriteStep ==
    ASSUME IInv, NEW r \in Requests,
           \/ AddItemWrite(r) \/ RemoveItemWrite(r) \/ DiscountWrite(r)
           \/ PaymentWrite(r) \/ CancelWrite(r)
    PROVE  IInv'
<1> USE DEF IInv
<1>1. req[r].op \in TicketOps
  BY DEF AddItemWrite, RemoveItemWrite, DiscountWrite, PaymentWrite, CancelWrite, TicketOps
<1>2. /\ req[r].t \in Tickets /\ Now(r) \in Rows /\ Now(r).status = "OPEN"
      /\ req[r].amount \in Nat /\ Holds(r)
  BY <1>1 DEF Locked, Holds, Now, Shape, Reqs
<1>3. \A i \in Now(r).items : i.id \in ItemsOf(req[r].t)
  BY DEF Now, ItemsOf
<1>4. CASE AddItemWrite(r)
  <2>1. PICK value \in Prices, pro \in Pros \cup {NoPro} :
            Writes(r, [Now(r) EXCEPT !.items =
                         @ \cup {[id |-> req[r].id, value |-> value, pro |-> pro]}])
    BY <1>4 DEF AddItemWrite
  <2> DEFINE i == [id |-> req[r].id, value |-> value, pro |-> pro]
             row == [Now(r) EXCEPT !.items = @ \cup {i}]
  <2>2. req[r].op = "addItem" /\ i \in Items /\ i.id = req[r].id
    BY <1>4 DEF AddItemWrite, FreshIds, Fresh, Items
  <2>3. row \in Rows /\ row.status = "OPEN" /\ row.items = Now(r).items \cup {i}
    BY <1>2, <2>2 DEF Rows
  <2>4. Admits(r, row)
    BY <1>3, <2>2, <2>3 DEF Admits
  <2> QED BY <1>1, <2>1, <2>4, WriteStep
<1>5. CASE RemoveItemWrite(r)
  <2> DEFINE row == [Now(r) EXCEPT !.items = {i \in @ : i.id # req[r].id}]
  <2>1. row \in Rows /\ row.status = "OPEN" /\ row.items \subseteq Now(r).items
    BY <1>2 DEF Rows
  <2>2. Admits(r, row)
    BY <1>3, <2>1 DEF Admits
  <2> QED BY <1>1, <1>5, <2>2, WriteStep DEF RemoveItemWrite
<1>6. CASE DiscountWrite(r)
  <2> DEFINE row == [Now(r) EXCEPT !.discount = req[r].amount]
  <2>1. row \in Rows /\ row.status = "OPEN" /\ row.items = Now(r).items
    BY <1>2 DEF Rows
  <2>2. Admits(r, row)
    BY <1>3, <2>1 DEF Admits
  <2> QED BY <1>1, <1>6, <2>2, WriteStep DEF DiscountWrite
<1>7. CASE PaymentWrite(r)
  <2> DEFINE row == [Now(r) EXCEPT !.paid = @ + req[r].amount]
  <2>1. row \in Rows /\ row.status = "OPEN" /\ row.items = Now(r).items
    BY <1>2 DEF Rows
  <2>2. Admits(r, row)
    BY <1>3, <2>1 DEF Admits
  <2> QED BY <1>1, <1>7, <2>2, WriteStep DEF PaymentWrite
<1>8. CASE CancelWrite(r)
  <2> DEFINE row == [Now(r) EXCEPT !.status = "CANCELED"]
  <2>1. row \in Rows /\ row.status = "CANCELED" /\ row.items = Now(r).items
        /\ row.paid = Now(r).paid
    BY <1>2 DEF Rows, Statuses
  <2>2. Now(r).paid = 0
    BY <1>2, <1>8 DEF CancelWrite, Holds, Now
  <2>3. Admits(r, row)
    BY <1>3, <2>1, <2>2 DEF Admits
  <2> QED BY <1>1, <1>8, <2>3, WriteStep DEF CancelWrite
<1> QED BY <1>4, <1>5, <1>6, <1>7, <1>8

\* Closing a ticket settles its items, and no other ticket has any of them.
LEMMA CloseStep ==
    ASSUME IInv, NEW r \in Requests, CloseWrite(r)
    PROVE  IInv'
<1> USE DEF IInv
<1>1. PICK t \in Tickets : /\ t = req[r].t /\ lock[t] = r /\ ticket[t].status = "OPEN"
                          /\ ticket[t].paid >= Total(ticket[t])
  BY DEF Locked, Holds, CloseWrite, TicketOps
<1>2. income[t] = {} /\ ItemsOf(t) \cap settled = {}
  BY <1>1 DEF ClosedIsSettled, ItemsOf
<1> DEFINE row == [ticket[t] EXCEPT !.status = "CLOSED"]
<1>3. /\ ticket' = [ticket EXCEPT ![t] = row]
      /\ settled' = settled \cup ItemsOf(t)
      /\ income' = [income EXCEPT ![t] = {Total(ticket[t])}]
      /\ Finish(r) /\ Release(r)
  BY <1>1, <1>2 DEF CloseWrite, ItemsOf, Shape
<1>4. /\ row \in Rows /\ row.status = "CLOSED" /\ row.items = ticket[t].items
      /\ row.discount = ticket[t].discount /\ row.paid = ticket[t].paid
  BY <1>1 DEF Shape, Rows, Statuses
<1>5. Total(row) = Total(ticket[t])
  BY <1>4 DEF Total, Subtotal
<1>6. OthersKeep(r) /\ req'[r] = IdleReq /\ Shape'
  <2>1. income' \in [Tickets -> SUBSET {Total(x) : x \in Rows}]
    BY <1>1, <1>3 DEF Shape
  <2> QED BY <1>1, <1>3, <1>4, <2>1, ReleaseKeeps DEF Shape
<1>7. /\ ticket'[t] = row /\ \A s \in Tickets \ {t} : ticket'[s] = ticket[s]
      /\ income'[t] = {Total(row)} /\ \A s \in Tickets \ {t} : income'[s] = income[s]
  BY <1>3, <1>5 DEF Shape
<1>8. \A s \in Tickets : ItemsOf(s)' = ItemsOf(s)
  BY <1>4, <1>7 DEF ItemsOf
<1>9. \A q \in Requests : req'[q].op # "idle" => q # r /\ req'[q] = req[q]
  BY <1>6 DEF OthersKeep, IdleReq
<1>10. Locked'
  <2> SUFFICES ASSUME NEW q \in Requests, req'[q].op \in TicketOps
               PROVE  Holds(q)'
    BY DEF Locked
  <2>1. q # r /\ req'[q] = req[q] /\ Holds(q)
    BY <1>9 DEF Locked, TicketOps
  <2>2. req[q].t # t
    BY <2>1, <1>1 DEF Holds
  <2> QED BY <2>1, <2>2, <1>6, <1>7 DEF Holds, OthersKeep
<1>11. OwnItems'
  BY <1>8 DEF OwnItems
<1>12. FreshIds'
  <2> SUFFICES ASSUME NEW q \in Requests, req'[q].op = "addItem"
               PROVE  Fresh(q)'
    BY DEF FreshIds
  <2>1. q # r /\ req'[q] = req[q] /\ Fresh(q)
    BY <1>9 DEF FreshIds
  <2>2. \A p \in Requests : req'[p].op = "addItem" => p # r /\ req'[p] = req[p]
    BY <1>9
  <2> QED BY <2>1, <2>2, <1>3, <1>8 DEF Fresh
<1>13. ClosedIsSettled'
  <2> SUFFICES ASSUME NEW s \in Tickets
               PROVE  IF ticket'[s].status = "CLOSED"
                        THEN /\ income'[s] = {Total(ticket'[s])}
                             /\ ticket'[s].paid >= Total(ticket'[s])
                             /\ ItemsOf(s)' \subseteq settled'
                        ELSE income'[s] = {} /\ ItemsOf(s)' \cap settled' = {}
    BY DEF ClosedIsSettled, ItemsOf
  <2>1. CASE s = t
    <3>1. income'[t] = {Total(ticket'[t])} /\ ticket'[t].status = "CLOSED"
      BY <1>4, <1>7
    <3>2. ticket'[t].paid >= Total(ticket'[t])
      BY <1>1, <1>4, <1>5, <1>7
    <3>3. ItemsOf(t)' \subseteq settled'
      BY <1>3, <1>8
    <3> QED BY <2>1, <3>1, <3>2, <3>3
  <2>2. CASE s # t
    <3>1. ItemsOf(s) \cap ItemsOf(t) = {}
      BY <2>2 DEF OwnItems
    <3> QED BY ZenonT(60), <2>2, <3>1, <1>3, <1>7, <1>8 DEF ClosedIsSettled, ItemsOf
  <2> QED BY <2>1, <2>2
<1>14. CanceledUnpaid'
  BY ZenonT(60), <1>4, <1>7 DEF CanceledUnpaid
<1> QED BY <1>6, <1>10, <1>11, <1>12, <1>13, <1>14

\* A ticket is opened with nothing, or with one item nobody has.
LEMMA OpenStep ==
    ASSUME IInv, NEW t \in Tickets, Open(t)
    PROVE  IInv'
<1> USE DEF IInv
<1>1. PICK items \in {{}} \cup {{i} : i \in {x \in Items : x.id \notin TakenIds /\ x.pro # NoPro}} :
          ticket' = [ticket EXCEPT ![t] = [NoRow EXCEPT !.status = "OPEN", !.items = items]]
  BY DEF Open
<1> DEFINE row == [NoRow EXCEPT !.status = "OPEN", !.items = items]
<1>2. /\ ticket[t].status = "NONE"
      /\ UNCHANGED <<income, settled, lock, req>>
  BY DEF Open
<1>3. items \subseteq Items /\ \A i \in items : i.id \notin TakenIds
  BY <1>1
<1>4. row \in Rows /\ row.status = "OPEN" /\ row.items = items
  BY <1>3 DEF NoRow, Rows, Statuses
<1>5. ticket'[t] = row /\ \A s \in Tickets \ {t} : ticket'[s] = ticket[s]
  BY <1>1 DEF Shape
<1>6. Shape'
  BY <1>1, <1>2, <1>4 DEF Shape
<1>7. /\ \A s \in Tickets \ {t} : ItemsOf(s)' = ItemsOf(s)
      /\ ItemsOf(t)' = {i.id : i \in items}
  BY <1>4, <1>5 DEF ItemsOf
<1>8. \A x \in ItemsOf(t)' : /\ x \notin settled
                             /\ \A s \in Tickets : x \notin ItemsOf(s)
                             /\ \A q \in Requests : x # req[q].id
  BY <1>3, <1>7 DEF TakenIds, ItemsOf
<1>9. Locked'
  BY <1>2, <1>5 DEF Locked, Holds
<1>10. OwnItems'
  BY <1>7, <1>8 DEF OwnItems
<1>11. FreshIds'
  BY <1>2, <1>7, <1>8 DEF FreshIds, Fresh
<1>12. ClosedIsSettled'
  <2> SUFFICES ASSUME NEW s \in Tickets
               PROVE  IF ticket'[s].status = "CLOSED"
                        THEN /\ income'[s] = {Total(ticket'[s])}
                             /\ ticket'[s].paid >= Total(ticket'[s])
                             /\ ItemsOf(s)' \subseteq settled'
                        ELSE income'[s] = {} /\ ItemsOf(s)' \cap settled' = {}
    BY DEF ClosedIsSettled, ItemsOf
  <2>1. CASE s = t
    <3>1. income'[t] = {} /\ ticket'[t].status # "CLOSED"
      BY <1>2, <1>4, <1>5 DEF ClosedIsSettled
    <3>2. ItemsOf(t)' \cap settled' = {}
      BY <1>2, <1>8
    <3> QED BY <2>1, <3>1, <3>2
  <2>2. CASE s # t
    BY <2>2, <1>2, <1>5, <1>7 DEF ClosedIsSettled, ItemsOf
  <2> QED BY <2>1, <2>2
<1>13. CanceledUnpaid'
  BY <1>4, <1>5 DEF CanceledUnpaid
<1> QED BY <1>6, <1>9, <1>10, <1>11, <1>12, <1>13

-----------------------------------------------------------------------------
(* Sums over finite sets.  The library states induction with an operator as    *)
(* parameter; SmallestSet says the same of sets.                               *)

\* The smallest set with which something is wrong.
LEMMA SmallestSet ==
    ASSUME NEW S, IsFiniteSet(S), NEW B \in SUBSET SUBSET S, B # {}
    PROVE  \E s \in B : \A u \in B : u \subseteq s => u = s
<1>1. B \subseteq FiniteSubsetsOf(S)
  BY FS_Subset DEF FiniteSubsetsOf
<1>2. PICK s \in B : \A u \in B : <<u, s>> \notin StrictSubsetOrdering(S)
  BY <1>1, FS_StrictSubsetOrderingWellFounded, WFMin, Zenon
<1> QED BY <1>2 DEF StrictSubsetOrdering

Pick(s) == CHOOSE x \in s : TRUE

\* g sums w over the subsets of S, as MapThenSumSet does.
Sums(w, S, g) ==
    g = [s \in SUBSET S |-> IF s = {} THEN 0 ELSE w[Pick(s)] + g[s \ {Pick(s)}]]

Sum(w, S) == (CHOOSE g : Sums(w, S, g))[S]

LEMMA PickIsIn == ASSUME NEW s, s # {} PROVE Pick(s) \in s
BY DEF Pick

LEMMA SumsAt ==
    ASSUME NEW w, NEW S, NEW g, Sums(w, S, g), NEW s \in SUBSET S
    PROVE  g[s] = IF s = {} THEN 0 ELSE w[Pick(s)] + g[s \ {Pick(s)}]
BY DEF Sums

\* The sum of a set is the same within any set, and there is one.
LEMMA SumsAgree ==
    ASSUME NEW w, NEW S, NEW g, Sums(w, S, g), NEW T, NEW h, Sums(w, T, h),
           NEW u, u \subseteq S, u \subseteq T, IsFiniteSet(u)
    PROVE  g[u] = h[u]
<1> DEFINE B == {s \in SUBSET u : g[s] # h[s]}
<1>1. SUFFICES ASSUME B # {} PROVE FALSE
  OBVIOUS
<1>2. PICK s \in B : \A v \in B : v \subseteq s => v = s
  <2>1. B \in SUBSET SUBSET u
    OBVIOUS
  <2> HIDE DEF B
  <2> QED BY <1>1, <2>1, SmallestSet
<1>3. s \subseteq S /\ s \subseteq T
  OBVIOUS
<1>4. s # {}
  BY <1>2, <1>3, SumsAt
<1>5. g[s \ {Pick(s)}] = h[s \ {Pick(s)}]
  BY <1>2, <1>4, PickIsIn
<1> QED BY <1>2, <1>3, <1>4, <1>5, SumsAt

LEMMA SumsExist ==
    ASSUME NEW w, NEW S, IsFiniteSet(S)
    PROVE  \E g : Sums(w, S, g)
<1> DEFINE B == {s \in SUBSET S : ~ \E g : Sums(w, s, g)}
<1>1. SUFFICES ASSUME B # {} PROVE FALSE
  OBVIOUS
<1>2. PICK s \in B : \A v \in B : v \subseteq s => v = s
  <2>1. B \in SUBSET SUBSET S
    OBVIOUS
  <2> HIDE DEF B
  <2> QED BY <1>1, <2>1, SmallestSet
<1>3. \A v \in SUBSET s : v # s => Sums(w, v, CHOOSE g : Sums(w, v, g))
  BY <1>2
<1> DEFINE Next1(v) == IF v = {} THEN 0 ELSE w[Pick(v)] + Sum(w, v \ {Pick(v)})
           g == [v \in SUBSET s |-> Next1(v)]
<1>4. ASSUME NEW v \in SUBSET s, v # s
      PROVE  Sum(w, v) = Next1(v)
  <2> DEFINE h == CHOOSE f : Sums(w, v, f)
  <2>1. Sums(w, v, h) /\ Sum(w, v) = h[v]
    BY <1>3, <1>4 DEF Sum
  <2>2. CASE v = {}
    BY <2>1, <2>2, SumsAt
  <2>3. CASE v # {}
    <3> DEFINE u == v \ {Pick(v)}
               k == CHOOSE f : Sums(w, u, f)
    <3>1. u \in SUBSET s /\ u # s /\ u \subseteq v /\ IsFiniteSet(u)
      BY <2>3, PickIsIn, FS_Subset
    <3>2. Sums(w, u, k) /\ Sum(w, u) = k[u]
      BY <1>3, <3>1 DEF Sum
    <3>3. h[u] = k[u]
      BY <2>1, <3>1, <3>2, SumsAgree
    <3> QED BY <2>1, <2>3, <3>2, <3>3, SumsAt
  <2> QED BY <2>2, <2>3
<1>5. Sums(w, s, g)
  <2> SUFFICES ASSUME NEW v \in SUBSET s, v # {}
               PROVE  Next1(v) = w[Pick(v)] + g[v \ {Pick(v)}]
    BY DEF Sums
  <2>1. v \ {Pick(v)} \in SUBSET s /\ v \ {Pick(v)} # s
    BY PickIsIn
  <2> HIDE DEF Next1
  <2>2. g[v \ {Pick(v)}] = Sum(w, v \ {Pick(v)})
    BY <2>1, <1>4
  <2> QED BY <2>2 DEF Next1
<1> QED BY <1>2, <1>5

\* The sum of nothing, and how one element is added to a sum.
LEMMA SumOne ==
    ASSUME NEW w, NEW S, IsFiniteSet(S)
    PROVE  Sum(w, S) = IF S = {} THEN 0 ELSE w[Pick(S)] + Sum(w, S \ {Pick(S)})
<1> DEFINE h == CHOOSE f : Sums(w, S, f)
           u == S \ {Pick(S)}
           k == CHOOSE f : Sums(w, u, f)
<1>1. IsFiniteSet(u) /\ u \subseteq S
  BY FS_Subset
<1>2. Sums(w, S, h) /\ Sums(w, u, k) /\ Sum(w, S) = h[S] /\ Sum(w, u) = k[u]
  BY <1>1, SumsExist DEF Sum
<1>3. h[u] = k[u]
  BY <1>1, <1>2, SumsAgree
<1> QED BY <1>2, <1>3, SumsAt

LEMMA SumOfNone == \A w : Sum(w, {}) = 0
BY SumOne, FS_EmptySet

\* Whatever satisfies the equation of a fold has its sum.
LEMMA SumIs ==
    ASSUME NEW w, NEW S, IsFiniteSet(S), NEW g, Sums(w, S, g)
    PROVE  g[S] = Sum(w, S)
BY SumsExist, SumsAgree DEF Sum

\* Amounts add up to an amount, two disjoint sets to the sum of both, and less to less.
LEMMA SumIsNat ==
    ASSUME NEW w, NEW S, IsFiniteSet(S), \A x \in S : w[x] \in Nat
    PROVE  Sum(w, S) \in Nat
<1> DEFINE B == {s \in SUBSET S : Sum(w, s) \notin Nat}
<1>1. SUFFICES ASSUME B # {} PROVE FALSE
  OBVIOUS
<1>2. PICK s \in B : \A v \in B : v \subseteq s => v = s
  <2>1. B \in SUBSET SUBSET S
    OBVIOUS
  <2> HIDE DEF B
  <2> QED BY <1>1, <2>1, SmallestSet
<1>3. IsFiniteSet(s) /\ s \subseteq S
  BY FS_Subset
<1>4. s # {}
  <2>1. Sum(w, s) \notin Nat
    BY <1>2
  <2>2. s = {} => Sum(w, s) = 0
    BY SumOfNone
  <2> QED BY <2>1, <2>2
<1>5. Sum(w, s \ {Pick(s)}) \in Nat /\ w[Pick(s)] \in Nat
  BY <1>2, <1>3, <1>4, PickIsIn
<1> QED BY <1>2, <1>3, <1>4, <1>5, SumOne

\* The order in which a fold picks the elements does not matter.
LEMMA SumAnyFirst ==
    ASSUME NEW w, NEW S, IsFiniteSet(S), \A x \in S : w[x] \in Nat, NEW y \in S
    PROVE  Sum(w, S) = w[y] + Sum(w, S \ {y})
<1> DEFINE Split(s) == \A x \in s : Sum(w, s) = w[x] + Sum(w, s \ {x})
           B == {s \in SUBSET S : ~Split(s)}
<1>1. SUFFICES ASSUME B # {} PROVE FALSE
  OBVIOUS
<1>2. PICK s \in B : \A v \in B : v \subseteq s => v = s
  <2>1. B \in SUBSET SUBSET S
    OBVIOUS
  <2> HIDE DEF B
  <2> QED BY <1>1, <2>1, SmallestSet
<1>3. PICK x \in s : Sum(w, s) # w[x] + Sum(w, s \ {x})
  BY <1>2
<1> DEFINE p == Pick(s)
           u == (s \ {p}) \ {x}
<1>4. IsFiniteSet(s) /\ s \subseteq S /\ p \in s /\ IsFiniteSet(s \ {p}) /\ IsFiniteSet(s \ {x})
  BY <1>3, FS_Subset, PickIsIn
<1>5. Sum(w, s) = w[p] + Sum(w, s \ {p})
  BY <1>3, <1>4, SumOne
<1>6. x # p
  BY <1>3, <1>5
<1>7. Split(s \ {p}) /\ Split(s \ {x})
  BY <1>2, <1>3, <1>4
<1>8. /\ Sum(w, s \ {p}) = w[x] + Sum(w, u)
      /\ Sum(w, s \ {x}) = w[p] + Sum(w, (s \ {x}) \ {p})
      /\ (s \ {x}) \ {p} = u
  BY <1>3, <1>4, <1>6, <1>7
<1>9. Sum(w, u) \in Nat /\ w[x] \in Nat /\ w[p] \in Nat
  BY <1>3, <1>4, FS_Subset, SumIsNat
<1>10. w[p] + (w[x] + Sum(w, u)) = w[x] + (w[p] + Sum(w, u))
  BY <1>9
<1> QED BY <1>3, <1>5, <1>8, <1>10, Zenon

LEMMA SumOfUnion ==
    ASSUME NEW w, NEW S, IsFiniteSet(S), NEW T, IsFiniteSet(T), S \cap T = {},
           \A x \in S \cup T : w[x] \in Nat
    PROVE  Sum(w, S \cup T) = Sum(w, S) + Sum(w, T)
<1> DEFINE B == {s \in SUBSET S : Sum(w, s \cup T) # Sum(w, s) + Sum(w, T)}
<1>1. SUFFICES ASSUME B # {} PROVE FALSE
  OBVIOUS
<1>2. PICK s \in B : \A v \in B : v \subseteq s => v = s
  <2>1. B \in SUBSET SUBSET S
    OBVIOUS
  <2> HIDE DEF B
  <2> QED BY <1>1, <2>1, SmallestSet
<1>3. IsFiniteSet(s) /\ s \subseteq S /\ IsFiniteSet(s \cup T)
  BY FS_Subset, FS_Union
<1>4. Sum(w, T) \in Nat
  BY SumIsNat
<1>5. s # {}
  <2>1. Sum(w, s \cup T) # Sum(w, s) + Sum(w, T)
    BY <1>2
  <2>2. s = {} => Sum(w, s) = 0 /\ Sum(w, s \cup T) = Sum(w, T)
    <3>1. {} \cup T = T
      OBVIOUS
    <3> QED BY <3>1, SumOfNone
  <2> QED BY <2>1, <2>2, <1>4
<1> DEFINE p == Pick(s)
           u == s \ {p}
<1>6. p \in s /\ p \notin T /\ (s \cup T) \ {p} = u \cup T /\ IsFiniteSet(u) /\ u \subseteq S
  BY <1>3, <1>5, PickIsIn, FS_Subset
<1>7. Sum(w, u \cup T) = Sum(w, u) + Sum(w, T)
  BY <1>2, <1>6
<1>8. Sum(w, s) = w[p] + Sum(w, u)
  BY <1>3, <1>5, SumOne
<1>9. Sum(w, s \cup T) = w[p] + Sum(w, u \cup T)
  BY <1>3, <1>6, SumAnyFirst
<1>10. w[p] \in Nat /\ Sum(w, u) \in Nat
  BY <1>3, <1>6, SumIsNat
<1> QED BY <1>2, <1>4, <1>7, <1>8, <1>9, <1>10

LEMMA SumOfLess ==
    ASSUME NEW v, NEW w, NEW S, IsFiniteSet(S),
           \A x \in S : v[x] \in Nat /\ w[x] \in Nat /\ v[x] <= w[x]
    PROVE  Sum(v, S) <= Sum(w, S)
<1> DEFINE B == {s \in SUBSET S : ~(Sum(v, s) <= Sum(w, s))}
<1>1. SUFFICES ASSUME B # {} PROVE FALSE
  OBVIOUS
<1>2. PICK s \in B : \A u \in B : u \subseteq s => u = s
  <2>1. B \in SUBSET SUBSET S
    OBVIOUS
  <2> HIDE DEF B
  <2> QED BY <1>1, <2>1, SmallestSet
<1>3. IsFiniteSet(s) /\ s \subseteq S
  BY FS_Subset
<1>4. s # {}
  <2>1. ~(Sum(v, s) <= Sum(w, s))
    BY <1>2
  <2>2. s = {} => Sum(v, s) = 0 /\ Sum(w, s) = 0
    BY SumOfNone
  <2> QED BY <2>1, <2>2
<1> DEFINE p == Pick(s)
           u == s \ {p}
<1>5. p \in s /\ IsFiniteSet(u) /\ u \subseteq S
  BY <1>3, <1>4, PickIsIn, FS_Subset
<1>6. Sum(v, u) <= Sum(w, u)
  BY <1>2, <1>5
<1>7. Sum(v, s) = v[p] + Sum(v, u) /\ Sum(w, s) = w[p] + Sum(w, u)
  BY <1>3, <1>4, SumOne
<1>8. {v[p], w[p], Sum(v, u), Sum(w, u)} \subseteq Nat /\ v[p] <= w[p]
  BY <1>3, <1>5, SumIsNat
<1> QED BY <1>2, <1>6, <1>7, <1>8

-----------------------------------------------------------------------------
(* The two sums of the till *)

Value == [i \in Items |-> i.value]
Share == [i \in Items |-> Commission(i)]

\* The prices of a set of items.
LEMMA ValuesSum ==
    ASSUME NEW S \in SUBSET Items, IsFiniteSet(S)
    PROVE  MapThenSumSet(LAMBDA i : i.value, S) = Sum(Value, S)
<1> DEFINE iter == CHOOSE g : g = [s \in SUBSET S |->
                       IF s = {} THEN 0 ELSE (CHOOSE x \in s : TRUE).value
                                             + g[s \ {CHOOSE x \in s : TRUE}]]
<1>1. MapThenSumSet(LAMBDA i : i.value, S) = iter[S]
  BY DEF MapThenSumSet, MapThenFoldSet
<1>2. PICK h : Sums(Value, S, h)
  BY SumsExist
<1>3. h = [s \in SUBSET S |-> IF s = {} THEN 0 ELSE (CHOOSE x \in s : TRUE).value
                                             + h[s \ {CHOOSE x \in s : TRUE}]]
  BY <1>2, PickIsIn DEF Sums, Value, Pick
<1>4. iter = [s \in SUBSET S |-> IF s = {} THEN 0 ELSE (CHOOSE x \in s : TRUE).value
                                             + iter[s \ {CHOOSE x \in s : TRUE}]]
  BY <1>3
<1>5. Sums(Value, S, iter)
  BY <1>4, PickIsIn DEF Sums, Value, Pick
<1> QED BY <1>1, <1>5, SumIs

\* The commissions of a set of items.
LEMMA SharesSum ==
    ASSUME NEW S \in SUBSET Items, IsFiniteSet(S)
    PROVE  MapThenSumSet(Commission, S) = Sum(Share, S)
<1> DEFINE iter == CHOOSE g : g = [s \in SUBSET S |->
                       IF s = {} THEN 0 ELSE Commission(CHOOSE x \in s : TRUE)
                                             + g[s \ {CHOOSE x \in s : TRUE}]]
<1>1. MapThenSumSet(Commission, S) = iter[S]
  BY DEF MapThenSumSet, MapThenFoldSet
<1>2. PICK h : Sums(Share, S, h)
  BY SumsExist
<1>3. h = [s \in SUBSET S |-> IF s = {} THEN 0 ELSE Commission(CHOOSE x \in s : TRUE)
                                             + h[s \ {CHOOSE x \in s : TRUE}]]
  BY <1>2, PickIsIn DEF Sums, Share, Pick
<1>4. iter = [s \in SUBSET S |-> IF s = {} THEN 0 ELSE Commission(CHOOSE x \in s : TRUE)
                                             + iter[s \ {CHOOSE x \in s : TRUE}]]
  BY <1>3
<1>5. Sums(Share, S, iter)
  BY <1>4, PickIsIn DEF Sums, Share, Pick
<1> QED BY <1>1, <1>5, SumIs

-----------------------------------------------------------------------------
(* What is paid: the second inductive invariant *)

SoldBy(p, items) == {i \in items : i.pro = p}
Sold(p) == UNION {SoldBy(p, ticket[t].items) : t \in {x \in Tickets : ticket[x].status = "CLOSED"}}

\* Tickets and what was sold have finitely many items, so that they have a total.
Counted ==
    /\ \A t \in Tickets : IsFiniteSet(ticket[t].items)
    /\ \A p \in Pros : IsFiniteSet(Sold(p))

Sessions == [status : {"NONE", "OPEN", "CLOSED"}, cash : Nat, moved : Int]
MoneyTyped ==
    /\ accrued \in [Pros -> Nat] /\ paidOut \in [Pros -> Nat]
    /\ usedKeys \subseteq Keys /\ settled \subseteq ItemIds /\ shrunk \subseteq Tickets
    /\ register \in [Registers -> Sessions]

\* A payment that was checked under the lock of its ticket still fits in its total.
Fits(r) ==
    LET t == req[r].t IN
    req[r].op = "payment" => ticket[t].paid + req[r].amount <= Total(ticket[t])

\* A payout holds the lock of its payee, and what it found to be owed is owed still.
Owed(r) ==
    LET p == req[r].pro IN
    req[r].op = "payout" =>
        p \in Pros /\ lock[p] = r /\ paidOut[p] + req[r].amount <= accrued[p]

\* Nobody got more than was accrued, and no more was accrued than was sold.
Earned == \A p \in Pros : paidOut[p] <= accrued[p] /\ accrued[p] <= Sum(Value, Sold(p))

MoneyInv ==
    /\ Counted /\ MoneyTyped /\ (\A r \in Requests : Fits(r) /\ Owed(r)) /\ Earned
    /\ OverpaidOnlyIfShrunk

\* An item costs an amount, and earns its professional no more than that (computeForTicket).
LEMMA ItemsAreNat ==
    \A i \in Items : /\ Value[i] \in Nat /\ Value[i] = i.value
                     /\ Share[i] \in Nat /\ Share[i] = Commission(i) /\ Share[i] <= Value[i]
<1> SUFFICES ASSUME NEW i \in Items
             PROVE  /\ Value[i] \in Nat /\ Value[i] = i.value
                    /\ Share[i] \in Nat /\ Share[i] = Commission(i) /\ Share[i] <= Value[i]
  OBVIOUS
<1>1. Value[i] = i.value /\ Share[i] = Commission(i)
  BY DEF Value, Share
<1>2. i.value \in Nat /\ Rate \in Nat
  BY ComandaAssumption DEF Items
<1> QED BY <1>1, <1>2 DEF Commission

\* What a ticket costs is an amount, whatever the discount (totalCents).
LEMMA TotalIsNat ==
    ASSUME NEW row \in Rows, IsFiniteSet(row.items)
    PROVE  Total(row) \in Nat
<1>1. row.items \in SUBSET Items /\ row.discount \in Nat
  BY DEF Rows
<1>2. Subtotal(row) = Sum(Value, row.items)
  BY <1>1, ValuesSum DEF Subtotal
<1>3. Sum(Value, row.items) \in Nat
  BY <1>1, ItemsAreNat, SumIsNat
<1> QED BY <1>1, <1>2, <1>3 DEF Total

LEMMA MoneyInit == Init => MoneyInv
<1> SUFFICES ASSUME Init PROVE MoneyInv
  OBVIOUS
<1> USE ComandaAssumption
<1>1. \A p \in Pros : Sold(p) = {}
  BY DEF Init, Sold, NoRow
<1>2. IsFiniteSet({}) /\ Sum(Value, {}) = 0
  BY FS_EmptySet, SumOfNone
<1>3. Counted
  BY <1>1, <1>2 DEF Counted, Init, NoRow
<1>4. MoneyTyped
  BY DEF MoneyTyped, Init, NoSession, Sessions
<1>5. \A r \in Requests : Fits(r) /\ Owed(r)
  BY DEF Fits, Owed, Init, IdleReq
<1>6. Earned
  BY <1>1, <1>2 DEF Earned, Init
<1>7. NoRow \in Rows /\ IsFiniteSet(NoRow.items) /\ NoRow.paid = 0
  BY <1>2 DEF NoRow, Rows, Statuses
<1>8. OverpaidOnlyIfShrunk
  BY <1>7, TotalIsNat DEF OverpaidOnlyIfShrunk, Init
<1> QED BY <1>3, <1>4, <1>5, <1>6, <1>8 DEF MoneyInv

\* No request but r moves, and every lock another one holds stays with it.
OthersStay(r) ==
    \A q \in Requests \ {r} :
        /\ req'[q] = req[q]
        /\ \A x \in Tickets \cup Pros : lock[x] = q => lock'[x] = q

\* The end of a request, and the start of one that takes a lock.
LEMMA EndsAlone ==
    ASSUME Shape, NEW r \in Requests, Release(r), Finish(r)
    PROVE  OthersStay(r) /\ Fits(r)' /\ Owed(r)'
<1>1. req'[r].op = "idle"
  BY DEF Finish, Shape, IdleReq
<1>2. OthersStay(r)
  BY DEF OthersStay, Release, Finish, Shape
<1> QED BY <1>1, <1>2 DEF Fits, Owed

LEMMA TakesFree ==
    ASSUME Shape, NEW r \in Requests, NEW x \in Tickets \cup Pros, Take(r, x),
           NEW q, req' = [req EXCEPT ![r] = q]
    PROVE  OthersStay(r) /\ req'[r] = q /\ lock'[x] = r
BY ComandaAssumption DEF OthersStay, Take, LockFree, Shape

\* A step that moves no money of a ticket and pays nobody.
LEMMA NoMoneyStep ==
    ASSUME MoneyInv, NEW r \in Requests, OthersStay(r), UNCHANGED <<sale, payouts>>,
           register' \in [Registers -> Sessions], Fits(r)', Owed(r)'
    PROVE  MoneyInv'
<1>1. UNCHANGED <<ticket, settled, accrued, shrunk, paidOut, usedKeys>>
  BY DEF sale, payouts
<1>2. Counted' /\ Earned'
  BY <1>1 DEF MoneyInv, Counted, Sold, Earned
<1>3. MoneyTyped'
  BY <1>1 DEF MoneyInv, MoneyTyped
<1>4. ASSUME NEW q \in Requests, q # r
      PROVE  Fits(q)' /\ Owed(q)'
  <2>1. req'[q] = req[q] /\ Fits(q) /\ Owed(q)
    BY <1>4 DEF OthersStay, MoneyInv
  <2>2. Fits(q)'
    BY <2>1, <1>1 DEF Fits
  <2>3. Owed(q)'
    BY <2>1, <1>1, <1>4 DEF Owed, OthersStay
  <2> QED BY <2>2, <2>3
<1>5. OverpaidOnlyIfShrunk'
  BY <1>1 DEF MoneyInv, OverpaidOnlyIfShrunk
<1> QED BY <1>2, <1>3, <1>4, <1>5 DEF MoneyInv

\* A request that took the lock of a ticket has moved no money yet.
LEMMA MoneyLocks ==
    ASSUME Shape, MoneyInv, NEW r \in Requests, NEW t \in Tickets,
           \/ AddItemLock(r, t) \/ RemoveItemLock(r, t) \/ DiscountLock(r, t)
           \/ PaymentLock(r, t) \/ CloseLock(r, t) \/ CancelLock(r, t)
    PROVE  MoneyInv'
<1>1. ASSUME NEW op, NEW id, NEW amount, NEW k, TicketLock(r, op, t, id, amount, k),
             op # "payout", op = "payment" => ticket[t].paid + amount <= Total(ticket[t])
      PROVE  MoneyInv'
  <2> DEFINE q == [IdleReq EXCEPT !.op = op, !.t = t, !.id = id, !.amount = amount, !.register = k]
  <2>1. q.op = op /\ q.t = t /\ q.amount = amount
    BY DEF IdleReq
  <2>2. /\ Take(r, t) /\ req' = [req EXCEPT ![r] = q]
        /\ UNCHANGED <<sale, payouts>> /\ register' = register
    BY <1>1, Zenon DEF TicketLock
  <2> HIDE DEF q
  <2>3. OthersStay(r) /\ req'[r] = q
    BY <2>2, TakesFree
  <2>4. ticket' = ticket
    BY <2>2 DEF sale
  <2>5. Fits(r)' /\ Owed(r)'
    BY <1>1, <2>1, <2>3, <2>4 DEF Fits, Owed
  <2> QED BY <2>2, <2>3, <2>5, NoMoneyStep DEF MoneyInv, MoneyTyped
<1>2. CASE PaymentLock(r, t)
  BY <1>1, <1>2 DEF PaymentLock
<1>3. CASE \/ AddItemLock(r, t) \/ RemoveItemLock(r, t) \/ DiscountLock(r, t)
           \/ CloseLock(r, t) \/ CancelLock(r, t)
  BY <1>1, <1>3 DEF AddItemLock, RemoveItemLock, DiscountLock, CloseLock, CancelLock
<1> QED BY <1>2, <1>3

\* The cash register is no ticket's money.
LEMMA RegisterMoney ==
    ASSUME Shape, MoneyInv, NEW r \in Requests,
           \/ RegisterOpenRead(r) \/ DepositRead(r) \/ WithdrawRead(r) \/ RegisterCloseRead(r)
           \/ RegisterOpenWrite(r) \/ MovementWrite(r) \/ RegisterCloseWrite(r)
    PROVE  MoneyInv'
<1>1. ASSUME NEW op \in {"open", "deposit", "withdraw", "closeRegister"}, NEW k, NEW amount,
             RegisterAsks(r, op, k, amount)
      PROVE  MoneyInv'
  <2> DEFINE q == [IdleReq EXCEPT !.op = op, !.register = k, !.amount = amount]
  <2>1. q.op = op
    BY DEF IdleReq
  <2>2. /\ req' = [req EXCEPT ![r] = q] /\ UNCHANGED <<sale, payouts>>
        /\ register' = register /\ lock' = lock
    BY <1>1, Zenon DEF RegisterAsks
  <2>3. OthersStay(r) /\ req'[r] = q
    BY <2>2 DEF OthersStay, Shape
  <2>4. Fits(r)' /\ Owed(r)'
    BY <2>1, <2>3 DEF Fits, Owed
  <2> QED BY <2>2, <2>3, <2>4, NoMoneyStep DEF MoneyInv, MoneyTyped
<1>2. CASE RegisterOpenRead(r) \/ DepositRead(r) \/ WithdrawRead(r) \/ RegisterCloseRead(r)
  BY <1>1, <1>2 DEF RegisterOpenRead, DepositRead, WithdrawRead, RegisterCloseRead
<1>3. CASE RegisterOpenWrite(r) \/ MovementWrite(r) \/ RegisterCloseWrite(r)
  <2>1. Finish(r) /\ lock' = lock /\ UNCHANGED <<sale, payouts>>
    BY <1>3 DEF RegisterOpenWrite, MovementWrite, RegisterCloseWrite
  <2>2. OthersStay(r) /\ Fits(r)' /\ Owed(r)'
    <3>1. req'[r].op = "idle"
      BY <2>1 DEF Finish, Shape, IdleReq
    <3>2. OthersStay(r)
      BY <2>1 DEF OthersStay, Finish, Shape
    <3> QED BY <3>1, <3>2 DEF Fits, Owed
  <2>3. req[r].amount \in Nat /\ register \in [Registers -> Sessions]
    BY DEF Shape, Reqs, MoneyInv, MoneyTyped
  <2>4. register' \in [Registers -> Sessions]
    <3>1. CASE RegisterOpenWrite(r)
      BY <2>3, <3>1 DEF RegisterOpenWrite, Sessions
    <3>2. CASE MovementWrite(r)
      <4>1. \/ register' = [register EXCEPT ![req[r].register].moved = @ + req[r].amount]
            \/ register' = [register EXCEPT ![req[r].register].moved = @ - req[r].amount]
        BY <3>2 DEF MovementWrite
      <4> QED BY <2>3, <4>1 DEF Sessions
    <3>3. CASE RegisterCloseWrite(r)
      BY <2>3, <3>3 DEF RegisterCloseWrite, Sessions
    <3> QED BY <1>3, <3>1, <3>2, <3>3
  <2> QED BY <2>1, <2>2, <2>4, NoMoneyStep
<1> QED BY <1>2, <1>3

\* A payout pays what it found owed, to a payee nobody else pays meanwhile.
LEMMA PayoutMoney ==
    ASSUME Shape, MoneyInv, NEW r \in Requests,
           \/ \E p \in Pros, amount \in Amounts, key \in Keys \cup {NoKey} :
                 PayoutLock(r, p, amount, key)
           \/ PayoutWrite(r)
    PROVE  MoneyInv'
<1>1. ASSUME NEW p \in Pros, NEW amount \in Amounts, NEW key, PayoutLock(r, p, amount, key)
      PROVE  MoneyInv'
  <2> DEFINE q == [IdleReq EXCEPT !.op = "payout", !.pro = p, !.amount = amount, !.key = key]
  <2>1. q.op = "payout" /\ q.pro = p /\ q.amount = amount
    BY DEF IdleReq
  <2>2. /\ Take(r, p) /\ req' = [req EXCEPT ![r] = q] /\ UNCHANGED <<sale, payouts>>
        /\ register' = register /\ amount <= accrued[p] - paidOut[p]
    BY <1>1, Zenon DEF PayoutLock
  <2>3. OthersStay(r) /\ req'[r] = q /\ lock'[p] = r
    BY <2>2, TakesFree
  <2>4. accrued' = accrued /\ paidOut' = paidOut
    BY <2>2 DEF sale, payouts
  <2>5. paidOut[p] + amount <= accrued[p]
    BY <2>2, ComandaAssumption DEF MoneyInv, MoneyTyped
  <2> HIDE DEF q
  <2>6. Fits(r)' /\ Owed(r)'
    BY <2>1, <2>3, <2>4, <2>5 DEF Fits, Owed
  <2> QED BY <2>2, <2>3, <2>6, NoMoneyStep DEF MoneyInv, MoneyTyped
<1>2. CASE PayoutWrite(r)
  <2> DEFINE p == req[r].pro
             a == req[r].amount
  <2>1. OthersStay(r) /\ Fits(r)' /\ Owed(r)'
    BY <1>2, EndsAlone DEF PayoutWrite
  <2>2. CASE req[r].key \in usedKeys
    <3>1. UNCHANGED <<sale, payouts>> /\ register' = register
      BY <1>2, <2>2 DEF PayoutWrite
    <3> QED BY <2>1, <3>1, NoMoneyStep DEF MoneyInv, MoneyTyped
  <2>3. CASE req[r].key \notin usedKeys
    <3>1. /\ UNCHANGED <<ticket, settled, accrued, shrunk, register>>
          /\ paidOut' = [paidOut EXCEPT ![p] = @ + a]
          /\ usedKeys' \subseteq usedKeys \cup (Keys \cap {req[r].key})
      BY <1>2, <2>3 DEF PayoutWrite, sale, Shape, Reqs
    <3>2. p \in Pros /\ lock[p] = r /\ a \in Nat /\ paidOut[p] + a <= accrued[p]
      BY <1>2 DEF PayoutWrite, MoneyInv, Owed, Shape, Reqs
    <3>3. MoneyTyped'
      BY <3>1, <3>2 DEF MoneyInv, MoneyTyped
    <3>4. paidOut'[p] = paidOut[p] + a /\ \A x \in Pros \ {p} : paidOut'[x] = paidOut[x]
      BY <3>1, <3>2 DEF MoneyInv, MoneyTyped
    <3>5. Counted'
      BY <3>1 DEF MoneyInv, Counted, Sold
    <3>6. Earned'
      BY <3>1, <3>2, <3>4 DEF MoneyInv, Earned, Sold
    <3>7. ASSUME NEW q \in Requests, q # r
          PROVE  Fits(q)' /\ Owed(q)'
      <4>1. req'[q] = req[q] /\ Fits(q) /\ Owed(q)
        BY <3>7, <2>1 DEF OthersStay, MoneyInv
      <4>2. Fits(q)'
        BY <4>1, <3>1 DEF Fits
      <4>3. Owed(q)'
        BY <4>1, <3>1, <3>2, <3>4, <3>7, <2>1 DEF Owed, OthersStay
      <4> QED BY <4>2, <4>3
    <3>8. OverpaidOnlyIfShrunk'
      BY <3>1 DEF MoneyInv, OverpaidOnlyIfShrunk
    <3> QED BY <2>1, <3>3, <3>5, <3>6, <3>7, <3>8 DEF MoneyInv
  <2> QED BY <2>2, <2>3
<1> QED BY <1>1, <1>2

\* What is sold is the closed tickets' items: no step but the closing of a ticket adds to it.
LEMMA SoldStays ==
    ASSUME Shape, NEW t \in Tickets, ticket[t].status # "CLOSED",
           NEW row, row.status # "CLOSED", ticket' = [ticket EXCEPT ![t] = row]
    PROVE  \A p \in Pros : Sold(p)' = Sold(p)
<1>1. ticket'[t] = row /\ \A s \in Tickets \ {t} : ticket'[s] = ticket[s]
  BY DEF Shape
<1>2. {x \in Tickets : ticket'[x].status = "CLOSED"} = {x \in Tickets : ticket[x].status = "CLOSED"}
  BY <1>1
<1>3. \A p \in Pros : \A s \in {x \in Tickets : ticket[x].status = "CLOSED"} :
          SoldBy(p, ticket'[s].items) = SoldBy(p, ticket[s].items)
  BY <1>1
<1> QED BY <1>2, <1>3 DEF Sold

\* A step that pays nobody and writes a row of a ticket that is not, and does not get, closed.
LEMMA RowMoney ==
    ASSUME MoneyInv, Shape, NEW t \in Tickets, ticket[t].status # "CLOSED",
           NEW row, row.status # "CLOSED", IsFiniteSet(row.items),
           ticket' = [ticket EXCEPT ![t] = row], UNCHANGED <<settled, accrued, payouts>>,
           register' \in [Registers -> Sessions],
           shrunk \subseteq shrunk', shrunk' \subseteq Tickets,
           row.paid > Total(row) => t \in shrunk'
    PROVE  Counted' /\ MoneyTyped' /\ Earned' /\ OverpaidOnlyIfShrunk'
<1>1. ticket'[t] = row /\ \A s \in Tickets \ {t} : ticket'[s] = ticket[s]
  BY DEF Shape
<1>2. \A p \in Pros : Sold(p)' = Sold(p)
  BY SoldStays
<1>3. Counted'
  BY <1>1, <1>2 DEF MoneyInv, Counted
<1>4. MoneyTyped'
  BY DEF MoneyInv, MoneyTyped, payouts
<1>5. Earned'
  BY <1>2 DEF MoneyInv, Earned, payouts
<1>6. OverpaidOnlyIfShrunk'
  BY <1>1 DEF MoneyInv, OverpaidOnlyIfShrunk
<1> QED BY <1>3, <1>4, <1>5, <1>6

\* A request that does not move: what it found out still holds, if its ticket keeps its row
\* and its payee is not paid by another.
LEMMA FoundStays ==
    ASSUME Shape, MoneyInv, NEW q \in Requests, req'[q] = req[q],
           req[q].op = "payment" => ticket'[req[q].t] = ticket[req[q].t],
           req[q].op = "payout" /\ req[q].pro \in Pros /\ lock[req[q].pro] = q =>
               /\ lock'[req[q].pro] = q /\ paidOut'[req[q].pro] = paidOut[req[q].pro]
               /\ accrued'[req[q].pro] \in Nat /\ accrued[req[q].pro] <= accrued'[req[q].pro]
    PROVE  Fits(q)' /\ Owed(q)'
<1>1. Fits(q) /\ Owed(q)
  BY DEF MoneyInv
<1>2. Fits(q)'
  BY <1>1 DEF Fits
<1>3. ASSUME req[q].op = "payout"
      PROVE  Owed(q)'
  <2> DEFINE p == req[q].pro
  <2>1. p \in Pros /\ lock[p] = q /\ paidOut[p] + req[q].amount <= accrued[p]
    BY <1>1, <1>3 DEF Owed
  <2>2. lock'[p] = q /\ paidOut'[p] = paidOut[p] /\ accrued'[p] \in Nat /\ accrued[p] <= accrued'[p]
    BY <1>3, <2>1
  <2>3. accrued[p] \in Nat /\ paidOut[p] \in Nat
    BY <2>1 DEF MoneyInv, MoneyTyped
  <2>4. req[q].amount \in Nat
    BY DEF Shape, Reqs
  <2> QED BY <2>1, <2>2, <2>3, <2>4 DEF Owed
<1> QED BY <1>2, <1>3 DEF Owed

\* A ticket is opened with nothing paid and an item at most.
LEMMA OpenMoney ==
    ASSUME IInv, MoneyInv, NEW t \in Tickets, Open(t)
    PROVE  MoneyInv'
<1>1. PICK items \in {{}} \cup {{i} : i \in {x \in Items : x.id \notin TakenIds /\ x.pro # NoPro}} :
          ticket' = [ticket EXCEPT ![t] = [NoRow EXCEPT !.status = "OPEN", !.items = items]]
  BY DEF Open
<1> DEFINE row == [NoRow EXCEPT !.status = "OPEN", !.items = items]
<1>2. /\ ticket[t].status = "NONE"
      /\ UNCHANGED <<settled, accrued, shrunk, payouts, register, lock, req>>
  BY DEF Open
<1>3. items \subseteq Items /\ IsFiniteSet(items)
  <2>1. items \subseteq Items /\ (items = {} \/ \E i : items = {i})
    BY <1>1
  <2>2. IsFiniteSet({}) /\ \A i : IsFiniteSet({i})
    BY FS_EmptySet, FS_Singleton
  <2>3. IsFiniteSet(items)
    BY <2>1, <2>2, Zenon
  <2> QED BY <2>1, <2>3
<1>4. row \in Rows /\ row.status = "OPEN" /\ row.items = items /\ row.paid = 0
  BY <1>3 DEF NoRow, Rows, Statuses
<1>5. Total(row) \in Nat
  BY <1>3, <1>4, TotalIsNat
<1> HIDE DEF row
<1>6. Counted' /\ MoneyTyped' /\ Earned' /\ OverpaidOnlyIfShrunk'
  <2>1. ticket' = [ticket EXCEPT ![t] = row]
    BY <1>1 DEF row
  <2>2. row.status # "CLOSED" /\ IsFiniteSet(row.items) /\ ~(row.paid > Total(row))
    BY <1>3, <1>4, <1>5
  <2>3. register' \in [Registers -> Sessions] /\ shrunk' = shrunk /\ shrunk \subseteq Tickets
    BY <1>2 DEF MoneyInv, MoneyTyped
  <2>4. Shape /\ ticket[t].status # "CLOSED" /\ UNCHANGED <<settled, accrued, payouts>>
    BY <1>2 DEF IInv
  <2> QED BY <2>1, <2>2, <2>3, <2>4, RowMoney
<1>7. ASSUME NEW q \in Requests
      PROVE  Fits(q)' /\ Owed(q)'
  <2>1. req[q].op = "payment" => req[q].t # t
    BY <1>2 DEF IInv, Locked, Holds, TicketOps
  <2>2. req[q].op = "payment" => ticket'[req[q].t] = ticket[req[q].t]
    BY <1>1, <2>1 DEF IInv, Shape
  <2>3. /\ req'[q] = req[q] /\ lock' = lock /\ paidOut' = paidOut /\ accrued' = accrued
        /\ \A p \in Pros : accrued[p] \in Nat
    BY <1>2 DEF payouts, MoneyInv, MoneyTyped
  <2> QED BY <2>2, <2>3, FoundStays DEF IInv
<1> QED BY <1>6, <1>7 DEF MoneyInv

\* What the write of r does to the others: they are on other tickets, with other payees.
LEMMA OthersFound ==
    ASSUME IInv, MoneyInv, NEW r \in Requests, NEW t \in Tickets, lock[t] = r,
           \A s \in Tickets \ {t} : ticket'[s] = ticket[s], OthersStay(r),
           Fits(r)', Owed(r)', paidOut' = paidOut,
           \A p \in Pros : accrued'[p] \in Nat /\ accrued[p] <= accrued'[p]
    PROVE  \A q \in Requests : Fits(q)' /\ Owed(q)'
<1> SUFFICES ASSUME NEW q \in Requests, q # r
             PROVE  Fits(q)' /\ Owed(q)'
  OBVIOUS
<1>1. req[q].op = "payment" => req[q].t \in Tickets \ {t}
  BY DEF IInv, Locked, Holds, TicketOps
<1>2. /\ req'[q] = req[q]
      /\ \A p \in Pros : lock[p] = q => lock'[p] = q
  BY DEF OthersStay
<1> QED BY <1>1, <1>2, FoundStays DEF IInv

\* The writes of a ticket: they leave what was paid, or add what the total has room for.
LEMMA WriteMoney ==
    ASSUME IInv, MoneyInv, NEW r \in Requests, req[r].op \in TicketOps, NEW row \in Rows,
           row.status # "CLOSED", IsFiniteSet(row.items), Writes(r, row),
           register' \in [Registers -> Sessions],
           row.paid = Now(r).paid \/ row.paid <= Total(row)
    PROVE  MoneyInv'
<1>1. PICK t \in Tickets : t = req[r].t /\ lock[t] = r /\ ticket[t].status = "OPEN"
  BY DEF IInv, Locked, Holds
<1>2. /\ ticket' = [ticket EXCEPT ![t] = row] /\ UNCHANGED <<settled, accrued, payouts>>
      /\ shrunk' = IF row.paid > 0 /\ Total(row) < Total(ticket[t]) THEN shrunk \cup {t}
                   ELSE shrunk
      /\ Finish(r) /\ Release(r) /\ Now(r) = ticket[t]
  BY <1>1 DEF Writes, Now
<1>3. ticket[t] \in Rows /\ IsFiniteSet(ticket[t].items)
  BY DEF IInv, Shape, MoneyInv, Counted
<1>4. {Total(row), Total(ticket[t]), row.paid, ticket[t].paid} \subseteq Nat
  BY <1>3, TotalIsNat DEF Rows
<1>5. row.paid > Total(row) => t \in shrunk'
  <2>1. ticket[t].paid > Total(ticket[t]) => t \in shrunk
    BY DEF MoneyInv, OverpaidOnlyIfShrunk
  <2> QED BY <1>2, <1>4, <2>1
<1>6. shrunk \subseteq shrunk' /\ shrunk' \subseteq Tickets
  BY <1>2 DEF MoneyInv, MoneyTyped
<1>7. Counted' /\ MoneyTyped' /\ Earned' /\ OverpaidOnlyIfShrunk'
  <2>1. ticket[t].status # "CLOSED" /\ Shape
    BY <1>1 DEF IInv
  <2>2. ticket' = [ticket EXCEPT ![t] = row] /\ UNCHANGED <<settled, accrued, payouts>>
    BY <1>2
  <2> QED BY <2>1, <2>2, <1>5, <1>6, RowMoney, Zenon
<1>8. \A q \in Requests : Fits(q)' /\ Owed(q)'
  <2>1. OthersStay(r) /\ Fits(r)' /\ Owed(r)'
    BY <1>2, EndsAlone DEF IInv
  <2>2. \A s \in Tickets \ {t} : ticket'[s] = ticket[s]
    BY <1>2 DEF IInv, Shape
  <2>3. paidOut' = paidOut /\ \A p \in Pros : accrued'[p] \in Nat /\ accrued[p] <= accrued'[p]
    BY <1>2 DEF payouts, MoneyInv, MoneyTyped
  <2> QED BY <1>1, <2>1, <2>2, <2>3, OthersFound
<1> QED BY <1>7, <1>8 DEF MoneyInv

\* Each of those writes.
LEMMA WritesMoney ==
    ASSUME IInv, MoneyInv, NEW r \in Requests,
           \/ AddItemWrite(r) \/ RemoveItemWrite(r) \/ DiscountWrite(r)
           \/ PaymentWrite(r) \/ CancelWrite(r)
    PROVE  MoneyInv'
<1>1. req[r].op \in TicketOps
  BY DEF AddItemWrite, RemoveItemWrite, DiscountWrite, PaymentWrite, CancelWrite, TicketOps
<1>2. /\ req[r].t \in Tickets /\ Now(r) \in Rows /\ Now(r).status = "OPEN"
      /\ req[r].amount \in Nat /\ IsFiniteSet(Now(r).items)
  BY <1>1 DEF IInv, Locked, Holds, Now, Shape, Reqs, MoneyInv, Counted
<1>3. register \in [Registers -> Sessions]
  BY DEF MoneyInv, MoneyTyped
<1>4. CASE AddItemWrite(r)
  <2>1. PICK value \in Prices, pro \in Pros \cup {NoPro} :
            Writes(r, [Now(r) EXCEPT !.items =
                         @ \cup {[id |-> req[r].id, value |-> value, pro |-> pro]}])
    BY <1>4 DEF AddItemWrite
  <2> DEFINE i == [id |-> req[r].id, value |-> value, pro |-> pro]
             row == [Now(r) EXCEPT !.items = @ \cup {i}]
  <2>2. i \in Items
    BY <1>4 DEF AddItemWrite, IInv, FreshIds, Fresh, Items
  <2>3. /\ row \in Rows /\ row.status = "OPEN" /\ row.items = Now(r).items \cup {i}
        /\ row.paid = Now(r).paid
    BY <1>2, <2>2 DEF Rows
  <2>4. register' = register /\ Writes(r, row)
    BY <1>4, <2>1 DEF AddItemWrite
  <2> HIDE DEF i, row
  <2>5. IsFiniteSet(row.items)
    <3>1. IsFiniteSet(Now(r).items \cup {i})
      BY <1>2, FS_AddElement
    <3> QED BY <2>3, <3>1
  <2> QED BY <1>1, <1>3, <2>3, <2>4, <2>5, WriteMoney
<1>5. CASE RemoveItemWrite(r)
  <2> DEFINE row == [Now(r) EXCEPT !.items = {i \in @ : i.id # req[r].id}]
  <2>1. /\ row \in Rows /\ row.status = "OPEN" /\ row.items \subseteq Now(r).items
        /\ row.paid = Now(r).paid
    BY <1>2 DEF Rows
  <2>2. register' = register /\ Writes(r, row)
    BY <1>5 DEF RemoveItemWrite
  <2> HIDE DEF row
  <2>3. IsFiniteSet(row.items)
    <3>1. row.items \in SUBSET Now(r).items /\ IsFiniteSet(Now(r).items)
      BY <1>2, <2>1
    <3> QED BY <3>1, FS_Subset, Zenon
  <2> QED BY <1>1, <1>3, <2>1, <2>2, <2>3, WriteMoney
<1>6. CASE DiscountWrite(r)
  <2> DEFINE row == [Now(r) EXCEPT !.discount = req[r].amount]
  <2>1. /\ row \in Rows /\ row.status = "OPEN" /\ row.items = Now(r).items
        /\ row.paid = Now(r).paid
    BY <1>2 DEF Rows
  <2>2. register' = register /\ Writes(r, row)
    BY <1>6 DEF DiscountWrite
  <2> HIDE DEF row
  <2> QED BY <1>1, <1>2, <1>3, <2>1, <2>2, WriteMoney
<1>7. CASE PaymentWrite(r)
  <2> DEFINE row == [Now(r) EXCEPT !.paid = @ + req[r].amount]
  <2>1. /\ row \in Rows /\ row.status = "OPEN" /\ row.items = Now(r).items
        /\ row.discount = Now(r).discount /\ row.paid = Now(r).paid + req[r].amount
    BY <1>2 DEF Rows
  <2>2. Writes(r, row)
    BY <1>7 DEF PaymentWrite
  <2>3. register' \in [Registers -> Sessions]
    <3>1. \/ register' = register
          \/ register' = [register EXCEPT ![req[r].register].cash = @ + req[r].amount]
      BY <1>7 DEF PaymentWrite
    <3> QED BY <1>2, <1>3, <3>1 DEF Sessions
  <2> HIDE DEF row
  <2>4. Total(row) = Total(Now(r))
    BY <2>1 DEF Total, Subtotal
  <2>5. row.paid <= Total(row)
    BY <1>7, <2>1, <2>4 DEF PaymentWrite, MoneyInv, Fits, Now
  <2> QED BY <1>1, <1>2, <2>1, <2>2, <2>3, <2>5, WriteMoney
<1>8. CASE CancelWrite(r)
  <2> DEFINE row == [Now(r) EXCEPT !.status = "CANCELED"]
  <2>1. /\ row \in Rows /\ row.status = "CANCELED" /\ row.items = Now(r).items
        /\ row.paid = Now(r).paid
    BY <1>2 DEF Rows, Statuses
  <2>2. register' = register /\ Writes(r, row)
    BY <1>8 DEF CancelWrite
  <2> HIDE DEF row
  <2> QED BY <1>1, <1>2, <1>3, <2>1, <2>2, WriteMoney
<1> QED BY <1>4, <1>5, <1>6, <1>7, <1>8

\* Closing a ticket adds its items to what is sold, and nobody had them before.
LEMMA CloseMoney ==
    ASSUME IInv, MoneyInv, NEW r \in Requests, CloseWrite(r)
    PROVE  MoneyInv'
<1>1. PICK t \in Tickets : t = req[r].t /\ lock[t] = r /\ ticket[t].status = "OPEN"
  BY DEF IInv, Locked, Holds, CloseWrite, TicketOps
<1> DEFINE items == ticket[t].items
           row == [ticket[t] EXCEPT !.status = "CLOSED"]
<1>2. income[t] = {}
  BY <1>1 DEF IInv, ClosedIsSettled
<1>3. /\ ticket' = [ticket EXCEPT ![t] = row]
      /\ settled' = settled \cup {i.id : i \in items}
      /\ accrued' = [p \in Pros |-> accrued[p] + CommissionsOf(p, items)]
      /\ UNCHANGED <<shrunk, payouts, register>> /\ Finish(r) /\ Release(r)
  BY <1>1, <1>2 DEF CloseWrite
<1>4. items \subseteq Items /\ IsFiniteSet(items)
  BY DEF IInv, Shape, Rows, MoneyInv, Counted
<1>5. /\ row.status = "CLOSED" /\ row.items = items
      /\ row.discount = ticket[t].discount /\ row.paid = ticket[t].paid
  BY DEF IInv, Shape, Rows
<1>6. ticket'[t] = row /\ \A s \in Tickets \ {t} : ticket'[s] = ticket[s]
  BY <1>3 DEF IInv, Shape
<1>7. Total(row) = Total(ticket[t])
  BY <1>5 DEF Total, Subtotal
<1> HIDE DEF row
<1>8. \A p \in Pros : /\ Sold(p)' = Sold(p) \cup SoldBy(p, items)
                      /\ Sold(p) \cap SoldBy(p, items) = {}
                      /\ Sold(p) \subseteq Items /\ IsFiniteSet(Sold(p))
                      /\ SoldBy(p, items) \subseteq Items /\ IsFiniteSet(SoldBy(p, items))
  <2> SUFFICES ASSUME NEW p \in Pros
               PROVE  /\ Sold(p)' = Sold(p) \cup SoldBy(p, items)
                      /\ Sold(p) \cap SoldBy(p, items) = {}
                      /\ Sold(p) \subseteq Items /\ IsFiniteSet(Sold(p))
                      /\ SoldBy(p, items) \subseteq Items /\ IsFiniteSet(SoldBy(p, items))
    OBVIOUS
  <2> DEFINE C == {x \in Tickets : ticket[x].status = "CLOSED"}
  <2>1. {x \in Tickets : ticket'[x].status = "CLOSED"} = C \cup {t}
    BY <1>5, <1>6
  <2>2. /\ SoldBy(p, ticket'[t].items) = SoldBy(p, items)
        /\ \A s \in C : SoldBy(p, ticket'[s].items) = SoldBy(p, ticket[s].items)
    BY <1>1, <1>5, <1>6
  <2>3. Sold(p)' = Sold(p) \cup SoldBy(p, items)
    BY <2>1, <2>2 DEF Sold
  <2>4. Sold(p) \cap SoldBy(p, items) = {}
    <3>1. ASSUME NEW s \in C, NEW i \in ticket[s].items
          PROVE  i \notin items
      <4>1. s # t
        BY <1>1
      <4>2. i.id \in ItemsOf(s)
        BY <3>1 DEF ItemsOf
      <4>3. \A j \in items : j.id \in ItemsOf(t)
        BY DEF ItemsOf
      <4> QED BY <4>1, <4>2, <4>3 DEF IInv, OwnItems
    <3> QED BY <3>1 DEF Sold, SoldBy
  <2>5. Sold(p) \subseteq Items /\ IsFiniteSet(Sold(p))
    BY DEF IInv, Shape, Rows, MoneyInv, Counted, Sold, SoldBy
  <2>6. SoldBy(p, items) \in SUBSET items
    BY DEF SoldBy
  <2> QED BY <2>3, <2>4, <2>5, <2>6, <1>4, FS_Subset
<1>9. Counted'
  <2>1. \A s \in Tickets : IsFiniteSet(ticket'[s].items)
    BY <1>4, <1>5, <1>6 DEF MoneyInv, Counted
  <2>2. ASSUME NEW p \in Pros
        PROVE  IsFiniteSet(Sold(p))'
    <3>1. Sold(p)' = Sold(p) \cup SoldBy(p, items)
      BY <1>8
    <3>2. IsFiniteSet(Sold(p)) /\ IsFiniteSet(SoldBy(p, items))
      BY <1>8
    <3> QED BY <3>1, <3>2, FS_Union, Zenon
  <2> QED BY <2>1, <2>2 DEF Counted
<1>10. ASSUME NEW p \in Pros
       PROVE  /\ CommissionsOf(p, items) \in Nat
              /\ CommissionsOf(p, items) <= Sum(Value, SoldBy(p, items))
              /\ Sum(Value, SoldBy(p, items)) \in Nat /\ Sum(Value, Sold(p)) \in Nat
              /\ Sum(Value, Sold(p)') = Sum(Value, Sold(p)) + Sum(Value, SoldBy(p, items))
  <2> DEFINE S == SoldBy(p, items)
             T == Sold(p)
  <2>1. S \in SUBSET Items /\ IsFiniteSet(S) /\ T \in SUBSET Items /\ IsFiniteSet(T)
        /\ T \cap S = {} /\ Sold(p)' = T \cup S
    BY <1>8
  <2>2. CommissionsOf(p, items) = MapThenSumSet(Commission, S)
    BY DEF CommissionsOf, SoldBy
  <2> HIDE DEF S, T
  <2>3. CommissionsOf(p, items) = Sum(Share, S)
    BY <2>1, <2>2, SharesSum
  <2>4. Sum(Share, S) \in Nat /\ Sum(Value, S) \in Nat /\ Sum(Value, T) \in Nat
    BY <2>1, ItemsAreNat, SumIsNat
  <2>5. Sum(Share, S) <= Sum(Value, S)
    BY <2>1, ItemsAreNat, SumOfLess
  <2>6. Sum(Value, T \cup S) = Sum(Value, T) + Sum(Value, S)
    BY <2>1, ItemsAreNat, SumOfUnion
  <2> QED BY <2>1, <2>3, <2>4, <2>5, <2>6 DEF S, T
<1>11. \A p \in Pros : /\ accrued'[p] = accrued[p] + CommissionsOf(p, items)
                       /\ accrued[p] \in Nat /\ accrued'[p] \in Nat /\ accrued[p] <= accrued'[p]
  <2>1. accrued \in [Pros -> Nat]
    BY DEF MoneyInv, MoneyTyped
  <2> QED BY <1>3, <1>10, <2>1
<1>12. Earned' /\ paidOut' = paidOut
  <2>1. paidOut' = paidOut /\ paidOut \in [Pros -> Nat]
    BY <1>3 DEF payouts, MoneyInv, MoneyTyped
  <2>2. \A p \in Pros : paidOut[p] <= accrued[p] /\ accrued[p] <= Sum(Value, Sold(p))
    BY DEF MoneyInv, Earned
  <2>3. ASSUME NEW p \in Pros
        PROVE  paidOut[p] <= accrued'[p] /\ accrued'[p] <= Sum(Value, Sold(p)')
    <3>1. paidOut[p] \in Nat
      BY <2>1
    <3> QED BY <1>10, <1>11, <2>2, <3>1
  <2> QED BY <2>1, <2>3 DEF Earned
<1>13. MoneyTyped'
  <2>1. accrued' \in [Pros -> Nat]
    BY <1>3, <1>10 DEF MoneyInv, MoneyTyped
  <2>2. \A i \in items : i.id \in ItemIds
    BY <1>4 DEF Items
  <2> QED BY <1>3, <2>1, <2>2 DEF MoneyInv, MoneyTyped, payouts
<1>14. \A q \in Requests : Fits(q)' /\ Owed(q)'
  <2>1. OthersStay(r) /\ Fits(r)' /\ Owed(r)'
    BY <1>3, EndsAlone DEF IInv
  <2> QED BY <1>1, <1>6, <1>11, <1>12, <2>1, OthersFound
<1>15. OverpaidOnlyIfShrunk'
  BY <1>3, <1>5, <1>6, <1>7 DEF MoneyInv, OverpaidOnlyIfShrunk
<1> QED BY <1>9, <1>12, <1>13, <1>14, <1>15 DEF MoneyInv

-----------------------------------------------------------------------------
(* The theorems *)

LEMMA NextInv == IInv /\ [Next]_vars => IInv'
<1> SUFFICES ASSUME IInv, [Next]_vars PROVE IInv'
  OBVIOUS
<1>1. CASE UNCHANGED vars
  BY <1>1 DEF vars, IInv, Shape, Locked, Holds, OwnItems, ItemsOf, FreshIds, Fresh,
              ClosedIsSettled, CanceledUnpaid
<1>2. ASSUME NEW t \in Tickets, Open(t)
      PROVE  IInv'
  BY <1>2, OpenStep
<1>3. ASSUME NEW r \in Requests, Reads(r)
      PROVE  IInv'
  BY <1>3, TicketLockStep, PayoutStep, RegisterStep DEF Reads
<1>4. ASSUME NEW r \in Requests, WritesBack(r)
      PROVE  IInv'
  BY <1>4, TicketWriteStep, CloseStep, PayoutStep, RegisterStep DEF WritesBack
<1> QED BY <1>1, <1>2, <1>3, <1>4 DEF Next

LEMMA InvAlways == Spec => []IInv
BY InitInv, NextInv, PTL DEF Spec

\* TicketsService.close settles a ticket once and whole, what the ticket says agreeing with the
\* stock movements, commissions and income its closing wrote, and TicketsService.cancel never
\* leaves the client's money on one, whatever requests race with them.
THEOREM TicketsEndEven == Spec => []EndsEven
<1>1. IInv => EndsEven
  BY DEF IInv, EndsEven
<1> QED BY <1>1, InvAlways, PTL

LEMMA MoneyStep == IInv /\ MoneyInv /\ [Next]_vars => MoneyInv'
<1> SUFFICES ASSUME IInv, MoneyInv, [Next]_vars PROVE MoneyInv'
  OBVIOUS
<1>1. CASE UNCHANGED vars
  BY <1>1 DEF vars, MoneyInv, Counted, Sold, MoneyTyped, Fits, Owed, Earned, OverpaidOnlyIfShrunk
<1>2. ASSUME NEW t \in Tickets, Open(t)
      PROVE  MoneyInv'
  BY <1>2, OpenMoney
<1>3. ASSUME NEW r \in Requests, Reads(r)
      PROVE  MoneyInv'
  BY <1>3, MoneyLocks, PayoutMoney, RegisterMoney DEF Reads, IInv
<1>4. ASSUME NEW r \in Requests, WritesBack(r)
      PROVE  MoneyInv'
  BY <1>4, WritesMoney, CloseMoney, PayoutMoney, RegisterMoney DEF WritesBack, IInv
<1> QED BY <1>1, <1>2, <1>3, <1>4 DEF Next

LEMMA MoneyAlways == Spec => [](IInv /\ MoneyInv)
<1>1. IInv /\ MoneyInv /\ [Next]_vars => (IInv /\ MoneyInv)'
  BY NextInv, MoneyStep
<1> QED BY InitInv, MoneyInit, <1>1, PTL DEF Spec

\* The rows and the sums of the till are amounts: tickets, income, payouts and the register
\* stay in their types, and a total is never negative (totalCents, computeForTicket).
THEOREM TillTypes == Spec => []TypeOK
<1>1. IInv /\ MoneyInv => TypeOK
  <2> SUFFICES ASSUME IInv, MoneyInv PROVE TypeOK
    OBVIOUS
  <2>1. ASSUME NEW t \in Tickets
        PROVE  income[t] \subseteq Nat
    <3>1. ticket[t] \in Rows /\ IsFiniteSet(ticket[t].items)
      BY DEF IInv, Shape, MoneyInv, Counted
    <3>2. Total(ticket[t]) \in Nat
      BY <3>1, TotalIsNat
    <3> QED BY <3>2 DEF IInv, ClosedIsSettled
  <2> QED BY <2>1 DEF IInv, Shape, MoneyInv, MoneyTyped, Sessions, TypeOK
<1> QED BY <1>1, MoneyAlways, PTL

\* Payments at once never add up to more than the total of a ticket: it is overpaid only when
\* it got cheaper after a payment (lockedOpenTicket, addPayment).
THEOREM PaymentsFit == Spec => []OverpaidOnlyIfShrunk
<1>1. MoneyInv => OverpaidOnlyIfShrunk
  BY DEF MoneyInv
<1> QED BY <1>1, MoneyAlways, PTL

\* No professional is paid more commission than what the items sold cost, whatever payouts
\* and closings race (registerCommissionPayout, computeForTicket).
THEOREM PayoutsAreEarned == Spec => []PayoutsEarned
<1>1. IInv /\ MoneyInv => PayoutsEarned
  <2> SUFFICES ASSUME IInv, MoneyInv, NEW p \in Pros
               PROVE  paidOut[p] <= MapThenSumSet(LAMBDA i : i.value, Sold(p))
    BY DEF PayoutsEarned, Sold, SoldBy
  <2>1. Sold(p) \in SUBSET Items /\ IsFiniteSet(Sold(p))
    BY DEF IInv, Shape, Rows, MoneyInv, Counted, Sold, SoldBy
  <2>2. MapThenSumSet(LAMBDA i : i.value, Sold(p)) = Sum(Value, Sold(p))
    BY <2>1, ValuesSum
  <2>3. Sum(Value, Sold(p)) \in Nat
    BY <2>1, ItemsAreNat, SumIsNat
  <2>4. paidOut[p] \in Nat /\ accrued[p] \in Nat
    BY DEF MoneyInv, MoneyTyped
  <2>5. paidOut[p] <= accrued[p] /\ accrued[p] <= Sum(Value, Sold(p))
    BY DEF MoneyInv, Earned
  <2> QED BY <2>2, <2>3, <2>4, <2>5
<1> QED BY <1>1, MoneyAlways, PTL
=============================================================================
