---------------------------- MODULE Subscription ----------------------------
(***************************************************************************)
(* What a salon gets for its money, with none of the machinery that asks   *)
(* the provider: no notifications, no lock, no reads and late writes.      *)
(*                                                                         *)
(* An order becomes a contract only after the payer agreed to it.  A month *)
(* paid in advance is turned into days once, all of them; a recurrence     *)
(* serves the plan it was ordered for, until the owner switches it.  The   *)
(* platform may give a plan away, whatever there is, and take it back.     *)
(***************************************************************************)
EXTENDS Integers

CONSTANTS
    Orders,     \* what the owner may order
    Plans,
    Month,      \* the days one payment in advance buys
    Nobody      \* the order of a contract that has none, or only days

VARIABLES
    order,      \* order[o]: the method and plan of order o
    agreed,     \* orders the payer agreed to: paid, or authorized
    used,       \* orders that were turned into days
    contract,   \* what the salon has
    today

all == <<order, agreed, used, contract, today>>

None == [kind |-> "none", of |-> Nobody, plan |-> Nobody, until |-> 0, ending |-> FALSE]

Prepaid(plan, until) ==
    [kind |-> "prepaid", of |-> Nobody, plan |-> plan, until |-> until, ending |-> FALSE]
Recurring(o, plan) ==
    [kind |-> "recurring", of |-> o, plan |-> plan, until |-> 0, ending |-> FALSE]
Gift(plan) ==
    [kind |-> "gift", of |-> Nobody, plan |-> plan, until |-> 0, ending |-> FALSE]

Open(o) == order[o].method = "none"

Init ==
    /\ order = [o \in Orders |-> [method |-> "none", plan |-> Nobody]]
    /\ agreed = {} /\ used = {}
    /\ contract = None
    /\ today = 1

Order(o, method, plan) ==
    /\ Open(o)
    /\ order' = [order EXCEPT ![o] = [method |-> method, plan |-> plan]]
    /\ UNCHANGED <<agreed, used, contract, today>>

\* The payer pays, or authorizes the recurrence.
Agree(o) ==
    /\ ~Open(o)
    /\ agreed' = agreed \cup {o}
    /\ UNCHANGED <<order, used, contract, today>>

\* The days a month paid in advance runs to.  After a gift, or none left of it, the days of
\* a month paid before the gift may count.
RunsTo(until) ==
    CASE contract.kind = "prepaid" ->
           until = Month + IF contract.until > today THEN contract.until ELSE today
      [] contract.kind = "recurring" -> until = today + Month
      [] OTHER -> until \in Nat /\ until >= today + Month

TurnIntoDays(o) ==
    /\ order[o].method = "PIX" /\ o \in agreed \ used
    /\ used' = used \cup {o}
    /\ RunsTo(contract'.until)
    /\ contract' = Prepaid(order[o].plan, contract'.until)
    /\ UNCHANGED <<order, agreed, today>>

\* The recurrence begins, goes on, or replaces what there was.  What a gift covered comes
\* back with the plan it had.
Serve(o) ==
    /\ order[o].method = "CARD" /\ o \in agreed
    /\ contract'.plan \in
           IF contract.kind \in {"none", "gift"} THEN Plans \cup {order[o].plan}
           ELSE IF contract.of = o THEN {contract.plan} ELSE {order[o].plan}
    /\ contract' = Recurring(o, contract'.plan)
    /\ UNCHANGED <<order, agreed, used, today>>

Switch(plan) ==
    /\ contract.kind \in {"prepaid", "recurring"}
    /\ contract' = [contract EXCEPT !.plan = plan]
    /\ UNCHANGED <<order, agreed, used, today>>

\* Owner or provider end it: it runs to the end of what was paid.
End ==
    /\ contract.kind # "none"
    /\ contract' = [contract EXCEPT !.ending = TRUE]
    /\ UNCHANGED <<order, agreed, used, today>>

Give(plan) == contract' = Gift(plan) /\ UNCHANGED <<order, agreed, used, today>>

TakeBack ==
    /\ contract.kind = "gift"
    /\ contract' = None
    /\ UNCHANGED <<order, agreed, used, today>>

DayPasses == today' = today + 1 /\ UNCHANGED <<order, agreed, used, contract>>

Next ==
    \/ \E o \in Orders, method \in {"PIX", "CARD"}, plan \in Plans : Order(o, method, plan)
    \/ \E o \in Orders : Agree(o) \/ TurnIntoDays(o) \/ Serve(o)
    \/ \E plan \in Plans : Switch(plan) \/ Give(plan)
    \/ End \/ TakeBack \/ DayPasses

Spec == Init /\ [][Next]_all
=============================================================================
