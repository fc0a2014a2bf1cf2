------------------------------- MODULE Ledger -------------------------------
(***************************************************************************)
(* A salon's financial entries and their categories (finance.service.ts).  *)
(*                                                                         *)
(* Requests read, check and then write by id: the write carries no         *)
(* condition on what was read.                                             *)
(***************************************************************************)
EXTENDS Integers

CONSTANTS
    Calls,          \* requests in progress at once
    Names,          \* of categories
    Sales, Commissions, \* names the tickets and the payouts look for
    Defaults,       \* DEFAULT_CATEGORIES
    EntryIds,
    NoCategory

\* Assumed of the constants by whoever instantiates the module.
LedgerAssumption ==
    /\ {Sales, Commissions} \subseteq Names
    /\ \A c \in Defaults : c.name \in Names /\ c.direction \in {"INCOME", "EXPENSE"}
    /\ NoCategory \notin Names

VARIABLES
    categories, \* the salon's FinancialCategory rows
    entries,    \* entries[i]: a FinancialEntry, None before it is created
    call        \* call[c]: a request and what it has read

ledgerVars == <<categories, entries, call>>

None == [source |-> "none"]
IdleCall == [pc |-> "idle", id |-> 0, overtaken |-> FALSE]

Directions == {"INCOME", "EXPENSE"}
Category == [name : Names, direction : Directions, isArchived : BOOLEAN]
EntryRow == [source : {"MANUAL", "TICKET", "COMMISSION"}, direction : Directions,
             status : {"PENDING", "PAID", "CANCELED"}, category : Names \cup {NoCategory}]

\* A ticket's income is never cancelled here, and what the system writes is born paid.
TypeOK ==
    /\ categories \subseteq Category
    /\ \A a, b \in categories : a.name = b.name /\ a.direction = b.direction => a = b
    /\ \A i \in EntryIds : \/ entries[i] = None
                           \/ entries[i] \in EntryRow
    /\ \A i \in EntryIds : entries[i].source = "TICKET" => entries[i].status = "PAID"
    /\ \A c \in Calls : call[c].pc = "settle" => entries[call[c].id] # None

Reply(c, record) == call' = [call EXCEPT ![c] = record]

-----------------------------------------------------------------------------
(* Categories *)

Same(a, b) == a.name = b.name /\ a.direction = b.direction
Holds(name, direction) == \E k \in categories : k.name = name /\ k.direction = direction
Lookup(name, direction) == IF Holds(name, direction) THEN name ELSE NoCategory

\* The first look at the finances creates the defaults, those there are already being skipped.
ListCategories(c) ==
    /\ call[c].pc = "idle" /\ categories = {}
    /\ Reply(c, [IdleCall EXCEPT !.pc = "defaults"])
    /\ UNCHANGED <<categories, entries>>

CreateDefaults(c) ==
    /\ call[c].pc = "defaults"
    /\ categories' = categories \cup {d \in Defaults : ~\E k \in categories : Same(k, d)}
    /\ Reply(c, IdleCall)
    /\ UNCHANGED entries

\* The unique index on name and direction is what refuses a second one.
CreateCategory(name, direction) ==
    /\ ~Holds(name, direction)
    /\ categories' = categories \cup {[name |-> name, direction |-> direction, isArchived |-> FALSE]}
    /\ UNCHANGED <<entries, call>>

\* A renamed category takes its entries along.
UpdateCategory(k, name, archived) ==
    /\ name # k.name => ~Holds(name, k.direction)
    /\ categories' = (categories \ {k}) \cup
                         {[name |-> name, direction |-> k.direction, isArchived |-> archived]}
    /\ entries' = [i \in EntryIds |->
           IF entries[i] # None /\ entries[i].category = k.name /\ entries[i].direction = k.direction
             THEN [entries[i] EXCEPT !.category = name] ELSE entries[i]]
    /\ UNCHANGED call

-----------------------------------------------------------------------------
(* Entries. Their source and direction never change, and no category is ever deleted. *)

Fits(category, direction) == category = NoCategory \/ Holds(category, direction)

CreateEntry(i, direction, category, paid) ==
    /\ entries[i] = None /\ Fits(category, direction)
    /\ entries' = [entries EXCEPT ![i] =
           [source |-> "MANUAL", direction |-> direction, category |-> category,
            status |-> IF paid THEN "PAID" ELSE "PENDING"]]
    /\ UNCHANGED <<categories, call>>

\* The income of a closed ticket and the expense of a payout, in the transactions that make them.
Record(i, source, direction, name) ==
    /\ entries[i] = None
    /\ entries' = [entries EXCEPT ![i] =
           [source |-> source, direction |-> direction, category |-> Lookup(name, direction),
            status |-> "PAID"]]
    /\ UNCHANGED <<categories, call>>

UpdateEntry(i, category) ==
    /\ entries[i].source = "MANUAL" /\ Fits(category, entries[i].direction)
    /\ entries' = [entries EXCEPT ![i].category = category]
    /\ UNCHANGED <<categories, call>>

\* settleEntry's check.
Settleable(e) == e.status = "PENDING"

SettleRead(c, i) ==
    /\ call[c].pc = "idle" /\ entries[i] # None /\ Settleable(entries[i])
    /\ Reply(c, [IdleCall EXCEPT !.pc = "settle", !.id = i])
    /\ UNCHANGED <<categories, entries>>

SettleWrite(c) ==
    /\ call[c].pc = "settle"
    /\ entries' = [entries EXCEPT ![call[c].id].status = "PAID"]
    /\ Reply(c, IdleCall)
    /\ UNCHANGED categories

\* A settlement on its way is overtaken.
CancelEntry(i) ==
    /\ entries[i].source \in {"MANUAL", "COMMISSION"}
    /\ entries' = [entries EXCEPT ![i].status = "CANCELED"]
    /\ call' = [c \in Calls |->
           IF call[c].pc = "settle" /\ call[c].id = i THEN [call[c] EXCEPT !.overtaken = TRUE]
           ELSE call[c]]
    /\ UNCHANGED categories

-----------------------------------------------------------------------------

Init ==
    /\ categories = {}
    /\ entries = [i \in EntryIds |-> None]
    /\ call = [c \in Calls |-> IdleCall]

Next ==
    \/ \E c \in Calls :
         \/ ListCategories(c) \/ CreateDefaults(c) \/ SettleWrite(c)
         \/ \E i \in EntryIds : SettleRead(c, i)
    \/ \E name \in Names, direction \in Directions : CreateCategory(name, direction)
    \/ \E k \in categories, name \in Names, archived \in BOOLEAN : UpdateCategory(k, name, archived)
    \/ \E i \in EntryIds :
         \/ Record(i, "TICKET", "INCOME", Sales) \/ Record(i, "COMMISSION", "EXPENSE", Commissions)
         \/ CancelEntry(i)
         \/ \E category \in Names \cup {NoCategory} :
              \/ UpdateEntry(i, category)
              \/ \E direction \in Directions, paid \in BOOLEAN : CreateEntry(i, direction, category, paid)

Spec == Init /\ [][Next]_ledgerVars

-----------------------------------------------------------------------------
(* Properties *)

\* A cancelled entry counts as paid again only by a settlement that had read it before it was
\* cancelled: settleEntry refuses cancelled entries, and then writes by id alone.
CanceledBackOnlyIfOvertaken ==
    [][\A i \in EntryIds :
         entries[i] # None /\ entries[i].status = "CANCELED" /\ entries'[i].status # "CANCELED"
           => \E c \in Calls : call[c].pc = "settle" /\ call[c].id = i /\ call[c].overtaken]_ledgerVars
=============================================================================
