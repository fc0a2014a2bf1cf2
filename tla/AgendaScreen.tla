---------------------------- MODULE AgendaScreen ----------------------------
(***************************************************************************)
(* AgendaView: the day and the professional the staff chose, the calendar  *)
(* the browser last got, and the panel and the dialog that change it.  The *)
(* server actions of a browser run one at a time, in the order they were   *)
(* sent; each answer does what the screen that sent it had planned, however *)
(* far the user has gone since.                                            *)
(***************************************************************************)
EXTENDS Naturals, Sequences, FiniteSets

CONSTANTS
    Days,       \* the days the staff looks at, neighbours by number
    Team,       \* the active professionals
    Everyone,   \* no filter
    MaxQueue,   \* actions on their way at once
    MaxSaved    \* changes the user saves

\* Assumed of the constants by whoever instantiates the module.
ScreenAssumption ==
    Days \subseteq Nat /\ Days # {} /\ Everyone \notin Team /\ MaxQueue \in Nat /\ MaxSaved \in Nat

VARIABLES
    date, filter,   \* as the header and the selector show them
    calendar,       \* what was loaded: of which day, whose, after how many changes of ours
    loadError,
    options,        \* the professionals the selector lists
    panel, dialog,  \* the appointment's panel and the new one's dialog: closed, open, or saving
    queue,          \* the server actions on their way, oldest first
    saved,          \* changes of ours the backend took
    astray          \* the user moved while a change was on its way

screenVars == <<date, filter, calendar, loadError, options, panel, dialog, queue, saved, astray>>

Load(d, f) == [op |-> "load", date |-> d, filter |-> f]
Change(op) == [op |-> op, date |-> date, filter |-> filter]
Changes(ops) == {i \in DOMAIN queue : queue[i].op \in ops}

TypeOK ==
    /\ date \in Days /\ filter \in Team \cup {Everyone} /\ options \subseteq Team
    /\ calendar \in [date : Days, filter : Team \cup {Everyone}, saved : 0..saved]
    /\ loadError \in BOOLEAN /\ astray \in BOOLEAN
    /\ panel \in {"closed", "open", "saving"} /\ dialog \in {"closed", "open", "saving"}
    /\ \A i \in DOMAIN queue : queue[i].op \in {"load", "change", "create"}

-----------------------------------------------------------------------------
(* Moving: under the panel or the dialog nothing else can be clicked *)

Bare == panel = "closed" /\ dialog = "closed" /\ Len(queue) < MaxQueue

reload(d, f) == queue' = Append(queue, Load(d, f)) /\ astray' = (astray \/ Changes({"change", "create"}) # {})

ShiftDay(d) ==
    /\ Bare /\ d \in Days \ {date}
    /\ date' = d /\ reload(d, filter)
    /\ UNCHANGED <<filter, calendar, loadError, options, panel, dialog, saved>>

\* The selector is there when it has more than one name to choose from.
Choose(f) ==
    /\ Bare /\ f # filter /\ f \in options \cup {Everyone} /\ \E p, q \in options : p # q
    /\ filter' = f /\ reload(date, f)
    /\ UNCHANGED <<date, calendar, loadError, options, panel, dialog, saved>>

TryAgain ==
    /\ Bare /\ loadError
    /\ reload(date, filter)
    /\ UNCHANGED <<date, filter, calendar, loadError, options, panel, dialog, saved>>

-----------------------------------------------------------------------------
(* Changing the agenda *)

\* The columns: those the calendar has, nobody until a first load, and the filter keeps.
columns == {p \in options : calendar.filter \in {Everyone, p} /\ filter \in {Everyone, p}}

\* An appointment of the day, or a new one: its button is there also when the day could not be loaded.
Open ==
    /\ Bare /\ columns # {}
    /\ \/ ~loadError /\ panel' = "open" /\ UNCHANGED dialog
       \/ dialog' = "open" /\ UNCHANGED panel
    /\ UNCHANGED <<date, filter, calendar, loadError, options, queue, saved, astray>>

\* Escape, the cross or a click outside, also while the change is on its way.
Close ==
    /\ panel # "closed" \/ dialog # "closed"
    /\ panel' = "closed" /\ dialog' = "closed"
    /\ UNCHANGED <<date, filter, calendar, loadError, options, queue, saved, astray>>

\* The buttons are disabled while their own change is on its way.
Save ==
    /\ Len(queue) < MaxQueue /\ saved + Cardinality(Changes({"change", "create"})) < MaxSaved
    /\ \/ panel = "open" /\ panel' = "saving" /\ queue' = Append(queue, Change("change")) /\ UNCHANGED dialog
       \/ dialog = "open" /\ dialog' = "saving" /\ queue' = Append(queue, Change("create")) /\ UNCHANGED panel
    /\ UNCHANGED <<date, filter, calendar, loadError, options, saved, astray>>

-----------------------------------------------------------------------------
(* The answers, in the order the actions were sent *)

\* Variant: whoever the last load brought.
NamesLoaded(f) == IF f = Everyone THEN Team ELSE {f}

\* The names of the selector: those of the last load without a filter.
Names(f) == IF f = Everyone THEN Team ELSE options

\* Whatever was loaded, the panel closes: its appointment may be gone.
Loaded ==
    /\ queue # <<>> /\ Head(queue).op = "load"
    /\ queue' = Tail(queue) /\ panel' = "closed"
    /\ \/ /\ calendar' = [date |-> Head(queue).date, filter |-> Head(queue).filter, saved |-> saved]
          /\ options' = Names(Head(queue).filter)
          /\ loadError' = FALSE
       \/ loadError' = TRUE /\ UNCHANGED <<calendar, options>>
    /\ UNCHANGED <<date, filter, dialog, saved, astray>>

\* Taken: the sender's onChanged or onCreated loads the day it was on, and the dialog closes.
\* Refused: the sender, if it is still there, shows why.
Answered ==
    /\ queue # <<>> /\ Head(queue).op # "load"
    /\ LET op == Head(queue).op
           Back(s) == IF s = "saving" /\ Cardinality(Changes({op})) = 1 THEN "open" ELSE s
       IN  /\ panel' = IF op = "change" THEN Back(panel) ELSE panel
           /\ \/ /\ saved' = saved + 1
                 /\ queue' = Append(Tail(queue), Load(Head(queue).date, Head(queue).filter))
                 /\ dialog' = IF op = "create" THEN "closed" ELSE dialog
              \/ /\ queue' = Tail(queue)
                 /\ dialog' = IF op = "create" THEN Back(dialog) ELSE dialog
                 /\ UNCHANGED saved
    /\ UNCHANGED <<date, filter, calendar, loadError, options, astray>>

\* The page loads today's calendar; the screen opens on the error when it could not.
Init ==
    /\ date \in Days /\ filter = Everyone
    /\ calendar = [date |-> date, filter |-> Everyone, saved |-> 0]
    /\ loadError \in BOOLEAN
    /\ options = IF loadError THEN {} ELSE Team
    /\ panel = "closed" /\ dialog = "closed" /\ queue = <<>> /\ saved = 0 /\ astray = FALSE

Next ==
    \/ (\E d \in Days : ShiftDay(d)) \/ (\E f \in Team \cup {Everyone} : Choose(f)) \/ TryAgain
    \/ Open \/ Close \/ Save \/ Loaded \/ Answered

Spec == Init /\ [][Next]_screenVars

-----------------------------------------------------------------------------
(* Properties *)

\* Once nothing is on its way, the calendar is the one of the day and the professional on the screen,
\* with every change the user made, or the screen says it could not load it; and while a professional is
\* selected the selector still lists everyone ("senão o seletor sumia").  A user who leaves a panel while
\* its change is being saved and moves on is taken back: the answer loads the day the panel was opened
\* on, under the heading of the other.
ShowsItsDay ==
    /\ queue = <<>> /\ ~loadError /\ ~astray
        => calendar = [date |-> date, filter |-> filter, saved |-> saved]
    /\ filter # Everyone => options = Team
=============================================================================
