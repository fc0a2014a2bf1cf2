------------------------------- MODULE Portal -------------------------------
(***************************************************************************)
(* One user in front of one page of the site, looking at one row of it,    *)
(* while other users change that row and the salon's plan may lapse.       *)
(*                                                                         *)
(* A page shows the row as it was last read.  A button sends its action if *)
(* the row, as shown, offers it; the server takes the actions of a browser *)
(* one at a time, in the order they were sent, and each answer reaches the *)
(* screen later, when the row may be another.                              *)
(***************************************************************************)
EXTENDS Routes, Naturals, Sequences

CONSTANTS
    Site,       \* the pages (module Pages)
    MaxSent,    \* requests the user sends
    MaxOthers   \* changes other users make

ASSUME PortalAssumption == MaxSent \in Nat /\ MaxOthers \in Nat

VARIABLES
    page,                   \* the page looked at, and who looks at what on it;
    role, mine, kind,       \* mine: a professional's page is his own
    row, shown,             \* the row, and as the screen shows it
    view,                   \* what became of the page
    lapsed, blocked,        \* the salon's plan lapsed; the dashboard's frame knows
    sent,                   \* the requests whose answer has not arrived, oldest first
    unseen,                 \* the controls whose outcome the screen did not show
    refused,                \* the last request refused
    count, others

screenVars == <<row, shown, view, lapsed, blocked, sent, unseen, refused, count, others>>
vars == <<page, role, mine, kind, screenVars>>

Shows == page.shows[kind]
Controls == DOMAIN Shows.controls
RowsOf(held) == UNION {{m[1], m[2]} : m \in held.moves}
Nobody == "nobody"

TypeOK ==
    /\ role \in page.for /\ mine \in BOOLEAN /\ kind \in DOMAIN page.shows
    /\ row \in RowsOf(Shows) /\ shown \in RowsOf(Shows)
    /\ view \in {"closed", "whole", "empty", "told", "broken", "away", "left"}
    /\ lapsed \in BOOLEAN /\ blocked \in BOOLEAN
    /\ \A i \in DOMAIN sent : sent[i].control \in Controls /\ sent[i].answer \in {"none", "done", "refused"}
    /\ unseen \subseteq Controls /\ Len(sent) <= MaxSent
    /\ count \in 0..MaxSent /\ others \in 0..MaxOthers

-----------------------------------------------------------------------------
(* Opening the page *)

Answers(route) == Allows(route, role, mine, lapsed)

\* What is on the screen once the page is read.
Read ==
    IF \E route \in page.loud : ~Answers(route) THEN "broken"
    ELSE IF \E route \in page.told : ~Answers(route) THEN "told"
    ELSE IF \E route \in page.quiet : ~Answers(route) THEN "empty"
    ELSE "whole"

\* The gate of the dashboard takes a user it knows to be blocked to the page of the plan.
Inside == page.for \subseteq Staff
Gated == Inside /\ page.name # "plano"
Behind(gate) == IF Gated /\ gate THEN "away" ELSE Read

\* The frame is read when the user arrives, and taken for open when that read fails.
Arrive ==
    /\ view = "closed"
    /\ \E gate \in {lapsed, FALSE} : blocked' = gate /\ view' = Behind(gate)
    /\ shown' = row
    /\ UNCHANGED <<page, role, mine, kind, row, lapsed, sent, unseen, refused, count, others>>

\* Coming back to it from another page: the frame stays as it was.
Return ==
    /\ view \in {"whole", "empty", "told"} /\ sent = <<>>
    /\ view' = Behind(blocked) /\ shown' = row /\ unseen' = {}
    /\ UNCHANGED <<page, role, mine, kind, row, lapsed, blocked, sent, refused, count, others>>

-----------------------------------------------------------------------------
(* Using it *)

\* Disabled while a request of its own is on its way.
Idle(c) == Shows.controls[c].once => \A i \in DOMAIN sent : sent[i].control # c

Press(c) ==
    /\ view = "whole" /\ count < MaxSent
    /\ role \in Shows.controls[c].for /\ shown \in Shows.controls[c].in /\ Idle(c)
    /\ sent' = Append(sent, [control |-> c, about |-> shown, answer |-> "none", left |-> shown])
    /\ count' = count + 1
    /\ UNCHANGED <<page, role, mine, kind, row, shown, view, lapsed, blocked, unseen, refused, others>>

\* The server takes the oldest request nobody answered.
Serve ==
    /\ sent # <<>> /\ Head(sent).answer = "none"
    /\ LET route == Shows.controls[Head(sent).control].action.route
           moves == {m \in route.moves : m[1] = row}
       IN  \/ /\ Answers(route)
              /\ \E m \in moves :
                    /\ row' = m[2]
                    /\ sent' = [sent EXCEPT ![1].answer = "done", ![1].left = m[2]]
              /\ UNCHANGED refused
           \/ /\ ~Answers(route) \/ moves = {}
              /\ sent' = [sent EXCEPT ![1].answer = "refused"]
              /\ refused' = [control |-> Head(sent).control, stale |-> Head(sent).about # row]
              /\ UNCHANGED row
    /\ UNCHANGED <<page, role, mine, kind, shown, view, lapsed, blocked, unseen, count, others>>

\* The screen learns that the request was carried out.
Shown(c, left) ==
    CASE Shows.controls[c].action.then = "leave" -> view' = "left" /\ UNCHANGED <<shown, blocked, unseen>>
      [] Shows.controls[c].action.then = "answer" -> shown' = left /\ unseen' = {} /\ UNCHANGED <<view, blocked>>
      [] Shows.controls[c].action.then = "reload" ->
            IF lapsed THEN view' = "told" /\ UNCHANGED <<shown, blocked, unseen>>
            ELSE shown' = row /\ unseen' = {} /\ UNCHANGED <<view, blocked>>
      [] Shows.controls[c].action.then = "render" ->
            blocked' = lapsed /\ view' = Behind(lapsed) /\ shown' = left /\ unseen' = {}
      [] OTHER ->
            /\ unseen' = IF shown = left THEN unseen ELSE unseen \cup {c}
            /\ UNCHANGED <<shown, view, blocked>>

Answer ==
    /\ sent # <<>> /\ Head(sent).answer # "none"
    /\ LET c == Head(sent).control IN
        \/ Head(sent).answer = "done" /\ Shown(c, Head(sent).left)
        \/ /\ Head(sent).answer = "refused"
           /\ unseen' = IF Shows.controls[c].told THEN unseen ELSE unseen \cup {c}
           /\ UNCHANGED <<shown, view, blocked>>
    /\ sent' = Tail(sent)
    /\ UNCHANGED <<page, role, mine, kind, row, lapsed, refused, count, others>>

-----------------------------------------------------------------------------
(* What happens elsewhere *)

Other ==
    /\ others < MaxOthers
    /\ \E m \in Shows.moves : m[1] = row /\ row' = m[2]
    /\ others' = others + 1
    /\ UNCHANGED <<page, role, mine, kind, shown, view, lapsed, blocked, sent, unseen, refused, count>>

Lapse ==
    /\ ~lapsed /\ Inside
    /\ lapsed' = TRUE
    /\ UNCHANGED <<page, role, mine, kind, row, shown, view, blocked, sent, unseen, refused, count, others>>

Init ==
    /\ page \in Site /\ role \in page.for
    /\ mine = (page.name = "profissional")
    /\ kind \in DOMAIN page.shows
    /\ row \in RowsOf(Shows) /\ shown = row
    /\ view = "closed" /\ lapsed \in BOOLEAN /\ (lapsed => Inside) /\ blocked = FALSE
    /\ sent = <<>> /\ unseen = {} /\ refused = [control |-> Nobody, stale |-> FALSE]
    /\ count = 0 /\ others = 0

Next == Arrive \/ Return \/ (\E c \in Controls : Press(c)) \/ Serve \/ Answer \/ Other \/ Lapse

Spec == Init /\ [][Next]_vars

-----------------------------------------------------------------------------
(* Properties *)

\* Buttons whose page cannot know that the backend refuses them: the team is as large as the plan
\* allows or has appointments ahead, the gallery is full, the ticket exists or is the desk's to open,
\* and products are the owner's to change.
OfferedRegardless ==
    {<<"profissionais", "create">>, <<"profissionais", "activate">>, <<"profissionais", "deactivate">>,
     <<"configuracoes", "add">>, <<"agenda", "openTicket">>,
     <<"produtos", "create">>, <<"produtos", "update">>}

\* A button the screen offers is one the backend carries out: it is refused only when the row changed
\* after it was shown or the plan lapsed, save for the buttons offered regardless.  (The frontend's
\* copies of the transitions and of the roles against the backend's own.)
OfferedIsTaken ==
    refused.control # Nobody => \/ refused.stale \/ lapsed
                                \/ <<page.name, refused.control>> \in OfferedRegardless

\* Components that throw away the outcome of what they send, or keep what it makes old.
Deaf ==
    {<<"agenda", "openTicket">>, <<"financeiro", "settle">>, <<"financeiro", "cancel">>,
     <<"caixa", "close">>, <<"produtos", "update">>, <<"produtos", "stock">>,
     <<"marketplace", "hide">>, <<"marketplace", "report">>,
     <<"minhaConta", "end">>, <<"minhaConta", "endOthers">>}

\* What became of a request is on the screen once its answer arrived: the row as the request left it, or
\* why it was refused.  The components that are deaf to it are known.  (And the variables have their types.)
OutcomeSeen == TypeOK /\ \A c \in unseen : <<page.name, c>> \in Deaf

\* Pages a role is let into and whose reads are refused to it.
BrokenFor == {<<"relatorios", "PROFESSIONAL">>, <<"cliente", "PROFESSIONAL">>, <<"comanda", "PROFESSIONAL">>}

\* A page never breaks, nor shows as empty what it was refused, to a role it lets in, unless the plan
\* lapsed and the dashboard's frame does not know it.
OpensWhole ==
    view \in {"broken", "empty"} => \/ lapsed /\ ~blocked
                                    \/ view = "broken" /\ <<page.name, role>> \in BrokenFor
=============================================================================
