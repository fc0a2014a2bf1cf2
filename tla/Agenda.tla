------------------------------- MODULE Agenda -------------------------------
(***************************************************************************)
(* The appointment book of a salon: appointments.service.ts,               *)
(* time-blocks.service.ts, the activation of professionals in              *)
(* professionals.service.ts and the EXCLUDE constraint of the Appointment  *)
(* table.                                                                  *)
(*                                                                         *)
(* Every HTTP request is a process.  What it reads before its first await  *)
(* on a write is one step (...Begin); what it writes is another            *)
(* (...Commit).  Bookings and reschedules have a step between the two: the *)
(* transaction takes the professional's advisory lock and looks for a      *)
(* conflict (LockAndCheck).  A write and the commit of its transaction are *)
(* one step, because nobody sees the write before the commit.              *)
(***************************************************************************)
EXTENDS Integers, FiniteSets

CONSTANTS
    Appts,          \* ids that rows of the Appointment table may get
    Pros,           \* professionals of the salon
    BlockIds,       \* ids that rows of the TimeBlock table may get
    Requests,       \* HTTP requests that may be in progress at once
    Horizon,        \* last instant an appointment may end at (a bound)
    LastTick,       \* the clock stops here (a bound)
    Durations,      \* durations a list of services may add up to
    StaffTolerance, \* how far in the past the reception may book (2 minutes)
    NoAppt, NoPro, NoRequest

ASSUME AgendaAssumption ==
    /\ Horizon \in Nat \ {0} /\ LastTick \in Nat
    /\ Durations \subseteq Nat \ {0}
    /\ StaffTolerance \in Nat
    /\ NoAppt \notin Appts /\ NoPro \notin Pros /\ NoRequest \notin Requests

VARIABLES
    appt,       \* appt[a]: the row of appointment a
    blocks,     \* the rows of TimeBlock
    active,     \* active[p]: Professional.isActive
    lock,       \* lock[p]: the request whose transaction holds p's advisory lock
    req,        \* req[r]: where request r stands and what it will write
    now,        \* the server's clock
    freed       \* history: appointments that stopped occupying a slot at least once

vars == <<appt, blocks, active, lock, req, now, freed>>

Instants == 0 .. Horizon

\* "NONE" stands for a row that does not exist yet.
Statuses == {"NONE", "SCHEDULED", "CONFIRMED", "IN_SERVICE", "COMPLETED",
             "NO_SHOW", "CANCELED"}

SlotBlocking == {"SCHEDULED", "CONFIRMED", "IN_SERVICE"}

StatusTransitions ==
    [NONE       |-> {},
     SCHEDULED  |-> {"CONFIRMED", "NO_SHOW", "CANCELED"},
     CONFIRMED  |-> {"IN_SERVICE", "NO_SHOW", "COMPLETED", "CANCELED"},
     IN_SERVICE |-> {"COMPLETED", "CONFIRMED"},
     COMPLETED  |-> {},
     NO_SHOW    |-> {"CONFIRMED"},
     CANCELED   |-> {}]

\* The targets the status endpoint's DTO lets through.
StaffSettable == {"CONFIRMED", "IN_SERVICE", "COMPLETED", "NO_SHOW"}

NoRow   == [status |-> "NONE", pro |-> NoPro, from |-> 0, to |-> 1]
IdleReq == [pc |-> "idle", op |-> "none", appt |-> NoAppt, pro |-> NoPro,
            from |-> 0, to |-> 1, status |-> "NONE"]

\* What a request has decided to write when it first gives way to the others.
Ask(op, a, p, from, to, status) ==
    [pc |-> "begun", op |-> op, appt |-> a, pro |-> p, from |-> from, to |-> to,
     status |-> status]

Rows == {x \in [status : Statuses, pro : Pros \cup {NoPro}, from : Instants, to : Instants] :
            x.from < x.to}
Asks == {q \in [pc     : {"idle", "begun", "checked"},
                op     : {"none", "book", "move", "status", "block", "deactivate"},
                appt   : Appts \cup {NoAppt},
                pro    : Pros \cup {NoPro},
                from   : Instants,
                to     : Instants,
                status : Statuses] : q.from < q.to}

TypeOK ==
    /\ appt \in [Appts -> Rows]
    /\ blocks \subseteq {b \in [id : BlockIds, pro : Pros, from : Instants, to : Instants] :
                            b.from < b.to}
    /\ active \in [Pros -> BOOLEAN]
    /\ lock \in [Pros -> Requests \cup {NoRequest}]
    /\ req \in [Requests -> Asks]
    /\ now \in Nat
    /\ freed \subseteq Appts

-----------------------------------------------------------------------------
(* Conflicts *)

Overlap(s, t) == s.pro = t.pro /\ s.from < t.to /\ t.from < s.to

Occupies(row) == row.status \in SlotBlocking

\* assertNoConflict: no other occupying appointment and no time block meets q.
NoConflict(q) ==
    /\ \A a \in Appts \ {q.appt} : Occupies(appt[a]) => ~Overlap(appt[a], q)
    /\ \A b \in blocks : ~Overlap(b, q)

\* The partial index of the constraint as the first migration had it.
ExclusionOldIndex(a, row) ==
    row.status = "CONFIRMED" =>
        \A b \in Appts \ {a} :
            appt[b].status = "CONFIRMED" => ~Overlap(appt[b], row)

\* appointment_no_overlap: may row become the row of appointment a?
Exclusion(a, row) ==
    Occupies(row) =>
        \A b \in Appts \ {a} : Occupies(appt[b]) => ~Overlap(appt[b], row)

\* parseFutureDate (clients) and parseStaffDate (reception).
AcceptsStart(by, from) ==
    IF by = "client" THEN from > now ELSE from > now - StaffTolerance

\* startAt alone, were the duration forgotten.
EndForgotten(from, d) == from
\* startAt.plus({ minutes })
EndOf(from, d) == from + d

-----------------------------------------------------------------------------
(* Locks and requests *)

\* The professional a transaction locks, were it the one the row is leaving.
LockKeyOfSource(q) == IF q.op = "move" THEN appt[q.appt].pro ELSE q.pro
\* The professional whose advisory lock the transaction of q takes.
LockKey(q) == q.pro

\* The end of a transaction releases its advisory lock.
ReleaseLock(r) == lock' = [p \in Pros |-> IF lock[p] = r THEN NoRequest ELSE lock[p]]

Idle(r) == req[r].pc = "idle"
Begin(r, q) ==
    /\ Idle(r)
    /\ req' = [req EXCEPT ![r] = q]
    /\ UNCHANGED <<appt, blocks, active, lock, now, freed>>
At(r, pc, op) == req[r].pc = pc /\ req[r].op = op
Finish(r) == req' = [req EXCEPT ![r] = IdleReq]

\* Appointment a gets this row; its slot, if it leaves one, is remembered.
WriteRow(a, row) ==
    /\ appt' = [appt EXCEPT ![a] = row]
    /\ freed' = IF Occupies(appt[a]) /\ ~Occupies(row) THEN freed \cup {a} ELSE freed
    /\ UNCHANGED <<blocks, active, now>>

\* The constraint refuses the write: the transaction rolls back, the answer is 409.
Refused(r) == Finish(r) /\ UNCHANGED <<appt, blocks, active, now, freed>>

-----------------------------------------------------------------------------
(* createFromPublicLink and createByStaff *)

\* Ids left for the rows that the bookings in progress may insert (a bound).
RowsLeft ==
    Cardinality({a \in Appts : appt[a].status = "NONE"})
        > Cardinality({r \in Requests : req[r].op = "book"})

BookBegin(r, by, p, from, d) ==
    /\ RowsLeft
    /\ active[p]
    /\ AcceptsStart(by, from)
    /\ EndOf(from, d) \in Instants
    /\ \E status \in IF by = "client" THEN {"CONFIRMED"} ELSE {"SCHEDULED", "CONFIRMED"} :
           Begin(r, Ask("book", NoAppt, p, from, EndOf(from, d), status))

\* lockProfessional, then assertNoConflict: a conflict ends the transaction.
LockAndCheck(r) ==
    LET q == req[r] IN
    /\ q.pc = "begun" /\ q.op \in {"book", "move"}
    /\ lock[LockKey(q)] = NoRequest
    /\ IF NoConflict(q)
         THEN /\ lock' = [lock EXCEPT ![LockKey(q)] = r]
              /\ req' = [req EXCEPT ![r].pc = "checked"]
         ELSE Finish(r) /\ UNCHANGED lock
    /\ UNCHANGED <<appt, blocks, active, now, freed>>

BookCommit(r) ==
    /\ At(r, "checked", "book")
    /\ \E a \in Appts :
           LET row == [status |-> req[r].status, pro |-> req[r].pro,
                       from |-> req[r].from, to |-> req[r].to] IN
           /\ appt[a].status = "NONE"
           /\ IF Exclusion(a, row) THEN WriteRow(a, row) /\ Finish(r) ELSE Refused(r)
    /\ ReleaseLock(r)

-----------------------------------------------------------------------------
(* rescheduleByStaff and rescheduleForConsumer *)

\* The status is read here and not looked at again when the row is written.
MoveBegin(r, by, a, p, from, d) ==
    /\ appt[a].status \in {"CONFIRMED", "SCHEDULED"}
    /\ active[p]
    /\ AcceptsStart(by, from)
    /\ EndOf(from, d) \in Instants
    /\ Begin(r, Ask("move", a, p, from, EndOf(from, d), "NONE"))

MoveCommit(r) ==
    LET a   == req[r].appt
        row == [status |-> appt[a].status, pro |-> req[r].pro,
                from |-> req[r].from, to |-> req[r].to] IN
    /\ At(r, "checked", "move")
    /\ IF Exclusion(a, row) THEN WriteRow(a, row) /\ Finish(r) ELSE Refused(r)
    /\ ReleaseLock(r)

-----------------------------------------------------------------------------
(* updateStatus, cancelByStaff and cancelForConsumer *)

StatusBegin(r, a, status) ==
    /\ status \in StatusTransitions[appt[a].status] \cap StaffSettable
    /\ Begin(r, Ask("status", a, NoPro, 0, 1, status))

CancelBegin(r, by, a) ==
    /\ appt[a].status \notin {"NONE", "CANCELED", "COMPLETED"}
    /\ by = "client" => appt[a].status \in {"SCHEDULED", "CONFIRMED"}
    /\ Begin(r, Ask("status", a, NoPro, 0, 1, "CANCELED"))

\* appointment.update by id alone: neither a lock nor the status read is rechecked.
StatusCommit(r) ==
    LET a   == req[r].appt
        row == [status |-> req[r].status, pro |-> appt[a].pro,
                from |-> appt[a].from, to |-> appt[a].to] IN
    /\ At(r, "begun", "status")
    /\ IF Exclusion(a, row) THEN WriteRow(a, row) /\ Finish(r) ELSE Refused(r)
    /\ UNCHANGED lock

-----------------------------------------------------------------------------
(* Time blocks *)

\* The check, were it to forget the appointments being served.
BlockConflictFewer(p, from, to) ==
    \E a \in Appts : appt[a].status \in {"SCHEDULED", "CONFIRMED"}
                     /\ Overlap(appt[a], [pro |-> p, from |-> from, to |-> to])

BlockConflict(p, from, to) ==
    \E a \in Appts : Occupies(appt[a])
                     /\ Overlap(appt[a], [pro |-> p, from |-> from, to |-> to])

BlockBegin(r, p, from, to) ==
    /\ Cardinality(blocks) + Cardinality({x \in Requests : req[x].op = "block"})
         < Cardinality(BlockIds)   \* a bound
    /\ from < to
    /\ ~BlockConflict(p, from, to)
    /\ Begin(r, Ask("block", NoAppt, p, from, to, "NONE"))

BlockCommit(r) ==
    /\ At(r, "begun", "block")
    /\ \E i \in BlockIds \ {b.id : b \in blocks} :
           blocks' = blocks \cup {[id |-> i, pro |-> req[r].pro,
                                   from |-> req[r].from, to |-> req[r].to]}
    /\ Finish(r)
    /\ UNCHANGED <<appt, active, lock, now, freed>>

RemoveBlock(b) ==
    /\ blocks' = blocks \ {b}
    /\ UNCHANGED <<appt, active, lock, req, now, freed>>

-----------------------------------------------------------------------------
(* Professionals *)

FutureOccupied(p) ==
    \E a \in Appts : Occupies(appt[a]) /\ appt[a].pro = p /\ appt[a].from > now

\* Deactivation without a look at the agenda ahead.
DeactivateUnchecked(r, p) ==
    /\ active[p]
    /\ Begin(r, Ask("deactivate", NoAppt, p, 0, 1, "NONE"))
DeactivateBegin(r, p) ==
    /\ active[p]
    /\ ~FutureOccupied(p)
    /\ Begin(r, Ask("deactivate", NoAppt, p, 0, 1, "NONE"))

DeactivateCommit(r) ==
    /\ At(r, "begun", "deactivate")
    /\ active' = [active EXCEPT ![req[r].pro] = FALSE]
    /\ Finish(r)
    /\ UNCHANGED <<appt, blocks, lock, now, freed>>

\* assertCanAddProfessional can only refuse this; see the README.
Reactivate(p) ==
    /\ ~active[p]
    /\ active' = [active EXCEPT ![p] = TRUE]
    /\ UNCHANGED <<appt, blocks, lock, req, now, freed>>

Tick ==
    /\ now < LastTick
    /\ now' = now + 1
    /\ UNCHANGED <<appt, blocks, active, lock, req, freed>>

-----------------------------------------------------------------------------
Init ==
    /\ appt = [a \in Appts |-> NoRow]
    /\ blocks = {}
    /\ active = [p \in Pros |-> TRUE]
    /\ lock = [p \in Pros |-> NoRequest]
    /\ req = [r \in Requests |-> IdleReq]
    /\ now = 0
    /\ freed = {}

Callers == {"client", "staff"}

\* A request arrives and is read against the committed state.
Arrive(r) ==
    \/ \E by \in Callers, p \in Pros, from \in Instants, d \in Durations :
           BookBegin(r, by, p, from, d)
    \/ \E by \in Callers, a \in Appts, p \in Pros, from \in Instants, d \in Durations :
           MoveBegin(r, by, a, p, from, d)
    \/ \E a \in Appts, status \in StaffSettable : StatusBegin(r, a, status)
    \/ \E by \in Callers, a \in Appts : CancelBegin(r, by, a)
    \/ \E p \in Pros, from \in Instants, to \in Instants : BlockBegin(r, p, from, to)
    \/ \E p \in Pros : DeactivateBegin(r, p)

\* The write a request ends with.
Commit(r) == BookCommit(r) \/ MoveCommit(r) \/ StatusCommit(r) \/ BlockCommit(r)
             \/ DeactivateCommit(r)

Next ==
    \/ \E r \in Requests : Arrive(r) \/ LockAndCheck(r) \/ Commit(r)
    \/ \E b \in blocks : RemoveBlock(b)
    \/ \E p \in Pros : Reactivate(p)
    \/ Tick

Spec == Init /\ [][Next]_vars

-----------------------------------------------------------------------------
(* Properties *)

\* No two occupying appointments of a professional overlap, whatever the requests
\* in progress (the constraint of the migration, and the locks above it).
NoDoubleBooking ==
    \A a, b \in Appts :
        a # b /\ Occupies(appt[a]) /\ Occupies(appt[b]) => ~Overlap(appt[a], appt[b])

\* From the conflict check to the write, the advisory lock keeps every newly taken
\* slot away from the one just checked (lockProfessional, assertNoConflict).  Only
\* an appointment that had freed its slot can take it back in between, because
\* updateStatus takes no lock: that is all the constraint is left to stop.
LockProtects ==
    \A r \in Requests : \A a \in Appts \ {req[r].appt} :
        req[r].pc = "checked" /\ Occupies(appt[a]) /\ Overlap(appt[a], req[r]) => a \in freed

\* With requests served one at a time, an appointment and a time block overlap only
\* when the appointment came back from NO_SHOW (TimeBlocksService.create and
\* assertNoConflict look at each other's table; updateStatus looks at neither).
BlockOverlapOnlyIfFreed ==
    \A a \in Appts : \A b \in blocks :
        Occupies(appt[a]) /\ Overlap(appt[a], b) => a \in freed

\* With requests served one at a time, a future appointment of a deactivated
\* professional is one that came back from NO_SHOW (ProfessionalsService.update
\* refuses to deactivate while the agenda ahead is occupied).
OrphanOnlyIfFreed ==
    \A a \in Appts :
        Occupies(appt[a]) /\ appt[a].from > now /\ ~active[appt[a].pro] => a \in freed

\* STATUS_TRANSITIONS gives COMPLETED and CANCELED no way out, and neither is
\* rescheduled: the row of such an appointment does not change any more.
FinalIsFinal ==
    [][\A a \in Appts : appt[a].status \in {"COMPLETED", "CANCELED"} => appt'[a] = appt[a]]_vars

NoSlot == [pro |-> "nobody", from |-> 0, to |-> 0]
SlotOf(row) == IF Occupies(row) THEN [pro |-> row.pro, from |-> row.from, to |-> row.to]
                                ELSE NoSlot

Calendar == INSTANCE SlotCalendar WITH held <- [a \in Appts |-> SlotOf(appt[a])]

\* The agenda implements the abstract calendar.
ImplementsCalendar == Calendar!Spec
=============================================================================
