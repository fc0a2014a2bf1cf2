---------------------------- MODULE AgendaProofs ----------------------------
(* Proofs about the agenda, for any number of appointments, professionals, *)
(* requests and instants; the last part is about requests served one at a  *)
(* time.                                                                   *)
EXTENDS MCAgenda, TLAPS

-----------------------------------------------------------------------------
(* The inductive invariant *)

\* A lock is held exactly by the transaction that checked under it.
LockOwned ==
    /\ \A p \in Pros : lock[p] # NoRequest =>
           /\ req[lock[p]].pc = "checked" /\ req[lock[p]].pro = p
    /\ \A r \in Requests : req[r].pc = "checked" =>
           /\ req[r].op \in {"book", "move"}
           /\ req[r].pro \in Pros /\ lock[req[r].pro] = r

\* A request in progress carries what its write needs.
WellAimed(q) ==
    /\ q.op \in {"move", "status"} =>
           q.appt \in Appts /\ appt[q.appt].status # "NONE"
    /\ q.op \in {"book", "move", "block", "deactivate"} => q.pro \in Pros
    /\ q.op = "book" => q.appt = NoAppt /\ q.status \in SlotBlocking
    /\ q.op = "status" => q.status # "NONE"

\* A row that exists belongs to a professional.
Placed == \A a \in Appts : appt[a].status # "NONE" => appt[a].pro \in Pros

Targets == \A r \in Requests : WellAimed(req[r])

\* A row that exists and does not occupy its slot has freed it.
FreedKnown ==
    \A a \in Appts : appt[a].status = "NONE" \/ Occupies(appt[a]) \/ a \in freed

IInv == TypeOK /\ LockOwned /\ Targets /\ FreedKnown /\ Placed
        /\ NoDoubleBooking /\ LockProtects

-----------------------------------------------------------------------------
(* Requests that arrive *)

Arrivals == {q \in Asks : q.pc = "begun" /\ q.op # "none"}

LEMMA IdleIsAsk == IdleReq \in Asks
BY AgendaAssumption DEF Asks, IdleReq, Statuses, Instants

\* Whatever handler is called, what it leaves to do is well-typed and well-aimed.
LEMMA Arrival ==
    ASSUME TypeOK, NEW r \in Requests, Arrive(r)
    PROVE  \E q \in Arrivals : WellAimed(q) /\ Begin(r, q)
<1> DEFINE Goal == \E q \in Arrivals : WellAimed(q) /\ Begin(r, q)
<1> USE AgendaAssumption DEF Instants, EndOf, Arrivals, Asks, WellAimed, Ask
<1>1. ASSUME NEW by \in Callers, NEW p \in Pros, NEW from \in Instants, NEW d \in Durations,
             BookBegin(r, by, p, from, d)
      PROVE  Goal
  <2>1. PICK status \in {"SCHEDULED", "CONFIRMED"} :
            Begin(r, Ask("book", NoAppt, p, from, EndOf(from, d), status))
    BY <1>1, Zenon DEF BookBegin
  <2>2. Ask("book", NoAppt, p, from, EndOf(from, d), status) \in Arrivals
    BY <1>1 DEF BookBegin, Statuses
  <2>3. WellAimed(Ask("book", NoAppt, p, from, EndOf(from, d), status))
    BY DEF SlotBlocking
  <2> QED BY <2>1, <2>2, <2>3, Zenon
<1>2. ASSUME NEW by \in Callers, NEW a \in Appts, NEW p \in Pros, NEW from \in Instants,
             NEW d \in Durations, MoveBegin(r, by, a, p, from, d)
      PROVE  Goal
  <2>1. Ask("move", a, p, from, EndOf(from, d), "NONE") \in Arrivals
    BY <1>2 DEF MoveBegin, Statuses
  <2>2. WellAimed(Ask("move", a, p, from, EndOf(from, d), "NONE"))
    BY <1>2 DEF MoveBegin
  <2> QED BY <1>2, <2>1, <2>2, Zenon DEF MoveBegin
<1>3. ASSUME NEW a \in Appts, NEW status \in Statuses \ {"NONE"}, appt[a].status # "NONE"
      PROVE  /\ Ask("status", a, NoPro, 0, 1, status) \in Arrivals
             /\ WellAimed(Ask("status", a, NoPro, 0, 1, status))
  BY <1>3
<1>4. ASSUME NEW a \in Appts, NEW status \in StaffSettable, StatusBegin(r, a, status)
      PROVE  Goal
  <2>1. appt[a].status # "NONE"
    BY <1>4 DEF StatusBegin, StatusTransitions
  <2>2. status \in Statuses \ {"NONE"}
    BY DEF StaffSettable, Statuses
  <2> QED BY <1>3, <1>4, <2>1, <2>2, Zenon DEF StatusBegin
<1>5. ASSUME NEW by \in Callers, NEW a \in Appts, CancelBegin(r, by, a)
      PROVE  Goal
  <2>1. appt[a].status # "NONE" /\ "CANCELED" \in Statuses \ {"NONE"}
    BY <1>5 DEF CancelBegin, Statuses
  <2> QED BY <1>3, <1>5, <2>1, Zenon DEF CancelBegin
<1>6. ASSUME NEW p \in Pros, NEW from \in Instants, NEW to \in Instants,
             BlockBegin(r, p, from, to)
      PROVE  Goal
  <2>1. Ask("block", NoAppt, p, from, to, "NONE") \in Arrivals
    BY <1>6 DEF BlockBegin, Statuses
  <2>2. WellAimed(Ask("block", NoAppt, p, from, to, "NONE"))
    OBVIOUS
  <2> QED BY <1>6, <2>1, <2>2, Zenon DEF BlockBegin
<1>7. ASSUME NEW p \in Pros, DeactivateBegin(r, p)
      PROVE  Goal
  <2>1. Ask("deactivate", NoAppt, p, 0, 1, "NONE") \in Arrivals
    BY DEF Statuses
  <2>2. WellAimed(Ask("deactivate", NoAppt, p, 0, 1, "NONE"))
    OBVIOUS
  <2> QED BY <1>7, <2>1, <2>2, Zenon DEF DeactivateBegin
<1> QED BY <1>1, <1>2, <1>4, <1>5, <1>6, <1>7, Zenon DEF Arrive

LEMMA BeginKeeps ==
    ASSUME IInv, NEW r \in Requests, NEW q \in Arrivals, WellAimed(q), Begin(r, q)
    PROVE  IInv'
<1> USE DEF IInv, Begin, Idle
<1>1. TypeOK'
  BY DEF TypeOK, Arrivals
<1>3. \A x \in Requests : req'[x] = IF x = r THEN q ELSE req[x]
  BY DEF TypeOK
<1>4. LockOwned'
  BY <1>3, AgendaAssumption DEF LockOwned, TypeOK, Arrivals
<1>5. Targets'
  BY <1>3 DEF Targets, WellAimed
<1>6. FreedKnown' /\ Placed' /\ NoDoubleBooking'
  BY DEF FreedKnown, Placed, NoDoubleBooking, Occupies, Overlap
<1>7. LockProtects'
  BY <1>3 DEF LockProtects, Arrivals, Occupies, Overlap
<1> QED BY <1>1, <1>4, <1>5, <1>6, <1>7

-----------------------------------------------------------------------------
(* Locks *)

LEMMA LockAndCheckKeeps ==
    ASSUME IInv, NEW r \in Requests, LockAndCheck(r) PROVE IInv'
<1> USE AgendaAssumption DEF IInv
<1>1. /\ req[r].pc = "begun" /\ req[r].op \in {"book", "move"}
      /\ req[r].pro \in Pros /\ lock[req[r].pro] = NoRequest
  BY DEF LockAndCheck, LockKey, Targets, WellAimed
<1>2. UNCHANGED <<appt, blocks, active, now, freed>>
  BY DEF LockAndCheck
<1>3. CASE NoConflict(req[r])
  <2>1. /\ lock' = [lock EXCEPT ![req[r].pro] = r]
        /\ req' = [req EXCEPT ![r].pc = "checked"]
    BY <1>3 DEF LockAndCheck, LockKey
  <2>2. TypeOK'
    <3>1. [req[r] EXCEPT !.pc = "checked"] \in Asks
      BY DEF TypeOK, Asks
    <3>2. req' \in [Requests -> Asks]
      BY <2>1, <3>1 DEF TypeOK
    <3> QED BY <1>2, <2>1, <3>2 DEF TypeOK
  <2>3. \A x \in Requests :
            /\ x # r => req'[x] = req[x]
            /\ req'[x].op = req[x].op /\ req'[x].pro = req[x].pro
            /\ req'[x].appt = req[x].appt /\ req'[x].status = req[x].status
            /\ req'[x].from = req[x].from /\ req'[x].to = req[x].to
    BY <2>1 DEF TypeOK, Asks
  <2>4. req'[r].pc = "checked"
    BY <2>1 DEF TypeOK, Asks
  <2>5. LockOwned'
    BY <1>1, <2>1, <2>3, <2>4 DEF LockOwned, TypeOK
  <2>6. Targets'
    BY <1>2, <2>3 DEF Targets, WellAimed
  <2>7. FreedKnown' /\ Placed' /\ NoDoubleBooking'
    BY <1>2 DEF FreedKnown, Placed, NoDoubleBooking, Occupies, Overlap
  <2>8. LockProtects'
    BY <1>2, <1>3, <2>3, <2>4 DEF LockProtects, NoConflict, Occupies, Overlap
  <2> QED BY <2>2, <2>5, <2>6, <2>7, <2>8
<1>4. CASE ~NoConflict(req[r])
  <2>1. req' = [req EXCEPT ![r] = IdleReq] /\ lock' = lock
    BY <1>4 DEF LockAndCheck, Finish
  <2>2. TypeOK'
    BY <1>2, <2>1, IdleIsAsk DEF TypeOK
  <2>3. \A x \in Requests : req'[x] = IF x = r THEN IdleReq ELSE req[x]
    BY <2>1 DEF TypeOK
  <2>4. LockOwned'
    BY <1>1, <2>1, <2>3 DEF LockOwned, TypeOK, IdleReq
  <2>5. Targets'
    BY <1>2, <2>3 DEF Targets, WellAimed, IdleReq
  <2>6. FreedKnown' /\ Placed' /\ NoDoubleBooking'
    BY <1>2 DEF FreedKnown, Placed, NoDoubleBooking, Occupies, Overlap
  <2>7. LockProtects'
    BY <1>2, <2>3 DEF LockProtects, Occupies, Overlap, IdleReq
  <2> QED BY <2>2, <2>4, <2>5, <2>6, <2>7
<1> QED BY <1>3, <1>4

\* The end of a transaction leaves the lock table consistent.
LEMMA ReleaseKeeps ==
    ASSUME TypeOK, LockOwned, NEW r \in Requests, Finish(r), ReleaseLock(r)
    PROVE  LockOwned' /\ lock' \in [Pros -> Requests \cup {NoRequest}]
<1>1. \A x \in Requests : req'[x] = IF x = r THEN IdleReq ELSE req[x]
  BY DEF TypeOK, Finish
<1>2. \A p \in Pros : lock'[p] = IF lock[p] = r THEN NoRequest ELSE lock[p]
  BY DEF ReleaseLock
<1> QED BY <1>1, <1>2, AgendaAssumption DEF LockOwned, TypeOK, IdleReq, ReleaseLock

\* A transaction that took no lock has none to release.
LEMMA NoLockKeeps ==
    ASSUME TypeOK, LockOwned, NEW r \in Requests, req[r].pc # "checked", Finish(r),
           UNCHANGED lock
    PROVE  LockOwned' /\ lock' \in [Pros -> Requests \cup {NoRequest}]
<1>1. \A x \in Requests : req'[x] = IF x = r THEN IdleReq ELSE req[x]
  BY DEF TypeOK, Finish
<1> QED BY <1>1, AgendaAssumption DEF LockOwned, TypeOK, IdleReq

-----------------------------------------------------------------------------
(* Writes to the Appointment table *)

\* A write the constraint accepts keeps the invariant when the locks stay consistent
\* and no transaction that checked the slot of the row is left unaware of it.
LEMMA WriteKeeps ==
    ASSUME IInv, NEW r \in Requests, NEW a \in Appts, NEW row \in Rows,
           row.status # "NONE", Exclusion(a, row), WriteRow(a, row), Finish(r),
           LockOwned', lock' \in [Pros -> Requests \cup {NoRequest}],
           appt[a].status = "NONE" => Occupies(row), row.pro \in Pros,
           \A x \in Requests \ {r} :
               req[x].pc = "checked" /\ Occupies(row) /\ Overlap(row, req[x])
                   /\ a # req[x].appt => a \in freed
    PROVE  IInv'
<1> USE DEF IInv
<1>1. \A x \in Requests : req'[x] = IF x = r THEN IdleReq ELSE req[x]
  BY DEF TypeOK, Finish
<1>2. /\ \A b \in Appts : appt'[b] = IF b = a THEN row ELSE appt[b]
      /\ appt' \in [Appts -> Rows]
  BY DEF TypeOK, WriteRow
<1>3. /\ freed \subseteq freed' /\ freed' \subseteq Appts
      /\ Occupies(appt[a]) /\ ~Occupies(row) => a \in freed'
      /\ UNCHANGED <<blocks, active, now>>
  BY DEF TypeOK, WriteRow
<1>4. TypeOK'
  <2>2. req' \in [Requests -> Asks]
    BY IdleIsAsk DEF TypeOK, Finish
  <2> QED BY <1>2, <1>3, <2>2 DEF TypeOK
<1>5. Targets'
  BY <1>1, <1>2 DEF Targets, WellAimed, IdleReq
<1>6. FreedKnown'
  BY <1>2, <1>3 DEF FreedKnown, Occupies
<1>7. Placed' /\ NoDoubleBooking'
  BY <1>2 DEF Placed, NoDoubleBooking, Exclusion, Occupies, Overlap
<1>8. LockProtects'
  <2> SUFFICES ASSUME NEW x \in Requests, NEW b \in Appts \ {req'[x].appt},
                      req'[x].pc = "checked", Occupies(appt'[b]),
                      Overlap(appt'[b], req'[x])
               PROVE  b \in freed'
    BY DEF LockProtects, Occupies, Overlap
  <2>1. x # r /\ req'[x] = req[x]
    BY <1>1 DEF IdleReq
  <2>2. CASE b = a
    BY <1>2, <1>3, <2>1, <2>2
  <2>3. CASE b # a
    BY <1>2, <1>3, <2>1, <2>3 DEF LockProtects
  <2> QED BY <2>2, <2>3
<1> QED BY <1>4, <1>5, <1>6, <1>7, <1>8

\* A refused write changes nothing but the request.
LEMMA RefusedKeeps ==
    ASSUME IInv, NEW r \in Requests, Refused(r),
           LockOwned', lock' \in [Pros -> Requests \cup {NoRequest}]
    PROVE  IInv'
<1> USE DEF IInv, Refused
<1>1. \A x \in Requests : req'[x] = IF x = r THEN IdleReq ELSE req[x]
  BY DEF TypeOK, Finish
<1>2. TypeOK'
  BY IdleIsAsk DEF TypeOK, Finish
<1>3. Targets'
  BY <1>1 DEF Targets, WellAimed, IdleReq
<1>4. FreedKnown' /\ Placed' /\ NoDoubleBooking'
  BY DEF FreedKnown, Placed, NoDoubleBooking, Occupies, Overlap
<1>5. LockProtects'
  BY <1>1 DEF LockProtects, Occupies, Overlap, IdleReq
<1> QED BY <1>2, <1>3, <1>4, <1>5

\* Transactions of different requests that have checked lock different professionals.
LEMMA OneChecker ==
    ASSUME LockOwned, NEW r \in Requests, NEW x \in Requests \ {r},
           req[r].pc = "checked", req[x].pc = "checked"
    PROVE  req[r].pro # req[x].pro
BY DEF LockOwned

LEMMA BookCommitKeeps ==
    ASSUME IInv, NEW r \in Requests, BookCommit(r) PROVE IInv'
<1> USE DEF IInv
<1>1. /\ req[r].pc = "checked" /\ req[r].pro \in Pros /\ req[r].status \in SlotBlocking
      /\ req[r] \in Asks
  BY DEF BookCommit, At, Targets, WellAimed, TypeOK
<1> DEFINE row == [status |-> req[r].status, pro |-> req[r].pro,
                   from |-> req[r].from, to |-> req[r].to]
<1>2. PICK a \in Appts :
          /\ appt[a].status = "NONE"
          /\ IF Exclusion(a, row) THEN WriteRow(a, row) /\ Finish(r) ELSE Refused(r)
  BY DEF BookCommit
<1>3. row \in Rows /\ row.status # "NONE" /\ Occupies(row) /\ row.pro \in Pros
  BY <1>1 DEF Asks, Rows, SlotBlocking, Occupies
<1>4. LockOwned' /\ lock' \in [Pros -> Requests \cup {NoRequest}]
  BY <1>2, ReleaseKeeps DEF BookCommit, Refused
<1>5. \A x \in Requests \ {r} : req[x].pc = "checked" => ~Overlap(row, req[x])
  BY <1>1, OneChecker DEF Overlap
<1> HIDE DEF row
<1>6. CASE Exclusion(a, row)
  BY <1>2, <1>3, <1>4, <1>5, <1>6, WriteKeeps
<1>7. CASE ~Exclusion(a, row)
  BY <1>2, <1>4, <1>7, RefusedKeeps
<1> QED BY <1>6, <1>7

LEMMA MoveCommitKeeps ==
    ASSUME IInv, NEW r \in Requests, MoveCommit(r) PROVE IInv'
<1> USE DEF IInv
<1> DEFINE a   == req[r].appt
           row == [status |-> appt[a].status, pro |-> req[r].pro,
                   from |-> req[r].from, to |-> req[r].to]
<1>1. /\ req[r].pc = "checked" /\ req[r].pro \in Pros /\ req[r] \in Asks
      /\ a \in Appts /\ appt[a].status # "NONE" /\ appt[a] \in Rows
  BY DEF MoveCommit, At, Targets, WellAimed, TypeOK
<1>2. IF Exclusion(a, row) THEN WriteRow(a, row) /\ Finish(r) ELSE Refused(r)
  BY DEF MoveCommit
<1>3. row \in Rows /\ row.status # "NONE" /\ row.pro \in Pros
  BY <1>1 DEF Asks, Rows, Placed
<1>4. LockOwned' /\ lock' \in [Pros -> Requests \cup {NoRequest}]
  BY <1>2, ReleaseKeeps DEF MoveCommit, Refused
<1>5. \A x \in Requests \ {r} : req[x].pc = "checked" => ~Overlap(row, req[x])
  BY <1>1, OneChecker DEF Overlap
<1> HIDE DEF row
<1>6. CASE Exclusion(a, row)
  BY <1>1, <1>2, <1>3, <1>4, <1>5, <1>6, WriteKeeps
<1>7. CASE ~Exclusion(a, row)
  BY <1>2, <1>4, <1>7, RefusedKeeps
<1> QED BY <1>6, <1>7

\* The write that takes no lock: a row it makes occupy its slot again was freed once.
LEMMA StatusCommitKeeps ==
    ASSUME IInv, NEW r \in Requests, StatusCommit(r) PROVE IInv'
<1> USE DEF IInv
<1> DEFINE a   == req[r].appt
           row == [status |-> req[r].status, pro |-> appt[a].pro,
                   from |-> appt[a].from, to |-> appt[a].to]
<1>1. /\ req[r].pc = "begun" /\ req[r] \in Asks /\ req[r].status # "NONE"
      /\ a \in Appts /\ appt[a].status # "NONE" /\ appt[a] \in Rows
  BY DEF StatusCommit, At, Targets, WellAimed, TypeOK
<1>2. IF Exclusion(a, row) THEN WriteRow(a, row) /\ Finish(r) ELSE Refused(r)
  BY DEF StatusCommit
<1>3. row \in Rows /\ row.status # "NONE" /\ row.pro \in Pros
  BY <1>1 DEF Asks, Rows, Placed
<1>4. LockOwned' /\ lock' \in [Pros -> Requests \cup {NoRequest}]
  BY <1>1, <1>2, NoLockKeeps DEF StatusCommit, Refused
<1>5. \A x \in Requests \ {r} :
          req[x].pc = "checked" /\ Overlap(row, req[x]) /\ a # req[x].appt => a \in freed
  BY <1>1 DEF FreedKnown, LockProtects, Overlap
<1> HIDE DEF row
<1>6. CASE Exclusion(a, row)
  BY <1>1, <1>2, <1>3, <1>4, <1>5, <1>6, WriteKeeps
<1>7. CASE ~Exclusion(a, row)
  BY <1>2, <1>4, <1>7, RefusedKeeps
<1> QED BY <1>6, <1>7

-----------------------------------------------------------------------------
(* Writes to the other tables *)

LEMMA BlockCommitKeeps ==
    ASSUME IInv, NEW r \in Requests, BlockCommit(r) PROVE IInv'
<1> USE DEF IInv
<1>1. /\ req[r].pc = "begun" /\ req[r] \in Asks /\ req[r].pro \in Pros
      /\ Finish(r) /\ UNCHANGED <<appt, active, lock, now, freed>>
  BY DEF BlockCommit, At, Targets, WellAimed, TypeOK
<1>2. \A x \in Requests : req'[x] = IF x = r THEN IdleReq ELSE req[x]
  BY <1>1 DEF TypeOK, Finish
<1>3. PICK i \in BlockIds :
          blocks' = blocks \cup {[id |-> i, pro |-> req[r].pro,
                                  from |-> req[r].from, to |-> req[r].to]}
  BY DEF BlockCommit
<1>4. TypeOK'
  <2>2. req' \in [Requests -> Asks]
    BY <1>1, IdleIsAsk DEF TypeOK, Finish
  <2>3. [id |-> i, pro |-> req[r].pro, from |-> req[r].from, to |-> req[r].to]
            \in {b \in [id : BlockIds, pro : Pros, from : Instants, to : Instants] :
                    b.from < b.to}
    BY <1>1 DEF Asks
  <2> QED BY <1>1, <1>3, <2>2, <2>3, Zenon DEF TypeOK
<1>5. LockOwned'
  BY <1>1, NoLockKeeps
<1>6. Targets'
  BY <1>1, <1>2 DEF Targets, WellAimed, IdleReq
<1>7. FreedKnown' /\ Placed' /\ NoDoubleBooking'
  BY <1>1 DEF FreedKnown, Placed, NoDoubleBooking, Occupies, Overlap
<1>8. LockProtects'
  BY <1>1, <1>2 DEF LockProtects, Occupies, Overlap, IdleReq
<1> QED BY <1>4, <1>5, <1>6, <1>7, <1>8

LEMMA DeactivateCommitKeeps ==
    ASSUME IInv, NEW r \in Requests, DeactivateCommit(r) PROVE IInv'
<1> USE DEF IInv
<1>1. /\ req[r].pc = "begun" /\ Finish(r)
      /\ active' = [active EXCEPT ![req[r].pro] = FALSE]
      /\ UNCHANGED <<appt, blocks, lock, now, freed>>
  BY DEF DeactivateCommit, At
<1>2. \A x \in Requests : req'[x] = IF x = r THEN IdleReq ELSE req[x]
  BY <1>1 DEF TypeOK, Finish
<1>3. TypeOK'
  BY <1>1, IdleIsAsk DEF TypeOK, Finish
<1>4. LockOwned'
  BY <1>1, NoLockKeeps
<1>5. Targets'
  BY <1>1, <1>2 DEF Targets, WellAimed, IdleReq
<1>6. FreedKnown' /\ Placed' /\ NoDoubleBooking'
  BY <1>1 DEF FreedKnown, Placed, NoDoubleBooking, Occupies, Overlap
<1>7. LockProtects'
  BY <1>1, <1>2 DEF LockProtects, Occupies, Overlap, IdleReq
<1> QED BY <1>3, <1>4, <1>5, <1>6, <1>7

\* Steps that touch neither appointments, locks nor requests.
LEMMA AsideKeeps ==
    ASSUME IInv, TypeOK', UNCHANGED <<appt, lock, req, freed>>
    PROVE  IInv'
<1>1. /\ LockOwned' /\ Targets' /\ FreedKnown' /\ Placed'
      /\ NoDoubleBooking' /\ LockProtects'
  BY DEF IInv, LockOwned, Targets, WellAimed, FreedKnown, Placed, NoDoubleBooking,
         LockProtects, Occupies, Overlap
<1> QED BY <1>1 DEF IInv

-----------------------------------------------------------------------------
(* The theorems *)

LEMMA InitInv == Init => IInv
<1> SUFFICES ASSUME Init PROVE IInv
  OBVIOUS
<1> USE AgendaAssumption DEF Init
<1>1. TypeOK
  BY IdleIsAsk DEF TypeOK, Rows, NoRow, Statuses, Instants
<1>2. LockOwned /\ Targets
  BY DEF LockOwned, Targets, WellAimed, IdleReq
<1>3. FreedKnown /\ Placed /\ NoDoubleBooking /\ LockProtects
  BY DEF FreedKnown, Placed, NoDoubleBooking, LockProtects, Occupies, SlotBlocking, NoRow, IdleReq
<1> QED BY <1>1, <1>2, <1>3 DEF IInv

LEMMA StepInv == IInv /\ [Next]_vars => IInv'
<1> SUFFICES ASSUME IInv, [Next]_vars PROVE IInv'
  OBVIOUS
<1>1. ASSUME NEW r \in Requests, Arrive(r) PROVE IInv'
  BY <1>1, Arrival, BeginKeeps, Zenon DEF IInv
<1>2. ASSUME NEW r \in Requests, LockAndCheck(r) PROVE IInv'
  BY <1>2, LockAndCheckKeeps
<1>3. ASSUME NEW r \in Requests, Commit(r) PROVE IInv'
  BY <1>3, BookCommitKeeps, MoveCommitKeeps, StatusCommitKeeps, BlockCommitKeeps,
     DeactivateCommitKeeps DEF Commit
<1>4. ASSUME NEW b \in blocks, RemoveBlock(b) PROVE IInv'
  <2>1. TypeOK'
    BY <1>4 DEF IInv, TypeOK, RemoveBlock
  <2> QED BY <1>4, <2>1, AsideKeeps DEF RemoveBlock
<1>5. ASSUME NEW p \in Pros, Reactivate(p) PROVE IInv'
  <2>1. TypeOK'
    BY <1>5 DEF IInv, TypeOK, Reactivate
  <2> QED BY <1>5, <2>1, AsideKeeps DEF Reactivate
<1>6. ASSUME Tick PROVE IInv'
  <2>1. TypeOK'
    BY <1>6 DEF IInv, TypeOK, Tick
  <2> QED BY <1>6, <2>1, AsideKeeps DEF Tick
<1>7. CASE UNCHANGED vars
  <2>1. TypeOK'
    BY <1>7 DEF IInv, TypeOK, vars
  <2> QED BY <1>7, <2>1, AsideKeeps DEF vars
<1> QED BY <1>1, <1>2, <1>3, <1>4, <1>5, <1>6, <1>7, Zenon DEF Next

LEMMA InvAlways == Spec => []IInv
<1>1. Init => IInv
  BY InitInv
<1>2. IInv /\ [Next]_vars => IInv'
  BY StepInv
<1> QED BY <1>1, <1>2, PTL DEF Spec

\* Every table keeps its shape, and intervals stay non-empty.
THEOREM TypeCorrect == Spec => []TypeOK
<1>1. IInv => TypeOK
  BY DEF IInv
<1> QED BY <1>1, InvAlways, PTL

\* No two occupying appointments of a professional overlap, for any number of
\* requests in progress (the advisory lock and appointment_no_overlap).
THEOREM NeverDoubleBooked == Spec => []NoDoubleBooking
<1>1. IInv => NoDoubleBooking
  BY DEF IInv
<1> QED BY <1>1, InvAlways, PTL

\* Between the check under the advisory lock and the write, only an appointment
\* that was freed before can come to overlap the checked slot.
THEOREM LockIsEnough == Spec => []LockProtects
<1>1. IInv => LockProtects
  BY DEF IInv
<1> QED BY <1>1, InvAlways, PTL

-----------------------------------------------------------------------------
(* Refinement *)

Held == [a \in Appts |-> SlotOf(appt[a])]

\* A write the constraint accepts is a step of the calendar or none.
LEMMA WriteRefines ==
    ASSUME IInv, NEW a \in Appts, NEW row \in Rows, Exclusion(a, row), WriteRow(a, row),
           Occupies(row) => row.pro \in Pros
    PROVE  Calendar!Next \/ Held' = Held
<1> USE DEF IInv
<1>1. /\ \A b \in Appts : appt'[b] = IF b = a THEN row ELSE appt[b]
      /\ appt' \in [Appts -> Rows]
  BY DEF TypeOK, WriteRow
<1>2. Held' = [Held EXCEPT ![a] = SlotOf(row)]
  BY <1>1 DEF Held
<1>3. CASE Occupies(row)
  <2>1. SlotOf(row) \in Calendar!Slots
    BY <1>3 DEF Calendar!Slots, SlotOf, Rows
  <2>2. ASSUME NEW b \in Appts \ {a}, Held[b] # Calendar!Nothing
        PROVE  ~Calendar!Overlap(SlotOf(row), Held[b])
    <3>1. Occupies(appt[b]) /\ Held[b] = SlotOf(appt[b])
      BY <2>2 DEF Held, SlotOf, NoSlot, Calendar!Nothing
    <3> QED BY <1>3, <3>1 DEF Exclusion, Calendar!Overlap, Overlap, SlotOf
  <2>3. Calendar!Take(a, SlotOf(row))
    BY <1>2, <2>2 DEF Calendar!Take, Held
  <2> QED BY <2>1, <2>3 DEF Calendar!Next
<1>4. CASE ~Occupies(row)
  <2>1. SlotOf(row) = Calendar!Nothing
    BY <1>4 DEF SlotOf, NoSlot, Calendar!Nothing
  <2>2. CASE Held[a] = Calendar!Nothing
    BY <1>2, <2>1, <2>2 DEF Held
  <2>3. CASE Held[a] # Calendar!Nothing
    BY <1>2, <2>1, <2>3 DEF Calendar!Next, Calendar!GiveBack, Held
  <2> QED BY <2>2, <2>3
<1> QED BY <1>3, <1>4

LEMMA StepRefines == IInv /\ [Next]_vars => Calendar!Next \/ Held' = Held
<1> SUFFICES ASSUME IInv, [Next]_vars PROVE Calendar!Next \/ Held' = Held
  OBVIOUS
<1> USE DEF IInv
<1>1. ASSUME appt' = appt PROVE Held' = Held
  BY <1>1 DEF Held, SlotOf, Occupies
<1>2. ASSUME NEW r \in Requests, BookCommit(r) PROVE Calendar!Next \/ Held' = Held
  <2> DEFINE row == [status |-> req[r].status, pro |-> req[r].pro,
                     from |-> req[r].from, to |-> req[r].to]
  <2>1. row \in Rows /\ row.pro \in Pros
    BY <1>2 DEF BookCommit, At, Targets, WellAimed, TypeOK, Asks, Rows
  <2>2. PICK a \in Appts :
            IF Exclusion(a, row) THEN WriteRow(a, row) /\ Finish(r) ELSE Refused(r)
    BY <1>2 DEF BookCommit
  <2> HIDE DEF row
  <2> QED BY <1>1, <2>1, <2>2, WriteRefines DEF Refused
<1>3. ASSUME NEW r \in Requests, MoveCommit(r) PROVE Calendar!Next \/ Held' = Held
  <2> DEFINE a   == req[r].appt
             row == [status |-> appt[a].status, pro |-> req[r].pro,
                     from |-> req[r].from, to |-> req[r].to]
  <2>1. row \in Rows /\ row.pro \in Pros /\ a \in Appts
    BY <1>3 DEF MoveCommit, At, Targets, WellAimed, TypeOK, Asks, Rows
  <2>2. IF Exclusion(a, row) THEN WriteRow(a, row) /\ Finish(r) ELSE Refused(r)
    BY <1>3 DEF MoveCommit
  <2> HIDE DEF row
  <2> QED BY <1>1, <2>1, <2>2, WriteRefines DEF Refused
<1>4. ASSUME NEW r \in Requests, StatusCommit(r) PROVE Calendar!Next \/ Held' = Held
  <2> DEFINE a   == req[r].appt
             row == [status |-> req[r].status, pro |-> appt[a].pro,
                     from |-> appt[a].from, to |-> appt[a].to]
  <2>1. row \in Rows /\ row.pro \in Pros /\ a \in Appts
    BY <1>4 DEF StatusCommit, At, Targets, WellAimed, TypeOK, Asks, Rows, Placed
  <2>2. IF Exclusion(a, row) THEN WriteRow(a, row) /\ Finish(r) ELSE Refused(r)
    BY <1>4 DEF StatusCommit
  <2> HIDE DEF row
  <2> QED BY <1>1, <2>1, <2>2, WriteRefines DEF Refused
<1>5. CASE \/ \E r \in Requests : Arrive(r) \/ LockAndCheck(r) \/ BlockCommit(r)
                                  \/ DeactivateCommit(r)
           \/ \E b \in blocks : RemoveBlock(b)
           \/ \E p \in Pros : Reactivate(p)
           \/ Tick
           \/ UNCHANGED vars
  <2>1. ASSUME NEW r \in Requests, Arrive(r) PROVE appt' = appt
    BY <2>1, Arrival DEF Begin
  <2> QED BY <1>1, <1>5, <2>1 DEF LockAndCheck, BlockCommit, DeactivateCommit, RemoveBlock,
                                  Reactivate, Tick, vars
<1> QED BY <1>2, <1>3, <1>4, <1>5, Zenon DEF Next, Commit

\* The agenda implements SlotCalendar: every step takes, exchanges or gives back one
\* slot that nobody else holds, or leaves the calendar alone.
THEOREM AgendaImplementsCalendar == Spec => ImplementsCalendar
<1>1. Init => Calendar!Init
  BY DEF Init, Calendar!Init, NoRow, SlotOf, Occupies, SlotBlocking, NoSlot, Calendar!Nothing
<1>2. IInv /\ [Next]_vars => [Calendar!Next]_Held
  BY StepRefines
<1> QED BY <1>1, <1>2, InvAlways, PTL DEF Spec, ImplementsCalendar, Calendar!Spec, Held

-----------------------------------------------------------------------------
(* Requests served one at a time: the inductive invariant *)

\* What a booking, a reschedule, a new block and a deactivation have seen still
\* holds when they write: only the clock, the removal of a block and a
\* reactivation can have come in between, and they make it no less true.
SeenIsSo(q) ==
    /\ q.pc # "idle" /\ q.op \in {"book", "move"} => active[q.pro]
    /\ q.pc = "checked" => \A b \in blocks : ~Overlap(b, q)
    /\ q.pc # "idle" /\ q.op = "block" =>
           \A a \in Appts : Occupies(appt[a]) => ~Overlap(appt[a], q)
    /\ q.pc # "idle" /\ q.op = "deactivate" =>
           \A a \in Appts : Occupies(appt[a]) /\ appt[a].pro = q.pro => appt[a].from <= now

SerialInv ==
    /\ OneAtATime
    /\ \A r \in Requests : SeenIsSo(req[r])
    /\ BlockOverlapOnlyIfFreed
    /\ OrphanOnlyIfFreed

-----------------------------------------------------------------------------
(* Requests that arrive *)

\* Whatever handler is called, what it has read is so.
LEMMA ArrivalSees ==
    ASSUME TypeOK, NEW r \in Requests, Arrive(r)
    PROVE  \E q \in Arrivals : SeenIsSo(q) /\ Begin(r, q)
<1>1. PICK q \in Arrivals : Begin(r, q)
  BY Arrival, Zenon
<1>2. /\ req' = [req EXCEPT ![r] = q] /\ req'[r] = q
  BY <1>1 DEF Begin, TypeOK
<1>3. q.pc = "begun"
  BY DEF Arrivals
<1> DEFINE Goal == SeenIsSo(q)
<1>4. ASSUME NEW by \in Callers, NEW p \in Pros, NEW from \in Instants, NEW d \in Durations,
             BookBegin(r, by, p, from, d)
      PROVE  Goal
  <2>1. PICK status \in Statuses : Begin(r, Ask("book", NoAppt, p, from, EndOf(from, d), status))
    <3>1. {"CONFIRMED"} \subseteq Statuses /\ {"SCHEDULED", "CONFIRMED"} \subseteq Statuses
      BY DEF Statuses
    <3> QED BY <1>4, <3>1 DEF BookBegin
  <2>2. q = Ask("book", NoAppt, p, from, EndOf(from, d), status)
    BY <1>2, <2>1 DEF Begin, TypeOK
  <2> QED BY <1>4, <2>2 DEF SeenIsSo, Ask, BookBegin
<1>5. ASSUME NEW by \in Callers, NEW a \in Appts, NEW p \in Pros, NEW from \in Instants,
             NEW d \in Durations, MoveBegin(r, by, a, p, from, d)
      PROVE  Goal
  <2>1. q = Ask("move", a, p, from, EndOf(from, d), "NONE")
    BY <1>2, <1>5 DEF MoveBegin, Begin, TypeOK
  <2> QED BY <1>5, <2>1 DEF SeenIsSo, Ask, MoveBegin
<1>6. ASSUME NEW a \in Appts, NEW status \in StaffSettable, StatusBegin(r, a, status)
      PROVE  Goal
  <2>1. q = Ask("status", a, NoPro, 0, 1, status)
    BY <1>2, <1>6 DEF StatusBegin, Begin, TypeOK
  <2> QED BY <2>1 DEF SeenIsSo, Ask
<1>7. ASSUME NEW by \in Callers, NEW a \in Appts, CancelBegin(r, by, a)
      PROVE  Goal
  <2>1. q = Ask("status", a, NoPro, 0, 1, "CANCELED")
    BY <1>2, <1>7 DEF CancelBegin, Begin, TypeOK
  <2> QED BY <2>1 DEF SeenIsSo, Ask
<1>8. ASSUME NEW p \in Pros, NEW from \in Instants, NEW to \in Instants,
             BlockBegin(r, p, from, to)
      PROVE  Goal
  <2>1. q = Ask("block", NoAppt, p, from, to, "NONE")
    BY <1>2, <1>8 DEF BlockBegin, Begin, TypeOK
  <2> QED BY <1>8, <2>1 DEF SeenIsSo, Ask, BlockBegin, BlockConflict, Overlap
<1>9. ASSUME NEW p \in Pros, DeactivateBegin(r, p)
      PROVE  Goal
  <2>1. q = Ask("deactivate", NoAppt, p, 0, 1, "NONE")
    BY <1>2, <1>9 DEF DeactivateBegin, Begin, TypeOK
  <2>2. \A a \in Appts : appt[a].from \in Int /\ now \in Int
    BY DEF TypeOK, Rows, Instants
  <2> QED BY <1>9, <2>1, <2>2 DEF SeenIsSo, Ask, DeactivateBegin, FutureOccupied
<1>10. Goal
  BY <1>4, <1>5, <1>6, <1>7, <1>8, <1>9, Zenon DEF Arrive
<1> QED BY <1>1, <1>10

LEMMA BeginKeepsSerial ==
    ASSUME IInv, SerialInv, OneAtATime', NEW r \in Requests, NEW q \in Arrivals,
           SeenIsSo(q), Begin(r, q)
    PROVE  SerialInv'
<1>1. \A x \in Requests : req'[x] = IF x = r THEN q ELSE req[x]
  BY DEF Begin, IInv, TypeOK
<1>2. UNCHANGED <<appt, blocks, active, now, freed>>
  BY DEF Begin
<1>3. \A x \in Requests : SeenIsSo(req[x])'
  BY <1>1, <1>2 DEF SerialInv, SeenIsSo, Occupies, Overlap
<1>4. BlockOverlapOnlyIfFreed' /\ OrphanOnlyIfFreed'
  BY <1>2 DEF SerialInv, BlockOverlapOnlyIfFreed, OrphanOnlyIfFreed, Occupies, Overlap
<1> QED BY <1>3, <1>4 DEF SerialInv

-----------------------------------------------------------------------------
(* Requests that go on *)

LEMMA LockAndCheckKeepsSerial ==
    ASSUME IInv, SerialInv, OneAtATime', NEW r \in Requests, LockAndCheck(r)
    PROVE  SerialInv'
<1>1. UNCHANGED <<appt, blocks, active, now, freed>>
  BY DEF LockAndCheck
<1>2. BlockOverlapOnlyIfFreed' /\ OrphanOnlyIfFreed'
  BY <1>1 DEF SerialInv, BlockOverlapOnlyIfFreed, OrphanOnlyIfFreed, Occupies, Overlap
<1>3. req[r] \in Asks /\ req \in [Requests -> Asks]
  BY DEF IInv, TypeOK
<1>4. CASE NoConflict(req[r])
  <2>1. req' = [req EXCEPT ![r].pc = "checked"]
    BY <1>4 DEF LockAndCheck
  <2>2. /\ \A x \in Requests \ {r} : req'[x] = req[x]
        /\ req'[r].pc = "checked" /\ req'[r].op = req[r].op /\ req'[r].pro = req[r].pro
        /\ req'[r].from = req[r].from /\ req'[r].to = req[r].to
    BY <1>3, <2>1 DEF Asks
  <2>3. req[r].pc = "begun" /\ req[r].op \in {"book", "move"}
    BY DEF LockAndCheck
  <2>4. SeenIsSo(req[r])'
    <3>1. active[req[r].pro] /\ \A b \in blocks : ~Overlap(b, req[r])
      BY <1>4, <2>3 DEF SerialInv, SeenIsSo, NoConflict
    <3> QED BY <1>1, <2>2, <2>3, <3>1 DEF SeenIsSo, Overlap
  <2>5. \A x \in Requests \ {r} : SeenIsSo(req[x])'
    BY <1>1, <2>2 DEF SerialInv, SeenIsSo, Occupies, Overlap
  <2> QED BY <1>2, <2>4, <2>5 DEF SerialInv
<1>5. CASE ~NoConflict(req[r])
  <2>1. \A x \in Requests : req'[x] = IF x = r THEN IdleReq ELSE req[x]
    BY <1>3, <1>5 DEF LockAndCheck, Finish
  <2>2. \A x \in Requests : SeenIsSo(req[x])'
    BY <1>1, <2>1 DEF SerialInv, SeenIsSo, IdleReq, Occupies, Overlap
  <2> QED BY <1>2, <2>2 DEF SerialInv
<1> QED BY <1>4, <1>5

\* A request that ends was the only one, and nothing is left in progress.
LEMMA FinishLeavesNone ==
    ASSUME IInv, SerialInv, NEW r \in Requests, ~Idle(r), Finish(r)
    PROVE  \A x \in Requests : req'[x].pc = "idle" /\ SeenIsSo(req[x])'
<1>1. \A x \in Requests : req'[x] = IF x = r THEN IdleReq ELSE req[x]
  BY DEF Finish, IInv, TypeOK
<1>2. \A x \in Requests : req'[x].pc = "idle"
  BY <1>1 DEF SerialInv, OneAtATime, Idle, IdleReq
<1> QED BY <1>2 DEF SeenIsSo

\* The row written meets no block and has a working professional, or it had freed its
\* slot, or it stands where it stood.
LEMMA WriteKeepsSerial ==
    ASSUME IInv, SerialInv, OneAtATime', NEW r \in Requests, ~Idle(r), Finish(r),
           NEW a \in Appts, NEW row \in Rows, WriteRow(a, row), row.pro \in Pros,
           \/ a \in freed
           \/ (\A b \in blocks : ~Overlap(row, b)) /\ active[row.pro]
           \/ Occupies(appt[a]) /\ row.pro = appt[a].pro /\ row.from = appt[a].from
                                /\ row.to = appt[a].to
    PROVE  SerialInv'
<1>1. /\ \A b \in Appts : appt'[b] = IF b = a THEN row ELSE appt[b]
      /\ UNCHANGED <<blocks, active, now>> /\ freed \subseteq freed'
  BY DEF WriteRow, IInv, TypeOK
<1>2. BlockOverlapOnlyIfFreed'
  <2> SUFFICES ASSUME NEW b \in Appts, NEW c \in blocks, Occupies(appt'[b]), Overlap(appt'[b], c)
               PROVE  b \in freed'
    BY <1>1 DEF BlockOverlapOnlyIfFreed, Occupies, Overlap
  <2> QED BY <1>1 DEF SerialInv, BlockOverlapOnlyIfFreed, Overlap
<1>3. OrphanOnlyIfFreed'
  <2> SUFFICES ASSUME NEW b \in Appts, Occupies(appt'[b]), appt'[b].from > now,
                      ~active[appt'[b].pro]
               PROVE  b \in freed'
    BY <1>1 DEF OrphanOnlyIfFreed, Occupies
  <2> QED BY <1>1 DEF SerialInv, OrphanOnlyIfFreed
<1>4. \A x \in Requests : SeenIsSo(req[x])'
  BY FinishLeavesNone
<1> QED BY <1>2, <1>3, <1>4 DEF SerialInv

LEMMA RefusedKeepsSerial ==
    ASSUME IInv, SerialInv, OneAtATime', NEW r \in Requests, ~Idle(r), Refused(r)
    PROVE  SerialInv'
<1>1. \A x \in Requests : SeenIsSo(req[x])'
  BY FinishLeavesNone DEF Refused
<1>2. BlockOverlapOnlyIfFreed' /\ OrphanOnlyIfFreed'
  BY DEF Refused, SerialInv, BlockOverlapOnlyIfFreed, OrphanOnlyIfFreed, Occupies, Overlap
<1> QED BY <1>1, <1>2 DEF SerialInv

LEMMA BookCommitKeepsSerial ==
    ASSUME IInv, SerialInv, OneAtATime', NEW r \in Requests, BookCommit(r)
    PROVE  SerialInv'
<1> DEFINE row == [status |-> req[r].status, pro |-> req[r].pro,
                   from |-> req[r].from, to |-> req[r].to]
<1>1. /\ req[r].pc = "checked" /\ req[r].op = "book" /\ req[r] \in Asks
      /\ req[r].pro \in Pros /\ ~Idle(r)
  BY DEF BookCommit, At, IInv, Targets, WellAimed, TypeOK, Idle
<1>2. PICK a \in Appts :
          IF Exclusion(a, row) THEN WriteRow(a, row) /\ Finish(r) ELSE Refused(r)
  BY DEF BookCommit
<1>3. row \in Rows /\ row.pro \in Pros
  BY <1>1 DEF Asks, Rows
<1>4. (\A b \in blocks : ~Overlap(row, b)) /\ active[row.pro]
  BY <1>1 DEF SerialInv, SeenIsSo, Overlap
<1> HIDE DEF row
<1>5. CASE Exclusion(a, row)
  BY <1>1, <1>2, <1>3, <1>4, <1>5, WriteKeepsSerial
<1>6. CASE ~Exclusion(a, row)
  BY <1>1, <1>2, <1>6, RefusedKeepsSerial
<1> QED BY <1>5, <1>6

LEMMA MoveCommitKeepsSerial ==
    ASSUME IInv, SerialInv, OneAtATime', NEW r \in Requests, MoveCommit(r)
    PROVE  SerialInv'
<1> DEFINE a   == req[r].appt
           row == [status |-> appt[a].status, pro |-> req[r].pro,
                   from |-> req[r].from, to |-> req[r].to]
<1>1. /\ req[r].pc = "checked" /\ req[r].op = "move" /\ req[r] \in Asks
      /\ req[r].pro \in Pros /\ ~Idle(r) /\ a \in Appts /\ appt[a] \in Rows
  BY DEF MoveCommit, At, IInv, Targets, WellAimed, TypeOK, Idle
<1>2. IF Exclusion(a, row) THEN WriteRow(a, row) /\ Finish(r) ELSE Refused(r)
  BY DEF MoveCommit
<1>3. row \in Rows /\ row.pro \in Pros
  BY <1>1 DEF Asks, Rows
<1>4. (\A b \in blocks : ~Overlap(row, b)) /\ active[row.pro]
  BY <1>1 DEF SerialInv, SeenIsSo, Overlap
<1> HIDE DEF row
<1>5. CASE Exclusion(a, row)
  BY <1>1, <1>2, <1>3, <1>4, <1>5, WriteKeepsSerial
<1>6. CASE ~Exclusion(a, row)
  BY <1>1, <1>2, <1>6, RefusedKeepsSerial
<1> QED BY <1>5, <1>6

LEMMA StatusCommitKeepsSerial ==
    ASSUME IInv, SerialInv, OneAtATime', NEW r \in Requests, StatusCommit(r)
    PROVE  SerialInv'
<1> DEFINE a   == req[r].appt
           row == [status |-> req[r].status, pro |-> appt[a].pro,
                   from |-> appt[a].from, to |-> appt[a].to]
<1>1. /\ req[r].pc = "begun" /\ req[r] \in Asks /\ ~Idle(r)
      /\ a \in Appts /\ appt[a].status # "NONE" /\ appt[a] \in Rows
  BY DEF StatusCommit, At, IInv, Targets, WellAimed, TypeOK, Idle
<1>2. IF Exclusion(a, row) THEN WriteRow(a, row) /\ Finish(r) ELSE Refused(r)
  BY DEF StatusCommit
<1>3. row \in Rows /\ row.pro \in Pros
  BY <1>1 DEF Asks, Rows, IInv, Placed
<1>4. \/ a \in freed
      \/ Occupies(appt[a]) /\ row.pro = appt[a].pro /\ row.from = appt[a].from
                           /\ row.to = appt[a].to
  BY <1>1 DEF IInv, FreedKnown
<1> HIDE DEF row
<1>5. CASE Exclusion(a, row)
  BY <1>1, <1>2, <1>3, <1>4, <1>5, WriteKeepsSerial
<1>6. CASE ~Exclusion(a, row)
  BY <1>1, <1>2, <1>6, RefusedKeepsSerial
<1> QED BY <1>5, <1>6

LEMMA BlockCommitKeepsSerial ==
    ASSUME IInv, SerialInv, OneAtATime', NEW r \in Requests, BlockCommit(r)
    PROVE  SerialInv'
<1>1. /\ req[r].pc = "begun" /\ req[r].op = "block" /\ ~Idle(r)
      /\ Finish(r) /\ UNCHANGED <<appt, active, now, freed>>
  BY DEF BlockCommit, At, Idle
<1>2. PICK i \in BlockIds :
          blocks' = blocks \cup {[id |-> i, pro |-> req[r].pro,
                                  from |-> req[r].from, to |-> req[r].to]}
  BY DEF BlockCommit
<1>3. \A a \in Appts : Occupies(appt[a]) => ~Overlap(appt[a], req[r])
  BY <1>1 DEF SerialInv, SeenIsSo
<1>4. BlockOverlapOnlyIfFreed'
  BY <1>1, <1>2, <1>3 DEF SerialInv, BlockOverlapOnlyIfFreed, Occupies, Overlap
<1>5. OrphanOnlyIfFreed'
  BY <1>1 DEF SerialInv, OrphanOnlyIfFreed, Occupies
<1>6. \A x \in Requests : SeenIsSo(req[x])'
  BY <1>1, FinishLeavesNone
<1> QED BY <1>4, <1>5, <1>6 DEF SerialInv

LEMMA DeactivateCommitKeepsSerial ==
    ASSUME IInv, SerialInv, OneAtATime', NEW r \in Requests, DeactivateCommit(r)
    PROVE  SerialInv'
<1>1. /\ req[r].pc = "begun" /\ req[r].op = "deactivate" /\ ~Idle(r)
      /\ Finish(r) /\ UNCHANGED <<appt, blocks, now, freed>>
      /\ active' = [active EXCEPT ![req[r].pro] = FALSE]
  BY DEF DeactivateCommit, At, Idle
<1>2. \A a \in Appts : Occupies(appt[a]) /\ appt[a].pro = req[r].pro => ~(appt[a].from > now)
  <2>1. \A a \in Appts : appt[a].from \in Int /\ now \in Int
    BY DEF IInv, TypeOK, Rows, Instants
  <2> QED BY <1>1, <2>1 DEF SerialInv, SeenIsSo
<1>3. \A p : p # req[r].pro => active'[p] = active[p]
  BY <1>1
<1>4. OrphanOnlyIfFreed'
  BY <1>1, <1>2, <1>3 DEF SerialInv, OrphanOnlyIfFreed, Occupies
<1>5. BlockOverlapOnlyIfFreed'
  BY <1>1 DEF SerialInv, BlockOverlapOnlyIfFreed, Occupies, Overlap
<1>6. \A x \in Requests : SeenIsSo(req[x])'
  BY <1>1, FinishLeavesNone
<1> QED BY <1>4, <1>5, <1>6 DEF SerialInv

-----------------------------------------------------------------------------
(* Steps beside a request *)

\* A block removed, a professional back at work and a later clock refute nothing that
\* a request has seen.
LEMMA AsideKeepsSerial ==
    ASSUME IInv, SerialInv, OneAtATime', UNCHANGED <<appt, req, freed>>,
           blocks' \subseteq blocks, now' \in Nat, now <= now',
           \A p \in Pros : active[p] => active'[p]
    PROVE  SerialInv'
<1>1. /\ now \in Int /\ \A a \in Appts : appt[a].from \in Int
      /\ \A a \in Appts : Occupies(appt[a]) => appt[a].pro \in Pros
      /\ \A r \in Requests : req[r].op \in {"book", "move"} => req[r].pro \in Pros
  BY DEF IInv, TypeOK, Rows, Instants, Placed, Occupies, SlotBlocking, Targets, WellAimed
<1>2. \A r \in Requests : SeenIsSo(req[r])'
  <2> SUFFICES ASSUME NEW r \in Requests, SeenIsSo(req[r]) PROVE SeenIsSo(req[r])'
    BY DEF SerialInv
  <2>1. ASSUME NEW a \in Appts, appt[a].from <= now PROVE appt[a].from <= now'
    BY <1>1, <2>1
  <2> QED BY <1>1, <2>1 DEF SeenIsSo, Occupies, Overlap
<1>3. BlockOverlapOnlyIfFreed'
  BY DEF SerialInv, BlockOverlapOnlyIfFreed, Occupies, Overlap
<1>4. OrphanOnlyIfFreed'
  BY <1>1 DEF SerialInv, OrphanOnlyIfFreed, Occupies
<1> QED BY <1>2, <1>3, <1>4 DEF SerialInv

-----------------------------------------------------------------------------
(* The theorems, one request at a time *)

MCInv == IInv /\ (serial => SerialInv)

LEMMA MCStep == MCInv /\ [MCNext]_<<vars, serial>> => MCInv'
<1> SUFFICES ASSUME IInv, serial => SerialInv, [MCNext]_<<vars, serial>> PROVE MCInv'
  BY DEF MCInv
<1>1. [Next]_vars /\ serial' = serial
  BY DEF MCNext
<1>2. IInv'
  BY <1>1, StepInv
<1>3. ASSUME serial PROVE SerialInv'
  <2>1. SerialInv
    BY <1>3
  <2>2. OneAtATime'
    BY <1>3, <2>1 DEF MCNext, SerialInv, OneAtATime, Idle, vars
  <2>3. ASSUME NEW r \in Requests, Arrive(r) PROVE SerialInv'
    BY <2>1, <2>2, <2>3, ArrivalSees, BeginKeepsSerial, Zenon DEF IInv
  <2>4. ASSUME NEW r \in Requests, LockAndCheck(r) PROVE SerialInv'
    BY <2>1, <2>2, <2>4, LockAndCheckKeepsSerial
  <2>5. ASSUME NEW r \in Requests, Commit(r) PROVE SerialInv'
    BY <2>1, <2>2, <2>5, BookCommitKeepsSerial, MoveCommitKeepsSerial, StatusCommitKeepsSerial,
       BlockCommitKeepsSerial, DeactivateCommitKeepsSerial, Zenon DEF Commit
  <2>6. now \in Nat /\ active \in [Pros -> BOOLEAN]
    BY DEF IInv, TypeOK
  <2>7. ASSUME NEW b \in blocks, RemoveBlock(b) PROVE SerialInv'
    BY <2>1, <2>2, <2>6, <2>7, AsideKeepsSerial DEF RemoveBlock
  <2>8. ASSUME NEW p \in Pros, Reactivate(p) PROVE SerialInv'
    BY <2>1, <2>2, <2>6, <2>8, AsideKeepsSerial DEF Reactivate
  <2>9. ASSUME Tick PROVE SerialInv'
    BY <2>1, <2>2, <2>6, <2>9, AsideKeepsSerial DEF Tick
  <2>10. ASSUME UNCHANGED vars PROVE SerialInv'
    BY <2>1, <2>2, <2>6, <2>10, AsideKeepsSerial DEF vars
  <2> QED BY <1>1, <2>3, <2>4, <2>5, <2>7, <2>8, <2>9, <2>10, Zenon DEF Next
<1> QED BY <1>1, <1>2, <1>3 DEF MCInv

LEMMA MCInit0 == MCInit => MCInv
<1> SUFFICES ASSUME Init PROVE IInv /\ SerialInv
  BY DEF MCInit, MCInv
<1>1. IInv
  BY InitInv
<1>2. SerialInv
  BY DEF Init, SerialInv, OneAtATime, Idle, IdleReq, SeenIsSo, BlockOverlapOnlyIfFreed,
         OrphanOnlyIfFreed, Occupies, NoRow, SlotBlocking
<1> QED BY <1>1, <1>2

LEMMA MCInvAlways == MCSpec => []MCInv
<1>1. MCInit => MCInv
  BY MCInit0
<1>2. MCInv /\ [MCNext]_<<vars, serial>> => MCInv'
  BY MCStep
<1> QED BY <1>1, <1>2, PTL DEF MCSpec

\* With requests served one at a time, an appointment overlaps a time block only if it
\* had freed its slot and took it back (updateStatus looks at no block).
THEOREM BlocksAreKept == MCSpec => []BlockOverlapOnlyIfFreedAlone
<1>1. MCInv => BlockOverlapOnlyIfFreedAlone
  BY DEF MCInv, SerialInv, BlockOverlapOnlyIfFreedAlone
<1> QED BY <1>1, MCInvAlways, PTL

\* With requests served one at a time, a deactivated professional has an appointment
\* ahead only if it had freed its slot and took it back (updateStatus does not look
\* at isActive).
THEOREM NobodyIsOrphaned == MCSpec => []OrphanOnlyIfFreedAlone
<1>1. MCInv => OrphanOnlyIfFreedAlone
  BY DEF MCInv, SerialInv, OrphanOnlyIfFreedAlone
<1> QED BY <1>1, MCInvAlways, PTL
=============================================================================
