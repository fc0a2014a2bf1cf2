--------------------------- MODULE SessionsProofs ---------------------------
(***************************************************************************)
(* Proofs about the three protocols that guard the way in, for any number  *)
(* of tokens, processes, requests, devices and attempts, and any durations. *)
(***************************************************************************)
EXTENDS MCSessions, FiniteSetTheorems, TLAPS

-----------------------------------------------------------------------------
(* The lock on an account *)

Accounts == [failed : Nat, until : Nat]
AttemptStates == [pc : {"idle", "compare", "lock"}, seen : Accounts, count : Nat]

Numbers == /\ minute \in 0..LastMinute /\ wrong \in 0..MaxWrong
           /\ due \in Nat /\ late \in Nat

LockTypes ==
    /\ Numbers
    /\ store \in {"row", "memory"} /\ account \in Accounts
    /\ attempt \in [Attempts -> AttemptStates]
    /\ \A a \in Attempts : attempt[a].pc = "lock" => store = "row"
    /\ raced \in BOOLEAN

\* A lock that is still to be written, and that nothing has raced with, is the only one and is
\* for the number of failures there are.
PendingIsLatest ==
    ~raced => \A a \in Attempts : attempt[a].pc = "lock" =>
        /\ attempt[a].count = wrong /\ wrong >= Threshold
        /\ \A b \in Attempts : attempt[b].pc = "lock" => b = a

Comparing == {a \in Attempts : attempt[a].pc = "compare"}

\* While the lock lasts nobody new gets past the check, and whoever is past it has not been
\* compared yet; the attempt that made the lock is neither.
GuessesLeft == Lock!Locked => late + Cardinality(Comparing) < Cardinality(Attempts)

LockInv == /\ LockTypes /\ Lock!NoneUncounted /\ PendingIsLatest /\ Lock!LockIsDue
           /\ Lock!FewGuessesUnderLock /\ GuessesLeft

\* What the assumptions on the constants say of the threshold, the bounds and the schedule.
LEMMA LockNumbers ==
    /\ Threshold \in Nat \ {0} /\ MaxWrong \in Nat /\ LastMinute \in Nat
    /\ Len(Schedule) = 2 /\ Schedule[1] = 1 /\ Schedule[2] = 2
BY LockAssumed DEF Lock!LockoutAssumption, Schedule

\* An attempt that starts, that has still to write its lock, or that is over.
LEMMA LockRecords ==
    /\ Lock!Clean \in Accounts
    /\ Lock!NoAttempt \in AttemptStates /\ Lock!NoAttempt.pc = "idle"
    /\ \A seen \in Accounts : [pc |-> "compare", seen |-> seen, count |-> 0] \in AttemptStates
    /\ \A n \in Nat : [Lock!NoAttempt EXCEPT !.pc = "lock", !.count = n] \in AttemptStates
BY DEF AttemptStates, Accounts, Lock!Clean, Lock!NoAttempt

\* A duration is a number of minutes.
LEMMA DurationType == ASSUME NEW n \in Nat PROVE Lock!Duration(n) \in Nat
BY LockNumbers DEF Lock!Duration

\* Once the threshold is reached, a duration is the one that the history of the model reads
\* off the schedule.
LEMMA DurationIsDue ==
    ASSUME NEW n \in Nat, n >= Threshold
    PROVE  Lock!Duration(n) = Schedule[IF n - Threshold \in 0..(Len(Schedule) - 1)
                                         THEN n - Threshold + 1 ELSE Len(Schedule)]
BY LockNumbers DEF Lock!Duration

\* The types of the lock, of its account and of its attempts hold at the start.
LEMMA LockTypesInitial == Lock!Init => LockTypes
<1> SUFFICES ASSUME Lock!Init PROVE LockTypes  OBVIOUS
<1>1. Numbers
  BY LockNumbers DEF Lock!Init, Numbers
<1>2. attempt \in [Attempts -> AttemptStates] /\ \A a \in Attempts : attempt[a].pc # "lock"
  BY LockRecords DEF Lock!Init
<1>3. raced \in BOOLEAN /\ store \in {"row", "memory"} /\ account \in Accounts
  BY LockRecords, Zenon DEF Lock!Init
<1> QED BY <1>1, <1>2, <1>3, Zenon DEF LockTypes

\* ... and every step keeps them.
LEMMA LockTypesKept == LockTypes /\ [Lock!Next]_lockVars => LockTypes'
<1> SUFFICES ASSUME LockTypes, [Lock!Next]_lockVars PROVE LockTypes'  OBVIOUS
<1> DEFINE Records == /\ account \in Accounts /\ attempt \in [Attempts -> AttemptStates]
                      /\ \A a \in Attempts : attempt[a].pc = "lock" => store = "row"
<1>1. ASSUME NEW a \in Attempts, Lock!Read(a) PROVE Numbers' /\ Records' /\ store' = store
  BY <1>1, LockRecords DEF Lock!Read, LockTypes, Numbers
<1>2. ASSUME NEW a \in Attempts, Lock!Right(a) PROVE Numbers' /\ Records' /\ store' = store
  <2>1. Numbers'
    BY <1>2, LockNumbers DEF LockTypes, Numbers, Lock!Right, Lock!Reset, Lock!Compared
  <2> QED BY <1>2, <2>1, LockRecords DEF LockTypes, Lock!Right, Lock!Reset
<1>3. ASSUME NEW a \in Attempts, Lock!Wrong(a) PROVE Numbers' /\ Records' /\ store' = store
  <2> DEFINE n == account.failed + 1
  <2>1. n \in Nat
    BY DEF LockTypes, Accounts
  <2>2. minute + Lock!Duration(n) \in Nat
    BY <2>1, DurationType DEF LockTypes, Numbers
  <2>3. Numbers'
    BY <1>3, <2>2, LockNumbers DEF LockTypes, Numbers, Lock!Wrong, Lock!Counted, Lock!Compared
  <2>4. account' \in Accounts
    BY <1>3, <2>1, <2>2 DEF LockTypes, Accounts, Lock!Wrong, Lock!Counted
  <2>5. attempt' \in [Attempts -> AttemptStates]
    BY <1>3, <2>1, LockRecords DEF LockTypes, Lock!Wrong, Lock!Counted
  <2>6. \A b \in Attempts : attempt'[b].pc = "lock" => store' = "row"
    BY <1>3, LockRecords DEF LockTypes, Lock!Wrong
  <2> QED BY <1>3, <2>3, <2>4, <2>5, <2>6 DEF Lock!Wrong
<1>4. ASSUME NEW a \in Attempts, Lock!Lock(a) PROVE Numbers' /\ Records' /\ store' = store
  <2>1. minute + Lock!Duration(attempt[a].count) \in Nat
    BY DurationType DEF LockTypes, Numbers, AttemptStates
  <2>2. Numbers'
    BY <1>4, LockNumbers DEF LockTypes, Numbers, Lock!Lock
  <2>3. account' \in Accounts
    BY <1>4, <2>1 DEF LockTypes, Accounts, Lock!Lock
  <2> QED BY <1>4, <2>2, <2>3, LockRecords DEF LockTypes, Lock!Lock
<1>5. ASSUME Lock!SetPassword \/ Lock!Restart \/ Lock!Minute \/ UNCHANGED lockVars
      PROVE  Numbers' /\ Records' /\ store' = store
  <2>1. Numbers'
    BY <1>5, LockNumbers DEF LockTypes, Numbers, Lock!SetPassword, Lock!Restart, Lock!Minute,
                             Lock!Reset, lockVars
  <2>2. Records' /\ store' = store
    BY <1>5, LockRecords DEF LockTypes, Lock!SetPassword, Lock!Restart, Lock!Minute, Lock!Reset,
                             lockVars
  <2> QED BY <2>1, <2>2
<1>6. raced' \in BOOLEAN
  BY Zenon DEF LockTypes, Lock!Next, Lock!Read, Lock!Right, Lock!Wrong, Lock!Lock, Lock!Minute,
               Lock!SetPassword, Lock!Restart, Lock!Reset, Lock!LockPending, lockVars
<1>7. Numbers' /\ Records' /\ store' = store
  BY <1>1, <1>2, <1>3, <1>4, <1>5, Zenon DEF Lock!Next
<1> QED BY <1>6, <1>7, Zenon DEF LockTypes

\* A wrong password is counted in the step that compares it, and both counts go back to 0 together.
LEMMA CountKept ==
    LockTypes /\ Lock!NoneUncounted /\ [Lock!Next]_lockVars => Lock!NoneUncounted'
<1> SUFFICES ASSUME LockTypes, Lock!NoneUncounted, [Lock!Next]_lockVars
             PROVE  account'.failed = wrong'
  BY DEF Lock!NoneUncounted
<1> USE DEF Lock!NoneUncounted
<1>1. account \in Accounts /\ Lock!Clean.failed = 0
  BY Zenon DEF LockTypes, Lock!Clean
<1>2. ASSUME NEW a \in Attempts, Lock!Wrong(a) PROVE account'.failed = wrong'
  BY <1>1, <1>2 DEF Lock!Wrong, Lock!Counted, Accounts
<1>3. ASSUME NEW a \in Attempts, Lock!Lock(a) PROVE account'.failed = wrong'
  BY <1>1, <1>3 DEF Lock!Lock, Accounts
<1>4. ASSUME NEW a \in Attempts, Lock!Read(a) \/ Lock!Right(a) PROVE account'.failed = wrong'
  BY <1>1, <1>4 DEF Lock!Read, Lock!Right, Lock!Reset
<1>5. CASE Lock!SetPassword \/ Lock!Restart \/ Lock!Minute \/ UNCHANGED lockVars
  BY <1>1, <1>5 DEF Lock!SetPassword, Lock!Restart, Lock!Minute, Lock!Reset, lockVars
<1> QED BY <1>2, <1>3, <1>4, <1>5, Zenon DEF Lock!Next

\* A lock is pending after a step only if it was before, or if the step is the failure it is for.
LEMMA PendingKept ==
    LockTypes /\ Lock!NoneUncounted /\ PendingIsLatest /\ [Lock!Next]_lockVars => PendingIsLatest'
<1> SUFFICES ASSUME LockTypes, Lock!NoneUncounted, PendingIsLatest, [Lock!Next]_lockVars
             PROVE  PendingIsLatest'
  OBVIOUS
<1>1. attempt \in [Attempts -> AttemptStates] /\ Lock!NoAttempt.pc = "idle"
  BY LockRecords DEF LockTypes
<1>2. ASSUME UNCHANGED <<wrong, raced>>,
             \A b \in Attempts : attempt'[b].pc = "lock" => attempt'[b] = attempt[b]
      PROVE  PendingIsLatest'
  BY <1>2 DEF PendingIsLatest
<1>3. ASSUME Lock!Reset, \A b \in Attempts : attempt'[b].pc = "lock" => attempt[b].pc = "lock"
      PROVE  PendingIsLatest'
  BY <1>3 DEF PendingIsLatest, Lock!Reset, Lock!LockPending
<1>4. ASSUME NEW a \in Attempts, Lock!Read(a) PROVE PendingIsLatest'
  BY <1>1, <1>2, <1>4 DEF Lock!Read
<1>5. ASSUME NEW a \in Attempts, Lock!Right(a) PROVE PendingIsLatest'
  BY <1>1, <1>2, <1>3, <1>5 DEF Lock!Right
<1>6. ASSUME NEW a \in Attempts, Lock!Wrong(a) PROVE PendingIsLatest'
  <2> SUFFICES ASSUME ~raced' PROVE PendingIsLatest'
    BY DEF PendingIsLatest
  <2>1. \A b \in Attempts : attempt[b].pc # "lock"
    BY <1>6, Zenon DEF Lock!Wrong, Lock!LockPending
  <2>2. \A b \in Attempts : attempt'[b].pc = "lock" =>
            b = a /\ attempt'[a].count = wrong' /\ wrong' >= Threshold
    BY <1>1, <1>6, <2>1 DEF Lock!Wrong, Lock!Counted, Lock!NoneUncounted, Lock!NoAttempt
  <2> QED BY <2>2 DEF PendingIsLatest
<1>7. ASSUME NEW a \in Attempts, Lock!Lock(a) PROVE PendingIsLatest'
  BY <1>1, <1>2, <1>7 DEF Lock!Lock
<1>8. CASE Lock!SetPassword \/ Lock!Restart
  BY <1>1, <1>3, <1>8 DEF Lock!SetPassword, Lock!Restart
<1>9. CASE Lock!Minute \/ UNCHANGED lockVars
  BY <1>2, <1>9 DEF Lock!Minute, lockVars
<1> QED BY <1>4, <1>5, <1>6, <1>7, <1>8, <1>9, Zenon DEF Lock!Next

\* The lock that is written is the one that the latest failure earned, and is the last to be
\* written; where the account is in memory it is written with the count.
LEMMA DueKept ==
    LockTypes /\ PendingIsLatest /\ Lock!LockIsDue /\ [Lock!Next]_lockVars => Lock!LockIsDue'
<1> SUFFICES ASSUME LockTypes, PendingIsLatest, Lock!LockIsDue, [Lock!Next]_lockVars,
                    ~raced', ~Lock!LockPending'
             PROVE  account'.until = due'
  BY DEF Lock!LockIsDue
<1>1. /\ account \in Accounts /\ attempt \in [Attempts -> AttemptStates]
      /\ Lock!NoAttempt.pc = "idle" /\ Lock!Clean.until = 0
  BY LockRecords DEF LockTypes, Lock!Clean
<1>2. ASSUME UNCHANGED <<account.until, due, raced>>,
             \A b \in Attempts : attempt[b].pc = "lock" => attempt'[b].pc = "lock"
      PROVE  account'.until = due'
  BY <1>2 DEF Lock!LockIsDue, Lock!LockPending
<1>3. ASSUME Lock!Reset PROVE account'.until = due'
  BY <1>1, <1>3 DEF Lock!Reset
<1>4. ASSUME NEW a \in Attempts, Lock!Read(a) PROVE account'.until = due'
  BY <1>1, <1>2, <1>4 DEF Lock!Read
<1>5. ASSUME NEW a \in Attempts, Lock!Right(a) PROVE account'.until = due'
  BY <1>1, <1>2, <1>3, <1>5 DEF Lock!Right
<1>6. ASSUME NEW a \in Attempts, Lock!Wrong(a) PROVE account'.until = due'
  <2>1. ~raced /\ ~Lock!LockPending
    BY <1>6, Zenon DEF Lock!Wrong
  <2>2. account.until = due
    BY <2>1 DEF Lock!LockIsDue
  <2>3. account \in Accounts
    BY <1>1
  <2>4. CASE store = "memory"
    BY <1>6, <2>2, <2>4 DEF Lock!Wrong
  <2>5. CASE store # "memory"
    BY <1>6, <2>2, <2>3, <2>5 DEF Lock!Wrong, Accounts
  <2> QED BY <2>4, <2>5
<1>7. ASSUME NEW a \in Attempts, Lock!Lock(a) PROVE account'.until = due'
  <2>1. ~raced
    BY <1>7 DEF Lock!Lock
  <2>2. attempt[a].count = wrong /\ wrong >= Threshold
    BY <1>7, <2>1, Zenon DEF Lock!Lock, PendingIsLatest
  <2>3. wrong \in Nat
    BY LockNumbers DEF LockTypes, Numbers
  <2>4. due' = minute + Lock!Duration(wrong)
    BY <1>7, <2>2, <2>3, DurationIsDue DEF Lock!Lock
  <2> QED BY <1>1, <1>7, <2>2, <2>4 DEF Lock!Lock, Accounts
<1>8. CASE Lock!SetPassword \/ Lock!Restart
  BY <1>3, <1>8 DEF Lock!SetPassword, Lock!Restart
<1>9. CASE Lock!Minute \/ UNCHANGED lockVars
  BY <1>2, <1>9 DEF Lock!Minute, lockVars
<1> QED BY <1>4, <1>5, <1>6, <1>7, <1>8, <1>9, Zenon DEF Lock!Next

\* The cardinality the model counts with is that of FiniteSets, which the library speaks of.
LEMMA CardinalityIsCardinality == Lock!Cardinality(Attempts) = Cardinality(Attempts)
BY DEF Lock!Cardinality, Cardinality, Lock!IsFiniteSet, IsFiniteSet

\* There are finitely many attempts, and at least one.
LEMMA AttemptsFinite == IsFiniteSet(Attempts) /\ Cardinality(Attempts) \in Nat \ {0}
<1>1. IsFiniteSet(Attempts) /\ Attempts # {}
  BY LockAssumed DEF Lock!LockoutAssumption, IsFiniteSet, Lock!IsFiniteSet
<1> QED BY <1>1, FS_CardinalityType, FS_EmptySet

\* What is left to compare is some of the attempts, and not all when one of them is at its lock.
LEMMA ComparingFinite ==
    /\ IsFiniteSet(Comparing) /\ Cardinality(Comparing) \in Nat
    /\ \A a \in Attempts \ Comparing : Cardinality(Comparing) < Cardinality(Attempts)
<1>1. IsFiniteSet(Comparing) /\ Cardinality(Comparing) <= Cardinality(Attempts)
      /\ (Cardinality(Attempts) = Cardinality(Comparing) => Attempts = Comparing)
  BY AttemptsFinite, FS_Subset DEF Comparing
<1> QED BY <1>1, AttemptsFinite, FS_CardinalityType

\* An attempt that is compared leaves one fewer to compare.
LEMMA OneCompared ==
    ASSUME NEW a \in Comparing, Comparing' = Comparing \ {a}
    PROVE  Cardinality(Comparing') = Cardinality(Comparing) - 1
BY ComparingFinite, FS_RemoveElement

\* A comparison under the lock takes an attempt off those left to compare; the lock itself is written
\* by an attempt that is not among them.
LEMMA GuessesKept ==
    /\ LockTypes /\ Lock!FewGuessesUnderLock /\ GuessesLeft /\ [Lock!Next]_lockVars
    => Lock!FewGuessesUnderLock' /\ GuessesLeft'
<1> DEFINE all == Cardinality(Attempts)  left == Cardinality(Comparing)
<1> SUFFICES ASSUME LockTypes, late < all, GuessesLeft, [Lock!Next]_lockVars
             PROVE  late' < all /\ (Lock!Locked' => late' + left' < all)
  BY CardinalityIsCardinality DEF Lock!FewGuessesUnderLock, GuessesLeft
<1>1. /\ all \in Nat \ {0} /\ left \in Nat /\ late \in Nat /\ minute \in Nat
      /\ account \in Accounts /\ attempt \in [Attempts -> AttemptStates]
  BY AttemptsFinite, ComparingFinite, LockNumbers DEF LockTypes, Numbers
<1>2. Lock!NoAttempt.pc = "idle"
  BY LockRecords
<1>3. left' \in Nat /\ \A a \in Attempts : attempt'[a].pc # "compare" => left' < all
  <2>1. IsFiniteSet(Comparing') /\ Cardinality(Comparing') <= Cardinality(Attempts)
        /\ (Cardinality(Attempts) = Cardinality(Comparing') => Attempts = Comparing')
    BY AttemptsFinite, FS_Subset DEF Comparing
  <2>2. left' \in Nat
    BY <2>1, FS_CardinalityType
  <2>3. \A a \in Attempts : attempt'[a].pc # "compare" => Attempts # Comparing'
    BY DEF Comparing
  <2> QED BY <1>1, <2>1, <2>2, <2>3
<1>4. Lock!Locked => late + left < all
  BY DEF GuessesLeft
<1> HIDE DEF all, left
<1>5. ASSUME late' = 0, NEW a \in Attempts, attempt'[a].pc # "compare"
      PROVE  late' < all /\ (Lock!Locked' => late' + left' < all)
  <2>1. left' \in Nat /\ left' < all
    BY <1>3, <1>5
  <2>2. all \in Nat
    BY <1>1
  <2>3. \A m, n \in Nat : m < n => 0 < n /\ 0 + m < n
    OBVIOUS
  <2>4. 0 < all /\ 0 + left' < all
    BY <2>1, <2>2, <2>3, Zenon
  <2> QED BY <1>5, <2>4, Zenon
<1>6. ASSUME NEW a \in Attempts, attempt[a].pc = "compare", attempt'[a].pc # "compare",
             \A b \in Attempts \ {a} : attempt'[b] = attempt[b], Lock!Compared, minute' = minute
      PROVE  late' < all /\ (Lock!Locked' => late' + left' < all)
  <2>1. CASE Lock!Locked /\ Lock!Locked'
    <3>1. Comparing' = Comparing \ {a} /\ a \in Comparing
      BY <1>6 DEF Comparing
    <3>2. left' = left - 1
      BY <3>1, OneCompared DEF left
    <3>3. late' = 0 \/ late' = late + 1
      BY <1>6, Zenon DEF Lock!Compared
    <3>4. late + left < all
      BY <1>4, <2>1
    <3>5. left' \in Nat /\ left \in Nat /\ late \in Nat /\ all \in Nat
      BY <1>1, <1>3
    <3>6. late' + left' < all /\ late' < all
      BY <3>2, <3>3, <3>4, <3>5
    <3> QED BY <3>6
  <2>2. CASE ~Lock!Locked
    <3>1. late' = 0
      BY <1>6, <2>2, Zenon DEF Lock!Compared
    <3> QED BY <1>5, <1>6, <3>1
  <2>3. CASE ~Lock!Locked'
    <3>1. account' \in Accounts /\ minute' \in Nat
      BY <1>1, <1>6, LockTypesKept DEF LockTypes
    <3>2. account'.until <= minute
      BY <1>1, <1>6, <2>3, <3>1 DEF Lock!Locked, Accounts
    <3>3. late' = 0
      BY <1>6, <3>2, Zenon DEF Lock!Compared
    <3> QED BY <1>5, <1>6, <3>3
  <2> QED BY <2>1, <2>2, <2>3
<1>7. ASSUME NEW a \in Attempts, Lock!Read(a)
      PROVE  late' < all /\ (Lock!Locked' => late' + left' < all)
  BY <1>7, <1>1 DEF Lock!Read, Lock!Admits, Lock!Locked
<1>8. ASSUME NEW a \in Attempts, Lock!Right(a) \/ Lock!Wrong(a)
      PROVE  late' < all /\ (Lock!Locked' => late' + left' < all)
  <2>1. /\ attempt[a].pc = "compare" /\ Lock!Compared /\ minute' = minute
    BY <1>8, Zenon DEF Lock!Right, Lock!Wrong
  <2>2. \E q : attempt' = [attempt EXCEPT ![a] = q] /\ q.pc # "compare"
    <3>1. CASE Lock!Right(a)
      BY <1>2, <3>1 DEF Lock!Right
    <3>2. CASE Lock!Wrong(a)
      <4>1. \A n : [Lock!NoAttempt EXCEPT !.pc = "lock", !.count = n].pc = "lock"
        BY DEF Lock!NoAttempt
      <4> QED BY <1>2, <3>2, <4>1 DEF Lock!Wrong
    <3> QED BY <1>8, <3>1, <3>2
  <2>3. attempt'[a].pc # "compare" /\ \A b \in Attempts \ {a} : attempt'[b] = attempt[b]
    BY <1>1, <2>2
  <2> QED BY <1>6, <2>1, <2>3
<1>9. ASSUME NEW a \in Attempts, Lock!Lock(a)
      PROVE  late' < all /\ (Lock!Locked' => late' + left' < all)
  <2>1. /\ attempt'[a].pc # "compare" /\ Comparing' = Comparing
    BY <1>1, <1>2, <1>9 DEF Lock!Lock, Comparing
  <2>2. left' = left
    BY <2>1 DEF left
  <2>3. CASE Lock!Locked
    BY <1>1, <1>4, <1>9, <2>2, <2>3 DEF Lock!Lock
  <2>4. CASE ~Lock!Locked
    BY <1>5, <1>9, <2>1, <2>4 DEF Lock!Lock
  <2> QED BY <2>3, <2>4
<1>10. CASE Lock!SetPassword \/ Lock!Restart
  BY <1>1, <1>10 DEF Lock!SetPassword, Lock!Restart, Lock!Reset, Lock!Clean, Lock!Locked
<1>11. CASE Lock!Minute
  <2>1. left' = left
    BY <1>11 DEF left, Lock!Minute, Comparing
  <2> QED BY <1>1, <1>4, <1>11, <2>1 DEF Lock!Minute, Lock!Locked, Accounts
<1>12. CASE UNCHANGED lockVars
  BY <1>4, <1>12 DEF lockVars, Lock!Locked, left, Comparing
<1> QED BY <1>7, <1>8, <1>9, <1>10, <1>11, <1>12, Zenon DEF Lock!Next

\* The invariant of the lock is inductive.
LEMMA LockInvAlways == Spec => []LockInv
<1>1. Init => LockInv
  <2> SUFFICES ASSUME Lock!Init PROVE LockInv
    BY DEF Init
  <2>1. LockTypes
    BY LockTypesInitial
  <2>2. Lock!NoneUncounted /\ PendingIsLatest /\ Lock!LockIsDue
    BY DEF Lock!Init, Lock!NoneUncounted, PendingIsLatest, Lock!LockIsDue, Lock!Clean,
           Lock!NoAttempt
  <2>3. Lock!FewGuessesUnderLock
    BY CardinalityIsCardinality, AttemptsFinite DEF Lock!Init, Lock!FewGuessesUnderLock
  <2>4. GuessesLeft
    BY DEF Lock!Init, GuessesLeft, Lock!Locked, Lock!Clean
  <2> QED BY <2>1, <2>2, <2>3, <2>4 DEF LockInv
<1>2. LockInv /\ [Next]_vars => LockInv'
  <2>1. [Next]_vars => [Lock!Next]_lockVars
    BY DEF Next, vars
  <2> QED BY <2>1, LockTypesKept, CountKept, PendingKept, DueKept, GuessesKept DEF LockInv
<1> QED BY <1>1, <1>2, PTL DEF Spec

\* However many wrong passwords are compared at once, the account has counted each of them
\* (registerFailedLogin).
THEOREM EveryFailureIsCounted == Spec => []NoneUncounted
<1>1. LockInv => NoneUncounted
  BY DEF LockInv, NoneUncounted
<1> QED BY <1>1, LockInvAlways, PTL

\* The lock lasts as long as its latest failure earned, and while it lasts lets fewer passwords be
\* compared than there may be attempts in progress (login, registerFailedLogin).
THEOREM TheLockBites == Spec => []LockBites
<1>1. LockInv => LockBites
  BY DEF LockInv, LockBites
<1> QED BY <1>1, LockInvAlways, PTL

-----------------------------------------------------------------------------
(* The account of a client and its sessions *)

States == {"none", "open", "revoked", "gone"}
Pcs == {"idle", "entered", "reply", "register", "issue", "change", "revokeAll"}
Cookies == [sid : Sids \cup {NoSid}, pv : Nat, exp : Nat]
SessionRows == [state : States, owner : Nat, expires : Nat, proof : Nat, revokedOn : Nat]
CallStates == [pc : Pcs, op : Client!Ops \cup {"none"}, d : Devices \cup {NoSid},
               sid : Sids \cup {NoSid}, id : Nat, hash : Nat, reply : Cookies]

Counters == /\ day \in 0..LastDay
            /\ nextId \in 1..(MaxId + 1) /\ nextHash \in 1..(MaxHash + 1)

ClientTypes ==
    /\ Counters
    /\ consumer \in [id : 0..MaxId, hash : 0..MaxHash]
    /\ session \in [Sids -> SessionRows]
    /\ token \in [Devices -> Cookies]
    /\ call \in [Calls -> CallStates]
    /\ unended \in BOOLEAN

\* A request that is over has forgotten what it read.
CallsOver == \A c \in Calls : call[c].pc = "idle" <=> call[c] = Client!NoCall

\* What the assumptions on the constants say of identifiers, hashes, days and sessions.
LEMMA ClientNumbers ==
    /\ Ttl \in Nat /\ LastDay \in Nat /\ MaxHash \in Nat /\ MaxId \in Nat \ {0}
    /\ Sids \subseteq Nat /\ NoSid \notin Sids
BY ClientAssumed DEF Client!ConsumerAssumption

\* What a request is when it begins and when it is over, and the rows that are written whole.
LEMMA ClientRecords ==
    /\ Client!NoCookie \in Cookies /\ Client!NoCookie.sid = NoSid
    /\ Client!NoSession \in SessionRows /\ Client!NoSession.state = "none"
    /\ [Client!NoSession EXCEPT !.state = "gone"] \in SessionRows
    /\ [Client!NoSession EXCEPT !.state = "gone"].state = "gone"
    /\ Client!NoCall \in CallStates /\ Client!NoCall.pc = "idle"
BY DEF Cookies, SessionRows, States, CallStates, Pcs, Client!NoCookie, Client!NoSession,
       Client!NoCall

\* The types of the account of a client hold at the start.
LEMMA ClientTypesInitial == Client!Init => ClientTypes /\ CallsOver
<1> SUFFICES ASSUME Client!Init PROVE ClientTypes /\ CallsOver  OBVIOUS
<1>1. Counters /\ consumer \in [id : 0..MaxId, hash : 0..MaxHash]
  BY ClientNumbers DEF Client!Init, Counters
<1>2. /\ session \in [Sids -> SessionRows] /\ token \in [Devices -> Cookies]
      /\ call \in [Calls -> CallStates]
  BY ClientRecords DEF Client!Init
<1>3. CallsOver /\ unended \in BOOLEAN
  BY Zenon, ClientRecords DEF Client!Init, CallsOver
<1> QED BY <1>1, <1>2, <1>3 DEF ClientTypes

\* Days, identifiers and hashes stay within their bounds.
LEMMA CountersKept == ClientTypes /\ [Client!Next]_clientVars => Counters'
<1> SUFFICES ASSUME ClientTypes, [Client!Next]_clientVars PROVE Counters'  OBVIOUS
<1> USE ClientNumbers DEF ClientTypes, Counters
<1>1. ASSUME NEW c \in Calls, Client!RegisterWrite(c) \/ Client!WriteHash(c) PROVE Counters'
  BY <1>1 DEF Client!RegisterWrite, Client!WriteHash
<1>2. ASSUME NEW c \in Calls, NEW d \in Devices,
             Client!Register(c, d) \/ Client!Login(c, d) \/ \E op \in Client!Ops : Client!Enter(c, d, op)
      PROVE Counters'
  BY <1>2 DEF Client!Register, Client!Login, Client!Enter
<1>3. ASSUME NEW c \in Calls,
             \/ Client!Issue(c) \/ Client!Receive(c) \/ Client!Miss(c) \/ Client!Refresh(c)
             \/ Client!Revoke(c) \/ Client!Delete(c) \/ Client!ChangePassword(c)
             \/ Client!RevokeAll(c) \/ Client!Cut(c)
      PROVE Counters'
  BY <1>3 DEF Client!Issue, Client!Receive, Client!Miss, Client!Refresh, Client!Revoke,
              Client!Delete, Client!ChangePassword, Client!RevokeAll, Client!Cut
<1>4. CASE Client!Cleanup \/ Client!Day \/ (\E d \in Devices : Client!Logout(d)) \/ UNCHANGED clientVars
  BY <1>4 DEF Client!Cleanup, Client!Day, Client!Logout, clientVars
<1> QED BY <1>1, <1>2, <1>3, <1>4, Zenon DEF Client!Next

\* However a request moves, it stays one, and is idle only if it has forgotten what it read.
LEMMA CallMoves ==
    ASSUME ClientTypes, CallsOver, NEW c \in Calls,
           NEW q \in CallStates, q.pc # "idle" \/ q = Client!NoCall,
           call' = [call EXCEPT ![c] = q]
    PROVE  call' \in [Calls -> CallStates] /\ CallsOver'
<1>1. q.pc = "idle" <=> q = Client!NoCall
  BY ClientRecords
<1> QED BY <1>1 DEF ClientTypes, CallsOver

\* A request that ends without an answer forgets what it read.
LEMMA LeaveMoves ==
    ASSUME ClientTypes, CallsOver, NEW c \in Calls, Client!Leave(c)
    PROVE  call' \in [Calls -> CallStates] /\ CallsOver'
BY CallMoves, ClientRecords DEF Client!Leave

\* A request that is answered keeps the token it answers with, and nothing else.
LEMMA ReplyMoves ==
    ASSUME ClientTypes, CallsOver, NEW c \in Calls, NEW t \in Cookies, Client!Reply(c, t)
    PROVE  call' \in [Calls -> CallStates] /\ CallsOver'
<1> DEFINE q == [Client!NoCall EXCEPT !.pc = "reply", !.d = call[c].d, !.reply = t]
<1>1. q \in CallStates /\ q.pc = "reply"
  BY ClientRecords DEF ClientTypes, CallStates, Pcs
<1> HIDE DEF q
<1>2. call' = [call EXCEPT ![c] = q]
  BY DEF Client!Reply, q
<1> QED BY <1>1, <1>2, CallMoves

\* Every step keeps the types of the requests.
LEMMA CallsKept ==
    ClientTypes /\ CallsOver /\ [Client!Next]_clientVars => call' \in [Calls -> CallStates] /\ CallsOver'
<1> SUFFICES ASSUME ClientTypes, CallsOver, [Client!Next]_clientVars
             PROVE  call' \in [Calls -> CallStates] /\ CallsOver'
  OBVIOUS
<1> DEFINE Goal == call' \in [Calls -> CallStates] /\ CallsOver'
<1>1. ASSUME NEW c \in Calls, NEW d \in Devices, NEW op \in Client!Ops, Client!Enter(c, d, op) PROVE Goal
  <2> DEFINE q == [Client!NoCall EXCEPT !.pc = "entered", !.op = op, !.d = d,
                                        !.sid = token[d].sid, !.id = consumer.id]
  <2>1. q \in CallStates /\ q.pc # "idle"
    <3>1. consumer.id \in Nat /\ token[d].sid \in Sids \cup {NoSid}
      BY ClientNumbers DEF ClientTypes, Cookies
    <3>2. Client!NoCookie \in Cookies
      BY ClientRecords
    <3> QED BY <3>1, <3>2 DEF CallStates, Pcs, Client!NoCall
  <2> HIDE DEF q
  <2>2. call' = [call EXCEPT ![c] = q]
    BY <1>1 DEF Client!Enter, q
  <2> QED BY <2>1, <2>2, CallMoves
<1>2. ASSUME NEW c \in Calls, NEW d \in Devices, Client!Register(c, d) \/ Client!Login(c, d) PROVE Goal
  <2>1. PICK pc \in {"register", "issue"} :
            call' = [call EXCEPT ![c] = [Client!NoCall EXCEPT !.pc = pc, !.d = d, !.id = consumer.id,
                                                              !.hash = consumer.hash]]
    BY <1>2 DEF Client!Register, Client!Login, Client!NoCall
  <2> DEFINE q == [Client!NoCall EXCEPT !.pc = pc, !.d = d, !.id = consumer.id, !.hash = consumer.hash]
  <2>2. q \in CallStates /\ q.pc # "idle"
    <3>1. consumer.id \in Nat /\ consumer.hash \in Nat
      BY ClientNumbers DEF ClientTypes
    <3>2. Client!NoCookie \in Cookies
      BY ClientRecords
    <3> QED BY <3>1, <3>2 DEF CallStates, Pcs, Client!NoCall
  <2> HIDE DEF q
  <2> QED BY <2>1, <2>2, CallMoves DEF q
<1>3. ASSUME NEW c \in Calls, Client!RegisterWrite(c) \/ Client!WriteHash(c) \/ Client!ChangePassword(c)
                              \/ Client!RevokeAll(c)
      PROVE Goal
  <2>1. CASE Client!Leave(c)
    BY <2>1, LeaveMoves
  <2>2. CASE ~Client!Leave(c)
    <3>1. nextHash \in Nat /\ nextId \in Nat /\ consumer.id \in Nat
      BY ClientNumbers DEF ClientTypes, Counters
    <3>2. CASE Client!RegisterWrite(c)
      <4>1. /\ call' = [call EXCEPT ![c].pc = "issue", ![c].id = consumer'.id, ![c].hash = nextHash]
            /\ consumer'.id \in {nextId, consumer.id}
        BY <2>2, <3>2 DEF Client!RegisterWrite
      <4> DEFINE q == [call[c] EXCEPT !.pc = "issue", !.id = consumer'.id, !.hash = nextHash]
      <4>2. q \in CallStates /\ q.pc = "issue"
        BY ZenonT(60), <3>1, <4>1 DEF ClientTypes, CallStates, Pcs
      <4>3. call' = [call EXCEPT ![c] = q]
        BY <4>1 DEF ClientTypes, CallStates
      <4> HIDE DEF q
      <4> QED BY <4>2, <4>3, CallMoves
    <3>3. CASE Client!WriteHash(c)
      <4>1. call' = [call EXCEPT ![c].pc = "revokeAll", ![c].hash = nextHash]
        BY <2>2, <3>3 DEF Client!WriteHash
      <4> DEFINE q == [call[c] EXCEPT !.pc = "revokeAll", !.hash = nextHash]
      <4>2. q \in CallStates /\ q.pc = "revokeAll"
        BY <3>1, <4>1 DEF ClientTypes, CallStates, Pcs
      <4>3. call' = [call EXCEPT ![c] = q]
        BY <4>1 DEF ClientTypes, CallStates
      <4> HIDE DEF q
      <4> QED BY <4>2, <4>3, CallMoves
    <3>4. CASE Client!ChangePassword(c) \/ Client!RevokeAll(c)
      <4>1. PICK pc \in {"issue", "change"} : call' = [call EXCEPT ![c].pc = pc]
        BY <3>4 DEF Client!ChangePassword, Client!RevokeAll
      <4> QED BY <4>1 DEF ClientTypes, CallStates, Pcs, CallsOver, Client!NoCall
    <3> QED BY <1>3, <3>2, <3>3, <3>4
  <2> QED BY <2>1, <2>2
<1>4. ASSUME NEW c \in Calls, Client!Issue(c) \/ Client!Refresh(c) PROVE Goal
  <2>1. \A s \in Sids \cup {NoSid}, hash \in Nat : [sid |-> s, pv |-> hash, exp |-> day + Ttl] \in Cookies
    BY ClientNumbers DEF ClientTypes, Counters, Cookies
  <2>2. call[c].sid \in Sids \cup {NoSid} /\ call[c].hash \in Nat /\ consumer.hash \in Nat
    BY ClientNumbers DEF ClientTypes, CallStates
  <2>3. PICK t \in Cookies : Client!Leave(c) \/ Client!Reply(c, t)
    <3>1. CASE Client!Issue(c)
      BY <2>1, <2>2, <3>1, Zenon DEF Client!Issue
    <3>2. CASE Client!Refresh(c)
      BY <2>1, <2>2, <3>2, Zenon DEF Client!Refresh
    <3> QED BY <1>4, <3>1, <3>2
  <2> QED BY <2>3, LeaveMoves, ReplyMoves
<1>5. ASSUME NEW c \in Calls,
             Client!Receive(c) \/ Client!Miss(c) \/ Client!Revoke(c) \/ Client!Delete(c) \/ Client!Cut(c)
      PROVE Goal
  BY <1>5, LeaveMoves DEF Client!Receive, Client!Miss, Client!Revoke, Client!Delete, Client!Cut
<1>6. ASSUME Client!Cleanup \/ Client!Day \/ (\E d \in Devices : Client!Logout(d)) \/ UNCHANGED clientVars
      PROVE Goal
  BY <1>6 DEF Client!Cleanup, Client!Day, Client!Logout, clientVars, ClientTypes, CallsOver
<1> QED BY <1>1, <1>2, <1>3, <1>4, <1>5, <1>6, Zenon DEF Client!Next

\* The actions that leave the rows of the sessions alone.
Elsewhere(c) ==
    \/ Client!RegisterWrite(c) \/ Client!Receive(c) \/ Client!Miss(c)
    \/ Client!ChangePassword(c) \/ Client!WriteHash(c) \/ Client!Cut(c)
    \/ \E d \in Devices : \/ Client!Register(c, d) \/ Client!Login(c, d)
                          \/ \E op \in Client!Ops : Client!Enter(c, d, op)
Around == Client!Day \/ (\E d \in Devices : Client!Logout(d)) \/ UNCHANGED clientVars

\* They do leave them alone.
LEMMA SessionUnchanged ==
    /\ \A c \in Calls : Elsewhere(c) => session' = session
    /\ Around => session' = session
BY Zenon DEF Elsewhere, Client!RegisterWrite, Client!Receive, Client!Miss, Client!ChangePassword,
       Client!WriteHash, Client!Cut, Client!Register, Client!Login, Client!Enter,
       Around, Client!Day, Client!Logout, clientVars

\* The steps, sorted by what they do to the sessions.
LEMMA ClientSteps ==
    [Client!Next]_clientVars =>
        \/ \E c \in Calls : \/ Elsewhere(c) \/ Client!Issue(c) \/ Client!Refresh(c)
                            \/ Client!Revoke(c) \/ Client!Delete(c) \/ Client!RevokeAll(c)
        \/ Client!Cleanup \/ Around
BY Zenon DEF Client!Next, Elsewhere, Around

\* Every step keeps the types of the sessions.
LEMMA SessionsKept == ClientTypes /\ [Client!Next]_clientVars => session' \in [Sids -> SessionRows]
<1> SUFFICES ASSUME ClientTypes, [Client!Next]_clientVars PROVE session' \in [Sids -> SessionRows]
  OBVIOUS
<1>1. /\ session \in [Sids -> SessionRows] /\ day \in Nat /\ day + Ttl \in Nat
      /\ consumer.id \in Nat /\ call \in [Calls -> CallStates]
  BY ClientNumbers DEF ClientTypes, Counters
<1>2. ASSUME NEW c \in Calls, Client!Issue(c) PROVE session' \in [Sids -> SessionRows]
  <2>1. \A hash \in Nat : [state |-> "open", owner |-> consumer.id, expires |-> day + Ttl,
                           proof |-> hash, revokedOn |-> 0] \in SessionRows
    BY <1>1 DEF SessionRows, States
  <2>2. call[c].hash \in Nat
    BY <1>1 DEF CallStates
  <2> QED BY <1>1, <1>2, <2>1, <2>2 DEF Client!Issue
<1>3. ASSUME NEW c \in Calls, Client!Refresh(c) PROVE session' \in [Sids -> SessionRows]
  BY <1>1, <1>3 DEF Client!Refresh, SessionRows
<1>4. \A s \in Sids : [session[s] EXCEPT !.state = "revoked", !.revokedOn = day] \in SessionRows
  BY <1>1 DEF SessionRows, States
<1>5. ASSUME NEW sids, Client!Revoked(sids) PROVE session' \in [Sids -> SessionRows]
  BY <1>1, <1>4, <1>5 DEF Client!Revoked
<1>6. ASSUME NEW c \in Calls, Client!Revoke(c) \/ Client!RevokeAll(c)
      PROVE  session' \in [Sids -> SessionRows]
  BY <1>1, <1>5, <1>6, Zenon DEF Client!Revoke, Client!RevokeAll
<1>7. ASSUME (\E c \in Calls : Client!Delete(c)) \/ Client!Cleanup
      PROVE  session' \in [Sids -> SessionRows]
  BY <1>1, <1>7, ClientRecords DEF Client!Delete, Client!Cascade, Client!Cleanup
<1> QED BY <1>1, <1>2, <1>3, <1>6, <1>7, ClientSteps, SessionUnchanged, Zenon

\* Every step keeps the types of the whole account.
LEMMA ClientTypesKept ==
    ClientTypes /\ CallsOver /\ [Client!Next]_clientVars => ClientTypes' /\ CallsOver'
<1> SUFFICES ASSUME ClientTypes, CallsOver, [Client!Next]_clientVars PROVE ClientTypes' /\ CallsOver'
  OBVIOUS
<1> DEFINE Consumers == [id : 0..MaxId, hash : 0..MaxHash]
<1>1. consumer' \in Consumers
  <2>1. consumer \in Consumers /\ [id |-> 0, hash |-> 0] \in Consumers
        /\ nextId \in 1..(MaxId + 1) /\ nextHash \in 1..(MaxHash + 1)
    BY ClientNumbers DEF ClientTypes, Counters
  <2>2. ASSUME NEW c \in Calls, Client!RegisterWrite(c) PROVE consumer' \in Consumers
    BY <2>1, <2>2, ClientNumbers DEF Client!RegisterWrite
  <2>3. ASSUME NEW c \in Calls, Client!WriteHash(c) PROVE consumer' \in Consumers
    BY <2>1, <2>3, ClientNumbers DEF Client!WriteHash
  <2>4. ASSUME NEW c \in Calls, Client!Delete(c) PROVE consumer' \in Consumers
    BY <2>1, <2>4 DEF Client!Delete
  <2> HIDE DEF Consumers
  <2> QED BY <2>1, <2>2, <2>3, <2>4, Zenon
          DEF Client!Next, Client!Register, Client!Login, Client!Enter, Client!Issue, Client!Receive,
              Client!Miss, Client!Refresh, Client!Revoke, Client!ChangePassword,
              Client!RevokeAll, Client!Cut, Client!Cleanup, Client!Day, Client!Logout, clientVars
<1>2. token' \in [Devices -> Cookies]
  <2>1. token \in [Devices -> Cookies]
    BY DEF ClientTypes
  <2>2. ASSUME NEW c \in Calls, Client!Receive(c) PROVE token' \in [Devices -> Cookies]
    <3>1. call[c].reply \in Cookies
      BY DEF ClientTypes, CallStates
    <3> QED BY <2>1, <2>2, <3>1 DEF Client!Receive
  <2>3. ASSUME NEW d \in Devices, Client!Logout(d) PROVE token' \in [Devices -> Cookies]
    BY <2>1, <2>3, ClientRecords DEF Client!Logout
  <2> QED BY <2>1, <2>2, <2>3, ZenonT(60)
          DEF Client!Next, Client!Register, Client!Login, Client!Enter, Client!Issue,
              Client!RegisterWrite, Client!WriteHash, Client!Delete,
              Client!Miss, Client!Refresh, Client!Revoke, Client!ChangePassword,
              Client!RevokeAll, Client!Cut, Client!Cleanup, Client!Day, clientVars
<1>3. unended' \in BOOLEAN
  BY ZenonT(60) DEF ClientTypes, Client!Next, Client!Register, Client!Login, Client!Enter, Client!Issue,
              Client!Receive, Client!RegisterWrite, Client!WriteHash, Client!Delete,
              Client!Miss, Client!Refresh, Client!Revoke, Client!ChangePassword,
              Client!RevokeAll, Client!Cut, Client!Cleanup, Client!Day, Client!Logout, clientVars
<1> QED BY <1>1, <1>2, <1>3, CallsKept, CountersKept, SessionsKept DEF ClientTypes

\* Past the guard, or past a password that was checked or set.
PastGuard == {"entered", "change", "revokeAll", "issue"}

\* Ids and hashes in use have been handed out.
HandedOut ==
    /\ consumer.id < nextId /\ consumer.hash < nextHash
    /\ \A d \in Devices : token[d].pv < nextHash
    /\ \A c \in Calls : /\ call[c].id < nextId /\ call[c].hash < nextHash
                        /\ call[c].reply.pv < nextHash

\* A session that is open belongs to an account with a password.
Owned == \A s \in Sids : session[s].state = "open" =>
             session[s].owner = consumer.id /\ consumer.id # 0 /\ consumer.hash # 0

\* So does a request that has got past the guard, while its account is there.
Passed == \A c \in Calls : call[c].pc \in PastGuard =>
              call[c].id # 0 /\ (call[c].id = consumer.id => consumer.hash # 0)

\* A cookie, or a request past the guard, names a session that has been issued.
WasIssued(sid) == sid \in Sids => session[sid].state # "none"
Issued ==
    /\ \A d \in Devices : WasIssued(token[d].sid)
    /\ \A c \in Calls : /\ WasIssued(call[c].reply.sid)
                        /\ call[c].pc = "entered" => call[c].sid \in Sids /\ WasIssued(call[c].sid)

\* A password has been replaced and the request that did it has still to end the sessions.
Replacing == \E c \in Calls : call[c].pc = "revokeAll" /\ call[c].id = consumer.id

\* Neither a cookie signed for the present password, nor a request past the guard, goes with a
\* session that is open and was opened with another password.
IsPresent(sid) == sid \in Sids /\ session[sid].state = "open" => session[sid].proof = consumer.hash
NoneOld ==
    /\ \A d \in Devices : token[d].pv = consumer.hash => IsPresent(token[d].sid)
    /\ \A c \in Calls : /\ call[c].reply.pv = consumer.hash => IsPresent(call[c].reply.sid)
                        /\ call[c].pc = "entered" => IsPresent(call[c].sid)

OldAreUnended == ~unended /\ ~Replacing => NoneOld

ClientInv == ClientTypes /\ CallsOver /\ HandedOut /\ Owned /\ Passed /\ Issued /\ OldAreUnended

\* A step of request c, and what the request is after it.
Becomes(c, pc, sid, id, hash, reply) ==
    /\ \A b \in Calls : b # c => call'[b] = call[b]
    /\ call'[c].pc = pc /\ call'[c].sid = sid /\ call'[c].id = id /\ call'[c].hash = hash
    /\ call'[c].reply = reply
Over(c) == Becomes(c, "idle", NoSid, 0, 0, Client!NoCookie)
Answered(c, t) == Becomes(c, "reply", NoSid, 0, 0, t)

\* What each action makes of the request that takes it.
LEMMA Moves ==
    ASSUME ClientTypes, NEW c \in Calls
    PROVE  /\ Client!Leave(c) => Over(c)
           /\ \A t : Client!Reply(c, t) => Answered(c, t)
           /\ \A d \in Devices, op \in Client!Ops : Client!Enter(c, d, op) =>
                  Becomes(c, "entered", token[d].sid, consumer.id, 0, Client!NoCookie)
           /\ \A d \in Devices : Client!Register(c, d) =>
                  Becomes(c, "register", NoSid, consumer.id, consumer.hash, Client!NoCookie)
           /\ \A d \in Devices : Client!Login(c, d) =>
                  Becomes(c, "issue", NoSid, consumer.id, consumer.hash, Client!NoCookie)
           /\ Client!RegisterWrite(c) => Over(c) \/
                  Becomes(c, "issue", call[c].sid, consumer'.id, nextHash, call[c].reply)
           /\ Client!WriteHash(c) => Over(c) \/
                  Becomes(c, "revokeAll", call[c].sid, call[c].id, nextHash, call[c].reply)
           /\ Client!ChangePassword(c) =>
                  Becomes(c, "change", call[c].sid, call[c].id, call[c].hash, call[c].reply)
           /\ Client!RevokeAll(c) =>
                  Becomes(c, "issue", call[c].sid, call[c].id, call[c].hash, call[c].reply)
<1> USE DEF Becomes, Over, Answered
<1>1. call \in [Calls -> CallStates] /\ call[c] \in CallStates
  BY DEF ClientTypes
<1>2. Client!Leave(c) => Over(c)
  BY <1>1 DEF Client!Leave, Client!NoCall
<1>3. ASSUME NEW t, Client!Reply(c, t) PROVE Answered(c, t)
  BY <1>1, <1>3 DEF Client!Reply, Client!NoCall
<1>4. ASSUME NEW d \in Devices, NEW op \in Client!Ops, Client!Enter(c, d, op)
      PROVE  Becomes(c, "entered", token[d].sid, consumer.id, 0, Client!NoCookie)
  BY <1>1, <1>4 DEF Client!Enter, Client!NoCall
<1>5. ASSUME NEW d \in Devices, Client!Register(c, d)
      PROVE  Becomes(c, "register", NoSid, consumer.id, consumer.hash, Client!NoCookie)
  BY <1>1, <1>5 DEF Client!Register, Client!NoCall
<1>6. ASSUME NEW d \in Devices, Client!Login(c, d)
      PROVE  Becomes(c, "issue", NoSid, consumer.id, consumer.hash, Client!NoCookie)
  BY <1>1, <1>6 DEF Client!Login, Client!NoCall
<1>7. ASSUME Client!RegisterWrite(c), ~Client!Leave(c)
      PROVE  Becomes(c, "issue", call[c].sid, consumer'.id, nextHash, call[c].reply)
  <2>1. call' = [call EXCEPT ![c].pc = "issue", ![c].id = consumer'.id, ![c].hash = nextHash]
    BY <1>7 DEF Client!RegisterWrite
  <2> QED BY <1>1, <2>1 DEF CallStates
<1>8. ASSUME Client!WriteHash(c), ~Client!Leave(c)
      PROVE  Becomes(c, "revokeAll", call[c].sid, call[c].id, nextHash, call[c].reply)
  <2>1. call' = [call EXCEPT ![c].pc = "revokeAll", ![c].hash = nextHash]
    BY <1>8 DEF Client!WriteHash
  <2> QED BY <1>1, <2>1 DEF CallStates
<1>9. ASSUME Client!ChangePassword(c)
      PROVE  Becomes(c, "change", call[c].sid, call[c].id, call[c].hash, call[c].reply)
  BY <1>1, <1>9 DEF Client!ChangePassword, CallStates
<1>10. ASSUME Client!RevokeAll(c)
      PROVE  Becomes(c, "issue", call[c].sid, call[c].id, call[c].hash, call[c].reply)
  BY <1>1, <1>10 DEF Client!RevokeAll, CallStates
<1> HIDE DEF Becomes, Over, Answered
<1> QED BY <1>2, <1>3, <1>4, <1>5, <1>6, <1>7, <1>8, <1>9, <1>10, Zenon

\* What request c may do.
Arrives(c) == \E d \in Devices : \/ Client!Register(c, d) \/ Client!Login(c, d)
                                 \/ \E op \in Client!Ops : Client!Enter(c, d, op)
GoesOn(c) == Client!RegisterWrite(c) \/ Client!WriteHash(c) \/ Client!ChangePassword(c)
             \/ Client!RevokeAll(c)
Answers(c) == Client!Issue(c) \/ Client!Refresh(c)
Leaves(c) == Client!Receive(c) \/ Client!Miss(c) \/ Client!Revoke(c) \/ Client!Delete(c)
             \/ Client!Cut(c)
Acts(c) == Arrives(c) \/ GoesOn(c) \/ Answers(c) \/ Leaves(c)

\* A step is one of a request, the daily clean-up, or none of the requests' business.
LEMMA Actors == [Client!Next]_clientVars => (\E c \in Calls : Acts(c)) \/ Client!Cleanup \/ Around
BY Zenon DEF Client!Next, Acts, Arrives, GoesOn, Answers, Leaves, Around

\* The actions that end a request, or leave it nothing but its answer to give.
LEMMA LeavesOrAnswers ==
    ASSUME ClientTypes, NEW c \in Calls
    PROVE  /\ Answers(c) => Over(c) \/ \E t : Answered(c, t)
           /\ Leaves(c) => Over(c)
<1>1. Answers(c) => Client!Leave(c) \/ \E t : Client!Reply(c, t)
  BY Zenon DEF Answers, Client!Issue, Client!Refresh
<1>2. Leaves(c) => Client!Leave(c)
  BY Zenon DEF Leaves, Client!Receive, Client!Miss, Client!Revoke, Client!Delete, Client!Cut
<1> QED BY <1>1, <1>2, Moves, Zenon

\* A request changes no other.
LEMMA OthersStay ==
    ASSUME ClientTypes, NEW c \in Calls, Acts(c), NEW b \in Calls, b # c
    PROVE  call'[b] = call[b]
<1>1. \E pc, sid, id, hash, reply : Becomes(c, pc, sid, id, hash, reply)
  BY Moves, LeavesOrAnswers, Zenon DEF Acts, Arrives, GoesOn, Over, Answered
<1> QED BY <1>1 DEF Becomes

\* Identifiers and hashes in use were handed out before: the next ones are new.
LEMMA HandedOutKept ==
    ClientTypes /\ HandedOut /\ [Client!Next]_clientVars => HandedOut'
<1> SUFFICES ASSUME ClientTypes, HandedOut, [Client!Next]_clientVars PROVE HandedOut'
  OBVIOUS
<1>1. /\ nextId \in Nat /\ nextHash \in Nat /\ nextId >= 1 /\ nextHash >= 1
      /\ consumer.id \in Nat /\ consumer.hash \in Nat
      /\ \A c \in Calls : call[c].id \in Nat /\ call[c].hash \in Nat /\ call[c].reply.pv \in Nat
      /\ \A d \in Devices : token[d].pv \in Nat
  BY ClientNumbers DEF ClientTypes, Counters, CallStates, Cookies
<1>2. Client!NoCookie.pv = 0
  BY DEF Client!NoCookie
<1> DEFINE CallsBelow == \A b \in Calls : /\ call[b].id < nextId /\ call[b].hash < nextHash
                                          /\ call[b].reply.pv < nextHash
           TokensBelow == \A d \in Devices : token[d].pv < nextHash
           ConsumerBelow == consumer.id < nextId /\ consumer.hash < nextHash
           Counting == (nextId' = nextId \/ nextId' = nextId + 1)
                       /\ (nextHash' = nextHash \/ nextHash' = nextHash + 1)
<1>3. CallsBelow /\ TokensBelow /\ ConsumerBelow
  BY DEF HandedOut
<1>4. ASSUME NEW c \in Calls, NEW pc, NEW sid, NEW id \in Nat, NEW hash \in Nat, NEW reply,
             reply.pv \in Nat, Becomes(c, pc, sid, id, hash, reply), Counting,
             id < nextId', hash < nextHash', reply.pv < nextHash'
      PROVE  CallsBelow'
  BY <1>1, <1>3, <1>4 DEF Becomes
<1>5. ASSUME NEW c \in Calls, Over(c), Counting PROVE CallsBelow'
  BY <1>1, <1>2, <1>4, <1>5 DEF Over
<1>6. ASSUME NEW c \in Calls, Client!RegisterWrite(c) PROVE HandedOut'
  <2>1. Counting /\ ConsumerBelow' /\ consumer'.id \in Nat /\ token' = token
    BY <1>1, <1>3, <1>6 DEF Client!RegisterWrite
  <2>2. CASE Over(c)
    BY <1>1, <1>3, <1>5, <2>1, <2>2 DEF HandedOut
  <2>3. CASE ~Over(c)
    <3>1. Becomes(c, "issue", call[c].sid, consumer'.id, nextHash, call[c].reply)
      BY <1>6, <2>3, Moves
    <3>2. nextHash' = nextHash + 1
      BY <1>6, <2>3, Moves DEF Client!RegisterWrite
    <3>3. CallsBelow'
      BY <1>1, <1>3, <1>4, <2>1, <3>1, <3>2
    <3> QED BY <1>1, <1>3, <2>1, <3>3 DEF HandedOut
  <2> QED BY <2>2, <2>3
<1>7. ASSUME NEW c \in Calls, Client!WriteHash(c) PROVE HandedOut'
  <2>1. Counting /\ ConsumerBelow' /\ token' = token /\ nextId' = nextId
    BY <1>1, <1>3, <1>7 DEF Client!WriteHash, ClientTypes
  <2>2. CASE Over(c)
    BY <1>1, <1>3, <1>5, <2>1, <2>2 DEF HandedOut
  <2>3. CASE ~Over(c)
    <3>1. Becomes(c, "revokeAll", call[c].sid, call[c].id, nextHash, call[c].reply)
      BY <1>7, <2>3, Moves
    <3>2. nextHash' = nextHash + 1
      BY <1>7, <2>3, Moves DEF Client!WriteHash
    <3>3. CallsBelow'
      BY <1>1, <1>3, <1>4, <2>1, <3>1, <3>2
    <3> QED BY <1>1, <1>3, <2>1, <3>3 DEF HandedOut
  <2> QED BY <2>2, <2>3
<1>8. ASSUME NEW c \in Calls, NEW d \in Devices,
             Client!Register(c, d) \/ Client!Login(c, d) \/ \E op \in Client!Ops : Client!Enter(c, d, op)
      PROVE  HandedOut'
  <2>1. UNCHANGED <<consumer, token, nextId, nextHash>>
    BY <1>8, Zenon DEF Client!Register, Client!Login, Client!Enter
  <2>2. \/ Becomes(c, "register", NoSid, consumer.id, consumer.hash, Client!NoCookie)
        \/ Becomes(c, "issue", NoSid, consumer.id, consumer.hash, Client!NoCookie)
        \/ Becomes(c, "entered", token[d].sid, consumer.id, 0, Client!NoCookie)
    BY <1>8, Moves, Zenon
  <2>3. CallsBelow'
    BY <1>1, <1>2, <1>3, <1>4, <2>1, <2>2
  <2> QED BY <1>3, <2>1, <2>3 DEF HandedOut
<1>9. ASSUME NEW c \in Calls, Client!ChangePassword(c) \/ Client!RevokeAll(c) PROVE HandedOut'
  <2>1. UNCHANGED <<consumer, token, nextId, nextHash>>
    BY <1>9, Zenon DEF Client!ChangePassword, Client!RevokeAll
  <2>2. PICK pc : Becomes(c, pc, call[c].sid, call[c].id, call[c].hash, call[c].reply)
    BY <1>9, Moves, Zenon
  <2>3. CallsBelow'
    BY <1>1, <1>3, <1>4, <2>1, <2>2
  <2> QED BY <1>3, <2>1, <2>3 DEF HandedOut
<1>10. ASSUME NEW c \in Calls, Client!Issue(c) \/ Client!Refresh(c) PROVE HandedOut'
  <2>1. UNCHANGED <<consumer, token, nextId, nextHash>>
    BY <1>10, Zenon DEF Client!Issue, Client!Refresh
  <2>2. \/ Client!Leave(c)
        \/ \E sid, exp : \/ Client!Reply(c, [sid |-> sid, pv |-> call[c].hash, exp |-> exp])
                         \/ Client!Reply(c, [sid |-> sid, pv |-> consumer.hash, exp |-> exp])
    BY <1>10, Zenon DEF Client!Issue, Client!Refresh
  <2>3. CASE Client!Leave(c)
    BY <1>3, <1>5, <2>1, <2>3, Moves DEF HandedOut
  <2>4. ASSUME NEW sid, NEW exp, NEW pv \in {call[c].hash, consumer.hash},
               Client!Reply(c, [sid |-> sid, pv |-> pv, exp |-> exp])
        PROVE  HandedOut'
    <3>1. Answered(c, [sid |-> sid, pv |-> pv, exp |-> exp])
      BY <2>4, Moves
    <3>2. CallsBelow'
      BY <1>1, <1>3, <1>4, <2>1, <3>1 DEF Answered
    <3> QED BY <1>3, <2>1, <3>2 DEF HandedOut
  <2> QED BY <2>2, <2>3, <2>4
<1>11. ASSUME NEW c \in Calls,
              Client!Receive(c) \/ Client!Miss(c) \/ Client!Revoke(c) \/ Client!Delete(c) \/ Client!Cut(c)
       PROVE  HandedOut'
  <2>1. Client!Leave(c) /\ UNCHANGED <<nextId, nextHash>>
    BY <1>11, Zenon DEF Client!Receive, Client!Miss, Client!Revoke, Client!Delete, Client!Cut
  <2>2. CallsBelow'
    BY <1>5, <2>1, Moves
  <2>3. ConsumerBelow'
    BY <1>1, <1>3, <1>11, <2>1 DEF Client!Receive, Client!Miss, Client!Revoke, Client!Delete, Client!Cut
  <2>4. TokensBelow'
    BY <1>1, <1>3, <1>11, <2>1 DEF Client!Receive, Client!Miss, Client!Revoke, Client!Delete, Client!Cut,
                                  ClientTypes
  <2> QED BY <2>2, <2>3, <2>4 DEF HandedOut
<1>12. CASE Client!Cleanup \/ Client!Day \/ UNCHANGED clientVars
  BY <1>12, <1>3 DEF HandedOut, Client!Cleanup, Client!Day, clientVars
<1>13. ASSUME NEW d \in Devices, Client!Logout(d) PROVE HandedOut'
  BY <1>1, <1>2, <1>3, <1>13 DEF HandedOut, Client!Logout, ClientTypes
<1> QED BY <1>6, <1>7, <1>8, <1>9, <1>10, <1>11, <1>12, <1>13, Zenon DEF Client!Next

\* A session that is open was open already, or has just been issued to the account that is there.
StayedOpen(s) == session[s].state = "open" /\ session'[s].owner = session[s].owner
                 /\ session'[s].proof = session[s].proof
NowIssued(c, s) ==
    /\ Client!Issue(c) /\ consumer.id = call[c].id
    /\ session[s].state = "none" /\ session'[s].owner = consumer.id
    /\ session'[s].proof = call[c].hash

\* How the row of a session moves: once made it stays made, and it is open only if it was or has just been
\* issued; deleting the account or ending its sessions closes what is its own.
LEMMA SessionMoves ==
    ASSUME ClientTypes, [Client!Next]_clientVars, NEW s \in Sids
    PROVE  /\ session[s].state # "none" => session'[s].state # "none"
           /\ session'[s].state = "open" =>
                  StayedOpen(s) \/ \E c \in Calls : NowIssued(c, s)
           /\ (\E c \in Calls : Client!Delete(c)) => session'[s].state # "open"
           /\ \A c \in Calls : Client!RevokeAll(c) /\ consumer.id = call[c].id
                  => session'[s].state # "open"
<1> DEFINE Goal == /\ session[s].state # "none" => session'[s].state # "none"
                   /\ session'[s].state = "open" =>
                          StayedOpen(s) \/ \E c \in Calls : NowIssued(c, s)
<1> USE DEF StayedOpen
<1>1. session \in [Sids -> SessionRows] /\ session[s] \in SessionRows
  BY DEF ClientTypes
<1>2. ASSUME NEW c \in Calls, Client!Issue(c) PROVE Goal
  <2>1. CASE session' = session
    BY <2>1
  <2>2. CASE session' # session
    <3>1. PICK n \in Sids :
              /\ session[n].state = "none"
              /\ session' = [session EXCEPT ![n] =
                     [state |-> "open", owner |-> consumer.id, expires |-> day + Ttl,
                      proof |-> call[c].hash, revokedOn |-> 0]]
              /\ consumer.id = call[c].id
      BY <1>2, <2>2, Zenon DEF Client!Issue
    <3>2. CASE s = n
      BY <1>1, <1>2, <3>1, <3>2 DEF NowIssued
    <3>3. CASE s # n
      BY <1>1, <3>1, <3>3
    <3> QED BY <3>2, <3>3
  <2> QED BY <2>1, <2>2
<1>3. ASSUME NEW c \in Calls, Client!Refresh(c) PROVE Goal
  BY <1>1, <1>3 DEF Client!Refresh, SessionRows
<1>4. ASSUME NEW sids, Client!Revoked(sids) PROVE Goal
  BY <1>1, <1>4 DEF Client!Revoked, SessionRows
<1>5. ASSUME NEW c \in Calls, Client!Revoke(c) \/ Client!RevokeAll(c) PROVE Goal
  <2>1. session' = session \/ \E sids : Client!Revoked(sids)
    BY <1>5, Zenon DEF Client!Revoke, Client!RevokeAll
  <2> QED BY <1>4, <2>1
<1>6. ASSUME (\E c \in Calls : Client!Delete(c)) \/ Client!Cleanup PROVE Goal
  BY <1>1, <1>6, ClientRecords DEF Client!Delete, Client!Cascade, Client!Cleanup, Client!Cleanable
<1>7. ASSUME session' = session PROVE Goal
  BY <1>7
<1> HIDE DEF Goal
<1>8. Goal
  BY <1>2, <1>3, <1>5, <1>6, <1>7, ClientSteps, SessionUnchanged, Zenon
<1>9. ASSUME NEW c \in Calls, Client!Delete(c) PROVE session'[s].state # "open"
  BY <1>1, <1>9, ClientRecords DEF Client!Delete, Client!Cascade
<1>10. ASSUME NEW c \in Calls, Client!RevokeAll(c), consumer.id = call[c].id
       PROVE  session'[s].state # "open"
  BY ZenonT(60), <1>1, <1>10 DEF Client!RevokeAll, Client!Revoked, Client!Ended, Client!Open, SessionRows
<1> QED BY <1>8, <1>9, <1>10, Zenon DEF Goal

\* The account changes hands only by being registered, given a new password or deleted.
Registered(c) == /\ Client!RegisterWrite(c) /\ consumer.id = call[c].id /\ consumer'.hash = nextHash
                 /\ consumer'.id = IF consumer.id = 0 THEN nextId ELSE consumer.id
                 /\ unended' = (unended \/ consumer.hash \notin {0, nextHash})
Changed(c) == /\ Client!WriteHash(c) /\ consumer.id = call[c].id /\ consumer'.id = consumer.id
              /\ consumer'.hash = nextHash
Deleted(c) == Client!Delete(c) /\ consumer'.id = 0 /\ consumer'.hash = 0

\* The account moves by registration, change of password or deletion only.
LEMMA ConsumerMoves ==
    ASSUME ClientTypes, [Client!Next]_clientVars
    PROVE  \/ consumer' = consumer
           \/ \E c \in Calls : Registered(c) \/ Changed(c) \/ Deleted(c)
<1>1. ASSUME NEW c \in Calls, Client!RegisterWrite(c) PROVE consumer' = consumer \/ Registered(c)
  BY <1>1 DEF Client!RegisterWrite, Registered
<1>2. ASSUME NEW c \in Calls, Client!WriteHash(c) PROVE consumer' = consumer \/ Changed(c)
  BY <1>2 DEF Client!WriteHash, Changed, ClientTypes
<1>3. ASSUME NEW c \in Calls, Client!Delete(c) PROVE Deleted(c)
  BY <1>3 DEF Client!Delete, Deleted
<1> QED BY <1>1, <1>2, <1>3, Zenon
        DEF Client!Next, Client!Register, Client!Login, Client!Enter, Client!Issue, Client!Receive,
            Client!Miss, Client!Refresh, Client!Revoke, Client!ChangePassword, Client!RevokeAll,
            Client!Cut, Client!Cleanup, Client!Day, Client!Logout, clientVars

\* Every step keeps Owned.
LEMMA OwnedKept == ClientTypes /\ Owned /\ Passed /\ [Client!Next]_clientVars => Owned'
<1> SUFFICES ASSUME ClientTypes, Owned, Passed, [Client!Next]_clientVars,
                    NEW s \in Sids, session'[s].state = "open"
             PROVE  session'[s].owner = consumer'.id /\ consumer'.id # 0 /\ consumer'.hash # 0
  BY DEF Owned
<1>1. nextHash # 0
  BY ClientNumbers DEF ClientTypes, Counters
<1>2. CASE StayedOpen(s)
  <2>1. session'[s].owner = consumer.id /\ consumer.id # 0 /\ consumer.hash # 0
    BY <1>2 DEF StayedOpen, Owned
  <2>2. ASSUME NEW c \in Calls PROVE ~Deleted(c)
    BY <2>2, SessionMoves DEF Deleted
  <2> QED BY <1>1, <2>1, <2>2, ConsumerMoves DEF Registered, Changed
<1>3. ASSUME NEW c \in Calls, NowIssued(c, s)
      PROVE  session'[s].owner = consumer'.id /\ consumer'.id # 0 /\ consumer'.hash # 0
  BY <1>3 DEF NowIssued, Client!Issue, Passed, PastGuard
<1> QED BY <1>2, <1>3, SessionMoves

\* Every step keeps Passed: an account that got past the guard loses its password only with its id.
LEMMA PassedKept ==
    ClientTypes /\ Owned /\ Passed /\ [Client!Next]_clientVars => Passed'
<1> SUFFICES ASSUME ClientTypes, Owned, Passed, [Client!Next]_clientVars,
                    NEW b \in Calls, call'[b].pc \in PastGuard
             PROVE  call'[b].id # 0 /\ (call'[b].id = consumer'.id => consumer'.hash # 0)
  BY DEF Passed
<1>1. nextHash # 0 /\ nextId # 0
  BY ClientNumbers DEF ClientTypes, Counters
<1>2. ASSUME call[b].pc \in PastGuard, call'[b].id = call[b].id
      PROVE  call'[b].id # 0 /\ (call'[b].id = consumer'.id => consumer'.hash # 0)
  <2>1. call[b].id # 0 /\ (call[b].id = consumer.id => consumer.hash # 0)
    BY <1>2 DEF Passed
  <2> QED BY <1>1, <1>2, <2>1, ConsumerMoves DEF Registered, Changed, Deleted
<1>3. ASSUME NEW d \in Devices, NEW op \in Client!Ops, Client!Enter(b, d, op)
      PROVE  call'[b].id # 0 /\ (call'[b].id = consumer'.id => consumer'.hash # 0)
  <2>1. call'[b].id = consumer.id /\ consumer' = consumer
    BY <1>3, Moves DEF Becomes, Client!Enter
  <2>2. token[d].sid \in Sids /\ session[token[d].sid].state = "open"
    BY <1>3 DEF Client!Enter, Client!Admits, ClientTypes, Cookies
  <2> QED BY <2>1, <2>2 DEF Owned
<1>4. ASSUME NEW d \in Devices, Client!Login(b, d)
      PROVE  call'[b].id # 0 /\ (call'[b].id = consumer'.id => consumer'.hash # 0)
  <2>1. call'[b].id = consumer.id
    BY <1>4, Moves DEF Becomes
  <2> QED BY <1>4, <2>1 DEF Client!Login
<1>5. ASSUME Client!RegisterWrite(b)
      PROVE  call'[b].id # 0 /\ (call'[b].id = consumer'.id => consumer'.hash # 0)
  <2>1. ~Over(b)
    BY DEF Over, Becomes, PastGuard
  <2>2. ~Client!Leave(b)
    BY <2>1, Moves
  <2>3. call'[b].id = consumer'.id
    BY <1>5, <2>1, Moves DEF Becomes
  <2> QED BY <1>1, <1>5, <2>2, <2>3 DEF Client!RegisterWrite
<1>6. ASSUME Client!WriteHash(b) \/ Client!ChangePassword(b) \/ Client!RevokeAll(b)
      PROVE  call'[b].id # 0 /\ (call'[b].id = consumer'.id => consumer'.hash # 0)
  <2>1. call[b].pc \in PastGuard
    BY <1>6 DEF Client!WriteHash, Client!ChangePassword, Client!RevokeAll, PastGuard
  <2>2. call'[b].id = call[b].id
    BY <1>6, Moves DEF Over, Becomes, PastGuard
  <2> QED BY <1>2, <2>1, <2>2
<1>7. ASSUME NEW c \in Calls, c # b, Acts(c)
      PROVE  call'[b].id # 0 /\ (call'[b].id = consumer'.id => consumer'.hash # 0)
  <2>1. call'[b] = call[b]
    BY <1>7, OthersStay
  <2> QED BY <1>2, <2>1
<1>8. ASSUME Acts(b)
      PROVE  call'[b].id # 0 /\ (call'[b].id = consumer'.id => consumer'.hash # 0)
  <2>1. ~Leaves(b) /\ ~Answers(b)
    BY LeavesOrAnswers DEF Over, Answered, Becomes, PastGuard
  <2>2. \A d \in Devices : ~Client!Register(b, d)
    BY Moves DEF Becomes, PastGuard
  <2> QED BY <1>3, <1>4, <1>5, <1>6, <1>8, <2>1, <2>2, Zenon DEF Acts, Arrives, GoesOn
<1>9. CASE Client!Cleanup \/ Around
  <2>1. call' = call
    BY <1>9, Zenon DEF Client!Cleanup, Around, Client!Day, Client!Logout, clientVars
  <2> QED BY <1>2, <2>1
<1> QED BY <1>7, <1>8, <1>9, Actors

\* Where the cookies of the devices, the answers on their way and the requests past the guard come from.
LEMMA TokenMoves ==
    ASSUME ClientTypes, [Client!Next]_clientVars, NEW d \in Devices
    PROVE  \/ token'[d] = token[d] \/ token'[d] = Client!NoCookie
           \/ \E c \in Calls : token'[d] = call[c].reply
<1>1. ASSUME NEW c \in Calls, Client!Receive(c)
      PROVE  token'[d] = token[d] \/ token'[d] = call[c].reply
  BY <1>1 DEF Client!Receive, ClientTypes
<1>2. ASSUME NEW x \in Devices, Client!Logout(x)
      PROVE  token'[d] = token[d] \/ token'[d] = Client!NoCookie
  BY <1>2 DEF Client!Logout, ClientTypes
<1> QED BY <1>1, <1>2, ZenonT(60)
        DEF Client!Next, Client!Register, Client!Login, Client!Enter, Client!RegisterWrite,
            Client!Issue, Client!Miss, Client!Refresh, Client!Revoke, Client!Delete,
            Client!ChangePassword, Client!WriteHash, Client!RevokeAll, Client!Cut,
            Client!Cleanup, Client!Day, clientVars

IssuedTo(c) == \E s \in Sids : \E exp :
    /\ NowIssued(c, s) /\ session'[s].state = "open"
    /\ Answered(c, [sid |-> s, pv |-> call[c].hash, exp |-> exp])
Renewed(c) == \E exp :
    /\ call[c].pc = "entered" /\ session[call[c].sid].state # "none"
    /\ Answered(c, [sid |-> call[c].sid, pv |-> consumer.hash, exp |-> exp])

\* What a request that issues or renews a session ends with.
LEMMA AnswerMoves ==
    ASSUME ClientTypes, NEW c \in Calls, Answers(c)
    PROVE  Over(c) \/ IssuedTo(c) \/ Renewed(c)
<1>1. ASSUME Client!Issue(c), ~Client!Leave(c) PROVE IssuedTo(c)
  <2>1. PICK n \in Sids :
            /\ session[n].state = "none"
            /\ session' = [session EXCEPT ![n] =
                   [state |-> "open", owner |-> consumer.id, expires |-> day + Ttl,
                    proof |-> call[c].hash, revokedOn |-> 0]]
            /\ consumer.id = call[c].id
            /\ Client!Reply(c, [sid |-> n, pv |-> call[c].hash, exp |-> day + Ttl])
    BY <1>1, Zenon DEF Client!Issue
  <2>2. NowIssued(c, n) /\ session'[n].state = "open"
    BY <1>1, <2>1 DEF NowIssued, ClientTypes
  <2> QED BY <2>1, <2>2, Moves, Zenon DEF IssuedTo
<1>2. ASSUME Client!Refresh(c), ~Client!Leave(c) PROVE Renewed(c)
  <2>1. /\ call[c].pc = "entered" /\ session[call[c].sid].state \notin {"none", "gone"}
        /\ Client!Reply(c, [sid |-> call[c].sid, pv |-> consumer.hash, exp |-> day + Ttl])
    BY <1>2, Zenon DEF Client!Refresh
  <2>2. Answered(c, [sid |-> call[c].sid, pv |-> consumer.hash, exp |-> day + Ttl])
    BY <2>1, Moves, Zenon
  <2> QED BY <2>1, <2>2 DEF Renewed
<1> QED BY <1>1, <1>2, Moves DEF Answers

\* Where a request has its answer and its session from.
LEMMA CallOrigin ==
    ASSUME ClientTypes, [Client!Next]_clientVars, NEW b \in Calls
    PROVE  /\ \/ call'[b].reply = call[b].reply \/ call'[b].reply = Client!NoCookie
              \/ IssuedTo(b) \/ Renewed(b)
           /\ call'[b].pc = "entered" =>
                 \/ call'[b] = call[b]
                 \/ \E d \in Devices : Client!Admits(token[d]) /\ call'[b].sid = token[d].sid
                                       /\ token[d].sid \in Sids
<1>1. ASSUME NEW c \in Calls, c # b, Acts(c) PROVE call'[b] = call[b]
  BY <1>1, OthersStay
<1>2. ASSUME Client!Cleanup \/ Around PROVE call'[b] = call[b]
  BY <1>2, Zenon DEF Client!Cleanup, Around, Client!Day, Client!Logout, clientVars
<1>3. ASSUME Answers(b) \/ Leaves(b)
      PROVE  /\ call'[b].reply = Client!NoCookie \/ IssuedTo(b) \/ Renewed(b)
             /\ call'[b].pc # "entered"
  <2>1. Over(b) \/ IssuedTo(b) \/ Renewed(b)
    BY <1>3, AnswerMoves, LeavesOrAnswers
  <2> QED BY <2>1 DEF Over, IssuedTo, Renewed, Answered, Becomes
<1>4. ASSUME GoesOn(b)
      PROVE  /\ call'[b].reply = call[b].reply \/ call'[b].reply = Client!NoCookie
             /\ call'[b].pc # "entered"
  BY <1>4, Moves DEF GoesOn, Over, Becomes
<1>5. ASSUME NEW d \in Devices, Client!Register(b, d) \/ Client!Login(b, d)
      PROVE  call'[b].reply = Client!NoCookie /\ call'[b].pc # "entered"
  BY <1>5, Moves DEF Becomes
<1>6. ASSUME NEW d \in Devices, NEW op \in Client!Ops, Client!Enter(b, d, op)
      PROVE  /\ call'[b].reply = Client!NoCookie /\ call'[b].sid = token[d].sid
             /\ Client!Admits(token[d]) /\ token[d].sid \in Sids
  <2>1. token[d].sid \in Sids
    BY <1>6 DEF Client!Enter, Client!Admits, ClientTypes, Cookies
  <2> QED BY <1>6, <2>1, Moves DEF Becomes, Client!Enter
<1> QED BY <1>1, <1>2, <1>3, <1>4, <1>5, <1>6, Actors, Zenon DEF Acts, Arrives

\* A session that was issued stays so.
LEMMA WasIssuedKept ==
    ASSUME ClientTypes, [Client!Next]_clientVars, NEW sid, WasIssued(sid)
    PROVE  sid \in Sids => session'[sid].state # "none"
BY SessionMoves DEF WasIssued

\* Every step keeps Issued.
LEMMA IssuedKept == ClientTypes /\ Issued /\ [Client!Next]_clientVars => Issued'
<1> SUFFICES ASSUME ClientTypes, Issued, [Client!Next]_clientVars PROVE Issued'  OBVIOUS
<1>1. Client!NoCookie.sid \notin Sids
  BY ClientRecords, ClientNumbers
<1>2. ASSUME NEW d \in Devices PROVE WasIssued(token[d].sid)'
  BY <1>1, TokenMoves, WasIssuedKept DEF Issued, WasIssued
<1>3. ASSUME NEW b \in Calls PROVE WasIssued(call[b].reply.sid)'
  <2>1. CASE call'[b].reply = call[b].reply
    BY <2>1, WasIssuedKept DEF Issued, WasIssued
  <2>2. CASE call'[b].reply = Client!NoCookie
    BY <1>1, <2>2 DEF WasIssued
  <2>3. CASE IssuedTo(b)
    BY <2>3 DEF IssuedTo, Answered, Becomes, WasIssued
  <2>4. CASE Renewed(b)
    <3>1. call'[b].reply.sid = call[b].sid /\ call[b].pc = "entered"
      BY <2>4 DEF Renewed, Answered, Becomes
    <3> QED BY <3>1, WasIssuedKept DEF Issued, WasIssued
  <2> QED BY <2>1, <2>2, <2>3, <2>4, CallOrigin
<1>4. ASSUME NEW b \in Calls, call'[b].pc = "entered"
      PROVE  call'[b].sid \in Sids /\ WasIssued(call[b].sid)'
  <2>1. CASE call'[b] = call[b]
    BY <1>4, <2>1, WasIssuedKept DEF Issued, WasIssued
  <2>2. CASE \E d \in Devices : call'[b].sid = token[d].sid /\ token[d].sid \in Sids
    BY <2>2, WasIssuedKept DEF Issued, WasIssued
  <2> QED BY <1>4, <2>1, <2>2, CallOrigin
<1> QED BY <1>2, <1>3, <1>4 DEF Issued

\* While the account stays as it is, a session that is open goes on being what it was.
LEMMA IsPresentKept ==
    ASSUME ClientTypes, [Client!Next]_clientVars, consumer' = consumer,
           NEW sid, WasIssued(sid), IsPresent(sid)
    PROVE  IsPresent(sid)'
BY SessionMoves DEF WasIssued, IsPresent, StayedOpen, NowIssued

\* A step that leaves the account alone brings no old session back.
LEMMA NoneOldKept ==
    ASSUME ClientTypes, Issued, NoneOld, [Client!Next]_clientVars, consumer' = consumer
    PROVE  NoneOld'
<1>1. Client!NoCookie.sid \notin Sids
  BY ClientRecords, ClientNumbers
<1>2. ASSUME NEW d \in Devices, token'[d].pv = consumer'.hash PROVE IsPresent(token[d].sid)'
  <2>1. CASE token'[d] = token[d]
    BY <1>2, <2>1, IsPresentKept DEF NoneOld, Issued, IsPresent
  <2>2. CASE token'[d] = Client!NoCookie
    BY <1>1, <2>2 DEF IsPresent
  <2>3. ASSUME NEW c \in Calls, token'[d] = call[c].reply PROVE IsPresent(token[d].sid)'
    BY <1>2, <2>3, IsPresentKept DEF NoneOld, Issued, IsPresent
  <2> QED BY <2>1, <2>2, <2>3, TokenMoves
<1>3. ASSUME NEW b \in Calls, call'[b].reply.pv = consumer'.hash
      PROVE  IsPresent(call[b].reply.sid)'
  <2>1. CASE call'[b].reply = call[b].reply
    BY <1>3, <2>1, IsPresentKept DEF NoneOld, Issued, IsPresent
  <2>2. CASE call'[b].reply = Client!NoCookie
    BY <1>1, <2>2 DEF IsPresent
  <2>3. CASE IssuedTo(b)
    BY <1>3, <2>3 DEF IssuedTo, NowIssued, Answered, Becomes, IsPresent
  <2>4. CASE Renewed(b)
    <3>1. call'[b].reply.sid = call[b].sid /\ call[b].pc = "entered"
      BY <2>4 DEF Renewed, Answered, Becomes
    <3> QED BY <3>1, IsPresentKept DEF NoneOld, Issued, IsPresent
  <2> QED BY <2>1, <2>2, <2>3, <2>4, CallOrigin
<1>4. ASSUME NEW b \in Calls, call'[b].pc = "entered" PROVE IsPresent(call[b].sid)'
  <2>1. CASE call'[b] = call[b]
    BY <1>4, <2>1, IsPresentKept DEF NoneOld, Issued, IsPresent
  <2>2. ASSUME NEW d \in Devices, Client!Admits(token[d]), call'[b].sid = token[d].sid
        PROVE  IsPresent(call[b].sid)'
    <3>1. token[d].pv = consumer.hash
      BY <2>2 DEF Client!Admits, Client!SamePassword
    <3> QED BY <2>2, <3>1, IsPresentKept DEF NoneOld, Issued, IsPresent
  <2> QED BY <1>4, <2>1, <2>2, CallOrigin
<1> QED BY <1>2, <1>3, <1>4 DEF NoneOld

\* A step after which no session is open leaves none that is old.
LEMMA NoneOpenNoneOld == (\A s \in Sids : session'[s].state # "open") => NoneOld'
BY DEF NoneOld, IsPresent

\* Every step keeps the claim about sessions older than the password.
LEMMA OldAreUnendedKept ==
    /\ ClientTypes /\ HandedOut /\ Owned /\ Passed /\ Issued /\ OldAreUnended
    /\ [Client!Next]_clientVars
    => OldAreUnended'
<1> SUFFICES ASSUME ClientTypes, HandedOut, Owned, Passed, Issued, OldAreUnended,
                    [Client!Next]_clientVars, ~unended', ~Replacing'
             PROVE  NoneOld'
  BY DEF OldAreUnended
<1>1. ~unended
  <2>1. unended' = unended \/ unended' = TRUE
        \/ \E c \in Calls : Client!RegisterWrite(c)
    BY Zenon DEF Client!Next, Client!Register, Client!Login, Client!Enter, Client!Issue,
           Client!Receive, Client!Miss, Client!Refresh, Client!Revoke, Client!Delete,
           Client!ChangePassword, Client!WriteHash, Client!RevokeAll, Client!Cut, Client!Cleanup,
           Client!Day, Client!Logout, clientVars
  <2>2. \A c \in Calls : Client!RegisterWrite(c) => (unended => unended')
    BY Zenon DEF Client!RegisterWrite
  <2> QED BY <2>1, <2>2, Zenon
<1>2. ASSUME NEW c \in Calls, Deleted(c) PROVE NoneOld'
  BY <1>2, SessionMoves, NoneOpenNoneOld DEF Deleted
<1>3. ASSUME NEW c \in Calls, Changed(c) PROVE FALSE
  <2>1. call'[c].pc = "revokeAll" /\ call'[c].id = call[c].id
    <3>1. call' = [call EXCEPT ![c].pc = "revokeAll", ![c].hash = nextHash]
      BY <1>3 DEF Changed, Client!WriteHash
    <3> QED BY <3>1 DEF ClientTypes, CallStates
  <2> QED BY <1>3, <2>1 DEF Changed, Replacing
<1>4. ASSUME NEW c \in Calls, Registered(c), consumer.hash = 0 PROVE NoneOld'
  <2>1. \A s \in Sids : session[s].state # "open"
    BY <1>4 DEF Owned
  <2>2. session' = session
    BY <1>4, SessionUnchanged DEF Registered, Elsewhere
  <2> QED BY <2>1, <2>2, NoneOpenNoneOld
<1>5. ASSUME NEW c \in Calls, Registered(c) PROVE consumer.hash = 0
  <2>1. consumer.hash \in {0, nextHash}
    BY <1>5 DEF Registered
  <2>2. consumer.hash < nextHash /\ nextHash \in Nat
    BY ClientNumbers DEF HandedOut, ClientTypes, Counters
  <2> QED BY <2>1, <2>2
<1>6. CASE ~Replacing
  <2>1. NoneOld
    BY <1>1, <1>6 DEF OldAreUnended
  <2> QED BY <1>2, <1>3, <1>4, <1>5, <2>1, ConsumerMoves, NoneOldKept
<1>7. CASE Replacing
  <2>1. PICK c \in Calls : call[c].pc = "revokeAll" /\ call[c].id = consumer.id
    BY <1>7 DEF Replacing
  <2>2. CASE Client!RevokeAll(c)
    BY <2>1, <2>2, SessionMoves, NoneOpenNoneOld
  <2>3. CASE Client!Cut(c)
    BY <2>3 DEF Client!Cut
  <2>4. CASE call'[c] = call[c]
    <3>1. consumer'.id # consumer.id
      BY <2>1, <2>4 DEF Replacing
    <3>2. consumer.id # 0
      BY <2>1 DEF Passed, PastGuard
    <3> QED BY <1>2, <1>3, <3>1, <3>2, ConsumerMoves DEF Registered
  <2>5. Client!RevokeAll(c) \/ Client!Cut(c) \/ call'[c] = call[c]
    <3>1. Acts(c) => Client!RevokeAll(c) \/ Client!Cut(c)
      BY <2>1 DEF Acts, Arrives, GoesOn, Answers, Leaves, Client!Register, Client!Login,
            Client!Enter, Client!RegisterWrite, Client!WriteHash, Client!ChangePassword,
            Client!Issue, Client!Refresh, Client!Receive, Client!Miss, Client!Revoke, Client!Delete
    <3>2. Client!Cleanup \/ Around => call' = call
      BY Zenon DEF Client!Cleanup, Around, Client!Day, Client!Logout, clientVars
    <3> QED BY <3>1, <3>2, Actors, OthersStay
  <2> QED BY <2>2, <2>3, <2>4, <2>5
<1> QED BY <1>6, <1>7

\* The invariant of the client's account is inductive.
LEMMA ClientInvAlways == Spec => []ClientInv
<1>1. Init => ClientInv
  <2> SUFFICES ASSUME Client!Init PROVE ClientInv
    BY DEF Init
  <2>1. ClientTypes /\ CallsOver
    BY ClientTypesInitial
  <2>2. HandedOut
    BY <2>1, ClientNumbers DEF HandedOut, Client!Init, Client!NoCookie, Client!NoCall
  <2>3. Owned /\ Passed /\ Issued
    BY ClientNumbers DEF Client!Init, Owned, Passed, Issued, WasIssued, PastGuard, Client!NoCookie,
           Client!NoCall, Client!NoSession
  <2>4. NoneOld
    BY ClientNumbers DEF Client!Init, NoneOld, IsPresent, Client!NoCookie, Client!NoCall,
           Client!NoSession
  <2> QED BY <2>1, <2>2, <2>3, <2>4 DEF ClientInv, OldAreUnended
<1>2. ClientInv /\ [Next]_vars => ClientInv'
  <2>1. [Next]_vars => [Client!Next]_clientVars
    BY DEF Next, vars
  <2> QED BY <2>1, ClientTypesKept, HandedOutKept, OwnedKept, PassedKept, IssuedKept,
             OldAreUnendedKept DEF ClientInv
<1> QED BY <1>1, <1>2, PTL DEF Spec

\* A session opened with a password that the account no longer has opens nothing, unless the
\* request that replaced it has still to end the sessions or was cut before it did, or two
\* registrations raced (changePassword, ConsumerJwtAuthGuard).
THEOREM OldSessionsEnd == Spec => []OldSessionOnlyIfUnended
<1>1. ClientInv => OldSessionOnlyIfUnended
  <2> SUFFICES ASSUME ClientInv, NEW d \in Devices, Client!Admits(token[d]),
                      session[token[d].sid].proof # consumer.hash, ~Client!Changing, ~unended
               PROVE  FALSE
    BY DEF OldSessionOnlyIfUnended, Client!OldSessionOnlyIfUnended
  <2>1. token[d].sid \in Sids
    BY DEF ClientInv, ClientTypes, Cookies, Client!Admits
  <2>2. NoneOld
    BY DEF ClientInv, OldAreUnended, Replacing, Client!Changing
  <2> QED BY <2>1, <2>2 DEF NoneOld, IsPresent, Client!Admits, Client!SamePassword
<1> QED BY <1>1, ClientInvAlways, PTL
=============================================================================
