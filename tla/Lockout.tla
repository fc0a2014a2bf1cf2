------------------------------- MODULE Lockout -------------------------------
(***************************************************************************)
(* The lock on an account after wrong passwords: AuthService.login and     *)
(* ConsumerAuthService.login, which keep it in the account's row, and      *)
(* PlatformAuthService.login, which keeps it in the memory of the process. *)
(* The comparison of a password takes time, and any number of attempts may *)
(* be between their read of the account and their comparison.              *)
(***************************************************************************)
EXTENDS Integers, Sequences, FiniteSets

CONSTANTS
    Attempts,           \* login requests that may be in progress at once
    Threshold,          \* LOCKOUT_THRESHOLD
    Schedule,           \* LOCKOUT_SCHEDULE_MINUTES
    MaxWrong, LastMinute    \* bounds on wrong passwords and on the clock

\* Assumed of the constants by whoever instantiates the module.
LockoutAssumption ==
    /\ IsFiniteSet(Attempts) /\ Attempts # {}
    /\ Threshold \in Nat \ {0} /\ MaxWrong \in Nat /\ LastMinute \in Nat
    /\ Schedule \in Seq(Nat) /\ Schedule # <<>>

VARIABLES
    minute,     \* Date.now()
    store,      \* where the account is kept: "row" or "memory"
    account,    \* failedLoginAttempts and lockedUntil (0: not locked)
    attempt,    \* attempt[a]: where login a stands and the account as it read it
    wrong,      \* history: wrong passwords since the last reset
    due,        \* history: the lock that the last failure past the threshold earned
    raced,      \* history: a lock was written after something else had happened
    late        \* history: passwords compared under the present lock

lockoutVars == <<minute, store, account, attempt, wrong, due, raced, late>>

Clean == [failed |-> 0, until |-> 0]
NoAttempt == [pc |-> "idle", seen |-> Clean, count |-> 0]

TypeOK ==
    /\ minute \in 0..LastMinute /\ store \in {"row", "memory"}
    /\ account.failed \in Nat /\ account.until \in Nat
    /\ \A a \in Attempts : /\ attempt[a].pc \in {"idle", "compare", "lock"}
                           /\ attempt[a].pc = "lock" => store = "row"
    /\ wrong \in 0..MaxWrong /\ due \in Nat /\ late \in Nat /\ raced \in BOOLEAN

\* The duration, were the schedule entered one step late.
DurationLate(failures) ==
    LET step == failures - Threshold - 1  last == Len(Schedule) - 1 IN
    Schedule[1 + (IF step < 0 THEN 0 ELSE IF step < last THEN step ELSE last)]
\* lockoutDurationMs
Duration(failures) ==
    LET step == failures - Threshold  last == Len(Schedule) - 1 IN
    Schedule[1 + (IF step < 0 THEN 0 ELSE IF step < last THEN step ELSE last)]

Locked == account.until > minute
LockPending == \E a \in Attempts : attempt[a].pc = "lock"

\* A locked account still costs a comparison, with a hash of nothing, and nothing changes.
Admits(a) == ~Locked

Read(a) ==
    /\ attempt[a].pc = "idle" /\ Admits(a)
    /\ attempt' = [attempt EXCEPT ![a] = [pc |-> "compare", seen |-> account, count |-> 0]]
    /\ UNCHANGED <<minute, store, account, wrong, due, raced, late>>

Compared == late' = IF account'.until <= minute \/ ~Locked THEN 0 ELSE late + 1

Reset ==
    /\ account' = Clean
    /\ wrong' = 0 /\ due' = 0
    /\ raced' = LockPending

\* The row is left alone if it was clean when it was read.
Right(a) ==
    /\ attempt[a].pc = "compare"
    /\ IF store = "memory" \/ attempt[a].seen # Clean
         THEN Reset ELSE UNCHANGED <<account, wrong, due, raced>>
    /\ attempt' = [attempt EXCEPT ![a] = NoAttempt]
    /\ Compared
    /\ UNCHANGED <<minute, store>>

\* The counter, were it added up in memory and written back.
CountedFromRead(a) == attempt[a].seen.failed + 1
\* The row's counter is incremented by the database, whatever this attempt has read.
Counted(a) == account.failed + 1

Wrong(a) ==
    LET n == Counted(a)  locks == n >= Threshold IN
    /\ attempt[a].pc = "compare" /\ wrong < MaxWrong
    /\ wrong' = wrong + 1
    /\ IF store = "memory"
         THEN /\ account' = [failed |-> n, until |-> IF locks THEN minute + Duration(n)
                                                              ELSE account.until]
              /\ due' = IF locks THEN minute + Duration(n) ELSE due
              /\ attempt' = [attempt EXCEPT ![a] = NoAttempt]
         ELSE /\ account' = [account EXCEPT !.failed = n]
              /\ attempt' = [attempt EXCEPT ![a] =
                     IF locks THEN [NoAttempt EXCEPT !.pc = "lock", !.count = n] ELSE NoAttempt]
              /\ UNCHANGED due
    /\ raced' = (raced \/ LockPending)
    /\ Compared
    /\ UNCHANGED <<minute, store>>

\* The second update of registerFailedLogin.
Lock(a) ==
    /\ attempt[a].pc = "lock"
    /\ account' = [account EXCEPT !.until = minute + Duration(attempt[a].count)]
    /\ due' = minute + Schedule[IF wrong - Threshold \in 0..(Len(Schedule) - 1)
                                  THEN wrong - Threshold + 1 ELSE Len(Schedule)]
    /\ late' = IF Locked THEN late ELSE 0
    /\ attempt' = [attempt EXCEPT ![a] = NoAttempt]
    /\ UNCHANGED <<minute, store, wrong, raced>>

\* AuthService.setPassword clears the lock as well.
SetPassword ==
    /\ store = "row" /\ account # Clean
    /\ Reset
    /\ late' = 0
    /\ UNCHANGED <<minute, store, attempt>>

\* The memory of the process goes with it.
Restart ==
    /\ store = "memory"
    /\ Reset
    /\ attempt' = [a \in Attempts |-> NoAttempt]
    /\ late' = 0
    /\ UNCHANGED <<minute, store>>

Minute ==
    /\ minute < LastMinute
    /\ minute' = minute + 1
    /\ late' = IF account.until > minute' THEN late ELSE 0
    /\ UNCHANGED <<store, account, attempt, wrong, due, raced>>

Init ==
    /\ minute = 0 /\ store \in {"row", "memory"} /\ account = Clean
    /\ attempt = [a \in Attempts |-> NoAttempt]
    /\ wrong = 0 /\ due = 0 /\ raced = FALSE /\ late = 0

Next ==
    \/ \E a \in Attempts : Read(a) \/ Right(a) \/ Wrong(a) \/ Lock(a)
    \/ SetPassword \/ Restart \/ Minute

Spec == Init /\ [][Next]_lockoutVars

-----------------------------------------------------------------------------
(* Properties *)

\* No wrong password goes uncounted, however many are compared at once ("lê, soma em memória,
\* grava" would lose some, registerFailedLogin).
NoneUncounted == account.failed = wrong

\* The account is locked for as long as its latest failure earned, unless two requests wrote
\* their locks in the other order, or one after the counter was reset.
LockIsDue == ~raced /\ ~LockPending => account.until = due

\* A lock lets no more passwords be compared than attempts were already past the check.
FewGuessesUnderLock == late < Cardinality(Attempts)
=============================================================================
