---------------------------- MODULE SlotCalendar ----------------------------
(***************************************************************************)
(* What the agenda promises to a salon, with none of the machinery: each   *)
(* appointment holds at most one slot of one professional's time, a slot   *)
(* is taken, exchanged for another or given back in one step, and no two   *)
(* appointments of a professional ever hold overlapping slots.             *)
(***************************************************************************)
EXTENDS Integers

CONSTANTS
    Appts,      \* appointments
    Pros,       \* professionals
    Instants    \* points of the time line

VARIABLE held   \* held[a]: the slot appointment a holds, or Nothing

Nothing == [pro |-> "nobody", from |-> 0, to |-> 0]

Slots == {s \in [pro : Pros, from : Instants, to : Instants] : s.from < s.to}

\* Half-open intervals of the same professional that share an instant.
Overlap(s, t) == s.pro = t.pro /\ s.from < t.to /\ t.from < s.to

Init == held = [a \in Appts |-> Nothing]

\* Appointment a takes slot s, giving back the one it held, if any.
Take(a, s) ==
    /\ \A b \in Appts \ {a} : held[b] # Nothing => ~Overlap(s, held[b])
    /\ held' = [held EXCEPT ![a] = s]

GiveBack(a) ==
    /\ held[a] # Nothing
    /\ held' = [held EXCEPT ![a] = Nothing]

Next == \E a \in Appts : GiveBack(a) \/ \E s \in Slots : Take(a, s)

Spec == Init /\ [][Next]_held
=============================================================================
