------------------------------ MODULE MCAgenda ------------------------------
(***************************************************************************)
(* Small salons for TLC, run in one of two ways: requests at once over     *)
(* appointments of one length, or one request at a time with time blocks,  *)
(* the clock and services of two lengths.                                  *)
(***************************************************************************)
EXTENDS Agenda, TLC

MCDurations == {1, 2}

VARIABLE serial     \* which of the two

OneAtATime == \A r, x \in Requests : Idle(r) \/ Idle(x) \/ r = x
Short ==
    /\ now = 0
    /\ \A r \in Requests : req[r].op # "block" /\ req[r].to = req[r].from + 1

MCInit == Init /\ serial \in BOOLEAN

MCNext ==
    /\ Next
    /\ IF serial THEN OneAtATime' ELSE Short'
    /\ UNCHANGED serial

MCSpec == MCInit /\ [][MCNext]_<<vars, serial>>

\* Names of appointments, professionals and requests are interchangeable.
MCSymmetry == Permutations(Appts) \cup Permutations(Pros) \cup Permutations(Requests)

\* What holds when requests are served one at a time.
BlockOverlapOnlyIfFreedAlone == serial => BlockOverlapOnlyIfFreed
OrphanOnlyIfFreedAlone == serial => OrphanOnlyIfFreed
=============================================================================
