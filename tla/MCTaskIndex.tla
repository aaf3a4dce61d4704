---------------------------- MODULE MCTaskIndex ----------------------------
(* An instance of TaskIndex for TLC. *)
EXTENDS TaskIndex, TLC

CONSTANTS c1, c2, t1, t2, t3

TwoCleaners == {c1, c2}
ThreeTasks  == {t1, t2, t3}

\* After the first race SummaryRetained says no more of the index.
Unraced == ~raced
Exchanges   == Permutations(TwoCleaners) \cup Permutations(ThreeTasks)
=============================================================================
