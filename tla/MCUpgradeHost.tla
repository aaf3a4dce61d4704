--------------------------- MODULE MCUpgradeHost ---------------------------
(* Instances of UpgradeHost for TLC. *)
EXTENDS UpgradeHost, TLC

CONSTANTS t1, t2, c1, c2

OneTask    == {t1}
TwoTasks   == {t1, t2}
OneCaller  == {c1}
TwoCallers == {c1, c2}

\* Tasks among themselves, and callers among themselves, are interchangeable.
Interchangeable == Permutations(Tasks) \cup Permutations(Callers)

\* Two handlers overlap while there is one task.  A second task comes after an
\* attempt whose record claims an expiry (written over an accepted record) or
\* a failure, and has one handler at a time.
Overlaps ==
    \/ Cardinality({t \in Tasks : t \in dirs \/ launches[t] > 0}) <= 1
    \/ /\ Cardinality({c \in Callers : pc[c] # "idle"}) <= 1
       /\ \E t \in Tasks :
            /\ launches[t] > 0 /\ disk[t] # NoRecord
            /\ disk[t].state \in {"confirmation_expired", "failed"}
=============================================================================
