---------------------------- MODULE MCConfigHub ----------------------------
(* Instances of ConfigHub for TLC. *)
EXTENDS ConfigHub

CONSTANTS ticker, h1

OneHandler == {h1}

\* Three contents per section, so that the database can go from one to another
\* and come back, and one that the gateway cannot read.
ThreeVersions == {1, 2, 3}
BadVersion    == {3}
TwoVersions   == {1, 2}
NoVersion     == {}

\* The keys are treated as the policies are: one of the two is mutated.
TwoSections   == {"config", "policies"}
SectionEvents == {"endpoints", "policies"}

\* The policies and the keys of the first database may be chosen: their
\* readable contents are interchangeable.
FirstInit     == Init /\ db["policies"] = 1 /\ db["apikeys"] = 1
                      /\ db["config"] \in {1, NoModels}
FirstSpec     == FirstInit /\ [][Next]_vars
FirstFairSpec == FirstSpec /\ Fairness
=============================================================================
