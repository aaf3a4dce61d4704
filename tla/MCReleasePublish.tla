-------------------------- MODULE MCReleasePublish --------------------------
(* Instances of ReleasePublish for TLC. *)
EXTENDS ReleasePublish, TLC

CONSTANTS v1, v2

\* The first version is released again, the second comes between.
OneRepeated == (v1 :> 2) @@ (v2 :> 1)

\* Bound: the two versions meet at the tap only, which the Linux jobs do not
\* touch, so that of the second version is left waiting after its first step.
SecondLinuxWaits == linux[v2] \in {"idle", "view"}
=============================================================================
