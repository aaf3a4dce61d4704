--------------------------- MODULE UpgradeAttempt ---------------------------
(***************************************************************************)
(* What the upgrader promises of each task, whatever handlers, crashes and *)
(* stale records do: it is offered, launched at most once, works at most   *)
(* once and alone, starts Homebrew commands only while it works, and is    *)
(* removed only when none of them can be running; a late write may bring   *)
(* its record back, never its work.  UpgradeHost implements this           *)
(* specification.                                                          *)
(***************************************************************************)
CONSTANT Tasks

VARIABLES stage,    \* [Tasks -> Stage]
          running   \* tasks with a Homebrew command that may be running

Stage == {"unknown", "offered", "launched", "working", "ended", "removed"}

vars == <<stage, running>>

Init == stage = [t \in Tasks |-> "unknown"] /\ running = {}

\* Task t passes to the given stage.
Pass(t, to) == stage' = [stage EXCEPT ![t] = to] /\ UNCHANGED running

Prepare(t) == stage[t] = "unknown" /\ Pass(t, "offered")
Launch(t)  == stage[t] = "offered" /\ Pass(t, "launched")

Work(t) ==
    /\ stage[t] = "launched"
    /\ \A u \in Tasks : stage[u] # "working"
    /\ Pass(t, "working")

CommandStarts(t) ==
    /\ stage[t] = "working"
    /\ running' = running \cup {t} /\ UNCHANGED stage

\* By itself, killed at its deadline, or long after its supervisor.
CommandEnds(t) == running' = running \ {t} /\ UNCHANGED stage

\* The worker is done, gave up, or died; a command may survive it.
End(t) == stage[t] \in {"launched", "working"} /\ Pass(t, "ended")

Remove(t) == stage[t] = "ended" /\ t \notin running /\ Pass(t, "removed")

Return(t) == stage[t] = "removed" /\ Pass(t, "ended")

Next ==
    \E t \in Tasks : \/ Prepare(t)
                     \/ Launch(t)
                     \/ Work(t)
                     \/ CommandStarts(t)
                     \/ CommandEnds(t)
                     \/ End(t)
                     \/ Remove(t)
                     \/ Return(t)

Spec == Init /\ [][Next]_vars
=============================================================================
