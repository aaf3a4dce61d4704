--------------------------- MODULE UpgradeRestart ---------------------------
(***************************************************************************)
(* From the installation of the new keg to the outcome: the worker of      *)
(* internal/upgrade/worker.go has brew upgrade the formula, stop and start *)
(* the service, and then polls until HealthClient.Check (verify.go) proves *)
(* that the service was restarted as the confirmed target.  The proof is   *)
(* pieced together from launchctl's pid, the answer of whoever listens on  *)
(* the port, and the link the answer's path leads through, each read at a  *)
(* moment of its own, while processes crash and are restarted and a user   *)
(* upgrades from a terminal.                                               *)
(***************************************************************************)
CONSTANTS Kegs,         \* versioned Cellar directories
          Target,       \* the keg of the confirmed formula
          SameVersion,  \* the kegs whose build reports the target's version
          Pids,         \* process ids, which are reused
          Foreign,      \* may a process that is not launchd's serve the port?
          None          \* no process, no pid, no answer

ASSUME RestartAssumption ==
    /\ SameVersion \subseteq Kegs /\ Target \in SameVersion
    /\ "opt" \notin Kegs
    /\ None \notin Kegs /\ None \notin Pids
    /\ Foreign \in BOOLEAN

\* A running tokenlive: the keg its code is from, the path it was started by
\* (what os.Executable and /health report), and whether it started after the
\* worker took down the pid of the service.
Process == [keg : Kegs, path : Kegs \cup {"opt"}, young : BOOLEAN]

\* What /health answered, and whether launchd's process answered.
Answer == [process : Process, service : BOOLEAN]

ASSUME NoneAssumption == None \notin Process /\ None \notin Answer

Stages == {"upgrade", "service_pid", "stop", "start"}
Polls  == {"list", "ask", "judge"}
Steps  == Stages \cup Polls \cup {"succeeded", "unproven"}

VARIABLES opt,       \* the keg of the opt link
          proc,      \* [Pids -> Process or None]
          loaded,    \* is the service's job loaded?
          job,       \* its process, or None while it has none
          port,      \* the pid that listens, or None
          relinked,  \* history: has the link moved since the pid was taken down?
          wpc,       \* the worker's step
          previous,  \* task.ServicePID
          listed,    \* the pid of this poll
          answer     \* the answer of this poll

service == <<opt, proc, loaded, job, port, relinked>>
worker  == <<wpc, previous, listed, answer>>
vars    == <<service, worker>>

Running(p) == proc[p] # None

\* The service may have been started from any keg, and may be down.
Init ==
    /\ opt \in Kegs
    /\ loaded \in BOOLEAN /\ job \in Pids \cup {None} /\ (job # None => loaded)
    /\ proc \in [Pids -> {None} \cup {[keg |-> k, path |-> "opt", young |-> FALSE] : k \in Kegs}]
    /\ \A p \in Pids : Running(p) <=> p = job
    /\ port \in {None, job}
    /\ relinked = FALSE
    /\ wpc = "upgrade"
    /\ previous = None /\ listed = None /\ answer = None

-----------------------------------------------------------------------------
(* Processes.                                                              *)

Young == wpc \notin {"upgrade", "service_pid"}

Starts(p, keg, path) ==
    /\ ~Running(p)
    /\ proc' = [proc EXCEPT ![p] = [keg |-> keg, path |-> path, young |-> Young]]

\* launchd starts the loaded job, and again when it has ended (keep_alive).
JobStarts(p) ==
    /\ loaded /\ job = None
    /\ Starts(p, opt, "opt") /\ job' = p
    /\ UNCHANGED <<opt, loaded, port, relinked, worker>>

\* tokenlive in a terminal.
ManualStart(p, path) ==
    /\ Starts(p, IF path = "opt" THEN opt ELSE path, path)
    /\ UNCHANGED <<opt, loaded, job, port, relinked, worker>>

Without(pid, p) == IF pid = p THEN None ELSE pid

Ends(p) ==
    /\ Running(p)
    /\ proc' = [proc EXCEPT ![p] = None]
    /\ job' = Without(job, p) /\ port' = Without(port, p)
    /\ UNCHANGED <<opt, loaded, relinked, worker>>

\* A process that finds the port taken ends instead.
Listens(p) ==
    /\ Running(p) /\ port = None
    /\ Foreign \/ p = job
    /\ port' = p
    /\ UNCHANGED <<opt, proc, loaded, job, relinked, worker>>

\* `brew upgrade` or `brew link` in a terminal.
LinkMoves ==
    /\ opt' \in Kegs \ {opt}
    /\ relinked' = (relinked \/ Young)
    /\ UNCHANGED <<proc, loaded, job, port, worker>>

-----------------------------------------------------------------------------
(* The worker, up to the restart.                                          *)

Step(from, to) == wpc = from /\ wpc' = to

\* Exit status zero says that brew is content, not where the link leads.
BrewUpgrade ==
    /\ Step("upgrade", "service_pid")
    /\ opt' \in Kegs
    /\ UNCHANGED <<proc, loaded, job, port, relinked, previous, listed, answer>>

\* Mutant of ServicePid: the pid is not taken down.
ServicePidForgotten ==
    /\ Step("service_pid", "stop")
    /\ UNCHANGED <<service, previous, listed, answer>>

ServicePid ==
    /\ Step("service_pid", "stop")
    /\ previous' = job
    /\ UNCHANGED <<service, listed, answer>>

\* `brew services stop` unloads the job and its process ends, now or later;
\* or it has left both as they were.
BrewStop ==
    /\ Step("stop", "start")
    /\ \/ UNCHANGED <<proc, loaded, job, port>>
       \/ /\ loaded' = FALSE /\ job' = None
          /\ \/ proc' = [p \in Pids |-> IF p = job THEN None ELSE proc[p]]
             \/ UNCHANGED proc
          /\ port' = IF Foreign /\ proc' = proc THEN port ELSE Without(port, job)
    /\ UNCHANGED <<opt, relinked, previous, listed, answer>>

BrewStart ==
    /\ Step("start", "list")
    /\ loaded' = TRUE
    /\ UNCHANGED <<opt, proc, job, port, relinked, previous, listed, answer>>

-----------------------------------------------------------------------------
(* Worker.verify.                                                          *)

\* Mutant of ListPid: a job that is loaded is taken for one that runs.
ListLoaded ==
    /\ wpc = "list" /\ loaded
    /\ wpc' = "ask" /\ listed' = job
    /\ UNCHANGED <<service, previous, answer>>

ListPid ==
    /\ wpc = "list" /\ job # None
    /\ wpc' = "ask" /\ listed' = job
    /\ UNCHANGED <<service, previous, answer>>

Ask ==
    /\ wpc = "ask"
    /\ IF port = None
         THEN wpc' = "list" /\ UNCHANGED answer
         ELSE wpc' = "judge" /\ answer' = [process |-> proc[port], service |-> port = job]
    /\ UNCHANGED <<service, previous, listed>>

\* Where the reported path leads by now.
Resolved(path) == IF path = "opt" THEN opt ELSE path

\* Mutant of Proves: the path is not looked at.
ProvesVersion == answer.process.keg \in SameVersion /\ listed # previous

\* Mutant of Proves: any pid will do.
ProvesUnrestarted ==
    answer.process.keg \in SameVersion /\ Resolved(answer.process.path) = Target

\* Check, in its order: the version, the pid, the executable.
Proves ==
    /\ answer.process.keg \in SameVersion
    /\ listed # previous
    /\ Resolved(answer.process.path) = Target

Judge ==
    /\ wpc = "judge"
    /\ wpc' = IF Proves THEN "succeeded" ELSE "list"
    /\ UNCHANGED <<service, previous, listed, answer>>

\* A command or launchctl fails, or the budget of the poll is spent.
GivesUp ==
    /\ wpc \in Stages \cup {"list"}
    /\ wpc' = "unproven"
    /\ UNCHANGED <<service, previous, listed, answer>>

Worker == \/ BrewUpgrade \/ ServicePid \/ BrewStop \/ BrewStart
          \/ ListPid \/ Ask \/ Judge \/ GivesUp

Next ==
    \/ Worker \/ LinkMoves
    \/ \E p \in Pids : \/ JobStarts(p) \/ Ends(p) \/ Listens(p)
                       \/ \E path \in Kegs \cup {"opt"} : ManualStart(p, path)

Spec == Init /\ [][Next]_vars

-----------------------------------------------------------------------------
(* Properties.                                                             *)

\* The variables hold what their declarations say; who is listed, launchd's,
\* or listening is a process.
TypeOK ==
    /\ opt \in Kegs
    /\ proc \in [Pids -> Process \cup {None}]
    /\ loaded \in BOOLEAN
    /\ job \in Pids \cup {None} /\ (job # None => loaded /\ Running(job))
    /\ port \in Pids \cup {None} /\ (port # None => Running(port))
    /\ relinked \in BOOLEAN
    /\ wpc \in Steps
    /\ previous \in Pids \cup {None}
    /\ listed \in Pids \cup {None} /\ (wpc \in {"ask", "judge"} => listed # None)
    /\ answer \in Answer \cup {None} /\ (wpc = "judge" => answer # None)

\* "Check returns (true, "") when the service is provably the confirmed
\* target" (verify.go): the process whose answer led to success was running the
\* confirmed keg, although it may have been started at any moment of the restart
\* and another keg may report the same version.  The path is resolved through
\* the link of a later moment, so that it takes a link nobody else has moved
\* since the pid was taken down.
ProvenIsTarget ==
    wpc = "succeeded" /\ ~relinked => answer.process.keg = Target

\* Not a promise the code keeps (see the README): the same, although the link
\* has moved since the process started.
ProvenIsAlwaysTarget == wpc = "succeeded" => answer.process.keg = Target

\* "verification can reject a process that never actually restarted"
\* (worker.go): the process whose answer led to success is launchd's and was
\* started after the pid was taken down, although the pid and the answer were
\* read at different moments of a service that may crash in between.
ProvenIsRestarted ==
    wpc = "succeeded" => answer.service /\ answer.process.young
=============================================================================
