-------------------------- MODULE InstallIdentity --------------------------
(***************************************************************************)
(* Which process may manage upgrades, and where it looks for their tasks:  *)
(* the probe of internal/upgrade/identity.go and its three callers, the    *)
(* service (internal/assemble/upgrade.go), `tokenlive upgrade-status` and  *)
(* `tokenlive upgrade-worker` (internal/cli/upgrade.go), while launchd,    *)
(* Homebrew and the user go on.                                            *)
(***************************************************************************)
EXTENDS PlistProgram

CONSTANTS Kegs,        \* versioned Cellar directories; old ones are kept
          Labels,      \* names of the plists in ~/Library/LaunchAgents
          Plists,      \* what may be written there
          Documents,   \* plists that plistProgram is given besides
          Pids,        \* process ids, which are reused
          Orphans,     \* may the plist of a running job be removed or replaced?
          Statuses,    \* does anybody run upgrade-status?
          Accepts,     \* does the service accept tasks?
          None         \* no keg, no plist, no process, no label

ASSUME IdentityAssumption ==
    /\ Orphans \in BOOLEAN /\ Statuses \in BOOLEAN /\ Accepts \in BOOLEAN
    /\ None \notin Kegs /\ None \notin Labels
    /\ None \notin Plists /\ None \notin Pids
    /\ "opt" \notin Kegs /\ "executor" \notin Kegs

ASSUME PlistAssumption ==
    \A plist \in Plists \cup Documents : JobPlist(plist, STRING)

\* The paths an executable is started from: <prefix>/opt/tokenlive/bin, a keg,
\* or the copy in a task's directory.
Paths == Kegs \cup {"opt", "executor"}

Kinds == {"service", "status", "worker"}

\* The probe: nothing looked at, the keg resolved, the opt link compared with
\* it, the label found; or its end, with the reasons that tell a foreign path
\* from a moved link.
Probing == {"new", "resolved", "linked", "found"}
Reasons == {"install_unsupported", "opt_link_mismatch", "refused"}
Steps   == Probing \cup Reasons \cup {"ready"}

Process == [kind : Kinds, exe : Paths, step : Steps,
            keg : Kegs \cup {None}, label : Labels \cup {None}]

ASSUME ProcessAssumption == None \notin Process

VARIABLES opt,      \* the keg of the opt link
          agents,   \* [Labels -> plist]: ~/Library/LaunchAgents/<label>.plist
          jobs,     \* [Labels -> pid]: what launchctl list says
          proc      \* [Pids -> process]

vars == <<opt, agents, jobs, proc>>

Init ==
    /\ opt \in Kegs
    /\ agents = [l \in Labels |-> None]
    /\ jobs = [l \in Labels |-> None]
    /\ proc = [p \in Pids |-> None]

Starts(p, kind, exe) ==
    /\ proc[p] = None
    /\ proc' = [proc EXCEPT ![p] = [kind |-> kind, exe |-> exe, step |-> "new",
                                    keg |-> None, label |-> None]]

Becomes(p, process) == proc' = [proc EXCEPT ![p] = process]

-----------------------------------------------------------------------------
(* Homebrew, the user and launchd.                                         *)

\* `brew upgrade tokenlive`, by the user or the worker.
BrewUpgrade ==
    /\ opt' \in Kegs \ {opt}
    /\ UNCHANGED <<agents, jobs, proc>>

WritePlist(l) ==
    /\ Orphans \/ jobs[l] = None
    /\ \E plist \in Plists \cup {None} : agents' = [agents EXCEPT ![l] = plist]
    /\ UNCHANGED <<opt, jobs, proc>>

\* launchd starts the job: `brew services start`, login, keep_alive.
JobStarts(l, p) ==
    /\ agents[l] # None /\ jobs[l] = None
    /\ jobProgram(agents[l]) = "opt"
    /\ Starts(p, "service", "opt")
    /\ jobs' = [jobs EXCEPT ![l] = p]
    /\ UNCHANGED <<opt, agents>>

\* tokenlive started in a terminal, beside or instead of the service.
ManualStart(p, exe) ==
    /\ exe \in Kegs \cup {"opt"}
    /\ Starts(p, "service", exe)
    /\ UNCHANGED <<opt, agents, jobs>>

StatusStart(p, exe) ==
    /\ Statuses /\ exe \in Kegs \cup {"opt"}
    /\ Starts(p, "status", exe)
    /\ UNCHANGED <<opt, agents, jobs>>

\* The process ends, or is stopped with its job.
ProcessEnds(p) ==
    /\ proc[p] # None
    /\ Becomes(p, None)
    /\ jobs' = [l \in Labels |-> IF jobs[l] = p THEN None ELSE jobs[l]]
    /\ UNCHANGED <<opt, agents>>

-----------------------------------------------------------------------------
(* Prober.Probe, in the order of its checks.                               *)

At(p, step) == proc[p] # None /\ proc[p].step = step

\* EvalSymlinks of the executable's path.
Resolved(exe) == CASE exe = "opt"      -> opt
                   [] exe \in Kegs     -> exe
                   [] exe = "executor" -> None

Fails(p, reason) ==
    Becomes(p, [proc[p] EXCEPT !.step = reason, !.keg = None, !.label = None])

\* Where the path leads must be a keg in the Cellar.
Resolve(p) ==
    /\ At(p, "new")
    /\ LET keg == Resolved(proc[p].exe)
       IN IF keg = None
            THEN Fails(p, "install_unsupported")
            ELSE Becomes(p, [proc[p] EXCEPT !.step = "resolved", !.keg = keg])
    /\ UNCHANGED <<opt, agents, jobs>>

\* Platform, user, marker, brew, tap, brew.env, the launchd domain, and what
\* cannot be read at all: any of them may refuse.
RefusedElsewhere(p) ==
    /\ proc[p] # None /\ proc[p].step \in Probing
    /\ Fails(p, "refused")
    /\ UNCHANGED <<opt, agents, jobs>>

\* The opt link must lead to the same keg, by now.
CheckLink(p) ==
    /\ At(p, "resolved")
    /\ IF proc[p].keg = opt
         THEN Becomes(p, [proc[p] EXCEPT !.step = "linked"])
         ELSE Fails(p, "opt_link_mismatch")
    /\ UNCHANGED <<opt, agents, jobs>>

\* servicePlist: the plists that run this install's opt binary.
Matches == {l \in Labels : agents[l] # None /\ plistProgram(agents[l]) = "opt"}

\* Mutant of FindPlist: any match will do.
FindAnyPlist(p) ==
    /\ At(p, "linked")
    /\ \/ \E l \in Matches : Becomes(p, [proc[p] EXCEPT !.step = "found", !.label = l])
       \/ Matches = {} /\ Fails(p, "refused")
    /\ UNCHANGED <<opt, agents, jobs>>

FindPlist(p) ==
    /\ At(p, "linked")
    /\ \/ \E l \in Labels : /\ Matches = {l}
                            /\ Becomes(p, [proc[p] EXCEPT !.step = "found", !.label = l])
       \/ /\ \A l \in Labels : Matches # {l}
          /\ Fails(p, "refused")
    /\ UNCHANGED <<opt, agents, jobs>>

\* Mutant of CheckPid: the command line, which has no pid to compare, needs no
\* label either.
CheckPidUnlabelled(p) ==
    /\ proc[p] # None
    /\ proc[p].step = IF proc[p].kind = "service" THEN "found" ELSE "linked"
    /\ IF proc[p].kind = "service" /\ jobs[proc[p].label] # p
         THEN Fails(p, "refused")
         ELSE Becomes(p, [proc[p] EXCEPT !.step = "ready"])
    /\ UNCHANGED <<opt, agents, jobs>>

\* The service is the process launchd lists; the command line does not ask.
\* A process that is ready has a manager on the store of its keg.
CheckPid(p) ==
    /\ At(p, "found")
    /\ IF proc[p].kind = "service" /\ jobs[proc[p].label] # p
         THEN Fails(p, "refused")
         ELSE Becomes(p, [proc[p] EXCEPT !.step = "ready"])
    /\ UNCHANGED <<opt, agents, jobs>>

-----------------------------------------------------------------------------
(* What the probe admits to.                                               *)

Manages(p) == At(p, "ready") /\ proc[p].kind = "service"

\* Submit: the service's executable is copied into the task's directory and
\* started from there by a job of its own.
Accept(p, q) ==
    /\ Accepts /\ Manages(p)
    /\ Starts(q, "worker", jobProgram(taskPlist("executor")))
    /\ UNCHANGED <<opt, agents, jobs>>

Probe(p) == \/ Resolve(p) \/ RefusedElsewhere(p) \/ CheckLink(p)
            \/ FindPlist(p) \/ CheckPid(p)

Next ==
    \/ BrewUpgrade
    \/ \E l \in Labels : WritePlist(l)
    \/ \E l \in Labels, p \in Pids : JobStarts(l, p)
    \/ \E p \in Pids : \/ \E exe \in Paths : ManualStart(p, exe) \/ StatusStart(p, exe)
                       \/ ProcessEnds(p)
                       \/ Probe(p)
                       \/ \E q \in Pids : Accept(p, q)

Spec == Init /\ [][Next]_vars

-----------------------------------------------------------------------------
(* Properties.                                                             *)

\* The variables hold what their declarations say.
TypeOK ==
    /\ opt \in Kegs
    /\ agents \in [Labels -> Plists \cup {None}]
    /\ jobs \in [Labels -> Pids \cup {None}]
    /\ proc \in [Pids -> Process \cup {None}]
    /\ \A p \in Pids : At(p, "ready") => proc[p].keg # None /\ proc[p].label # None

\* "proves that launchd's PID for the label is this very process"
\* (NewServiceProber), "single installation for the prefix" (Probe): however
\* instances, jobs and plists come and go between the steps of their probes,
\* at most one running process manages upgrades, and it is the one launchd
\* runs under the label it found.
OneManager ==
    /\ \A p \in Pids : Manages(p) => jobs[proc[p].label] = p
    /\ \A p, q \in Pids : Manages(p) /\ Manages(q) => p = q

\* "InstallIDFor exposes the identifier to the CLI, which must locate the same
\* store the running service uses" (manager.go): the identifier is that of
\* the prefix and the keg.
OneStore ==
    \A p, q \in Pids :
        Manages(p) /\ At(q, "ready") /\ proc[q].kind = "status" =>
            proc[q].keg = proc[p].keg

\* "RunUpgradeWorker executes one accepted task inside the launchd job"
\* (cli/upgrade.go): the probe, which upgradePaths runs first, does not turn
\* the worker of an accepted task away for the path it was started from.
WorkerExecutes ==
    \A q \in Pids : proc[q] # None /\ proc[q].kind = "worker" =>
                       proc[q].step # "install_unsupported"

\* What PlistsRead says of the plists nobody writes, and of the worker's own.
DocumentsRead ==
    \A plist \in Documents \cup {taskPlist("executor")} : EmptyProgram(plist) \/ Reads(plist)

\* "strictly extracts the job program: Program if present, else
\* ProgramArguments[0]" (plistProgram): whatever the order of the keys, and
\* whatever other keys, arrays of strings and dictionaries of such stand between
\* them, the state machine finds the program launchd runs, or fails when it is
\* not absolute.
PlistsRead ==
    /\ \A l \in Labels :
         agents[l] # None => EmptyProgram(agents[l]) \/ Reads(agents[l])
    /\ DocumentsRead
=============================================================================
