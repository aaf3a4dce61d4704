---------------------------- MODULE UpgradeHost ----------------------------
(***************************************************************************)
(* One installation's upgrade store with everything that touches it:       *)
(*                                                                         *)
(*   - callers: the HTTP handlers of the service, its startup, and the     *)
(*     upgrade-status CLI.  Each runs Manager.Prepare, Manager.Submit or a *)
(*     read (Capability, Task, Snapshot, Reconcile), all of which start    *)
(*     with, or are, an unlocked reconciliation of every record;           *)
(*   - one launchd job per accepted task, whose process runs Worker.Run;   *)
(*   - the Homebrew commands the worker supervises, which may outlive it.  *)
(*                                                                         *)
(* Files are read and replaced atomically, a record at a time; between a   *)
(* read and the write that depends on it every other process may move.     *)
(* Every process may die at any point.                                     *)
(***************************************************************************)
EXTENDS UpgradeTask

CONSTANTS Tasks,         \* task ids; a task is also its job and its worker
          Callers,       \* manager-side activities that may be under way at once
          Nobody,        \* the lock is free
          PidReuse,      \* may a dead worker's pid belong to another process?
          SignalDeaths   \* may a Homebrew command die from a signal?

ASSUME HostAssumption ==
    /\ Nobody \notin Callers \cup Tasks
    /\ Callers \cap Tasks = {}
    /\ PidReuse \in BOOLEAN
    /\ SignalDeaths \in BOOLEAN

VARIABLES
    disk,         \* [Tasks -> Record or NoRecord]: <root>/<task>/task.json
    dirs,         \* tasks whose directory <root>/<task> exists
    index,        \* [Tasks -> State or "none"]: <root>/index.json
    lock,         \* holder of the flock on <root>/task.lock
    confirmOver,  \* tasks whose CredentialExpiry has passed
    late,         \* tasks not saved during the last 2*bootstrapTimeout
    budgetOver,   \* tasks created more than acceptedBudget ago
    pc,           \* [Callers -> step of the handler]
    todo,         \* [Callers -> listed tasks reconcile still has to visit]
    copy,         \* [Callers -> in-memory copy of each listed record]
    overdue,      \* [Callers -> tasks whose deadline had passed when listed]
    cur,          \* [Callers -> the task the handler is writing]
    icopy,        \* [Callers -> in-memory copy of the index]
    wpc,          \* [Tasks -> step of Worker.Run, "none" before the job]
    wcopy,        \* [Tasks -> the worker's in-memory record]
    job,          \* [Tasks -> "none", "loaded" or "gone"]: the launchd job
    launches,     \* [Tasks -> Bootstrap calls made for the task]
    brew          \* [Tasks -> is a command of this task possibly running?]

store   == <<disk, dirs, index>>
time    == <<confirmOver, late, budgetOver>>
handler == <<pc, todo, copy, overdue, cur, icopy>>
worker  == <<wpc, wcopy>>
launchd == <<job, launches>>
vars    == <<store, lock, time, handler, worker, launchd, brew>>

-----------------------------------------------------------------------------
(* The store.                                                              *)

\* writeFileAtomic puts the whole in-memory record in place of the one on
\* disk, whatever that was meanwhile, also in a directory from which the
\* record has just been unlinked.  Without the directory it fails; so does a
\* write whose temporary file is unlinked with the rest, as if it had come
\* before.
Save(t, r) ==
    IF t \in dirs
      THEN /\ disk' = [disk EXCEPT ![t] = r]
           /\ late' = late \ {t}
      ELSE UNCHANGED <<disk, late>>

\* Store.List, one task of it: the directory's record, else the index entry.
Listed(t) == IF disk[t] # NoRecord THEN disk[t].state ELSE index[t]

\* ActiveTask over what List returns.
Blocking(t) == Blocks(Listed(t), t \in confirmOver)

-----------------------------------------------------------------------------
(* Steps of a handler and of a worker.                                     *)

Goto(c, step)       == pc' = [pc EXCEPT ![c] = step]
WorkerGoto(t, step) == wpc' = [wpc EXCEPT ![t] = step]

HandlerSteps == {"idle", "reconcile", "save", "clean", "index", "remove",
                 "rmdir", "fetch", "expire", "accept", "launch", "launched",
                 "launch_unknown", "launch_failed", "release"}

\* Steps of Prepare and Submit that rely on the install lock.
LockedSteps == {"fetch", "expire", "accept", "launch", "launched",
                "launch_unknown", "launch_failed"}

\* Stages whose first act is to persist the state they are about to enter.
StageState ==
    [downloading   |-> "downloading",  installing    |-> "installing",
     restarting    |-> "restarting",   service_stop  |-> "restarting",
     service_start |-> "restarting",   verifying     |-> "verifying",
     succeeded     |-> "succeeded",    failed        |-> "failed"]

\* What follows the persisted stage.
StageWork ==
    [downloading   |-> "tap_snapshot", installing    |-> "brew_upgrade",
     restarting    |-> "service_pid",  service_stop  |-> "brew_stop",
     service_start |-> "brew_start",   verifying     |-> "health",
     succeeded     |-> "release",      failed        |-> "release"]

Stages     == {"downloading", "installing", "restarting", "service_stop",
               "service_start", "verifying", "succeeded", "failed"}
BrewStages == {"brew_upgrade", "brew_stop", "brew_start"}

\* Steps inside Worker.Run with the install lock held.
Locked == {"ready", "tap_snapshot", "service_pid", "health"}
              \cup Stages \cup BrewStages
\* failUnknown also runs when the lock was busy, without it.
Recording == {"unknown", "unknown_save", "release"}
Alive     == {"boot", "leaving"} \cup Locked \cup Recording
WorkerSteps == {"none", "exited"} \cup Alive

\* workerAlive: the record names a worker whose ready.json agrees, and signal
\* 0 reaches that pid, which a later process may have inherited.
WorkerAlive(t, r) ==
    IF r.workerPID /\ disk[t] # NoRecord
      THEN {wpc[t] \in Alive} \cup (IF PidReuse THEN {TRUE} ELSE {})
      ELSE {FALSE}

Init ==
    /\ disk = [t \in Tasks |-> NoRecord]
    /\ dirs = {}
    /\ index = [t \in Tasks |-> "none"]
    /\ lock = Nobody
    /\ confirmOver = {} /\ late = {} /\ budgetOver = {}
    /\ pc = [c \in Callers |-> "idle"]
    /\ todo = [c \in Callers |-> {}]
    /\ copy = [c \in Callers |-> [t \in Tasks |-> NoRecord]]
    /\ overdue = [c \in Callers |-> {}]
    /\ cur = [c \in Callers |-> Nobody]
    /\ icopy = [c \in Callers |-> [t \in Tasks |-> "none"]]
    /\ wpc = [t \in Tasks |-> "none"]
    /\ wcopy = [t \in Tasks |-> NoRecord]
    /\ job = [t \in Tasks |-> "none"]
    /\ launches = [t \in Tasks |-> 0]
    /\ brew = [t \in Tasks |-> FALSE]

-----------------------------------------------------------------------------
(* Reconciliation: List, then one record after another from the copies.    *)

\* Mutants of Attends: one started state is forgotten; no cleanup case.
AttendsButRestarting(t, r) ==
    \/ r.state = "awaiting_confirmation" /\ t \in confirmOver
    \/ r.state \in {"queued"} \cup (Inflight \ {"restarting"})
    \/ r.cleanupPending /\ r.state \in Terminal

AttendsButCleanup(t, r) ==
    \/ r.state = "awaiting_confirmation" /\ t \in confirmOver
    \/ r.state \in {"queued"} \cup Inflight

\* Mutant of Attends: the cleanup does not wait for its mark.
AttendsUnmarked(t, r) ==
    \/ r.state = "awaiting_confirmation" /\ t \in confirmOver
    \/ r.state \in {"queued"} \cup Inflight \cup Terminal

\* Does reconcile have a case for record r of task t?
Attends(t, r) ==
    \/ r.state = "awaiting_confirmation" /\ t \in confirmOver
    \/ r.state \in {"queued"} \cup Inflight
    \/ r.cleanupPending /\ r.state \in Terminal

\* Deadlines are compared with the clock read just after the list.
Overdue(t, r) ==
    \/ r.state = "queued" /\ t \in late
    \/ r.state \in Inflight /\ t \in budgetOver

Scan(c) ==
    LET visit == {t \in Tasks : disk[t] # NoRecord /\ Attends(t, disk[t])}
    IN /\ todo' = [todo EXCEPT ![c] = visit]
       /\ copy' = [copy EXCEPT ![c] =
                     [t \in Tasks |-> IF t \in visit THEN disk[t] ELSE NoRecord]]
       /\ overdue' = [overdue EXCEPT ![c] = {t \in visit : Overdue(t, disk[t])}]
       /\ Goto(c, "reconcile")

\* Capability, Task, Snapshot and Reconcile take no lock.
BeginRead(c) ==
    /\ pc[c] = "idle"
    /\ Scan(c)
    /\ UNCHANGED <<store, lock, time, cur, icopy, worker, launchd, brew>>

\* The handler turns to task t of its list.
Visiting(c, t) == pc[c] = "reconcile" /\ t \in todo[c]

\* Nothing to do for t.
Skip(c, t) ==
    /\ todo' = [todo EXCEPT ![c] = @ \ {t}]
    /\ copy' = [copy EXCEPT ![c][t] = NoRecord]
    /\ UNCHANGED <<pc, cur>>

\* The in-memory record of t becomes r; saving it is the next step.
Decide(c, t, r) ==
    /\ copy' = [copy EXCEPT ![c][t] = r]
    /\ cur' = [cur EXCEPT ![c] = t]
    /\ Goto(c, "save")
    /\ UNCHANGED todo

ExpireConfirmation(c, t) ==
    /\ Visiting(c, t)
    /\ copy[c][t].state = "awaiting_confirmation"
    /\ Decide(c, t, [copy[c][t] EXCEPT !.state = "confirmation_expired"])
    /\ UNCHANGED <<store, lock, time, overdue, icopy, worker, launchd, brew>>

ReconcileLaunch(c, t) ==
    /\ Visiting(c, t)
    /\ copy[c][t].state = "queued"
    /\ \E alive \in WorkerAlive(t, copy[c][t]) :
         \/ /\ alive /\ copy[c][t].launchUnknown
            /\ Decide(c, t, [copy[c][t] EXCEPT !.launchUnknown = FALSE])
         \/ /\ ~alive /\ t \in overdue[c]
            /\ Decide(c, t, [copy[c][t] EXCEPT !.state = "needs_attention"])
         \/ /\ IF alive THEN ~copy[c][t].launchUnknown ELSE t \notin overdue[c]
            /\ Skip(c, t)
    /\ UNCHANGED <<store, lock, time, overdue, icopy, worker, launchd, brew>>

ReconcileInflight(c, t) ==
    /\ Visiting(c, t)
    /\ copy[c][t].state \in Inflight
    /\ \E alive \in WorkerAlive(t, copy[c][t]) :
         IF alive /\ t \notin overdue[c]
           THEN Skip(c, t)
           ELSE Decide(c, t, [copy[c][t] EXCEPT !.state = "needs_attention"])
    /\ UNCHANGED <<store, lock, time, overdue, icopy, worker, launchd, brew>>

ReconcileSave(c) ==
    /\ pc[c] = "save"
    /\ Save(cur[c], copy[c][cur[c]])
    /\ todo' = [todo EXCEPT ![c] = @ \ {cur[c]}]
    /\ copy' = [copy EXCEPT ![c][cur[c]] = NoRecord]
    /\ cur' = [cur EXCEPT ![c] = Nobody]
    /\ Goto(c, "reconcile")
    /\ UNCHANGED <<dirs, index, lock, confirmOver, budgetOver, overdue, icopy,
                   worker, launchd, brew>>

\* The flock dies with its holder.
Freed(p) == lock' = IF lock = p THEN Nobody ELSE lock

\* Cleanup starts with a bootout, which takes a running worker down with the
\* job; an error keeps the files for a later call.
BootoutJob(c, t) ==
    /\ Visiting(c, t)
    /\ copy[c][t].state \in Terminal
    /\ job' = [job EXCEPT ![t] = "gone"]
    /\ IF wpc[t] \in Alive
         THEN WorkerGoto(t, "exited") /\ Freed(t)
         ELSE UNCHANGED <<wpc, lock>>
    /\ wcopy' = [wcopy EXCEPT ![t] = NoRecord]
    /\ cur' = [cur EXCEPT ![c] = t]
    /\ Goto(c, "clean")
    /\ UNCHANGED <<store, time, todo, copy, overdue, icopy, launches, brew>>

\* Mutant of BootoutFails: cleanup goes on after the error.
BootoutErrorIgnored(c, t) ==
    /\ Visiting(c, t)
    /\ copy[c][t].state \in Terminal
    /\ cur' = [cur EXCEPT ![c] = t]
    /\ Goto(c, "clean")
    /\ UNCHANGED <<store, lock, time, todo, copy, overdue, icopy, worker, launchd,
                   brew>>

BootoutFails(c, t) ==
    /\ Visiting(c, t)
    /\ copy[c][t].state \in Terminal
    /\ Skip(c, t)
    /\ UNCHANGED <<store, lock, time, overdue, icopy, worker, launchd, brew>>

\* Store.Cleanup re-reads the record, which may have changed since List: the
\* summary it retains is of the record now on disk.
CleanupLoad(c) ==
    /\ pc[c] = "clean"
    /\ copy' = [copy EXCEPT ![c][cur[c]] = disk[cur[c]]]
    /\ icopy' = [icopy EXCEPT ![c] = index]
    /\ Goto(c, IF disk[cur[c]] = NoRecord THEN "remove" ELSE "index")
    /\ UNCHANGED <<store, lock, time, todo, overdue, cur, worker, launchd, brew>>

\* appendIndex replaces index.json by the copy it read, extended.
AppendIndex(c) ==
    /\ pc[c] = "index"
    /\ index' = [icopy[c] EXCEPT ![cur[c]] = copy[c][cur[c]].state]
    /\ Goto(c, "remove")
    /\ UNCHANGED <<disk, dirs, lock, time, todo, copy, overdue, cur, icopy, worker,
                   launchd, brew>>

\* os.RemoveAll first unlinks what the directory holds,
RemoveFiles(c) ==
    /\ pc[c] = "remove"
    /\ disk' = [disk EXCEPT ![cur[c]] = NoRecord]
    /\ Goto(c, "rmdir")
    /\ UNCHANGED <<dirs, index, lock, time, todo, copy, overdue, cur, icopy, worker,
                   launchd, brew>>

\* and then the directory, which stays if somebody has meanwhile put the
\* record, or the temporary file of a write, into it.
RemoveDir(c) ==
    /\ pc[c] = "rmdir"
    /\ \/ UNCHANGED dirs
       \/ disk[cur[c]] = NoRecord /\ dirs' = dirs \ {cur[c]}
    /\ todo' = [todo EXCEPT ![c] = @ \ {cur[c]}]
    /\ copy' = [copy EXCEPT ![c][cur[c]] = NoRecord]
    /\ cur' = [cur EXCEPT ![c] = Nobody]
    /\ icopy' = [icopy EXCEPT ![c] = [t \in Tasks |-> "none"]]
    /\ Goto(c, "reconcile")
    /\ UNCHANGED <<disk, index, lock, time, overdue, worker, launchd, brew>>

\* The read's answer comes from a second List and changes nothing.
EndRead(c) ==
    /\ pc[c] = "reconcile" /\ todo[c] = {} /\ lock # c
    /\ Goto(c, "idle")
    /\ overdue' = [overdue EXCEPT ![c] = {}]
    /\ UNCHANGED <<store, lock, time, todo, copy, cur, icopy, worker, launchd,
                   brew>>

-----------------------------------------------------------------------------
(* Prepare and Submit, under the lock.  A busy lock, a refusal before the  *)
(* first write and the idempotent resubmission of a queued task change     *)
(* nothing and are not actions.                                            *)

BeginPrepare(c) ==
    /\ pc[c] = "idle" /\ lock = Nobody
    /\ lock' = c
    /\ Scan(c)
    /\ UNCHANGED <<store, time, cur, icopy, worker, launchd, brew>>

\* ActiveTask over the second List decides; then the candidate is fetched.
CheckActive(c) ==
    /\ pc[c] = "reconcile" /\ todo[c] = {} /\ lock = c
    /\ Goto(c, IF \E t \in Tasks : Blocking(t) THEN "release" ELSE "fetch")
    /\ overdue' = [overdue EXCEPT ![c] = {}]
    /\ UNCHANGED <<store, lock, time, todo, copy, cur, icopy, worker, launchd,
                   brew>>

\* A fresh task id has no directory and no summary.
Fresh(t) == t \notin dirs /\ index[t] = "none" /\ launches[t] = 0

CreateTask(c, t) ==
    /\ pc[c] = "fetch" /\ Fresh(t)
    /\ disk' = [disk EXCEPT ![t] = Offer]
    /\ dirs' = dirs \cup {t}
    /\ Goto(c, "release")
    /\ UNCHANGED <<index, lock, time, todo, copy, overdue, cur, icopy, worker,
                   launchd, brew>>

\* No candidate, or the candidate moved.
RefuseTarget(c) ==
    /\ pc[c] = "fetch"
    /\ Goto(c, "release")
    /\ UNCHANGED <<store, lock, time, todo, copy, overdue, cur, icopy, worker,
                   launchd, brew>>

\* Mutant of Submittable: a task already queued is accepted again.
SubmittableAgain(r) == r.state \in {"awaiting_confirmation", "queued"}

Submittable(r) == r.state = "awaiting_confirmation"

\* Submit loads the record and tests state, window and secret, in this order.
SubmitLoad(c, t, secretMatches) ==
    /\ pc[c] = "idle" /\ lock = Nobody
    /\ disk[t] # NoRecord /\ Submittable(disk[t])
    /\ t \in confirmOver \/ secretMatches
    /\ lock' = c
    /\ copy' = [copy EXCEPT ![c][t] = disk[t]]
    /\ cur' = [cur EXCEPT ![c] = t]
    /\ Goto(c, IF t \in confirmOver THEN "expire" ELSE "accept")
    /\ UNCHANGED <<store, time, todo, overdue, icopy, worker, launchd, brew>>

\* Persist r as the handler's record of its task and go on to step.
Persist(c, r, step) ==
    /\ Save(cur[c], r)
    /\ copy' = [copy EXCEPT ![c][cur[c]] = r]
    /\ Goto(c, step)
    /\ UNCHANGED <<dirs, index, lock, confirmOver, budgetOver, todo, overdue, cur,
                   icopy, worker, launchd, brew>>

SubmitExpired(c) ==
    /\ pc[c] = "expire"
    /\ Persist(c, [copy[c][cur[c]] EXCEPT !.state = "confirmation_expired"],
               "release")

\* Mutant of SubmitAccept: the job is started before the acceptance is saved.
AcceptUnsaved(c) ==
    /\ pc[c] = "accept"
    /\ copy' = [copy EXCEPT ![c][cur[c]].state = "queued"]
    /\ Goto(c, "launch")
    /\ UNCHANGED <<store, lock, time, todo, overdue, cur, icopy, worker, launchd,
                   brew>>

SubmitAccept(c) ==
    /\ pc[c] = "accept"
    /\ Persist(c, [copy[c][cur[c]] EXCEPT !.state = "queued",
                                          !.acceptedDigest = TRUE], "launch")

\* launchTask up to Bootstrap.  The executor or the plist may not be written;
\* a bootstrap that reports an error may have loaded the job or not.  A loaded
\* job starts its process at once (RunAtLoad).
LaunchTask(c) ==
    LET t == cur[c] IN
    /\ pc[c] = "launch"
    /\ \/ /\ launches' = [launches EXCEPT ![t] = @ + 1]
          /\ job' = [job EXCEPT ![t] = "loaded"]
          /\ WorkerGoto(t, "boot")
          /\ \E reported \in {"launched", "launch_unknown"} : Goto(c, reported)
       \/ /\ launches' = [launches EXCEPT ![t] = @ + 1]
          /\ Goto(c, "launch_unknown")
          /\ UNCHANGED <<job, wpc>>
       \/ /\ Goto(c, "launch_failed")
          /\ UNCHANGED <<launches, job, wpc>>
    /\ UNCHANGED <<store, lock, time, todo, copy, overdue, cur, icopy, wcopy,
                   brew>>

\* The last write of a launch that went well: the record as Submit holds it.
SubmitLaunched(c) ==
    /\ pc[c] = "launched"
    /\ Persist(c, copy[c][cur[c]], "release")

SubmitUnknown(c) ==
    /\ pc[c] = "launch_unknown"
    /\ Persist(c, [copy[c][cur[c]] EXCEPT !.launchUnknown = TRUE],
               "launch_failed")

SubmitFailed(c) ==
    /\ pc[c] = "launch_failed"
    /\ Persist(c, [copy[c][cur[c]] EXCEPT !.state = "needs_attention"], "release")

\* The handler's locals go with it.
Forget(c) ==
    /\ Goto(c, "idle")
    /\ todo' = [todo EXCEPT ![c] = {}]
    /\ copy' = [copy EXCEPT ![c] = [t \in Tasks |-> NoRecord]]
    /\ overdue' = [overdue EXCEPT ![c] = {}]
    /\ cur' = [cur EXCEPT ![c] = Nobody]
    /\ icopy' = [icopy EXCEPT ![c] = [t \in Tasks |-> "none"]]
    /\ Freed(c)

\* The deferred lock.Release of Prepare and Submit.
Release(c) ==
    /\ pc[c] = "release"
    /\ Forget(c)
    /\ UNCHANGED <<store, time, worker, launchd, brew>>

\* The process of the handler dies: `brew services stop` kills the service
\* with its handlers, and the CLI can be interrupted.
CallerDies(c) ==
    /\ pc[c] # "idle"
    /\ Forget(c)
    /\ UNCHANGED <<store, time, worker, launchd, brew>>

-----------------------------------------------------------------------------
(* Worker.Run.                                                             *)

\* The upgrade-worker command ends before Worker.Run: its probe refuses the
\* executor's own path as an installation.
WorkerUnprobed(t) ==
    /\ wpc[t] = "boot"
    /\ WorkerGoto(t, "exited")
    /\ UNCHANGED <<store, lock, time, handler, wcopy, launchd, brew>>

\* Mutant of LockFree: the worker does not ask.
LockIgnored == TRUE

LockFree == lock = Nobody

\* TryLock succeeds; only a queued task is executed.
WorkerLoad(t) ==
    /\ wpc[t] = "boot" /\ LockFree
    /\ IF disk[t] # NoRecord /\ disk[t].state = "queued"
         THEN /\ lock' = t
              /\ wcopy' = [wcopy EXCEPT ![t] = disk[t]]
              /\ WorkerGoto(t, "ready")
         ELSE WorkerGoto(t, "leaving") /\ UNCHANGED <<lock, wcopy>>
    /\ UNCHANGED <<store, time, handler, launchd, brew>>

\* TryLock finds the lock taken: refuse, do not queue.
WorkerBusy(t) ==
    /\ wpc[t] = "boot" /\ lock # Nobody
    /\ WorkerGoto(t, "unknown")
    /\ UNCHANGED <<store, lock, time, handler, wcopy, launchd, brew>>

\* The worker replaces the record by r and goes on to step.
WorkerSave(t, r, step) ==
    /\ Save(t, r)
    /\ wcopy' = [wcopy EXCEPT ![t] = r]
    /\ WorkerGoto(t, step)
    /\ UNCHANGED <<dirs, index, lock, confirmOver, budgetOver, handler, launchd,
                   brew>>

WriteReady(t) ==
    /\ wpc[t] = "ready"
    /\ WorkerSave(t, [wcopy[t] EXCEPT !.workerPID = TRUE], "downloading")

EnterStage(t) ==
    /\ wpc[t] \in Stages
    /\ WorkerSave(t, [wcopy[t] EXCEPT
                        !.state = StageState[wpc[t]],
                        !.cleanupPending = @ \/ wpc[t] = "succeeded"],
                  StageWork[wpc[t]])

\* A step of the worker that changes nothing but where it stands.
Advance(t, from, to) ==
    /\ wpc[t] = from
    /\ WorkerGoto(t, to)
    /\ UNCHANGED <<store, lock, time, handler, wcopy, launchd, brew>>

\* The heartbeat cannot be written.
ReadyFails(t)      == Advance(t, "ready", "unknown")
\* The confirmed Formula is copied into the tap, or it is not: nothing else
\* has been touched yet, a known failure.
SnapshotStaged(t)  == Advance(t, "tap_snapshot", "installing")
SnapshotFails(t)   == Advance(t, "tap_snapshot", "failed")
\* launchctl list names the service's pid, or its answer is unreadable.
ServicePidRead(t)  == Advance(t, "service_pid", "service_stop")
ServicePidFails(t) == Advance(t, "service_pid", "unknown")
\* Polling ends with a proof or with the verification budget.
HealthProven(t)    == Advance(t, "health", "succeeded")
HealthUnproven(t)  == Advance(t, "health", "unknown")

\* What a command's end means to the stage that ran it: only the upgrade
\* itself reports a failure, the service commands leave the outcome open.
AfterExitZero == [brew_upgrade |-> "restarting", brew_stop |-> "service_start",
                  brew_start |-> "verifying"]
AfterExitError == [brew_upgrade |-> "failed", brew_stop |-> "unknown",
                   brew_start |-> "unknown"]

BrewStart(t) ==
    /\ wpc[t] \in BrewStages /\ ~brew[t]
    /\ brew' = [brew EXCEPT ![t] = TRUE]
    /\ UNCHANGED <<store, lock, time, handler, worker, launchd>>

\* The supervised command ends the stage; lingering: descendants that gave up
\* its output may still be running.
BrewReturns(t, step, lingering) ==
    /\ wpc[t] \in BrewStages /\ brew[t]
    /\ brew' = [brew EXCEPT ![t] = lingering]
    /\ WorkerGoto(t, step)
    /\ UNCHANGED <<store, lock, time, handler, wcopy, launchd>>

BrewSucceeds(t) == wpc[t] \in BrewStages
                     /\ BrewReturns(t, AfterExitZero[wpc[t]], FALSE)
BrewFails(t)    == wpc[t] \in BrewStages
                     /\ BrewReturns(t, AfterExitError[wpc[t]], FALSE)
\* Mutant of BrewTimesOut: the timeout is taken for an exit.
BrewTimeoutAsExit(t) == \E lingering \in BOOLEAN :
    wpc[t] \in BrewStages /\ BrewReturns(t, AfterExitError[wpc[t]], lingering)

BrewTimesOut(t) == \E lingering \in BOOLEAN : BrewReturns(t, "unknown", lingering)

\* A command killed by a signal reaches the worker as an ExitError (os/exec
\* wraps it in *exec.ExitError, code -1), although nothing says its
\* descendants ended with it.
BrewKilled(t) ==
    /\ SignalDeaths
    /\ wpc[t] \in BrewStages
    /\ \E lingering \in BOOLEAN :
         BrewReturns(t, AfterExitError[wpc[t]], lingering)

\* A command nobody supervises any more comes to its end.
OrphanEnds(t) ==
    /\ brew[t] /\ wpc[t] \notin BrewStages
    /\ brew' = [brew EXCEPT ![t] = FALSE]
    /\ UNCHANGED <<store, lock, time, handler, worker, launchd>>

\* failUnknown re-reads the record before it writes needs_attention into it.
UnknownLoad(t) ==
    /\ wpc[t] = "unknown"
    /\ wcopy' = [wcopy EXCEPT ![t] = disk[t]]
    /\ WorkerGoto(t, IF disk[t] = NoRecord THEN "release" ELSE "unknown_save")
    /\ UNCHANGED <<store, lock, time, handler, launchd, brew>>

UnknownSave(t) ==
    /\ wpc[t] = "unknown_save"
    /\ WorkerSave(t, [wcopy[t] EXCEPT !.state = "needs_attention"], "release")

\* The deferred release; after success, the close-on-exec of bootoutSelf.
WorkerRelease(t) ==
    /\ wpc[t] = "release"
    /\ WorkerGoto(t, "leaving")
    /\ Freed(t)
    /\ UNCHANGED <<store, time, handler, wcopy, launchd, brew>>

\* The process ends.  After success it has become `launchctl bootout`, which
\* removes the job, unless the exec failed.
WorkerExit(t) ==
    /\ wpc[t] = "leaving"
    /\ WorkerGoto(t, "exited")
    /\ wcopy' = [wcopy EXCEPT ![t] = NoRecord]
    /\ \/ UNCHANGED job
       \/ /\ wcopy[t] # NoRecord /\ wcopy[t].state = "succeeded"
          /\ job' = [job EXCEPT ![t] = "gone"]
    /\ UNCHANGED <<store, lock, time, handler, launches, brew>>

\* The worker dies wherever it stands; its command, if any, lives on.
WorkerDies(t) ==
    /\ wpc[t] \in Alive
    /\ WorkerGoto(t, "exited")
    /\ wcopy' = [wcopy EXCEPT ![t] = NoRecord]
    /\ Freed(t)
    /\ UNCHANGED <<store, time, handler, launchd, brew>>

-----------------------------------------------------------------------------
(* Time.  A deadline passes only while some comparison can tell: the       *)
(* confirmation window of an offer, the launch window of a queued task     *)
(* (restarted by every save), the budget of a started one.                 *)

ConfirmWindowCloses(t) ==
    /\ Listed(t) = "awaiting_confirmation" /\ t \notin confirmOver
    /\ confirmOver' = confirmOver \cup {t}
    /\ UNCHANGED <<store, lock, late, budgetOver, handler, worker, launchd, brew>>

LaunchWindowCloses(t) ==
    /\ disk[t] # NoRecord /\ disk[t].state = "queued" /\ t \notin late
    /\ late' = late \cup {t}
    /\ UNCHANGED <<store, lock, confirmOver, budgetOver, handler, worker, launchd,
                   brew>>

BudgetElapses(t) ==
    /\ disk[t] # NoRecord /\ disk[t].state \in Inflight /\ t \notin budgetOver
    /\ budgetOver' = budgetOver \cup {t}
    /\ UNCHANGED <<store, lock, confirmOver, late, handler, worker, launchd, brew>>

-----------------------------------------------------------------------------
Reconciling(c) ==
    \/ \E t \in Tasks : \/ ExpireConfirmation(c, t)
                        \/ ReconcileLaunch(c, t)
                        \/ ReconcileInflight(c, t)
                        \/ BootoutJob(c, t)
                        \/ BootoutFails(c, t)
    \/ ReconcileSave(c)
    \/ CleanupLoad(c)
    \/ AppendIndex(c)
    \/ RemoveFiles(c)
    \/ RemoveDir(c)
    \/ EndRead(c)

Preparing(c) ==
    \/ CheckActive(c)
    \/ \E t \in Tasks : CreateTask(c, t)
    \/ RefuseTarget(c)

Submitting(c) ==
    \/ SubmitExpired(c)
    \/ SubmitAccept(c)
    \/ LaunchTask(c)
    \/ SubmitLaunched(c)
    \/ SubmitUnknown(c)
    \/ SubmitFailed(c)

\* A handler that has started goes on to its end.
HandlerStep(c) == Reconciling(c) \/ Preparing(c) \/ Submitting(c) \/ Release(c)

Calling(c) ==
    \/ BeginRead(c)
    \/ BeginPrepare(c)
    \/ \E t \in Tasks, secretMatches \in BOOLEAN : SubmitLoad(c, t, secretMatches)

\* Everything the worker process does by itself.
WorkerStep(t) ==
    \/ WorkerUnprobed(t)
    \/ WorkerLoad(t)
    \/ WorkerBusy(t)
    \/ WriteReady(t)
    \/ ReadyFails(t)
    \/ EnterStage(t)
    \/ SnapshotStaged(t)
    \/ SnapshotFails(t)
    \/ BrewStart(t)
    \/ BrewSucceeds(t)
    \/ BrewFails(t)
    \/ BrewTimesOut(t)
    \/ BrewKilled(t)
    \/ ServicePidRead(t)
    \/ ServicePidFails(t)
    \/ HealthProven(t)
    \/ HealthUnproven(t)
    \/ UnknownLoad(t)
    \/ UnknownSave(t)
    \/ WorkerRelease(t)
    \/ WorkerExit(t)

Elapse(t) == ConfirmWindowCloses(t) \/ LaunchWindowCloses(t) \/ BudgetElapses(t)

Next ==
    \/ \E c \in Callers : Calling(c) \/ HandlerStep(c) \/ CallerDies(c)
    \/ \E t \in Tasks : WorkerStep(t) \/ WorkerDies(t) \/ OrphanEnds(t) \/ Elapse(t)

Spec == Init /\ [][Next]_vars

-----------------------------------------------------------------------------
(* Fairness.  A worker's stage ends: every command has a timeout, polling  *)
(* has a budget.  Deadlines pass.  Somebody keeps asking (the upgrade page *)
(* polls the task, every start of the service reconciles), a reader that   *)
(* is killed again and again is not killed at the same step for ever, and  *)
(* launchctl does not refuse every bootout.                                *)

Fairness ==
    /\ \A t \in Tasks :
         /\ WF_vars(WorkerStep(t))
         /\ WF_vars(Elapse(t))
         /\ \A c \in Callers : /\ SF_vars(ExpireConfirmation(c, t))
                               /\ SF_vars(ReconcileLaunch(c, t))
                               /\ SF_vars(ReconcileInflight(c, t))
                               /\ SF_vars(BootoutJob(c, t))
    /\ \A c \in Callers :
         /\ WF_vars(HandlerStep(c))
         /\ SF_vars(BeginRead(c))
         /\ SF_vars(ReconcileSave(c))
         /\ SF_vars(CleanupLoad(c))
         /\ SF_vars(AppendIndex(c))
         /\ SF_vars(RemoveFiles(c))

FairSpec == Spec /\ Fairness

-----------------------------------------------------------------------------
(* Properties.                                                             *)

\* The variables hold what their declarations say.
TypeOK ==
    /\ disk \in [Tasks -> Record \cup {NoRecord}]
    /\ dirs \subseteq Tasks
    /\ index \in [Tasks -> State \cup {"none"}]
    /\ lock \in Callers \cup Tasks \cup {Nobody}
    /\ confirmOver \subseteq Tasks /\ late \subseteq Tasks
    /\ budgetOver \subseteq Tasks
    /\ pc \in [Callers -> HandlerSteps]
    /\ todo \in [Callers -> SUBSET Tasks]
    /\ copy \in [Callers -> [Tasks -> Record \cup {NoRecord}]]
    /\ overdue \in [Callers -> SUBSET Tasks]
    /\ cur \in [Callers -> Tasks \cup {Nobody}]
    /\ icopy \in [Callers -> [Tasks -> State \cup {"none"}]]
    /\ wpc \in [Tasks -> WorkerSteps]
    /\ wcopy \in [Tasks -> Record \cup {NoRecord}]
    /\ job \in [Tasks -> {"none", "loaded", "gone"}]
    /\ launches \in [Tasks -> Nat]
    /\ brew \in [Tasks -> BOOLEAN]

\* A confirmed task is bootstrapped at most once, whatever stale copies of its
\* record are written back meanwhile: Submit launches only from an awaiting
\* offer, and no write may bring that state back after the launch.
LaunchedOnce == \A t \in Tasks : launches[t] <= 1

\* What the install lock is for: a worker past its TryLock, a Submit that
\* still has something to write and a Prepare about to create a task exclude
\* one another, so that no command runs while a handler holds a stale record.
Critical == {t \in Tasks : wpc[t] \in Locked}
              \cup {c \in Callers : pc[c] \in LockedSteps}

LockExclusive == \A p, q \in Critical : p = q

\* "Never a running job without a task" (Submit): as long as a job is loaded
\* its record exists and is past confirmation.
JobHasTask ==
    \A t \in Tasks : job[t] = "loaded" =>
        disk[t] # NoRecord /\ disk[t].state # "awaiting_confirmation"

\* Working files are removed only when the job is gone, its process has ended
\* and none of its commands runs.
RemovedIsOver ==
    \A t \in Tasks : launches[t] > 0 /\ disk[t] = NoRecord =>
        job[t] = "gone" /\ wpc[t] = "exited" /\ ~brew[t]

\* succeeded and failed are claims of a proven end (Worker.fail, Run): no
\* command of the task can still be running under such a record.
OutcomeIsProven ==
    \A t \in Tasks : disk[t] # NoRecord /\ disk[t].state \in {"succeeded", "failed"}
                         => ~brew[t]

\* "Any state that cannot be proven terminal blocks new tasks", as far as the
\* code keeps it: while a command of a task may be running, supervised or
\* orphaned, Prepare refuses, unless a reader that listed the task as an offer
\* has written its expiry over the accepted record.
UnprovenBlocks ==
    \A t \in Tasks : brew[t] => Blocking(t) \/ disk[t].state = "confirmation_expired"

\* Every offer ends: expired, executed to an outcome, or marked for a human,
\* and no stale write reopens it for ever.
EventuallyResolved ==
    <>[](\A t \in Tasks : Listed(t) \in Terminal \cup {"none"})

\* Two-phase cleanup resumes after every interruption: a record marked for
\* cleanup is removed in the end, unless a stale write takes the mark away.
CleanupCompletes ==
    \A t \in Tasks :
        (disk[t] # NoRecord /\ disk[t].cleanupPending)
            ~> (disk[t] = NoRecord \/ ~disk[t].cleanupPending)
-----------------------------------------------------------------------------
(* Refinement: how far a task has come, told from the number of launches,  *)
(* its directory, its process and the lock.                                *)

StageOf(t) ==
    CASE launches[t] = 0 /\ disk[t] = NoRecord -> "unknown"
      [] launches[t] = 0 /\ disk[t] # NoRecord -> "offered"
      [] launches[t] # 0 /\ disk[t] = NoRecord -> "removed"
      [] launches[t] # 0 /\ disk[t] # NoRecord ->
           IF wpc[t] \in {"none", "boot"} THEN "launched"
           ELSE IF wpc[t] \in Alive /\ lock = t THEN "working" ELSE "ended"

Attempt == INSTANCE UpgradeAttempt
             WITH stage   <- [t \in Tasks |-> StageOf(t)],
                  running <- {t \in Tasks : brew[t]}

\* Every step of handlers, workers and crashes is a step of the promise or
\* leaves it alone.
KeepsPromise == Attempt!Spec
=============================================================================
