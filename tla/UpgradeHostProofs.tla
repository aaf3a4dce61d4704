------------------------- MODULE UpgradeHostProofs -------------------------
(***************************************************************************)
(* Proofs about UpgradeHost for every set of tasks and callers, with pid   *)
(* reuse and signal deaths or without: the type invariant, the exclusion   *)
(* the install lock is for, the part of the store's safety that no stale   *)
(* write can break, and what becomes of a task that such a write brings    *)
(* back.                                                                   *)
(***************************************************************************)
EXTENDS UpgradeHost, TLAPS

-----------------------------------------------------------------------------
(* The inductive invariant, in named parts.                                *)

\* Steps of a handler at which it works on task cur[c].
RecordSteps   == {"save", "index", "expire", "accept", "launch", "launched",
                  "launch_unknown", "launch_failed"}
CleaningSteps == {"clean", "index", "remove", "rmdir"}
CurSteps      == RecordSteps \cup CleaningSteps

\* Task t of the list of c is still to be visited, or is being visited by a
\* bootout that has not been decided.
Unvisited(c, t) ==
    /\ t \in todo[c]
    /\ \/ pc[c] = "reconcile"
       \/ pc[c] \in {"save", "clean", "index", "remove", "rmdir"} /\ t # cur[c]

\* Whoever is about to write a record has one.
CopiesHeld ==
    /\ \A c \in Callers :
         /\ pc[c] \in CurSteps => cur[c] \in Tasks
         /\ pc[c] \in RecordSteps => copy[c][cur[c]] # NoRecord
         /\ \A t \in Tasks : Unvisited(c, t) => copy[c][t] # NoRecord
    /\ \A t \in Tasks :
         wpc[t] \in Locked \cup {"unknown_save"} => wcopy[t] # NoRecord

\* Who relies on the install lock holds it.
LockHeld ==
    /\ \A t \in Tasks : wpc[t] \in Locked => lock = t
    /\ \A c \in Callers : pc[c] \in LockedSteps => lock = c

Awaits(r) == r # NoRecord /\ r.state = "awaiting_confirmation"

\* The write a handler is about to make does not reopen the offer.
WritesClose ==
    \A c \in Callers :
        /\ pc[c] = "save" => ~Awaits(copy[c][cur[c]])
        /\ pc[c] \in {"launch", "launched", "launch_unknown"}
             => copy[c][cur[c]].state = "queued"

\* A Submit on its way to Bootstrap has a task that was never launched and
\* that still has its directory; from its acceptance on, no offer any more.
SubmitFirst ==
    \A c \in Callers :
        /\ pc[c] \in {"accept", "launch"} =>
             launches[cur[c]] = 0 /\ disk[cur[c]] # NoRecord
        /\ pc[c] = "launch" => ~Awaits(disk[cur[c]])

\* After the launch neither the record nor the worker's copy is an offer.
LaunchClosesOffer ==
    \A t \in Tasks :
        /\ launches[t] \in {0, 1}
        /\ launches[t] > 0 => ~Awaits(disk[t]) /\ ~Awaits(wcopy[t])
        /\ wpc[t] # "none" => launches[t] > 0
        /\ wpc[t] = "none" => wcopy[t] = NoRecord

\* The worker is past everything it writes and no command runs.
Over(t) == wpc[t] \in {"release", "leaving", "exited"} /\ ~brew[t]

Marked(r) == r # NoRecord /\ r.cleanupPending

\* The cleanup mark is a proof that the task is over, on disk and in copies.
MarkedIsOver ==
    /\ \A t \in Tasks : Marked(disk[t]) \/ Marked(wcopy[t]) => Over(t)
    /\ \A c \in Callers, t \in Tasks : Marked(copy[c][t]) => Over(t)

\* Only a marked record leads a reader into the cleanup.
CleansMarked ==
    \A c \in Callers, t \in Tasks :
        Unvisited(c, t) /\ copy[c][t].state \in Terminal => Marked(copy[c][t])

\* Between a bootout and the removal nothing starts again.
CleaningIsOver ==
    \A c \in Callers :
        pc[c] \in CleaningSteps =>
            /\ launches[cur[c]] > 0 /\ job[cur[c]] = "gone"
            /\ wpc[cur[c]] = "exited" /\ ~brew[cur[c]]

\* Where the worker stands without a command: before brew upgrade, and after
\* a command that ended with exit 0.
QuietSteps == {"none", "boot"} \cup (Locked \ (BrewStages \cup {"failed"}))

Quiet == \A t \in Tasks : wpc[t] \in QuietSteps => ~brew[t]

TypeInv == TypeOK /\ CopiesHeld

LaunchInv == /\ WritesClose /\ SubmitFirst /\ LaunchClosesOffer
             /\ MarkedIsOver /\ CleansMarked /\ CleaningIsOver /\ Quiet
             /\ JobHasTask /\ RemovedIsOver

SafeInv == LockHeld /\ LaunchInv

\* A record lies in a directory, and only the directory of a launched task
\* can be without one.
DirsInv ==
    \A t \in Tasks : /\ disk[t] # NoRecord => t \in dirs
                     /\ t \in dirs /\ launches[t] = 0 => disk[t] # NoRecord

IInv == TypeInv /\ DirsInv /\ SafeInv

-----------------------------------------------------------------------------
(* Every edit the code makes to a record leaves a record; a step goes to a *)
(* step.  The abbreviations below are expanded everywhere.                 *)

USE DEF Goto, WorkerGoto, store, time, handler, worker, launchd

\* What the in-memory edits of manager.go and worker.go make of a record.
LEMMA RecordWrites ==
  ASSUME NEW r \in Record
  PROVE  /\ r # NoRecord
         /\ \A s \in State : [r EXCEPT !.state = s] \in Record
         /\ [r EXCEPT !.state = "queued", !.acceptedDigest = TRUE] \in Record
         /\ [r EXCEPT !.workerPID = TRUE] \in Record
         /\ \A b \in BOOLEAN : [r EXCEPT !.launchUnknown = b] \in Record
         /\ \A s \in State, b \in BOOLEAN :
              [r EXCEPT !.state = s, !.cleanupPending = b] \in Record
<1>1. r # NoRecord
  BY NoRecordAssumption
<1>2. /\ \A s \in State : [r EXCEPT !.state = s] \in Record
      /\ [r EXCEPT !.workerPID = TRUE] \in Record
      /\ \A b \in BOOLEAN : [r EXCEPT !.launchUnknown = b] \in Record
  BY DEF Record
<1>3. "queued" \in State
  BY DEF State
<1>4. [r EXCEPT !.state = "queued", !.acceptedDigest = TRUE] \in Record
  BY <1>3 DEF Record
<1>5. \A s \in State, b \in BOOLEAN :
        [r EXCEPT !.state = s, !.cleanupPending = b] \in Record
  BY DEF Record
<1> QED BY <1>1, <1>2, <1>4, <1>5

\* What a stage persists is a state in flight or a proven end, and its work is
\* done under the lock or after the last write.
LEMMA StageTables ==
  /\ \A s \in Stages : StageState[s] \in Inflight \cup {"succeeded", "failed"}
  /\ \A s \in Stages : StageWork[s] \in Locked \cup {"release"}
  /\ \A s \in Stages : StageWork[s] \in QuietSteps => s \in QuietSteps
<1>1. \A s \in Stages : StageState[s] \in Inflight \cup {"succeeded", "failed"}
  BY DEF Stages, StageState, Inflight
<1>2. \A s \in Stages : StageWork[s] \in Locked \cup {"release"}
  BY DEF Stages, StageWork, Locked, BrewStages
<1>3. \A s \in Stages : StageWork[s] \in QuietSteps => s \in QuietSteps
  BY DEF Stages, StageWork, QuietSteps, Locked, BrewStages
<1> QED BY <1>1, <1>2, <1>3

-----------------------------------------------------------------------------
(* Type correctness.                                                       *)

\* The initial store, handlers and workers are well typed.
LEMMA TypeInit == Init => TypeInv
BY DEF Init, TypeInv, TypeOK, CopiesHeld, Unvisited, RecordSteps, CleaningSteps,
       CurSteps, Locked, Stages, BrewStages, HandlerSteps, WorkerSteps

\* Reconcile deciding on a record (manager.go:324-393).
LEMMA DecideType ==
  ASSUME TypeInv, NEW c \in Callers, NEW t \in Tasks, NEW r \in Record,
         pc[c] = "reconcile", Decide(c, t, r),
         UNCHANGED <<store, lock, time, overdue, icopy, worker, launchd, brew>>
  PROVE  TypeInv'
<1>1. r # NoRecord
  BY RecordWrites
<1>2. TypeOK'
  BY DEF TypeInv, TypeOK, Decide, HandlerSteps
<1>3. CopiesHeld'
  BY <1>1 DEF TypeInv, TypeOK, CopiesHeld, Decide, Unvisited, RecordSteps,
              CleaningSteps, CurSteps
<1> QED BY <1>2, <1>3 DEF TypeInv

\* Reconcile passing over a record.
LEMMA SkipType ==
  ASSUME TypeInv, NEW c \in Callers, NEW t \in Tasks,
         pc[c] = "reconcile", Skip(c, t),
         UNCHANGED <<store, lock, time, overdue, icopy, worker, launchd, brew>>
  PROVE  TypeInv'
<1>1. TypeOK'
  BY DEF TypeInv, TypeOK, Skip, HandlerSteps
<1>2. CopiesHeld'
  BY DEF TypeInv, TypeOK, CopiesHeld, Skip, Unvisited, RecordSteps,
         CleaningSteps, CurSteps
<1> QED BY <1>1, <1>2 DEF TypeInv

\* Submit persisting its record (manager.go:250-274).
LEMMA PersistType ==
  ASSUME TypeInv, NEW c \in Callers, NEW r \in Record,
         NEW step \in {"launch", "launch_failed", "release"},
         pc[c] \in LockedSteps \cap RecordSteps, Persist(c, r, step)
  PROVE  TypeInv'
<1>1. r # NoRecord
  BY RecordWrites
<1>2. TypeOK'
  BY ZenonT(60)
     DEF TypeInv, TypeOK, CopiesHeld, Persist, Save, HandlerSteps, LockedSteps,
         RecordSteps, CurSteps
<1>3. CopiesHeld'
  BY <1>1 DEF TypeInv, TypeOK, CopiesHeld, Persist, Save, Unvisited,
              LockedSteps, RecordSteps, CleaningSteps, CurSteps
<1> QED BY <1>2, <1>3 DEF TypeInv

\* The worker persisting its record (worker.go:74-136).
LEMMA WorkerSaveType ==
  ASSUME TypeInv, NEW t \in Tasks, NEW r \in Record, NEW step \in WorkerSteps,
         WorkerSave(t, r, step)
  PROVE  TypeInv'
<1>1. r # NoRecord
  BY RecordWrites
<1>2. TypeOK'
  BY DEF TypeInv, TypeOK, WorkerSave, Save
<1>3. CopiesHeld'
  BY <1>1 DEF TypeInv, TypeOK, CopiesHeld, WorkerSave, Save, Unvisited,
              RecordSteps, CleaningSteps, CurSteps
<1> QED BY <1>2, <1>3 DEF TypeInv

\* The record a handler is about to decide on, and what it may become.
LEMMA VisitedRecord ==
  ASSUME TypeInv, NEW c \in Callers, NEW t \in Tasks, Visiting(c, t)
  PROVE  /\ pc[c] = "reconcile" /\ copy[c][t] \in Record
         /\ [copy[c][t] EXCEPT !.state = "confirmation_expired"] \in Record
         /\ [copy[c][t] EXCEPT !.state = "needs_attention"] \in Record
         /\ [copy[c][t] EXCEPT !.launchUnknown = FALSE] \in Record
<1>1. pc[c] = "reconcile" /\ copy[c][t] \in Record
  BY DEF Visiting, TypeInv, TypeOK, CopiesHeld, Unvisited
<1> QED BY <1>1, RecordWrites DEF State, Terminal

\* The record a Submit is about to persist, and what it may become.
LEMMA SubmittedRecord ==
  ASSUME TypeInv, NEW c \in Callers,
         pc[c] \in {"expire", "accept", "launched", "launch_unknown", "launch_failed"}
  PROVE  /\ pc[c] \in LockedSteps \cap RecordSteps
         /\ cur[c] \in Tasks /\ copy[c][cur[c]] \in Record
         /\ [copy[c][cur[c]] EXCEPT !.state = "confirmation_expired"] \in Record
         /\ [copy[c][cur[c]] EXCEPT !.state = "queued", !.acceptedDigest = TRUE]
                \in Record
         /\ [copy[c][cur[c]] EXCEPT !.launchUnknown = TRUE] \in Record
         /\ [copy[c][cur[c]] EXCEPT !.state = "needs_attention"] \in Record
<1>1. /\ pc[c] \in LockedSteps \cap RecordSteps
      /\ cur[c] \in Tasks /\ copy[c][cur[c]] \in Record
  BY DEF LockedSteps, RecordSteps, CurSteps, TypeInv, TypeOK, CopiesHeld
<1> QED BY <1>1, RecordWrites DEF State, Terminal

\* The record a worker is about to persist, and what it may become.
LEMMA WorkersRecord ==
  ASSUME TypeInv, NEW t \in Tasks, wpc[t] \in {"ready", "unknown_save"} \cup Stages
  PROVE  /\ wcopy[t] \in Record
         /\ [wcopy[t] EXCEPT !.workerPID = TRUE] \in Record
         /\ [wcopy[t] EXCEPT !.state = "needs_attention"] \in Record
         /\ wpc[t] \in Stages =>
              [wcopy[t] EXCEPT !.state = StageState[wpc[t]],
                               !.cleanupPending = @ \/ wpc[t] = "succeeded"]
                \in Record
<1>1. wcopy[t] \in Record
  BY DEF TypeInv, TypeOK, CopiesHeld, Locked
<1>2. ASSUME wpc[t] \in Stages
      PROVE  [wcopy[t] EXCEPT !.state = StageState[wpc[t]],
                              !.cleanupPending = @ \/ wpc[t] = "succeeded"]
                \in Record
  <2>1. StageState[wpc[t]] \in State
    BY <1>2, StageTables DEF State, Terminal
  <2>2. (wcopy[t].cleanupPending \/ wpc[t] = "succeeded") \in BOOLEAN
    OBVIOUS
  <2> QED BY <1>1, <2>1, <2>2, RecordWrites
<1> QED BY <1>1, <1>2, RecordWrites DEF State, Terminal

\* Every step of a handler keeps the types.
LEMMA TypeHandler ==
  ASSUME TypeInv, NEW c \in Callers, Calling(c) \/ HandlerStep(c) \/ CallerDies(c)
  PROVE  TypeInv'
<1>1. ASSUME BeginRead(c)
      PROVE  TypeInv'
  BY <1>1 DEF BeginRead, Scan, TypeInv, TypeOK, CopiesHeld, Unvisited,
       RecordSteps, CleaningSteps, CurSteps, HandlerSteps
<1>2. ASSUME BeginPrepare(c)
      PROVE  TypeInv'
  BY <1>2 DEF BeginPrepare, Scan, TypeInv, TypeOK, CopiesHeld, Unvisited,
       RecordSteps, CleaningSteps, CurSteps, HandlerSteps
<1>3. ASSUME NEW t \in Tasks, NEW b \in BOOLEAN, SubmitLoad(c, t, b)
      PROVE  TypeInv'
  BY <1>3 DEF SubmitLoad, Submittable, TypeInv, TypeOK, CopiesHeld,
       Unvisited, RecordSteps, CleaningSteps, CurSteps, HandlerSteps
<1>4. ASSUME NEW t \in Tasks, ExpireConfirmation(c, t)
      PROVE  TypeInv'
  BY <1>4, VisitedRecord, DecideType DEF ExpireConfirmation
<1>5. ASSUME NEW t \in Tasks, ReconcileLaunch(c, t)
      PROVE  TypeInv'
  BY <1>5, VisitedRecord, DecideType, SkipType DEF ReconcileLaunch
<1>6. ASSUME NEW t \in Tasks, ReconcileInflight(c, t)
      PROVE  TypeInv'
  BY <1>6, VisitedRecord, DecideType, SkipType DEF ReconcileInflight
<1>7. ASSUME ReconcileSave(c)
      PROVE  TypeInv'
  <2>1. cur[c] \in Tasks /\ copy[c][cur[c]] \in Record
    BY <1>7 DEF ReconcileSave, TypeInv, TypeOK, CopiesHeld, RecordSteps, CurSteps
  <2>2. /\ disk' \in [Tasks -> Record \cup {NoRecord}]
        /\ late' \subseteq Tasks
    BY <1>7, <2>1 DEF ReconcileSave, Save, TypeInv, TypeOK
  <2>3. TypeOK'
    BY <1>7, <2>1, <2>2 DEF ReconcileSave, TypeInv, TypeOK, HandlerSteps
  <2>4. CopiesHeld'
    BY <1>7 DEF ReconcileSave, Save, TypeInv, TypeOK, CopiesHeld, Unvisited,
                RecordSteps, CleaningSteps, CurSteps
  <2> QED BY <2>3, <2>4 DEF TypeInv
<1>8. ASSUME NEW t \in Tasks, BootoutJob(c, t)
      PROVE  TypeInv'
  <2>1. TypeOK'
    BY <1>8 DEF BootoutJob, Visiting, Freed, TypeInv, TypeOK, HandlerSteps,
                WorkerSteps
  <2>2. \A u \in Tasks : wpc'[u] # wpc[u] => u = t /\ wpc'[t] = "exited"
    BY <1>8 DEF BootoutJob, TypeInv, TypeOK
  <2>3. wpc[t] \in Locked \cup {"unknown_save"} => wpc'[t] = "exited"
    BY <1>8 DEF BootoutJob, Alive, Recording, TypeInv, TypeOK
  <2>4. CopiesHeld'
    BY <1>8, <2>2, <2>3 DEF BootoutJob, Visiting, TypeInv, TypeOK, CopiesHeld,
       Unvisited, RecordSteps, CleaningSteps, CurSteps, Locked, Stages, BrewStages
  <2> QED BY <2>1, <2>4 DEF TypeInv
<1>9. ASSUME NEW t \in Tasks, BootoutFails(c, t)
      PROVE  TypeInv'
  BY <1>9 DEF BootoutFails, Visiting, Skip, TypeInv, TypeOK, CopiesHeld,
       Unvisited, RecordSteps, CleaningSteps, CurSteps, HandlerSteps
<1>10. ASSUME CleanupLoad(c)
      PROVE  TypeInv'
  BY <1>10 DEF CleanupLoad, TypeInv, TypeOK, CopiesHeld, Unvisited,
       RecordSteps, CleaningSteps, CurSteps, HandlerSteps
<1>11. ASSUME AppendIndex(c)
      PROVE  TypeInv'
  <2>1. TypeOK'
    BY <1>11 DEF AppendIndex, TypeInv, TypeOK, CopiesHeld, RecordSteps,
         CurSteps, HandlerSteps, Record
  <2>2. CopiesHeld'
    BY <1>11 DEF AppendIndex, TypeInv, TypeOK, CopiesHeld, Unvisited,
         RecordSteps, CleaningSteps, CurSteps
  <2> QED BY <2>1, <2>2 DEF TypeInv
<1>12. ASSUME RemoveFiles(c) \/ RemoveDir(c)
      PROVE  TypeInv'
  <2>1. CASE RemoveFiles(c)
    BY <2>1 DEF RemoveFiles, TypeInv, TypeOK, CopiesHeld, Unvisited,
       RecordSteps, CleaningSteps, CurSteps, HandlerSteps
  <2>2. CASE RemoveDir(c)
    BY <2>2 DEF RemoveDir, TypeInv, TypeOK, CopiesHeld, Unvisited,
       RecordSteps, CleaningSteps, CurSteps, HandlerSteps
  <2> QED BY <1>12, <2>1, <2>2
<1>13. ASSUME EndRead(c)
      PROVE  TypeInv'
  BY <1>13 DEF EndRead, TypeInv, TypeOK, CopiesHeld, Unvisited, RecordSteps,
       CleaningSteps, CurSteps, HandlerSteps
<1>14. ASSUME CheckActive(c)
      PROVE  TypeInv'
  BY <1>14 DEF CheckActive, TypeInv, TypeOK, CopiesHeld, Unvisited,
       RecordSteps, CleaningSteps, CurSteps, HandlerSteps
<1>15. ASSUME NEW t \in Tasks, CreateTask(c, t)
      PROVE  TypeInv'
  <2>1. Offer \in Record
    BY DEF Offer, Record, State
  <2>2. TypeOK'
    BY <1>15, <2>1 DEF CreateTask, TypeInv, TypeOK, HandlerSteps
  <2>3. CopiesHeld'
    BY <1>15 DEF CreateTask, TypeInv, TypeOK, CopiesHeld, Unvisited, RecordSteps,
                CleaningSteps, CurSteps
  <2> QED BY <2>2, <2>3 DEF TypeInv
<1>16. ASSUME RefuseTarget(c)
      PROVE  TypeInv'
  BY <1>16, SMTT(30) DEF RefuseTarget, TypeInv, TypeOK, CopiesHeld, Unvisited,
       RecordSteps, CleaningSteps, CurSteps, HandlerSteps
<1>17. ASSUME SubmitExpired(c)
      PROVE  TypeInv'
  BY <1>17, SubmittedRecord, PersistType, ZenonT(60) DEF SubmitExpired
<1>18. ASSUME SubmitAccept(c)
      PROVE  TypeInv'
  BY <1>18, SubmittedRecord, PersistType DEF SubmitAccept
<1>19. ASSUME LaunchTask(c)
      PROVE  TypeInv'
  <2>1. cur[c] \in Tasks
    BY <1>19 DEF LaunchTask, TypeInv, CopiesHeld, RecordSteps, CurSteps
  <2>2. launches' = launches \/ launches' = [launches EXCEPT ![cur[c]] = @ + 1]
    BY <1>19 DEF LaunchTask
  <2>3. launches' \in [Tasks -> Nat]
    BY <2>1, <2>2 DEF TypeInv, TypeOK
  <2>4. job' = job \/ job' = [job EXCEPT ![cur[c]] = "loaded"]
    BY <1>19 DEF LaunchTask
  <2>5. wpc' = wpc \/ wpc' = [wpc EXCEPT ![cur[c]] = "boot"]
    BY <1>19 DEF LaunchTask
  <2>6. \E step \in {"launched", "launch_unknown", "launch_failed"} :
          pc' = [pc EXCEPT ![c] = step]
    BY <1>19 DEF LaunchTask
  <2>7. TypeOK'
    <3>1. job' \in [Tasks -> {"none", "loaded", "gone"}]
      BY <2>1, <2>4 DEF TypeInv, TypeOK
    <3>2. wpc' \in [Tasks -> WorkerSteps]
      BY <2>1, <2>5 DEF TypeInv, TypeOK, WorkerSteps, Alive
    <3>3. pc' \in [Callers -> HandlerSteps]
      BY <2>6 DEF TypeInv, TypeOK, HandlerSteps
    <3> QED BY <1>19, <2>3, <3>1, <3>2, <3>3 DEF LaunchTask, TypeInv, TypeOK
  <2>8. CopiesHeld'
    BY <1>19, <2>1, <2>5, <2>6, SMTT(30)
       DEF LaunchTask, TypeInv, TypeOK, CopiesHeld, Unvisited,
       RecordSteps, CleaningSteps, CurSteps, Locked, Stages, BrewStages
  <2> QED BY <2>7, <2>8 DEF TypeInv
<1>20. ASSUME SubmitLaunched(c)
      PROVE  TypeInv'
  BY <1>20, SubmittedRecord, PersistType, ZenonT(60) DEF SubmitLaunched
<1>21. ASSUME SubmitUnknown(c)
      PROVE  TypeInv'
  BY <1>21, SubmittedRecord, PersistType, ZenonT(60) DEF SubmitUnknown
<1>22. ASSUME SubmitFailed(c)
      PROVE  TypeInv'
  BY <1>22, SubmittedRecord, PersistType DEF SubmitFailed
<1>23. ASSUME Release(c)
      PROVE  TypeInv'
  BY <1>23 DEF Release, Forget, Freed, TypeInv, TypeOK, CopiesHeld,
       Unvisited, RecordSteps, CleaningSteps, CurSteps, HandlerSteps
<1>24. ASSUME CallerDies(c)
      PROVE  TypeInv'
  BY <1>24 DEF CallerDies, Forget, Freed, TypeInv, TypeOK, CopiesHeld,
       Unvisited, RecordSteps, CleaningSteps, CurSteps, HandlerSteps
<1> QED BY <1>1, <1>2, <1>3, <1>4, <1>5, <1>6, <1>7, <1>8, <1>9, <1>10, <1>11,
     <1>12, <1>13, <1>14, <1>15, <1>16, <1>17, <1>18, <1>19, <1>20, <1>21,
     <1>22, <1>23, <1>24 DEF Calling, HandlerStep, Reconciling, Preparing,
     Submitting

\* Every step of a worker, of its commands and of time keeps the types.
LEMMA TypeWorker ==
  ASSUME TypeInv, NEW t \in Tasks,
         WorkerStep(t) \/ WorkerDies(t) \/ OrphanEnds(t) \/ Elapse(t)
  PROVE  TypeInv'
<1>1. ASSUME WorkerUnprobed(t)
      PROVE  TypeInv'
  BY <1>1 DEF WorkerUnprobed, TypeInv, TypeOK, CopiesHeld, Unvisited,
       RecordSteps, CleaningSteps, CurSteps, WorkerSteps, Alive, Locked,
       Stages, BrewStages, Recording
<1>2. ASSUME WorkerLoad(t)
      PROVE  TypeInv'
  <2>1. TypeOK'
    BY <1>2, ZenonT(60)
       DEF WorkerLoad, LockFree, TypeInv, TypeOK, WorkerSteps, Alive, Locked
  <2>2. CopiesHeld'
    BY <1>2 DEF WorkerLoad, LockFree, TypeInv, TypeOK, CopiesHeld, Unvisited,
                RecordSteps, CleaningSteps, CurSteps, Locked, Stages, BrewStages
  <2> QED BY <2>1, <2>2 DEF TypeInv
<1>3. ASSUME WorkerBusy(t)
      PROVE  TypeInv'
  BY <1>3 DEF WorkerBusy, TypeInv, TypeOK, CopiesHeld, Unvisited,
       RecordSteps, CleaningSteps, CurSteps, WorkerSteps, Alive, Locked,
       Stages, BrewStages, Recording
<1>4. ASSUME WriteReady(t)
      PROVE  TypeInv'
  BY <1>4, WorkersRecord, WorkerSaveType
     DEF WriteReady, WorkerSteps, Alive, Locked, Stages
<1>5. ASSUME ReadyFails(t)
      PROVE  TypeInv'
  BY <1>5 DEF ReadyFails, Advance, TypeInv, TypeOK, CopiesHeld, Unvisited,
       RecordSteps, CleaningSteps, CurSteps, WorkerSteps, Alive, Locked,
       Stages, BrewStages, Recording
<1>6. ASSUME EnterStage(t)
      PROVE  TypeInv'
  <2>1. StageWork[wpc[t]] \in WorkerSteps
    BY <1>6, StageTables DEF EnterStage, WorkerSteps, Alive, Recording
  <2> QED BY <1>6, <2>1, WorkersRecord, WorkerSaveType DEF EnterStage
<1>7. ASSUME SnapshotStaged(t)
      PROVE  TypeInv'
  BY <1>7 DEF SnapshotStaged, Advance, TypeInv, TypeOK, CopiesHeld,
       Unvisited, RecordSteps, CleaningSteps, CurSteps, WorkerSteps, Alive,
       Locked, Stages, BrewStages, Recording
<1>8. ASSUME SnapshotFails(t)
      PROVE  TypeInv'
  BY <1>8 DEF SnapshotFails, Advance, TypeInv, TypeOK, CopiesHeld, Unvisited,
       RecordSteps, CleaningSteps, CurSteps, WorkerSteps, Alive, Locked,
       Stages, BrewStages, Recording
<1>9. ASSUME ServicePidRead(t)
      PROVE  TypeInv'
  BY <1>9 DEF ServicePidRead, Advance, TypeInv, TypeOK, CopiesHeld,
       Unvisited, RecordSteps, CleaningSteps, CurSteps, WorkerSteps, Alive,
       Locked, Stages, BrewStages, Recording
<1>10. ASSUME ServicePidFails(t)
      PROVE  TypeInv'
  BY <1>10 DEF ServicePidFails, Advance, TypeInv, TypeOK, CopiesHeld,
       Unvisited, RecordSteps, CleaningSteps, CurSteps, WorkerSteps, Alive,
       Locked, Stages, BrewStages, Recording
<1>11. ASSUME HealthProven(t)
      PROVE  TypeInv'
  BY <1>11 DEF HealthProven, Advance, TypeInv, TypeOK, CopiesHeld, Unvisited,
       RecordSteps, CleaningSteps, CurSteps, WorkerSteps, Alive, Locked,
       Stages, BrewStages, Recording
<1>12. ASSUME HealthUnproven(t)
      PROVE  TypeInv'
  BY <1>12 DEF HealthUnproven, Advance, TypeInv, TypeOK, CopiesHeld,
       Unvisited, RecordSteps, CleaningSteps, CurSteps, WorkerSteps, Alive,
       Locked, Stages, BrewStages, Recording
<1>13. ASSUME BrewStart(t)
      PROVE  TypeInv'
  BY <1>13 DEF BrewStart, TypeInv, TypeOK, CopiesHeld, Unvisited,
       RecordSteps, CleaningSteps, CurSteps, WorkerSteps, Alive, Locked,
       Stages, BrewStages, Recording, AfterExitZero, AfterExitError
<1>14. ASSUME BrewSucceeds(t)
      PROVE  TypeInv'
  BY <1>14 DEF BrewSucceeds, BrewReturns, TypeInv, TypeOK, CopiesHeld,
       Unvisited, RecordSteps, CleaningSteps, CurSteps, WorkerSteps, Alive,
       Locked, Stages, BrewStages, Recording, AfterExitZero, AfterExitError
<1>15. ASSUME BrewFails(t)
      PROVE  TypeInv'
  BY <1>15 DEF BrewFails, BrewReturns, TypeInv, TypeOK, CopiesHeld,
       Unvisited, RecordSteps, CleaningSteps, CurSteps, WorkerSteps, Alive,
       Locked, Stages, BrewStages, Recording, AfterExitZero, AfterExitError
<1>16. ASSUME BrewTimesOut(t)
      PROVE  TypeInv'
  BY <1>16 DEF BrewTimesOut, BrewReturns, TypeInv, TypeOK, CopiesHeld,
       Unvisited, RecordSteps, CleaningSteps, CurSteps, WorkerSteps, Alive,
       Locked, Stages, BrewStages, Recording, AfterExitZero, AfterExitError
<1>17. ASSUME BrewKilled(t)
      PROVE  TypeInv'
  BY <1>17 DEF BrewKilled, BrewReturns, TypeInv, TypeOK, CopiesHeld,
       Unvisited, RecordSteps, CleaningSteps, CurSteps, WorkerSteps, Alive,
       Locked, Stages, BrewStages, Recording, AfterExitZero, AfterExitError
<1>18. ASSUME UnknownLoad(t)
      PROVE  TypeInv'
  BY <1>18 DEF UnknownLoad, TypeInv, TypeOK, CopiesHeld, Unvisited,
       RecordSteps, CleaningSteps, CurSteps, WorkerSteps, Alive, Locked,
       Stages, BrewStages, Recording
<1>19. ASSUME UnknownSave(t)
      PROVE  TypeInv'
  BY <1>19, WorkersRecord, WorkerSaveType
     DEF UnknownSave, WorkerSteps, Alive, Recording
<1>20. ASSUME WorkerRelease(t)
      PROVE  TypeInv'
  BY <1>20 DEF WorkerRelease, Freed, TypeInv, TypeOK, CopiesHeld, Unvisited,
       RecordSteps, CleaningSteps, CurSteps, WorkerSteps, Alive, Locked,
       Stages, BrewStages, Recording
<1>21. ASSUME WorkerExit(t)
      PROVE  TypeInv'
  <2>1. TypeOK'
    BY <1>21 DEF WorkerExit, TypeInv, TypeOK, WorkerSteps
  <2>2. CopiesHeld'
    BY <1>21 DEF WorkerExit, TypeInv, TypeOK, CopiesHeld, Unvisited,
         RecordSteps, CleaningSteps, CurSteps, Locked, Stages, BrewStages
  <2> QED BY <2>1, <2>2 DEF TypeInv
<1>22. ASSUME WorkerDies(t)
      PROVE  TypeInv'
  BY <1>22 DEF WorkerDies, Freed, TypeInv, TypeOK, CopiesHeld, Unvisited,
       RecordSteps, CleaningSteps, CurSteps, WorkerSteps, Alive, Locked,
       Stages, BrewStages, Recording
<1>23. ASSUME OrphanEnds(t)
      PROVE  TypeInv'
  BY <1>23 DEF OrphanEnds, TypeInv, TypeOK, CopiesHeld, Unvisited,
       RecordSteps, CleaningSteps, CurSteps, WorkerSteps, Alive, Locked,
       Stages, BrewStages, Recording
<1>24. ASSUME ConfirmWindowCloses(t)
      PROVE  TypeInv'
  BY <1>24 DEF ConfirmWindowCloses, TypeInv, TypeOK, CopiesHeld, Unvisited,
       RecordSteps, CleaningSteps, CurSteps, WorkerSteps, Alive, Locked,
       Stages, BrewStages, Recording
<1>25. ASSUME LaunchWindowCloses(t)
      PROVE  TypeInv'
  BY <1>25 DEF LaunchWindowCloses, TypeInv, TypeOK, CopiesHeld, Unvisited,
       RecordSteps, CleaningSteps, CurSteps, WorkerSteps, Alive, Locked,
       Stages, BrewStages, Recording
<1>26. ASSUME BudgetElapses(t)
      PROVE  TypeInv'
  BY <1>26 DEF BudgetElapses, TypeInv, TypeOK, CopiesHeld, Unvisited,
       RecordSteps, CleaningSteps, CurSteps, WorkerSteps, Alive, Locked,
       Stages, BrewStages, Recording
<1> QED BY <1>1, <1>2, <1>3, <1>4, <1>5, <1>6, <1>7, <1>8, <1>9, <1>10, <1>11,
     <1>12, <1>13, <1>14, <1>15, <1>16, <1>17, <1>18, <1>19, <1>20, <1>21,
     <1>22, <1>23, <1>24, <1>25, <1>26 DEF WorkerStep, Elapse

\* Every step keeps the types.
LEMMA TypeStep == TypeInv /\ [Next]_vars => TypeInv'
<1> SUFFICES ASSUME TypeInv, [Next]_vars PROVE TypeInv'
  OBVIOUS
<1>1. CASE UNCHANGED vars
  BY <1>1 DEF vars, TypeInv, TypeOK, CopiesHeld, Unvisited
<1>2. CASE Next
  BY <1>2, TypeHandler, TypeWorker DEF Next
<1> QED BY <1>1, <1>2

\* TypeOK holds for every set of tasks and callers: no handler and no worker
\* ever persists anything but a task record in one of the known states.
THEOREM TypeCorrect == Spec => []TypeOK
<1>1. TypeInv => TypeOK
  BY DEF TypeInv
<1>2. Spec => []TypeInv
  BY TypeInit, TypeStep, PTL DEF Spec
<1> QED BY <1>1, <1>2, PTL

-----------------------------------------------------------------------------
(* Safety: who holds the lock, and what no stale write can break.          *)

\* Nothing is launched, locked, marked or removed at the start.
LEMMA SafeInit == Init => SafeInv
BY DEF Init, SafeInv, LaunchInv, LockHeld, WritesClose, SubmitFirst,
       LaunchClosesOffer, MarkedIsOver, CleansMarked, CleaningIsOver, Quiet,
       JobHasTask, RemovedIsOver, Awaits, Marked, Unvisited, CleaningSteps,
       LockedSteps, Locked, Stages, BrewStages

\* A reconcile that decides on a listed record: it closes an offer or leaves
\* it closed, and marks nothing.
LEMMA DecideSafe ==
  ASSUME IInv, NEW c \in Callers, NEW t \in Tasks, NEW r \in Record, Visiting(c, t),
         r.state # "awaiting_confirmation",
         r.cleanupPending => copy[c][t].cleanupPending,
         Decide(c, t, r),
         UNCHANGED <<store, lock, time, overdue, icopy, worker, launchd, brew>>
  PROVE  SafeInv'
<1>1. copy[c][t] # NoRecord /\ (Marked(r) => Marked(copy[c][t]))
  BY DEF IInv, TypeInv, CopiesHeld, Visiting, Unvisited, Marked
<1>2. /\ LockHeld' /\ SubmitFirst' /\ LaunchClosesOffer' /\ CleaningIsOver'
      /\ Quiet' /\ JobHasTask' /\ RemovedIsOver'
  BY DEF Visiting, Decide, IInv, SafeInv, TypeInv, TypeOK, LaunchInv, LockHeld,
         SubmitFirst, LaunchClosesOffer, CleaningIsOver, Quiet, JobHasTask,
         RemovedIsOver, CleaningSteps, LockedSteps, Over
<1>3. WritesClose'
  BY DEF Visiting, Decide, IInv, SafeInv, TypeInv, TypeOK, LaunchInv, WritesClose,
         Awaits
<1>4. MarkedIsOver'
  BY <1>1 DEF Visiting, Decide, IInv, SafeInv, TypeInv, TypeOK, LaunchInv,
              MarkedIsOver, Over
<1>5. CleansMarked'
  BY <1>1 DEF Visiting, Decide, IInv, SafeInv, TypeInv, TypeOK, LaunchInv,
              CleansMarked, Unvisited
<1> QED BY <1>2, <1>3, <1>4, <1>5 DEF SafeInv, LaunchInv

\* A reconcile that passes over a listed record.
LEMMA SkipSafe ==
  ASSUME IInv, NEW c \in Callers, NEW t \in Tasks, Visiting(c, t), Skip(c, t),
         UNCHANGED <<store, lock, time, overdue, icopy, worker, launchd, brew>>
  PROVE  SafeInv'
BY DEF Visiting, Skip, SafeInv, IInv, TypeInv, TypeOK, CopiesHeld, LaunchInv,
       LockHeld, WritesClose, SubmitFirst, LaunchClosesOffer, MarkedIsOver,
       CleansMarked, CleaningIsOver, Quiet, JobHasTask, RemovedIsOver, Unvisited,
       Over, Marked, Awaits, CleaningSteps, LockedSteps

\* A Submit that persists its record: it holds the lock, so nobody else is
\* between the acceptance and the launch of the same task.
LEMMA PersistSafe ==
  ASSUME IInv, NEW c \in Callers, NEW r \in Record,
         NEW step \in {"launch", "launch_failed", "release"},
         pc[c] \in LockedSteps \cap RecordSteps,
         step = "launch" => pc[c] = "accept" /\ r.state = "queued",
         r.state # "awaiting_confirmation",
         r.cleanupPending => copy[c][cur[c]].cleanupPending,
         Persist(c, r, step)
  PROVE  SafeInv'
<1>1. /\ cur[c] \in Tasks /\ copy[c][cur[c]] # NoRecord /\ r # NoRecord
      /\ ~Awaits(r) /\ (Marked(r) => Marked(copy[c][cur[c]]))
  BY NoRecordAssumption DEF IInv, TypeInv, CopiesHeld, CurSteps, Marked, Awaits
<1>2. \A t \in Tasks :
        /\ disk'[t] = disk[t] \/ (t = cur[c] /\ disk'[t] = r)
        /\ t = cur[c] /\ disk[t] # NoRecord => disk'[t] = r
  BY <1>1 DEF Persist, Save, IInv, TypeInv, TypeOK, DirsInv
<1>3. \A d \in Callers : pc[d] \in LockedSteps => d = c
  BY DEF IInv, SafeInv, LockHeld
<1>4. /\ pc' = [pc EXCEPT ![c] = step]
      /\ copy' = [copy EXCEPT ![c][cur[c]] = r]
      /\ UNCHANGED <<index, lock, confirmOver, budgetOver, todo, overdue, cur,
                     icopy, worker, launchd, brew>>
  BY DEF Persist
<1>5. LockHeld'
  BY <1>4 DEF IInv, SafeInv, TypeInv, TypeOK, LockHeld, LockedSteps
<1>6. WritesClose'
  BY <1>1, <1>4 DEF IInv, SafeInv, TypeInv, TypeOK, LaunchInv, WritesClose
<1>7. SubmitFirst'
  <2>1. SUFFICES ASSUME NEW d \in Callers, pc'[d] \in {"accept", "launch"}
                 PROVE  /\ launches[cur[d]] = 0 /\ disk'[cur[d]] # NoRecord
                        /\ pc'[d] = "launch" => ~Awaits(disk'[cur[d]])
    BY <1>4 DEF SubmitFirst
  <2>2. CASE d # c
    BY <1>3, <1>4, <2>1, <2>2 DEF IInv, TypeInv, TypeOK, LockedSteps
  <2>3. CASE d = c
    <3>1. step = "launch" /\ pc[c] = "accept"
      BY <1>4, <2>1, <2>3 DEF IInv, TypeInv, TypeOK
    <3>2. launches[cur[c]] = 0 /\ disk[cur[c]] # NoRecord
      BY <3>1 DEF IInv, SafeInv, LaunchInv, SubmitFirst
    <3> QED BY <1>1, <1>2, <2>3, <3>2
  <2> QED BY <2>2, <2>3
<1>8. LaunchClosesOffer'
  BY <1>1, <1>2, <1>4 DEF IInv, SafeInv, LaunchInv, LaunchClosesOffer, Awaits
<1>9. MarkedIsOver'
  BY <1>1, <1>2, <1>4 DEF IInv, SafeInv, TypeInv, TypeOK, LaunchInv, MarkedIsOver,
                          Over
<1>10. CleansMarked' /\ CleaningIsOver' /\ Quiet'
  BY <1>1, <1>4 DEF IInv, SafeInv, TypeInv, TypeOK, LaunchInv, CleansMarked,
                    CleaningIsOver, Quiet, Unvisited, CleaningSteps, LockedSteps
<1>11. JobHasTask' /\ RemovedIsOver'
  BY <1>1, <1>2, <1>4 DEF IInv, SafeInv, LaunchInv, JobHasTask, RemovedIsOver,
                          Awaits
<1> QED BY <1>5, <1>6, <1>7, <1>8, <1>9, <1>10, <1>11 DEF SafeInv, LaunchInv

\* A worker that persists its record: it was launched, and the only mark it
\* sets is the one of its success.
LEMMA WorkerSaveSafe ==
  ASSUME IInv, NEW t \in Tasks, NEW r \in Record, NEW step \in Locked \cup {"release"},
         wpc[t] \in {"ready", "unknown_save"} \cup Stages,
         step \in Locked => wpc[t] \in Locked,
         step \in QuietSteps => wpc[t] \in QuietSteps,
         r.state # "awaiting_confirmation",
         r.cleanupPending => wcopy[t].cleanupPending \/ wpc[t] = "succeeded",
         wpc[t] = "succeeded" => step = "release",
         WorkerSave(t, r, step)
  PROVE  SafeInv'
<1>1. /\ r # NoRecord /\ ~Awaits(r) /\ wcopy[t] # NoRecord
      /\ launches[t] > 0 /\ wpc[t] \notin {"none", "release", "leaving", "exited"}
  BY NoRecordAssumption DEF Awaits, IInv, SafeInv, LaunchInv, LaunchClosesOffer,
                            TypeInv, CopiesHeld, Stages, Locked
<1>2. Marked(r) => wpc[t] = "succeeded"
  BY <1>1 DEF Marked, IInv, SafeInv, LaunchInv, MarkedIsOver, Over
<1>3. wpc[t] = "succeeded" => ~brew[t]
  BY DEF IInv, SafeInv, LaunchInv, Quiet, QuietSteps, Locked, Stages, BrewStages
<1>4. disk[t] # NoRecord /\ t \in dirs
  BY <1>1 DEF IInv, DirsInv, SafeInv, LaunchInv, RemovedIsOver
<1>5. /\ disk' = [disk EXCEPT ![t] = r]
      /\ wcopy' = [wcopy EXCEPT ![t] = r]
      /\ wpc' = [wpc EXCEPT ![t] = step]
      /\ UNCHANGED <<index, lock, confirmOver, budgetOver, handler, launchd, brew>>
  BY <1>4 DEF WorkerSave, Save
<1>6. step \notin {"none", "boot"}
  BY DEF Locked, Stages, BrewStages
<1>7. LockHeld'
  BY <1>5 DEF IInv, SafeInv, TypeInv, TypeOK, LockHeld, Locked, Stages, BrewStages
<1>8. WritesClose' /\ CleansMarked'
  BY <1>5 DEF IInv, SafeInv, LaunchInv, WritesClose, CleansMarked, Unvisited
<1>9. SubmitFirst'
  BY <1>1, <1>5 DEF IInv, SafeInv, TypeInv, TypeOK, CopiesHeld, RecordSteps, CurSteps,
                    LaunchInv, SubmitFirst
<1>10. LaunchClosesOffer'
  BY <1>1, <1>5, <1>6 DEF IInv, SafeInv, TypeInv, TypeOK, LaunchInv,
                          LaunchClosesOffer
<1>11. MarkedIsOver'
  BY <1>1, <1>2, <1>3, <1>5 DEF IInv, SafeInv, TypeInv, TypeOK, LaunchInv,
                                MarkedIsOver, Over
<1>12. CleaningIsOver' /\ RemovedIsOver'
  BY <1>1, <1>4, <1>5 DEF IInv, SafeInv, TypeInv, TypeOK, CopiesHeld, CurSteps,
                          LaunchInv, CleaningIsOver, RemovedIsOver
<1>13. Quiet'
  BY <1>5 DEF IInv, SafeInv, TypeInv, TypeOK, LaunchInv, Quiet
<1>14. JobHasTask'
  BY <1>1, <1>5 DEF IInv, SafeInv, TypeInv, TypeOK, LaunchInv, JobHasTask, Awaits
<1> QED BY <1>7, <1>8, <1>9, <1>10, <1>11, <1>12, <1>13, <1>14
        DEF SafeInv, LaunchInv

\* A step of the worker that only moves it on, under the lock.
LEMMA AdvanceSafe ==
  ASSUME IInv, NEW t \in Tasks, NEW from \in Locked, NEW to \in Locked \cup {"unknown"},
         to \in QuietSteps => from \in QuietSteps,
         Advance(t, from, to)
  PROVE  SafeInv'
<1>1. from \notin {"none", "release", "leaving", "exited"} /\ to \notin {"none", "boot"}
  BY DEF Locked, Stages, BrewStages
<1>2. wpc[t] = from /\ launches[t] > 0
  BY <1>1 DEF Advance, IInv, SafeInv, LaunchInv, LaunchClosesOffer
<1>3. /\ wpc' = [wpc EXCEPT ![t] = to]
      /\ UNCHANGED <<store, lock, time, handler, wcopy, launchd, brew>>
  BY DEF Advance
<1>4. LockHeld' /\ Quiet'
  BY <1>2, <1>3 DEF IInv, SafeInv, TypeInv, TypeOK, LaunchInv, LockHeld, Quiet,
                    QuietSteps, Locked, Stages, BrewStages
<1>5. WritesClose' /\ SubmitFirst' /\ CleansMarked' /\ JobHasTask'
  BY <1>3 DEF IInv, SafeInv, LaunchInv, WritesClose, SubmitFirst, CleansMarked,
              JobHasTask, Unvisited
<1>6. LaunchClosesOffer'
  BY <1>1, <1>2, <1>3 DEF IInv, SafeInv, TypeInv, TypeOK, LaunchInv,
                          LaunchClosesOffer
<1>7. MarkedIsOver' /\ CleaningIsOver' /\ RemovedIsOver'
  BY <1>1, <1>2, <1>3 DEF IInv, SafeInv, TypeInv, TypeOK, CopiesHeld, CurSteps,
     LaunchInv, MarkedIsOver, CleaningIsOver, RemovedIsOver, Over
<1> QED BY <1>4, <1>5, <1>6, <1>7 DEF SafeInv, LaunchInv

\* A reconcile that writes the record it decided on, stale or not.
LEMMA ReconcileSaveSafe ==
  ASSUME IInv, NEW c \in Callers, ReconcileSave(c)
  PROVE  SafeInv'
<1>1. /\ cur[c] \in Tasks /\ pc[c] = "save"
      /\ copy[c][cur[c]] \in Record /\ copy[c][cur[c]] # NoRecord
      /\ ~Awaits(copy[c][cur[c]])
  BY DEF ReconcileSave, IInv, SafeInv, TypeInv, TypeOK, CopiesHeld,
       RecordSteps, CurSteps, LaunchInv, WritesClose
<1>2. /\ disk' = disk \/ disk' = [disk EXCEPT ![cur[c]] = copy[c][cur[c]]]
      /\ \A t \in Tasks : disk'[t] = NoRecord => disk[t] = NoRecord
  BY <1>1 DEF ReconcileSave, Save, IInv, SafeInv, TypeInv, TypeOK
<1>3. LockHeld' /\ WritesClose' /\ CleansMarked' /\ CleaningIsOver' /\ Quiet'
  BY <1>1 DEF ReconcileSave, IInv, SafeInv, TypeInv, TypeOK, LaunchInv,
       LockHeld, WritesClose, CleansMarked, CleaningIsOver, Quiet, Unvisited,
       CleaningSteps, LockedSteps
<1>5. SubmitFirst'
  BY <1>1, <1>2 DEF ReconcileSave, IInv, SafeInv, TypeInv, TypeOK, CopiesHeld,
       RecordSteps, CurSteps, LaunchInv, SubmitFirst
<1>6. LaunchClosesOffer'
  BY <1>1, <1>2 DEF ReconcileSave, IInv, SafeInv, TypeInv, TypeOK, LaunchInv,
       LaunchClosesOffer
<1>7. MarkedIsOver'
  <2>1. \A d \in Callers, t \in Tasks : copy'[d][t] \in {copy[d][t], NoRecord}
    BY <1>1 DEF ReconcileSave, IInv, SafeInv, TypeInv, TypeOK
  <2>2. \A t \in Tasks : disk'[t] = disk[t] \/ (t = cur[c] /\ disk'[t] = copy[c][t])
    BY <1>1, <1>2 DEF IInv, SafeInv, TypeInv, TypeOK
  <2> QED BY <1>1, <2>1, <2>2 DEF ReconcileSave, IInv, SafeInv, LaunchInv,
                                  MarkedIsOver, Over, Marked
<1>9. JobHasTask' /\ RemovedIsOver'
  BY <1>1, <1>2, ZenonT(60)
     DEF ReconcileSave, IInv, SafeInv, TypeInv, TypeOK, LaunchInv,
       JobHasTask, RemovedIsOver, Awaits
<1> QED BY <1>3, <1>5, <1>6, <1>7, <1>9 DEF SafeInv, LaunchInv

\* Cleanup starts only for a marked record: the worker of its task is past its
\* last write.
LEMMA BootoutJobSafe ==
  ASSUME IInv, NEW c \in Callers, NEW t \in Tasks, BootoutJob(c, t)
  PROVE  SafeInv'
<1>1. /\ Marked(copy[c][t]) /\ Over(t)
  BY DEF BootoutJob, Visiting, Unvisited, IInv, SafeInv, LaunchInv,
       CleansMarked, MarkedIsOver
<1>2. /\ wpc[t] # "none" /\ launches[t] > 0
  BY <1>1 DEF Over, IInv, SafeInv, LaunchInv, LaunchClosesOffer
<1>3. wpc' = [wpc EXCEPT ![t] = "exited"]
  BY <1>1 DEF Over, BootoutJob, Alive, Recording, IInv, SafeInv, TypeInv, TypeOK
<1>4. LockHeld'
  BY HostAssumption, <1>1 DEF BootoutJob, Visiting, Freed, Over, IInv, SafeInv,
       TypeInv, TypeOK, LockHeld, LockedSteps, Locked, Stages, BrewStages
<1>5. WritesClose' /\ SubmitFirst'
  BY DEF BootoutJob, Visiting, IInv, SafeInv, TypeInv, TypeOK, LaunchInv,
       WritesClose, SubmitFirst
<1>6. LaunchClosesOffer'
  BY <1>2, <1>3 DEF BootoutJob, IInv, SafeInv, TypeInv, TypeOK, LaunchInv,
       LaunchClosesOffer, Awaits
<1>7. MarkedIsOver'
  BY <1>3 DEF BootoutJob, IInv, SafeInv, TypeInv, TypeOK, LaunchInv,
       MarkedIsOver, Over, Marked
<1>8. CleansMarked'
  BY DEF BootoutJob, Visiting, IInv, SafeInv, TypeInv, TypeOK, LaunchInv,
       CleansMarked, Unvisited
<1>9. CleaningIsOver'
  BY <1>1, <1>2, <1>3 DEF BootoutJob, Visiting, IInv, SafeInv, TypeInv, TypeOK,
       CopiesHeld, CurSteps, LaunchInv, CleaningIsOver, Over
<1>10. Quiet'
  BY <1>1, <1>3 DEF BootoutJob, IInv, SafeInv, TypeInv, TypeOK, LaunchInv,
       Quiet, QuietSteps, Over, Locked, Stages, BrewStages
<1>11. JobHasTask' /\ RemovedIsOver'
  BY <1>1, <1>3 DEF BootoutJob, IInv, SafeInv, TypeInv, TypeOK, LaunchInv,
       JobHasTask, RemovedIsOver
<1> QED BY <1>4, <1>5, <1>6, <1>7, <1>8, <1>9, <1>10, <1>11 DEF SafeInv, LaunchInv

\* Bootstrap: the first and only one of a task that is past confirmation.
LEMMA LaunchTaskSafe ==
  ASSUME IInv, NEW c \in Callers, LaunchTask(c)
  PROVE  SafeInv'
<1> DEFINE u == cur[c]
<1>1. /\ u \in Tasks /\ pc[c] = "launch" /\ lock = c /\ wpc[u] = "none"
      /\ launches[u] = 0 /\ disk[u] # NoRecord /\ ~Awaits(disk[u])
      /\ copy[c][u].state = "queued"
  BY DEF LaunchTask, IInv, SafeInv, TypeInv, TypeOK, CopiesHeld, RecordSteps,
         CurSteps, LaunchInv, SubmitFirst, LockHeld, LockedSteps,
         LaunchClosesOffer, WritesClose
<1>2. /\ ~Marked(disk[u]) /\ \A d \in Callers : ~Marked(copy[d][u])
      /\ wcopy[u] = NoRecord /\ ~brew[u]
  BY <1>1 DEF IInv, SafeInv, LaunchInv, MarkedIsOver, Over, LaunchClosesOffer, Quiet,
              QuietSteps
<1>3. /\ \A t \in Tasks : t # u => /\ launches'[t] = launches[t]
                                  /\ job'[t] = job[t] /\ wpc'[t] = wpc[t]
      /\ launches'[u] \in {0, 1} /\ wpc'[u] \in {"none", "boot"}
      /\ wpc'[u] = "boot" => launches'[u] = 1
  BY <1>1 DEF LaunchTask, IInv, TypeInv, TypeOK
<1>4. /\ \E step \in {"launched", "launch_unknown", "launch_failed"} :
            pc' = [pc EXCEPT ![c] = step]
      /\ UNCHANGED <<store, lock, time, todo, copy, overdue, cur, icopy, wcopy,
                     brew>>
  BY DEF LaunchTask
<1>5. \A d \in Callers : pc[d] \in LockedSteps => d = c
  BY <1>1 DEF IInv, SafeInv, LockHeld
<1> HIDE DEF u
<1>6. LockHeld'
  BY <1>1, <1>3, <1>4 DEF IInv, SafeInv, TypeInv, TypeOK, LockHeld, LockedSteps,
                          Locked, Stages, BrewStages
<1>7. WritesClose' /\ CleansMarked'
  BY <1>1, <1>4 DEF IInv, SafeInv, TypeInv, TypeOK, LaunchInv, WritesClose,
                    CleansMarked, Unvisited, u
<1>8. SubmitFirst'
  BY <1>4, <1>5 DEF IInv, TypeInv, TypeOK, LockedSteps, SubmitFirst
<1>9. LaunchClosesOffer'
  BY <1>1, <1>2, <1>3, <1>4 DEF IInv, SafeInv, LaunchInv, LaunchClosesOffer, Awaits
<1>10. MarkedIsOver'
  BY <1>1, <1>2, <1>3, <1>4 DEF IInv, SafeInv, LaunchInv, MarkedIsOver, Over, Marked
<1>11. CleaningIsOver'
  BY <1>1, <1>3, <1>4 DEF IInv, SafeInv, TypeInv, TypeOK, CopiesHeld, CurSteps,
                          LaunchInv, CleaningIsOver, CleaningSteps
<1>12. Quiet'
  BY <1>2, <1>3, <1>4 DEF IInv, SafeInv, LaunchInv, Quiet
<1>13. JobHasTask' /\ RemovedIsOver'
  BY <1>1, <1>3, <1>4 DEF IInv, SafeInv, LaunchInv, JobHasTask, RemovedIsOver, Awaits
<1> QED BY <1>6, <1>7, <1>8, <1>9, <1>10, <1>11, <1>12, <1>13 DEF SafeInv, LaunchInv

\* A worker that takes the lock finds nobody else relying on it.
LEMMA WorkerLoadSafe ==
  ASSUME IInv, NEW t \in Tasks, WorkerLoad(t)
  PROVE  SafeInv'
<1>1. /\ wpc[t] = "boot" /\ launches[t] > 0 /\ lock = Nobody
      /\ ~brew[t] /\ ~Marked(disk[t])
  BY DEF WorkerLoad, LockFree, IInv, SafeInv, LaunchInv, LaunchClosesOffer,
       Quiet, QuietSteps, MarkedIsOver, Over
<1>2. LockHeld'
  BY HostAssumption, <1>1 DEF WorkerLoad, IInv, SafeInv, TypeInv, TypeOK,
       LockHeld, Locked, Stages, BrewStages
<1>3. WritesClose' /\ SubmitFirst' /\ CleansMarked'
  BY DEF WorkerLoad, IInv, SafeInv, LaunchInv, WritesClose, SubmitFirst,
       CleansMarked, Unvisited
<1>4. LaunchClosesOffer'
  BY <1>1 DEF WorkerLoad, IInv, SafeInv, TypeInv, TypeOK, LaunchInv,
       LaunchClosesOffer, Awaits
<1>5. MarkedIsOver'
  BY <1>1 DEF WorkerLoad, IInv, SafeInv, TypeInv, TypeOK, LaunchInv,
       MarkedIsOver, Over
<1>6. CleaningIsOver' /\ JobHasTask' /\ RemovedIsOver'
  BY <1>1 DEF WorkerLoad, IInv, SafeInv, TypeInv, TypeOK, CopiesHeld, CurSteps,
       LaunchInv, CleaningIsOver, JobHasTask, RemovedIsOver
<1>7. Quiet'
  BY <1>1 DEF WorkerLoad, IInv, SafeInv, TypeInv, TypeOK, LaunchInv, Quiet
<1> QED BY <1>2, <1>3, <1>4, <1>5, <1>6, <1>7 DEF SafeInv, LaunchInv

\* A worker that dies frees the lock and drops its copy.
LEMMA WorkerDiesSafe ==
  ASSUME IInv, NEW t \in Tasks, WorkerDies(t)
  PROVE  SafeInv'
<1>1. wpc[t] # "none" /\ launches[t] > 0
  BY DEF WorkerDies, Alive, Locked, Stages, BrewStages, Recording, IInv,
       SafeInv, LaunchInv, LaunchClosesOffer
<1>2. LaunchClosesOffer'
  BY <1>1 DEF WorkerDies, IInv, SafeInv, TypeInv, TypeOK, LaunchInv,
       LaunchClosesOffer, Awaits
<1>3. LockHeld'
  BY HostAssumption DEF WorkerDies, Freed, IInv, SafeInv, TypeInv, TypeOK,
       LockHeld, LockedSteps, Locked, Stages, BrewStages
<1>4. WritesClose' /\ SubmitFirst' /\ CleansMarked' /\ JobHasTask'
  BY DEF WorkerDies, IInv, SafeInv, LaunchInv, WritesClose, SubmitFirst,
       CleansMarked, JobHasTask, Unvisited
<1>5. MarkedIsOver' /\ CleaningIsOver' /\ RemovedIsOver'
  BY DEF WorkerDies, IInv, SafeInv, TypeInv, TypeOK, CopiesHeld, CurSteps,
       LaunchInv, MarkedIsOver, CleaningIsOver, RemovedIsOver, Over, Marked
<1>6. Quiet'
  BY DEF WorkerDies, IInv, SafeInv, TypeInv, TypeOK, LaunchInv, Quiet,
       QuietSteps, Locked, Stages, BrewStages
<1> QED BY <1>2, <1>3, <1>4, <1>5, <1>6 DEF SafeInv, LaunchInv


\* Every step of a handler keeps the invariant.
LEMMA SafeHandler ==
  ASSUME IInv, NEW c \in Callers, Calling(c) \/ HandlerStep(c) \/ CallerDies(c)
  PROVE  SafeInv'
<1>0. TypeInv
  BY DEF IInv
<1>1. ASSUME NEW t \in Tasks, ExpireConfirmation(c, t)
      PROVE  SafeInv'
  <2>2. /\ copy[c][t] \in Record
        /\ [copy[c][t] EXCEPT !.state = "confirmation_expired"] \in Record
    BY <1>1, <1>0, VisitedRecord DEF ExpireConfirmation
  <2> QED BY <1>1, <2>2, DecideSafe DEF ExpireConfirmation, Record
<1>2. ASSUME NEW t \in Tasks, ReconcileLaunch(c, t)
      PROVE  SafeInv'
  <2>2. /\ copy[c][t] \in Record /\ copy[c][t].state = "queued"
        /\ [copy[c][t] EXCEPT !.state = "needs_attention"] \in Record
        /\ [copy[c][t] EXCEPT !.launchUnknown = FALSE] \in Record
    BY <1>2, <1>0, VisitedRecord DEF ReconcileLaunch
  <2>3. /\ Visiting(c, t)
        /\ \/ Decide(c, t, [copy[c][t] EXCEPT !.launchUnknown = FALSE])
           \/ Decide(c, t, [copy[c][t] EXCEPT !.state = "needs_attention"])
           \/ Skip(c, t)
        /\ UNCHANGED <<store, lock, time, overdue, icopy, worker, launchd, brew>>
    BY <1>2 DEF ReconcileLaunch
  <2> QED BY <2>2, <2>3, DecideSafe, SkipSafe DEF Record
<1>3. ASSUME NEW t \in Tasks, ReconcileInflight(c, t)
      PROVE  SafeInv'
  <2>2. /\ copy[c][t] \in Record
        /\ [copy[c][t] EXCEPT !.state = "needs_attention"] \in Record
    BY <1>3, <1>0, VisitedRecord DEF ReconcileInflight
  <2>3. /\ Visiting(c, t)
        /\ \/ Decide(c, t, [copy[c][t] EXCEPT !.state = "needs_attention"])
           \/ Skip(c, t)
        /\ UNCHANGED <<store, lock, time, overdue, icopy, worker, launchd, brew>>
    BY <1>3 DEF ReconcileInflight
  <2> QED BY <2>2, <2>3, DecideSafe, SkipSafe DEF Record
<1>4. ASSUME ReconcileSave(c)
      PROVE  SafeInv'
  BY <1>4, ReconcileSaveSafe
<1>5. ASSUME NEW t \in Tasks, BootoutJob(c, t)
      PROVE  SafeInv'
  BY <1>5, BootoutJobSafe
<1>6. ASSUME SubmitExpired(c)
      PROVE  SafeInv'
  <2>2. /\ pc[c] \in LockedSteps \cap RecordSteps /\ copy[c][cur[c]] \in Record
        /\ [copy[c][cur[c]] EXCEPT !.state = "confirmation_expired"] \in Record
    BY <1>6, <1>0, SubmittedRecord DEF SubmitExpired
  <2> QED BY <1>6, <2>2, PersistSafe DEF SubmitExpired, Record
<1>7. ASSUME SubmitAccept(c)
      PROVE  SafeInv'
  <2>2. /\ pc[c] \in LockedSteps \cap RecordSteps /\ copy[c][cur[c]] \in Record
        /\ [copy[c][cur[c]] EXCEPT !.state = "queued", !.acceptedDigest = TRUE]
                \in Record
    BY <1>7, <1>0, SubmittedRecord DEF SubmitAccept
  <2> QED BY <1>7, <2>2, PersistSafe DEF SubmitAccept, Record
<1>8. ASSUME LaunchTask(c)
      PROVE  SafeInv'
  BY <1>8, LaunchTaskSafe
<1>9. ASSUME SubmitLaunched(c)
      PROVE  SafeInv'
  <2>2. /\ pc[c] \in LockedSteps \cap RecordSteps /\ copy[c][cur[c]] \in Record
        /\ copy[c][cur[c]] \in Record
        /\ copy[c][cur[c]].state = "queued"
    BY <1>9, <1>0, SubmittedRecord
       DEF SubmitLaunched, IInv, SafeInv, LaunchInv, WritesClose
  <2> QED BY <1>9, <2>2, PersistSafe, SMTT(30) DEF SubmitLaunched, Record
<1>10. ASSUME SubmitUnknown(c)
      PROVE  SafeInv'
  <2>2. /\ pc[c] \in LockedSteps \cap RecordSteps /\ copy[c][cur[c]] \in Record
        /\ [copy[c][cur[c]] EXCEPT !.launchUnknown = TRUE] \in Record
        /\ copy[c][cur[c]].state = "queued"
    BY <1>10, <1>0, SubmittedRecord
       DEF SubmitUnknown, IInv, SafeInv, LaunchInv, WritesClose
  <2> QED BY <1>10, <2>2, PersistSafe, SMTT(30) DEF SubmitUnknown, Record
<1>11. ASSUME SubmitFailed(c)
      PROVE  SafeInv'
  <2>2. /\ pc[c] \in LockedSteps \cap RecordSteps /\ copy[c][cur[c]] \in Record
        /\ [copy[c][cur[c]] EXCEPT !.state = "needs_attention"] \in Record
    BY <1>11, <1>0, SubmittedRecord DEF SubmitFailed
  <2> QED BY <1>11, <2>2, PersistSafe, SMTT(30) DEF SubmitFailed, Record
<1> USE DEF SafeInv, IInv, TypeInv, TypeOK, CopiesHeld, LaunchInv, LockHeld,
            WritesClose, SubmitFirst, LaunchClosesOffer, MarkedIsOver,
            CleansMarked, CleaningIsOver, Quiet, JobHasTask, RemovedIsOver,
            Awaits, Marked, Over, QuietSteps, Unvisited, RecordSteps,
            CleaningSteps, CurSteps, LockedSteps, Locked, Stages, BrewStages
<1>12. ASSUME BeginRead(c)
      PROVE  SafeInv'
  BY <1>12 DEF BeginRead, Scan, Attends, Inflight, Terminal
<1>13. ASSUME BeginPrepare(c)
      PROVE  SafeInv'
  BY <1>13, HostAssumption DEF BeginPrepare, Scan, Attends, Inflight,
       Terminal
<1>14. ASSUME NEW t \in Tasks, NEW b \in BOOLEAN, SubmitLoad(c, t, b)
      PROVE  SafeInv'
  BY <1>14, HostAssumption DEF SubmitLoad, Submittable
<1>15. ASSUME NEW t \in Tasks, BootoutFails(c, t)
      PROVE  SafeInv'
  BY <1>15 DEF BootoutFails, Visiting, Skip
<1>16. ASSUME CleanupLoad(c)
      PROVE  SafeInv'
  BY <1>16 DEF CleanupLoad
<1>17. ASSUME AppendIndex(c)
      PROVE  SafeInv'
  BY <1>17 DEF AppendIndex
<1>18. ASSUME RemoveFiles(c) \/ RemoveDir(c)
      PROVE  SafeInv'
  <2>1. CASE RemoveFiles(c)
    BY <2>1 DEF RemoveFiles
  <2>2. CASE RemoveDir(c)
    BY <2>2 DEF RemoveDir
  <2> QED BY <1>18, <2>1, <2>2
<1>19. ASSUME EndRead(c)
      PROVE  SafeInv'
  BY <1>19 DEF EndRead
<1>20. ASSUME CheckActive(c)
      PROVE  SafeInv'
  BY <1>20 DEF CheckActive
<1>21. ASSUME NEW t \in Tasks, CreateTask(c, t)
      PROVE  SafeInv'
  BY <1>21 DEF CreateTask, Fresh, Offer, DirsInv
<1>22. ASSUME RefuseTarget(c)
      PROVE  SafeInv'
  BY <1>22 DEF RefuseTarget
<1>23. ASSUME Release(c)
      PROVE  SafeInv'
  BY <1>23, HostAssumption DEF Release, Forget, Freed
<1>24. ASSUME CallerDies(c)
      PROVE  SafeInv'
  BY <1>24, HostAssumption DEF CallerDies, Forget, Freed
<1> HIDE DEF SafeInv, IInv, TypeInv, TypeOK, CopiesHeld, LaunchInv, LockHeld,
             WritesClose, SubmitFirst, LaunchClosesOffer, MarkedIsOver,
             CleansMarked, CleaningIsOver, Quiet, JobHasTask, RemovedIsOver,
             Awaits, Marked, Over, QuietSteps, Unvisited, RecordSteps,
             CleaningSteps, CurSteps, LockedSteps, Locked, Stages, BrewStages
<1> QED BY <1>1, <1>2, <1>3, <1>4, <1>5, <1>6, <1>7, <1>8, <1>9, <1>10, <1>11,
        <1>12, <1>13, <1>14, <1>15, <1>16, <1>17, <1>18, <1>19, <1>20, <1>21,
        <1>22, <1>23, <1>24 DEF Calling, HandlerStep, Reconciling, Preparing,
        Submitting

\* Every step of a worker, of its commands and of time keeps the invariant.
LEMMA SafeWorker ==
  ASSUME IInv, NEW t \in Tasks,
         WorkerStep(t) \/ WorkerDies(t) \/ OrphanEnds(t) \/ Elapse(t)
  PROVE  SafeInv'
<1>1. ASSUME ReadyFails(t)
      PROVE  SafeInv'
  BY <1>1, AdvanceSafe
     DEF ReadyFails, QuietSteps, Locked, Stages, BrewStages
<1>2. ASSUME SnapshotStaged(t)
      PROVE  SafeInv'
  BY <1>2, AdvanceSafe
     DEF SnapshotStaged, QuietSteps, Locked, Stages, BrewStages
<1>3. ASSUME SnapshotFails(t)
      PROVE  SafeInv'
  BY <1>3, AdvanceSafe
     DEF SnapshotFails, QuietSteps, Locked, Stages, BrewStages
<1>4. ASSUME ServicePidRead(t)
      PROVE  SafeInv'
  BY <1>4, AdvanceSafe
     DEF ServicePidRead, QuietSteps, Locked, Stages, BrewStages
<1>5. ASSUME ServicePidFails(t)
      PROVE  SafeInv'
  BY <1>5, AdvanceSafe
     DEF ServicePidFails, QuietSteps, Locked, Stages, BrewStages
<1>6. ASSUME HealthProven(t)
      PROVE  SafeInv'
  BY <1>6, AdvanceSafe
     DEF HealthProven, QuietSteps, Locked, Stages, BrewStages
<1>7. ASSUME HealthUnproven(t)
      PROVE  SafeInv'
  BY <1>7, AdvanceSafe
     DEF HealthUnproven, QuietSteps, Locked, Stages, BrewStages
<1>8. ASSUME WriteReady(t)
      PROVE  SafeInv'
  <2>1. /\ wcopy[t] \in Record /\ [wcopy[t] EXCEPT !.workerPID = TRUE] \in Record
        /\ wpc[t] = "ready" /\ wcopy[t].state # "awaiting_confirmation"
    BY <1>8, WorkersRecord, NoRecordAssumption
       DEF WriteReady, IInv, SafeInv, LaunchInv, LaunchClosesOffer, Awaits
  <2>2. {"ready", "downloading"} \subseteq QuietSteps \cap Locked
    BY DEF QuietSteps, Locked, Stages, BrewStages
  <2> QED BY <1>8, <2>1, <2>2, WorkerSaveSafe DEF WriteReady, Record
<1>9. ASSUME EnterStage(t)
      PROVE  SafeInv'
  <2> DEFINE r == [wcopy[t] EXCEPT
                    !.state = StageState[wpc[t]],
                    !.cleanupPending = @ \/ wpc[t] = "succeeded"]
  <2>1. wpc[t] \in Stages /\ WorkerSave(t, r, StageWork[wpc[t]])
    BY <1>9 DEF EnterStage
  <2>2. wcopy[t] \in Record /\ r \in Record
    BY <2>1, WorkersRecord DEF IInv
  <2>3. r.state = StageState[wpc[t]]
    BY <2>2 DEF Record
  <2>4. r.cleanupPending = (wcopy[t].cleanupPending \/ wpc[t] = "succeeded")
    BY <2>2 DEF Record
  <2>5. r.state # "awaiting_confirmation"
    BY <2>1, <2>3, StageTables DEF Inflight
  <2>6. /\ StageWork[wpc[t]] \in Locked \cup {"release"}
        /\ StageWork[wpc[t]] \in QuietSteps => wpc[t] \in QuietSteps
        /\ wpc[t] \in Locked
        /\ wpc[t] = "succeeded" => StageWork[wpc[t]] = "release"
    BY <2>1, StageTables DEF Locked, StageWork
  <2> HIDE DEF r
  <2> QED BY <2>1, <2>2, <2>4, <2>5, <2>6, WorkerSaveSafe
<1>10. ASSUME UnknownSave(t)
      PROVE  SafeInv'
  <2>1. /\ wcopy[t] \in Record
        /\ [wcopy[t] EXCEPT !.state = "needs_attention"] \in Record
        /\ wpc[t] = "unknown_save"
    BY <1>10, WorkersRecord DEF UnknownSave, IInv
  <2>2. "release" \notin QuietSteps \cup Locked
    BY DEF QuietSteps, Locked, Stages, BrewStages
  <2> QED BY <1>10, <2>1, <2>2, WorkerSaveSafe DEF UnknownSave, Record
<1>11. ASSUME WorkerLoad(t)
      PROVE  SafeInv'
  BY <1>11, WorkerLoadSafe
<1>12. ASSUME WorkerDies(t)
      PROVE  SafeInv'
  BY <1>12, WorkerDiesSafe
<1> USE DEF SafeInv, IInv, TypeInv, TypeOK, CopiesHeld, LaunchInv, LockHeld,
            WritesClose, SubmitFirst, LaunchClosesOffer, MarkedIsOver,
            CleansMarked, CleaningIsOver, Quiet, JobHasTask, RemovedIsOver,
            Awaits, Marked, Over, QuietSteps, Unvisited, RecordSteps,
            CleaningSteps, CurSteps, LockedSteps, Locked, Stages, BrewStages
<1>13. ASSUME WorkerUnprobed(t)
      PROVE  SafeInv'
  BY <1>13 DEF WorkerUnprobed
<1>14. ASSUME WorkerBusy(t)
      PROVE  SafeInv'
  BY <1>14 DEF WorkerBusy
<1>15. ASSUME BrewStart(t)
      PROVE  SafeInv'
  BY <1>15 DEF BrewStart, AfterExitZero, AfterExitError
<1>16. ASSUME BrewSucceeds(t)
      PROVE  SafeInv'
  BY <1>16 DEF BrewSucceeds, BrewReturns, AfterExitZero, AfterExitError
<1>17. ASSUME BrewFails(t)
      PROVE  SafeInv'
  BY <1>17 DEF BrewFails, BrewReturns, AfterExitZero, AfterExitError
<1>18. ASSUME BrewTimesOut(t)
      PROVE  SafeInv'
  BY <1>18 DEF BrewTimesOut, BrewReturns, AfterExitZero, AfterExitError
<1>19. ASSUME BrewKilled(t)
      PROVE  SafeInv'
  BY <1>19 DEF BrewKilled, BrewReturns, AfterExitZero, AfterExitError
<1>20. ASSUME UnknownLoad(t)
      PROVE  SafeInv'
  BY <1>20 DEF UnknownLoad
<1>21. ASSUME WorkerRelease(t)
      PROVE  SafeInv'
  BY <1>21, HostAssumption DEF WorkerRelease, Freed
<1>22. ASSUME WorkerExit(t)
      PROVE  SafeInv'
  BY <1>22 DEF WorkerExit
<1>23. ASSUME OrphanEnds(t)
      PROVE  SafeInv'
  BY <1>23 DEF OrphanEnds
<1>24. ASSUME ConfirmWindowCloses(t)
      PROVE  SafeInv'
  BY <1>24 DEF ConfirmWindowCloses
<1>25. ASSUME LaunchWindowCloses(t)
      PROVE  SafeInv'
  BY <1>25 DEF LaunchWindowCloses
<1>26. ASSUME BudgetElapses(t)
      PROVE  SafeInv'
  BY <1>26 DEF BudgetElapses
<1> HIDE DEF SafeInv, IInv, TypeInv, TypeOK, CopiesHeld, LaunchInv, LockHeld,
             WritesClose, SubmitFirst, LaunchClosesOffer, MarkedIsOver,
             CleansMarked, CleaningIsOver, Quiet, JobHasTask, RemovedIsOver,
             Awaits, Marked, Over, QuietSteps, Unvisited, RecordSteps,
             CleaningSteps, CurSteps, LockedSteps, Locked, Stages, BrewStages
<1> QED BY <1>1, <1>2, <1>3, <1>4, <1>5, <1>6, <1>7, <1>8, <1>9, <1>10, <1>11,
        <1>12, <1>13, <1>14, <1>15, <1>16, <1>17, <1>18, <1>19, <1>20, <1>21,
        <1>22, <1>23, <1>24, <1>25, <1>26 DEF WorkerStep, Elapse

\* Every step keeps the invariant.
LEMMA SafeStep == IInv /\ [Next]_vars => SafeInv'
<1> SUFFICES ASSUME IInv, [Next]_vars PROVE SafeInv'
  OBVIOUS
<1>1. CASE UNCHANGED vars
  BY <1>1 DEF vars, IInv, SafeInv, LaunchInv, LockHeld, WritesClose, SubmitFirst,
     LaunchClosesOffer, MarkedIsOver, CleansMarked, CleaningIsOver, Quiet,
     JobHasTask, RemovedIsOver, Over, Unvisited
<1>2. CASE Next
  BY <1>2, SafeHandler, SafeWorker DEF Next
<1> QED BY <1>1, <1>2

\* Only Prepare makes a directory, together with its record; the removal takes
\* the record, of a launched task, before the directory; no write needs one
\* that is not there (state.go:135-163, 285).
LEMMA DirsStep == IInv /\ [Next]_vars => DirsInv'
<1> SUFFICES ASSUME IInv, [Next]_vars PROVE DirsInv'
  OBVIOUS
<1>1. /\ disk \in [Tasks -> Record \cup {NoRecord}] /\ launches \in [Tasks -> Nat]
      /\ \A t \in Tasks : /\ disk[t] # NoRecord => t \in dirs
                          /\ t \in dirs /\ launches[t] = 0 => disk[t] # NoRecord
  BY DEF IInv, TypeInv, TypeOK, DirsInv
<1>2. ASSUME UNCHANGED <<disk, dirs, launches>>
      PROVE  DirsInv'
  BY <1>1, <1>2 DEF DirsInv
<1>3. ASSUME NEW t \in Tasks, NEW r \in Record, Save(t, r),
             UNCHANGED <<dirs, launches>>
      PROVE  DirsInv'
  <2>1. r # NoRecord
    BY RecordWrites
  <2> QED BY <1>1, <1>3, <2>1 DEF Save, DirsInv
<1>4. ASSUME NEW c \in Callers, Calling(c) \/ HandlerStep(c) \/ CallerDies(c)
      PROVE  DirsInv'
  <2>1. CASE ReconcileSave(c)
    <3>1. cur[c] \in Tasks /\ copy[c][cur[c]] \in Record
      BY <2>1 DEF ReconcileSave, IInv, TypeInv, TypeOK, CopiesHeld, RecordSteps,
                  CurSteps
    <3> QED BY <1>3, <2>1, <3>1 DEF ReconcileSave
  <2>2. CASE \/ SubmitExpired(c) \/ SubmitAccept(c) \/ SubmitLaunched(c)
             \/ SubmitUnknown(c) \/ SubmitFailed(c)
    <3>1. /\ \E t \in Tasks, r \in Record : Save(t, r)
          /\ UNCHANGED <<dirs, launches>>
      BY <2>2, SubmittedRecord DEF IInv, SubmitExpired, SubmitAccept,
         SubmitLaunched, SubmitUnknown, SubmitFailed, Persist
    <3> QED BY <1>3, <3>1
  <2>3. ASSUME NEW t \in Tasks, CreateTask(c, t)
        PROVE  DirsInv'
    <3>1. Offer # NoRecord
      <4>1. Offer \in Record
        BY DEF Offer, Record, State
      <4> QED BY <4>1, NoRecordAssumption
    <3> QED BY <1>1, <2>3, <3>1 DEF CreateTask, DirsInv
  <2>4. CASE RemoveFiles(c)
    <3>1. cur[c] \in Tasks /\ launches[cur[c]] > 0
      BY <2>4 DEF RemoveFiles, IInv, SafeInv, LaunchInv, CleaningIsOver,
                  CleaningSteps, TypeInv, CopiesHeld, CurSteps
    <3> QED BY <1>1, <2>4, <3>1 DEF RemoveFiles, DirsInv
  <2>5. CASE RemoveDir(c)
    BY <1>1, <2>5 DEF RemoveDir, DirsInv
  <2>6. CASE LaunchTask(c)
    BY <1>1, <2>6 DEF LaunchTask, DirsInv
  <2>7. \/ UNCHANGED <<disk, dirs, launches>>
        \/ ReconcileSave(c)
        \/ SubmitExpired(c) \/ SubmitAccept(c) \/ SubmitLaunched(c)
        \/ SubmitUnknown(c) \/ SubmitFailed(c)
        \/ \E t \in Tasks : CreateTask(c, t)
        \/ RemoveFiles(c) \/ RemoveDir(c) \/ LaunchTask(c)
    BY <1>4 DEF Calling, HandlerStep, Reconciling, Preparing, Submitting,
       BeginRead, BeginPrepare, SubmitLoad, ExpireConfirmation, ReconcileLaunch,
       ReconcileInflight, BootoutJob, BootoutFails, CleanupLoad, AppendIndex,
       EndRead, CheckActive, RefuseTarget, Release, CallerDies
  <2> QED BY <1>2, <2>1, <2>2, <2>3, <2>4, <2>5, <2>6, <2>7
<1>5. ASSUME NEW t \in Tasks,
             WorkerStep(t) \/ WorkerDies(t) \/ OrphanEnds(t) \/ Elapse(t)
      PROVE  DirsInv'
  <2>1. CASE WriteReady(t) \/ EnterStage(t) \/ UnknownSave(t)
    <3>1. /\ \E r \in Record : Save(t, r)
          /\ UNCHANGED <<dirs, launches>>
      BY <2>1, WorkersRecord DEF IInv, WriteReady, EnterStage, UnknownSave,
         WorkerSave
    <3> QED BY <1>3, <3>1
  <2>2. \/ UNCHANGED <<disk, dirs, launches>>
        \/ WriteReady(t) \/ EnterStage(t) \/ UnknownSave(t)
    BY <1>5 DEF WorkerStep, Elapse, WorkerUnprobed, WorkerLoad, WorkerBusy,
       ReadyFails, SnapshotStaged, SnapshotFails, BrewStart,
       BrewSucceeds, BrewFails, BrewTimesOut, BrewKilled, ServicePidRead,
       ServicePidFails, HealthProven, HealthUnproven, UnknownLoad,
       WorkerRelease, WorkerExit, WorkerDies, OrphanEnds, ConfirmWindowCloses,
       LaunchWindowCloses, BudgetElapses, Advance, BrewReturns
  <2> QED BY <1>2, <2>1, <2>2
<1> QED BY <1>2, <1>4, <1>5 DEF Next, vars

\* The inductive invariant holds for every set of tasks and callers.
THEOREM Inductive == Spec => []IInv
<1>1. Init => IInv
  BY TypeInit, SafeInit DEF IInv, Init, DirsInv
<1>2. IInv /\ [Next]_vars => IInv'
  BY TypeStep, DirsStep, SafeStep DEF IInv
<1> QED BY <1>1, <1>2, PTL DEF Spec

-----------------------------------------------------------------------------
(* The properties.                                                         *)

\* Whatever handlers and workers overlap or die, a confirmed task is
\* bootstrapped at most once (Submit, launchTask).
THEOREM LaunchedAtMostOnce == Spec => []LaunchedOnce
<1>1. IInv => LaunchedOnce
  BY DEF IInv, SafeInv, LaunchInv, LaunchClosesOffer, LaunchedOnce
<1> QED BY Inductive, <1>1, PTL

\* At most one worker, Submit or Prepare is inside its critical section,
\* although a holder may die anywhere (lock.go, worker.go:48-57).
THEOREM LockExcludes == Spec => []LockExclusive
<1>1. IInv => LockExclusive
  BY DEF IInv, SafeInv, LockHeld, LockExclusive, Critical
<1> QED BY Inductive, <1>1, PTL

\* "Never a running job without a task" (manager.go:260-265): the record of a
\* loaded job exists and is past confirmation.
THEOREM JobsHaveTasks == Spec => []JobHasTask
<1>1. IInv => JobHasTask
  BY DEF IInv, SafeInv, LaunchInv
<1> QED BY Inductive, <1>1, PTL

\* The two-phase cleanup removes a task only when its job is gone, its worker
\* has ended and no command of it runs (state.go:262-286).
THEOREM RemovedTasksAreOver == Spec => []RemovedIsOver
<1>1. IInv => RemovedIsOver
  BY DEF IInv, SafeInv, LaunchInv
<1> QED BY Inductive, <1>1, PTL

-----------------------------------------------------------------------------
(* UpgradeHost implements UpgradeAttempt.                                  *)

\* A task stays where it is while its launches, its directory, its process and
\* its hold of the lock do.
LEMMA StageStays ==
  ASSUME NEW u \in Tasks,
         launches'[u] = launches[u],
         (disk'[u] = NoRecord) <=> (disk[u] = NoRecord),
         wpc'[u] = wpc[u],
         wpc[u] \in Alive => ((lock' = u) <=> (lock = u))
  PROVE  StageOf(u)' = StageOf(u)
BY DEF StageOf

\* No task moves and no command starts or ends: the promise stutters.
LEMMA AttemptStutters ==
  ASSUME \A u \in Tasks : StageOf(u)' = StageOf(u), brew' = brew
  PROVE  UNCHANGED Attempt!vars
<1>1. [u \in Tasks |-> StageOf(u)]' = [u \in Tasks |-> StageOf(u)]
  OBVIOUS
<1>2. {u \in Tasks : brew[u]}' = {u \in Tasks : brew[u]}
  OBVIOUS
<1> QED BY <1>1, <1>2 DEF Attempt!vars

\* One task moves and no command starts or ends.
LEMMA AttemptPasses ==
  ASSUME NEW t \in Tasks, NEW to, StageOf(t)' = to, brew' = brew,
         \A u \in Tasks \ {t} : StageOf(u)' = StageOf(u)
  PROVE  Attempt!Pass(t, to)
<1>1. [u \in Tasks |-> StageOf(u)]'
         = [[u \in Tasks |-> StageOf(u)] EXCEPT ![t] = to]
  OBVIOUS
<1>2. {u \in Tasks : brew[u]}' = {u \in Tasks : brew[u]}
  OBVIOUS
<1> QED BY <1>1, <1>2 DEF Attempt!Pass

\* A command of one task starts or ends, or both flags agree; nobody moves.
LEMMA AttemptCommand ==
  ASSUME TypeInv, NEW t \in Tasks, NEW b \in BOOLEAN,
         brew' = [brew EXCEPT ![t] = b],
         \A u \in Tasks : StageOf(u)' = StageOf(u),
         b /\ ~brew[t] => StageOf(t) = "working"
  PROVE  Attempt!CommandStarts(t) \/ Attempt!CommandEnds(t)
           \/ UNCHANGED Attempt!vars
<1>1. [u \in Tasks |-> StageOf(u)]' = [u \in Tasks |-> StageOf(u)]
  OBVIOUS
<1>2. brew \in [Tasks -> BOOLEAN]
  BY DEF TypeInv, TypeOK
<1>3. CASE ~b
  <2>1. {u \in Tasks : brew[u]}' = {u \in Tasks : brew[u]} \ {t}
    BY <1>2, <1>3
  <2> QED BY <1>1, <2>1 DEF Attempt!CommandEnds
<1>4. CASE b /\ brew[t]
  <2>1. {u \in Tasks : brew[u]}' = {u \in Tasks : brew[u]}
    BY <1>2, <1>4
  <2> QED BY <1>1, <2>1 DEF Attempt!vars
<1>5. CASE b /\ ~brew[t]
  <2>1. {u \in Tasks : brew[u]}' = {u \in Tasks : brew[u]} \cup {t}
    BY <1>2, <1>5
  <2>2. [u \in Tasks |-> StageOf(u)][t] = "working"
    BY <1>5
  <2> QED BY <1>1, <2>1, <2>2 DEF Attempt!CommandStarts
<1> QED BY <1>3, <1>4, <1>5

\* What the invariant says of a task with a worker process.
LEMMA WorkersStage ==
  ASSUME IInv, NEW t \in Tasks, wpc[t] \in Alive
  PROVE  /\ launches[t] # 0 /\ disk[t] # NoRecord
         /\ wpc[t] = "boot" => StageOf(t) = "launched"
         /\ wpc[t] \in Locked => StageOf(t) = "working"
         /\ wpc[t] # "boot" => StageOf(t) = IF lock = t THEN "working" ELSE "ended"
<1>1. launches[t] # 0 /\ disk[t] # NoRecord
  BY DEF IInv, SafeInv, LaunchInv, LaunchClosesOffer, RemovedIsOver, TypeInv,
     TypeOK, Alive, Locked, Recording, Stages, BrewStages
<1>2. wpc[t] \in Locked => lock = t /\ wpc[t] # "boot"
  BY DEF IInv, SafeInv, LockHeld, Locked, Stages, BrewStages
<1>3. wpc[t] # "none"
  BY DEF Alive, Locked, Recording, Stages, BrewStages
<1> QED BY <1>1, <1>2, <1>3 DEF StageOf

\* The worker of t makes a step that touches no other task.
LEMMA WorkerMoves ==
  ASSUME IInv, NEW t \in Tasks, NEW step \in Alive \ {"boot"},
         wpc[t] \in Alive \ {"boot"}, wpc' = [wpc EXCEPT ![t] = step],
         lock' = lock, launches' = launches,
         \A u \in Tasks : (disk'[u] = NoRecord) <=> (disk[u] = NoRecord)
  PROVE  \A u \in Tasks : StageOf(u)' = StageOf(u)
<1>1. wpc \in [Tasks -> WorkerSteps]
  BY DEF IInv, TypeInv, TypeOK
<1>2. \A u \in Tasks \ {t} : StageOf(u)' = StageOf(u)
  BY <1>1, StageStays
<1>3. step \notin {"none", "boot"} /\ wpc[t] \notin {"none", "boot"}
  BY DEF Alive, Locked, Recording, Stages, BrewStages
<1>4. wpc'[t] = step
  BY <1>1
<1>5. StageOf(t)' = StageOf(t)
  BY <1>3, <1>4 DEF StageOf
<1> QED BY <1>2, <1>5

\* The worker of t is over, or never gets the lock.
LEMMA WorkerEnds ==
  ASSUME IInv, NEW t \in Tasks, NEW step \in WorkerSteps \ {"none", "boot"},
         wpc[t] \in Alive, wpc' = [wpc EXCEPT ![t] = step],
         lock' # t \/ step = "exited",
         \A u \in Tasks \ {t} : (lock' = u) <=> (lock = u),
         launches' = launches, brew' = brew, disk' = disk
  PROVE  [Attempt!Next]_(Attempt!vars)
<1>1. wpc \in [Tasks -> WorkerSteps]
  BY DEF IInv, TypeInv, TypeOK
<1>2. \A u \in Tasks \ {t} : StageOf(u)' = StageOf(u)
  BY <1>1, StageStays
<1>3. launches[t] # 0 /\ disk[t] # NoRecord
  BY WorkersStage
<1>4. StageOf(t)' = "ended"
  <2>1. wpc'[t] = step /\ "exited" \notin Alive
    BY <1>1 DEF Alive, Locked, Recording, Stages, BrewStages
  <2> QED BY <1>3, <2>1 DEF StageOf
<1>5. StageOf(t) \in {"launched", "working", "ended"}
  BY WorkersStage
<1>6. CASE StageOf(t) = "ended"
  BY <1>2, <1>4, <1>6, AttemptStutters
<1>7. CASE StageOf(t) \in {"launched", "working"}
  <2>1. Attempt!Pass(t, "ended")
    BY <1>2, <1>4, AttemptPasses
  <2>2. [u \in Tasks |-> StageOf(u)][t] \in {"launched", "working"}
    BY <1>7
  <2>3. Attempt!End(t)
    BY <2>1, <2>2 DEF Attempt!End
  <2> QED BY <2>3 DEF Attempt!Next
<1> QED BY <1>5, <1>6, <1>7

\* The worker of t gets past its start with the lock in its hands.
LEMMA WorkerWorks ==
  ASSUME IInv, NEW t \in Tasks, NEW step \in Alive \ {"boot"},
         wpc[t] = "boot", wpc' = [wpc EXCEPT ![t] = step],
         lock \in {Nobody, t}, lock' = t,
         launches' = launches, brew' = brew, disk' = disk
  PROVE  [Attempt!Next]_(Attempt!vars)
<1>1. wpc \in [Tasks -> WorkerSteps] /\ wpc[t] \in Alive
  BY DEF IInv, TypeInv, TypeOK, Alive
<1>2. \A u \in Tasks \ {t} : StageOf(u)' = StageOf(u)
  BY <1>1, HostAssumption, StageStays
<1>3. launches[t] # 0 /\ disk[t] # NoRecord /\ StageOf(t) = "launched"
  BY <1>1, WorkersStage
<1>4. step \notin {"none", "boot"} /\ wpc'[t] = step
  BY <1>1 DEF Alive, Locked, Recording, Stages, BrewStages
<1>5. StageOf(t)' = "working"
  BY <1>3, <1>4 DEF StageOf
<1>6. Attempt!Pass(t, "working")
  BY <1>2, <1>5, AttemptPasses
<1>7. \A u \in Tasks : StageOf(u) # "working"
  BY <1>3, HostAssumption DEF StageOf
<1>8. \A u \in Tasks : [v \in Tasks |-> StageOf(v)][u] # "working"
  BY <1>7
<1>9. [v \in Tasks |-> StageOf(v)][t] = "launched"
  BY <1>3
<1>10. Attempt!Work(t)
  BY <1>6, <1>8, <1>9 DEF Attempt!Work
<1> QED BY <1>10 DEF Attempt!Next

\* A step that starts or ends no command and moves no task at all.
LEMMA HostIdles ==
  ASSUME IInv, wpc' = wpc, launches' = launches, brew' = brew,
         \A u \in Tasks : /\ (disk'[u] = NoRecord) <=> (disk[u] = NoRecord)
                          /\ (lock' = u) <=> (lock = u)
  PROVE  UNCHANGED Attempt!vars
<1>1. \A u \in Tasks : StageOf(u)' = StageOf(u)
  BY StageStays
<1> QED BY <1>1, AttemptStutters

\* Save over a record neither makes nor removes one.
LEMMA SaveKeeps ==
  ASSUME IInv, NEW t \in Tasks, NEW r \in Record, disk[t] # NoRecord, Save(t, r)
  PROVE  \A u \in Tasks : (disk'[u] = NoRecord) <=> (disk[u] = NoRecord)
<1>1. r # NoRecord
  BY RecordWrites
<1> QED BY <1>1 DEF Save, IInv, DirsInv, TypeInv, TypeOK

\* A handler's Save keeps the stage of the task, or brings back the record of
\* one that is over.
LEMMA SavePasses ==
  ASSUME IInv, NEW t \in Tasks, NEW r \in Record, Save(t, r),
         UNCHANGED <<lock, wpc, launches, brew>>
  PROVE  [Attempt!Next]_(Attempt!vars)
<1>1. CASE disk[t] # NoRecord
  BY <1>1, SaveKeeps, HostIdles
<1>2. CASE disk[t] = NoRecord /\ t \notin dirs
  BY <1>2, HostIdles DEF Save
<1>3. CASE disk[t] = NoRecord /\ t \in dirs
  <2>1. launches[t] # 0 /\ wpc[t] = "exited"
    BY <1>3 DEF IInv, DirsInv, SafeInv, LaunchInv, RemovedIsOver, TypeInv, TypeOK
  <2>2. r # NoRecord
    BY RecordWrites
  <2>3. disk'[t] = r /\ \A u \in Tasks \ {t} : disk'[u] = disk[u]
    BY <1>3 DEF Save, IInv, TypeInv, TypeOK
  <2>4. \A u \in Tasks \ {t} : StageOf(u)' = StageOf(u)
    BY <2>3, StageStays
  <2>5. StageOf(t) = "removed" /\ StageOf(t)' = "ended"
    BY <1>3, <2>1, <2>2, <2>3 DEF StageOf, Alive, Locked, Recording, Stages,
                                  BrewStages
  <2>6. Attempt!Pass(t, "ended")
    BY <2>4, <2>5, AttemptPasses
  <2>7. [u \in Tasks |-> StageOf(u)][t] = "removed"
    BY <2>5
  <2>8. Attempt!Return(t)
    BY <2>6, <2>7 DEF Attempt!Return
  <2> QED BY <2>8 DEF Attempt!Next
<1> QED BY <1>1, <1>2, <1>3

\* Every step of a handler is a step of the promise.
LEMMA AttemptHandler ==
  ASSUME IInv, NEW c \in Callers, Calling(c) \/ HandlerStep(c) \/ CallerDies(c)
  PROVE  [Attempt!Next]_(Attempt!vars)
<1> USE DEF IInv
<1>1. CASE BeginRead(c) \/ CleanupLoad(c) \/ AppendIndex(c) \/ EndRead(c)
           \/ RemoveDir(c) \/ CheckActive(c) \/ RefuseTarget(c)
           \/ \E t \in Tasks : \/ ExpireConfirmation(c, t)
                               \/ ReconcileLaunch(c, t)
                               \/ ReconcileInflight(c, t)
                               \/ BootoutFails(c, t)
  <2>1. UNCHANGED <<disk, lock, wpc, launches, brew>>
    BY <1>1 DEF BeginRead, CleanupLoad, AppendIndex, EndRead, RemoveDir,
       CheckActive, RefuseTarget, ExpireConfirmation, ReconcileLaunch, ReconcileInflight,
       BootoutFails
  <2> QED BY <2>1, HostIdles
<1>2. CASE BeginPrepare(c) \/ Release(c) \/ CallerDies(c)
           \/ \E t \in Tasks, b \in BOOLEAN : SubmitLoad(c, t, b)
  <2>1. UNCHANGED <<disk, wpc, launches, brew>>
    BY <1>2 DEF BeginPrepare, Release, CallerDies, SubmitLoad
  <2>2. \A u \in Tasks : (lock' = u) <=> (lock = u)
    BY <1>2, HostAssumption DEF BeginPrepare, Release, CallerDies, SubmitLoad,
       Forget, Freed
  <2> QED BY <2>1, <2>2, HostIdles
<1>3. CASE ReconcileSave(c)
  <2>1. cur[c] \in Tasks /\ copy[c][cur[c]] \in Record
    BY <1>3 DEF ReconcileSave, TypeInv, TypeOK, CopiesHeld, RecordSteps, CurSteps
  <2>2. /\ Save(cur[c], copy[c][cur[c]])
        /\ UNCHANGED <<lock, wpc, launches, brew>>
    BY <1>3 DEF ReconcileSave
  <2> QED BY <2>1, <2>2, SavePasses
<1>4. CASE \/ SubmitExpired(c) \/ SubmitAccept(c) \/ SubmitLaunched(c)
           \/ SubmitUnknown(c) \/ SubmitFailed(c)
  <2>1. PICK r \in Record : Save(cur[c], r) /\ cur[c] \in Tasks
    BY <1>4, SubmittedRecord DEF SubmitExpired, SubmitAccept, SubmitLaunched,
       SubmitUnknown, SubmitFailed, Persist
  <2>2. UNCHANGED <<lock, wpc, launches, brew>>
    BY <1>4 DEF SubmitExpired, SubmitAccept, SubmitLaunched, SubmitUnknown,
       SubmitFailed, Persist
  <2> QED BY <2>1, <2>2, SavePasses, SMTT(30)
<1>5. ASSUME NEW t \in Tasks, CreateTask(c, t)
      PROVE  [Attempt!Next]_(Attempt!vars)
  <2>1. Offer # NoRecord
    <3>1. Offer \in Record
      BY DEF Offer, Record, State
    <3> QED BY <3>1, NoRecordAssumption
  <2>2. /\ disk[t] = NoRecord /\ launches[t] = 0 /\ disk'[t] = Offer
        /\ \A u \in Tasks \ {t} : disk'[u] = disk[u]
        /\ UNCHANGED <<lock, wpc, launches, brew>>
    BY <1>5 DEF CreateTask, Fresh, DirsInv, TypeInv, TypeOK
  <2>3. \A u \in Tasks \ {t} : StageOf(u)' = StageOf(u)
    BY <2>2, StageStays
  <2>4. StageOf(t) = "unknown" /\ StageOf(t)' = "offered"
    BY <2>1, <2>2 DEF StageOf
  <2>5. Attempt!Pass(t, "offered")
    BY <2>2, <2>3, <2>4, AttemptPasses
  <2>6. [u \in Tasks |-> StageOf(u)][t] = "unknown"
    BY <2>4
  <2>7. Attempt!Prepare(t)
    BY <2>5, <2>6 DEF Attempt!Prepare
  <2> QED BY <2>7 DEF Attempt!Next
<1>6. CASE LaunchTask(c)
  <2>1. PICK t \in Tasks : /\ t = cur[c] /\ launches[t] = 0
                           /\ disk[t] # NoRecord /\ lock = c /\ wpc[t] = "none"
    BY <1>6 DEF LaunchTask, SafeInv, LaunchInv, SubmitFirst, LaunchClosesOffer,
       LockHeld, LockedSteps, TypeInv, CopiesHeld, RecordSteps, CurSteps
  <2>2. /\ UNCHANGED <<disk, lock, brew>>
        /\ \A u \in Tasks \ {t} : launches'[u] = launches[u] /\ wpc'[u] = wpc[u]
    BY <1>6, <2>1 DEF LaunchTask, TypeInv, TypeOK
  <2>3. \A u \in Tasks \ {t} : StageOf(u)' = StageOf(u)
    BY <2>2, StageStays
  <2>4. CASE UNCHANGED <<launches, wpc>>
    BY <2>2, <2>4, HostIdles
  <2>5. CASE launches' = [launches EXCEPT ![t] = @ + 1]
    <3>1. launches'[t] = 1 /\ wpc'[t] \in {"none", "boot"}
      BY <1>6, <2>1, <2>5 DEF LaunchTask, TypeInv, TypeOK
    <3>2. StageOf(t) = "offered" /\ StageOf(t)' = "launched"
      BY <2>1, <2>2, <3>1 DEF StageOf
    <3>3. Attempt!Pass(t, "launched")
      BY <2>1, <2>2, <2>3, <3>2, AttemptPasses
    <3>4. [u \in Tasks |-> StageOf(u)][t] = "offered"
      BY <2>1, <3>2
    <3>5. Attempt!Launch(t)
      BY <3>3, <3>4 DEF Attempt!Launch
    <3> QED BY <2>1, <3>5 DEF Attempt!Next
  <2> QED BY <1>6, <2>1, <2>4, <2>5 DEF LaunchTask
<1>7. CASE RemoveFiles(c)
  <2>1. PICK t \in Tasks : /\ t = cur[c] /\ launches[t] # 0
                           /\ wpc[t] = "exited" /\ ~brew[t]
    BY <1>7 DEF RemoveFiles, SafeInv, LaunchInv, CleaningIsOver, CleaningSteps,
       TypeInv, TypeOK, CopiesHeld, CurSteps
  <2>2. /\ UNCHANGED <<lock, wpc, launches, brew>>
        /\ disk'[t] = NoRecord /\ \A u \in Tasks \ {t} : disk'[u] = disk[u]
    BY <1>7, <2>1 DEF RemoveFiles, TypeInv, TypeOK
  <2>3. \A u \in Tasks \ {t} : StageOf(u)' = StageOf(u)
    BY <2>2, StageStays
  <2>4. CASE disk[t] = NoRecord
    BY <2>2, <2>4, HostIdles
  <2>5. CASE disk[t] # NoRecord
    <3>1. StageOf(t) = "ended" /\ StageOf(t)' = "removed"
      BY <2>1, <2>2, <2>5 DEF StageOf, Alive, Locked, Recording, Stages, BrewStages
    <3>2. Attempt!Pass(t, "removed")
      BY <2>1, <2>2, <2>3, <3>1, AttemptPasses
    <3>3. [u \in Tasks |-> StageOf(u)][t] = "ended" /\ t \notin {u \in Tasks : brew[u]}
      BY <2>1, <3>1
    <3>4. Attempt!Remove(t)
      BY <3>2, <3>3 DEF Attempt!Remove
    <3> QED BY <2>1, <3>4 DEF Attempt!Next
  <2> QED BY <2>4, <2>5
<1>8. ASSUME NEW t \in Tasks, BootoutJob(c, t)
      PROVE  [Attempt!Next]_(Attempt!vars)
  <2>1. CASE wpc[t] \in Alive
    <3>1. /\ wpc' = [wpc EXCEPT ![t] = "exited"]
          /\ lock' = IF lock = t THEN Nobody ELSE lock
          /\ UNCHANGED <<disk, launches, brew>>
      BY <1>8, <2>1 DEF BootoutJob, Freed
    <3>2. lock' # t /\ \A u \in Tasks \ {t} : (lock' = u) <=> (lock = u)
      BY <3>1, HostAssumption
    <3> QED BY <2>1, <3>1, <3>2, WorkerEnds DEF WorkerSteps
  <2>2. CASE wpc[t] \notin Alive
    BY <1>8, <2>2, HostIdles DEF BootoutJob
  <2> QED BY <2>1, <2>2
<1> QED BY <1>1, <1>2, <1>3, <1>4, <1>5, <1>6, <1>7, <1>8 DEF Calling, HandlerStep,
        Reconciling, Preparing, Submitting

\* Every step of a worker, its death, and every step of commands and time is a
\* step of the promise.
LEMMA AttemptWorker ==
  ASSUME IInv, NEW t \in Tasks,
         WorkerStep(t) \/ WorkerDies(t) \/ OrphanEnds(t) \/ Elapse(t)
  PROVE  [Attempt!Next]_(Attempt!vars)
<1>1. CASE WriteReady(t) \/ EnterStage(t) \/ UnknownSave(t)
  <2>1. PICK r \in Record, step \in Alive \ {"boot"} : WorkerSave(t, r, step)
    <3>1. StageWork[wpc[t]] \in Alive \ {"boot"} \/ wpc[t] \notin Stages
      BY StageTables DEF Alive, Recording, Locked, Stages, BrewStages
    <3> QED BY <1>1, <3>1, WorkersRecord DEF IInv, WriteReady, EnterStage,
            UnknownSave, Alive, Recording, Locked, Stages, BrewStages
  <2>3. wpc[t] \in Alive \ {"boot"}
    BY <1>1 DEF WriteReady, EnterStage, UnknownSave, Alive, Recording, Locked,
       Stages, BrewStages
  <2>2. \A u \in Tasks : (disk'[u] = NoRecord) <=> (disk[u] = NoRecord)
    BY <2>1, <2>3, WorkersStage, SaveKeeps DEF WorkerSave
  <2>4. /\ wpc' = [wpc EXCEPT ![t] = step]
        /\ UNCHANGED <<lock, launches, brew>>
    BY <2>1 DEF WorkerSave
  <2>5. \A u \in Tasks : StageOf(u)' = StageOf(u)
    BY <2>2, <2>3, <2>4, WorkerMoves
  <2> QED BY <2>4, <2>5, AttemptStutters
<1>2. CASE \/ ReadyFails(t) \/ SnapshotStaged(t) \/ SnapshotFails(t)
           \/ ServicePidRead(t) \/ ServicePidFails(t)
           \/ HealthProven(t) \/ HealthUnproven(t) \/ UnknownLoad(t)
  <2>1. PICK step \in Alive \ {"boot"} : wpc' = [wpc EXCEPT ![t] = step]
    BY <1>2 DEF ReadyFails, SnapshotStaged, SnapshotFails, ServicePidRead,
       ServicePidFails, HealthProven, HealthUnproven, UnknownLoad, Advance,
       Alive, Recording, Locked, Stages, BrewStages
  <2>2. wpc[t] \in Alive \ {"boot"}
    BY <1>2 DEF ReadyFails, SnapshotStaged, SnapshotFails, ServicePidRead,
       ServicePidFails, HealthProven, HealthUnproven, UnknownLoad, Advance,
       Alive, Recording, Locked, Stages, BrewStages
  <2>3. UNCHANGED <<disk, lock, launches, brew>>
    BY <1>2 DEF ReadyFails, SnapshotStaged, SnapshotFails, ServicePidRead,
       ServicePidFails, HealthProven, HealthUnproven, UnknownLoad, Advance
  <2>4. \A u \in Tasks : StageOf(u)' = StageOf(u)
    BY <2>1, <2>2, <2>3, WorkerMoves
  <2> QED BY <2>3, <2>4, AttemptStutters
<1>3. CASE BrewSucceeds(t) \/ BrewFails(t) \/ BrewTimesOut(t) \/ BrewKilled(t)
  <2>1. /\ "unknown" \in Alive \ {"boot"}
        /\ \A s \in BrewStages : /\ AfterExitZero[s] \in Alive \ {"boot"}
                                /\ AfterExitError[s] \in Alive \ {"boot"}
    BY DEF AfterExitZero, AfterExitError, Alive, Recording, Locked, Stages,
       BrewStages
  <2>5. \E step \in Alive \ {"boot"}, b \in BOOLEAN : BrewReturns(t, step, b)
    <3>1. CASE BrewSucceeds(t)
      BY <2>1, <3>1 DEF BrewSucceeds
    <3>2. CASE BrewFails(t)
      BY <2>1, <3>2 DEF BrewFails
    <3>3. CASE BrewTimesOut(t)
      BY <2>1, <3>3 DEF BrewTimesOut
    <3>4. CASE BrewKilled(t)
      BY <2>1, <3>4 DEF BrewKilled
    <3> QED BY <1>3, <3>1, <3>2, <3>3, <3>4
  <2>6. PICK step \in Alive \ {"boot"}, b \in BOOLEAN : BrewReturns(t, step, b)
    BY <2>5
  <2>2. wpc[t] \in Alive \ {"boot"} /\ brew[t]
    BY <2>6 DEF BrewReturns, Alive, Locked, BrewStages
  <2>3. /\ wpc' = [wpc EXCEPT ![t] = step] /\ brew' = [brew EXCEPT ![t] = b]
        /\ UNCHANGED <<disk, lock, launches>>
    BY <2>6 DEF BrewReturns
  <2>4. \A u \in Tasks : StageOf(u)' = StageOf(u)
    BY <2>2, <2>3, WorkerMoves
  <2> QED BY <2>2, <2>3, <2>4, AttemptCommand DEF IInv, Attempt!Next
<1>4. CASE BrewStart(t)
  <2>1. /\ brew' = [brew EXCEPT ![t] = TRUE] /\ wpc[t] \in Locked
        /\ UNCHANGED <<disk, lock, launches, wpc>>
    BY <1>4 DEF BrewStart, Locked
  <2>2. StageOf(t) = "working"
    BY <2>1, WorkersStage DEF Alive
  <2>3. \A u \in Tasks : StageOf(u)' = StageOf(u)
    BY <2>1, StageStays
  <2> QED BY <2>1, <2>2, <2>3, AttemptCommand DEF IInv, Attempt!Next
<1>5. CASE OrphanEnds(t)
  <2>1. brew' = [brew EXCEPT ![t] = FALSE] /\ UNCHANGED <<disk, lock, launches, wpc>>
    BY <1>5 DEF OrphanEnds
  <2>2. \A u \in Tasks : StageOf(u)' = StageOf(u)
    BY <2>1, StageStays
  <2> QED BY <2>1, <2>2, AttemptCommand DEF IInv, Attempt!Next
<1>6. CASE Elapse(t)
  <2>1. UNCHANGED <<disk, lock, launches, wpc, brew>>
    BY <1>6 DEF Elapse, ConfirmWindowCloses, LaunchWindowCloses, BudgetElapses
  <2> QED BY <2>1, HostIdles
<1>7. CASE \/ WorkerUnprobed(t) \/ WorkerRelease(t) \/ WorkerExit(t)
           \/ WorkerDies(t) \/ (WorkerBusy(t) /\ lock # t)
  <2>1. PICK step \in {"exited", "unknown", "leaving"} :
          /\ wpc' = [wpc EXCEPT ![t] = step]
          /\ step = "exited" \/ lock' # t
          /\ \A u \in Tasks \ {t} : (lock' = u) <=> (lock = u)
    BY <1>7, HostAssumption DEF WorkerUnprobed, WorkerRelease, WorkerExit,
       WorkerDies, WorkerBusy, Freed
  <2>2. wpc[t] \in Alive /\ UNCHANGED <<disk, launches, brew>>
    BY <1>7 DEF WorkerUnprobed, WorkerRelease, WorkerExit, WorkerDies, WorkerBusy,
       Alive, Recording
  <2>3. step \in WorkerSteps \ {"none", "boot"}
    BY DEF WorkerSteps, Alive, Recording
  <2> QED BY <2>1, <2>2, <2>3, WorkerEnds
<1>8. CASE WorkerBusy(t) /\ lock = t
  <2>1. "unknown" \in Alive \ {"boot"}
    BY DEF Alive, Recording
  <2> QED BY <1>8, <2>1, WorkerWorks DEF WorkerBusy
<1>9. CASE WorkerLoad(t)
  <2>1. lock = Nobody /\ wpc[t] = "boot" /\ UNCHANGED <<disk, launches, brew>>
    BY <1>9 DEF WorkerLoad, LockFree
  <2>2. CASE lock' = t /\ wpc' = [wpc EXCEPT ![t] = "ready"]
    <3>1. "ready" \in Alive \ {"boot"}
      BY DEF Alive, Locked
    <3> QED BY <2>1, <2>2, <3>1, WorkerWorks
  <2>3. CASE lock' = lock /\ wpc' = [wpc EXCEPT ![t] = "leaving"]
    <3>1. "leaving" \in WorkerSteps \ {"none", "boot"} /\ wpc[t] \in Alive
      BY <2>1 DEF WorkerSteps, Alive
    <3> QED BY <2>1, <2>3, <3>1, HostAssumption, WorkerEnds
  <2> QED BY <1>9, <2>2, <2>3 DEF WorkerLoad
<1>10. CASE WorkerStep(t)
  <2> DEFINE Goal == [Attempt!Next]_(Attempt!vars)
  <2>1. /\ WriteReady(t) \/ EnterStage(t) \/ UnknownSave(t) => Goal
        /\ WorkerUnprobed(t) \/ WorkerRelease(t) \/ WorkerExit(t) => Goal
        /\ WorkerBusy(t) \/ WorkerLoad(t) \/ BrewStart(t) => Goal
    BY <1>1, <1>4, <1>7, <1>8, <1>9
  <2>2. /\ BrewSucceeds(t) \/ BrewFails(t) \/ BrewTimesOut(t) \/ BrewKilled(t)
             => Goal
        /\ (\/ ReadyFails(t) \/ SnapshotStaged(t) \/ SnapshotFails(t)
            \/ ServicePidRead(t) \/ ServicePidFails(t)
            \/ HealthProven(t) \/ HealthUnproven(t) \/ UnknownLoad(t)) => Goal
    BY <1>2, <1>3
  <2> HIDE DEF Goal
  <2>3. Goal
    BY <1>10, <2>1, <2>2 DEF WorkerStep
  <2> QED BY <2>3 DEF Goal
<1> QED BY <1>5, <1>6, <1>7, <1>10

\* The upgrader keeps its promise (UpgradeAttempt): whatever handlers, crashes
\* and stale records do, a task is launched at most once, works at most once
\* and alone, and is removed only when nothing of it can be running.
THEOREM UpgraderKeepsPromise == Spec => KeepsPromise
<1>1. Init => Attempt!Init
  BY DEF Init, Attempt!Init, StageOf
<1>2. IInv /\ [Next]_vars => [Attempt!Next]_(Attempt!vars)
  <2>1. ASSUME IInv, UNCHANGED vars PROVE UNCHANGED Attempt!vars
    BY <2>1, HostIdles DEF vars
  <2>2. ASSUME IInv, Next PROVE [Attempt!Next]_(Attempt!vars)
    BY <2>2, AttemptHandler, AttemptWorker DEF Next
  <2> QED BY <2>1, <2>2
<1> QED BY Inductive, <1>1, <1>2, PTL DEF Spec, Attempt!Spec, KeepsPromise

-----------------------------------------------------------------------------
(* Outcomes.  Nothing is assumed of the handlers here, stale or not.       *)

Ended == {"succeeded", "failed"}
Past  == {"release", "leaving", "exited"}

Claims(r, S) == r # NoRecord /\ r.state \in S

\* Only a worker writes an outcome, it is the last thing it writes, and, unless
\* a signal may have ended the command, no command runs by then.
OutcomeInv ==
    /\ \A t \in Tasks : Claims(disk[t], Ended) => wpc[t] \in Past
    /\ ~SignalDeaths =>
         \A t \in Tasks : Claims(disk[t], Ended) \/ wpc[t] = "failed" => ~brew[t]
    /\ \A t \in Tasks : wpc[t] = "ready" => wcopy[t].state = "queued"
    /\ \A c \in Callers : pc[c] = "save" => copy[c][cur[c]].state \notin Ended

\* A reconcile that decides on a record claims no outcome.
LEMMA DecideOutcome ==
  ASSUME IInv, OutcomeInv, NEW c \in Callers, NEW t \in Tasks, NEW r \in Record,
         r.state \notin Ended, Decide(c, t, r),
         UNCHANGED <<store, lock, time, overdue, icopy, worker, launchd, brew>>
  PROVE  OutcomeInv'
BY DEF Decide, IInv, TypeInv, TypeOK, OutcomeInv, Claims

\* Passing over a record changes nothing that is stored.
LEMMA SkipOutcome ==
  ASSUME IInv, OutcomeInv, NEW c \in Callers, NEW t \in Tasks, Visiting(c, t),
         Skip(c, t),
         UNCHANGED <<store, lock, time, overdue, icopy, worker, launchd, brew>>
  PROVE  OutcomeInv'
BY DEF Skip, Visiting, IInv, TypeInv, TypeOK, OutcomeInv, Claims

\* Neither does a Submit.
LEMMA PersistOutcome ==
  ASSUME IInv, OutcomeInv, NEW c \in Callers, NEW r \in Record,
         NEW step \in {"launch", "launch_failed", "release"},
         pc[c] \in LockedSteps \cap RecordSteps,
         r.state \notin Ended, Persist(c, r, step)
  PROVE  OutcomeInv'
<1>1. \A t \in Tasks : disk'[t] = disk[t] \/ disk'[t] = r
  BY DEF Persist, Save, IInv, TypeInv, TypeOK
<1> QED BY <1>1 DEF Persist, IInv, TypeInv, TypeOK, OutcomeInv, Claims

\* Whatever a handler does, it claims no outcome and launches no task that has
\* one.
LEMMA OutcomeHandler ==
  ASSUME IInv, OutcomeInv, NEW c \in Callers,
         Calling(c) \/ HandlerStep(c) \/ CallerDies(c)
  PROVE  OutcomeInv'
<1>1. TypeInv
  BY DEF IInv
<1>2. ASSUME NEW t \in Tasks, ExpireConfirmation(c, t)
      PROVE  OutcomeInv'
  <2>1. [copy[c][t] EXCEPT !.state = "confirmation_expired"].state \notin Ended
    BY <1>1, <1>2, VisitedRecord DEF ExpireConfirmation, Record, Ended
  <2> QED BY <1>1, <1>2, <2>1, VisitedRecord, DecideOutcome DEF ExpireConfirmation
<1>3. ASSUME NEW t \in Tasks, ReconcileLaunch(c, t)
      PROVE  OutcomeInv'
  <2>1. /\ [copy[c][t] EXCEPT !.launchUnknown = FALSE].state \notin Ended
        /\ [copy[c][t] EXCEPT !.state = "needs_attention"].state \notin Ended
    BY <1>1, <1>3, VisitedRecord DEF ReconcileLaunch, Record, Ended
  <2>2. /\ Visiting(c, t)
        /\ \/ Decide(c, t, [copy[c][t] EXCEPT !.launchUnknown = FALSE])
           \/ Decide(c, t, [copy[c][t] EXCEPT !.state = "needs_attention"])
           \/ Skip(c, t)
        /\ UNCHANGED <<store, lock, time, overdue, icopy, worker, launchd, brew>>
    BY <1>3 DEF ReconcileLaunch
  <2> QED BY <1>1, <2>1, <2>2, VisitedRecord, DecideOutcome, SkipOutcome
<1>4. ASSUME NEW t \in Tasks, ReconcileInflight(c, t)
      PROVE  OutcomeInv'
  <2>1. [copy[c][t] EXCEPT !.state = "needs_attention"].state \notin Ended
    BY <1>1, <1>4, VisitedRecord DEF ReconcileInflight, Record, Ended
  <2>2. /\ Visiting(c, t)
        /\ \/ Decide(c, t, [copy[c][t] EXCEPT !.state = "needs_attention"])
           \/ Skip(c, t)
        /\ UNCHANGED <<store, lock, time, overdue, icopy, worker, launchd, brew>>
    BY <1>4 DEF ReconcileInflight
  <2> QED BY <1>1, <2>1, <2>2, VisitedRecord, DecideOutcome, SkipOutcome
<1>5. ASSUME NEW t \in Tasks, BootoutJob(c, t)
      PROVE  OutcomeInv'
  BY <1>5, ZenonT(60)
     DEF BootoutJob, Visiting, IInv, TypeInv, TypeOK, OutcomeInv, Claims,
              Past, Alive, Locked, Stages
<1>6. ASSUME SubmitExpired(c)
      PROVE  OutcomeInv'
  <2>1. [copy[c][cur[c]] EXCEPT !.state = "confirmation_expired"].state \notin Ended
    BY <1>1, <1>6, SubmittedRecord DEF SubmitExpired, Record, Ended
  <2> QED BY <1>1, <1>6, <2>1, SubmittedRecord, PersistOutcome DEF SubmitExpired
<1>7. ASSUME SubmitAccept(c)
      PROVE  OutcomeInv'
  <2>1. [copy[c][cur[c]] EXCEPT !.state = "queued",
                                !.acceptedDigest = TRUE].state \notin Ended
    BY <1>1, <1>7, SubmittedRecord, ZenonT(60) DEF SubmitAccept, Record, Ended
  <2> QED BY <1>1, <1>7, <2>1, SubmittedRecord, PersistOutcome DEF SubmitAccept
<1>8. ASSUME SubmitLaunched(c)
      PROVE  OutcomeInv'
  <2>1. copy[c][cur[c]].state \notin Ended
    BY <1>8, SMTT(30)
       DEF SubmitLaunched, IInv, SafeInv, LaunchInv, WritesClose, Ended
  <2> QED BY <1>1, <1>8, <2>1, SubmittedRecord, PersistOutcome DEF SubmitLaunched
<1>9. ASSUME SubmitUnknown(c)
      PROVE  OutcomeInv'
  <2>1. [copy[c][cur[c]] EXCEPT !.launchUnknown = TRUE].state \notin Ended
    BY <1>1, <1>9, SubmittedRecord, ZenonT(60)
       DEF SubmitUnknown, IInv, SafeInv, LaunchInv, WritesClose, Record, Ended
  <2> QED BY <1>1, <1>9, <2>1, SubmittedRecord, PersistOutcome DEF SubmitUnknown
<1>10. ASSUME SubmitFailed(c)
      PROVE  OutcomeInv'
  <2>1. [copy[c][cur[c]] EXCEPT !.state = "needs_attention"].state \notin Ended
    BY <1>1, <1>10, SubmittedRecord DEF SubmitFailed, Record, Ended
  <2> QED BY <1>1, <1>10, <2>1, SubmittedRecord, PersistOutcome DEF SubmitFailed
<1>11. ASSUME LaunchTask(c)
      PROVE  OutcomeInv'
  <2>1. cur[c] \in Tasks /\ ~Claims(disk[cur[c]], Ended)
    BY <1>11 DEF LaunchTask, IInv, TypeInv, CopiesHeld, CurSteps, RecordSteps,
                 SafeInv, LaunchInv, SubmitFirst, LaunchClosesOffer, OutcomeInv,
                 Past
  <2>2. \A t \in Tasks : wpc'[t] = wpc[t] \/ (t = cur[c] /\ wpc'[t] = "boot")
    BY <1>11, <2>1 DEF LaunchTask, IInv, TypeInv, TypeOK
  <2>3. /\ UNCHANGED <<disk, copy, cur, wcopy, brew>>
        /\ \A d \in Callers : pc'[d] = "save" => pc[d] = "save"
    BY <1>11 DEF LaunchTask, IInv, TypeInv, TypeOK
  <2> QED BY <2>1, <2>2, <2>3 DEF OutcomeInv, Claims
<1> USE DEF IInv, TypeInv, TypeOK, CopiesHeld, CurSteps, RecordSteps,
            CleaningSteps, Unvisited, OutcomeInv, Claims, Ended, Terminal
<1>12. ASSUME BeginRead(c)
      PROVE  OutcomeInv'
  BY <1>12 DEF BeginRead, Scan, Attends
<1>13. ASSUME BeginPrepare(c)
      PROVE  OutcomeInv'
  BY <1>13 DEF BeginPrepare, Scan, Attends
<1>14. ASSUME NEW t \in Tasks, NEW b \in BOOLEAN, SubmitLoad(c, t, b)
      PROVE  OutcomeInv'
  BY <1>14 DEF SubmitLoad, Submittable
<1>15. ASSUME NEW t \in Tasks, BootoutFails(c, t)
      PROVE  OutcomeInv'
  BY <1>15 DEF BootoutFails, Visiting, Skip
<1>16. ASSUME ReconcileSave(c)
      PROVE  OutcomeInv'
  BY <1>16 DEF ReconcileSave, Save
<1>17. ASSUME CleanupLoad(c)
      PROVE  OutcomeInv'
  BY <1>17 DEF CleanupLoad
<1>18. ASSUME AppendIndex(c)
      PROVE  OutcomeInv'
  BY <1>18 DEF AppendIndex
<1>19. ASSUME RemoveFiles(c) \/ RemoveDir(c)
      PROVE  OutcomeInv'
  <2>1. CASE RemoveFiles(c)
    BY <2>1 DEF RemoveFiles
  <2>2. CASE RemoveDir(c)
    BY <2>2 DEF RemoveDir
  <2> QED BY <1>19, <2>1, <2>2
<1>20. ASSUME EndRead(c)
      PROVE  OutcomeInv'
  BY <1>20 DEF EndRead
<1>21. ASSUME CheckActive(c)
      PROVE  OutcomeInv'
  BY <1>21 DEF CheckActive
<1>22. ASSUME NEW t \in Tasks, CreateTask(c, t)
      PROVE  OutcomeInv'
  BY <1>22 DEF CreateTask, Fresh, Offer
<1>23. ASSUME RefuseTarget(c)
      PROVE  OutcomeInv'
  BY <1>23 DEF RefuseTarget
<1>24. ASSUME Release(c)
      PROVE  OutcomeInv'
  BY <1>24 DEF Release, Forget
<1>25. ASSUME CallerDies(c)
      PROVE  OutcomeInv'
  BY <1>25 DEF CallerDies, Forget
<1> HIDE DEF IInv, TypeInv, TypeOK, CopiesHeld, CurSteps, RecordSteps,
             CleaningSteps, Unvisited, OutcomeInv, Claims, Ended, Terminal
<1> QED BY <1>1, <1>2, <1>3, <1>4, <1>5, <1>6, <1>7, <1>8, <1>9, <1>10, <1>11,
           <1>12, <1>13, <1>14, <1>15, <1>16, <1>17, <1>18, <1>19, <1>20,
           <1>21, <1>22, <1>23, <1>24, <1>25
        DEF Calling, HandlerStep, Reconciling, Preparing, Submitting

\* A worker claims an outcome with its last write, after its commands.
LEMMA OutcomeWorker ==
  ASSUME IInv, OutcomeInv, NEW t \in Tasks,
         WorkerStep(t) \/ WorkerDies(t) \/ OrphanEnds(t) \/ Elapse(t)
  PROVE  OutcomeInv'
<1>1. ASSUME WorkerLoad(t)
      PROVE  OutcomeInv'
  <2>1. /\ UNCHANGED <<disk, pc, cur, copy, brew>>
        /\ wpc[t] = "boot" /\ wpc \in [Tasks -> WorkerSteps]
        /\ wcopy \in [Tasks -> {NoRecord} \cup Record]
    BY <1>1 DEF WorkerLoad, IInv, TypeInv, TypeOK, store, handler
  <2>2. \/ WorkerGoto(t, "ready") /\ disk[t].state = "queued"
           /\ wcopy' = [wcopy EXCEPT ![t] = disk[t]]
        \/ WorkerGoto(t, "leaving") /\ wcopy' = wcopy
    BY <1>1 DEF WorkerLoad
  <2>3. \A u \in Tasks :
          /\ wpc[u] \in Past => wpc'[u] \in Past
          /\ wpc'[u] = "failed" => wpc[u] = "failed"
          /\ wpc'[u] = "ready" => wcopy'[u].state = "queued"
    BY <2>1, <2>2 DEF OutcomeInv, WorkerGoto, Past
  <2> QED BY <2>1, <2>3 DEF OutcomeInv, Claims
<1>2. ASSUME WriteReady(t)
      PROVE  OutcomeInv'
  <2> DEFINE r == [wcopy[t] EXCEPT !.workerPID = TRUE]
  <2>1. r \in Record /\ r.state \notin Ended /\ WorkerSave(t, r, "downloading")
    BY <1>2, WorkersRecord DEF WriteReady, IInv, OutcomeInv, Record, Ended
  <2> HIDE DEF r
  <2>2. \A u \in Tasks : disk'[u] = disk[u] \/ disk'[u] = r
    BY <2>1 DEF WorkerSave, Save, IInv, TypeInv, TypeOK
  <2>3. /\ wpc' = [wpc EXCEPT ![t] = "downloading"] /\ wpc[t] = "ready"
        /\ UNCHANGED <<pc, cur, copy, brew>>
    BY <1>2, <2>1 DEF WriteReady, WorkerSave
  <2>4. \A u \in Tasks :
          /\ wpc[u] \in Past => wpc'[u] \in Past
          /\ wpc'[u] = "failed" => wpc[u] = "failed"
          /\ wpc'[u] = "ready" => wpc[u] = "ready" /\ wcopy'[u] = wcopy[u]
    BY <2>1, <2>3 DEF WorkerSave, IInv, TypeInv, TypeOK, Past
  <2> QED BY <2>1, <2>2, <2>3, <2>4 DEF OutcomeInv, Claims
<1>3. ASSUME EnterStage(t)
      PROVE  OutcomeInv'
  <2> DEFINE r == [wcopy[t] EXCEPT
                    !.state = StageState[wpc[t]],
                    !.cleanupPending = @ \/ wpc[t] = "succeeded"]
  <2>1. wpc[t] \in Stages /\ WorkerSave(t, r, StageWork[wpc[t]])
    BY <1>3 DEF EnterStage
  <2>2. r \in Record /\ r.state = StageState[wpc[t]]
    BY <2>1, WorkersRecord DEF IInv, Record
  <2>3. /\ r.state \in Ended => StageWork[wpc[t]] = "release"
        /\ r.state \in Ended /\ ~SignalDeaths => ~brew[t]
    BY <2>1, <2>2 DEF Stages, StageState, StageWork, Ended, IInv, SafeInv,
                      LaunchInv, Quiet, QuietSteps, Locked, BrewStages, OutcomeInv
  <2>4. StageWork[wpc[t]] \notin {"ready", "failed"} /\ wpc[t] \notin Past
    BY <2>1 DEF Stages, StageWork, Past
  <2> HIDE DEF r
  <2> QED BY <2>1, <2>2, <2>3, <2>4 DEF WorkerSave, Save, IInv, TypeInv, TypeOK,
                                        OutcomeInv, Claims, Past
<1> USE DEF IInv, TypeInv, TypeOK, CopiesHeld, SafeInv, LaunchInv, Quiet,
            QuietSteps, OutcomeInv, Claims, Ended, Past, Record, Locked,
            Stages, BrewStages
<1>4. ASSUME WorkerUnprobed(t)
      PROVE  OutcomeInv'
  BY <1>4 DEF WorkerUnprobed
<1>5. ASSUME WorkerBusy(t)
      PROVE  OutcomeInv'
  BY <1>5 DEF WorkerBusy
<1>6. ASSUME ReadyFails(t)
      PROVE  OutcomeInv'
  BY <1>6 DEF ReadyFails, Advance
<1>7. ASSUME SnapshotStaged(t)
      PROVE  OutcomeInv'
  BY <1>7 DEF SnapshotStaged, Advance
<1>8. ASSUME SnapshotFails(t)
      PROVE  OutcomeInv'
  BY <1>8 DEF SnapshotFails, Advance
<1>9. ASSUME BrewStart(t)
      PROVE  OutcomeInv'
  BY <1>9 DEF BrewStart
<1>10. ASSUME BrewSucceeds(t)
      PROVE  OutcomeInv'
  BY <1>10 DEF BrewSucceeds, BrewReturns, AfterExitZero
<1>11. ASSUME BrewFails(t)
      PROVE  OutcomeInv'
  BY <1>11 DEF BrewFails, BrewReturns, AfterExitError
<1>12. ASSUME BrewTimesOut(t)
      PROVE  OutcomeInv'
  BY <1>12 DEF BrewTimesOut, BrewReturns
<1>13. ASSUME BrewKilled(t)
      PROVE  OutcomeInv'
  BY <1>13 DEF BrewKilled, BrewReturns, AfterExitError
<1>14. ASSUME ServicePidRead(t)
      PROVE  OutcomeInv'
  BY <1>14 DEF ServicePidRead, Advance
<1>15. ASSUME ServicePidFails(t)
      PROVE  OutcomeInv'
  BY <1>15 DEF ServicePidFails, Advance
<1>16. ASSUME HealthProven(t)
      PROVE  OutcomeInv'
  BY <1>16 DEF HealthProven, Advance
<1>17. ASSUME HealthUnproven(t)
      PROVE  OutcomeInv'
  BY <1>17 DEF HealthUnproven, Advance
<1>18. ASSUME UnknownLoad(t)
      PROVE  OutcomeInv'
  BY <1>18 DEF UnknownLoad
<1>19. ASSUME UnknownSave(t)
      PROVE  OutcomeInv'
  BY <1>19 DEF UnknownSave, WorkerSave, Save
<1>20. ASSUME WorkerRelease(t)
      PROVE  OutcomeInv'
  BY <1>20 DEF WorkerRelease
<1>21. ASSUME WorkerExit(t)
      PROVE  OutcomeInv'
  BY <1>21 DEF WorkerExit
<1>22. ASSUME WorkerDies(t)
      PROVE  OutcomeInv'
  BY <1>22 DEF WorkerDies
<1>23. ASSUME OrphanEnds(t)
      PROVE  OutcomeInv'
  BY <1>23 DEF OrphanEnds
<1>24. ASSUME ConfirmWindowCloses(t)
      PROVE  OutcomeInv'
  BY <1>24 DEF ConfirmWindowCloses
<1>25. ASSUME LaunchWindowCloses(t)
      PROVE  OutcomeInv'
  BY <1>25 DEF LaunchWindowCloses
<1>26. ASSUME BudgetElapses(t)
      PROVE  OutcomeInv'
  BY <1>26 DEF BudgetElapses
<1> HIDE DEF IInv, TypeInv, TypeOK, CopiesHeld, SafeInv, LaunchInv, Quiet,
             QuietSteps, OutcomeInv, Claims, Ended, Past, Record, Locked,
             Stages, BrewStages
<1> QED BY <1>1, <1>2, <1>3, <1>4, <1>5, <1>6, <1>7, <1>8, <1>9, <1>10, <1>11,
           <1>12, <1>13, <1>14, <1>15, <1>16, <1>17, <1>18, <1>19, <1>20,
           <1>21, <1>22, <1>23, <1>24, <1>25, <1>26
        DEF WorkerStep, Elapse

\* The invariant of outcomes holds for every set of tasks and callers.
THEOREM OutcomesAreLast == Spec => []OutcomeInv
<1>1. Init => OutcomeInv
  BY DEF Init, OutcomeInv, Claims
<1>2. IInv /\ OutcomeInv /\ [Next]_vars => OutcomeInv'
  <2> SUFFICES ASSUME IInv, OutcomeInv, [Next]_vars PROVE OutcomeInv'
    OBVIOUS
  <2>1. CASE UNCHANGED vars
    BY <2>1 DEF vars, OutcomeInv
  <2>2. CASE Next
    BY <2>2, OutcomeHandler, OutcomeWorker DEF Next
  <2> QED BY <2>1, <2>2
<1> QED BY Inductive, <1>1, <1>2, PTL DEF Spec

\* A record that claims success or failure is a proof that no command of the
\* task runs, with any number of handlers and stale copies, as long as no
\* command dies from a signal (Worker.fail, Run).
THEOREM OutcomesAreProven == ASSUME ~SignalDeaths PROVE Spec => []OutcomeIsProven
<1>1. OutcomeInv => OutcomeIsProven
  BY DEF OutcomeInv, Claims, Ended, OutcomeIsProven
<1> QED BY OutcomesAreLast, <1>1, PTL

\* "Any state that cannot be proven terminal blocks new tasks", with any number
\* of handlers and stale copies, as long as commands do not die from signals:
\* Prepare refuses as long as a command of a task may run, orphaned or not,
\* except over a record of an accepted task that a late reader has expired
\* (identity.go:5-8, tasks.go:16-35, manager.go:324-326).
THEOREM UnprovenTasksBlock == ASSUME ~SignalDeaths PROVE Spec => []UnprovenBlocks
<1>1. IInv /\ OutcomeInv => UnprovenBlocks
  <2> SUFFICES ASSUME IInv, OutcomeInv, NEW t \in Tasks, brew[t]
               PROVE  Blocking(t) \/ disk[t].state = "confirmation_expired"
    BY DEF UnprovenBlocks
  <2>1. launches[t] > 0
    BY DEF IInv, SafeInv, LaunchInv, LaunchClosesOffer, Quiet, QuietSteps
  <2>2. disk[t] # NoRecord /\ ~Awaits(disk[t])
    BY <2>1 DEF IInv, SafeInv, LaunchInv, RemovedIsOver, LaunchClosesOffer
  <2>3. disk[t].state \in State \ (Ended \cup {"awaiting_confirmation"})
    BY <2>2 DEF IInv, TypeInv, TypeOK, Record, OutcomeInv, Claims, Awaits
  <2> QED BY <2>2, <2>3 DEF Blocking, Listed, Blocks, State, Terminal, Inflight, Ended
<1> QED BY Inductive, OutcomesAreLast, <1>1, PTL
=============================================================================
