----------------------------- MODULE TaskIndex -----------------------------
(***************************************************************************)
(* index.json of internal/upgrade/state.go: the summaries that outlive the *)
(* working directories of finished tasks, with its bound, its order by     *)
(* UpdatedAt and its read-modify-write.  UpgradeHost has the tasks and     *)
(* everybody who writes them; here a task is only opened, saved, finished, *)
(* cleaned by readers that overlap and die between any two steps.          *)
(***************************************************************************)
EXTENDS FiniteSets, Naturals

CONSTANTS Tasks,       \* task ids
          Cleaners,    \* readers that may be inside Store.Cleanup, all at once
          MaxRecords,  \* maxTerminalRecords, 20 in the code
          MaxTime,     \* bound on the clock
          NoRecord     \* no task.json, nothing in memory, no task at hand

ASSUME IndexAssumption ==
    /\ MaxRecords \in Nat \ {0}
    /\ MaxTime \in Nat

\* task.json, and its view in the index: the second of the last save, and
\* whether the record is terminal and marked for cleanup.
Record == [task : Tasks, updated : 0 .. MaxTime, pending : BOOLEAN]

ASSUME NoRecordAssumption == NoRecord \notin Record \cup Tasks

VARIABLES clock,     \* the clock of the store, in seconds
          there,     \* tasks with a directory <root>/<task>
          dir,       \* [Tasks -> Record or NoRecord]: its task.json
          finished,  \* tasks whose worker has made its last save
          index,     \* the records of index.json
          pc,        \* [Cleaners -> step of the cleanup]
          cur,       \* [Cleaners -> the task it is of]
          rec,       \* [Cleaners -> the record Cleanup loaded]
          read,      \* [Cleaners -> what readIndex returned]
          gone,      \* history: tasks whose files were removed
          last,      \* history: [Tasks -> the summary last written of it]
          raced      \* history: an index was replaced that was not the one read

cleaner == <<pc, cur, rec, read>>
past    == <<gone, last, raced>>
vars    == <<clock, there, dir, finished, index, cleaner, past>>

Steps == {"idle", "listed", "loaded", "read", "indexed", "emptied"}

Init ==
    /\ clock = 0
    /\ there = {} /\ finished = {} /\ index = {}
    /\ dir = [t \in Tasks |-> NoRecord]
    /\ pc = [c \in Cleaners |-> "idle"]
    /\ cur = [c \in Cleaners |-> NoRecord]
    /\ rec = [c \in Cleaners |-> NoRecord]
    /\ read = [c \in Cleaners |-> {}]
    /\ gone = {} /\ raced = FALSE
    /\ last = [t \in Tasks |-> NoRecord]

-----------------------------------------------------------------------------
(* Tasks: created, saved by anybody who holds a copy, finished once.       *)

Second ==
    /\ clock < MaxTime /\ clock' = clock + 1
    /\ UNCHANGED <<there, dir, finished, index, cleaner, past>>

\* Save stamps the record, whoever writes it.
Save(t, pending) ==
    /\ dir' = [dir EXCEPT ![t] = [task |-> t, updated |-> clock, pending |-> pending]]
    /\ UNCHANGED <<clock, index, cleaner, gone, last, raced>>

Create(t) ==
    /\ t \notin there \cup gone
    /\ there' = there \cup {t}
    /\ Save(t, FALSE)
    /\ UNCHANGED finished

\* A worker's stage, or a reconciliation from a copy however old: it needs
\* the directory, not the record, and takes no notice of a cleanup.
Progress(t) ==
    /\ t \in there
    /\ Save(t, FALSE)
    /\ UNCHANGED <<there, finished>>

\* The last save of a successful worker.
Finish(t) ==
    /\ dir[t] # NoRecord /\ t \notin finished
    /\ Save(t, TRUE)
    /\ finished' = finished \cup {t}
    /\ UNCHANGED there

-----------------------------------------------------------------------------
(* A cleanup: the bootout by what List showed, then Store.Cleanup.         *)

Goto(c, step) == pc' = [pc EXCEPT ![c] = step]

\* The mark is read in the list; what Cleanup loads may be another record.
ListPending(c, t) ==
    /\ pc[c] = "idle"
    /\ dir[t] # NoRecord /\ dir[t].pending
    /\ cur' = [cur EXCEPT ![c] = t]
    /\ Goto(c, "listed")
    /\ UNCHANGED <<clock, there, dir, finished, index, rec, read, past>>

CleanupLoad(c) ==
    /\ pc[c] = "listed"
    /\ rec' = [rec EXCEPT ![c] = dir[cur[c]]]
    /\ Goto(c, IF dir[cur[c]] = NoRecord THEN "indexed" ELSE "loaded")
    /\ UNCHANGED <<clock, there, dir, finished, index, cur, read, past>>

ReadIndex(c) ==
    /\ pc[c] = "loaded"
    /\ read' = [read EXCEPT ![c] = index]
    /\ Goto(c, "read")
    /\ UNCHANGED <<clock, there, dir, finished, index, cur, rec, past>>

\* The record of the same task is replaced, or one is added.
Put(records, r) == {e \in records : e.task # r.task} \cup {r}

\* Mutant of Newest: the order of the records is not looked at.
NewestUnsorted(records, kept) ==
    /\ kept \subseteq records
    /\ IF Cardinality(records) <= MaxRecords THEN kept = records
                                             ELSE Cardinality(kept) = MaxRecords

\* Mutant of Newest: one record too many.
NewestPlusOne(records, kept) ==
    /\ kept \subseteq records
    /\ IF Cardinality(records) <= MaxRecords + 1
         THEN kept = records
         ELSE /\ Cardinality(kept) = MaxRecords + 1
              /\ \A e \in kept, d \in records \ kept : e.updated >= d.updated

\* Is kept a front of the records sorted by UpdatedAt, newest first, cut to
\* the bound?  The sort is not stable: among equals any may go.
Newest(records, kept) ==
    /\ kept \subseteq records
    /\ IF Cardinality(records) <= MaxRecords
         THEN kept = records
         ELSE /\ Cardinality(kept) = MaxRecords
              /\ \A e \in kept, d \in records \ kept : e.updated >= d.updated

\* Is the index another than the one c read, or its summary of the task newer
\* than the record c loaded?
Races(c) ==
    \/ read[c] # index
    \/ \E e \in index : e.task = rec[c].task /\ e.updated > rec[c].updated

\* writeFileAtomic replaces whatever the index is by now.
WriteIndex(c) ==
    /\ pc[c] = "read"
    /\ LET records == Put(read[c], rec[c])
       IN \E kept \in SUBSET records : Newest(records, kept) /\ index' = kept
    /\ raced' = (raced \/ Races(c))
    /\ last' = [last EXCEPT ![cur[c]] = rec[c]]
    /\ Goto(c, "indexed")
    /\ rec' = [rec EXCEPT ![c] = NoRecord]
    /\ read' = [read EXCEPT ![c] = {}]
    /\ UNCHANGED <<clock, there, dir, finished, cur, gone>>

\* os.RemoveAll unlinks what it finds in the directory ...
RemoveFiles(c) ==
    /\ pc[c] = "indexed"
    /\ dir' = [dir EXCEPT ![cur[c]] = NoRecord]
    /\ gone' = gone \cup {cur[c]}
    /\ Goto(c, "emptied")
    /\ UNCHANGED <<clock, there, finished, index, cur, rec, read, last, raced>>

Leave(c) ==
    /\ rec' = [rec EXCEPT ![c] = NoRecord]
    /\ read' = [read EXCEPT ![c] = {}]
    /\ cur' = [cur EXCEPT ![c] = NoRecord]
    /\ Goto(c, "idle")

\* ... and then the directory, unless a Save has put a file there meanwhile.
RemoveDir(c) ==
    /\ pc[c] = "emptied"
    /\ there' \in {there} \cup (IF dir[cur[c]] = NoRecord THEN {there \ {cur[c]}} ELSE {})
    /\ Leave(c)
    /\ UNCHANGED <<clock, dir, finished, index, past>>

\* The reader's process dies; what it wrote stays.
Dies(c) ==
    /\ pc[c] # "idle"
    /\ Leave(c)
    /\ UNCHANGED <<clock, there, dir, finished, index, past>>

-----------------------------------------------------------------------------
Cleaning(c) ==
    \/ CleanupLoad(c)
    \/ ReadIndex(c)
    \/ WriteIndex(c)
    \/ RemoveFiles(c)
    \/ RemoveDir(c)

Next ==
    \/ Second
    \/ \E t \in Tasks : Create(t) \/ Progress(t) \/ Finish(t)
    \/ \E c \in Cleaners : \/ \E t \in Tasks : ListPending(c, t)
                           \/ Cleaning(c)
                           \/ Dies(c)

Spec == Init /\ [][Next]_vars

-----------------------------------------------------------------------------
(* Properties.                                                             *)

\* The variables hold what their declarations say; the index is bounded.
TypeOK ==
    /\ clock \in 0 .. MaxTime
    /\ there \subseteq Tasks /\ finished \subseteq Tasks
    /\ dir \in [Tasks -> Record \cup {NoRecord}]
    /\ index \subseteq Record /\ IsFiniteSet(index)
    /\ Cardinality(index) <= MaxRecords
    /\ pc \in [Cleaners -> Steps]
    /\ cur \in [Cleaners -> Tasks \cup {NoRecord}]
    /\ rec \in [Cleaners -> Record \cup {NoRecord}]
    /\ read \in [Cleaners -> SUBSET Record]
    /\ gone \subseteq Tasks
    /\ last \in [Tasks -> Record \cup {NoRecord}]
    /\ raced \in BOOLEAN

\* What stands for summary r in a set of records.
Retained(records, r) ==
    \/ \E e \in records : e.task = r.task
    \/ /\ Cardinality(records) = MaxRecords
       /\ \A e \in records : e.updated >= r.updated

\* "The terminal summary is retained in index.json, bounded to the most recent
\* records" (Cleanup): a task whose files were removed had its summary written
\* before, and until a reader replaces an index it has not read that summary
\* is there, or the index is full of tasks that ended no earlier, in whatever
\* order tasks ended, cleanups overlapped, were interrupted and were repeated,
\* and records were saved under them.
SummaryRetained ==
    \A t \in gone : /\ last[t] # NoRecord
                    /\ ~raced => Retained(index, last[t])
=============================================================================
