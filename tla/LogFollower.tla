---------------------------- MODULE LogFollower ----------------------------
(***************************************************************************)
(* `tokenlive logs -f` (followLogs): one log file, read by position through *)
(* an open handle while the service appends to it, lumberjack rotates it   *)
(* (rename, then create) and somebody may empty it in place.               *)
(*                                                                         *)
(* Lines are numbered in the order they are written and have length one;   *)
(* a file is an inode, numbered in the order of creation.                  *)
(***************************************************************************)
EXTENDS Naturals, Sequences, SequencesExt

CONSTANTS
    MaxLines, MaxFiles, MaxTruncations,  \* bounds on the environment
    InitialN,             \* -n: lines shown before following
    SilentRegrowth    \* an emptied file may regrow to the reader's offset unseen

ASSUME FollowerAssumption ==
    /\ MaxLines \in Nat /\ MaxTruncations \in Nat /\ InitialN \in Nat
    /\ MaxFiles \in Nat \ {0}
    /\ SilentRegrowth \in BOOLEAN

None  == 0
Files == 1..MaxFiles
Lines == 1..MaxLines

VARIABLES
    path,          \* the file at the log's path, None between rename and create
    files,         \* files created so far
    content,       \* [Files -> Seq(Lines)]
    written,       \* lines written so far
    truncations,   \* times a file was emptied
    pc,            \* step of the follower
    handle,        \* fileState.file: its open file, None if closed
    pos,           \* read position of the handle
    offset,        \* fileState.offset: what it counts as delivered
    initial,       \* lines shown before following
    followed       \* lines emitted since

log      == <<path, files, content, written, truncations>>
follower == <<pc, handle, pos, offset, initial, followed>>
vars     == <<log, follower>>

Steps == {"open", "tail", "seek", "wait", "check", "reopen", "rewind", "drain"}

Init ==
    /\ path = 1 /\ files = 1 /\ written = 0 /\ truncations = 0
    /\ content = [f \in Files |-> <<>>]
    /\ pc = "open" /\ handle = None /\ pos = 0 /\ offset = 0
    /\ initial = <<>> /\ followed = <<>>

\* What a read through handle h finds; a closed handle finds nothing.
Held(h) == IF h = None THEN <<>> ELSE content[h]

-----------------------------------------------------------------------------
(* The service and its operator.                                           *)

\* The append that would hide an emptying: the file is shorter than the
\* offset now and would not be any more.
Regrows == /\ handle = path
           /\ Len(content[path]) + 1 = offset

AppendLine ==
    /\ path # None /\ written < MaxLines
    /\ SilentRegrowth \/ ~Regrows
    /\ written' = written + 1
    /\ content' = [content EXCEPT ![path] = Append(@, written + 1)]
    /\ UNCHANGED <<path, files, truncations, follower>>

RotateRename ==
    /\ path # None /\ files < MaxFiles
    /\ path' = None
    /\ UNCHANGED <<files, content, written, truncations, follower>>

RotateCreate ==
    /\ path = None
    /\ files' = files + 1
    /\ path' = files'
    /\ UNCHANGED <<content, written, truncations, follower>>

Truncate ==
    /\ path # None /\ truncations < MaxTruncations
    /\ truncations' = truncations + 1
    /\ content' = [content EXCEPT ![path] = <<>>]
    /\ UNCHANGED <<path, files, written, follower>>

-----------------------------------------------------------------------------
(* The start: open, show the last lines through a second handle, seek to   *)
(* the end.  A log that cannot be opened is not followed at all.           *)

StartOpen ==
    /\ pc = "open" /\ path # None
    /\ handle' = path
    /\ pc' = "tail"
    /\ UNCHANGED <<log, pos, offset, initial, followed>>

\* readLastNLines opens the path again: possibly another file, or none.
ShowTail ==
    /\ pc = "tail"
    /\ initial' = LET c == Held(path) IN
                    SubSeq(c, IF Len(c) > InitialN THEN Len(c) - InitialN + 1 ELSE 1, Len(c))
    /\ pc' = "seek"
    /\ UNCHANGED <<log, handle, pos, offset, followed>>

SeekEnd ==
    /\ pc = "seek"
    /\ pos' = Len(content[handle]) /\ offset' = pos'
    /\ pc' = "wait"
    /\ UNCHANGED <<log, handle, initial, followed>>

-----------------------------------------------------------------------------
(* One tick.                                                               *)

\* The file at the path, read from its start.
OpenFresh ==
    /\ handle' = path /\ pos' = 0 /\ offset' = 0

\* A closed handle is opened again; while there is no file a tick does nothing.
Tick ==
    /\ pc = "wait"
    /\ \/ /\ handle # None
          /\ UNCHANGED <<handle, pos, offset>>
       \/ /\ handle = None /\ path # None
          /\ OpenFresh
    /\ pc' = "check"
    /\ UNCHANGED <<log, initial, followed>>

\* Mutant of Rotated: sizes are compared, identities are not.
RotatedBySize == Len(content[path]) < Len(content[handle])

\* ~os.SameFile(path, handle)
Rotated == path # handle

\* Stat of the path decides what to do with the handle.
Check ==
    /\ pc = "check"
    /\ \/ path = None /\ handle' = None /\ pc' = "wait"
       \/ path # None /\ Rotated /\ pc' = "reopen" /\ UNCHANGED handle
       \/ /\ path # None /\ ~Rotated
          /\ pc' = IF Len(content[path]) < offset THEN "rewind" ELSE "drain"
          /\ UNCHANGED handle
    /\ UNCHANGED <<log, pos, offset, initial, followed>>

\* Mutant of Reopen: the new file is joined at its end, as at the start.
ReopenAtEnd ==
    /\ pc = "reopen"
    /\ handle' = path /\ pos' = Len(Held(path)) /\ offset' = pos'
    /\ pc' = IF path = None THEN "wait" ELSE "drain"
    /\ UNCHANGED <<log, initial, followed>>

\* Mutant of Reopen: a failed open is not noticed.
ReopenUnchecked ==
    /\ pc = "reopen"
    /\ OpenFresh
    /\ pc' = "drain"
    /\ UNCHANGED <<log, initial, followed>>

\* The file found by Stat may be gone again, or replaced, when it is opened.
Reopen ==
    /\ pc = "reopen"
    /\ OpenFresh
    /\ pc' = IF path = None THEN "wait" ELSE "drain"
    /\ UNCHANGED <<log, initial, followed>>

\* Mutant of Rewind: the offset keeps its old value.
RewindKeepingOffset ==
    /\ pc = "rewind"
    /\ pos' = 0
    /\ pc' = "drain"
    /\ UNCHANGED <<log, handle, offset, initial, followed>>

Rewind ==
    /\ pc = "rewind"
    /\ pos' = 0 /\ offset' = 0
    /\ pc' = "drain"
    /\ UNCHANGED <<log, handle, initial, followed>>

DrainLine ==
    /\ pc = "drain" /\ pos < Len(content[handle])
    /\ followed' = Append(followed, content[handle][pos + 1])
    /\ pos' = pos + 1 /\ offset' = offset + 1
    /\ UNCHANGED <<log, pc, handle, initial>>

\* End of file: the next tick will look again.
DrainEnd ==
    /\ pc = "drain" /\ pos >= Len(content[handle])
    /\ pc' = "wait"
    /\ UNCHANGED <<log, handle, pos, offset, initial, followed>>

Follow ==
    \/ StartOpen \/ ShowTail \/ SeekEnd
    \/ Tick \/ Check \/ Reopen \/ Rewind
    \/ DrainLine \/ DrainEnd

Next ==
    \/ AppendLine \/ RotateRename \/ RotateCreate \/ Truncate
    \/ Follow

Spec == Init /\ [][Next]_vars

\* The ticker fires and reads return; the interrupt that ends the command is
\* not modelled.  Nothing is assumed of the service.
FairSpec == Spec /\ WF_vars(Follow)

-----------------------------------------------------------------------------
(* Properties.                                                             *)

\* Types, and what every step of a tick relies on: a file that is read or
\* rewound is open, and nothing but a truncation can make the position exceed
\* the size.
TypeOK ==
    /\ path \in Files \cup {None} /\ files \in Files
    /\ content \in [Files -> Seq(Lines)]
    /\ written \in 0..MaxLines /\ truncations \in 0..MaxTruncations
    /\ pc \in Steps /\ handle \in Files \cup {None}
    /\ pos \in 0..MaxLines /\ offset \in 0..MaxLines
    /\ initial \in Seq(Lines) /\ followed \in Seq(Lines)
    /\ pc \in {"tail", "seek", "check", "reopen", "rewind", "drain"} => handle # None
    /\ handle # None /\ truncations = 0 => pos <= Len(content[handle])

\* Lines are followed in the order they were written, each at most once:
\* neither a reopened file nor a rewound one is ever replayed.
FollowsInOrder ==
    \A i, j \in DOMAIN followed : i < j => followed[i] < followed[j]

\* Nothing is skipped inside the file that is open: what lies before the read
\* position is older than the first followed line or was followed itself.
\* (Lines are lost with files that are rotated away before they are drained.)
NothingSkipped ==
    followed # <<>> /\ pos <= Len(Held(handle)) =>
        \A i \in 1..pos : \/ Held(handle)[i] < followed[1]
                          \/ Held(handle)[i] \in ToSet(followed)

\* The comment on rotation: "without reopening, we'd keep reading the stale
\* renamed file and miss every subsequent line".  As long as the log exists in
\* the end, the follower always comes back to the end of the file now active.
CatchesUp ==
    <>[](path # None) => []<>(/\ handle = path /\ pc = "wait"
                              /\ pos = offset /\ offset = Len(Held(path)))
=============================================================================
