------------------------- MODULE LogFollowerProofs -------------------------
(***************************************************************************)
(* Proofs about LogFollower for any number of lines, files and truncations: *)
(* lines are followed in order and once, and nothing is skipped inside the *)
(* open file unless an emptied file regrew unseen.                         *)
(***************************************************************************)
EXTENDS LogFollower, SequenceTheorems, TLAPS

-----------------------------------------------------------------------------
(* The inductive invariant.                                                *)

\* The log: only the newest file is written, so lines ascend inside a file
\* and from one file to the next.
LogAscends ==
    /\ path \in {None, files} /\ (path = None => files < MaxFiles)
    /\ \A f \in Files : /\ Len(content[f]) <= written
                        /\ f > files => content[f] = <<>>
                        /\ \A i \in DOMAIN content[f] : content[f][i] <= written
    /\ \A f \in Files : \A i, j \in DOMAIN content[f] :
          i < j => content[f][i] < content[f][j]
    /\ \A f, g \in Files : f < g =>
          \A i \in DOMAIN content[f], j \in DOMAIN content[g] :
             content[f][i] < content[g][j]

\* The follower's place.
PlaceKept ==
    /\ handle <= files /\ offset = pos /\ pos <= written
    /\ pc \in {"open", "tail", "seek"} => followed = <<>> /\ pos = 0
    /\ pc = "reopen" => handle # path

\* Every line of file f from position k on is newer than all followed lines.
NewFrom(f, k) ==
    \A i \in DOMAIN followed, j \in DOMAIN content[f] :
        j > k => followed[i] < content[f][j]

\* What is still to be read is new: behind the position, in the file that has
\* replaced the open one, and in an emptied file from its start.
UnreadIsNew ==
    /\ \A i \in DOMAIN followed : followed[i] <= written
    /\ handle # None => NewFrom(handle, pos)
    /\ handle # None /\ (pos > Len(content[handle]) \/ pc = "rewind") =>
          NewFrom(handle, 0)
    /\ path # None /\ handle # path => NewFrom(path, 0)

IInv == TypeOK /\ LogAscends /\ PlaceKept /\ UnreadIsNew /\ FollowsInOrder

-----------------------------------------------------------------------------
\* What the types say of the files and of the lines followed, in numbers.
LEMMA Numbers ==
  ASSUME TypeOK
  PROVE  /\ \A f \in Files : /\ content[f] \in Seq(Lines)
                             /\ Len(content[f]) \in Nat
                             /\ DOMAIN content[f] = 1..Len(content[f])
                             /\ \A i \in DOMAIN content[f] : content[f][i] \in Nat
         /\ Len(followed) \in Nat /\ DOMAIN followed = 1..Len(followed)
         /\ \A i \in DOMAIN followed : followed[i] \in Nat
         /\ written \in Nat /\ files \in Nat /\ pos \in Nat /\ offset \in Nat
         /\ path \in Nat /\ handle \in Nat /\ truncations \in Nat
<1>1. Lines \subseteq Nat /\ Files \subseteq Nat \ {0}
  BY FollowerAssumption DEF Lines, Files
<1>2. content \in [Files -> Seq(Lines)] /\ followed \in Seq(Lines)
  BY DEF TypeOK
<1>3. ASSUME NEW s \in Seq(Lines)
      PROVE  /\ Len(s) \in Nat /\ DOMAIN s = 1..Len(s)
             /\ \A i \in DOMAIN s : s[i] \in Nat
  <2>1. Len(s) \in Nat /\ DOMAIN s = 1..Len(s)
    OBVIOUS
  <2>2. \A i \in DOMAIN s : s[i] \in Lines
    BY <2>1, ElementOfSeq
  <2> QED BY <1>1, <2>1, <2>2
<1> QED BY <1>1, <1>2, <1>3, FollowerAssumption DEF TypeOK, None

LEMMA AppendLineKeeps == IInv /\ AppendLine => IInv'
<1> SUFFICES ASSUME IInv, AppendLine PROVE IInv'
  OBVIOUS
<1> USE FollowerAssumption
<1>0. TypeOK
  BY DEF IInv
<1>1. /\ path \in Files /\ path = files /\ content[path] \in Seq(Lines)
      /\ written' = written + 1 /\ written + 1 \in Lines
      /\ content' \in [Files -> Seq(Lines)]
      /\ content'[path] = Append(content[path], written + 1)
      /\ \A f \in Files \ {path} : content'[f] = content[f]
      /\ UNCHANGED <<path, files, truncations, follower>>
  BY DEF AppendLine, IInv, TypeOK, LogAscends, Files, Lines, None
<1>2. /\ Len(content'[path]) = Len(content[path]) + 1
      /\ DOMAIN content'[path] = 1..(Len(content[path]) + 1)
      /\ \A i \in DOMAIN content[path] : content'[path][i] = content[path][i]
      /\ content'[path][Len(content[path]) + 1] = written + 1
      /\ DOMAIN content[path] = 1..Len(content[path])
      /\ Len(content[path]) \in Nat
  BY <1>1
<1>3. TypeOK'
  <2>1. handle # None /\ truncations = 0 => pos <= Len(content'[handle])
    BY <1>1, <1>2 DEF IInv, TypeOK, Files
  <2>2. written' \in 0..MaxLines
    BY <1>1 DEF Lines, IInv, TypeOK
  <2> QED BY <1>1, <2>1, <2>2 DEF IInv, TypeOK, follower
\* A line of a file is an old one, or the new one at the end of the log.
<1>4. ASSUME NEW f \in Files, NEW i \in DOMAIN content'[f]
      PROVE  \/ i \in DOMAIN content[f] /\ content'[f][i] = content[f][i]
                /\ content[f][i] \in Nat /\ content[f][i] < written + 1
             \/ f = path /\ content'[f][i] = written + 1
                /\ \A j \in DOMAIN content[f] : j < i
  <2>1. \A j \in DOMAIN content[f] : content[f][j] \in Nat /\ content[f][j] < written + 1
    BY <1>0, Numbers DEF IInv, LogAscends
  <2>2. CASE f # path
    BY <1>1, <2>1, <2>2
  <2>3. CASE f = path /\ i \in DOMAIN content[path]
    BY <1>2, <2>1, <2>3
  <2>4. CASE f = path /\ i = Len(content[path]) + 1
    BY <1>2, <2>4
  <2> QED BY <1>2, <2>2, <2>3, <2>4
<1>5. LogAscends'
  <2>1. path' \in {None, files'} /\ path' # None
    BY <1>1 DEF Files, None
  <2>2. \A f \in Files : /\ Len(content'[f]) <= written'
                         /\ f > files' => content'[f] = <<>>
    <3> TAKE f \in Files
    <3>1. CASE f # path
      BY <1>0, <1>1, <3>1, Numbers DEF IInv, LogAscends
    <3>2. CASE f = path
      BY <1>0, <1>1, <1>2, <3>2, Numbers DEF IInv, LogAscends
    <3> QED BY <3>1, <3>2
  <2>3. ASSUME NEW f \in Files, NEW i \in DOMAIN content'[f]
        PROVE  content'[f][i] <= written'
    <3>1. written \in Nat /\ written' = written + 1
      BY <1>0, <1>1, Numbers
    <3> QED BY <1>4, <3>1
  <2>4. \A f \in Files : \A i, j \in DOMAIN content'[f] :
           i < j => content'[f][i] < content'[f][j]
    <3> TAKE f \in Files
    <3> TAKE i, j \in DOMAIN content'[f]
    <3> HAVE i < j
    <3>0. DOMAIN content[f] = 1..Len(content[f]) /\ Len(content[f]) \in Nat
      BY <1>0, Numbers
    <3>1. DOMAIN content'[f] \subseteq Nat \ {0}
      BY <1>1, <1>2, <3>0
    <3>2. CASE j \notin DOMAIN content[f]
      <4>1. i \in DOMAIN content[f]
        <5>1. f = path
          BY <1>4, <3>2
        <5>2. j = Len(content[path]) + 1
          BY <1>2, <3>2, <5>1
        <5> QED BY <1>2, <3>1, <5>1, <5>2
      <4>2. content'[f][j] = written + 1
        BY <1>4, <3>2
      <4> QED BY <1>4, <4>1, <4>2, <3>1
    <3>3. CASE j \in DOMAIN content[f]
      <4>1. i \in DOMAIN content[f]
        BY <3>0, <3>1, <3>3
      <4>2. content'[f][i] = content[f][i] /\ content'[f][j] = content[f][j]
        BY <1>1, <1>2, <3>3, <4>1
      <4> QED BY <3>3, <4>1, <4>2 DEF IInv, LogAscends
    <3> QED BY <3>2, <3>3
  <2>5. ASSUME NEW f \in Files, NEW g \in Files, f < g,
               NEW i \in DOMAIN content'[f], NEW j \in DOMAIN content'[g]
        PROVE  content'[f][i] < content'[g][j]
    <3>1. f # path
      BY <1>0, <1>1, <2>5, Numbers DEF IInv, LogAscends
    <3>2. i \in DOMAIN content[f] /\ content'[f][i] = content[f][i]
          /\ content[f][i] < written + 1
      BY <1>4, <3>1
    <3> QED BY <1>4, <2>5, <3>2 DEF IInv, LogAscends
  <2> QED BY <2>1, <2>2, <2>3, <2>4, <2>5 DEF LogAscends
<1>6. PlaceKept'
  BY <1>0, <1>1, Numbers DEF IInv, PlaceKept, follower
<1>7. ASSUME NEW f \in Files, NEW k \in Nat, NewFrom(f, k),
             NEW i \in DOMAIN followed, NEW j \in DOMAIN content'[f], j > k
      PROVE  followed[i] < content'[f][j]
  <2>1. followed[i] \in Nat /\ followed[i] < written + 1
    BY <1>0, Numbers DEF IInv, UnreadIsNew
  <2> QED BY <1>4, <1>7, <2>1 DEF NewFrom
<1>8. UnreadIsNew'
  <2>1. \A i \in DOMAIN followed' : followed'[i] <= written'
    BY <1>0, <1>1, Numbers DEF IInv, UnreadIsNew, follower
  <2>2. (handle # None => handle \in Files) /\ pos \in Nat /\ 0 \in Nat
    BY <1>0 DEF TypeOK
  <2>3. handle # None => NewFrom(handle, pos)'
    BY <1>1, <1>7, <2>2 DEF IInv, UnreadIsNew, NewFrom, follower
  <2>4. handle # None /\ (pos > Len(content'[handle]) \/ pc = "rewind")
           => NewFrom(handle, 0)'
    <3>1. handle # None /\ pos > Len(content'[handle]) => pos > Len(content[handle])
      <4>1. CASE handle = path
        BY <1>2, <2>2, <4>1
      <4>2. CASE handle # path
        BY <1>1, <2>2, <4>2
      <4> QED BY <4>1, <4>2
    <3> QED BY <1>1, <1>7, <2>2, <3>1 DEF IInv, UnreadIsNew, NewFrom, follower
  <2>5. path # None /\ handle # path => NewFrom(path, 0)'
    BY <1>1, <1>7, <2>2 DEF IInv, UnreadIsNew, NewFrom, follower
  <2> QED BY <1>1, <2>1, <2>3, <2>4, <2>5 DEF UnreadIsNew, follower, NewFrom
<1> QED BY <1>1, <1>3, <1>5, <1>6, <1>8 DEF IInv, FollowsInOrder, follower

LEMMA RotationKeeps == IInv /\ (RotateRename \/ RotateCreate) => IInv'
<1> SUFFICES ASSUME IInv, RotateRename \/ RotateCreate PROVE IInv'
  OBVIOUS
<1>0. /\ TypeOK
      /\ files \in Nat /\ handle \in Nat /\ MaxFiles \in Nat
      /\ UNCHANGED <<content, written, truncations, follower>>
  BY FollowerAssumption, Numbers DEF IInv, RotateRename, RotateCreate
<1>1. CASE RotateRename
  <2>1. path' = None /\ files' = files
    BY <1>1 DEF RotateRename
  <2>2. TypeOK' /\ LogAscends'
    BY <1>0, <1>1, <2>1 DEF IInv, TypeOK, LogAscends, RotateRename, follower
  <2>3. PlaceKept' /\ UnreadIsNew'
    BY <1>0, <2>1 DEF IInv, TypeOK, PlaceKept, UnreadIsNew, NewFrom, follower
  <2> QED BY <1>0, <2>2, <2>3 DEF IInv, FollowsInOrder, follower
<1>2. CASE RotateCreate
  <2>1. /\ path = None /\ path' = files + 1 /\ files' = files + 1
        /\ files + 1 \in Files
    <3>1. files \in Files /\ path = None /\ files' = files + 1 /\ path' = files + 1
      BY <1>0, <1>2 DEF RotateCreate, TypeOK
    <3>2. files < MaxFiles
      BY <3>1 DEF IInv, LogAscends
    <3> QED BY <1>0, <3>1, <3>2 DEF Files
  <2>2. TypeOK' /\ LogAscends'
    BY <1>0, <2>1 DEF IInv, TypeOK, LogAscends, follower, Files, None
  <2>3. PlaceKept' /\ handle # path'
    BY <1>0, <2>1 DEF IInv, TypeOK, PlaceKept, follower
  <2>4. content[files + 1] = <<>>
    BY <1>0, <2>1 DEF IInv, LogAscends
  <2>5. UnreadIsNew'
    BY <1>0, <2>1, <2>4 DEF IInv, UnreadIsNew, NewFrom, follower
  <2> QED BY <1>0, <2>2, <2>3, <2>5 DEF IInv, FollowsInOrder, follower
<1> QED BY <1>1, <1>2

LEMMA TruncateKeeps == IInv /\ Truncate => IInv'
<1> SUFFICES ASSUME IInv, Truncate PROVE IInv'
  OBVIOUS
<1>1. /\ TypeOK /\ path \in Files /\ truncations \in Nat
      /\ content' = [content EXCEPT ![path] = <<>>]
      /\ UNCHANGED <<path, files, written, follower>>
      /\ truncations' = truncations + 1 /\ truncations < MaxTruncations
  BY Numbers DEF IInv, Truncate, TypeOK
<1>2. /\ \A f \in Files : content'[f] = content[f] \/ content'[f] = <<>>
      /\ \A f \in Files \ {path} : content'[f] = content[f]
      /\ content'[path] = <<>>
  BY <1>1 DEF TypeOK
<1>3. TypeOK'
  <2>1. content' \in [Files -> Seq(Lines)]
    BY <1>1 DEF TypeOK
  <2>2. truncations' \in 0..MaxTruncations /\ truncations' # 0
    BY <1>1, FollowerAssumption
  <2> QED BY <1>1, <2>1, <2>2 DEF TypeOK, follower
<1>4. LogAscends'
  <2>1. written \in Nat /\ Len(<<>>) = 0 /\ DOMAIN <<>> = {}
    BY <1>1, Numbers
  <2> QED BY <1>1, <1>2, <2>1 DEF IInv, LogAscends
<1>5. PlaceKept'
  BY <1>1 DEF IInv, PlaceKept, follower
<1>6. UnreadIsNew'
  <2>1. DOMAIN <<>> = {} /\ \A f \in Files : Len(content[f]) \in Nat
    BY <1>1, Numbers
  <2>2. handle # None => handle \in Files
    BY <1>1 DEF TypeOK
  <2>3. handle # path => content'[handle] = content[handle] \/ handle = None
    BY <1>2, <2>2
  <2> QED BY <1>1, <1>2, <2>1, <2>2, <2>3 DEF IInv, UnreadIsNew, NewFrom, follower
<1> QED BY <1>1, <1>3, <1>4, <1>5, <1>6 DEF IInv, FollowsInOrder, follower

\* A step of the follower leaves the log alone and, but for a drained line,
\* what it has shown.
LEMMA FollowerMoves ==
  ASSUME IInv, UNCHANGED <<log, followed>>,
         pc' \in Steps, handle' \in Files \cup {None},
         handle' <= files, pos' \in 0..written, offset' = pos',
         initial' \in Seq(Lines),
         pc' \in {"tail", "seek", "check", "reopen", "rewind", "drain"} => handle' # None,
         handle' # None /\ truncations = 0 => pos' <= Len(content[handle']),
         pc' \in {"open", "tail", "seek"} => followed = <<>> /\ pos' = 0,
         pc' = "reopen" => handle' # path,
         UnreadIsNew'
  PROVE  IInv'
<1>1. TypeOK' /\ PlaceKept'
  BY FollowerAssumption, Numbers DEF IInv, TypeOK, PlaceKept, log
<1>2. LogAscends' /\ FollowsInOrder'
  BY DEF IInv, LogAscends, FollowsInOrder, log
<1> QED BY <1>1, <1>2 DEF IInv

LEMMA StartKeeps == IInv /\ (StartOpen \/ ShowTail \/ SeekEnd) => IInv'
<1> SUFFICES ASSUME IInv, StartOpen \/ ShowTail \/ SeekEnd PROVE IInv'
  OBVIOUS
<1>0. /\ TypeOK /\ followed = <<>> /\ handle <= files
      /\ pos \in 0..written /\ offset = pos /\ initial \in Seq(Lines)
  BY Numbers DEF IInv, PlaceKept, TypeOK, StartOpen, ShowTail, SeekEnd
<1>1. /\ UNCHANGED <<log, followed>>
      /\ pc' \in {"tail", "seek", "wait"}
  BY DEF StartOpen, ShowTail, SeekEnd
<1>2. UnreadIsNew'
  BY <1>0, <1>1 DEF UnreadIsNew, NewFrom, log
<1>3. CASE StartOpen
  <2>1. /\ handle' = path /\ path \in Files \ {None} /\ path = files /\ pc' = "tail"
        /\ UNCHANGED <<pos, offset, initial>> /\ pos = 0
    BY <1>0, <1>3 DEF StartOpen, IInv, LogAscends, TypeOK, PlaceKept, None
  <2>2. 0 \in 0..written /\ files <= files /\ 0 <= Len(content[path])
    BY <1>0, <2>1, Numbers
  <2> QED BY <1>0, <1>1, <1>2, <2>1, <2>2, FollowerMoves DEF Steps, TypeOK
<1>4. CASE ShowTail
  <2>1. handle # None /\ UNCHANGED <<handle, pos, offset>> /\ pc' = "seek" /\ pos = 0
    BY <1>0, <1>4 DEF ShowTail, TypeOK, IInv, PlaceKept
  <2>2. Held(path) \in Seq(Lines)
    BY <1>0 DEF Held, TypeOK, None
  <2>3. initial' \in Seq(Lines)
    BY <1>4, <2>2, FollowerAssumption, SubSeqProperties DEF ShowTail
  <2> QED BY <1>0, <1>1, <1>2, <2>1, <2>3, FollowerMoves DEF TypeOK, Steps
<1>5. CASE SeekEnd
  <2>1. handle \in Files /\ Len(content[handle]) \in 0..written
    BY <1>0, <1>5, Numbers DEF SeekEnd, TypeOK, IInv, LogAscends
  <2> QED BY <1>0, <1>1, <1>2, <1>5, <2>1, FollowerMoves DEF SeekEnd, TypeOK, Steps
<1> QED BY <1>3, <1>4, <1>5

LEMMA TickKeeps == IInv /\ (Tick \/ Check \/ Reopen \/ Rewind) => IInv'
<1> SUFFICES ASSUME IInv, Tick \/ Check \/ Reopen \/ Rewind PROVE IInv'
  OBVIOUS
<1>0. /\ TypeOK /\ handle \in Files \cup {None} /\ handle <= files
      /\ path \in Files \cup {None} /\ path \in {None, files} /\ files \in Files
      /\ pos \in 0..written /\ offset = pos /\ initial \in Seq(Lines)
      /\ written \in Nat /\ files \in Nat
      /\ \A f \in Files : Len(content[f]) \in Nat
      /\ handle # None /\ truncations = 0 => pos <= Len(content[handle])
  BY Numbers DEF IInv, PlaceKept, LogAscends, TypeOK
<1>1. UNCHANGED <<log, followed, initial>>
  BY DEF Tick, Check, Reopen, Rewind
<1>2. CASE UNCHANGED <<handle, pos, offset>> /\ pc = "wait" /\ pc' = "check"
           /\ handle # None
  <2>1. UnreadIsNew'
    BY <1>1, <1>2 DEF IInv, UnreadIsNew, NewFrom, log
  <2> QED BY <1>0, <1>1, <1>2, <2>1, FollowerMoves DEF Steps
\* The file that has replaced the one followed, from its start.
<1>3. CASE OpenFresh /\ handle # path /\ path # None /\ pc' \in {"check", "drain"}
  <2>1. NewFrom(path, 0)
    BY <1>3 DEF IInv, UnreadIsNew
  <2>2. UnreadIsNew'
    BY <1>1, <1>3, <2>1 DEF IInv, OpenFresh, UnreadIsNew, NewFrom, log
  <2> QED BY <1>0, <1>1, <1>3, <2>2, FollowerMoves DEF OpenFresh, Steps
<1>4. CASE handle' = None /\ path = None /\ pc' = "wait" /\ offset' = pos'
           /\ pos' \in {pos, 0}
  <2>1. UnreadIsNew'
    BY <1>1, <1>4 DEF IInv, UnreadIsNew, log
  <2> QED BY <1>0, <1>1, <1>4, <2>1, FollowerMoves DEF Steps, None
<1>5. CASE Tick
  BY <1>2, <1>3, <1>5 DEF Tick
<1>6. CASE Reopen
  <2>1. handle # path
    BY <1>6 DEF Reopen, IInv, PlaceKept
  <2> QED BY <1>3, <1>4, <1>6, <2>1 DEF Reopen, OpenFresh
<1>7. CASE Check
  <2>1. handle # None /\ UNCHANGED <<pos, offset>>
    BY <1>0, <1>7 DEF Check, TypeOK
  <2>2. CASE path = None
    BY <1>0, <1>4, <1>7, <2>1, <2>2 DEF Check
  <2>3. CASE path # None
    <3>1. /\ handle' = handle /\ pc' \in {"reopen", "rewind", "drain"}
          /\ pc' = "reopen" => handle # path
          /\ pc' = "rewind" => handle = path /\ Len(content[handle]) < pos
      BY <1>0, <1>7, <2>3 DEF Check, Rotated
    <3>2. UnreadIsNew'
      BY <1>0, <1>1, <2>1, <3>1 DEF IInv, UnreadIsNew, NewFrom, log
    <3> QED BY <1>0, <1>1, <2>1, <3>1, <3>2, FollowerMoves DEF Steps
  <2> QED BY <2>2, <2>3
<1>8. CASE Rewind
  <2>1. handle # None /\ handle' = handle /\ pos' = 0 /\ offset' = 0 /\ pc' = "drain"
    BY <1>0, <1>8 DEF Rewind, TypeOK
  <2>2. NewFrom(handle, 0)
    BY <1>8, <2>1 DEF IInv, UnreadIsNew, Rewind
  <2>3. UnreadIsNew'
    BY <1>0, <1>1, <2>1, <2>2 DEF IInv, UnreadIsNew, NewFrom, log
  <2> QED BY <1>0, <1>1, <2>1, <2>3, FollowerMoves DEF Steps
<1> QED BY <1>5, <1>6, <1>7, <1>8

LEMMA DrainKeeps == IInv /\ (DrainLine \/ DrainEnd) => IInv'
<1> SUFFICES ASSUME IInv, DrainLine \/ DrainEnd PROVE IInv'
  OBVIOUS
<1>0. /\ TypeOK /\ handle \in Files /\ handle # None /\ handle <= files
      /\ pos \in 0..written /\ offset = pos /\ initial \in Seq(Lines)
      /\ written \in Nat /\ pos \in Nat /\ pc = "drain"
  BY Numbers DEF IInv, PlaceKept, TypeOK, DrainLine, DrainEnd
<1>1. CASE DrainEnd
  <2>1. UNCHANGED <<log, followed, initial, handle, pos, offset>> /\ pc' = "wait"
    BY <1>1 DEF DrainEnd
  <2>2. UnreadIsNew'
    BY <1>0, <2>1 DEF IInv, UnreadIsNew, NewFrom, log
  <2> QED BY <1>0, <2>1, <2>2, FollowerMoves DEF Steps, IInv, TypeOK
<1>2. CASE DrainLine
  <2> DEFINE line == content[handle][pos + 1]
  <2>1. /\ pos < Len(content[handle]) /\ followed' = Append(followed, line)
        /\ pos' = pos + 1 /\ offset' = offset + 1
        /\ UNCHANGED <<log, pc, handle, initial>>
    BY <1>2 DEF DrainLine
  <2>2. /\ DOMAIN content[handle] = 1..Len(content[handle])
        /\ Len(content[handle]) \in Nat /\ Len(content[handle]) <= written
        /\ pos + 1 \in DOMAIN content[handle]
        /\ line \in Lines /\ line \in Nat /\ line <= written
    <3>1. Len(content[handle]) <= written /\ content[handle] \in Seq(Lines)
      BY <1>0, Numbers DEF IInv, LogAscends
    <3>2. pos + 1 \in DOMAIN content[handle]
      BY <1>0, <2>1, Numbers
    <3>3. line \in Lines
      BY <3>1, <3>2, ElementOfSeq, <1>0, <2>1
    <3> QED BY <1>0, <3>1, <3>2, <3>3, Numbers DEF IInv, LogAscends
  <2>3. /\ followed' \in Seq(Lines) /\ followed \in Seq(Lines)
        /\ DOMAIN followed' = 1..(Len(followed) + 1)
        /\ DOMAIN followed = 1..Len(followed) /\ Len(followed) \in Nat
        /\ \A i \in DOMAIN followed : followed'[i] = followed[i]
        /\ followed'[Len(followed) + 1] = line
    BY <1>0, <2>1, <2>2, AppendProperties DEF TypeOK
  \* The drained line is newer than all lines followed before.
  <2>4. \A i \in DOMAIN followed : followed[i] < line
    BY <1>0, <2>2 DEF IInv, UnreadIsNew, NewFrom
  <2>5. \A i \in DOMAIN followed' : \/ i \in DOMAIN followed /\ followed'[i] = followed[i]
                                    \/ i = Len(followed) + 1 /\ followed'[i] = line
    BY <2>3
  <2>6. FollowsInOrder'
    <3> SUFFICES ASSUME NEW i \in DOMAIN followed', NEW j \in DOMAIN followed', i < j
                 PROVE  followed'[i] < followed'[j]
      BY DEF FollowsInOrder
    <3>1. i \in DOMAIN followed /\ followed'[i] = followed[i]
      BY <2>3, <2>5
    <3> QED BY <2>4, <2>5, <3>1 DEF IInv, FollowsInOrder
  <2>7. ASSUME NEW f \in Files, NEW k \in Nat, NewFrom(f, k),
               NEW j \in DOMAIN content[f], j > k, line < content[f][j],
               NEW i \in DOMAIN followed'
        PROVE  followed'[i] < content[f][j]
    BY <2>5, <2>7 DEF NewFrom
  <2>8. \A j \in DOMAIN content[handle] : j > pos + 1 => line < content[handle][j]
    BY <1>0, <2>2 DEF IInv, LogAscends
  <2>9. UnreadIsNew'
    <3>1. \A i \in DOMAIN followed' : followed'[i] <= written'
      BY <2>1, <2>2, <2>5 DEF IInv, UnreadIsNew, log
    <3>2. ASSUME NEW i \in DOMAIN followed', NEW j \in DOMAIN content[handle], j > pos + 1
          PROVE  followed'[i] < content[handle][j]
      <4>1. j \in Nat /\ j > pos /\ NewFrom(handle, pos)
        BY <1>0, <2>2, <3>2 DEF IInv, UnreadIsNew
      <4> QED BY <1>0, <2>7, <2>8, <3>2, <4>1
    <3>3. ~(pos' > Len(content'[handle'])) /\ pc' # "rewind"
      BY <1>0, <2>1, <2>2 DEF log
    <3>4. ASSUME path # None, handle # path,
                 NEW i \in DOMAIN followed', NEW j \in DOMAIN content[path], j > 0
          PROVE  followed'[i] < content[path][j]
      <4>1. path \in Files /\ handle < path /\ NewFrom(path, 0)
        BY <1>0, <3>4, Numbers DEF IInv, LogAscends, UnreadIsNew, TypeOK
      <4>2. line < content[path][j]
        BY <1>0, <2>2, <4>1 DEF IInv, LogAscends
      <4> QED BY <2>7, <3>4, <4>1, <4>2
    <3> QED BY <2>1, <3>1, <3>2, <3>3, <3>4 DEF UnreadIsNew, NewFrom, log
  <2>10. TypeOK' /\ PlaceKept'
    BY <1>0, <2>1, <2>2, <2>3, FollowerAssumption DEF IInv, TypeOK, PlaceKept, log
  <2>11. LogAscends'
    BY <2>1 DEF IInv, LogAscends, log
  <2> QED BY <2>6, <2>9, <2>10, <2>11 DEF IInv
<1> QED BY <1>1, <1>2

LEMMA StepKeeps == IInv /\ [Next]_vars => IInv'
<1>1. IInv /\ UNCHANGED vars => IInv'
  BY DEF IInv, TypeOK, LogAscends, PlaceKept, UnreadIsNew, NewFrom,
         FollowsInOrder, Held, vars, log, follower
<1> QED BY <1>1, AppendLineKeeps, RotationKeeps, TruncateKeeps, StartKeeps,
           TickKeeps, DrainKeeps DEF Next, Follow

\* Where the follower stands in the log, at every step of a tick.
THEOREM FollowerInductive == Spec => []IInv
<1>1. Init => IInv
  <2> SUFFICES ASSUME Init PROVE IInv
    OBVIOUS
  <2>1. /\ <<>> \in Seq(Lines) /\ Len(<<>>) = 0 /\ DOMAIN <<>> = {}
        /\ 1 \in Files /\ 0 \in 0..MaxLines /\ 0 \in 0..MaxTruncations
    BY FollowerAssumption DEF Files
  <2>2. TypeOK
    BY <2>1 DEF Init, TypeOK, Steps, None
  <2>3. LogAscends
    BY <2>1 DEF Init, LogAscends, Files, None
  <2>4. PlaceKept /\ UnreadIsNew /\ FollowsInOrder
    BY <2>1 DEF Init, PlaceKept, UnreadIsNew, FollowsInOrder, None, NewFrom
  <2> QED BY <2>2, <2>3, <2>4 DEF IInv
<1> QED BY <1>1, StepKeeps, PTL DEF Spec

\* Types: every step of a tick works on an open file, and only a truncation
\* takes the position beyond the size.
THEOREM FollowerTypeCorrect == Spec => []TypeOK
BY FollowerInductive, PTL DEF IInv

\* Lines are followed in the order they were written and never twice, however
\* the log is rotated, emptied and refilled between the follower's steps.
THEOREM LinesInOrder == Spec => []FollowsInOrder
BY FollowerInductive, PTL DEF IInv

-----------------------------------------------------------------------------
(* Nothing is skipped.                                                     *)

\* A file that is open and not shorter than the position has only grown behind
\* it, unless an emptied file regrew unseen.
LEMMA SkipsNothing ==
  ASSUME IInv, ~SilentRegrowth, NothingSkipped, [Next]_vars
  PROVE  NothingSkipped'
<1> SUFFICES ASSUME followed' # <<>>, pos' <= Len(Held(handle)'), NEW i \in 1..pos'
             PROVE  \/ Held(handle)'[i] < followed'[1]
                    \/ Held(handle)'[i] \in ToSet(followed')
  BY DEF NothingSkipped
<1>0. /\ TypeOK /\ offset = pos /\ pos \in Nat
      /\ \A f \in Files : /\ Len(content[f]) \in Nat
                          /\ DOMAIN content[f] = 1..Len(content[f])
      /\ pc \in {"open", "tail", "seek"} => followed = <<>>
  BY Numbers DEF IInv, PlaceKept
<1>1. handle' \in Files /\ handle' # None /\ Held(handle)' = content'[handle'] /\ pos' \in Nat
  <2>1. TypeOK'
    BY StepKeeps DEF IInv
  <2>2. handle' \in Files \cup {None} /\ pos' \in Nat
    BY <2>1, FollowerAssumption DEF TypeOK
  <2>3. handle' # None
    BY <2>2, FollowerAssumption DEF Held
  <2> QED BY <2>2, <2>3 DEF Held
\* The open file has the same lines up to the position, and no others are shown.
<1>2. ASSUME UNCHANGED <<handle, pos, followed>>, pos <= Len(content[handle]),
             content'[handle][i] = content[handle][i]
      PROVE  \/ Held(handle)'[i] < followed'[1]
             \/ Held(handle)'[i] \in ToSet(followed')
  BY <1>1, <1>2 DEF NothingSkipped, Held
<1>3. UNCHANGED <<handle, pos, followed, content>> => 
         \/ Held(handle)'[i] < followed'[1]
         \/ Held(handle)'[i] \in ToSet(followed')
  BY <1>1 DEF NothingSkipped, Held
<1>4. CASE AppendLine
  <2>1. /\ UNCHANGED <<handle, pos, followed>> /\ path \in Files /\ path # None
        /\ content' = [content EXCEPT ![path] = Append(@, written + 1)]
        /\ content \in [Files -> Seq(Lines)] /\ handle \in Files
        /\ ~Regrows
    BY <1>0, <1>1, <1>4 DEF AppendLine, follower, TypeOK
  <2>2. CASE handle # path
    BY <1>3, <1>1, <1>2, <2>1, <2>2
  <2>3. CASE handle = path
    <3>1. Len(content'[path]) = Len(content[path]) + 1
      BY <2>1
    <3>2. pos <= Len(content[path])
      BY <1>0, <1>1, <2>1, <2>3, <3>1 DEF Regrows
    <3>3. content'[handle][i] = content[handle][i]
      BY <1>0, <2>1, <2>3, <3>2
    <3> QED BY <1>2, <2>1, <2>3, <3>2, <3>3
  <2> QED BY <2>2, <2>3
<1>5. CASE Truncate
  <2>1. /\ UNCHANGED <<handle, pos, followed>> /\ path \in Files
        /\ content' = [content EXCEPT ![path] = <<>>]
        /\ content \in [Files -> Seq(Lines)] /\ handle \in Files
    BY <1>0, <1>1, <1>5 DEF Truncate, follower, TypeOK
  <2>2. handle # path
    BY <1>0, <1>1, <2>1
  <2> QED BY <1>1, <1>2, <2>1, <2>2
<1>6. CASE DrainLine
  <2>1. /\ pos < Len(content[handle]) /\ pos' = pos + 1 /\ pc = "drain"
        /\ followed' = Append(followed, content[handle][pos + 1])
        /\ UNCHANGED <<content, handle>>
    BY <1>6 DEF DrainLine, log
  <2>2. /\ followed \in Seq(Lines) /\ content[handle] \in Seq(Lines)
        /\ content[handle][pos + 1] \in Lines
    <3>1. followed \in Seq(Lines) /\ content[handle] \in Seq(Lines)
      BY <1>0, <1>1, <2>1 DEF TypeOK
    <3> QED BY <1>0, <1>1, <2>1, <3>1, ElementOfSeq
  <2>3. /\ DOMAIN followed' = 1..(Len(followed) + 1) /\ Len(followed) \in Nat
        /\ DOMAIN followed = 1..Len(followed)
        /\ \A k \in DOMAIN followed : followed'[k] = followed[k]
        /\ followed'[Len(followed) + 1] = content[handle][pos + 1]
    BY <2>1, <2>2, AppendProperties
  <2>4. CASE i = pos + 1
    BY <1>1, <2>1, <2>3, <2>4 DEF ToSet
  <2>5. CASE i # pos + 1 /\ followed = <<>>
    <3>1. followed'[1] = content[handle][pos + 1]
      BY <2>3, <2>5
    <3>2. i \in DOMAIN content[handle] /\ pos + 1 \in DOMAIN content[handle] /\ i < pos + 1
      BY <1>0, <1>1, <2>1, <2>5
    <3>3. content[handle][i] < content[handle][pos + 1]
      BY <1>1, <2>1, <3>2 DEF IInv, LogAscends
    <3> QED BY <1>1, <2>1, <3>1, <3>3
  <2>6. CASE i # pos + 1 /\ followed # <<>>
    <3>1. i \in 1..pos /\ 1 \in DOMAIN followed
      BY <1>0, <2>1, <2>2, <2>3, <2>6
    <3>2. content[handle][i] < followed[1] \/ content[handle][i] \in ToSet(followed)
      BY <1>0, <1>1, <2>1, <2>6, <3>1 DEF NothingSkipped, Held
    <3> QED BY <1>1, <2>1, <2>3, <3>1, <3>2 DEF ToSet
  <2> QED BY <2>4, <2>5, <2>6
<1>7. CASE SeekEnd
  BY <1>0, <1>7 DEF SeekEnd
<1>8. CASE RotateRename \/ RotateCreate \/ ShowTail \/ DrainEnd \/ UNCHANGED vars
  BY <1>3, <1>8 DEF RotateRename, RotateCreate, ShowTail, DrainEnd, vars, log, follower
<1>9. CASE StartOpen
  BY <1>0, <1>9 DEF StartOpen
<1>10. CASE Tick \/ Check \/ Reopen \/ Rewind
  <2>1. UNCHANGED content /\ UNCHANGED followed /\ pos' # 0
    BY <1>1, <1>10 DEF Tick, Check, Reopen, Rewind, log
  <2>2. UNCHANGED <<handle, pos>>
    BY <1>10, <1>1, <2>1 DEF Tick, Check, Reopen, Rewind, OpenFresh
  <2> QED BY <1>3, <2>1, <2>2
<1> QED BY <1>4, <1>5, <1>6, <1>7, <1>8, <1>9, <1>10 DEF Next, Follow

\* Behind the read position of the open file no line newer than the first one
\* followed is missing, unless an emptied file may regrow unseen.
THEOREM NothingIsSkipped == ASSUME ~SilentRegrowth PROVE Spec => []NothingSkipped
<1>1. Init => NothingSkipped
  BY DEF Init, NothingSkipped
<1>2. IInv /\ NothingSkipped /\ [Next]_vars => NothingSkipped'
  BY SkipsNothing
<1> QED BY FollowerInductive, <1>1, <1>2, PTL DEF Spec
=============================================================================
