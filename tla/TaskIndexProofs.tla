-------------------------- MODULE TaskIndexProofs --------------------------
(***************************************************************************)
(* Proofs about TaskIndex for any tasks, cleaners, bound and clock, with   *)
(* cleanups that overlap: the index is well-formed and bounded, and until  *)
(* one of them replaces an index it has not read, the summary of every     *)
(* removed task is retained.                                               *)
(***************************************************************************)
EXTENDS TaskIndex, FiniteSetTheorems, TLAPS

-----------------------------------------------------------------------------
(* The inductive invariants.                                               *)

\* A cleaner has a task, in the middle its record, and a finite index.
CleanerOK ==
    \A c \in Cleaners :
        /\ pc[c] # "idle" => cur[c] \in Tasks
        /\ pc[c] \in {"loaded", "read"} => rec[c] \in Record /\ rec[c].task = cur[c]
        /\ IsFiniteSet(read[c])

\* A directory holds the record of its own task.
DirTrue == \A t \in Tasks : dir[t] # NoRecord => dir[t].task = t

TInv == TypeOK /\ CleanerOK /\ DirTrue

\* A record is in a directory; a task that was created and has no record is
\* one whose files were removed.
Accounted ==
    /\ \A t \in Tasks : dir[t] # NoRecord => t \in there
    /\ \A t \in there : dir[t] = NoRecord => t \in gone
    /\ \A c \in Cleaners : pc[c] # "idle" => cur[c] \in there \cup gone

\* Files are removed by a cleaner that wrote the summary, or found them
\* removed.
Summarised ==
    /\ \A t \in gone : last[t] # NoRecord
    /\ \A c \in Cleaners : pc[c] = "indexed" => last[cur[c]] # NoRecord

\* Every entry of the index is the summary last written of its task, and
\* every such summary is there or was outlived.
IndexTrue ==
    ~raced => /\ \A e \in index : last[e.task] = e
              /\ \A t \in Tasks : last[t] # NoRecord =>
                     last[t].task = t /\ Retained(index, last[t])

IInv == TInv /\ Accounted /\ Summarised /\ IndexTrue

-----------------------------------------------------------------------------
(* appendIndex as an operation on sets of records.                         *)

\* What is kept of a set of records is part of it and within the bound.
LEMMA NewestBounded ==
  ASSUME NEW S, IsFiniteSet(S), NEW r, NEW K, Newest(Put(S, r), K)
  PROVE  /\ K \subseteq S \cup {r} /\ IsFiniteSet(K)
         /\ Cardinality(K) \in Nat /\ Cardinality(K) <= MaxRecords
<1>1. MaxRecords \in Nat
  BY IndexAssumption
<1>2. {e \in S : e.task # r.task} \in SUBSET S
  OBVIOUS
<1>3. IsFiniteSet(Put(S, r))
  BY <1>2, FS_Subset, FS_AddElement DEF Put
<1>4. K \in SUBSET Put(S, r)
  BY DEF Newest
<1>5. IsFiniteSet(K) /\ Cardinality(K) \in Nat
  BY <1>3, <1>4, FS_Subset, FS_CardinalityType
<1>6. Cardinality(K) <= MaxRecords
  BY <1>1, <1>5 DEF Newest
<1> QED BY <1>4, <1>5, <1>6 DEF Put

\* The summary that is added is retained by what is kept.
LEMMA AddedIsRetained ==
  ASSUME NEW S, NEW r, NEW K, Newest(Put(S, r), K)
  PROVE  Retained(K, r)
<1>1. r \in Put(S, r)
  BY DEF Put
<1>2. CASE r \in K
  BY <1>2 DEF Retained
<1>3. CASE r \notin K
  BY <1>1, <1>3 DEF Newest, Retained
<1> QED BY <1>2, <1>3

\* So is one that was retained before, unless a record of its own task or a
\* newer one of the other is given up.
LEMMA OthersAreRetained ==
  ASSUME NEW S \in SUBSET Record, IsFiniteSet(S), Cardinality(S) <= MaxRecords,
         NEW r \in Record, NEW g \in Record, g.task # r.task,
         \A e, d \in S : e.task = d.task => e = d,
         \A e \in S : /\ e.task = r.task => ~ (e.updated > r.updated)
                      /\ e.task = g.task => e = g,
         Retained(S, g),
         NEW K, Newest(Put(S, r), K)
  PROVE  Retained(K, g)
<1> DEFINE R == Put(S, r)
<1>0. MaxRecords \in Nat /\ Cardinality(S) \in Nat
  BY IndexAssumption, FS_CardinalityType
<1>1. R \subseteq S \cup {r} /\ r \in R /\ \A e \in S : e.task # r.task => e \in R
  BY DEF Put
<1>2. IsFiniteSet(R) /\ Cardinality(R) \in Nat
  <2>1. IsFiniteSet(S \cup {r})
    BY FS_AddElement
  <2> QED BY <1>1, <2>1, FS_Subset, FS_CardinalityType
<1>3. \A e \in S \cup R : e.updated \in Nat
  BY <1>1, IndexAssumption DEF Record
<1>4. g.updated \in Nat
  BY IndexAssumption DEF Record
<1>5. CASE \E e \in S : e.task = r.task
  <2>1. PICK o \in S : o.task = r.task
    BY <1>5
  <2>2. R = (S \ {o}) \cup {r} /\ r \notin S \ {o}
    BY <2>1 DEF Put
  <2>3. Cardinality(R) = Cardinality(S)
    <3>1. IsFiniteSet(S \ {o}) /\ Cardinality(S \ {o}) = Cardinality(S) - 1
      BY <2>1, FS_RemoveElement
    <3>2. Cardinality((S \ {o}) \cup {r}) = Cardinality(S \ {o}) + 1
      BY <2>2, <3>1, FS_AddElement
    <3> QED BY <1>0, <2>2, <3>1, <3>2
  <2>4. K = R
    BY <2>3 DEF Newest
  <2>5. CASE \E e \in S : e.task = g.task
    BY <1>1, <2>4, <2>5 DEF Retained
  <2>6. CASE ~ \E e \in S : e.task = g.task
    <3>1. Cardinality(S) = MaxRecords /\ \A e \in S : e.updated >= g.updated
      BY <2>6 DEF Retained
    <3>2. r.updated >= g.updated
      <4>1. o.updated >= g.updated /\ ~ (o.updated > r.updated)
        BY <2>1, <3>1
      <4> QED BY <1>1, <1>3, <1>4, <2>1, <4>1
    <3>3. \A e \in K : e.updated >= g.updated
      BY <2>2, <2>4, <3>1, <3>2
    <3> QED BY <2>3, <2>4, <3>1, <3>3 DEF Retained
  <2> QED BY <2>5, <2>6
<1>6. CASE ~ \E e \in S : e.task = r.task
  <2>1. R = S \cup {r} /\ r \notin S
    BY <1>6 DEF Put
  <2>2. Cardinality(R) = Cardinality(S) + 1
    BY <2>1, FS_AddElement
  <2>3. K \subseteq R
    BY DEF Newest
  <2>4. CASE K = R
    <3>1. Cardinality(R) <= MaxRecords
      BY <1>0, <1>2, <2>4 DEF Newest
    <3>2. Cardinality(S) # MaxRecords
      BY <1>0, <2>2, <3>1
    <3>3. PICK e \in S : e.task = g.task
      BY <3>2 DEF Retained
    <3> QED BY <2>1, <2>4, <3>3 DEF Retained
  <2>5. CASE K # R
    <3>1. /\ Cardinality(K) = MaxRecords
          /\ \A e \in K, d \in R \ K : e.updated >= d.updated
      BY <2>5 DEF Newest
    <3>2. CASE \E e \in S : e.task = g.task /\ e \in K
      BY <3>2 DEF Retained
    <3>3. CASE \E e \in S : e = g /\ e \notin K
      BY <2>1, <3>1, <3>3 DEF Retained
    <3>4. CASE ~ \E e \in S : e.task = g.task
      <4>1. \A e \in S : e.updated >= g.updated
        BY <3>4 DEF Retained
      <4>2. CASE r \notin K
        BY <2>1, <2>3, <3>1, <4>1, <4>2 DEF Retained
      <4>3. CASE r \in K
        <5>1. PICK s \in R \ K : TRUE
          BY <2>3, <2>5
        <5>2. s \in S /\ s.updated >= g.updated
          BY <2>1, <4>1, <4>3, <5>1
        <5>3. r.updated >= s.updated
          BY <3>1, <4>3, <5>1
        <5>4. r.updated >= g.updated
          BY <1>1, <1>3, <1>4, <5>2, <5>3
        <5>5. \A e \in K : e.updated >= g.updated
          BY <2>1, <2>3, <4>1, <5>4
        <5> QED BY <3>1, <5>5 DEF Retained
      <4> QED BY <4>2, <4>3
    <3> QED BY <3>2, <3>3, <3>4
  <2> QED BY <2>4, <2>5
<1> QED BY <1>5, <1>6

-----------------------------------------------------------------------------
(* Types.                                                                  *)

LEMMA SaveTyped ==
  ASSUME TInv, NEW t \in Tasks, NEW p \in BOOLEAN, Save(t, p)
  PROVE  /\ dir' \in [Tasks -> Record \cup {NoRecord}]
         /\ dir'[t] \in Record /\ dir'[t].task = t
         /\ \A s \in Tasks \ {t} : dir'[s] = dir[s]
<1>1. [task |-> t, updated |-> clock, pending |-> p] \in Record
  BY DEF TInv, TypeOK, Record
<1> QED BY <1>1 DEF TInv, TypeOK, Save

LEMMA TypesKept == TInv /\ [Next]_vars => TInv'
<1> SUFFICES ASSUME TInv, [Next]_vars PROVE TInv'
  OBVIOUS
<1> USE DEF TInv
<1>1. CASE Second
  BY <1>1, IndexAssumption DEF Second, TypeOK, CleanerOK, DirTrue, cleaner, past, Record
<1>2. ASSUME NEW t \in Tasks, Create(t) \/ Progress(t) \/ Finish(t)
      PROVE  TInv'
  <2>1. PICK p \in BOOLEAN : Save(t, p)
    BY <1>2 DEF Create, Progress, Finish
  <2>2. there' \subseteq Tasks /\ finished' \subseteq Tasks
    BY <1>2 DEF Create, Progress, Finish, TypeOK
  <2>3. TypeOK'
    BY <2>1, <2>2, SaveTyped DEF Save, TypeOK, cleaner
  <2>4. CleanerOK'
    BY <2>1 DEF Save, CleanerOK, cleaner
  <2>5. DirTrue'
    BY <2>1, SaveTyped DEF DirTrue
  <2> QED BY <2>3, <2>4, <2>5
<1>3. ASSUME NEW c \in Cleaners, NEW t \in Tasks, ListPending(c, t)
      PROVE  TInv'
  BY <1>3 DEF ListPending, Goto, TypeOK, CleanerOK, DirTrue, Steps, past
<1>4. ASSUME NEW c \in Cleaners, CleanupLoad(c)
      PROVE  TInv'
  <2>1. cur[c] \in Tasks
    BY <1>4 DEF CleanupLoad, CleanerOK
  <2>2. dir[cur[c]] # NoRecord => dir[cur[c]] \in Record /\ dir[cur[c]].task = cur[c]
    BY <2>1 DEF TypeOK, DirTrue
  <2>3. TypeOK'
    BY <1>4, <2>1 DEF CleanupLoad, Goto, TypeOK, Steps, past
  <2>4. CleanerOK'
    BY <1>4, <2>1, <2>2 DEF CleanupLoad, Goto, TypeOK, CleanerOK
  <2> QED BY <1>4, <2>3, <2>4 DEF CleanupLoad, DirTrue
<1>5. ASSUME NEW c \in Cleaners, ReadIndex(c)
      PROVE  TInv'
  BY <1>5 DEF ReadIndex, Goto, TypeOK, CleanerOK, DirTrue, Steps, past
<1>6. ASSUME NEW c \in Cleaners, WriteIndex(c)
      PROVE  TInv'
  <2>1. /\ rec[c] \in Record /\ cur[c] \in Tasks
        /\ read[c] \subseteq Record /\ IsFiniteSet(read[c])
    BY <1>6 DEF WriteIndex, TypeOK, CleanerOK
  <2>2. Newest(Put(read[c], rec[c]), index')
    BY <1>6 DEF WriteIndex
  <2>3. /\ index' \subseteq read[c] \cup {rec[c]} /\ IsFiniteSet(index')
        /\ Cardinality(index') <= MaxRecords
    BY <2>1, <2>2, NewestBounded
  <2>4. index' \subseteq Record /\ IsFiniteSet({})
    BY <2>1, <2>3, FS_EmptySet
  <2>5. raced' \in BOOLEAN
    BY <1>6 DEF WriteIndex, TypeOK
  <2>6. TypeOK'
    BY <1>6, <2>1, <2>3, <2>4, <2>5 DEF WriteIndex, Goto, TypeOK, Steps
  <2>7. CleanerOK'
    BY <1>6, <2>4 DEF WriteIndex, Goto, TypeOK, CleanerOK
  <2> QED BY <1>6, <2>6, <2>7 DEF WriteIndex, DirTrue
<1>7. ASSUME NEW c \in Cleaners, RemoveFiles(c)
      PROVE  TInv'
  <2>1. cur[c] \in Tasks
    BY <1>7 DEF RemoveFiles, CleanerOK
  <2>2. TypeOK'
    BY <1>7, <2>1 DEF RemoveFiles, Goto, TypeOK, Steps
  <2>3. CleanerOK'
    BY <1>7 DEF RemoveFiles, Goto, TypeOK, CleanerOK
  <2> QED BY <1>7, <2>2, <2>3 DEF RemoveFiles, TypeOK, DirTrue
<1>8. ASSUME NEW c \in Cleaners, RemoveDir(c) \/ Dies(c)
      PROVE  TInv'
  <2>1. IsFiniteSet({})
    BY FS_EmptySet
  <2>2. there' \subseteq Tasks
    BY <1>8 DEF RemoveDir, Dies, TypeOK
  <2>3. Leave(c) /\ UNCHANGED <<clock, dir, finished, index, past>>
    BY <1>8 DEF RemoveDir, Dies
  <2> QED BY <2>1, <2>2, <2>3
          DEF Leave, Goto, TypeOK, CleanerOK, DirTrue, Steps, past
<1>9. CASE UNCHANGED vars
  BY <1>9 DEF vars, cleaner, past, TypeOK, CleanerOK, DirTrue
<1> QED BY <1>1, <1>2, <1>3, <1>4, <1>5, <1>6, <1>7, <1>8, <1>9 DEF Next, Cleaning

LEMMA InitTyped == Init => TInv
<1> SUFFICES ASSUME Init PROVE TInv
  OBVIOUS
<1>1. IsFiniteSet({}) /\ Cardinality({}) = 0
  BY FS_EmptySet
<1>2. TypeOK
  <2>1. clock \in 0 .. MaxTime
    BY IndexAssumption DEF Init
  <2>2. index \subseteq Record /\ IsFiniteSet(index) /\ Cardinality(index) <= MaxRecords
    BY <1>1, IndexAssumption DEF Init
  <2>3. there \subseteq Tasks /\ finished \subseteq Tasks /\ gone \subseteq Tasks
    BY DEF Init
  <2>4. /\ pc \in [Cleaners -> Steps]
        /\ cur \in [Cleaners -> Tasks \cup {NoRecord}]
        /\ rec \in [Cleaners -> Record \cup {NoRecord}]
        /\ read \in [Cleaners -> SUBSET Record]
    BY DEF Init, Steps
  <2>5. /\ dir \in [Tasks -> Record \cup {NoRecord}]
        /\ last \in [Tasks -> Record \cup {NoRecord}]
        /\ raced \in BOOLEAN
    BY DEF Init
  <2> QED BY <2>1, <2>2, <2>3, <2>4, <2>5 DEF TypeOK
<1>3. CleanerOK /\ DirTrue
  BY <1>1 DEF Init, CleanerOK, DirTrue
<1> QED BY <1>2, <1>3 DEF TInv

\* The index stays bounded and well-formed (appendIndex), also when cleanups
\* of several readers overlap.
THEOREM IndexTypeCorrect == Spec => []TypeOK
<1>1. TInv => TypeOK
  BY DEF TInv
<1> QED BY InitTyped, TypesKept, <1>1, PTL DEF Spec

-----------------------------------------------------------------------------
(* Retention.                                                              *)

LEMMA InitRetains == Init => IInv
<1> SUFFICES ASSUME Init PROVE IInv
  OBVIOUS
<1>1. TInv
  BY InitTyped
<1> QED BY <1>1 DEF Init, IInv, Accounted, Summarised, IndexTrue

\* A save touches neither summaries nor what was removed.
LEMMA SaveRetains ==
  ASSUME IInv, NEW t \in Tasks, Create(t) \/ Progress(t) \/ Finish(t), TInv'
  PROVE  IInv'
<1> USE DEF IInv, TInv
<1>1. PICK p \in BOOLEAN : Save(t, p)
  BY DEF Create, Progress, Finish
<1>2. UNCHANGED <<index, pc, cur, gone, last, raced>>
  BY <1>1 DEF Save, cleaner
<1>3. there \subseteq there' /\ there' \subseteq there \cup {t}
  BY DEF Create, Progress, Finish
<1>4. dir'[t] # NoRecord /\ \A s \in Tasks \ {t} : dir'[s] = dir[s]
  BY <1>1, SaveTyped, NoRecordAssumption
<1>5. Accounted'
  <2>1. \A s \in Tasks : dir'[s] # NoRecord => s \in there'
    <3>1. t \in there'
      BY DEF Create, Progress, Finish, Accounted
    <3> QED BY <1>3, <1>4, <3>1 DEF Accounted
  <2>2. \A s \in there' : dir'[s] = NoRecord => s \in gone'
    BY <1>2, <1>3, <1>4 DEF Accounted, TypeOK
  <2>3. \A c \in Cleaners : pc'[c] # "idle" => cur'[c] \in there' \cup gone'
    BY <1>2, <1>3 DEF Accounted
  <2> QED BY <2>1, <2>2, <2>3 DEF Accounted
<1>6. Summarised' /\ IndexTrue'
  BY <1>2 DEF Summarised, IndexTrue, Retained
<1> QED BY <1>5, <1>6

\* The new index retains the cleaner's record, and what the old one retained.
LEMMA WriteRetains ==
  ASSUME IInv, NEW c \in Cleaners, WriteIndex(c), TInv'
  PROVE  IInv'
<1> USE DEF IInv, TInv
<1>1. /\ cur[c] \in Tasks /\ rec[c] \in Record /\ rec[c].task = cur[c]
      /\ rec[c] # NoRecord
  <2>1. cur[c] \in Tasks /\ rec[c] \in Record /\ rec[c].task = cur[c]
    BY DEF WriteIndex, CleanerOK
  <2> QED BY <2>1, NoRecordAssumption
<1>2. /\ UNCHANGED <<there, dir, gone, cur>>
      /\ pc' = [pc EXCEPT ![c] = "indexed"] /\ pc[c] = "read"
      /\ last' = [last EXCEPT ![cur[c]] = rec[c]]
      /\ Newest(Put(read[c], rec[c]), index')
      /\ raced' = (raced \/ Races(c))
  BY DEF WriteIndex, Goto
<1>3. /\ last'[cur[c]] = rec[c]
      /\ \A t \in Tasks : t # cur[c] => last'[t] = last[t]
  BY <1>1, <1>2 DEF TypeOK
<1>4. Accounted'
  BY <1>2 DEF Accounted, TypeOK
<1>5. Summarised'
  <2>1. \A t \in gone : last'[t] # NoRecord
    BY <1>1, <1>3 DEF Summarised, TypeOK
  <2>2. ASSUME NEW d \in Cleaners, pc'[d] = "indexed"
        PROVE  last'[cur[d]] # NoRecord
    <3>1. pc[d] # "idle" => cur[d] \in Tasks
      BY DEF CleanerOK
    <3>2. CASE d = c
      BY <1>1, <1>3, <3>2
    <3>3. CASE d # c
      <4>1. pc[d] = "indexed"
        BY <1>2, <2>2, <3>3 DEF TypeOK
      <4> QED BY <1>1, <1>3, <3>1, <4>1 DEF Summarised
    <3> QED BY <3>2, <3>3
  <2> QED BY <1>2, <2>1, <2>2 DEF Summarised
<1>6. IndexTrue'
  <2> SUFFICES ASSUME ~raced, ~Races(c)
               PROVE  /\ \A e \in index' : last'[e.task] = e
                      /\ \A t \in Tasks : last'[t] # NoRecord =>
                             last'[t].task = t /\ Retained(index', last'[t])
    BY <1>2 DEF IndexTrue
  <2>1. /\ Newest(Put(index, rec[c]), index')
        /\ \A e \in index : e.task = rec[c].task => ~ (e.updated > rec[c].updated)
    BY <1>2 DEF Races
  <2>2. \A e \in index : e.task \in Tasks
    BY DEF TypeOK, Record
  <2>3. ASSUME NEW e \in index' PROVE last'[e.task] = e
    <3>1. e = rec[c] \/ (e \in index /\ e.task # rec[c].task)
      BY <2>1 DEF Newest, Put
    <3> QED BY <1>1, <1>3, <2>2, <3>1 DEF IndexTrue
  <2>4. ASSUME NEW t \in Tasks, last'[t] # NoRecord
        PROVE  last'[t].task = t /\ Retained(index', last'[t])
    <3>1. CASE t = cur[c]
      BY <1>1, <1>3, <2>1, <3>1, AddedIsRetained
    <3>2. CASE t # cur[c]
      <4>1. last'[t] = last[t] /\ last[t] \in Record
        BY <1>3, <2>4, <3>2 DEF TypeOK
      <4>2. last[t].task = t /\ Retained(index, last[t])
        BY <2>4, <4>1 DEF IndexTrue
      <4>3. /\ index \in SUBSET Record /\ IsFiniteSet(index)
            /\ Cardinality(index) <= MaxRecords
        BY DEF TypeOK
      <4>4. /\ \A e, d \in index : e.task = d.task => e = d
            /\ \A e \in index : e.task = last[t].task => e = last[t]
        BY <4>2 DEF IndexTrue
      <4>5. last[t].task # rec[c].task
        BY <1>1, <3>2, <4>2
      <4>6. Retained(index', last[t])
        BY <1>1, <2>1, <4>1, <4>2, <4>3, <4>4, <4>5, OthersAreRetained
      <4> QED BY <4>1, <4>2, <4>6
    <3> QED BY <3>1, <3>2
  <2> QED BY <2>3, <2>4
<1> QED BY <1>4, <1>5, <1>6

\* The files go after the summary was written.
LEMMA RemoveRetains ==
  ASSUME IInv, NEW c \in Cleaners, RemoveFiles(c), TInv'
  PROVE  IInv'
<1> USE DEF IInv, TInv
<1>1. /\ UNCHANGED <<there, cur, index, last, raced>>
      /\ dir' = [dir EXCEPT ![cur[c]] = NoRecord]
      /\ gone' = gone \cup {cur[c]}
      /\ pc' = [pc EXCEPT ![c] = "emptied"] /\ pc[c] = "indexed"
  BY DEF RemoveFiles, Goto
<1>2. Accounted'
  BY <1>1 DEF Accounted, TypeOK
<1>3. Summarised'
  BY <1>1 DEF Summarised, TypeOK
<1>4. IndexTrue'
  BY <1>1 DEF IndexTrue, Retained
<1> QED BY <1>2, <1>3, <1>4

\* The other steps of a cleaner change no summary.
LEMMA CleanerStepRetains ==
  ASSUME IInv, NEW c \in Cleaners, TInv',
         \/ CleanupLoad(c) \/ ReadIndex(c) \/ RemoveDir(c) \/ Dies(c)
         \/ \E t \in Tasks : ListPending(c, t)
  PROVE  IInv'
<1> USE DEF IInv, TInv
<1>1. UNCHANGED <<dir, index, gone, last, raced>> /\ there' \subseteq there
  BY DEF CleanupLoad, ReadIndex, RemoveDir, Dies, ListPending, past
<1>2. IndexTrue'
  BY <1>1 DEF IndexTrue, Retained
<1>3. CASE ReadIndex(c)
  BY <1>1, <1>2, <1>3 DEF ReadIndex, Goto, TypeOK, Accounted, Summarised
<1>4. CASE CleanupLoad(c)
  <2>1. cur[c] \in Tasks /\ (dir[cur[c]] = NoRecord => last[cur[c]] # NoRecord)
    BY <1>4 DEF CleanupLoad, CleanerOK, Accounted, Summarised
  <2>2. Accounted'
    BY <1>1, <1>4 DEF CleanupLoad, Goto, TypeOK, Accounted
  <2>3. Summarised'
    BY <1>1, <1>4, <2>1 DEF CleanupLoad, Goto, TypeOK, Summarised
  <2> QED BY <1>2, <2>2, <2>3
<1>5. CASE RemoveDir(c) \/ Dies(c)
  <2>1. /\ Leave(c) /\ there \subseteq there' \cup gone
        /\ \A t \in Tasks : dir[t] # NoRecord => t \in there'
    <3>1. CASE RemoveDir(c)
      <4>1. dir[cur[c]] = NoRecord => cur[c] \in gone
        BY <3>1 DEF RemoveDir, Accounted
      <4> QED BY <3>1, <4>1 DEF RemoveDir, Accounted
    <3>2. CASE Dies(c)
      BY <3>2 DEF Dies, Accounted
    <3> QED BY <1>5, <3>1, <3>2
  <2>2. Accounted'
    BY <1>1, <2>1 DEF Leave, Goto, TypeOK, Accounted
  <2>3. Summarised'
    BY <1>1, <2>1 DEF Leave, Goto, TypeOK, Summarised
  <2> QED BY <1>2, <2>2, <2>3
<1>6. ASSUME NEW t \in Tasks, ListPending(c, t)
      PROVE  IInv'
  <2>1. t \in there \cup gone
    BY <1>6 DEF ListPending, Accounted
  <2>2. Accounted'
    BY <1>1, <1>6, <2>1 DEF ListPending, Goto, TypeOK, Accounted
  <2>3. Summarised'
    BY <1>1, <1>6 DEF ListPending, Goto, TypeOK, Summarised
  <2> QED BY <1>2, <2>2, <2>3
<1> QED BY <1>3, <1>4, <1>5, <1>6

LEMMA RetentionKept == IInv /\ [Next]_vars => IInv'
<1> SUFFICES ASSUME IInv, [Next]_vars PROVE IInv'
  OBVIOUS
<1>1. TInv'
  BY TypesKept DEF IInv
<1>2. CASE Second
  BY <1>1, <1>2 DEF Second, cleaner, past, IInv, Accounted, Summarised,
                    IndexTrue, Retained
<1>3. ASSUME NEW t \in Tasks, Create(t) \/ Progress(t) \/ Finish(t)
      PROVE  IInv'
  BY <1>1, <1>3, SaveRetains
<1>4. ASSUME NEW c \in Cleaners, WriteIndex(c)
      PROVE  IInv'
  BY <1>1, <1>4, WriteRetains
<1>5. ASSUME NEW c \in Cleaners, RemoveFiles(c)
      PROVE  IInv'
  BY <1>1, <1>5, RemoveRetains
<1>6. ASSUME NEW c \in Cleaners,
             \/ CleanupLoad(c) \/ ReadIndex(c) \/ RemoveDir(c) \/ Dies(c)
             \/ \E t \in Tasks : ListPending(c, t)
      PROVE  IInv'
  BY <1>1, <1>6, CleanerStepRetains
<1>7. CASE UNCHANGED vars
  BY <1>1, <1>7 DEF vars, cleaner, past, IInv, Accounted, Summarised,
                    IndexTrue, Retained
<1> QED BY <1>2, <1>3, <1>4, <1>5, <1>6, <1>7 DEF Next, Cleaning

\* However cleanups overlap, are interrupted and are repeated, and whatever is
\* saved under them: files are removed after their summary was written, and
\* until an index is replaced that was not read (appendIndex takes no lock)
\* the summary stays until MaxRecords tasks that ended no earlier replaced it.
THEOREM SummariesRetained == Spec => []SummaryRetained
<1>1. IInv => SummaryRetained
  BY DEF IInv, TInv, TypeOK, Summarised, IndexTrue, SummaryRetained
<1> QED BY InitRetains, RetentionKept, <1>1, PTL DEF Spec
=============================================================================
