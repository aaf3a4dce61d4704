------------------------ MODULE UpgradeRestartProofs ------------------------
(***************************************************************************)
(* Proofs about UpgradeRestart for any kegs and any number of processes:   *)
(* as long as only launchd's process serves the port, success proves that  *)
(* the service was restarted and, unless the opt link has moved meanwhile, *)
(* that it runs the confirmed keg.                                         *)
(***************************************************************************)
EXTENDS UpgradeRestart, TLAPS

-----------------------------------------------------------------------------
(* The inductive invariant.                                                *)

\* Whoever listens is launchd's, and was started through the opt link.
ServiceServes ==
    /\ port \in {None, job}
    /\ job # None => proc[job].path = "opt"

\* From the stop on, launchd's process is the one whose pid was taken down,
\* or a young one; the link leads to what the young ones run until it moves.
OldIsPrevious ==
    wpc # "unproven" /\ job # None =>
        /\ IF Young THEN proc[job].young \/ job = previous ELSE ~proc[job].young
        /\ proc[job].young /\ ~relinked => proc[job].keg = opt

\* If a poll lists another pid, every answer comes from a young process.
ListedIsYoung ==
    wpc \in {"ask", "judge"} /\ listed # previous /\ job # None => proc[job].young

AnswersForService ==
    wpc = "judge" =>
        /\ answer.service
        /\ answer.process.path = "opt"
        /\ listed # previous => answer.process.young
        /\ answer.process.young /\ ~relinked => answer.process.keg = opt

IInv == /\ TypeOK
        /\ ServiceServes /\ OldIsPrevious /\ ListedIsYoung /\ AnswersForService
        /\ ProvenIsTarget /\ ProvenIsRestarted

-----------------------------------------------------------------------------
LEMMA InitHolds == Init => IInv
<1> SUFFICES ASSUME Init PROVE IInv
  OBVIOUS
<1> USE RestartAssumption, NoneAssumption DEF Init
<1>1. proc \in [Pids -> Process \cup {None}]
  <2>1. \A k \in Kegs : [keg |-> k, path |-> "opt", young |-> FALSE] \in Process
    BY DEF Process
  <2> QED BY <2>1
<1>2. \A p \in Pids : Running(p) <=> p = job
  OBVIOUS
<1>3. TypeOK
  BY <1>1, <1>2 DEF TypeOK, Steps, Stages
<1>4. ASSUME job # None
      PROVE  proc[job].path = "opt" /\ ~proc[job].young
  BY <1>4, <1>2 DEF Running
<1>5. ServiceServes
  BY <1>4 DEF ServiceServes
<1>6. OldIsPrevious /\ ListedIsYoung
  BY <1>4 DEF OldIsPrevious, ListedIsYoung, Young
<1>7. AnswersForService /\ ProvenIsTarget /\ ProvenIsRestarted
  BY DEF AnswersForService, ProvenIsTarget, ProvenIsRestarted
<1> QED BY <1>3, <1>5, <1>6, <1>7 DEF IInv

\* A process starts, ends, or takes the port.
LEMMA ProcessesKeep ==
  ASSUME IInv, ~Foreign, NEW p \in Pids,
         \/ JobStarts(p) \/ Ends(p) \/ Listens(p)
         \/ \E path \in Kegs \cup {"opt"} : ManualStart(p, path)
  PROVE  IInv'
<1> USE RestartAssumption, NoneAssumption
     DEF IInv, TypeOK, ServiceServes, OldIsPrevious, ListedIsYoung, Young,
         AnswersForService, ProvenIsTarget, ProvenIsRestarted, Running, worker
<1>1. CASE JobStarts(p)
  <2>1. [keg |-> opt, path |-> "opt", young |-> Young] \in Process
    BY DEF Process
  <2> QED BY <1>1, <2>1 DEF JobStarts, Starts
<1>2. CASE Ends(p)
  BY <1>2 DEF Ends, Without
<1>3. CASE Listens(p)
  BY <1>3 DEF Listens
<1>4. ASSUME NEW path \in Kegs \cup {"opt"}, ManualStart(p, path)
      PROVE  IInv'
  <2>1. [keg |-> IF path = "opt" THEN opt ELSE path, path |-> path, young |-> Young]
          \in Process
    BY DEF Process
  <2> QED BY <1>4, <2>1 DEF ManualStart, Starts
<1> QED BY <1>1, <1>2, <1>3, <1>4

\* A user moves the opt link.
LEMMA LinkKeeps ==
  ASSUME IInv, LinkMoves
  PROVE  IInv'
<1> USE DEF IInv, LinkMoves, worker, Young
<1>1. TypeOK'
  BY DEF TypeOK, Running
<1>2. ServiceServes' /\ ListedIsYoung' /\ ProvenIsRestarted'
  BY DEF ServiceServes, ListedIsYoung, ProvenIsRestarted
<1>3. OldIsPrevious'
  BY DEF OldIsPrevious
<1>4. wpc \in {"judge", "succeeded"} => relinked'
  OBVIOUS
<1>5. AnswersForService' /\ ProvenIsTarget'
  BY <1>4 DEF AnswersForService, ProvenIsTarget
<1> QED BY <1>1, <1>2, <1>3, <1>5

\* The stages up to the restart.
LEMMA StagesKeep ==
  ASSUME IInv, ~Foreign, BrewUpgrade \/ ServicePid \/ BrewStop \/ BrewStart \/ GivesUp
  PROVE  IInv'
<1> USE RestartAssumption, NoneAssumption
     DEF IInv, TypeOK, ServiceServes, OldIsPrevious, ListedIsYoung, Young,
         AnswersForService, ProvenIsTarget, ProvenIsRestarted, Running, Step,
         Steps, Stages, Polls, service
<1>1. CASE BrewUpgrade
  BY <1>1 DEF BrewUpgrade
<1>2. CASE ServicePid
  BY <1>2 DEF ServicePid
<1>3. CASE BrewStop
  BY <1>3 DEF BrewStop, Without
<1>4. CASE BrewStart
  BY <1>4 DEF BrewStart
<1>5. CASE GivesUp
  BY <1>5 DEF GivesUp
<1> QED BY <1>1, <1>2, <1>3, <1>4, <1>5

\* One poll.
LEMMA PollsKeep ==
  ASSUME IInv, ListPid \/ Ask \/ Judge
  PROVE  IInv'
<1> USE RestartAssumption, NoneAssumption
     DEF IInv, TypeOK, ServiceServes, OldIsPrevious, ListedIsYoung, Young,
         AnswersForService, ProvenIsTarget, ProvenIsRestarted, Running,
         Steps, Stages, Polls, service
<1>1. CASE ListPid
  BY <1>1 DEF ListPid
<1>2. CASE Ask
  <2>1. CASE port = None
    BY <1>2, <2>1 DEF Ask
  <2>2. CASE port # None
    <3>1. port = job /\ proc[job] \in Process
      BY <2>2
    <3>2. answer' = [process |-> proc[job], service |-> TRUE]
      BY <1>2, <2>2, <3>1 DEF Ask
    <3>3. answer' \in Answer
      BY <3>1, <3>2 DEF Answer
    <3> QED BY <1>2, <2>2, <3>1, <3>2, <3>3 DEF Ask
  <2> QED BY <2>1, <2>2
<1>3. CASE Judge
  <2>1. CASE Proves
    BY <1>3, <2>1 DEF Judge, Proves, Resolved
  <2>2. CASE ~Proves
    BY <1>3, <2>2 DEF Judge
  <2> QED BY <2>1, <2>2
<1> QED BY <1>1, <1>2, <1>3

LEMMA InvariantKept == ASSUME ~Foreign PROVE IInv /\ [Next]_vars => IInv'
<1> SUFFICES ASSUME IInv, [Next]_vars PROVE IInv'
  OBVIOUS
<1>1. CASE UNCHANGED vars
  BY <1>1 DEF vars, service, worker, IInv, TypeOK, ServiceServes, OldIsPrevious,
     ListedIsYoung, Young, AnswersForService, ProvenIsTarget, ProvenIsRestarted, Running
<1> QED BY <1>1, ProcessesKeep, LinkKeeps, StagesKeep, PollsKeep DEF Next, Worker

LEMMA InvariantHolds == ASSUME ~Foreign PROVE Spec => []IInv
BY InitHolds, InvariantKept, PTL DEF Spec

\* If nobody else serves the port, who is listed, launchd's, or listening is a
\* process of the service, and every answer judged was given.
THEOREM RestartTypeCorrect == ASSUME ~Foreign PROVE Spec => []TypeOK
<1>1. IInv => TypeOK
  BY DEF IInv
<1> QED BY InvariantHolds, <1>1, PTL

\* If nobody else serves the port, a success that Worker.verify reports is that
\* of a launchd process started after the pid was taken down.
THEOREM SuccessIsRestart == ASSUME ~Foreign PROVE Spec => []ProvenIsRestarted
<1>1. IInv => ProvenIsRestarted
  BY DEF IInv
<1> QED BY InvariantHolds, <1>1, PTL

\* If nobody else serves the port, a success that Worker.verify reports is that
\* of a process running the confirmed keg, wherever the worker's brew left the
\* link, unless it was moved again after the pid was taken down.
THEOREM SuccessIsTarget == ASSUME ~Foreign PROVE Spec => []ProvenIsTarget
<1>1. IInv => ProvenIsTarget
  BY DEF IInv
<1> QED BY InvariantHolds, <1>1, PTL
=============================================================================
