-------------------------- MODULE ManagedProcsProofs --------------------------
(***************************************************************************)
(* ManagedProcs for any number of commands, any limit on suites and any    *)
(* budget of events: types, docker under its holders, the queue's order.   *)
(***************************************************************************)
EXTENDS ManagedProcs, TLAPS

Steps == Looping \cup {"leave", "admitted", "hold", "lock", "fail", "ended", "unknown", "dead"} \cup Critical \cup Working

OrderOK ==
  /\ order \in Seq(Procs)
  /\ \A i, j \in DOMAIN order : order[i] = order[j] => i = j
FilesOK ==
  /\ pc \in [Procs -> Steps]
  /\ file \in [Procs -> {"none", "waiting", "cancelled"}]
  /\ names \in [Procs -> SUBSET Procs] /\ listed \in [Procs -> SUBSET Procs]
  /\ todo \in [Procs -> SUBSET {"slot", "entry"}]
  /\ before \in [Procs -> SUBSET Procs]
  /\ canceller \in Procs \cup {NoOne}
  /\ cancelled \in SUBSET Procs
HoldsOK ==
  /\ slot \in [Procs -> {"none", "command", "process"}]
  /\ hold \in [Procs -> {"none", "command", "process"}]
  /\ panes \in SUBSET Procs
  /\ lock \in Procs \cup {Reaper, NoOne}
  /\ docker \in {"up", "down"} /\ marker \in BOOLEAN
  /\ reaper \in {"off", "watch", "idle", "check", "stop", "exit"}
BudgetOK == budget \in [Events -> Nat]

(* The type invariant in parts that different steps touch.                 *)
LEMMA TypeParts == ProcTypeOK <=> OrderOK /\ FilesOK /\ HoldsOK /\ BudgetOK
BY DEF ProcTypeOK, OrderOK, FilesOK, HoldsOK, BudgetOK, Steps

(* A budget stays one.                                                     *)
LEMMA Spends ==
  ASSUME BudgetOK, NEW e \in Events, Spend(e)
  PROVE  BudgetOK'
BY DEF BudgetOK, Spend, Events

(* A step of one command moves no other.                                   *)
LEMMA Goes ==
  ASSUME pc \in [Procs -> Steps], NEW p \in Procs, NEW s \in Steps, Goto(p, s)
  PROVE  pc' \in [Procs -> Steps] /\ pc'[p] = s /\ \A q \in Procs \ {p} : pc'[q] = pc[q]
BY DEF Goto

(* Holds of the dead are dropped, the others stay what they are.           *)
LEMMA Prunes ==
  ASSUME NEW h \in [Procs -> {"none", "command", "process"}]
  PROVE  Pruned(h) \in [Procs -> {"none", "command", "process"}]
BY DEF Pruned

(* The order grows at its end, by who has no place in it yet.              *)
LEMMA OrderStep ==
  ASSUME OrderOK, [Next]_vars
  PROVE  /\ OrderOK'
         /\ order' = order \/ \E p \in Procs : Stamp(p) /\ ~HasEntry(p) /\ order' = Append(order, p)
<1>1. ASSUME NEW p \in Procs, Stamp(p), ~HasEntry(p)
      PROVE  OrderOK' /\ order' = Append(order, p)
  BY <1>1 DEF Stamp, HasEntry, OrderOK
<1>2. ASSUME NEW p \in Procs, Stamp(p), HasEntry(p)
      PROVE  order' = order
  BY <1>2 DEF Stamp
<1>3. ASSUME ~ \E p \in Procs : Stamp(p)
      PROVE  order' = order
  BY <1>3 DEF Next, Waiting, HoldDocker, Works, Reaps, vars, queue, Look, Leave, ReadDir, ReadEntry, Judge,
       Admit, TakeSlot, RemoveEntry, Defer, Refuse, WriteEntry, TakeHold, Lock, LockTimeout, DockerUp,
       OrbStart, OrbStartFails, WriteMarker, EnsureReaper, ReaperFails, Fail, Run, RunEnds, Launch,
       LaunchFails, Reassign, ReassignFails, PaneEnds, Die, CancelRead, CancelMark, ReapIdle, ReapLock, ReapCheck,
       OrbStop, ReapExit, ReaperDies, UserStarts, UserStops
<1>4. order' = order => OrderOK'
  BY DEF OrderOK
<1> QED BY <1>1, <1>2, <1>3, <1>4

(* What each kind of step does to the types.                               *)
LEMMA QueueTypes ==
  ASSUME FilesOK, HoldsOK, BudgetOK, NEW p \in Procs, Waiting(p)
  PROVE  FilesOK' /\ HoldsOK' /\ BudgetOK'
<1> USE DEF FilesOK, HoldsOK, BudgetOK, Steps, Looping, Critical, Working, engine, asked, queue
<1>1. CASE Look(p) \/ Leave(p) \/ ReadDir(p) \/ Refuse(p) \/ WriteEntry(p)
  BY <1>1 DEF Look, Leave, ReadDir, Refuse, WriteEntry, Goto
<1>2. CASE ReadEntry(p)
  BY <1>2 DEF ReadEntry
<1>3. CASE Admit(p)
  BY <1>3, Prunes DEF Admit, Goto, Onward
<1>4. CASE TakeSlot(p) \/ RemoveEntry(p)
  BY <1>4 DEF TakeSlot, RemoveEntry, Done, Onward
<1>5. CASE Defer(p)
  <2>1. BudgetOK'
    BY <1>5, Spends DEF Defer, Events
  <2> QED BY <1>5, <2>1, Prunes DEF Defer, Goto
<1>6. CASE Judge(p)
  BY <1>6 DEF Judge, Goto
<1>7. CASE Stamp(p)
  BY <1>7 DEF Stamp, Goto
<1> QED BY <1>1, <1>2, <1>3, <1>4, <1>5, <1>6, <1>7 DEF Waiting

(* The steps of holdDocker.                                                *)
LEMMA DockerTypes ==
  ASSUME FilesOK, HoldsOK, BudgetOK, NEW p \in Procs, HoldDocker(p)
  PROVE  FilesOK' /\ HoldsOK' /\ BudgetOK'
<1> USE DEF FilesOK, HoldsOK, BudgetOK, Steps, Looping, Critical, Working, engine, asked, queue
<1>1. CASE TakeHold(p) \/ Lock(p) \/ DockerUp(p)
  BY <1>1 DEF TakeHold, Lock, DockerUp, Goto
<1>2. CASE OrbStart(p)
  BY <1>2 DEF OrbStart, Goto
<1>3. CASE WriteMarker(p)
  <2>1. marker' \in BOOLEAN
    BY <1>3, Zenon DEF WriteMarker
  <2> QED BY <1>3, <2>1 DEF WriteMarker, Goto
<1>4. CASE EnsureReaper(p) \/ Fail(p)
  BY <1>4 DEF EnsureReaper, Fail, Goto
<1>5. CASE LockTimeout(p) \/ OrbStartFails(p) \/ ReaperFails(p)
  <2>1. BudgetOK'
    BY <1>5, Spends DEF LockTimeout, OrbStartFails, ReaperFails, Events
  <2> QED BY <1>5, <2>1 DEF LockTimeout, OrbStartFails, ReaperFails, Goto
<1> QED BY <1>1, <1>5, <1>2, <1>4, <1>3 DEF HoldDocker

(* The start of a process, its end, a death, a cancellation.               *)
LEMMA ProcessTypes ==
  ASSUME FilesOK, HoldsOK, BudgetOK, NEW p \in Procs, Works(p) \/ PaneEnds(p) \/ Die(p) \/ CancelRead(p) \/ CancelMark(p)
  PROVE  FilesOK' /\ HoldsOK' /\ BudgetOK'
<1> USE DEF FilesOK, HoldsOK, BudgetOK, Steps, Looping, Critical, Working, engine, asked, queue
<1>1. CASE Run(p) \/ RunEnds(p)
  BY <1>1 DEF Run, RunEnds, ReleaseHolds, Goto
<1>2. CASE Launch(p) \/ Reassign(p)
  BY <1>2 DEF Launch, Reassign, Goto
<1>3. CASE PaneEnds(p) \/ CancelMark(p)
  BY <1>3 DEF PaneEnds, CancelMark
<1>4. CASE LaunchFails(p) \/ ReassignFails(p) \/ Die(p) \/ CancelRead(p)
  <2>1. BudgetOK'
    BY <1>4, Spends DEF LaunchFails, ReassignFails, Die, CancelRead, Events
  <2> QED BY <1>4, <2>1 DEF LaunchFails, ReassignFails, Die, CancelRead, ReleaseHolds, Goto
<1> QED BY <1>1, <1>4, <1>2, <1>3 DEF Works

(* The reaper and whoever else starts or stops docker.                     *)
LEMMA ReaperTypes ==
  ASSUME FilesOK, HoldsOK, BudgetOK, Reaps \/ ReaperDies \/ UserStarts \/ UserStops
  PROVE  FilesOK' /\ HoldsOK' /\ BudgetOK'
<1> USE DEF FilesOK, HoldsOK, BudgetOK, engine, asked, queue
<1>1. CASE Reaps
  <2>1. BudgetOK'
    BY <1>1, Spends DEF Reaps, ReapIdle, ReapLock, ReapCheck, OrbStop, ReapExit, Events
  <2> QED BY <1>1, <2>1, Prunes DEF Reaps, ReapIdle, ReapLock, ReapCheck, OrbStop, ReapExit
<1>2. CASE ReaperDies \/ UserStarts \/ UserStops
  <2>1. BudgetOK'
    BY <1>2, Spends DEF ReaperDies, UserStarts, UserStops, Events
  <2> QED BY <1>2, <2>1 DEF ReaperDies, UserStarts, UserStops
<1> QED BY <1>1, <1>2

(* All of them.                                                            *)
LEMMA FilesStep ==
  ASSUME FilesOK, HoldsOK, BudgetOK, [Next]_vars
  PROVE  FilesOK' /\ HoldsOK' /\ BudgetOK'
<1>1. CASE UNCHANGED vars
  BY <1>1 DEF vars, queue, engine, asked, FilesOK, HoldsOK, BudgetOK, Steps
<1>2. CASE Next
  BY <1>2, QueueTypes, DockerTypes, ProcessTypes, ReaperTypes DEF Next
<1> QED BY <1>1, <1>2

(* The types are inductive.                                                *)
LEMMA TypeStep == ProcTypeOK /\ [Next]_vars => ProcTypeOK'
<1> SUFFICES ASSUME ProcTypeOK, [Next]_vars
             PROVE  ProcTypeOK'
  OBVIOUS
<1>1. OrderOK /\ FilesOK /\ HoldsOK /\ BudgetOK
  BY TypeParts
<1>2. FilesOK' /\ HoldsOK' /\ BudgetOK'
  BY <1>1, FilesStep
<1>3. OrderOK'
  BY <1>1, OrderStep
<1>4. (ProcTypeOK <=> OrderOK /\ FilesOK /\ HoldsOK /\ BudgetOK)'
  BY TypeParts, PTL
<1> QED BY <1>2, <1>3, <1>4

(* They hold at the start.                                                 *)
LEMMA TypeInit ==
  ASSUME Init
  PROVE  ProcTypeOK
<1>1. OrderOK /\ BudgetOK
  BY ProcAssumption DEF Init, ProcAssumption, OrderOK, BudgetOK
<1>2. FilesOK
  BY DEF Init, FilesOK, Steps, Looping
<1>3. marker \in BOOLEAN
  BY Zenon DEF Init
<1>4. HoldsOK
  BY <1>3 DEF Init, HoldsOK
<1> QED BY <1>1, <1>2, <1>4, TypeParts

(* The files, the processes and the machine keep their types.              *)
THEOREM TypeCorrect == Spec => []ProcTypeOK
<1> QED BY TypeInit, TypeStep, PTL DEF Spec

----------------------------------------------------------------------------
(* Docker.  Who was told that docker is up, and whoever is about to be, has *)
(* it up, but for somebody else's stop; and a stop, once made, shows in the *)
(* budget.                                                                 *)
ToldUp == \A p \in Procs : pc[p] \in {"mark", "watch"} => docker = "up" \/ Spent("stop")
StopsLeft == budget["stop"] <= Budget["stop"]

DInv == ProcTypeOK /\ HoldInv /\ DockerHeld /\ ToldUp /\ StopsLeft

(* That somebody else stopped docker is not forgotten.                     *)
LEMMA StopsShow ==
  ASSUME BudgetOK, StopsLeft, [Next]_vars
  PROVE  StopsLeft' /\ (Spent("stop") => Spent("stop")')
<1>1. ASSUME NEW e \in Events, Spend(e)
      PROVE  StopsLeft' /\ (Spent("stop") => Spent("stop")')
  BY <1>1, ProcAssumption DEF BudgetOK, StopsLeft, Spend, Spent, Events, ProcAssumption
<1>2. CASE budget' = budget
  BY <1>2 DEF StopsLeft, Spent
<1>3. budget' = budget \/ \E e \in Events : Spend(e)
  BY DEF Events, Next, Waiting, HoldDocker, Works, Reaps, vars, Look, Leave, ReadDir, ReadEntry, Judge,
     Admit, TakeSlot, RemoveEntry, Defer, Refuse, Stamp, WriteEntry, TakeHold, Lock, LockTimeout, DockerUp,
     OrbStart, OrbStartFails, WriteMarker, EnsureReaper, ReaperFails, Fail, Run, RunEnds, Launch,
     LaunchFails, Reassign, ReassignFails, PaneEnds, Die, CancelRead, CancelMark, ReapIdle, ReapLock, ReapCheck,
     OrbStop, ReapExit, ReaperDies, UserStarts, UserStops
<1> QED BY <1>1, <1>2, <1>3

(* A command in the queue touches no hold on docker, and only one that does *)
(* not need docker goes to work from there.                                *)
LEMMA QueueLeavesDocker ==
  ASSUME FilesOK, NEW p \in Procs, Waiting(p)
  PROVE  /\ UNCHANGED <<hold, panes, lock, docker, reaper>>
         /\ pc[p] \in Looping \cup {"leave", "admitted"}
         /\ pc'[p] \in Looping \cup {"leave", "admitted", "hold", "ended", "start"}
         /\ pc'[p] = "start" => p \notin Dockers
         /\ \A q \in Procs \ {p} : pc'[q] = pc[q]
<1> USE DEF FilesOK, Steps, Looping, Critical, Working, engine
<1>1. CASE Look(p) \/ Leave(p) \/ ReadDir(p) \/ ReadEntry(p) \/ Judge(p)
  BY <1>1 DEF Look, Leave, ReadDir, ReadEntry, Judge, At, Goto
<1>2. CASE Defer(p) \/ Refuse(p) \/ Stamp(p) \/ WriteEntry(p)
  BY <1>2 DEF Defer, Refuse, Stamp, WriteEntry, At, Goto
<1>3. CASE Admit(p)
  BY <1>3 DEF Admit, At, Goto, Onward
<1>4. CASE TakeSlot(p) \/ RemoveEntry(p)
  BY <1>4 DEF TakeSlot, RemoveEntry, Done, At, Onward
<1> QED BY <1>1, <1>2, <1>3, <1>4 DEF Waiting

(* So the queue keeps the invariant.                                       *)
LEMMA QueueKeeps ==
  ASSUME DInv, NEW p \in Procs, Waiting(p), Spent("stop") => Spent("stop")'
  PROVE  HoldInv' /\ DockerHeld' /\ ToldUp'
<1>1. FilesOK /\ HoldsOK
  BY TypeParts DEF DInv
<1>2. UNCHANGED <<hold, panes, lock, docker, reaper>> /\ \A q \in Procs \ {p} : pc'[q] = pc[q]
  BY <1>1, QueueLeavesDocker
<1>3. p \notin panes /\ ~Uses(p)'
  BY <1>1, <1>2, QueueLeavesDocker DEF DInv, HoldInv, HeldByLive, Uses, Looping, Working
<1>4. \A q \in Procs : Uses(q)' => Uses(q)
  BY <1>2, <1>3 DEF Uses
<1>5. pc'[p] \notin Critical \cup {"lock"}
  BY <1>1, QueueLeavesDocker DEF Critical, Looping
<1>6. OneDecides' /\ NobodyLeft'
  BY <1>2, <1>4, <1>5 DEF DInv, HoldInv, OneDecides, NobodyLeft
<1>7. HeldByLive'
  BY <1>1, <1>2, <1>3, <1>5, QueueLeavesDocker DEF DInv, HoldInv, HeldByLive, Working, Looping
<1> QED BY <1>2, <1>4, <1>5, <1>6, <1>7 DEF DInv, HoldInv, DockerHeld, ToldUp, Critical

(* Under the lock of a command the reaper has not looked, so what comes to  *)
(* use docker there takes it from nobody.                                  *)
LEMMA HoldKeeps ==
  ASSUME DInv, NEW p \in Procs, HoldDocker(p), Spent("stop") => Spent("stop")'
  PROVE  HoldInv' /\ DockerHeld' /\ ToldUp'
<1>1. FilesOK /\ HoldsOK /\ OneDecides /\ HeldByLive /\ NobodyLeft /\ DockerHeld /\ ToldUp
  BY TypeParts DEF DInv, HoldInv
<1> USE <1>1, ProcAssumption DEF FilesOK, HoldsOK, OneDecides, HeldByLive, NobodyLeft, DockerHeld, ToldUp,
     HoldInv, Uses, Critical, Working, At, Goto, engine, ProcAssumption
<1>2. CASE TakeHold(p)
  BY <1>2 DEF TakeHold
<1>3. CASE Lock(p)
  BY <1>3 DEF Lock
<1>4. CASE DockerUp(p)
  BY <1>4 DEF DockerUp
<1>5. CASE OrbStart(p)
  BY <1>5 DEF OrbStart
<1>6. CASE WriteMarker(p)
  BY <1>6 DEF WriteMarker
<1>7. CASE EnsureReaper(p)
  BY <1>7 DEF EnsureReaper
<1>8. CASE LockTimeout(p)
  BY <1>8 DEF LockTimeout
<1>9. CASE OrbStartFails(p) \/ ReaperFails(p)
  BY <1>9 DEF OrbStartFails, ReaperFails
<1>10. CASE Fail(p)
  BY <1>10 DEF Fail
<1> QED BY <1>2, <1>3, <1>4, <1>5, <1>6, <1>7, <1>8, <1>9, <1>10 DEF HoldDocker

(* A process starts with the holds of its command and gets them before it ends.*)
LEMMA WorkKeeps ==
  ASSUME DInv, NEW p \in Procs, Works(p) \/ PaneEnds(p) \/ Die(p) \/ CancelRead(p) \/ CancelMark(p),
         Spent("stop") => Spent("stop")'
  PROVE  HoldInv' /\ DockerHeld' /\ ToldUp'
<1>1. FilesOK /\ HoldsOK /\ OneDecides /\ HeldByLive /\ NobodyLeft /\ DockerHeld /\ ToldUp
  BY TypeParts DEF DInv, HoldInv
<1> USE <1>1 DEF FilesOK, HoldsOK, OneDecides, HeldByLive, NobodyLeft, DockerHeld, ToldUp,
     HoldInv, Uses, Critical, Working, At, Goto, engine
<1>2. CASE Run(p)
  BY <1>2 DEF Run
<1>3. CASE RunEnds(p)
  BY <1>3 DEF RunEnds, ReleaseHolds
<1>4. CASE Launch(p)
  BY <1>4 DEF Launch
<1>5. CASE LaunchFails(p)
  BY <1>5 DEF LaunchFails, ReleaseHolds
<1>6. CASE Reassign(p) \/ ReassignFails(p)
  BY <1>6 DEF Reassign, ReassignFails
<1>7. CASE PaneEnds(p)
  BY <1>7 DEF PaneEnds
<1>8. CASE Die(p)
  BY <1>8 DEF Die
<1>9. CASE CancelRead(p) \/ CancelMark(p)
  BY <1>9 DEF CancelRead, CancelMark
<1> QED BY <1>2, <1>3, <1>4, <1>5, <1>6, <1>7, <1>8, <1>9 DEF Works

(* Who uses docker holds it alive, so a reaper that finds no holder stops   *)
(* it under nobody.                                                        *)
LEMMA ReapKeeps ==
  ASSUME DInv, Reaps \/ ReaperDies \/ UserStarts \/ UserStops, Spent("stop") => Spent("stop")'
  PROVE  HoldInv' /\ DockerHeld' /\ ToldUp'
<1>1. FilesOK /\ HoldsOK /\ OneDecides /\ HeldByLive /\ NobodyLeft /\ DockerHeld /\ ToldUp
  BY TypeParts DEF DInv, HoldInv
<1>2. ASSUME NEW q \in Procs, Live(hold, q)
      PROVE  q \in Holders(hold) /\ Pruned(hold)[q] = hold[q]
  BY <1>2 DEF Holders, Pruned
<1>3. ASSUME NEW q \in Procs, q \in Dockers,
             pc[q] \in {"lock"} \cup Critical \cup Working \/ (pc[q] = "ended" /\ q \in panes)
      PROVE  Live(hold, q)
  BY <1>1, <1>3 DEF HeldByLive, Live, Alive, Critical, Working
<1>4. Holders(hold) = {} => \A q \in Procs : ~Uses(q)
  BY <1>2, <1>3 DEF Uses
<1>5. ASSUME hold' = Pruned(hold), UNCHANGED <<pc, panes>>
      PROVE  HeldByLive'
  BY <1>1, <1>2, <1>3, <1>5 DEF HeldByLive
<1> USE <1>1, ProcAssumption DEF OneDecides, NobodyLeft, DockerHeld, ToldUp,
     HoldInv, Uses, Critical, engine, ProcAssumption
<1>6. CASE ReapIdle
  BY <1>5, <1>6 DEF ReapIdle
<1>7. CASE ReapLock
  BY <1>7 DEF ReapLock, HeldByLive
<1>8. CASE ReapCheck
  BY <1>4, <1>5, <1>8 DEF ReapCheck
<1>9. CASE OrbStop
  BY <1>9 DEF OrbStop, HeldByLive
<1>10. CASE ReapExit
  BY <1>10 DEF ReapExit, HeldByLive
<1>11. CASE ReaperDies \/ UserStarts
  BY <1>11 DEF ReaperDies, UserStarts, HeldByLive
<1>12. CASE UserStops
  <2>1. Spent("stop")'
    BY <1>12, TypeParts DEF DInv, UserStops, Spend, Spent, StopsLeft, BudgetOK, Events
  <2> QED BY <1>12, <2>1 DEF UserStops, HeldByLive
<1> QED BY <1>6, <1>7, <1>8, <1>9, <1>10, <1>11, <1>12 DEF Reaps

(* The invariant is inductive.                                             *)
LEMMA DockerStep == DInv /\ [Next]_vars => DInv'
<1> SUFFICES ASSUME DInv, [Next]_vars
             PROVE  DInv'
  OBVIOUS
<1>1. ProcTypeOK' /\ StopsLeft' /\ (Spent("stop") => Spent("stop")')
  BY TypeStep, StopsShow, TypeParts DEF DInv
<1>2. HoldInv' /\ DockerHeld' /\ ToldUp'
  <2>1. CASE UNCHANGED vars
    BY <2>1 DEF vars, engine, DInv, HoldInv, OneDecides, HeldByLive, NobodyLeft, DockerHeld, ToldUp, Uses, Spent
  <2>2. ASSUME NEW p \in Procs, Waiting(p)
        PROVE  HoldInv' /\ DockerHeld' /\ ToldUp'
    BY <1>1, <2>2, QueueKeeps
  <2>3. ASSUME NEW p \in Procs, HoldDocker(p)
        PROVE  HoldInv' /\ DockerHeld' /\ ToldUp'
    BY <1>1, <2>3, HoldKeeps
  <2>4. ASSUME NEW p \in Procs, Works(p) \/ PaneEnds(p) \/ Die(p) \/ CancelRead(p) \/ CancelMark(p)
        PROVE  HoldInv' /\ DockerHeld' /\ ToldUp'
    BY <1>1, <2>4, WorkKeeps
  <2>5. CASE Reaps \/ ReaperDies \/ UserStarts \/ UserStops
    BY <1>1, <2>5, ReapKeeps
  <2> QED BY <2>1, <2>2, <2>3, <2>4, <2>5 DEF Next
<1> QED BY <1>1, <1>2 DEF DInv

(* And so it always holds.                                                 *)
LEMMA DockerSafe == Spec => []DInv
<1>1. ASSUME Init
      PROVE  HoldInv /\ DockerHeld /\ ToldUp /\ StopsLeft
  BY <1>1, ProcAssumption
     DEF Init, HoldInv, OneDecides, HeldByLive, NobodyLeft, DockerHeld, ToldUp, StopsLeft, Uses,
         Critical, Working, Events, ProcAssumption
<1>2. Init => DInv
  BY <1>1, TypeInit DEF DInv
<1> QED BY <1>2, DockerStep, PTL DEF Spec

(* The lock, the holds and the reaper's look fit each other.               *)
THEOREM HoldsSafe == Spec => []HoldInv
<1>1. DInv => HoldInv
  BY DEF DInv
<1> QED BY <1>1, DockerSafe, PTL

(* Nothing that holds docker loses it to the reaper.                       *)
THEOREM DockerStays == Spec => []DockerHeld
<1>1. DInv => DockerHeld
  BY DEF DInv
<1> QED BY <1>1, DockerSafe, PTL

----------------------------------------------------------------------------
(* The order of the queue, for any number of commands and any budget.      *)

(* What one step does to the queue's side of command q.                    *)
OwnSteps(q) ==
  /\ pc'[q] \in Looping => pc[q] \in Looping
  /\ pc'[q] = "write" => pc[q] = "write" \/ Stamp(q)
  /\ pc'[q] = "read" =>
       ReadDir(q) \/ ReadEntry(q) \/ (pc[q] = "read" /\ names'[q] = names[q] /\ listed'[q] = listed[q])
  /\ pc'[q] = "judge" => pc[q] = "judge" \/ Judge(q)
  /\ listed'[q] \subseteq listed[q] \/ ReadEntry(q)
  /\ before'[q] = before[q] \/ Judge(q)

EntrySteps(q) ==
  /\ \/ file'[q] \in {file[q], "waiting"}
     \/ file'[q] = "none" /\ pc'[q] \notin Looping
     \/ file'[q] = "cancelled" /\ q \in cancelled'
  /\ file'[q] \in {file[q], "none"} \/ pc[q] = "write" \/ canceller = q
  /\ cancelled \subseteq cancelled'
  /\ canceller' = q => canceller = q \/ file[q] # "none"

(* What a waiting command does to its own reading of the queue.            *)
LEMMA QueueOwn ==
  ASSUME FilesOK, NEW r \in Procs, Waiting(r), NEW q \in Procs
  PROVE  OwnSteps(q)
<1> USE DEF FilesOK, OwnSteps, Looping, At
<1>1. CASE Look(r) \/ Leave(r) \/ Refuse(r) \/ WriteEntry(r)
  BY <1>1 DEF Look, Leave, Refuse, WriteEntry, Goto, queue
<1>2. CASE ReadDir(r)
  BY <1>2 DEF ReadDir, Goto
<1>3. CASE ReadEntry(r)
  BY <1>3 DEF ReadEntry
<1>4. CASE Judge(r)
  BY <1>4 DEF Judge, Goto
<1>5. CASE Admit(r)
  BY <1>5 DEF Admit, Goto, Onward
<1>6. CASE TakeSlot(r) \/ RemoveEntry(r)
  BY <1>6 DEF TakeSlot, RemoveEntry, Done, Onward
<1>7. CASE Defer(r)
  BY <1>7 DEF Defer, Goto, queue
<1>8. CASE Stamp(r)
  BY <1>8 DEF Stamp, Goto
<1> QED BY <1>1, <1>2, <1>3, <1>4, <1>5, <1>6, <1>7, <1>8 DEF Waiting

(* What it does to the entries.                                            *)
LEMMA QueueEntry ==
  ASSUME FilesOK, NEW r \in Procs, Waiting(r), NEW q \in Procs
  PROVE  EntrySteps(q)
<1> USE DEF FilesOK, EntrySteps, Looping, At, asked
<1>1. CASE Look(r) \/ Refuse(r) \/ Defer(r)
  BY <1>1 DEF Look, Refuse, Defer, queue
<1>2. CASE Leave(r) \/ WriteEntry(r)
  BY <1>2 DEF Leave, WriteEntry, Goto
<1>3. CASE ReadEntry(r)
  BY <1>3 DEF ReadEntry, Alive
<1>4. CASE ReadDir(r) \/ Judge(r) \/ Admit(r) \/ Stamp(r)
  BY <1>4 DEF ReadDir, Judge, Admit, Stamp
<1>5. CASE TakeSlot(r)
  BY <1>5 DEF TakeSlot
<1>6. CASE RemoveEntry(r)
  BY <1>6 DEF RemoveEntry, Done, Onward
<1> QED BY <1>1, <1>2, <1>3, <1>4, <1>5, <1>6 DEF Waiting

(* The same of every step of the system.                                   *)
LEMMA Effects ==
  ASSUME FilesOK, [Next]_vars, NEW q \in Procs
  PROVE  OwnSteps(q) /\ EntrySteps(q)
<1> USE DEF FilesOK, OwnSteps, EntrySteps, Looping, At, queue, asked
<1>1. CASE \E r \in Procs : Waiting(r)
  BY <1>1, QueueOwn, QueueEntry
<1>2. ASSUME NEW r \in Procs, HoldDocker(r)
      PROVE  OwnSteps(q) /\ EntrySteps(q)
  BY <1>2 DEF HoldDocker, TakeHold, Lock, LockTimeout, DockerUp, OrbStart, OrbStartFails, WriteMarker,
     EnsureReaper, ReaperFails, Fail, Goto
<1>3. ASSUME NEW r \in Procs, Works(r) \/ PaneEnds(r) \/ Die(r)
      PROVE  OwnSteps(q) /\ EntrySteps(q)
  BY <1>3 DEF Works, Run, RunEnds, Launch, LaunchFails, Reassign, ReassignFails, PaneEnds, Die, ReleaseHolds, Goto
<1>4. ASSUME NEW r \in Procs, CancelRead(r) \/ CancelMark(r)
      PROVE  OwnSteps(q) /\ EntrySteps(q)
  BY <1>4, ProcAssumption DEF CancelRead, CancelMark, ProcAssumption
<1>5. CASE Reaps \/ ReaperDies \/ UserStarts \/ UserStops \/ UNCHANGED vars
  BY <1>5 DEF Reaps, ReapIdle, ReapLock, ReapCheck, OrbStop, ReapExit, ReaperDies, UserStarts, UserStops, vars
<1> QED BY <1>1, <1>2, <1>3, <1>4, <1>5 DEF Next

----------------------------------------------------------------------------
(* Places in the order.                                                    *)

LEMMA Places ==
  ASSUME OrderOK, [Next]_vars, NEW p \in Procs, NEW q \in Procs
  PROVE  /\ HasEntry(q) => HasEntry(q)'
         /\ Before(q, p) => Before(q, p)'
         /\ HasEntry(p)' /\ ~HasEntry(p) => Stamp(p)
         /\ HasEntry(p)' /\ ~HasEntry(p) /\ HasEntry(q) => Before(q, p)'
         /\ Stamp(p) => HasEntry(p)'
<1>1. ASSUME order' = order
      PROVE  (HasEntry(q) <=> HasEntry(q)') /\ (HasEntry(p) <=> HasEntry(p)') /\ (Before(q, p) <=> Before(q, p)')
  BY <1>1 DEF HasEntry, Before
<1>2. ASSUME NEW r \in Procs, Stamp(r), ~HasEntry(r), order' = Append(order, r)
      PROVE  /\ HasEntry(q) => HasEntry(q)'
             /\ Before(q, p) => Before(q, p)'
             /\ HasEntry(r)'
             /\ HasEntry(p)' /\ ~HasEntry(p) => p = r
             /\ HasEntry(q) => Before(q, r)'
  BY <1>2 DEF HasEntry, Before, OrderOK
<1>3. Stamp(p) => HasEntry(p)'
  BY <1>1 DEF Stamp, HasEntry, OrderOK
<1> QED BY <1>1, <1>2, <1>3, OrderStep

(* Of two entries one is first.                                            *)
LEMMA NotBoth ==
  ASSUME OrderOK, NEW p \in Procs, NEW q \in Procs
  PROVE  /\ ~(Before(p, q) /\ Before(q, p))
         /\ Before(p, q) => HasEntry(p) /\ HasEntry(q)
BY DEF OrderOK, Before, HasEntry

----------------------------------------------------------------------------
(* Only who has a place has an entry; who was seen waiting keeps its entry  *)
(* while it waits and nobody cancels it; who comes later is behind it, sees *)
(* it again in every list, and is no head before it.                       *)
Kept(q)    == HasEntry(q) /\ (pc[q] \in Looping /\ q \notin cancelled => file[q] = "waiting")
Placed(p)  == (~HasEntry(p) => file[p] = "none" /\ canceller # p) /\ (pc[p] = "write" => HasEntry(p))
Seen(p)    == \A q \in listed[p] \cup before[p] : Kept(q)
Behind(p)  == HasEntry(p) => \A q \in before[p] : Before(q, p)
Reading(p) == pc[p] = "read" => \A q \in before[p] : Waits(q) => q \in names[p] \cup listed[p]
First(p)   == pc[p] = "judge" => \A q \in before[p] : ~Waits(q)

QueueInv(p) == Placed(p) /\ Seen(p) /\ Behind(p) /\ Reading(p) /\ First(p)
QInv == ProcTypeOK /\ \A p \in Procs : QueueInv(p)

(* An entry that was seen stays while its command waits uncancelled.       *)
LEMMA KeptStays ==
  ASSUME OrderOK, FilesOK, HoldsOK, BudgetOK, [Next]_vars, NEW q \in Procs, Kept(q)
  PROVE  Kept(q)' /\ (Waits(q)' => Waits(q))
<1>1. HasEntry(q)'
  BY Places DEF Kept
<1> QED BY <1>1, Effects DEF Kept, Waits, OwnSteps, EntrySteps, Looping

(* Who has no place has no entry.                                          *)
LEMMA PlacedStays ==
  ASSUME OrderOK, FilesOK, HoldsOK, BudgetOK, [Next]_vars, NEW p \in Procs, Placed(p)
  PROVE  Placed(p)'
<1>1. HasEntry(p) => HasEntry(p)'
  BY Places
<1>2. Stamp(p) => HasEntry(p)'
  BY Places
<1> QED BY <1>1, <1>2, Effects DEF Placed, OwnSteps, EntrySteps

(* A list, and so what was first seen, holds what has an entry.            *)
LEMMA SeenStays ==
  ASSUME OrderOK, FilesOK, HoldsOK, BudgetOK, [Next]_vars, NEW p \in Procs, Seen(p), \A q \in Procs : Placed(q)
  PROVE  Seen(p)'
<1> SUFFICES ASSUME NEW q \in Procs, q \in listed'[p] \cup before'[p]
             PROVE  Kept(q)'
  <2>1. listed' \in [Procs -> SUBSET Procs] /\ before' \in [Procs -> SUBSET Procs]
    BY FilesStep DEF FilesOK
  <2> QED BY <2>1 DEF Seen
<1>1. CASE q \in listed[p] \cup before[p]
  BY <1>1, KeptStays DEF Seen
<1>2. CASE q \notin listed[p] \cup before[p]
  <2>1. ~Judge(p)
    BY <1>2 DEF Judge, FilesOK
  <2>2. ReadEntry(p)
    BY <1>2, <2>1, Effects DEF OwnSteps
  <2>3. file'[q] = "waiting" /\ file[q] = "waiting" /\ order' = order
    BY <1>2, <2>2 DEF ReadEntry, FilesOK
  <2>4. HasEntry(q)
    BY <2>3 DEF Placed
  <2> QED BY <2>3, <2>4, Places DEF Kept
<1> QED BY <1>1, <1>2

(* Who takes its place comes after all it has seen.                        *)
LEMMA BehindStays ==
  ASSUME OrderOK, FilesOK, HoldsOK, BudgetOK, [Next]_vars, NEW p \in Procs, Seen(p), Behind(p)
  PROVE  Behind(p)'
<1> SUFFICES ASSUME HasEntry(p)', NEW q \in Procs, q \in before'[p]
             PROVE  Before(q, p)'
  BY FilesStep DEF Behind, FilesOK
<1>1. CASE Stamp(p)
  <2>1. before' = before
    BY <1>1 DEF Stamp
  <2> QED BY <2>1, Places DEF Behind, Seen, Kept
<1>2. CASE ~Stamp(p)
  <2>1. HasEntry(p)
    BY <1>2, Places
  <2>2. before'[p] = before[p]
    BY <2>1, Effects DEF OwnSteps, Judge
  <2> QED BY <2>1, <2>2, Places DEF Behind
<1> QED BY <1>1, <1>2

(* A list that is complete shows every one of them that still waits.       *)
LEMMA ReadingStays ==
  ASSUME OrderOK, FilesOK, HoldsOK, BudgetOK, [Next]_vars, NEW p \in Procs, Seen(p), Reading(p)
  PROVE  Reading(p)'
<1> SUFFICES ASSUME pc'[p] = "read", NEW q \in Procs, q \in before'[p], Waits(q)'
             PROVE  q \in names'[p] \cup listed'[p]
  BY FilesStep DEF Reading, FilesOK
<1>1. before'[p] = before[p]
  BY Effects DEF OwnSteps, Judge, Goto, FilesOK
<1>2. Waits(q)
  BY <1>1, KeptStays DEF Seen
<1>3. CASE ReadDir(p)
  BY <1>2, <1>3 DEF ReadDir, Waits, FilesOK
<1>4. CASE ReadEntry(p)
  <2>1. q \in names[p] \cup listed[p]
    BY <1>1, <1>2, <1>4 DEF Reading, ReadEntry, At
  <2>2. file'[q] = "waiting"
    BY DEF Waits
  <2> QED BY <1>4, <2>1, <2>2 DEF ReadEntry, FilesOK
<1>5. CASE pc[p] = "read" /\ names'[p] = names[p] /\ listed'[p] = listed[p]
  BY <1>1, <1>2, <1>5 DEF Reading
<1> QED BY <1>3, <1>4, <1>5, Effects DEF OwnSteps

(* The head of its list has nobody of those it first saw ahead.            *)
LEMMA FirstStays ==
  ASSUME OrderOK, FilesOK, HoldsOK, BudgetOK, [Next]_vars, NEW p \in Procs, QueueInv(p)
  PROVE  First(p)'
<1> SUFFICES ASSUME pc'[p] = "judge", NEW q \in Procs, q \in before'[p], Waits(q)'
             PROVE  FALSE
  BY FilesStep DEF First, FilesOK
<1>1. CASE Judge(p)
  <2>1. IsHead(p) /\ pc[p] = "read" /\ names[p] = {}
    BY <1>1 DEF Judge, At, Goto, FilesOK
  <2>2. q \in listed[p] /\ Kept(q)
    <3>1. CASE HasEntry(p)
      <4>1. q \in before[p]
        BY <1>1, <3>1 DEF Judge
      <4>2. Kept(q) /\ Waits(q)
        BY <4>1, KeptStays DEF QueueInv, Seen
      <4> QED BY <2>1, <4>1, <4>2 DEF QueueInv, Reading
    <3>2. CASE ~HasEntry(p)
      BY <1>1, <3>2 DEF Judge, FilesOK, QueueInv, Seen
    <3> QED BY <3>1, <3>2
  <2>3. CASE HasEntry(p)
    <3>1. Before(q, p)
      BY <1>1, <2>3 DEF Judge, QueueInv, Behind
    <3>2. q # p
      BY <3>1, NotBoth
    <3> QED BY <2>1, <2>2, <3>1, <3>2, NotBoth DEF IsHead
  <2>4. CASE ~HasEntry(p)
    <3>1. q # p
      BY <2>2, <2>4 DEF Kept
    <3> QED BY <2>1, <2>2, <2>4, <3>1, NotBoth DEF IsHead
  <2> QED BY <2>3, <2>4
<1>2. CASE ~Judge(p)
  <2>1. pc[p] = "judge" /\ before'[p] = before[p]
    BY <1>2, Effects DEF OwnSteps
  <2> QED BY <2>1, KeptStays DEF QueueInv, First, Seen
<1> QED BY <1>1, <1>2

(* The invariant is inductive.                                             *)
LEMMA QueueStep == QInv /\ [Next]_vars => QInv'
<1> SUFFICES ASSUME QInv, [Next]_vars
             PROVE  QInv'
  OBVIOUS
<1>1. ProcTypeOK'
  BY TypeStep DEF QInv
<1>2. ASSUME NEW p \in Procs
      PROVE  QueueInv(p)'
  <2>1. OrderOK /\ FilesOK /\ HoldsOK /\ BudgetOK /\ QueueInv(p) /\ \A q \in Procs : Placed(q)
    BY TypeParts DEF QInv, QueueInv
  <2> QED BY <2>1, PlacedStays, SeenStays, BehindStays, ReadingStays, FirstStays DEF QueueInv
<1> QED BY <1>1, <1>2 DEF QInv

(* And so it always holds.                                                 *)
LEMMA QueueSafe == Spec => []QInv
<1>1. ASSUME Init
      PROVE  QInv
  <2>1. ProcTypeOK
    BY <1>1, TypeInit
  <2> SUFFICES ASSUME NEW p \in Procs
               PROVE  QueueInv(p)
    BY <2>1 DEF QInv
  <2>2. ~HasEntry(p) /\ pc[p] = "list" /\ file[p] = "none"
    BY <1>1 DEF Init, HasEntry
  <2>3. canceller # p /\ listed[p] = {} /\ before[p] = {}
    BY <1>1, ProcAssumption DEF Init, ProcAssumption
  <2>4. Placed(p)
    BY <2>2, <2>3 DEF Placed
  <2>5. Seen(p) /\ Behind(p)
    BY <2>2, <2>3 DEF Seen, Behind
  <2>6. Reading(p) /\ First(p)
    BY <2>2 DEF Reading, First
  <2> QED BY <2>4, <2>5, <2>6 DEF QueueInv
<1> QED BY <1>1, QueueStep, PTL DEF Spec

(* Nobody is admitted past one that it saw waiting when it first looked.   *)
THEOREM AdmitsInOrder == Spec => QueueOrder
<1>1. ASSUME QInv, [Next]_vars, NEW p \in Procs, Admits(p), NEW q \in before[p]
      PROVE  ~Waits(q)
  BY <1>1 DEF QInv, QueueInv, First, Admits, At
<1>2. QInv /\ [Next]_vars => [\A p \in Procs : Admits(p) => \A q \in before[p] : ~Waits(q)]_vars
  BY <1>1
<1> QED BY <1>2, QueueSafe, PTL DEF Spec, QueueOrder
=============================================================================
