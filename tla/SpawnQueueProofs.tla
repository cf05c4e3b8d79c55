--------------------------- MODULE SpawnQueueProofs ---------------------------
(***************************************************************************)
(* Theorems about SpawnQueue for any number of dispatches and supervisor   *)
(* workers, any limit and any budget of events.                            *)
(***************************************************************************)
EXTENDS SpawnQueue, TLAPS

(* What an executor is: a spawn command or a supervisor worker, not both.  *)
LEMMA Kinds ==
  /\ \A e \in Executors : e \in Workers \/ e \in Dispatches
  /\ \A e \in Executors : ~(e \in Workers /\ e \in Dispatches)
  /\ NoOne \notin Executors
  /\ Workers \subseteq Executors /\ Dispatches \subseteq Executors
BY SpawnAssumption DEF SpawnAssumption, Executors

(* SpawnTypeOK in three parts: the executors, the rows, and the rest.      *)
Execution == [pc : Steps, of : Dispatches \cup {NoOne}, items : SUBSET Dispatches, ok : BOOLEAN, mine : BOOLEAN]
RunOK  == run \in [Executors -> Execution]
RowsOK ==
  /\ state \in [Dispatches -> States \cup {"none"}]
  /\ entry \in [Dispatches -> BOOLEAN] /\ late \in [Dispatches -> BOOLEAN]
  /\ order \in Seq(Dispatches)
  /\ agent \in [Dispatches -> {"none", "pane", "alive", "gone"}]
RestOK ==
  /\ gate \in Executors \cup {NoOne} /\ watch \in Workers \cup {NoOne}
  /\ coord \in [op : {"none", "cancel", "close", "closing", "reply"}, of : Dispatches \cup {NoOne},
                state : States \cup {"none"}, entry : BOOLEAN, late : BOOLEAN]
  /\ launches \in [Dispatches -> Nat]
  /\ cancelled \subseteq Dispatches /\ revived \subseteq Dispatches
  /\ budget \in [Events -> Nat]

LEMMA TypeParts == SpawnTypeOK <=> RunOK /\ RowsOK /\ RestOK
BY DEF SpawnTypeOK, RunOK, Execution, RowsOK, RestOK

(* What a step may do to its executor.                                     *)
LEMMA GotoType ==
  ASSUME RunOK, NEW e \in Executors, NEW step \in Steps, Goto(e, step)
  PROVE  RunOK'
<1>1. [run[e] EXCEPT !.pc = step] \in Execution
  BY DEF RunOK, Execution
<1>2. run' = [run EXCEPT ![e] = [run[e] EXCEPT !.pc = step]]
  BY DEF Goto
<1> QED BY <1>1, <1>2 DEF RunOK

LEMMA FailsType ==
  ASSUME RunOK, NEW e \in Executors, Fails(e)
  PROVE  RunOK'
<1>1. [[run[e] EXCEPT !.pc = "release"] EXCEPT !.ok = FALSE] \in Execution
  BY DEF RunOK, Execution, Steps, InGate
<1>2. run' = [run EXCEPT ![e] = [[run[e] EXCEPT !.pc = "release"] EXCEPT !.ok = FALSE]]
  BY DEF Fails
<1> QED BY <1>1, <1>2 DEF RunOK

LEMMA OwnsType ==
  ASSUME RunOK, NEW e \in Executors, NEW step \in Steps, NEW mine \in BOOLEAN,
         run' = [run EXCEPT ![e].pc = step, ![e].mine = mine]
  PROVE  RunOK'
<1>1. [[run[e] EXCEPT !.pc = step] EXCEPT !.mine = mine] \in Execution
  BY DEF RunOK, Execution
<1>2. run' = [run EXCEPT ![e] = [[run[e] EXCEPT !.pc = step] EXCEPT !.mine = mine]]
  OBVIOUS
<1> QED BY <1>1, <1>2 DEF RunOK

LEMMA RunsType ==
  ASSUME NEW step \in Steps, NEW d \in Dispatches \cup {NoOne}
  PROVE  Runs(step, d) \in Execution
BY DEF Runs, Execution

LEMMA StartsType ==
  ASSUME RunOK, NEW e \in Executors, NEW w \in Workers,
         run' = [run EXCEPT ![e].pc = "release", ![w] = Runs("starting", NoOne)]
  PROVE  RunOK'
<1>1. [run[e] EXCEPT !.pc = "release"] \in Execution
  BY DEF RunOK, Execution, Steps, InGate
<1>2. Runs("starting", NoOne) \in Execution
  BY RunsType DEF Steps
<1>3. run' = [[run EXCEPT ![e] = [run[e] EXCEPT !.pc = "release"]] EXCEPT ![w] = Runs("starting", NoOne)]
  OBVIOUS
<1> QED BY <1>1, <1>2, <1>3, Kinds DEF RunOK

LEMMA ReturnsType ==
  ASSUME RunOK, NEW e \in Executors, NEW ok \in BOOLEAN, Returns(e, ok)
  PROVE  RunOK'
<1>1. CASE e \in Workers
  <2>1. [run[e] EXCEPT !.pc = "after", !.ok = ok, !.mine = FALSE] \in Execution
    BY DEF RunOK, Execution, Steps
  <2>2. run' = [run EXCEPT ![e] = [run[e] EXCEPT !.pc = "after", !.ok = ok, !.mine = FALSE]]
    BY <1>1 DEF Returns
  <2> QED BY <2>1, <2>2 DEF RunOK
<1>2. CASE e \notin Workers
  <2>1. Runs("off", e) \in Execution
    BY <1>2, Kinds, RunsType DEF Steps
  <2>2. run' = [run EXCEPT ![e] = Runs("off", e)]
    BY <1>2 DEF Returns
  <2> QED BY <2>1, <2>2 DEF RunOK
<1> QED BY <1>1, <1>2

LEMMA WalkType ==
  ASSUME RunOK, NEW w \in Workers, NEW items \in SUBSET Dispatches, Walk(w, items)
  PROVE  RunOK'
<1>1. CASE run' = [run EXCEPT ![w] = Runs("tend", NoOne)]
  BY <1>1, RunsType, Kinds DEF RunOK, Steps
<1>2. ASSUME NEW d \in items, run' = [run EXCEPT ![w] = [Runs("gate", d) EXCEPT !.items = items \ {d}]]
      PROVE  RunOK'
  <2>1. [Runs("gate", d) EXCEPT !.items = items \ {d}] \in Execution
    BY DEF Runs, Execution, Steps
  <2> QED BY <1>2, <2>1, Kinds DEF RunOK
<1> QED BY <1>1, <1>2 DEF Walk

LEMMA PatchType ==
  ASSUME RunOK, RowsOK, NEW e \in Executors, NEW new \in States, NEW next \in Steps, Patch(e, new, next)
  PROVE  /\ RunOK'
         /\ state' \in [Dispatches -> States \cup {"none"}]
<1>1. CASE Sets(run[e].of, new) /\ Goto(e, next)
  BY <1>1, GotoType DEF RowsOK, Sets
<1>2. CASE Fails(e) /\ UNCHANGED state
  BY <1>2, FailsType DEF RowsOK
<1> QED BY <1>1, <1>2 DEF Patch

LEMMA CreateType ==
  ASSUME RunOK, RowsOK, NEW e \in Executors, NEW new \in States, NEW queued \in BOOLEAN, NEW next \in Steps,
         run[e].of \in Dispatches, late' = late, Create(e, new, queued, next)
  PROVE  RunOK' /\ RowsOK'
<1> DEFINE d == run[e].of
<1>1. CASE Fails(e) /\ UNCHANGED <<state, entry, order, agent>>
  BY <1>1, FailsType DEF RowsOK
<1>2. CASE /\ Sets(d, new) /\ entry' = [entry EXCEPT ![d] = queued] /\ order' = Append(order, d)
           /\ run' = [run EXCEPT ![e].pc = next, ![e].mine = ~queued]
           /\ agent' = IF queued THEN agent ELSE [agent EXCEPT ![d] = "pane"]
  <2>3. RunOK'
    BY <1>2, OwnsType
  <2>4. RowsOK'
    BY <1>2 DEF RowsOK, Sets
  <2> QED BY <2>3, <2>4
<1> QED BY <1>1, <1>2 DEF Create

LEMMA GoneType ==
  ASSUME RowsOK, NEW d
  PROVE  Gone(d) \in [Dispatches -> {"none", "pane", "alive", "gone"}]
BY DEF RowsOK, Gone

LEMMA SpendType ==
  ASSUME budget \in [Events -> Nat], NEW kind \in Events, Spend(kind)
  PROVE  budget' \in [Events -> Nat]
<1>1. budget["any"] \in Nat /\ budget["any"] > 0 /\ budget[kind] \in Nat /\ budget[kind] > 0
  BY DEF Spend, Events
<1> QED BY <1>1 DEF Spend, Events

LEMMA SpawningType ==
  ASSUME SpawnTypeOK, Named, NEW e \in Executors, Spawning(e)
  PROVE  SpawnTypeOK'
<1>1. RunOK /\ RowsOK /\ RestOK
  BY TypeParts
<1>2. SUFFICES RunOK' /\ RowsOK' /\ RestOK'
  BY DEF SpawnTypeOK, RunOK, Execution, RowsOK, RestOK
<1> USE <1>1, Kinds DEF RowsOK, RestOK, rows, leases, history, Steps, InGate, States
<1>3. CASE AcquireAdmission(e)
  BY <1>3, GotoType DEF AcquireAdmission, At, Named
<1>4. CASE AdmissionBusy(e)
  <2>1. RunOK' /\ budget' \in [Events -> Nat]
    BY <1>4, ReturnsType, SpendType DEF AdmissionBusy, Events
  <2> QED BY <1>4, <2>1 DEF AdmissionBusy
<1>5. CASE Decide(e)
  <2>1. Fails(e) \/ \E step \in Steps : Goto(e, step)
    BY <1>5 DEF Decide
  <2>2. RunOK'
    BY <2>1, GotoType, FailsType
  <2>3. budget' \in [Events -> Nat]
    BY <1>5, SpendType DEF Decide, Events
  <2> QED BY <1>5, <2>2, <2>3 DEF Decide
<1>6. CASE Requeue(e)
  BY <1>6, PatchType, FailsType DEF Requeue, At, Named
<1>7. CASE Enqueue(e)
  BY <1>7, CreateType, ZenonT(60) DEF Enqueue, At, Named
<1>8. CASE Claim(e)
  BY <1>8, PatchType, FailsType DEF Claim, At, Named
<1>9. CASE Record(e)
  <2>1. RunOK'
    BY <1>9, GotoType, FailsType DEF Record
  <2>2. budget' \in [Events -> Nat]
    BY <1>9, SpendType DEF Record, Events
  <2> QED BY <1>9, <2>1, <2>2 DEF Record
<1>10. CASE Insert(e)
  BY <1>10, CreateType, ZenonT(60) DEF Insert, At, Named
<1>11. CASE Fill(e)
  <2>1. CASE Legal(state[run[e].of], "spawning")
    <3>3. RunOK'
      BY <1>11, <2>1, OwnsType DEF Fill
    <3> QED BY <1>11, <2>1, <3>3, ZenonT(60) DEF Fill, Sets
  <2>2. CASE ~Legal(state[run[e].of], "spawning")
    BY <1>11, <2>2, FailsType DEF Fill
  <2> QED BY <2>1, <2>2
<1>12. CASE Publish(e)
  BY <1>12, PatchType DEF Publish, At, Named
<1>13. CASE Launch(e)
  <2>1. RunOK'
    BY <1>13, GotoType DEF Launch
  <2>2. agent' \in [Dispatches -> {"none", "pane", "alive", "gone"}]
    BY <1>13 DEF Launch
  <2>4. run[e].of \in Dispatches
    BY <1>13 DEF Launch, At, Named
  <2>3. launches' \in [Dispatches -> Nat]
    <3>1. launches[run[e].of] + 1 \in Nat
      BY <2>4
    <3>2. launches' = launches \/ launches' = [launches EXCEPT ![run[e].of] = launches[run[e].of] + 1]
      BY <1>13 DEF Launch
    <3> QED BY <3>1, <3>2
  <2> QED BY <1>13, <2>1, <2>2, <2>3 DEF Launch
<1>14. CASE Ready(e)
  <2>1. RunOK' /\ state' \in [Dispatches -> States \cup {"none"}]
    BY <1>14, PatchType DEF Ready
  <2>2. late' \in [Dispatches -> BOOLEAN]
    BY <1>14 DEF Ready
  <2> QED BY <1>14, <2>1, <2>2 DEF Ready
<1>15. CASE Deferred(e)
  BY <1>15, GotoType DEF Deferred, At, Named
<1>16. CASE Transport(e)
  <2>1. RunOK'
    BY <1>16, GotoType DEF Transport
  <2>2. late[run[e].of] \in BOOLEAN
    BY <1>16 DEF Transport, At, Named
  <2>3. late' \in [Dispatches -> BOOLEAN]
    BY <1>16, <2>2 DEF Transport
  <2> QED BY <1>16, <2>1, <2>3 DEF Transport
<1>17. CASE Persist(e)
  BY <1>17, PatchType DEF Persist, At, Named
<1>18. CASE Mark(e)
  BY <1>18, GotoType DEF Mark, At, Named
<1>19. CASE Marking(e)
  BY <1>19, PatchType DEF Marking, At, Named
<1>20. CASE Fail(e)
  <2>1. RunOK'
    BY <1>20, FailsType DEF Fail
  <2>2. state' \in [Dispatches -> States \cup {"none"}]
    BY <1>20 DEF Fail, Sets
  <2>3. agent' \in [Dispatches -> {"none", "pane", "alive", "gone"}]
    BY <1>20, GoneType DEF Fail
  <2> QED BY <1>20, <2>1, <2>2, <2>3 DEF Fail
<1>21. CASE StepFails(e)
  BY <1>21, GotoType, SpendType, SMTT(30) DEF StepFails, At, Named, Events
<1>22. CASE Wake(e)
  <2>3. RunOK' /\ watch' \in Workers \cup {NoOne}
    BY <1>22, StartsType, GotoType DEF Wake
  <2> QED BY <1>22, <2>3 DEF Wake
<1>23. CASE Release(e)
  <2>1. run[e].ok \in BOOLEAN
    BY DEF RunOK, Execution
  <2>2. RunOK'
    BY <1>23, <2>1, GotoType, ReturnsType DEF Release
  <2>3. budget' \in [Events -> Nat] /\ gate' \in Executors \cup {NoOne}
    BY <1>23, SpendType DEF Release, Events
  <2> QED BY <1>23, <2>2, <2>3 DEF Release
<1>24. CASE Kill(e)
  <2>1. RunOK'
    BY <1>24, ReturnsType DEF Kill
  <2>2. agent' \in [Dispatches -> {"none", "pane", "alive", "gone"}]
    BY <1>24, GoneType DEF Kill
  <2> QED BY <1>24, <2>1, <2>2 DEF Kill
<1> QED BY <1>3, <1>4, <1>5, <1>6, <1>7, <1>8, <1>9, <1>10, <1>11, <1>12, <1>13, <1>14, <1>15, <1>16, <1>17, <1>18, <1>19, <1>20, <1>21, <1>22, <1>23, <1>24 DEF Spawning

LEMMA SupervisingType ==
  ASSUME SpawnTypeOK, Named, NEW w \in Workers, Supervising(w)
  PROVE  SpawnTypeOK'
<1>1. RunOK /\ RowsOK /\ RestOK
  BY TypeParts
<1>2. SUFFICES RunOK' /\ RowsOK' /\ RestOK'
  BY DEF SpawnTypeOK, RunOK, Execution, RowsOK, RestOK
<1>3. w \in Executors /\ run[w].items \in SUBSET Dispatches
  BY <1>1, Kinds DEF RunOK, Execution
<1> USE <1>1, <1>3 DEF RowsOK, RestOK, rows, leases, history, Steps, States
<1>4. CASE Transfer(w)
  <2>1. \E step \in Steps : run' = [run EXCEPT ![w] = Runs(step, NoOne)]
    BY <1>4 DEF Transfer
  <2>2. \A step \in Steps : Runs(step, NoOne) \in Execution
    BY RunsType
  <2>3. RunOK'
    BY <2>1, <2>2 DEF RunOK
  <2> QED BY <1>4, <2>3 DEF Transfer
<1>5. CASE Pass(w)
  <2>1. Queued \in SUBSET Dispatches
    BY DEF Queued
  <2>2. RunOK'
    BY <1>5, <2>1, WalkType, GotoType DEF Pass
  <2> QED BY <1>5, <2>2 DEF Pass
<1>6. CASE After(w)
  <2>1. Goto(w, "dequeue") \/ Goto(w, "abandon") \/ \E items \in SUBSET Dispatches : Walk(w, items)
    BY <1>6 DEF After
  <2>2. RunOK'
    BY <2>1, WalkType, GotoType
  <2> QED BY <1>6, <2>2 DEF After
<1>7. CASE GiveUp(w)
  <2>1. RunOK'
    BY <1>7, WalkType DEF GiveUp
  <2>2. state' \in [Dispatches -> States \cup {"none"}]
    <3>1. state' = state \/ state' = [state EXCEPT ![run[w].of] = "failed"]
      BY <1>7 DEF GiveUp, Sets
    <3> QED BY <3>1
  <2> QED BY <1>7, <2>1, <2>2 DEF GiveUp
<1>8. CASE Tended(w)
  <2>1. RunOK'
    BY <1>8, GotoType DEF Tended
  <2>2. state' \in [Dispatches -> States \cup {"none"}] /\ late' \in [Dispatches -> BOOLEAN]
    BY <1>8 DEF Tended, Sets
  <2> QED BY <1>8, <2>1, <2>2 DEF Tended
<1>9. CASE Leave(w)
  <2>1. RunOK'
    BY <1>9, RunsType DEF Leave, RunOK
  <2> QED BY <1>9, <2>1 DEF Leave
<1>10. CASE Rest(w)
  BY <1>10, GotoType DEF Rest
<1>11. ASSUME NEW d \in Dispatches, Tend(w, d)
       PROVE  RunOK' /\ RowsOK' /\ RestOK'
  <2>1. RunOK'
    BY <1>11, RunsType DEF Tend, RunOK
  <2> QED BY <1>11, <2>1 DEF Tend
<1> QED BY <1>4, <1>5, <1>6, <1>7, <1>8, <1>9, <1>10, <1>11 DEF Supervising

LEMMA TypeStep ==
  ASSUME SpawnTypeOK, Named, [Next]_vars
  PROVE  SpawnTypeOK'
<1>1. RunOK /\ RowsOK /\ RestOK
  BY TypeParts
<1>2. SUFFICES RunOK' /\ RowsOK' /\ RestOK'
  BY DEF SpawnTypeOK, RunOK, Execution, RowsOK, RestOK
<1>3. ASSUME SpawnTypeOK'
      PROVE  RunOK' /\ RowsOK' /\ RestOK'
  BY <1>3 DEF SpawnTypeOK, RunOK, Execution, RowsOK, RestOK
<1> USE <1>1 DEF RowsOK, RestOK, rows, leases, history, States
<1>4. CASE UNCHANGED vars
  BY <1>4 DEF vars, RunOK
<1>5. ASSUME NEW d \in Dispatches, Child(d)
      PROVE  RunOK' /\ RowsOK' /\ RestOK'
  <2>1. CASE Received(d)
    BY <2>1, ZenonT(60) DEF Received, RunOK, Sets
  <2>2. CASE Ask(d)
    BY <2>2, SpendType, ZenonT(60) DEF Ask, RunOK, Sets, Events
  <2>3. CASE Done(d)
    BY <2>3 DEF Done, RunOK, Sets
  <2>4. CASE Exit(d)
    BY <2>4, SpendType, GoneType, SMTT(30) DEF Exit, RunOK, Events
  <2> QED BY <1>5, <2>1, <2>2, <2>3, <2>4 DEF Child
<1>6. ASSUME NEW e \in Executors, Spawning(e)
      PROVE  RunOK' /\ RowsOK' /\ RestOK'
  BY <1>3, <1>6, SpawningType
<1>7. ASSUME NEW e \in Executors, Crash(e)
      PROVE  RunOK' /\ RowsOK' /\ RestOK'
  <2>1. \E d \in Dispatches \cup {NoOne} : run' = [run EXCEPT ![e] = Runs("off", d)]
    BY <1>7, Kinds DEF Crash
  <2>2. \A d \in Dispatches \cup {NoOne} : Runs("off", d) \in Execution
    BY RunsType DEF Steps
  <2>3. RunOK'
    BY <2>1, <2>2 DEF RunOK
  <2> QED BY <1>7, <2>3, SpendType DEF Crash, Events
<1>8. ASSUME NEW w \in Workers, Supervising(w)
      PROVE  RunOK' /\ RowsOK' /\ RestOK'
  BY <1>3, <1>8, SupervisingType
<1>9. ASSUME NEW w \in Workers, Expire(w)
      PROVE  RunOK' /\ RowsOK' /\ RestOK'
  BY <1>9, SpendType DEF Expire, RunOK, Events
<1>10. CASE Commands
  <2>1. ASSUME NEW op \in {"cancel", "reply"}, NEW d \in Dispatches, Asks(op, d),
               budget' \in [Events -> Nat]
        PROVE  RunOK' /\ RowsOK' /\ RestOK'
    BY <2>1 DEF Asks, Idle, RunOK
  <2>2. ASSUME NEW d \in Dispatches, QueueCancel(d) \/ Reply(d) \/ Close(d)
        PROVE  RunOK' /\ RowsOK' /\ RestOK'
    <3>1. budget' \in [Events -> Nat]
      BY <2>2, SpendType DEF QueueCancel, Reply, Close, Events
    <3>2. CASE QueueCancel(d) \/ Reply(d)
      BY <2>1, <3>1, <3>2 DEF QueueCancel, Reply
    <3>3. CASE Close(d)
      BY <3>1, <3>3 DEF Close, RunOK
    <3> QED BY <2>2, <3>2, <3>3
  <2>3. Idle \in [op : {"none", "cancel", "close", "closing", "reply"}, of : Dispatches \cup {NoOne},
                  state : States \cup {"none"}, entry : BOOLEAN, late : BOOLEAN]
    BY DEF Idle
  <2>4. CASE Cancelled
    BY <2>3, <2>4 DEF Cancelled, RunOK, Sets, Named
  <2>5. CASE Replied
    BY <2>3, <2>5, ZenonT(60) DEF Replied, RunOK, Sets
  <2>6. CASE Kills
    <3>1. agent' \in [Dispatches -> {"none", "pane", "alive", "gone"}]
      BY <2>6, GoneType DEF Kills
    <3> QED BY <2>6, <3>1 DEF Kills, RunOK
  <2>7. CASE Closed
    BY <2>3, <2>7, ZenonT(60) DEF Closed, RunOK, Sets
  <2> QED BY <1>10, <2>2, <2>4, <2>5, <2>6, <2>7 DEF Commands, Finishes
<1>11. CASE RunsOut
  BY <1>11 DEF RunsOut, RunOK
<1> QED BY <1>4, <1>5, <1>6, <1>7, <1>8, <1>9, <1>10, <1>11 DEF Next

----------------------------------------------------------------------------
(* What becomes of the executors in a step of one of them.                 *)
Others(e) == \A x \in Executors \ {e} : run'[x] = run[x]

LEMMA GotoRun ==
  ASSUME RunOK, NEW e \in Executors, NEW step, Goto(e, step)
  PROVE  /\ run'[e].pc = step /\ run'[e].of = run[e].of /\ run'[e].items = run[e].items
         /\ Others(e)
BY DEF RunOK, Execution, Goto, Others

LEMMA FailsRun ==
  ASSUME RunOK, NEW e \in Executors, Fails(e)
  PROVE  /\ run'[e].pc = "release" /\ run'[e].of = run[e].of /\ run'[e].items = run[e].items
         /\ Others(e)
BY DEF RunOK, Execution, Fails, Others

LEMMA OwnsRun ==
  ASSUME RunOK, NEW e \in Executors, NEW step, NEW mine,
         run' = [run EXCEPT ![e].pc = step, ![e].mine = mine]
  PROVE  /\ run'[e].pc = step /\ run'[e].of = run[e].of /\ run'[e].items = run[e].items
         /\ Others(e)
BY DEF RunOK, Execution, Others

LEMMA ReturnsRun ==
  ASSUME RunOK, NEW e \in Executors, NEW ok, Returns(e, ok)
  PROVE  /\ e \in Workers => /\ run'[e].pc = "after" /\ run'[e].of = run[e].of
                             /\ run'[e].items = run[e].items
         /\ e \notin Workers => run'[e].pc = "off" /\ run'[e].of = e /\ run'[e].items = {}
         /\ Others(e)
BY DEF RunOK, Execution, Returns, Runs, Others

LEMMA PatchRun ==
  ASSUME RunOK, NEW e \in Executors, NEW new, NEW next, Patch(e, new, next)
  PROVE  /\ run'[e].pc \in {next, "release"} /\ run'[e].of = run[e].of /\ run'[e].items = run[e].items
         /\ Others(e)
BY GotoRun, FailsRun DEF Patch

LEMMA CreateRun ==
  ASSUME RunOK, NEW e \in Executors, NEW new, NEW queued, NEW next, Create(e, new, queued, next)
  PROVE  /\ run'[e].pc \in {next, "release"} /\ run'[e].of = run[e].of /\ run'[e].items = run[e].items
         /\ Others(e)
<1>1. CASE run' = [run EXCEPT ![e].pc = next, ![e].mine = ~queued]
  BY <1>1, OwnsRun
<1>2. CASE Fails(e)
  BY <1>2, FailsRun
<1> QED BY <1>1, <1>2 DEF Create

(* An executor keeps its dispatch through executeSpawn, and starts one      *)
(* worker at most.                                                         *)
Started(x) == x \in Workers /\ run[x].pc = "off" /\ run'[x] = Runs("starting", NoOne)

LEMMA WakeRun ==
  ASSUME RunOK, NEW e \in Executors, Wake(e)
  PROVE  /\ run'[e].pc = "release" /\ run'[e].of = run[e].of /\ run'[e].items = run[e].items
         /\ \A x \in Executors \ {e} : run'[x] = run[x] \/ Started(x)
<1>1. ASSUME NEW w \in Workers, At(w, "off"), run' = [run EXCEPT ![e].pc = "release", ![w] = Runs("starting", NoOne)]
      PROVE  /\ run'[e].pc = "release" /\ run'[e].of = run[e].of /\ run'[e].items = run[e].items
             /\ \A x \in Executors \ {e} : run'[x] = run[x] \/ Started(x)
  <2>1. e # w
    BY <1>1 DEF Wake, At
  <2>2. w \in Executors
    BY Kinds
  <2> QED BY <1>1, <2>1, <2>2 DEF RunOK, Execution, Started, At
<1>2. ASSUME Goto(e, "release")
      PROVE  /\ run'[e].pc = "release" /\ run'[e].of = run[e].of /\ run'[e].items = run[e].items
             /\ \A x \in Executors \ {e} : run'[x] = run[x] \/ Started(x)
  BY <1>2, GotoRun DEF Others
<1> QED BY <1>1, <1>2 DEF Wake

LEMMA SpawningRun ==
  ASSUME RunOK, Named, NEW e \in Executors, Spawning(e)
  PROVE  /\ run[e].pc \in InGate \cup {"gate", "kill"}
         /\ run[e].of \in Dispatches /\ run'[e].of = run[e].of
         /\ \/ run'[e].pc \in InGate \cup {"kill"} /\ run'[e].items = run[e].items
            \/ e \in Workers /\ run'[e].pc = "after" /\ run'[e].items = run[e].items
            \/ e \in Dispatches /\ run'[e].pc = "off" /\ run'[e].items = {}
         /\ \A x \in Executors \ {e} : run'[x] = run[x] \/ Started(x)
<1>1. /\ run[e].pc \in InGate \cup {"gate", "kill"}
      /\ run[e].of \in Dispatches
      /\ e \notin Workers => e \in Dispatches /\ run[e].of = e
  <2>1. run[e].pc \in InGate \cup {"gate", "kill"}
    BY DEF Spawning, At, InGate, AcquireAdmission, AdmissionBusy, Decide, Requeue, Enqueue, Claim, Record,
           Insert, Fill, Publish, Launch, Ready, Deferred, Transport, Persist, Mark, Marking, Fail,
           StepFails, Wake, Release, Kill
  <2> QED BY <2>1, Kinds DEF Named, InGate
<1>2. CASE \E step \in InGate \cup {"kill"} : Goto(e, step)
  BY <1>1, <1>2, GotoRun DEF Others
<1>3. CASE Fails(e)
  BY <1>1, <1>3, FailsRun DEF Others, InGate
<1>4. CASE \E ok \in BOOLEAN : Returns(e, ok)
  BY <1>1, <1>4, ReturnsRun, Kinds DEF Others
<1>5. CASE \E new, next \in InGate \cup States : next \in InGate /\ Patch(e, new, next)
  BY <1>1, <1>5, PatchRun DEF Others, InGate
<1>6. CASE Enqueue(e) \/ Insert(e)
  <2>1. Create(e, "queued", TRUE, "wake") \/ Create(e, "spawning", FALSE, "publish")
    BY <1>6 DEF Enqueue, Insert
  <2>2. /\ run'[e].pc \in {"wake", "publish", "release"}
        /\ run'[e].of = run[e].of /\ run'[e].items = run[e].items /\ Others(e)
    BY <2>1, CreateRun
  <2> QED BY <1>1, <2>2 DEF Others, InGate
<1>7. CASE Fill(e)
  BY <1>1, <1>7, OwnsRun, FailsRun, SMTT(30) DEF Others, InGate, Fill
<1>8. CASE Wake(e)
  BY <1>1, <1>8, WakeRun DEF InGate
<1> QED
  <2>1. CASE AcquireAdmission(e) \/ Deferred(e) \/ Transport(e) \/ Mark(e) \/ StepFails(e) \/ Launch(e)
    BY <2>1, <1>2 DEF AcquireAdmission, Deferred, Transport, Mark, StepFails, Launch, InGate
  <2>2. CASE Decide(e) \/ Record(e) \/ Fail(e)
    BY <2>2, <1>2, <1>3 DEF Decide, Record, Fail, InGate
  <2>3. CASE AdmissionBusy(e) \/ Kill(e)
    BY <2>3, <1>4 DEF AdmissionBusy, Kill
  <2>4. CASE Release(e)
    <3>1. run[e].ok \in BOOLEAN
      BY DEF RunOK, Execution
    <3> QED BY <2>4, <3>1, <1>2, <1>4 DEF Release
  <2>5. CASE Requeue(e) \/ Claim(e)
    BY <2>5, <1>3, <1>5 DEF Requeue, Claim, InGate, States
  <2>6. CASE Publish(e) \/ Ready(e) \/ Persist(e) \/ Marking(e)
    BY <2>6, <1>5 DEF Publish, Ready, Persist, Marking, InGate, States
  <2> QED BY <2>1, <2>2, <2>3, <2>4, <2>5, <2>6, <1>6, <1>7, <1>8 DEF Spawning

LEMMA WalkRun ==
  ASSUME RunOK, NEW w \in Workers, NEW items, Walk(w, items)
  PROVE  /\ \/ items = {} /\ run'[w].pc = "tend" /\ run'[w].of = NoOne /\ run'[w].items = {}
            \/ \E d \in items : /\ \A c \in items : ~Before(c, d)
                                /\ run'[w].pc = "gate" /\ run'[w].of = d /\ run'[w].items = items \ {d}
         /\ Others(w)
<1>1. w \in Executors
  BY Kinds
<1>2. CASE items = {} /\ run' = [run EXCEPT ![w] = Runs("tend", NoOne)]
  BY <1>1, <1>2 DEF RunOK, Runs, Others
<1>3. ASSUME NEW d \in items, \A c \in items : ~Before(c, d),
             run' = [run EXCEPT ![w] = [Runs("gate", d) EXCEPT !.items = items \ {d}]]
      PROVE  /\ run'[w].pc = "gate" /\ run'[w].of = d /\ run'[w].items = items \ {d}
             /\ Others(w)
  BY <1>1, <1>3 DEF RunOK, Runs, Others
<1> QED BY <1>2, <1>3 DEF Walk

LEMMA SupervisingRun ==
  ASSUME RunOK, Named, NEW w \in Workers, Supervising(w)
  PROVE  /\ run[w].pc \in {"starting", "renew", "after", "dequeue", "abandon", "tend", "tending", "leave"}
         /\ run'[w].pc \in Steps \ InGate
         /\ run'[w].pc \in {"gate", "dequeue", "abandon", "tending"} => run'[w].of \in Dispatches
         /\ run'[w].pc \in {"kill", "after"} => FALSE
         /\ Others(w)
<1>1. w \in Executors /\ run[w].items \in SUBSET Dispatches
  BY Kinds DEF RunOK, Execution
<1>2. run[w].pc \in {"starting", "renew", "after", "dequeue", "abandon", "tend", "tending", "leave"}
  BY DEF Supervising, At, Transfer, Pass, After, GiveUp, Tended, Leave, Rest, Tend
<1>3. CASE \E step \in {"off", "renew"} : run' = [run EXCEPT ![w] = Runs(step, NoOne)]
  BY <1>2, <1>1, <1>3 DEF RunOK, Runs, Others, Steps, InGate
<1>4. CASE \E step \in {"leave", "renew", "tend"} : Goto(w, step)
  BY <1>2, <1>1, <1>4, GotoRun DEF Steps, InGate
<1>5. CASE \E items \in SUBSET Dispatches : Walk(w, items)
  BY <1>2, <1>5, WalkRun DEF Steps, InGate
<1>6. CASE \E d \in Dispatches : run' = [run EXCEPT ![w] = Runs("tending", d)]
  BY <1>2, <1>1, <1>6 DEF RunOK, Runs, Others, Steps, InGate
<1>7. CASE At(w, "after") /\ (Goto(w, "dequeue") \/ Goto(w, "abandon"))
  BY <1>2, <1>1, <1>7, GotoRun DEF Steps, InGate, Named, At
<1>8. /\ run'[w].pc \in Steps \ InGate
      /\ run'[w].pc \in {"gate", "dequeue", "abandon", "tending"} => run'[w].of \in Dispatches
      /\ run'[w].pc \in {"kill", "after"} => FALSE
      /\ Others(w)
  <2>1. CASE Transfer(w) \/ Leave(w)
    BY <2>1, <1>3 DEF Transfer, Leave
  <2>2. CASE Pass(w)
    <3>1. Queued \in SUBSET Dispatches
      BY DEF Queued
    <3> QED BY <2>2, <3>1, <1>4, <1>5 DEF Pass
  <2>3. CASE After(w)
    BY <2>3, <1>1, <1>5, <1>7 DEF After
  <2>4. CASE GiveUp(w)
    BY <2>4, <1>1, <1>5 DEF GiveUp
  <2>5. CASE Tended(w) \/ Rest(w)
    BY <2>5, <1>4 DEF Tended, Rest
  <2>6. CASE \E d \in Dispatches : Tend(w, d)
    BY <2>6, <1>6 DEF Tend
  <2> QED BY <2>1, <2>2, <2>3, <2>4, <2>5, <2>6 DEF Supervising
<1> QED BY <1>2, <1>8

LEMMA CrashRun ==
  ASSUME RunOK, NEW e \in Executors, Crash(e)
  PROVE  /\ run'[e].pc = "off" /\ run'[e].items = {}
         /\ e \in Workers => run'[e].of = NoOne
         /\ e \notin Workers => run'[e].of = e
         /\ Others(e)
BY DEF RunOK, Crash, Runs, Others

(* Everyone else, and every other action, leaves the executors alone.      *)
LEMMA QuietRun ==
  ASSUME \/ UNCHANGED vars \/ Commands
         \/ \E d \in Dispatches : Child(d)
         \/ \E w \in Workers : Expire(w)
         \/ RunsOut
  PROVE  run' = run
BY DEF vars, Commands, Finishes, Child, Expire, RunsOut, QueueCancel, Reply, Close, Asks, Cancelled, Replied,
       Kills, Closed, Received, Ask, Done, Exit

CoordOK == /\ coord.op # "none" => coord.of \in Dispatches
           /\ coord.op \in {"close", "closing"} => coord.state # "none"

LEMMA NamedStep ==
  ASSUME SpawnTypeOK, Named, [Next]_vars
  PROVE  Named'
<1>1. RunOK
  BY TypeParts
<1>2. CoordOK'
  <2>1. CASE coord' = coord \/ coord' = Idle
    BY <2>1 DEF Idle, Named, CoordOK
  <2>2. ASSUME NEW d \in Dispatches, QueueCancel(d) \/ Reply(d) \/ Close(d)
        PROVE  CoordOK'
    <3>1. CASE QueueCancel(d) \/ Reply(d)
      <4>1. \E op \in {"cancel", "reply"} : coord' = [Idle EXCEPT !.op = op, !.of = d]
        BY <3>1 DEF QueueCancel, Reply, Asks
      <4> QED BY <2>2, <4>1 DEF Idle, CoordOK
    <3>2. CASE Close(d)
      BY <2>2, <3>2 DEF Close, CoordOK
    <3> QED BY <2>2, <3>1, <3>2
  <2>3. CASE [\E e \in Executors : Spawning(e) \/ Crash(e)]_vars
    BY <2>1, <2>3 DEF vars, Crash,
         Spawning, AcquireAdmission, AdmissionBusy, Decide, Requeue, Enqueue, Claim, Record,
         Insert, Fill, Publish, Launch, Ready, Deferred, Transport, Persist, Mark, Marking, Fail,
         StepFails, Wake, Release, Kill
  <2>4. CASE \E w \in Workers : Supervising(w) \/ Expire(w)
    BY <2>1, <2>4 DEF Expire, Supervising, Transfer, Pass, After, GiveUp, Tended, Leave, Rest, Tend
  <2>5. CASE \E d \in Dispatches : Child(d)
    BY <2>1, <2>5 DEF Child, Received, Ask, Done, Exit
  <2>6. CASE Cancelled \/ Replied \/ Closed \/ RunsOut
    BY <2>1, <2>6 DEF Cancelled, Replied, Closed, RunsOut
  <2>7. CASE Kills
    <3>1. coord' = [coord EXCEPT !.op = "closing"] /\ coord.op = "close" /\ CoordOK
      BY <2>7 DEF Kills, Named, CoordOK
    <3>2. coord'.of = coord.of /\ coord'.state = coord.state
      BY <3>1, <1>1 DEF SpawnTypeOK
    <3> QED BY <3>1, <3>2 DEF CoordOK
  <2> QED BY <2>2, <2>3, <2>4, <2>5, <2>6, <2>7 DEF Next, Commands, Finishes
<1>3. CASE run' = run
  BY <1>2, <1>3 DEF Named, CoordOK
<1>4. ASSUME NEW e \in Executors, Spawning(e)
      PROVE  Named'
  BY <1>1, <1>2, <1>4, SpawningRun, Kinds DEF Named, CoordOK, Runs, Started, InGate
<1>5. ASSUME NEW w \in Workers, Supervising(w)
      PROVE  Named'
  BY <1>1, <1>2, <1>5, SupervisingRun, Kinds DEF Named, CoordOK, Others, Steps, InGate
<1>6. ASSUME NEW e \in Executors, Crash(e)
      PROVE  Named'
  BY <1>1, <1>2, <1>6, CrashRun, Kinds DEF Named, CoordOK, Others
<1> QED BY <1>3, <1>4, <1>5, <1>6, QuietRun DEF Next

THEOREM TypeCorrect == Spec => []SpawnTypeOK
<1>1. Init => SpawnTypeOK /\ Named
  BY SpawnAssumption, Kinds DEF Init, SpawnTypeOK, Named, SpawnAssumption, Runs, Idle, Steps, InGate, States, Executors
<1>2. SpawnTypeOK /\ Named /\ [Next]_vars => (SpawnTypeOK /\ Named)'
  BY TypeStep, NamedStep
<1> QED BY <1>1, <1>2, PTL DEF Spec

----------------------------------------------------------------------------
(* What becomes of the rows and their terminals when an executor works on  *)
(* dispatch d.                                                             *)
Kept(x) == /\ state'[x] = state[x] /\ entry'[x] = entry[x]
           /\ agent'[x] = agent[x] /\ launches'[x] = launches[x]

Worked(e, d) ==
  \/ Kept(d)
  \/ /\ run[e].pc = "enqueue" /\ state[d] = "none" /\ state'[d] = "queued"
     /\ entry'[d] = TRUE /\ agent'[d] = agent[d] /\ launches'[d] = launches[d]
  \/ /\ run[e].pc = "insert" /\ state[d] = "none" /\ state'[d] = "spawning"
     /\ entry'[d] = FALSE /\ agent'[d] = "pane" /\ launches'[d] = launches[d]
  \/ /\ run[e].pc = "claim" /\ state[d] = "queued" /\ state'[d] = "spawning"
     /\ entry'[d] = entry[d] /\ agent'[d] = agent[d] /\ launches'[d] = launches[d]
  \/ /\ run[e].pc = "fill" /\ state[d] \in {"queued", "spawning"} /\ state'[d] = "spawning"
     /\ entry'[d] = FALSE /\ agent'[d] = "pane" /\ launches'[d] = launches[d]
  \/ /\ run[e].pc \in {"publish", "ready", "persist"}
     /\ state[d] \in {"queued", "spawning"} /\ state'[d] = "spawning"
     /\ entry'[d] = entry[d] /\ agent'[d] = agent[d] /\ launches'[d] = launches[d]
  \/ /\ run[e].pc = "marking"
     /\ state[d] \in {"spawning", "running", "waiting_for_reply"} /\ state'[d] = "running"
     /\ entry'[d] = entry[d] /\ agent'[d] = agent[d] /\ launches'[d] = launches[d]
  \/ /\ run[e].pc = "launch" /\ agent[d] # "gone" /\ agent'[d] = "alive"
     /\ launches'[d] = launches[d] + 1
     /\ state'[d] = state[d] /\ entry'[d] = entry[d]
  \/ /\ run[e].pc = "fail" /\ state[d] \in Open \cup {"failed"} /\ state'[d] = "failed"
     /\ agent'[d] = (IF agent[d] = "none" THEN "none" ELSE "gone")
     /\ entry'[d] = entry[d] /\ launches'[d] = launches[d]
  \/ /\ run[e].pc = "kill" /\ agent'[d] = (IF agent[d] = "none" THEN "none" ELSE "gone")
     /\ state'[d] = state[d] /\ entry'[d] = entry[d] /\ launches'[d] = launches[d]

LEMMA LegalFrom ==
  ASSUME NEW from \in States \cup {"none"}
  PROVE  /\ Legal(from, "queued") => from = "queued"
         /\ Legal(from, "spawning") => from \in {"queued", "spawning"}
         /\ Legal(from, "running") => from \in {"spawning", "running", "waiting_for_reply"}
         /\ Legal(from, "failed") => from \in Open \cup {"failed"}
         /\ Legal(from, "done") => from \in {"running", "waiting_for_reply", "done"}
BY DEF Legal, Transitions, States, Open, Active

LEMMA PatchRows ==
  ASSUME RowsOK, NEW e, run[e].of \in Dispatches, NEW new \in States, NEW next, Patch(e, new, next)
  PROVE  /\ \A x \in Dispatches \ {run[e].of} : state'[x] = state[x]
         /\ \/ state'[run[e].of] = state[run[e].of]
            \/ Legal(state[run[e].of], new) /\ state'[run[e].of] = new
BY DEF RowsOK, Patch, Sets

LEMMA SpawningRows ==
  ASSUME SpawnTypeOK, Named, NEW e \in Executors, Spawning(e)
  PROVE  /\ cancelled' = cancelled
         /\ \A x \in Dispatches \ {run[e].of} : Kept(x)
         /\ Worked(e, run[e].of)
<1> DEFINE d == run[e].of
<1>1. RunOK /\ RowsOK /\ RestOK
  BY TypeParts
<1>2. d \in Dispatches /\ state[d] \in States \cup {"none"}
  BY <1>1, SpawningRun DEF RowsOK
<1>3. cancelled' = cancelled
  BY DEF Spawning, history, AcquireAdmission, AdmissionBusy, Decide, Requeue, Enqueue, Claim, Record,
         Insert, Fill, Publish, Launch, Ready, Deferred, Transport, Persist, Mark, Marking, Fail,
         StepFails, Wake, Release, Kill
<1> HIDE DEF d
<1>4. (\A x \in Dispatches \ {d} : Kept(x)) /\ Worked(e, d)
  <2>1. CASE UNCHANGED <<state, entry, agent, launches>>
    BY <2>1 DEF Kept, Worked
  <2>2. CASE Enqueue(e) \/ Insert(e)
    <3>1. \A x \in Dispatches \ {d} : Kept(x)
      BY <2>2, <1>1, <1>2 DEF Enqueue, Insert, Create, Sets, Kept, RowsOK, d, history
    <3>2. CASE state[d] # "none"
      BY <2>1, <2>2, <3>2 DEF Enqueue, Insert, Create, history, d
    <3>3. CASE state[d] = "none" /\ Enqueue(e)
      <4>1. /\ state' = [state EXCEPT ![d] = "queued"] /\ entry' = [entry EXCEPT ![d] = TRUE]
            /\ agent' = agent /\ launches' = launches /\ run[e].pc = "enqueue"
        BY <3>3 DEF Enqueue, Create, Sets, history, At, d
      <4> QED BY <4>1, <3>1, <3>3, <1>1, <1>2 DEF Worked, RowsOK
    <3>4. CASE state[d] = "none" /\ Insert(e)
      <4>1. /\ state' = [state EXCEPT ![d] = "spawning"] /\ entry' = [entry EXCEPT ![d] = FALSE]
            /\ agent' = [agent EXCEPT ![d] = "pane"] /\ launches' = launches /\ run[e].pc = "insert"
        BY <3>4 DEF Insert, Create, Sets, history, At, d
      <4> QED BY <4>1, <3>1, <3>4, <1>1, <1>2 DEF Worked, RowsOK
    <3> QED BY <2>2, <3>1, <3>2, <3>3, <3>4
  <2>3. CASE Requeue(e)
    <3>1. /\ UNCHANGED <<entry, agent, launches>>
          /\ Patch(e, "queued", "wake") \/ UNCHANGED state
      BY <2>3 DEF Requeue, history
    <3>2. state' = state \/ (\A x \in Dispatches : state'[x] = state[x])
      BY <3>1, <1>1, <1>2, PatchRows, LegalFrom DEF d, States
    <3> QED BY <3>1, <3>2, <1>2 DEF Kept, Worked
  <2>4. CASE Claim(e)
    <3>1. /\ UNCHANGED <<entry, agent, launches>> /\ run[e].pc = "claim"
          /\ (state[d] = "queued" /\ Patch(e, "spawning", "record")) \/ UNCHANGED state
      BY <2>4 DEF Claim, history, At, d
    <3>2. \/ state' = state
          \/ /\ \A x \in Dispatches \ {d} : state'[x] = state[x]
             /\ state[d] = "queued" /\ (state'[d] = state[d] \/ state'[d] = "spawning")
      BY <3>1, <1>1, <1>2, PatchRows DEF d, States
    <3> QED BY <3>1, <3>2, <1>2 DEF Kept, Worked
  <2>5. CASE Fill(e)
    <3>1. CASE Legal(state[d], "spawning")
      <4>1. /\ state' = [state EXCEPT ![d] = "spawning"] /\ entry' = [entry EXCEPT ![d] = FALSE]
            /\ agent' = [agent EXCEPT ![d] = "pane"] /\ launches' = launches /\ run[e].pc = "fill"
        BY <2>5, <3>1 DEF Fill, Sets, history, At, d
      <4>2. state[d] \in {"queued", "spawning"}
        BY <3>1, <1>2, LegalFrom
      <4> QED BY <4>1, <4>2, <1>1, <1>2 DEF Kept, Worked, RowsOK
    <3>2. CASE ~Legal(state[d], "spawning")
      BY <2>1, <2>5, <3>2 DEF Fill, history, d
    <3> QED BY <3>1, <3>2
  <2>6. CASE Publish(e) \/ Ready(e) \/ Persist(e)
    <3>1. /\ UNCHANGED <<entry, agent, launches>> /\ run[e].pc \in {"publish", "ready", "persist"}
          /\ \E next \in Steps : Patch(e, "spawning", next)
      BY <2>6 DEF Publish, Ready, Persist, history, At, Steps, InGate
    <3>2. /\ \A x \in Dispatches \ {d} : state'[x] = state[x]
          /\ \/ state'[d] = state[d]
             \/ state[d] \in {"queued", "spawning"} /\ state'[d] = "spawning"
      BY <3>1, <1>1, <1>2, PatchRows, LegalFrom DEF d, States
    <3> QED BY <3>1, <3>2, <1>2 DEF Kept, Worked
  <2>7. CASE Marking(e)
    <3>1. /\ UNCHANGED <<entry, agent, launches>> /\ run[e].pc = "marking"
          /\ Patch(e, "running", "wake")
      BY <2>7 DEF Marking, history, At
    <3>2. /\ \A x \in Dispatches \ {d} : state'[x] = state[x]
          /\ \/ state'[d] = state[d]
             \/ state[d] \in {"spawning", "running", "waiting_for_reply"} /\ state'[d] = "running"
      BY <3>1, <1>1, <1>2, PatchRows, LegalFrom DEF d, States
    <3> QED BY <3>1, <3>2, <1>2 DEF Kept, Worked
  <2>8. CASE Launch(e)
    <3>1. CASE agent[d] = "gone"
      BY <2>1, <2>8, <3>1 DEF Launch, rows, d
    <3>2. CASE agent[d] # "gone"
      <4>1. /\ agent' = [agent EXCEPT ![d] = "alive"] /\ launches' = [launches EXCEPT ![d] = launches[d] + 1]
            /\ UNCHANGED <<state, entry>> /\ run[e].pc = "launch"
        BY <2>8, <3>2 DEF Launch, rows, d, At
      <4> QED BY <4>1, <3>2, <1>1, <1>2 DEF Kept, Worked, RowsOK, RestOK
    <3> QED BY <3>1, <3>2
  <2>9. CASE Fail(e)
    <3>1. CASE Legal(state[d], "failed")
      <4>1. /\ state' = [state EXCEPT ![d] = "failed"] /\ agent' = Gone(d)
            /\ UNCHANGED <<entry, launches>> /\ run[e].pc = "fail"
        BY <2>9, <3>1 DEF Fail, Sets, history, At, d
      <4>2. state[d] \in Open \cup {"failed"}
        BY <3>1, <1>2, LegalFrom
      <4> QED BY <4>1, <4>2, <1>1, <1>2 DEF Kept, Worked, RowsOK, Gone
    <3>2. CASE ~Legal(state[d], "failed")
      BY <2>1, <2>9, <3>2 DEF Fail, history, d
    <3> QED BY <3>1, <3>2
  <2>10. CASE Kill(e)
    <3>1. /\ agent' = agent \/ agent' = Gone(d)
          /\ UNCHANGED <<state, entry, launches>> /\ run[e].pc = "kill"
      BY <2>10 DEF Kill, rows, history, At, d
    <3> QED BY <3>1, <1>1, <1>2 DEF Kept, Worked, RowsOK, Gone
  <2>11. CASE \/ AcquireAdmission(e) \/ AdmissionBusy(e) \/ Decide(e) \/ Record(e) \/ Deferred(e)
              \/ Transport(e) \/ Mark(e) \/ StepFails(e) \/ Wake(e) \/ Release(e)
    BY <2>1, <2>11 DEF AcquireAdmission, AdmissionBusy, Decide, Record, Deferred, Transport, Mark,
                       StepFails, Wake, Release, rows, history
  <2> QED BY <2>2, <2>3, <2>4, <2>5, <2>6, <2>7, <2>8, <2>9, <2>10, <2>11 DEF Spawning
<1> QED BY <1>3, <1>4 DEF d

(* What anybody else does to a row and its terminal: a row that exists may *)
(* be settled or set to work, and none goes back to the queue.             *)
Else(x) ==
  /\ launches'[x] = launches[x]
  /\ agent'[x] = agent[x] \/ agent'[x] = IF agent[x] = "none" THEN "none" ELSE "gone"
  /\ \/ state'[x] = state[x] /\ entry'[x] = entry[x]
     \/ /\ state'[x] \in {"failed", "running", "waiting_for_reply", "done", "closed"}
        /\ state'[x] = "closed" \/ entry'[x] = entry[x]
        /\ state[x] \notin {"none", "closed"} \/ state'[x] = "closed" \/ agent[x] = "alive"
        /\ state[x] = "none" => agent[x] = "alive"

LEMMA ElseRows ==
  ASSUME SpawnTypeOK, Named,
         \/ UNCHANGED vars
         \/ \E e \in Executors : Crash(e)
         \/ \E w \in Workers : Supervising(w) \/ Expire(w)
         \/ \E d \in Dispatches : Child(d)
         \/ Commands \/ RunsOut
  PROVE  /\ \A x \in Dispatches : Else(x)
         /\ \A x \in cancelled' \ cancelled :
              x \in Dispatches /\ state[x] = "queued" /\ state'[x] = "closed" /\ agent'[x] = agent[x]
<1>1. RunOK /\ RowsOK /\ RestOK
  BY TypeParts
<1>2. \A x \in Dispatches : state[x] \in States \cup {"none"}
  BY <1>1 DEF RowsOK
<1> DEFINE Goal == /\ \A x \in Dispatches : Else(x)
                   /\ \A x \in cancelled' \ cancelled :
                        x \in Dispatches /\ state[x] = "queued" /\ state'[x] = "closed" /\ agent'[x] = agent[x]
<1>3. ASSUME UNCHANGED <<agent, launches, cancelled, entry>>, NEW d \in Dispatches, NEW new \in States,
             state' = state \/ (Sets(d, new) /\ Legal(state[d], new)
                                /\ new \in {"failed", "running", "waiting_for_reply", "done"})
      PROVE  Goal
  <2>1. CASE state' = state
    BY <1>3, <2>1 DEF Else
  <2>2. CASE Sets(d, new) /\ Legal(state[d], new) /\ new \in {"failed", "running", "waiting_for_reply", "done"}
    <3>1. state[d] \notin {"none", "closed"}
      BY <1>2, <2>2 DEF Legal, Transitions
    <3>2. state'[d] = new /\ \A x \in Dispatches \ {d} : state'[x] = state[x]
      BY <1>1, <2>2 DEF Sets, RowsOK
    <3> QED BY <1>3, <2>2, <3>1, <3>2 DEF Else
  <2> QED BY <1>3, <2>1, <2>2
<1>4. CASE UNCHANGED <<state, agent, launches, cancelled, entry>>
  BY <1>4 DEF Else
<1>5. CASE UNCHANGED vars \/ (\E e \in Executors : Crash(e)) \/ (\E w \in Workers : Expire(w)) \/ RunsOut
  BY <1>4, <1>5 DEF vars, rows, history, Crash, Expire, RunsOut
<1>6. ASSUME NEW w \in Workers, Supervising(w)
      PROVE  Goal
  <2>1. CASE GiveUp(w)
    <3>1. /\ UNCHANGED <<agent, launches, cancelled, entry>>
          /\ state' = state \/ (state[run[w].of] \in {"queued", "spawning"} /\ Sets(run[w].of, "failed"))
      BY <2>1 DEF GiveUp, history
    <3>2. run[w].of \in Dispatches
      BY <2>1, Kinds DEF GiveUp, At, Named
    <3>3. state[run[w].of] \in {"queued", "spawning"} => Legal(state[run[w].of], "failed")
      BY DEF Legal, Transitions
    <3> QED BY <1>3, <3>1, <3>2, <3>3 DEF States
  <2>2. CASE Tended(w)
    <3>1. /\ UNCHANGED <<agent, launches, cancelled, entry>>
          /\ \E new \in {"failed", "running"} :
               state' = state \/ (Sets(run[w].of, new) /\ Legal(state[run[w].of], new))
      BY <2>2 DEF Tended, history
    <3>2. run[w].of \in Dispatches
      BY <2>2, Kinds DEF Tended, At, Named
    <3> QED BY <1>3, <3>1, <3>2 DEF States
  <2> QED BY <1>4, <1>6, <2>1, <2>2 DEF Supervising, rows, history, Transfer, Pass, After, Leave, Rest, Tend
<1>7. ASSUME NEW d \in Dispatches, Child(d)
      PROVE  Goal
  <2>1. CASE Received(d)
    <3>1. state' = state \/ (Sets(d, "running") /\ Legal(state[d], "running"))
      BY <2>1 DEF Received, Legal, Transitions
    <3> QED BY <1>3, <2>1, <3>1 DEF Received, States, history
  <2>2. CASE Ask(d)
    <3>1. state'[d] = "waiting_for_reply" /\ \A x \in Dispatches \ {d} : state'[x] = state[x]
      BY <2>2, <1>1 DEF Ask, Sets, RowsOK
    <3> QED BY <2>2, <3>1 DEF Ask, Else
  <2>3. CASE Done(d)
    BY <1>3, <2>3 DEF Done, States, history
  <2>4. CASE Exit(d)
    <3>1. \A x \in Dispatches : agent'[x] = agent[x] \/ agent'[x] = IF agent[x] = "none" THEN "none" ELSE "gone"
      BY <2>4, <1>1 DEF Exit, Gone, RowsOK
    <3> QED BY <2>4, <3>1 DEF Exit, Else, rows, history
  <2> QED BY <1>7, <2>1, <2>2, <2>3, <2>4 DEF Child
<1>8. CASE Commands
  <2>1. CASE \E d \in Dispatches : QueueCancel(d) \/ Reply(d) \/ Close(d)
    BY <1>4, <2>1 DEF QueueCancel, Reply, Close, Asks, rows, history
  <2>2. CASE Cancelled
    <3>1. CASE state[coord.of] = "queued"
      <4>1. /\ state'[coord.of] = "closed" /\ \A x \in Dispatches \ {coord.of} : state'[x] = state[x]
            /\ coord.of \in Dispatches
        BY <2>2, <3>1, <1>1 DEF Cancelled, Sets, RowsOK, Named
      <4> QED BY <2>2, <3>1, <4>1 DEF Cancelled, Else
    <3>2. CASE state[coord.of] # "queued"
      BY <1>4, <2>2, <3>2 DEF Cancelled
    <3> QED BY <3>1, <3>2
  <2>3. CASE Replied
    <3>1. coord.of \in Dispatches
      BY <2>3 DEF Replied, Named
    <3> QED BY <1>3, <2>3, <3>1 DEF Replied, States, history
  <2>4. CASE Kills
    <3>1. \A x \in Dispatches : agent'[x] = agent[x] \/ agent'[x] = IF agent[x] = "none" THEN "none" ELSE "gone"
      BY <2>4, <1>1 DEF Kills, Gone, RowsOK
    <3> QED BY <2>4, <3>1 DEF Kills, Else, rows, history
  <2>5. CASE Closed
    <3>1. coord.of \in Dispatches /\ coord.state # "none"
      BY <2>5 DEF Closed, Named
    <3>2. CASE state[coord.of] = coord.state
      <4>1. /\ state'[coord.of] = "closed"
            /\ \A x \in Dispatches \ {coord.of} : state'[x] = state[x] /\ entry'[x] = entry[x]
            /\ agent' = agent /\ launches' = launches /\ cancelled' = cancelled
        BY <2>5, <3>1, <3>2, <1>1 DEF Closed, Sets, RowsOK, history
      <4> QED BY <3>1, <3>2, <4>1 DEF Else
    <3>3. CASE state[coord.of] # coord.state
      BY <1>4, <2>5, <3>3 DEF Closed, history
    <3> QED BY <3>2, <3>3
  <2> QED BY <1>8, <2>1, <2>2, <2>3, <2>4, <2>5 DEF Commands, Finishes
<1> QED BY <1>5, <1>6, <1>7, <1>8

----------------------------------------------------------------------------
(* The invariant, part by part.                                            *)
Inv == SpawnTypeOK /\ SpawnInv

LEMMA Split ==
  ASSUME [Next]_vars
  PROVE  \/ \E e \in Executors : Spawning(e)
         \/ UNCHANGED vars
         \/ \E e \in Executors : Crash(e)
         \/ \E w \in Workers : Supervising(w) \/ Expire(w)
         \/ \E d \in Dispatches : Child(d)
         \/ Commands \/ RunsOut
BY DEF Next

(* Nothing enters the queue or starts anew with a terminal of its own, and  *)
(* a terminal in which nothing was launched is as it was created.          *)
LEMMA WaitsStep ==
  ASSUME Inv, [Next]_vars
  PROVE  WaitsBare'
<1>1. SpawnTypeOK /\ Named /\ WaitsBare /\ LaunchesBare
  BY DEF Inv, SpawnInv
<1>2. ASSUME NEW e \in Executors, Spawning(e)
      PROVE  WaitsBare'
  <2>1. ASSUME NEW x \in Dispatches
        PROVE  /\ state'[x] = "none" => agent'[x] = "none"
               /\ state'[x] = "queued" \/ (state'[x] = "spawning" /\ entry'[x]) => agent'[x] = "none"
               /\ agent'[x] \in {"none", "pane"} => launches'[x] = 0
    <3>1. CASE Kept(x)
      BY <1>1, <3>1 DEF Kept, WaitsBare
    <3>2. CASE x = run[e].of /\ Worked(e, x)
      BY <1>1, <3>2 DEF Worked, Kept, WaitsBare, LaunchesBare, Open, Active
    <3> QED BY <1>1, <1>2, <3>1, <3>2, SpawningRows
  <2> QED BY <2>1 DEF WaitsBare
<1>3. CASE \A x \in Dispatches : Else(x)
  BY <1>1, <1>3 DEF Else, WaitsBare
<1> QED BY <1>1, <1>2, <1>3, Split, ElseRows

(* What was cancelled stays closed: only an agent could bring it back.     *)
LEMMA CancelledStep ==
  ASSUME Inv, [Next]_vars
  PROVE  CancelledIsClosed'
<1>1. SpawnTypeOK /\ Named /\ WaitsBare /\ CancelledIsClosed /\ LaunchesBare
  BY DEF Inv, SpawnInv
<1>2. cancelled \subseteq Dispatches
  BY <1>1 DEF SpawnTypeOK
<1>3. ASSUME NEW e \in Executors, Spawning(e), NEW x \in cancelled
      PROVE  state'[x] = "closed" /\ agent'[x] = "none"
  <2>1. CASE Kept(x)
    BY <1>1, <2>1 DEF Kept, CancelledIsClosed
  <2>2. CASE x = run[e].of /\ Worked(e, x)
    BY <1>1, <2>2 DEF Worked, Kept, CancelledIsClosed, LaunchesBare, Open, Active
  <2> QED BY <1>1, <1>2, <1>3, <2>1, <2>2, SpawningRows
<1>4. ASSUME \A x \in Dispatches : Else(x),
             \A x \in cancelled' \ cancelled :
               x \in Dispatches /\ state[x] = "queued" /\ state'[x] = "closed" /\ agent'[x] = agent[x],
             NEW x \in cancelled'
      PROVE  state'[x] = "closed" /\ agent'[x] = "none"
  BY <1>1, <1>2, <1>4 DEF Else, CancelledIsClosed, WaitsBare
<1>5. CASE \E e \in Executors : Spawning(e)
  BY <1>1, <1>3, <1>5, SpawningRows DEF CancelledIsClosed
<1> QED BY <1>1, <1>4, <1>5, Split, ElseRows DEF CancelledIsClosed

(* The agent is launched into a terminal nothing was launched in before.   *)
LEMMA LaunchedStep ==
  ASSUME Inv, [Next]_vars
  PROVE  LaunchedOnce'
<1>1. SpawnTypeOK /\ Named /\ WaitsBare /\ LaunchesBare /\ LaunchedOnce
  BY DEF Inv, SpawnInv
<1>2. ASSUME NEW e \in Executors, Spawning(e), NEW x \in Dispatches
      PROVE  launches'[x] <= 1
  <2>1. CASE launches'[x] = launches[x]
    BY <1>1, <2>1 DEF LaunchedOnce
  <2>2. CASE x = run[e].of /\ run[e].pc = "launch" /\ agent[x] # "gone" /\ launches'[x] = launches[x] + 1
    BY <1>1, <2>2 DEF LaunchesBare, WaitsBare
  <2> QED BY <1>1, <1>2, <2>1, <2>2, SpawningRows DEF Worked, Kept
<1>3. CASE \A x \in Dispatches : Else(x)
  BY <1>1, <1>3 DEF Else, LaunchedOnce
<1> QED BY <1>1, <1>2, <1>3, Split, ElseRows DEF LaunchedOnce

(* The lease is with whoever is between acquiring and releasing it.        *)
LEMMA GateStep ==
  ASSUME Inv, [Next]_vars
  PROVE  GateIsHeld'
<1>1. RunOK /\ SpawnTypeOK /\ Named /\ GateIsHeld
  BY TypeParts DEF Inv, SpawnInv
<1>2. ASSUME NEW e \in Executors, Spawning(e)
      PROVE  GateIsHeld'
  <2>1. \A x \in Executors \ {e} : run'[x].pc \in InGate => run[x].pc \in InGate
    BY <1>1, <1>2, SpawningRun DEF Started, Runs, InGate
  <2>2. CASE AcquireAdmission(e)
    BY <1>1, <2>1, <2>2, SpawnAssumption DEF AcquireAdmission, GateIsHeld, SpawnAssumption
  <2>3. CASE AdmissionBusy(e)
    BY <1>1, <2>1, <2>3, ReturnsRun DEF AdmissionBusy, leases, GateIsHeld, InGate
  <2>4. CASE Release(e)
    <3>1. run'[e].pc \notin InGate
      BY <1>1, <2>4, GotoRun, ReturnsRun DEF Release, InGate
    <3>2. gate = e
      BY <1>1, <2>4 DEF Release, At, GateIsHeld, InGate
    <3> QED BY <1>1, <2>1, <3>1, <3>2 DEF GateIsHeld
  <2>5. CASE Kill(e)
    BY <1>1, <2>1, <2>5, ReturnsRun DEF Kill, leases, GateIsHeld, InGate
  <2>6. CASE gate' = gate /\ run[e].pc \in InGate
    BY <1>1, <2>1, <2>6 DEF GateIsHeld
  <2> QED BY <1>2, <2>2, <2>3, <2>4, <2>5, <2>6 DEF Spawning, leases, At, InGate, Decide, Requeue, Enqueue,
        Claim, Record, Insert, Fill, Publish, Launch, Ready, Deferred, Transport, Persist, Mark, Marking, Fail,
        StepFails, Wake
<1>3. ASSUME NEW w \in Workers, Supervising(w)
      PROVE  GateIsHeld'
  <2>1. gate' = gate \/ gate' = IF gate = w THEN NoOne ELSE gate
    BY <1>3 DEF Supervising, leases, Transfer, Pass, After, GiveUp, Tended, Leave, Rest, Tend
  <2> QED BY <1>1, <1>3, <2>1, SupervisingRun DEF GateIsHeld, Others
<1>4. ASSUME NEW e \in Executors, Crash(e)
      PROVE  GateIsHeld'
  <2>1. gate' = IF gate = e THEN NoOne ELSE gate
    BY <1>4 DEF Crash
  <2> QED BY <1>1, <1>4, <2>1, CrashRun DEF GateIsHeld, Others, InGate
<1>5. CASE run' = run /\ gate' = gate
  BY <1>1, <1>5 DEF GateIsHeld
<1>6. ASSUME UNCHANGED vars \/ Commands \/ (\E d \in Dispatches : Child(d)) \/ (\E w \in Workers : Expire(w))
      PROVE  run' = run /\ gate' = gate
  BY <1>6 DEF vars, leases, Commands, Finishes, Child, Expire, QueueCancel, Reply, Close, Asks, Cancelled,
       Replied, Kills, Closed, Received, Ask, Done, Exit
<1>7. CASE RunsOut
  <2>1. \A e \in Executors : run[e].pc \notin InGate
    BY <1>1, <1>7 DEF RunsOut, Unreleased, GateIsHeld
  <2> QED BY <1>7, <2>1 DEF RunsOut, GateIsHeld
<1> QED BY <1>2, <1>3, <1>4, <1>5, <1>6, <1>7, Split

(* What LaunchesBare says of one executor.                                 *)
Bare(e) ==
  /\ run[e].pc = "fill" => entry[run[e].of] \/ state[run[e].of] \notin {"queued", "spawning"}
  /\ run[e].pc \in {"publish", "launch"} => agent[run[e].of] \in {"pane", "gone"}
  /\ run[e].pc \in {"ready", "deferred", "transport", "persist", "mark", "marking"} =>
       agent[run[e].of] # "none"

(* A spawn that goes on to its next step has what that step builds on.     *)
LEMMA BareGoesOn ==
  ASSUME Inv, NEW e \in Executors, Spawning(e)
  PROVE  Bare(e)'
<1> DEFINE d == run[e].of
<1>1. RunOK /\ RowsOK /\ SpawnTypeOK /\ Named /\ Bare(e)
  BY TypeParts DEF Inv, SpawnInv, LaunchesBare, Bare
<1>2. d \in Dispatches /\ run'[e].of = d
  BY <1>1, SpawningRun
<1> DEFINE Later == {"fill", "publish", "launch", "ready", "deferred", "transport", "persist", "mark", "marking"}
<1>3. CASE run'[e].pc \notin Later
  BY <1>3 DEF Bare
<1>4. CASE AcquireAdmission(e) \/ AdmissionBusy(e) \/ Decide(e) \/ Requeue(e) \/ Enqueue(e)
           \/ Claim(e) \/ Fail(e) \/ StepFails(e) \/ Wake(e) \/ Release(e) \/ Kill(e)
  <2>1. CASE AdmissionBusy(e) \/ Kill(e) \/ Release(e)
    <3>1. run'[e].pc \in {"after", "off", "kill"}
      BY <1>1, <2>1, GotoRun, ReturnsRun DEF AdmissionBusy, Kill, Release
    <3> QED BY <1>3, <3>1
  <2>2. CASE Decide(e)
    <3>1. run'[e].pc \in {"claim", "record", "requeue", "enqueue", "release"}
      <4>1. Fails(e) => run'[e].pc = "release"
        BY <1>1, FailsRun
      <4>2. \A step \in Steps : Goto(e, step) => run'[e].pc = step
        BY <1>1, GotoRun
      <4>3. \/ Fails(e)
            \/ \E step \in {"claim", "record", "requeue", "enqueue"} : Goto(e, step)
        BY <2>2 DEF Decide
      <4> QED BY <4>1, <4>2, <4>3 DEF Steps, InGate
    <3> QED BY <1>3, <3>1
  <2>3. CASE Requeue(e) \/ Claim(e) \/ Enqueue(e)
    <3>1. run'[e].pc \in {"wake", "record", "release"}
      BY <1>1, <2>3, FailsRun, PatchRun, CreateRun, ZenonT(60) DEF Requeue, Claim, Enqueue
    <3> QED BY <1>3, <3>1
  <2>4. CASE AcquireAdmission(e) \/ Fail(e) \/ StepFails(e) \/ Wake(e)
    <3>1. run'[e].pc \in {"decide", "release", "fail"}
      BY <1>1, <2>4, GotoRun, FailsRun, WakeRun DEF AcquireAdmission, Fail, StepFails
    <3> QED BY <1>3, <3>1
  <2> QED BY <1>4, <2>1, <2>2, <2>3, <2>4
<1>5. CASE Record(e)
  <2>1. CASE Fails(e)
    BY <1>1, <1>3, <2>1, FailsRun
  <2>2. CASE Goto(e, IF entry[d] /\ state[d] \in {"queued", "spawning"} THEN "fill" ELSE "insert")
    <3>1. run'[e].pc = IF entry[d] /\ state[d] \in {"queued", "spawning"} THEN "fill" ELSE "insert"
      BY <1>1, <2>2, GotoRun
    <3>2. entry' = entry
      BY <1>5 DEF Record, rows
    <3> QED BY <1>2, <3>1, <3>2 DEF Bare
  <2> QED BY <1>5, <2>1, <2>2 DEF Record
<1>6. CASE Insert(e)
  <2>1. CASE state[d] = "none"
    <3>1. run'[e].pc = "publish"
      BY <1>1, <1>6, <2>1, OwnsRun, ZenonT(60) DEF Insert, Create
    <3>2. agent' = [agent EXCEPT ![d] = "pane"]
      BY <1>6, <2>1 DEF Insert, Create
    <3> QED BY <1>1, <1>2, <3>1, <3>2 DEF Bare, RowsOK
  <2>2. CASE state[d] # "none"
    BY <1>1, <1>3, <1>6, <2>2, FailsRun DEF Insert, Create
  <2> QED BY <2>1, <2>2
<1>7. CASE Fill(e)
  <2>1. CASE Legal(state[d], "spawning")
    <3>1. run'[e].pc = "publish"
      BY <1>1, <1>7, <2>1, OwnsRun, SMTT(30) DEF Fill
    <3>2. agent' = [agent EXCEPT ![d] = "pane"]
      BY <1>7, <2>1 DEF Fill
    <3> QED BY <1>1, <1>2, <3>1, <3>2 DEF Bare, RowsOK
  <2>2. CASE ~Legal(state[d], "spawning")
    BY <1>1, <1>3, <1>7, <2>2, FailsRun DEF Fill
  <2> QED BY <2>1, <2>2
<1>8. CASE Publish(e)
  <2>1. run'[e].pc \in {"launch", "release"} /\ agent' = agent /\ run[e].pc = "publish"
    BY <1>1, <1>8, PatchRun DEF Publish, At
  <2> QED BY <1>1, <1>2, <2>1 DEF Bare
<1>9. CASE Launch(e)
  <2>1. CASE agent[d] = "gone"
    BY <1>1, <1>3, <1>9, <2>1, GotoRun DEF Launch
  <2>2. CASE agent[d] # "gone"
    <3>1. run'[e].pc = "ready" /\ agent' = [agent EXCEPT ![d] = "alive"]
      BY <1>1, <1>9, <2>2, GotoRun DEF Launch
    <3> QED BY <1>1, <1>2, <3>1 DEF Bare, RowsOK
  <2> QED BY <2>1, <2>2
<1>10. CASE Ready(e) \/ Deferred(e) \/ Transport(e) \/ Persist(e) \/ Mark(e) \/ Marking(e)
  <2>1. /\ run[e].pc \in {"ready", "deferred", "transport", "persist", "mark", "marking"} /\ agent' = agent
        /\ run'[e].pc \notin {"fill", "publish", "launch"}
    BY <1>1, <1>10, GotoRun, PatchRun DEF Ready, Deferred, Transport, Persist, Mark, Marking, At, rows
  <2> QED BY <1>1, <1>2, <2>1 DEF Bare
<1> QED BY <1>4, <1>5, <1>6, <1>7, <1>8, <1>9, <1>10 DEF Spawning

(* Nobody takes from under a spawn what it has: another executor is before  *)
(* the lease or after it.                                                  *)
LEMMA LaunchesStep ==
  ASSUME Inv, [Next]_vars
  PROVE  LaunchesBare'
<1>1. /\ RunOK /\ SpawnTypeOK /\ Named /\ GateIsHeld
      /\ \A e \in Executors : Bare(e)
  BY TypeParts DEF Inv, SpawnInv, LaunchesBare, Bare
<1>2. SUFFICES ASSUME NEW x \in Executors PROVE Bare(x)'
  BY DEF LaunchesBare, Bare
<1>3. run[x].pc \in InGate => run[x].of \in Dispatches /\ gate = x
  BY <1>1 DEF Named, GateIsHeld, InGate
<1>4. CASE run'[x] = run[x] /\ \A d \in Dispatches : Else(d)
  BY <1>1, <1>3, <1>4 DEF Bare, Else, InGate
<1>5. ASSUME NEW e \in Executors, Spawning(e), x # e
      PROVE  Bare(x)'
  <2>1. CASE Started(x)
    BY <2>1 DEF Started, Bare, Runs
  <2>2. CASE run'[x] = run[x] /\ run[x].pc \in InGate
    <3>1. run[e].pc \in {"gate", "kill"}
      BY <1>1, <1>3, <1>5, <2>2, SpawningRun DEF GateIsHeld
    <3>2. \A d \in Dispatches : Else(d)
      BY <1>1, <1>5, <3>1, SpawningRows, ZenonT(60) DEF Worked, Kept, Else
    <3> QED BY <1>4, <2>2, <3>2
  <2>3. CASE run'[x] = run[x] /\ run[x].pc \notin InGate
    BY <2>3 DEF Bare, InGate
  <2> QED BY <1>1, <1>5, <2>1, <2>2, <2>3, SpawningRun
<1>6. ASSUME NEW w \in Workers, Supervising(w), x = w
      PROVE  Bare(x)'
  BY <1>1, <1>6, SupervisingRun DEF Bare, InGate
<1>7. ASSUME NEW e \in Executors, Crash(e), x = e
      PROVE  Bare(x)'
  BY <1>1, <1>7, CrashRun DEF Bare
<1>8. CASE \E e \in Executors : Spawning(e)
  BY <1>5, <1>8, BareGoesOn
<1>9. CASE \E e \in Executors : Crash(e)
  BY <1>1, <1>4, <1>7, <1>9, CrashRun, ElseRows DEF Others
<1>10. CASE \E w \in Workers : Supervising(w)
  BY <1>1, <1>4, <1>6, <1>10, SupervisingRun, ElseRows, Kinds DEF Others
<1>11. CASE UNCHANGED vars \/ Commands \/ (\E d \in Dispatches : Child(d)) \/ (\E w \in Workers : Expire(w)) \/ RunsOut
  BY <1>1, <1>4, <1>11, QuietRun, ElseRows
<1> QED BY <1>8, <1>9, <1>10, <1>11, Split

LEMMA InvHolds == Spec => []Inv
<1>1. Init => Inv
  BY SpawnAssumption, Kinds DEF Init, Inv, SpawnInv, SpawnTypeOK, Named, GateIsHeld, WaitsBare,
     CancelledIsClosed, LaunchesBare, LaunchedOnce, SpawnAssumption, Runs, Idle, Steps, InGate, States, Executors
<1>2. Inv /\ [Next]_vars => Inv'
  BY TypeStep, NamedStep, GateStep, WaitsStep, CancelledStep, LaunchesStep, LaunchedStep DEF Inv, SpawnInv
<1> QED BY <1>1, <1>2, PTL DEF Spec

(* The inductive invariant of a spawn: the lease is with whoever starts a   *)
(* dispatch, and a dispatch that waits has no terminal.                    *)
THEOREM SpawnSafe == Spec => []SpawnInv
<1>1. Inv => SpawnInv
  BY DEF Inv
<1> QED BY <1>1, InvHolds, PTL

(* executeSpawn launches at most one agent for a dispatch, however many     *)
(* commands and supervisor workers try it, die over it and try it again.   *)
THEOREM LaunchesOnce == Spec => []LaunchedOnce
<1>1. SpawnInv => LaunchedOnce
  BY DEF SpawnInv
<1> QED BY <1>1, SpawnSafe, PTL

(* queueCancel confirms only what holds for good: no agent is ever launched *)
(* for a spawn whose cancellation it confirmed.                            *)
THEOREM CancelledStays == Spec => []CancelledNeverStarts
<1>1. Inv => CancelledNeverStarts
  BY DEF Inv, SpawnInv, SpawnTypeOK, CancelledIsClosed, WaitsBare, CancelledNeverStarts
<1> QED BY <1>1, InvHolds, PTL

----------------------------------------------------------------------------
(* The order of the queue.                                                 *)

(* A row that is created comes after all others.                           *)
Adds(d) ==
  /\ state[d] = "none" /\ state'[d] \in {"queued", "spawning"} /\ order' = Append(order, d)
  /\ \A x \in Dispatches \ {d} : Kept(x)
  /\ state'[d] = "queued" => entry'[d]

LEMMA AppendBefore ==
  ASSUME NEW d \in Dispatches, order \in Seq(Dispatches), order' = Append(order, d),
         ~ \E i \in DOMAIN order : order[i] = d
  PROVE  /\ \A x : (\E i \in DOMAIN order' : order'[i] = x) <=> (x = d \/ \E i \in DOMAIN order : order[i] = x)
         /\ \A x, y : Before(x, y)' => x # d /\ (y # d => Before(x, y))
<1>1. /\ DOMAIN order = 1 .. Len(order) /\ Len(order) \in Nat
      /\ DOMAIN order' = 1 .. Len(order) + 1
      /\ \A i \in 1 .. Len(order) : order'[i] = order[i]
      /\ order'[Len(order) + 1] = d
  OBVIOUS
<1> QED BY <1>1 DEF Before

(* What a step does to the rows and to their order: it creates one, or the  *)
(* order stays and nothing enters the queue.                               *)
Stays ==
  /\ order' = order
  /\ \A x \in Dispatches :
       /\ (state'[x] = "none") <=> (state[x] = "none")
       /\ state'[x] = "queued" => state[x] = "queued" /\ entry'[x] = entry[x]

LEMMA RowsStep ==
  ASSUME Inv, [Next]_vars
  PROVE  Stays \/ \E e \in Executors : /\ Spawning(e) /\ run[e].pc \in {"enqueue", "insert"}
                                        /\ run[e].of \in Dispatches /\ Adds(run[e].of)
<1>1. SpawnTypeOK /\ Named /\ WaitsBare /\ LaunchesBare /\ RunOK
  BY TypeParts DEF Inv, SpawnInv
<1>2. ASSUME NEW e \in Executors, Spawning(e)
      PROVE  \/ Stays
             \/ /\ run[e].pc \in {"enqueue", "insert"}
                /\ run[e].of \in Dispatches /\ Adds(run[e].of)
  <2> DEFINE d == run[e].of
  <2>1. d \in Dispatches /\ Worked(e, d) /\ \A x \in Dispatches \ {d} : Kept(x)
    BY <1>1, <1>2, SpawningRun, SpawningRows
  <2>2. CASE order' = order /\ run[e].pc \notin {"enqueue", "insert"}
    BY <2>1, <2>2 DEF Stays, Worked, Kept, Open, Active
  <2>3. CASE (Enqueue(e) \/ Insert(e)) /\ state[d] = "none"
    <3>1. order' = Append(order, d) /\ run[e].pc \in {"enqueue", "insert"}
      BY <2>3 DEF Enqueue, Insert, Create, At
    <3>2. (state'[d] = "queued" /\ entry'[d]) \/ state'[d] = "spawning"
      BY <1>1, <2>1, <2>3 DEF Enqueue, Insert, Create, Sets, SpawnTypeOK
    <3> QED BY <2>1, <2>3, <3>1, <3>2 DEF Adds
  <2>4. CASE (Enqueue(e) \/ Insert(e)) /\ state[d] # "none"
    <3>1. order' = order /\ state' = state /\ entry' = entry
      BY <2>4 DEF Enqueue, Insert, Create
    <3> QED BY <3>1 DEF Stays
  <2>5. Enqueue(e) \/ Insert(e) \/ (order' = order /\ run[e].pc \notin {"enqueue", "insert"})
    BY <1>2 DEF Spawning, rows, At, AcquireAdmission, AdmissionBusy, Decide, Requeue, Claim, Record,
       Fill, Publish, Launch, Ready, Deferred, Transport, Persist, Mark, Marking, Fail, StepFails, Wake,
       Release, Kill
  <2> QED BY <2>2, <2>3, <2>4, <2>5
<1>3. CASE \A x \in Dispatches : Else(x)
  <2>1. \A x \in Dispatches : (state'[x] = "none") <=> (state[x] = "none")
    BY <1>1, <1>3 DEF Else, WaitsBare
  <2>2. \A x \in Dispatches : state'[x] = "queued" => state[x] = "queued" /\ entry'[x] = entry[x]
    BY <1>3 DEF Else
  <2>3. order' = order \/ \E e \in Executors : Spawning(e)
    BY DEF Next, vars, rows, Crash, Supervising, Expire, Transfer, Pass, After, GiveUp, Tended, Leave, Rest, Tend,
       Child, Received, Ask, Done, Exit, Commands, Finishes, QueueCancel, Reply, Close, Asks, Cancelled, Replied, Kills,
       Closed, RunsOut
  <2> QED BY <1>2, <2>1, <2>2, <2>3 DEF Stays
<1> QED BY <1>1, <1>2, <1>3, Split, ElseRows

(* The steps of a spawn before its row is filled in, each from its own.     *)
Advances(e) ==
  LET pc == run'[e].pc IN
  /\ pc = "decide" => run[e].pc = "gate"
  /\ pc \in {"claim", "requeue", "enqueue"} => run[e].pc = "decide"
  /\ pc = "record" =>
       \/ run[e].pc = "decide" /\ ~(entry[run[e].of] /\ state[run[e].of] = "queued") /\ state' = state
       \/ run[e].pc = "claim" /\ state'[run[e].of] # "queued"
  /\ pc \in {"fill", "insert"} => run[e].pc = "record"
  /\ pc \notin {"gate", "abandon"}

LEMMA EarlyRun ==
  ASSUME SpawnTypeOK, Named, NEW e \in Executors, Spawning(e)
  PROVE  Advances(e)
<1> DEFINE d == run[e].of
<1>1. RunOK /\ RowsOK /\ d \in Dispatches
  BY TypeParts, SpawningRun
<1>2. CASE AcquireAdmission(e)
  <2>1. run[e].pc = "gate" /\ run'[e].pc = "decide"
    BY <1>1, <1>2, GotoRun DEF AcquireAdmission, At
  <2> QED BY <2>1 DEF Advances
<1>3. CASE AdmissionBusy(e) \/ Kill(e) \/ Release(e)
  <2>1. run'[e].pc \in {"after", "off", "kill"}
    BY <1>1, <1>3, GotoRun, ReturnsRun DEF AdmissionBusy, Kill, Release
  <2> QED BY <2>1 DEF Advances
<1>4. CASE Decide(e)
  <2>1. CASE Fails(e)
    BY <1>1, <2>1, FailsRun DEF Advances
  <2>2. CASE \E step \in {"claim", "requeue", "enqueue"} : Goto(e, step)
    <3>1. run'[e].pc \in {"claim", "requeue", "enqueue"}
      BY <1>1, <2>2, GotoRun
    <3> QED BY <1>4, <3>1 DEF Decide, At, Advances
  <2>3. CASE Goto(e, "record") /\ ~(entry[d] /\ state[d] = "queued")
    <3>1. run'[e].pc = "record" /\ state' = state
      BY <1>1, <1>4, <2>3, GotoRun DEF Decide, rows
    <3> QED BY <1>4, <2>3, <3>1 DEF Decide, At, Advances
  <2> QED BY <1>4, <2>1, <2>2, <2>3 DEF Decide
<1>5. CASE Requeue(e) \/ Enqueue(e) \/ Insert(e) \/ Fail(e) \/ StepFails(e) \/ Wake(e)
  <2>1. CASE Requeue(e)
    <3>1. run'[e].pc \in {"wake", "release"}
      BY <1>1, <2>1, FailsRun, PatchRun DEF Requeue
    <3> QED BY <3>1 DEF Advances
  <2>2. CASE Enqueue(e) \/ Insert(e)
    <3>1. Create(e, "queued", TRUE, "wake") \/ Create(e, "spawning", FALSE, "publish")
      BY <2>2 DEF Enqueue, Insert
    <3>2. run'[e].pc \in {"wake", "publish", "release"}
      BY <1>1, <3>1, CreateRun
    <3> QED BY <3>2 DEF Advances
  <2>3. CASE Fail(e) \/ StepFails(e) \/ Wake(e)
    <3>1. run'[e].pc \in {"release", "fail"}
      BY <1>1, <2>3, GotoRun, FailsRun, WakeRun DEF Fail, StepFails
    <3> QED BY <3>1 DEF Advances
  <2> QED BY <1>5, <2>1, <2>2, <2>3
<1>6. CASE Claim(e)
  <2>1. CASE Fails(e)
    BY <1>1, <2>1, FailsRun DEF Advances
  <2>2. CASE ~Fails(e)
    <3>1. Sets(d, "spawning") /\ Goto(e, "record")
      BY <1>6, <2>2 DEF Claim, Patch
    <3>2. run'[e].pc = "record" /\ state'[d] = "spawning"
      BY <1>1, <3>1, GotoRun DEF Sets, RowsOK
    <3> QED BY <1>6, <3>2 DEF Claim, At, Advances
  <2> QED BY <2>1, <2>2
<1>7. CASE Record(e)
  <2>1. run'[e].pc \in {"fill", "insert", "release"}
    BY <1>1, <1>7, GotoRun, FailsRun DEF Record
  <2> QED BY <1>7, <2>1 DEF Record, At, Advances
<1>8. CASE Fill(e)
  <2>1. Fails(e) \/ run' = [run EXCEPT ![e].pc = "publish", ![e].mine = TRUE]
    BY <1>8 DEF Fill
  <2>2. run'[e].pc \in {"publish", "release"}
    BY <1>1, <2>1, OwnsRun, FailsRun
  <2> QED BY <2>2 DEF Advances
<1>9. CASE Publish(e) \/ Launch(e) \/ Ready(e) \/ Deferred(e) \/ Transport(e) \/ Persist(e) \/ Mark(e) \/ Marking(e)
  <2>1. run'[e].pc \in {"launch", "ready", "transport", "deferred", "persist", "mark", "marking", "wake", "release", "fail"}
    BY <1>1, <1>9, GotoRun, PatchRun DEF Publish, Launch, Ready, Deferred, Transport, Persist, Mark, Marking
  <2> QED BY <2>1 DEF Advances
<1> QED BY <1>2, <1>3, <1>4, <1>5, <1>6, <1>7, <1>8, <1>9 DEF Spawning

QInv == Inv /\ QueueInv

(* A row is created by its own command only.                               *)
LEMMA OwnRow ==
  ASSUME QInv, NEW e \in Executors, run[e].of \in Dispatches, state[run[e].of] = "none"
  PROVE  e \in Dispatches /\ run[e].of = e
BY Kinds DEF QInv, Inv, SpawnInv, Named, QueueInv, WalkInOrder

LEMMA RowsInOrderStep ==
  ASSUME QInv, [Next]_vars
  PROVE  RowsInOrder'
<1>1. /\ SpawnTypeOK /\ Named /\ RunOK /\ RowsInOrder /\ order \in Seq(Dispatches)
      /\ Stays \/ \E e \in Executors : /\ Spawning(e) /\ run[e].pc \in {"enqueue", "insert"}
                                      /\ run[e].of \in Dispatches /\ Adds(run[e].of)
  <2>1. Inv /\ SpawnTypeOK /\ Named /\ RowsInOrder
    BY DEF QInv, Inv, SpawnInv, QueueInv
  <2> QED BY <2>1, TypeParts, RowsStep DEF RowsOK
<1>2. ASSUME NEW d \in Dispatches, run'[d].pc \in Early
      PROVE  run[d].pc \in Early /\ state[d] = "none" /\ (Spawning(d) => run[d].pc \notin {"enqueue", "insert"})
  <2>1. CASE run'[d] = run[d] /\ ~Spawning(d)
    BY <1>1, <1>2, <2>1 DEF RowsInOrder
  <2>2. CASE Spawning(d)
    <3>1. run[d].pc \in {"gate", "decide", "claim", "record"}
      BY <1>1, <1>2, <2>2, EarlyRun, Kinds DEF Advances, Early
    <3> QED BY <1>1, <3>1 DEF RowsInOrder, Early
  <2>3. CASE Crash(d)
    BY <1>1, <1>2, <2>3, CrashRun, Kinds DEF Early
  <2>4. ASSUME NEW e \in Executors \ {d}, Spawning(e) \/ Crash(e)
        PROVE  run'[d] = run[d]
    BY <1>1, <2>4, SpawningRun, CrashRun, Kinds DEF Started, Others
  <2>5. ASSUME NEW w \in Workers, Supervising(w)
        PROVE  run'[d] = run[d]
    BY <1>1, <2>5, SupervisingRun, Kinds DEF Others
  <2> QED BY <2>1, <2>2, <2>3, <2>4, <2>5, QuietRun, Split
<1>3. CASE Stays
  BY <1>1, <1>2, <1>3 DEF Stays, RowsInOrder
<1>4. ASSUME NEW e \in Executors, Spawning(e), run[e].pc \in {"enqueue", "insert"},
             run[e].of \in Dispatches, Adds(run[e].of)
      PROVE  RowsInOrder'
  <2>1. e \in Dispatches /\ run[e].of = e
    BY <1>4, OwnRow DEF Adds
  <2>2. ~ \E i \in DOMAIN order : order[i] = e
    BY <1>1, <1>4, <2>1 DEF RowsInOrder, Adds
  <2>3. \A x \in Dispatches : (\E i \in DOMAIN order' : order'[i] = x) <=> (x = e \/ \E i \in DOMAIN order : order[i] = x)
    BY <1>1, <1>4, <2>1, <2>2, AppendBefore DEF Adds
  <2>4. run'[e].pc \notin Early
    BY <1>2, <1>4, <2>1
  <2> QED BY <1>1, <1>2, <1>4, <2>1, <2>3, <2>4 DEF RowsInOrder, Adds, Kept
<1> QED BY <1>1, <1>3, <1>4

(* What WalkInOrder says of one worker.                                    *)
Orderly(w) == \A d \in Dispatches :
  /\ d \in run[w].items \cup {run[w].of} => state[d] # "none"
  /\ run[w].of = d /\ run[w].pc \in {"record", "insert", "fill", "abandon"} => state[d] # "queued"
  /\ \A c \in Dispatches : Before(c, d) /\ state[c] = "queued" =>
       /\ ~(run[w].of = d /\ run[w].pc \in {"gate", "decide", "claim"})
       /\ d \in run[w].items => c \in run[w].items \cup {run[w].of}

(* Nobody comes before a row that exists, and none goes back to the queue.  *)
LEMMA NoneOvertakes ==
  ASSUME QInv, [Next]_vars, NEW d \in Dispatches, state[d] # "none"
  PROVE  /\ state'[d] # "none"
         /\ state'[d] = "queued" => state[d] = "queued"
         /\ \A c \in Dispatches : Before(c, d)' /\ state'[c] = "queued" => Before(c, d) /\ state[c] = "queued"
<1>1. /\ Inv /\ RowsInOrder /\ order \in Seq(Dispatches)
      /\ Stays \/ \E e \in Executors : /\ Spawning(e) /\ run[e].pc \in {"enqueue", "insert"}
                                      /\ run[e].of \in Dispatches /\ Adds(run[e].of)
  <2>1. Inv /\ SpawnTypeOK /\ RowsInOrder
    BY DEF QInv, Inv, QueueInv
  <2> QED BY <2>1, TypeParts, RowsStep DEF RowsOK
<1>2. CASE Stays
  BY <1>2 DEF Stays, Before
<1>3. ASSUME NEW x \in Dispatches, Adds(x)
      PROVE  /\ state'[d] # "none"
             /\ state'[d] = "queued" => state[d] = "queued"
             /\ \A c \in Dispatches : Before(c, d)' /\ state'[c] = "queued" => Before(c, d) /\ state[c] = "queued"
  <2>1. ~ \E i \in DOMAIN order : order[i] = x
    BY <1>1, <1>3 DEF RowsInOrder, Adds
  <2>2. \A c, y : Before(c, y)' => c # x /\ (y # x => Before(c, y))
    BY <1>1, <1>3, <2>1, AppendBefore DEF Adds
  <2> QED BY <1>3, <2>2 DEF Adds, Kept
<1> QED BY <1>1, <1>2, <1>3

(* A walk over a list that lacks nobody who waits before one of it.        *)
LEMMA WalkOrderly ==
  ASSUME QInv, [Next]_vars, NEW w \in Workers, NEW items \in SUBSET Dispatches, Walk(w, items),
         \A d \in items : state[d] # "none",
         \A c, d \in Dispatches :
           d \in items /\ Before(c, d) /\ state[c] = "queued" /\ state'[c] = "queued" => c \in items
  PROVE  Orderly(w)'
<1>1. RunOK /\ w \in Executors /\ NoOne \notin Dispatches
  BY TypeParts, Kinds DEF QInv, Inv
<1>2. CASE run'[w].of = NoOne /\ run'[w].items = {}
  BY <1>1, <1>2 DEF Orderly
<1>3. ASSUME NEW first \in items, \A c \in items : ~Before(c, first),
             run'[w].pc = "gate", run'[w].of = first, run'[w].items = items \ {first}
      PROVE  Orderly(w)'
  <2> SUFFICES ASSUME NEW d \in Dispatches
               PROVE  /\ d \in run'[w].items \cup {run'[w].of} => state'[d] # "none"
                      /\ \A c \in Dispatches : Before(c, d)' /\ state'[c] = "queued" =>
                           /\ ~(run'[w].of = d)
                           /\ d \in run'[w].items => c \in run'[w].items \cup {run'[w].of}
    BY <1>3 DEF Orderly
  <2>1. CASE d \in items
    BY <1>3, <2>1, NoneOvertakes
  <2>2. CASE d \notin items
    BY <1>3, <2>2
  <2> QED BY <2>1, <2>2
<1> QED BY <1>1, <1>2, <1>3, WalkRun

LEMMA WalkInOrderStep ==
  ASSUME QInv, [Next]_vars
  PROVE  WalkInOrder'
<1>1. /\ SpawnTypeOK /\ Named /\ RunOK /\ RowsInOrder
      /\ \A w \in Workers : Orderly(w)
  BY TypeParts DEF QInv, Inv, SpawnInv, QueueInv, WalkInOrder, Orderly
<1>2. SUFFICES ASSUME NEW w \in Workers PROVE Orderly(w)'
  BY DEF WalkInOrder, Orderly
<1>3. w \in Executors /\ NoOne \notin Dispatches /\ run[w].items \subseteq Dispatches
  BY <1>1, Kinds DEF RunOK, Execution
<1>4. CASE run'[w].of = NoOne /\ run'[w].items = {}
  BY <1>3, <1>4 DEF Orderly
<1>5. CASE /\ run'[w].of = run[w].of /\ run'[w].items = run[w].items
           /\ \/ run'[w].pc \notin {"gate", "decide", "claim", "record", "insert", "fill", "abandon"}
              \/ run'[w].pc = run[w].pc
              \/ Advances(w) /\ run[w].of \in Dispatches
              \/ run'[w].pc = "abandon" /\ state[run[w].of] # "queued"
  <2> SUFFICES ASSUME NEW d \in Dispatches
               PROVE  /\ d \in run'[w].items \cup {run'[w].of} => state'[d] # "none"
                      /\ run'[w].of = d /\ run'[w].pc \in {"record", "insert", "fill", "abandon"} => state'[d] # "queued"
                      /\ \A c \in Dispatches : Before(c, d)' /\ state'[c] = "queued" =>
                           /\ ~(run'[w].of = d /\ run'[w].pc \in {"gate", "decide", "claim"})
                           /\ d \in run'[w].items => c \in run'[w].items \cup {run'[w].of}
    BY DEF Orderly
  <2>1. CASE d \notin run[w].items \cup {run[w].of}
    BY <1>5, <2>1
  <2>2. CASE d \in run[w].items \cup {run[w].of}
    <3>1. state[d] # "none"
      BY <1>1, <2>2 DEF Orderly
    <3>2. /\ state'[d] # "none"
          /\ state'[d] = "queued" => state[d] = "queued"
          /\ \A c \in Dispatches : Before(c, d)' /\ state'[c] = "queued" => Before(c, d) /\ state[c] = "queued"
      BY <3>1, NoneOvertakes
    <3>3. run'[w].of = d /\ run'[w].pc \in {"record", "insert", "fill", "abandon"} => state'[d] # "queued"
      BY <1>1, <1>5, <3>2 DEF Orderly, Advances, RowsInOrder
    <3>4. ASSUME NEW c \in Dispatches, Before(c, d)', state'[c] = "queued"
          PROVE  ~(run'[w].of = d /\ run'[w].pc \in {"gate", "decide", "claim"})
      BY <1>1, <1>5, <3>2, <3>4 DEF Orderly, Advances
    <3>5. ASSUME NEW c \in Dispatches, Before(c, d)', state'[c] = "queued", d \in run'[w].items
          PROVE  c \in run'[w].items \cup {run'[w].of}
      BY <1>1, <1>5, <3>2, <3>5 DEF Orderly
    <3> QED BY <3>2, <3>3, <3>4, <3>5
  <2> QED BY <2>1, <2>2
<1>6. CASE Spawning(w)
  BY <1>1, <1>3, <1>5, <1>6, SpawningRun, EarlyRun, Kinds
<1>7. CASE Supervising(w)
  <2>1. CASE Transfer(w) \/ Leave(w)
    BY <1>1, <1>3, <1>4, <2>1 DEF Transfer, Leave, Runs, RunOK
  <2>2. CASE Rest(w)
    BY <1>1, <1>3, <1>5, <2>2, GotoRun DEF Rest
  <2>3. ASSUME NEW d \in Dispatches, Tend(w, d)
        PROVE  Orderly(w)'
    <3>1. run'[w].pc = "tending" /\ run'[w].of = d /\ run'[w].items = {} /\ state'[d] # "none"
      BY <1>1, <1>3, <2>3 DEF Tend, Runs, RunOK, rows, Open, Active
    <3> QED BY <3>1 DEF Orderly
  <2>4. CASE Tended(w)
    <3>1. Goto(w, "tend") \/ Goto(w, "leave")
      BY <2>4 DEF Tended
    <3> QED BY <1>1, <1>3, <1>5, <3>1, GotoRun
  <2>5. CASE Pass(w)
    <3>1. CASE Goto(w, "leave")
      BY <1>1, <1>3, <1>5, <3>1, GotoRun
    <3>2. CASE Walk(w, Queued)
      BY <1>1, <3>2, WalkOrderly DEF Queued, RowsInOrder
    <3> QED BY <2>5, <3>1, <3>2 DEF Pass
  <2>6. CASE After(w)
    <3>1. CASE run[w].ok /\ state[run[w].of] = "queued"
      BY <2>6, <3>1, WalkOrderly DEF After
    <3>2. CASE run[w].ok /\ state[run[w].of] # "queued"
      <4>1. Walk(w, run[w].items)
        BY <2>6, <3>2 DEF After
      <4> QED BY <1>1, <1>3, <3>2, <4>1, WalkOrderly DEF Orderly
    <3>3. CASE ~run[w].ok
      BY <1>1, <1>3, <1>5, <2>6, <3>3, GotoRun DEF After
    <3> QED BY <3>1, <3>2, <3>3
  <2>7. CASE GiveUp(w)
    <3>1. Walk(w, run[w].items) /\ run[w].pc \in {"dequeue", "abandon"} /\ run[w].of \in Dispatches
      BY <1>1, <1>3, <2>7 DEF GiveUp, At, Named
    <3>2. state'[run[w].of] # "queued"
      <4>1. CASE run[w].pc = "dequeue"
        BY <1>1, <2>7, <3>1, <4>1 DEF GiveUp, At, Sets, SpawnTypeOK
      <4>2. CASE run[w].pc = "abandon"
        <5>1. state[run[w].of] # "queued"
          BY <1>1, <3>1, <4>2 DEF Orderly
        <5> QED BY <1>1, <2>7, <3>1, <4>2, <5>1 DEF GiveUp, At, Sets, SpawnTypeOK
      <4> QED BY <3>1, <4>1, <4>2
    <3> QED BY <1>1, <1>3, <3>1, <3>2, WalkOrderly DEF Orderly
  <2> QED BY <1>7, <2>1, <2>2, <2>3, <2>4, <2>5, <2>6, <2>7 DEF Supervising
<1>8. CASE Crash(w)
  BY <1>1, <1>3, <1>4, <1>8, CrashRun
<1>9. CASE run'[w] = run[w] \/ Started(w)
  BY <1>3, <1>4, <1>5, <1>9 DEF Started, Runs
<1>10. ASSUME NEW e \in Executors \ {w}, Spawning(e) \/ Crash(e) \/ (e \in Workers /\ Supervising(e))
       PROVE  run'[w] = run[w] \/ Started(w)
  BY <1>1, <1>3, <1>10, SpawningRun, CrashRun, SupervisingRun DEF Others
<1> QED BY <1>3, <1>6, <1>7, <1>8, <1>9, <1>10, QuietRun, Split, Kinds

(* A spawn leaves the queue by a claim, and a claim is of the first.        *)
LEMMA ClaimInOrder ==
  ASSUME QInv, [Next]_vars, NEW c \in Dispatches, NEW d \in Dispatches,
         Before(c, d), state[c] = "queued", state[d] = "queued"
  PROVE  state'[d] # "spawning"
<1>1. SpawnTypeOK /\ Named /\ WaitsBare /\ LaunchesBare /\ RowsInOrder /\ \A w \in Workers : Orderly(w)
  BY DEF QInv, Inv, SpawnInv, QueueInv, WalkInOrder, Orderly
<1>2. ASSUME NEW e \in Executors, Spawning(e), state'[d] = "spawning"
      PROVE  FALSE
  <2>1. run[e].of = d /\ run[e].pc \in {"claim", "fill", "publish", "ready", "persist"}
    <3>1. ~Kept(d)
      BY <1>2 DEF Kept
    <3>2. run[e].of = d /\ Worked(e, d)
      BY <1>1, <1>2, <3>1, SpawningRows
    <3> QED BY <1>2, <3>1, <3>2 DEF Worked
  <2>2. CASE run[e].pc \in {"publish", "ready", "persist"}
    BY <1>1, <2>1, <2>2 DEF LaunchesBare, WaitsBare
  <2>3. CASE e \in Dispatches /\ run[e].pc \in {"claim", "fill"}
    BY <1>1, <2>1, <2>3 DEF Named, RowsInOrder, Early
  <2>4. CASE e \in Workers /\ run[e].pc \in {"claim", "fill"}
    BY <1>1, <2>1, <2>4 DEF Orderly
  <2> QED BY <2>1, <2>2, <2>3, <2>4, Kinds
<1>3. CASE Else(d)
  BY <1>3 DEF Else
<1> QED BY <1>1, <1>2, <1>3, Split, ElseRows

LEMMA QInvHolds == Spec => []QInv
<1>1. Init => QInv
  <2>1. Init => Inv
    BY SpawnAssumption, Kinds DEF Init, Inv, SpawnInv, SpawnTypeOK, Named, GateIsHeld, WaitsBare,
       CancelledIsClosed, LaunchesBare, LaunchedOnce, SpawnAssumption, Runs, Idle, Steps, InGate, States, Executors
  <2>2. Init => QueueInv
    BY Kinds DEF Init, QueueInv, RowsInOrder, WalkInOrder, Before, Runs, Early
  <2> QED BY <2>1, <2>2 DEF QInv
<1>2. QInv /\ [Next]_vars => QInv'
  <2> SUFFICES ASSUME QInv, [Next]_vars PROVE QInv'
    OBVIOUS
  <2>1. Inv
    BY DEF QInv
  <2>2. Inv'
    BY <2>1, TypeStep, NamedStep, GateStep, WaitsStep, CancelledStep, LaunchesStep, LaunchedStep DEF Inv, SpawnInv
  <2> QED BY <2>2, RowsInOrderStep, WalkInOrderStep DEF QInv, QueueInv
<1> QED BY <1>1, <1>2, PTL DEF Spec

(* The invariant of the queue: its rows are in the order of their commands, *)
(* and the list of a supervisor lacks nobody who waits before one of it.    *)
THEOREM QueueSafe == Spec => []QueueInv
<1>1. QInv => QueueInv
  BY DEF QInv
<1> QED BY <1>1, QInvHolds, PTL

(* The supervisor starts the spawns that wait in the order of their rows    *)
(* (README.md), with any number of commands and supervisors at work.       *)
THEOREM StartsInOrder == Spec => InOrder
<1>1. QInv /\ [Next]_vars =>
        [\A c, d \in Dispatches :
           (Before(c, d) /\ state[c] = "queued" /\ state[d] = "queued") => state'[d] # "spawning"]_vars
  BY ClaimInOrder
<1> QED BY <1>1, QInvHolds, PTL DEF Spec, InOrder
=============================================================================
