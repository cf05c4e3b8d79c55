--------------------------- MODULE SpawnLimitProofs ---------------------------
(***************************************************************************)
(* The policy's limit of SpawnQueue, for any number of dispatches and      *)
(* supervisor workers, any limit and any budget of events.                 *)
(***************************************************************************)
EXTENDS SpawnQueueProofs, FiniteSetTheorems

(* The dispatches that hold a slot, but for those that a late ask revived.  *)
Holding == {d \in Dispatches : state[d] \in Active} \ revived

(* A slot that was decided on is free until the row takes it.               *)
Deciding == {"claim", "record", "insert", "fill"}
Limit ==
  /\ Cardinality(Holding) <= MaxAgents
  /\ \A e \in Executors : run[e].pc \in Deciding => Cardinality(Holding \ {run[e].of}) < MaxAgents

LInv == Inv /\ Limit

LEMMA Smaller ==
  ASSUME NEW S \in SUBSET Dispatches, NEW T \in SUBSET S
  PROVE  /\ Cardinality(S) \in Nat /\ Cardinality(T) \in Nat
         /\ Cardinality(T) <= Cardinality(S)
BY SpawnAssumption, FS_Subset, FS_CardinalityType DEF SpawnAssumption

(* Only a spawn under the lease adds to what holds a slot.                  *)
LEMMA OthersHoldNoMore ==
  ASSUME SpawnTypeOK, Named, [Next]_vars, ~ \E e \in Executors : Spawning(e)
  PROVE  Holding' \subseteq Holding
<1>1. RowsOK /\ revived \subseteq Dispatches /\ \A x \in Dispatches : state[x] \in States \cup {"none"}
  BY TypeParts DEF RowsOK, RestOK
<1>2. CASE state' = state /\ revived' = revived
  BY <1>2 DEF Holding
<1>3. ASSUME NEW d \in Dispatches, NEW new, Sets(d, new), revived' = revived,
             new \in Active => state[d] \in Active
      PROVE  Holding' \subseteq Holding
  BY <1>1, <1>3 DEF Holding, Sets, RowsOK
<1>4. ASSUME NEW d \in Dispatches, Sets(d, "running"), Legal(state[d], "running"), revived' = revived
      PROVE  Holding' \subseteq Holding
  BY <1>1, <1>3, <1>4, LegalFrom DEF Active
<1>5. ASSUME NEW d \in Dispatches, Child(d)
      PROVE  Holding' \subseteq Holding
  <2>1. CASE Received(d)
    BY <1>2, <1>3, <2>1 DEF Received, Active, history
  <2>2. CASE Ask(d)
    BY <1>1, <2>2 DEF Ask, Sets, Holding, RowsOK
  <2>3. CASE Done(d)
    BY <1>3, <2>3 DEF Done, Active, history
  <2>4. CASE Exit(d)
    BY <1>2, <2>4 DEF Exit, rows, history
  <2> QED BY <1>5, <2>1, <2>2, <2>3, <2>4 DEF Child
<1>6. ASSUME NEW w \in Workers, Supervising(w)
      PROVE  Holding' \subseteq Holding
  <2>1. CASE GiveUp(w)
    <3>1. run[w].of \in Dispatches
      BY <2>1, Kinds DEF GiveUp, At, Named
    <3> QED BY <1>2, <1>3, <2>1, <3>1 DEF GiveUp, history, Active
  <2>2. CASE Tended(w)
    <3>1. run[w].of \in Dispatches
      BY <2>2, Kinds DEF Tended, At, Named
    <3>2. CASE state' = state
      BY <1>2, <2>2, <3>2 DEF Tended, history
    <3>3. CASE Sets(run[w].of, "failed")
      BY <1>3, <2>2, <3>1, <3>3 DEF Tended, history, Active
    <3>4. CASE Sets(run[w].of, "running") /\ Legal(state[run[w].of], "running")
      BY <1>4, <2>2, <3>1, <3>4 DEF Tended, history
    <3> QED BY <2>2, <3>2, <3>3, <3>4 DEF Tended
  <2> QED BY <1>2, <1>6, <2>1, <2>2 DEF Supervising, rows, history, Transfer, Pass, After, Leave, Rest, Tend
<1>7. CASE Commands
  <2>1. CASE \E d \in Dispatches : QueueCancel(d) \/ Reply(d) \/ Close(d)
    BY <1>2, <2>1 DEF QueueCancel, Reply, Close, Asks, rows, history
  <2>2. CASE Cancelled
    <3>1. coord.of \in Dispatches
      BY <2>2 DEF Cancelled, Named
    <3> QED BY <1>2, <1>3, <2>2, <3>1 DEF Cancelled, Active
  <2>3. CASE Replied
    <3>1. coord.of \in Dispatches
      BY <2>3 DEF Replied, Named
    <3> QED BY <1>2, <1>4, <2>3, <3>1 DEF Replied, history
  <2>4. CASE Closed
    <3>1. coord.of \in Dispatches
      BY <2>4 DEF Closed, Named
    <3> QED BY <1>2, <1>3, <2>4, <3>1 DEF Closed, history, Active
  <2>5. CASE Kills
    BY <1>2, <2>5 DEF Kills, rows, history
  <2> QED BY <1>7, <2>1, <2>2, <2>3, <2>4, <2>5 DEF Commands, Finishes
<1>8. CASE UNCHANGED vars \/ (\E e \in Executors : Crash(e)) \/ (\E w \in Workers : Expire(w)) \/ RunsOut
  BY <1>2, <1>8 DEF vars, rows, history, Crash, Expire, RunsOut
<1> QED BY <1>5, <1>6, <1>7, <1>8, Split

(* A spawn adds its own dispatch, and does so where a slot was decided on.  *)
LEMMA SpawnHolds ==
  ASSUME Inv, NEW e \in Executors, Spawning(e)
  PROVE  /\ run[e].of \in Dispatches /\ revived' = revived
         /\ Holding' \subseteq Holding \cup {run[e].of}
         /\ run[e].pc \notin Deciding => Holding' \subseteq Holding
<1>1. SpawnTypeOK /\ Named /\ WaitsBare /\ LaunchesBare /\ RunOK
  BY TypeParts DEF Inv, SpawnInv
<1> DEFINE d == run[e].of
<1>2. d \in Dispatches /\ Worked(e, d) /\ \A x \in Dispatches \ {d} : Kept(x)
  BY <1>1, SpawningRun, SpawningRows
<1>3. revived' = revived
  BY DEF Spawning, history, AcquireAdmission, AdmissionBusy, Decide, Requeue, Enqueue, Claim, Record,
         Insert, Fill, Publish, Launch, Ready, Deferred, Transport, Persist, Mark, Marking, Fail,
         StepFails, Wake, Release, Kill
<1>4. Holding' \subseteq Holding \cup {d}
  BY <1>2, <1>3 DEF Holding, Kept
<1>5. ASSUME run[e].pc \notin Deciding, state'[d] \in Active
      PROVE  state[d] \in Active
  BY <1>1, <1>2, <1>5 DEF Worked, Kept, Deciding, Active, LaunchesBare, WaitsBare
<1>6. run[e].pc \notin Deciding => Holding' \subseteq Holding
  BY <1>2, <1>3, <1>4, <1>5 DEF Holding
<1> QED BY <1>2, <1>3, <1>4, <1>6

LEMMA DecidesByFit ==
  ASSUME SpawnTypeOK, Named, NEW e \in Executors, Spawning(e), run'[e].pc \in Deciding
  PROVE  run[e].pc \in Deciding \/ (run[e].pc = "decide" /\ Fits(run[e].of))
<1>1. RunOK /\ Advances(e)
  BY TypeParts, EarlyRun
<1>2. run[e].pc \in Deciding \cup {"decide"}
  BY <1>1 DEF Advances, Deciding
<1>3. CASE run[e].pc = "decide"
  <2>1. Decide(e)
    BY <1>3 DEF Spawning, At, AcquireAdmission, AdmissionBusy, Requeue, Enqueue, Claim, Record,
       Insert, Fill, Publish, Launch, Ready, Deferred, Transport, Persist, Mark, Marking, Fail,
       StepFails, Wake, Release, Kill
  <2>2. CASE Goto(e, "requeue") \/ Goto(e, "enqueue")
    BY <1>1, <2>2, GotoRun DEF Deciding
  <2> QED BY <1>3, <2>1, <2>2 DEF Decide
<1> QED BY <1>2, <1>3

LEMMA LimitStep ==
  ASSUME LInv, [Next]_vars
  PROVE  Limit'
<1>1. /\ Inv /\ SpawnTypeOK /\ Named /\ GateIsHeld /\ RunOK /\ Limit
      /\ Holding \subseteq Dispatches /\ Holding' \subseteq Dispatches /\ MaxAgents \in Nat
  BY TypeParts, SpawnAssumption DEF LInv, Inv, SpawnInv, Holding, SpawnAssumption
<1>2. ASSUME Holding' \subseteq Holding,
             \A x \in Executors : run'[x].pc \in Deciding => run'[x] = run[x]
      PROVE  Limit'
  <2>1. Cardinality(Holding') <= Cardinality(Holding) /\ Cardinality(Holding) \in Nat /\ Cardinality(Holding') \in Nat
    BY <1>1, <1>2, Smaller
  <2>2. ASSUME NEW x \in Executors, run'[x].pc \in Deciding
        PROVE  Cardinality(Holding' \ {run'[x].of}) < MaxAgents
    <3>1. Cardinality(Holding \ {run[x].of}) < MaxAgents
      BY <1>1, <1>2, <2>2 DEF Limit
    <3>2. /\ Holding \ {run[x].of} \in SUBSET Dispatches
          /\ Holding' \ {run'[x].of} \in SUBSET (Holding \ {run[x].of})
      BY <1>1, <1>2, <2>2
    <3> QED BY <1>1, <3>1, <3>2, Smaller
  <2> QED BY <1>1, <2>1, <2>2 DEF Limit
<1>3. ASSUME NEW e \in Executors, Spawning(e)
      PROVE  Limit'
  <2> DEFINE d == run[e].of
  <2>1. /\ d \in Dispatches /\ run'[e].of = d
        /\ Holding' \subseteq Holding \cup {d}
        /\ run[e].pc \notin Deciding => Holding' \subseteq Holding
    BY <1>1, <1>3, SpawnHolds, SpawningRun
  <2> HIDE DEF d
  <2>2. \A x \in Executors \ {e} : run'[x].pc \in Deciding => run'[x] = run[x] /\ run[x].pc \in InGate
    BY <1>1, <1>3, SpawningRun DEF Started, Runs, Deciding, InGate
  <2>3. CASE run[e].pc \notin Deciding /\ run'[e].pc \notin Deciding
    BY <1>2, <2>1, <2>2, <2>3
  <2>4. CASE run[e].pc \in Deciding \/ run'[e].pc \in Deciding
    <3>1. Cardinality(Holding' \ {d}) < MaxAgents
      <4>1. CASE run[e].pc \in Deciding
        <5>1. Cardinality(Holding \ {d}) < MaxAgents
          BY <1>1, <4>1 DEF Limit, d
        <5>2. Holding \ {d} \in SUBSET Dispatches /\ Holding' \ {d} \in SUBSET (Holding \ {d})
          BY <1>1, <2>1
        <5> QED BY <1>1, <5>1, <5>2, Smaller
      <4>2. CASE run[e].pc \notin Deciding
        <5>1. Fits(d)
          BY <1>1, <1>3, <2>4, <4>2, DecidesByFit DEF d
        <5> DEFINE others == {x \in Dispatches \ {d} : state[x] \in Active}
        <5>2. Cardinality(others) < MaxAgents
          BY <5>1 DEF Fits
        <5>3. others \in SUBSET Dispatches /\ Holding' \ {d} \in SUBSET others
          BY <2>1, <4>2 DEF Holding
        <5> QED BY <1>1, <5>2, <5>3, Smaller
      <4> QED BY <4>1, <4>2
    <3>2. Cardinality(Holding') <= MaxAgents
      <4>1. IsFiniteSet(Holding' \ {d})
        BY <1>1, SpawnAssumption, FS_Subset DEF SpawnAssumption
      <4>2. Cardinality((Holding' \ {d}) \cup {d}) <= Cardinality(Holding' \ {d}) + 1
        <5> DEFINE rest == Holding' \ {d}
        <5>1. Cardinality(rest) \in Nat
          BY <4>1, FS_CardinalityType
        <5>2. Cardinality(rest \cup {d}) = IF d \in rest THEN Cardinality(rest) ELSE Cardinality(rest) + 1
          BY <4>1, FS_AddElement
        <5> QED BY <5>1, <5>2
      <4>3. /\ (Holding' \ {d}) \cup {d} \in SUBSET Dispatches
            /\ Holding' \in SUBSET ((Holding' \ {d}) \cup {d})
        BY <1>1, <2>1
      <4>4. Cardinality(Holding' \ {d}) \in Nat
        BY <4>1, FS_CardinalityType
      <4> QED BY <1>1, <3>1, <4>2, <4>3, <4>4, Smaller
    <3>3. run[e].pc \in InGate
      BY <1>1, <1>3, <2>4, DecidesByFit DEF Deciding, InGate
    <3>4. \A x \in Executors : run'[x].pc \in Deciding => x = e
      BY <1>1, <2>2, <3>3 DEF GateIsHeld
    <3> QED BY <2>1, <3>1, <3>2, <3>4 DEF Limit
  <2> QED BY <2>3, <2>4
<1>4. ASSUME ~ \E e \in Executors : Spawning(e)
      PROVE  Limit'
  <2>1. Holding' \subseteq Holding
    BY <1>1, <1>4, OthersHoldNoMore
  <2>2. ASSUME NEW w \in Workers, Supervising(w), NEW x \in Executors, run'[x].pc \in Deciding
        PROVE  run'[x] = run[x]
    BY <1>1, <2>2, SupervisingRun DEF Others, Deciding, InGate
  <2>3. ASSUME NEW e \in Executors, Crash(e), NEW x \in Executors, run'[x].pc \in Deciding
        PROVE  run'[x] = run[x]
    BY <1>1, <2>3, CrashRun DEF Others, Deciding
  <2>4. \A x \in Executors : run'[x].pc \in Deciding => run'[x] = run[x]
    BY <1>4, <2>2, <2>3, QuietRun, Split
  <2> QED BY <1>2, <2>1, <2>4
<1> QED BY <1>3, <1>4

(* "Set limits with resources policy set" (README.md): however many spawns  *)
(* decide, fail and crash at once, no more dispatches are active than the   *)
(* policy allows, but for those that a late ask brought back.              *)
THEOREM LimitHolds == Spec => []WithinLimit
<1>1. Init => LInv
  <2>1. Init => Inv
    BY SpawnAssumption, Kinds DEF Init, Inv, SpawnInv, SpawnTypeOK, Named, GateIsHeld, WaitsBare,
       CancelledIsClosed, LaunchesBare, LaunchedOnce, SpawnAssumption, Runs, Idle, Steps, InGate, States, Executors
  <2>2. ASSUME Init PROVE Limit
    <3>1. Holding = {}
      BY <2>2 DEF Init, Holding, Active
    <3>2. \A e \in Executors : run[e].pc \notin Deciding
      BY <2>2 DEF Init, Deciding, Runs
    <3> QED BY <3>1, <3>2, FS_EmptySet, SpawnAssumption DEF Limit, SpawnAssumption
  <2> QED BY <2>1, <2>2 DEF LInv
<1>2. LInv /\ [Next]_vars => LInv'
  <2> SUFFICES ASSUME LInv, [Next]_vars PROVE LInv'
    OBVIOUS
  <2>1. Inv
    BY DEF LInv
  <2>2. Inv'
    BY <2>1, TypeStep, NamedStep, GateStep, WaitsStep, CancelledStep, LaunchesStep, LaunchedStep DEF Inv, SpawnInv
  <2> QED BY <2>2, LimitStep DEF LInv
<1>3. ASSUME LInv PROVE WithinLimit
  <2> DEFINE active == {d \in Dispatches : state[d] \in Active}
  <2>1. revived \subseteq Dispatches /\ Cardinality(Holding) <= MaxAgents /\ MaxAgents \in Nat
    BY <1>3, SpawnAssumption DEF LInv, Inv, SpawnTypeOK, Limit, SpawnAssumption
  <2>2. /\ IsFiniteSet(active) /\ IsFiniteSet(revived) /\ IsFiniteSet(Holding)
        /\ active \subseteq Holding \cup revived /\ Holding \cup revived \subseteq Dispatches
    BY <2>1, SpawnAssumption, FS_Subset DEF SpawnAssumption, Holding
  <2>3. /\ Cardinality(active) <= Cardinality(Holding \cup revived)
        /\ Cardinality(active) \in Nat /\ Cardinality(Holding \cup revived) \in Nat
    BY <2>2, Smaller
  <2>4. Cardinality(Holding \cup revived) <= Cardinality(Holding) + Cardinality(revived)
    <3>1. Cardinality(Holding \cup revived) =
            Cardinality(Holding) + Cardinality(revived) - Cardinality(Holding \cap revived)
      BY <2>2, FS_Union
    <3>2. IsFiniteSet(Holding \cap revived)
      BY <2>2, FS_Intersection
    <3>3. Cardinality(Holding \cap revived) \in Nat /\ Cardinality(Holding) \in Nat /\ Cardinality(revived) \in Nat
      BY <2>2, <3>2, FS_CardinalityType
    <3> HIDE DEF Holding
    <3> QED BY <3>1, <3>3
  <2>5. Cardinality(Holding) \in Nat /\ Cardinality(revived) \in Nat
    BY <2>2, FS_CardinalityType
  <2> QED BY <2>1, <2>3, <2>4, <2>5 DEF WithinLimit
<1> QED BY <1>1, <1>2, <1>3, PTL DEF Spec
=============================================================================
