------------------------------ MODULE SpawnQueue ------------------------------
(***************************************************************************)
(* The life of a dispatch from `orchestrate spawn` to its end, under an    *)
(* admission policy (core/admission.ts): the spawn command, the queue of   *)
(* spawns that did not fit, the supervisor that starts them, the child's   *)
(* reports and the coordinator's commands.                                 *)
(*                                                                         *)
(* A step is one request to the state owner, which serializes them, or one *)
(* read of the database; what runs them are processes of their own.  A     *)
(* lease whose holder's process is gone is free, as acquireLease makes it  *)
(* on the next request.  Left out: orphaned and exited dispatches, records *)
(* of older builds, and the lease of an admission that outlives its 300 s. *)
(***************************************************************************)
EXTENDS Naturals, Sequences, FiniteSets

CONSTANTS
  Dispatches,  \* one spawn command each, which is named by its dispatch
  Workers,     \* supervisor workers that may be alive at once
  MaxAgents,   \* the policy's limit
  Budget,      \* how often each kind of event happens, and all kinds together
  NoOne

Executors == Dispatches \cup Workers   \* what calls executeSpawn
Events == {"load", "busy", "fail", "crash", "slow", "ask", "exit", "cancel", "close", "reply", "any"}

ASSUME SpawnAssumption ==
  /\ Dispatches \cap Workers = {}
  /\ NoOne \notin Executors
  /\ IsFiniteSet(Dispatches)
  /\ MaxAgents \in Nat
  /\ Budget \in [Events -> Nat]

VARIABLES
  state,     \* dispatches.state, "none" before the row exists
  entry,     \* admissionQueueEntry
  late,      \* readinessState is "starting": the supervisor awaits the agent's first turn
  order,     \* the rows in the order of created_at
  agent,     \* the terminal of the dispatch: "none", "pane", "alive" or "gone"
  gate,      \* holder of the lease resource-admission
  watch,     \* holder of the lease supervise
  run,       \* executor -> its step, dispatch, the rest of its list, how executeSpawn
             \* went, and whether it recorded its terminal
  coord,     \* the coordinator's command in flight and the row it has read
  launches,  \* history: agents launched for the dispatch
  cancelled, \* history: dispatches whose cancellation was confirmed
  revived,   \* history: settled dispatches that a late ask brought back
  budget     \* what is left of Budget

rows    == <<state, entry, late, order>>
leases  == <<gate, watch>>
history == <<launches, cancelled, revived>>
vars    == <<rows, agent, leases, run, coord, history, budget>>

States  == {"queued", "spawning", "running", "waiting_for_reply", "done", "failed", "closed"}
Active  == {"spawning", "running", "waiting_for_reply"}
Open    == Active \cup {"queued"}

Transitions ==
  [queued            |-> {"spawning", "failed", "closed"},
   spawning          |-> {"running", "failed", "closed"},
   running           |-> {"waiting_for_reply", "done", "failed", "closed"},
   waiting_for_reply |-> {"running", "done", "failed", "closed"},
   done              |-> {"closed"},
   failed            |-> {"closed"},
   closed            |-> {}]

(* The steps of executeSpawn under the lease.                              *)
InGate == {"decide", "requeue", "enqueue", "claim", "record", "insert", "fill", "publish",
           "launch", "ready", "deferred", "transport", "persist", "mark", "marking",
           "fail", "wake", "release"}

Idle    == [op |-> "none", of |-> NoOne, state |-> "none", entry |-> FALSE, late |-> FALSE]
Runs(step, d) == [pc |-> step, of |-> d, items |-> {}, ok |-> TRUE, mine |-> FALSE]

Init ==
  /\ state = [d \in Dispatches |-> "none"]
  /\ entry = [d \in Dispatches |-> FALSE]
  /\ late  = [d \in Dispatches |-> FALSE]
  /\ order = <<>>
  /\ agent = [d \in Dispatches |-> "none"]
  /\ gate = NoOne /\ watch = NoOne
  /\ run = [e \in Executors |-> IF e \in Dispatches THEN Runs("gate", e) ELSE Runs("off", NoOne)]
  /\ coord = Idle
  /\ launches = [d \in Dispatches |-> 0]
  /\ cancelled = {} /\ revived = {}
  /\ budget = Budget

----------------------------------------------------------------------------
Spend(e) ==
  /\ budget[e] > 0 /\ budget["any"] > 0
  /\ budget' = [budget EXCEPT ![e] = @ - 1, !["any"] = @ - 1]

At(e, step)   == run[e].pc = step
Goto(e, step) == run' = [run EXCEPT ![e].pc = step]
Fails(e)      == run' = [run EXCEPT ![e].pc = "release", ![e].ok = FALSE]

(* executeSpawn returns to the worker that goes on, or ends the command.    *)
Returns(e, ok) ==
  run' = [run EXCEPT ![e] =
            IF e \in Workers THEN [@ EXCEPT !.pc = "after", !.ok = ok, !.mine = FALSE] ELSE Runs("off", e)]

(* dispatch-patch checks a new state against the table, and changes nothing *)
(* when it refuses.                                                        *)
Legal(from, to) == from # "none" /\ (from = to \/ to \in Transitions[from])
Sets(d, new)    == state' = [state EXCEPT ![d] = new]

(* A patch by executor e: refused, it is an exception that ends the spawn.  *)
Patch(e, new, next) ==
  IF Legal(state[run[e].of], new)
  THEN Sets(run[e].of, new) /\ Goto(e, next)
  ELSE Fails(e) /\ UNCHANGED state

Gone(d) == [agent EXCEPT ![d] = IF @ = "none" THEN @ ELSE "gone"]
OpenRows == {d \in Dispatches : state[d] \in Open}
Queued   == {d \in Dispatches : state[d] \in {"queued", "spawning"} /\ entry[d]}
Before(c, d) == \E i, j \in DOMAIN order : i < j /\ order[i] = c /\ order[j] = d

(* Mutant of Fits: settled dispatches count.                               *)
FitsUnlessClosed(d) ==
  Cardinality({x \in Dispatches \ {d} : state[x] \notin {"none", "queued", "closed"}}) < MaxAgents
(* decideAdmission: the dispatch does not count against itself.            *)
Fits(d) == Cardinality({x \in Dispatches \ {d} : state[x] \in Active}) < MaxAgents

----------------------------------------------------------------------------
(* executeSpawn and runSpawn, by the command of a fresh spawn or by a      *)
(* worker for a queued one.                                                *)

(* Mutant of AcquireAdmission: a held lease is granted.                    *)
AcquireShared(e) ==
  /\ At(e, "gate")
  /\ gate' = e
  /\ Goto(e, "decide")
  /\ UNCHANGED <<rows, agent, watch, coord, history, budget>>

AcquireAdmission(e) ==
  /\ At(e, "gate") /\ gate = NoOne
  /\ gate' = e
  /\ Goto(e, "decide")
  /\ UNCHANGED <<rows, agent, watch, coord, history, budget>>

(* A worker has the lease though it could not release it.                  *)
Unreleased == gate # NoOne /\ run[gate].pc \notin InGate

(* Another spawn held the lease for the whole wait, or nobody does any more. *)
AdmissionBusy(e) ==
  /\ At(e, "gate") /\ gate # NoOne
  /\ (Unreleased /\ UNCHANGED budget) \/ Spend("busy")
  /\ Returns(e, FALSE)
  /\ UNCHANGED <<rows, agent, leases, coord, history>>

(* A queued spawn is claimed; one whose supervisor died over it goes on.    *)
(* A machine over the policy's memory limits admits nobody.                *)
Decide(e) ==
  LET d     == run[e].of
      waits == entry[d] /\ state[d] \in {"queued", "spawning"} IN
  /\ At(e, "decide")
  /\ \/ /\ Fits(d) /\ UNCHANGED budget
        /\ IF entry[d] /\ ~waits THEN Fails(e)
           ELSE Goto(e, IF entry[d] /\ state[d] = "queued" THEN "claim" ELSE "record")
     \/ /\ \/ ~Fits(d) /\ UNCHANGED budget
           \/ Fits(d) /\ Spend("load")
        /\ Goto(e, IF waits THEN "requeue" ELSE "enqueue")
  /\ UNCHANGED <<rows, agent, leases, coord, history>>

(* The table refuses spawning -> queued.                                   *)
Requeue(e) ==
  /\ At(e, "requeue")
  /\ IF state[run[e].of] \in {"queued", "spawning"}
     THEN Patch(e, "queued", "wake")
     ELSE Fails(e) /\ UNCHANGED state
  /\ UNCHANGED <<entry, late, order, agent, leases, coord, history, budget>>

(* Mutant of Create: an existing row is replaced.                          *)
Upsert(e, new, queued, next) ==
  LET d == run[e].of IN
  /\ Sets(d, new) /\ entry' = [entry EXCEPT ![d] = queued]
  /\ order' = IF state[d] = "none" THEN Append(order, d) ELSE order
  /\ run' = [run EXCEPT ![e].pc = next, ![e].mine = ~queued]
  /\ agent' = IF queued THEN agent ELSE [agent EXCEPT ![d] = "pane"]

(* A row that exists cannot be created: the insert is an exception.        *)
Create(e, new, queued, next) ==
  LET d == run[e].of IN
  IF state[d] = "none"
  THEN /\ Sets(d, new) /\ entry' = [entry EXCEPT ![d] = queued] /\ order' = Append(order, d)
       /\ run' = [run EXCEPT ![e].pc = next, ![e].mine = ~queued]
       /\ agent' = IF queued THEN agent ELSE [agent EXCEPT ![d] = "pane"]
  ELSE Fails(e) /\ UNCHANGED <<state, entry, order, agent>>

Enqueue(e) ==
  /\ At(e, "enqueue")
  /\ Create(e, "queued", TRUE, "wake")
  /\ UNCHANGED <<late, leases, coord, history, budget>>

(* The claim expects the spawn to be queued still.                         *)
Claim(e) ==
  /\ At(e, "claim")
  /\ IF state[run[e].of] = "queued"
     THEN Patch(e, "spawning", "record")
     ELSE Fails(e) /\ UNCHANGED state
  /\ UNCHANGED <<entry, late, order, agent, leases, coord, history, budget>>

(* A terminal is created, or that fails; the row is read, then created or   *)
(* filled in whole, which takes it off the queue before the agent is there. *)
Record(e) ==
  LET d == run[e].of IN
  /\ At(e, "record")
  /\ \/ /\ Goto(e, IF entry[d] /\ state[d] \in {"queued", "spawning"} THEN "fill" ELSE "insert")
        /\ UNCHANGED budget
     \/ Fails(e) /\ Spend("fail")
  /\ UNCHANGED <<rows, agent, leases, coord, history>>

Insert(e) ==
  /\ At(e, "insert")
  /\ Create(e, "spawning", FALSE, "publish")
  /\ UNCHANGED <<late, leases, coord, history, budget>>

(* Mutant of Fill: the row stays in the queue.                             *)
FillKeepsEntry(e) ==
  LET d == run[e].of IN
  /\ At(e, "fill")
  /\ IF Legal(state[d], "spawning")
     THEN /\ Sets(d, "spawning")
          /\ run' = [run EXCEPT ![e].pc = "publish", ![e].mine = TRUE]
          /\ agent' = [agent EXCEPT ![d] = "pane"]
     ELSE Fails(e) /\ UNCHANGED <<state, agent>>
  /\ UNCHANGED <<entry, late, order, leases, coord, history, budget>>

Fill(e) ==
  LET d == run[e].of IN
  /\ At(e, "fill")
  /\ IF Legal(state[d], "spawning")
     THEN /\ Sets(d, "spawning") /\ entry' = [entry EXCEPT ![d] = FALSE]
          /\ run' = [run EXCEPT ![e].pc = "publish", ![e].mine = TRUE]
          /\ agent' = [agent EXCEPT ![d] = "pane"]
     ELSE Fails(e) /\ UNCHANGED <<state, entry, agent>>
  /\ UNCHANGED <<late, order, leases, coord, history, budget>>

----------------------------------------------------------------------------
(* The steps of the spawn plan.  Each but the last few writes the state     *)
(* that the plan holds, "spawning", over the row's.                        *)

Publish(e) ==
  /\ At(e, "publish")
  /\ Patch(e, "spawning", "launch")
  /\ UNCHANGED <<entry, late, order, agent, leases, coord, history, budget>>

(* The pane's shell is replaced by the agent.  A pane that is gone fails.   *)
Launch(e) ==
  LET d == run[e].of IN
  /\ At(e, "launch")
  /\ IF agent[d] = "gone"
     THEN Goto(e, "fail") /\ UNCHANGED <<agent, launches>>
     ELSE /\ agent' = [agent EXCEPT ![d] = "alive"]
          /\ launches' = [launches EXCEPT ![d] = @ + 1]
          /\ Goto(e, "ready")
  /\ UNCHANGED <<rows, leases, coord, cancelled, revived, budget>>

(* A step of the plan fails.                                               *)
StepFails(e) ==
  /\ run[e].pc \in {"publish", "launch", "ready", "transport"}
  /\ Spend("fail")
  /\ Goto(e, "fail")
  /\ UNCHANGED <<rows, agent, leases, coord, history>>

(* The agent runs, and the wait for its first frame ends: three steps of    *)
(* the plan, which write the same.  An agent that is not ready is left to   *)
(* the supervisor, and so is its brief.                                    *)
Ready(e) ==
  LET d == run[e].of IN
  /\ At(e, "ready")
  /\ \/ Patch(e, "spawning", "transport") /\ UNCHANGED late
     \/ /\ Patch(e, "spawning", "deferred")
        /\ late' = [late EXCEPT ![d] = @ \/ Legal(state[d], "spawning")]
  /\ UNCHANGED <<entry, order, agent, leases, coord, history, budget>>

Deferred(e) ==
  /\ At(e, "deferred")
  /\ late' = [late EXCEPT ![run[e].of] = TRUE]
  /\ Goto(e, "persist")
  /\ UNCHANGED <<state, entry, order, agent, leases, coord, history, budget>>

(* The brief was taken; or it was given and nothing shows that it was taken *)
(* yet, which may be a dialog that stands before the agent.                *)
Transport(e) ==
  LET d == run[e].of IN
  /\ At(e, "transport")
  /\ \/ Goto(e, "mark") /\ UNCHANGED late
     \/ /\ Goto(e, "persist")
        /\ \E starting \in {late[d], TRUE} : late' = [late EXCEPT ![d] = starting]
  /\ UNCHANGED <<state, entry, order, agent, leases, coord, history, budget>>

Persist(e) ==
  /\ At(e, "persist")
  /\ Patch(e, "spawning", "wake")
  /\ UNCHANGED <<entry, late, order, agent, leases, coord, history, budget>>

(* markRunningIfSpawning reads, then writes.                               *)
Mark(e) ==
  /\ At(e, "mark")
  /\ Goto(e, IF state[run[e].of] = "spawning" THEN "marking" ELSE "wake")
  /\ UNCHANGED <<rows, agent, leases, coord, history, budget>>

Marking(e) ==
  /\ At(e, "marking")
  /\ Patch(e, "running", "wake")
  /\ UNCHANGED <<entry, late, order, agent, leases, coord, history, budget>>

(* The plan fails: the row says so and the terminal is removed.  A refused  *)
(* patch leaves before the removal.                                        *)
Fail(e) ==
  LET d == run[e].of IN
  /\ At(e, "fail")
  /\ Fails(e)
  /\ IF Legal(state[d], "failed")
     THEN Sets(d, "failed") /\ agent' = Gone(d)
     ELSE UNCHANGED <<state, agent>>
  /\ UNCHANGED <<entry, late, order, leases, coord, history, budget>>

(* startSupervisorWorker                                                   *)
Wake(e) ==
  /\ At(e, "wake")
  /\ IF OpenRows # {} /\ watch = NoOne
     THEN \E w \in Workers :
            /\ At(w, "off")
            /\ watch' = w
            /\ run' = [run EXCEPT ![e].pc = "release", ![w] = Runs("starting", NoOne)]
     ELSE Goto(e, "release") /\ UNCHANGED watch
  /\ UNCHANGED <<rows, agent, gate, coord, history, budget>>

(* A release that fails goes unnoticed: the lease of a worker stays till it *)
(* runs out or the worker ends.  That of a command ends with the command.   *)
Release(e) ==
  /\ At(e, "release")
  /\ \/ gate' = (IF gate = e THEN NoOne ELSE gate) /\ UNCHANGED budget
     \/ e \in Workers /\ Spend("fail") /\ UNCHANGED gate
  /\ IF ~run[e].ok /\ run[e].mine THEN Goto(e, "kill") ELSE Returns(e, run[e].ok)
  /\ UNCHANGED <<rows, agent, watch, coord, history>>

RunsOut ==
  /\ Unreleased
  /\ gate' = NoOne
  /\ UNCHANGED <<rows, agent, watch, run, coord, history, budget>>

(* A spawn that failed kills the session it created; one that was there     *)
(* before it stays, with what runs in it.                                  *)
Kill(e) ==
  /\ At(e, "kill")
  /\ agent' \in {agent, Gone(run[e].of)}
  /\ Returns(e, FALSE)
  /\ UNCHANGED <<rows, leases, coord, history, budget>>

Spawning(e) ==
  \/ AcquireAdmission(e) \/ AdmissionBusy(e) \/ Decide(e) \/ Requeue(e) \/ Enqueue(e)
  \/ Claim(e) \/ Record(e) \/ Insert(e) \/ Fill(e) \/ Publish(e) \/ Launch(e) \/ Ready(e)
  \/ Deferred(e) \/ Transport(e) \/ Persist(e) \/ Mark(e) \/ Marking(e) \/ Fail(e)
  \/ StepFails(e) \/ Wake(e) \/ Release(e) \/ Kill(e)

----------------------------------------------------------------------------
(* The supervisor worker.                                                  *)

(* It takes over its starter's lease, unless another worker has it.         *)
Transfer(w) ==
  /\ At(w, "starting")
  /\ run' = [run EXCEPT ![w] = Runs(IF watch = w THEN "renew" ELSE "off", NoOne)]
  /\ UNCHANGED <<rows, agent, leases, coord, history, budget>>

(* Mutant of Walk: the list is walked in any order.                        *)
WalkAnyhow(w, items) ==
  \/ items = {} /\ run' = [run EXCEPT ![w] = Runs("tend", NoOne)]
  \/ \E d \in items : run' = [run EXCEPT ![w] = [Runs("gate", d) EXCEPT !.items = items \ {d}]]

(* The spawns of the list are tried in the order of their rows, then late   *)
(* agents are tended.                                                      *)
Walk(w, items) ==
  \/ items = {} /\ run' = [run EXCEPT ![w] = Runs("tend", NoOne)]
  \/ \E d \in items :
       /\ \A c \in items : ~Before(c, d)
       /\ run' = [run EXCEPT ![w] = [Runs("gate", d) EXCEPT !.items = items \ {d}]]

(* A pass begins: the lease is renewed and the open dispatches are listed.  *)
Pass(w) ==
  /\ At(w, "renew")
  /\ IF watch \in {w, NoOne}
     THEN watch' = w /\ IF OpenRows = {} THEN Goto(w, "leave") ELSE Walk(w, Queued)
     ELSE Goto(w, "leave") /\ UNCHANGED watch
  /\ UNCHANGED <<rows, agent, gate, coord, history, budget>>

(* Mutant of After: the walk goes on past one that must wait.              *)
AfterSkips(w) ==
  /\ At(w, "after")
  /\ IF run[w].ok
     THEN Walk(w, run[w].items)
     ELSE Goto(w, IF state[run[w].of] = "queued" THEN "dequeue" ELSE "abandon")
  /\ UNCHANGED <<rows, agent, leases, coord, history, budget>>

(* The row is read: a spawn that still does not fit ends the walk, one that *)
(* went wrong is given up, if it is still what was read.                    *)
After(w) ==
  LET d == run[w].of IN
  /\ At(w, "after")
  /\ IF run[w].ok
     THEN Walk(w, IF state[d] = "queued" THEN {} ELSE run[w].items)
     ELSE Goto(w, IF state[d] = "queued" THEN "dequeue" ELSE "abandon")
  /\ UNCHANGED <<rows, agent, leases, coord, history, budget>>

GiveUp(w) ==
  LET d == run[w].of
      expected == IF At(w, "dequeue") THEN "queued" ELSE "spawning" IN
  /\ At(w, "dequeue") \/ At(w, "abandon")
  /\ Walk(w, run[w].items)
  /\ IF state[d] = expected THEN Sets(d, "failed") ELSE UNCHANGED state
  /\ UNCHANGED <<entry, late, order, agent, leases, coord, history, budget>>

(* A late agent is looked at, and the row written when that is done.        *)
Tend(w, d) ==
  /\ At(w, "tend") /\ late[d] /\ ~entry[d] /\ state[d] \in Open
  /\ run' = [run EXCEPT ![w] = Runs("tending", d)]
  /\ UNCHANGED <<rows, agent, leases, coord, history, budget>>

(* A refused patch is an exception that ends the worker.                   *)
Tended(w) ==
  LET d == run[w].of
      seen == IF agent[d] = "gone" THEN "failed" ELSE "running" IN
  /\ At(w, "tending")
  /\ \/ Goto(w, "tend") /\ agent[d] # "gone" /\ UNCHANGED <<state, late>>
     \/ IF Legal(state[d], seen)
        THEN Sets(d, seen) /\ late' = [late EXCEPT ![d] = FALSE] /\ Goto(w, "tend")
        ELSE Goto(w, "leave") /\ UNCHANGED <<state, late>>
  /\ UNCHANGED <<entry, order, agent, leases, coord, history, budget>>

Rest(w) ==
  /\ At(w, "tend") /\ Goto(w, "renew")
  /\ UNCHANGED <<rows, agent, leases, coord, history, budget>>

Leave(w) ==
  /\ At(w, "leave")
  /\ watch' = IF watch = w THEN NoOne ELSE watch
  /\ gate' = IF gate = w THEN NoOne ELSE gate
  /\ run' = [run EXCEPT ![w] = Runs("off", NoOne)]
  /\ UNCHANGED <<rows, agent, coord, history, budget>>

(* A pass outlives the lease, which is renewed between passes only.         *)
Expire(w) ==
  /\ watch = w /\ ~At(w, "starting")
  /\ Spend("slow")
  /\ watch' = NoOne
  /\ UNCHANGED <<rows, agent, gate, run, coord, history>>

Supervising(w) ==
  \/ Transfer(w) \/ Pass(w) \/ After(w) \/ GiveUp(w) \/ Tended(w)
  \/ Leave(w) \/ Rest(w) \/ \E d \in Dispatches : Tend(w, d)

Crash(e) ==
  /\ run[e].pc # "off"
  /\ Spend("crash")
  /\ run' = [run EXCEPT ![e] = Runs("off", IF e \in Workers THEN NoOne ELSE e)]
  /\ gate' = IF gate = e THEN NoOne ELSE gate
  /\ watch' = IF watch = e THEN NoOne ELSE watch
  /\ UNCHANGED <<rows, agent, coord, history>>

----------------------------------------------------------------------------
(* The child (child-report).  Only done is held against the table.         *)

Received(d) ==
  /\ agent[d] = "alive" /\ state[d] = "spawning"
  /\ Sets(d, "running")
  /\ UNCHANGED <<entry, late, order, agent, leases, run, coord, history, budget>>

Ask(d) ==
  /\ agent[d] = "alive"
  /\ Spend("ask")
  /\ Sets(d, "waiting_for_reply")
  /\ revived' = IF state[d] \in Active THEN revived ELSE revived \cup {d}
  /\ UNCHANGED <<entry, late, order, agent, leases, run, coord, launches, cancelled>>

Done(d) ==
  /\ agent[d] = "alive"
  /\ state[d] # "done" /\ Legal(state[d], "done")
  /\ Sets(d, "done")
  /\ UNCHANGED <<entry, late, order, agent, leases, run, coord, history, budget>>

Exit(d) ==
  /\ agent[d] = "alive"
  /\ Spend("exit")
  /\ agent' = Gone(d)
  /\ UNCHANGED <<rows, leases, run, coord, history>>

----------------------------------------------------------------------------
(* The coordinator: each command reads the row first.                      *)

(* Only a close goes on with more of the row than its name.                *)
Asks(op, d) ==
  /\ coord = Idle
  /\ coord' = [Idle EXCEPT !.op = op, !.of = d]
  /\ UNCHANGED <<rows, agent, leases, run, history>>

QueueCancel(d) == state[d] = "queued" /\ Spend("cancel") /\ Asks("cancel", d)
Reply(d)       == Legal(state[d], "running") /\ Spend("reply") /\ Asks("reply", d)
Close(d) ==
  /\ coord = Idle
  /\ state[d] \notin {"none", "closed"}
  /\ \/ agent[d] = "gone" /\ UNCHANGED budget
     \/ Spend("close")
  /\ coord' = [op |-> "close", of |-> d, state |-> state[d], entry |-> entry[d], late |-> late[d]]
  /\ UNCHANGED <<rows, agent, leases, run, history>>

(* A dispatch without its agent is closed.                                 *)
Clears(d) == agent[d] = "gone" /\ Close(d)

(* Mutant of Cancelled: the state is not looked at again.                  *)
CancelledUnseen ==
  /\ coord.op = "cancel"
  /\ coord' = Idle
  /\ Sets(coord.of, "closed") /\ cancelled' = cancelled \cup {coord.of}
  /\ UNCHANGED <<entry, late, order, agent, leases, run, launches, revived, budget>>

(* Mutant of Cancelled: a state the table does not have.                   *)
CancelledByName ==
  /\ coord.op = "cancel"
  /\ coord' = Idle
  /\ IF state[coord.of] = "queued"
     THEN Sets(coord.of, "cancelled") /\ cancelled' = cancelled \cup {coord.of}
     ELSE UNCHANGED <<state, cancelled>>
  /\ UNCHANGED <<entry, late, order, agent, leases, run, launches, revived, budget>>

Cancelled ==
  /\ coord.op = "cancel"
  /\ coord' = Idle
  /\ IF state[coord.of] = "queued"
     THEN Sets(coord.of, "closed") /\ cancelled' = cancelled \cup {coord.of}
     ELSE UNCHANGED <<state, cancelled>>
  /\ UNCHANGED <<entry, late, order, agent, leases, run, launches, revived, budget>>

Replied ==
  /\ coord.op = "reply"
  /\ coord' = Idle
  /\ IF Legal(state[coord.of], "running") THEN Sets(coord.of, "running") ELSE UNCHANGED state
  /\ UNCHANGED <<entry, late, order, agent, leases, run, history, budget>>

(* The terminal of the row that was read is removed (a close that cannot do *)
(* that ends, having done nothing), ...                                    *)
Kills ==
  LET d == coord.of IN
  /\ coord.op = "close"
  /\ coord' = [coord EXCEPT !.op = "closing"]
  /\ agent' = IF coord.entry THEN agent ELSE Gone(d)
  /\ UNCHANGED <<rows, leases, run, history, budget>>

(* ... and that row written back whole unless its state has changed.        *)
Closed ==
  LET d == coord.of IN
  /\ coord.op = "closing"
  /\ coord' = Idle
  /\ IF state[d] = coord.state
     THEN /\ Sets(d, "closed")
          /\ entry' = [entry EXCEPT ![d] = coord.entry]
          /\ late' = [late EXCEPT ![d] = coord.late]
     ELSE UNCHANGED <<state, entry, late>>
  /\ UNCHANGED <<order, agent, leases, run, history, budget>>

----------------------------------------------------------------------------
Child(d) == Received(d) \/ Ask(d) \/ Done(d) \/ Exit(d)
Finishes == Cancelled \/ Replied \/ Kills \/ Closed
Commands == (\E d \in Dispatches : QueueCancel(d) \/ Reply(d) \/ Close(d)) \/ Finishes

Next ==
  \/ \E d \in Dispatches : Child(d)
  \/ \E e \in Executors : Spawning(e) \/ Crash(e)
  \/ \E w \in Workers : Supervising(w) \/ Expire(w)
  \/ RunsOut \/ Commands

Spec == Init /\ [][Next]_vars

(* Processes go on with what they began; a child reports its brief and its *)
(* end; and a coordinator closes a dispatch whose agent is gone, which the *)
(* supervisor tells it.  Nobody has to ask, cancel or reply.               *)
Fairness ==
  /\ \A d \in Dispatches : WF_vars(Spawning(d)) /\ WF_vars(Received(d) \/ Done(d)) /\ SF_vars(Clears(d))
  /\ \A w \in Workers : WF_vars(Spawning(w) \/ Supervising(w))
  /\ WF_vars(Finishes)

FairSpec == Spec /\ Fairness

----------------------------------------------------------------------------
Steps  == InGate \cup {"off", "gate", "kill", "after", "dequeue", "abandon", "starting", "renew",
                     "tend", "tending", "leave"}

SpawnTypeOK ==
  /\ state \in [Dispatches -> States \cup {"none"}]
  /\ entry \in [Dispatches -> BOOLEAN] /\ late \in [Dispatches -> BOOLEAN]
  /\ order \in Seq(Dispatches)
  /\ agent \in [Dispatches -> {"none", "pane", "alive", "gone"}]
  /\ gate \in Executors \cup {NoOne} /\ watch \in Workers \cup {NoOne}
  /\ run \in [Executors -> [pc : Steps, of : Dispatches \cup {NoOne}, items : SUBSET Dispatches,
                            ok : BOOLEAN, mine : BOOLEAN]]
  /\ coord \in [op : {"none", "cancel", "close", "closing", "reply"}, of : Dispatches \cup {NoOne},
                state : States \cup {"none"}, entry : BOOLEAN, late : BOOLEAN]
  /\ launches \in [Dispatches -> Nat]
  /\ cancelled \subseteq Dispatches /\ revived \subseteq Dispatches
  /\ budget \in [Events -> Nat]

(* A dispatch gets one agent, however many workers walk the queue at once   *)
(* and wherever one of them dies over it.                                  *)
LaunchedOnce == \A d \in Dispatches : launches[d] <= 1

(* A spawn whose cancellation was confirmed never gets an agent.           *)
CancelledNeverStarts == \A d \in cancelled : launches[d] = 0

(* Why: executeSpawn works on one dispatch at a time, under the lease; what *)
(* waits in the queue has no terminal, a terminal nobody launched into has *)
(* no agent, and what was cancelled is closed for good.                    *)
Named ==
  /\ \A e \in Executors :
       run[e].pc \notin {"off", "starting", "renew", "tend", "leave"} => run[e].of \in Dispatches
  /\ \A d \in Dispatches : run[d].of = d /\ run[d].pc \in InGate \cup {"gate", "kill", "off"}
  /\ coord.op # "none" => coord.of \in Dispatches
  /\ coord.op \in {"close", "closing"} => coord.state # "none"
GateIsHeld == \A e \in Executors : run[e].pc \in InGate => gate = e
WaitsBare ==
  \A d \in Dispatches :
    /\ state[d] = "none" => agent[d] = "none"
    /\ state[d] = "queued" \/ (state[d] = "spawning" /\ entry[d]) => agent[d] = "none"
    /\ agent[d] \in {"none", "pane"} => launches[d] = 0
CancelledIsClosed == \A d \in cancelled : state[d] = "closed" /\ agent[d] = "none"
LaunchesBare ==
  \A e \in Executors :
    /\ run[e].pc = "fill" => entry[run[e].of] \/ state[run[e].of] \notin {"queued", "spawning"}
    /\ run[e].pc \in {"publish", "launch"} => agent[run[e].of] \in {"pane", "gone"}
    /\ run[e].pc \in {"ready", "deferred", "transport", "persist", "mark", "marking"} =>
         agent[run[e].of] # "none"

SpawnInv ==
  /\ Named /\ GateIsHeld /\ WaitsBare /\ CancelledIsClosed /\ LaunchesBare /\ LaunchedOnce

(* The policy's limit holds between spawns that decide, start, fail and     *)
(* crash at once, but for dispatches that a late ask brought back.         *)
WithinLimit ==
  Cardinality({d \in Dispatches : state[d] \in Active}) <= MaxAgents + Cardinality(revived)

(* "The supervisor starts it in order" (README.md): no spawn is claimed     *)
(* while an earlier one waits in the queue.                                *)
InOrder ==
  [][\A c, d \in Dispatches :
       (Before(c, d) /\ state[c] = "queued" /\ state[d] = "queued") => state'[d] # "spawning"]_vars

(* Why: a row is created by its own command only, and the walk of a         *)
(* supervisor leaves nobody behind who came earlier.                       *)
Early == {"gate", "decide", "requeue", "enqueue", "claim", "record", "insert", "fill"}
RowsInOrder ==
  \A d \in Dispatches :
    /\ state[d] # "none" <=> \E i \in DOMAIN order : order[i] = d
    /\ state[d] = "queued" => entry[d]
    /\ run[d].pc \in Early => state[d] = "none"
WalkInOrder ==
  \A w \in Workers : \A d \in Dispatches :
    /\ d \in run[w].items \cup {run[w].of} => state[d] # "none"
    /\ run[w].of = d /\ run[w].pc \in {"record", "insert", "fill", "abandon"} => state[d] # "queued"
    /\ \A c \in Dispatches : Before(c, d) /\ state[c] = "queued" =>
         /\ ~(run[w].of = d /\ run[w].pc \in {"gate", "decide", "claim"})
         /\ d \in run[w].items => c \in run[w].items \cup {run[w].of}

QueueInv == RowsInOrder /\ WalkInOrder

(* A spawn in the list of a supervisor leaves the queue, or the supervisors *)
(* end: nothing before it in the queue, nor the lease, holds it for ever.   *)
Sees(d) == \E w \in Workers :
  ~At(w, "off") /\ d \in run[w].items \cup {run[w].of}
QueueMoves ==
  \A d \in Dispatches :
    Sees(d) ~> (state[d] # "queued" \/ \A w \in Workers : At(w, "off"))
=============================================================================
