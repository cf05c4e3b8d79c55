----------------------------- MODULE ManagedProcs -----------------------------
(***************************************************************************)
(* `proc run` and `proc start` under an admission policy: the queue of     *)
(* waiting commands (core/proc-queue.ts), the holds on the container slot  *)
(* and on docker (core/proc-holds.ts), and the reaper that stops docker    *)
(* again.  Everything is kept in files of one directory; every command and *)
(* the reaper are processes of their own, which may die between two steps, *)
(* and a file speaks for its process only while that process lives.        *)
(*                                                                         *)
(* A step is one file operation or one answer of the machine.  Two kinds   *)
(* of calls are one step here: what the reaper does last (it removes the   *)
(* marker and the lock and exits, without a pause), and the removal of a   *)
(* dead process's files by the one that reads them.  Left out: the name    *)
(* and the port of a process, a machine without docker or a policy, and an *)
(* orb command that fails though it did its work.                          *)
(***************************************************************************)
EXTENDS Naturals, Sequences, FiniteSets

CONSTANTS
  Procs,      \* the commands, each with the process it starts
  Suites,     \* those with --slot container-suite
  Dockers,    \* those with --needs docker
  MaxSuites,  \* the policy's limit
  Budget,     \* how often each kind of event happens, and all kinds together
  Reaper, NoOne

Events == {"full", "cancel", "crash", "fail", "slow", "pid", "reaper", "orb", "start", "stop", "any"}

ASSUME ProcAssumption ==
  /\ Suites \subseteq Procs /\ Dockers \subseteq Procs
  /\ Reaper \notin Procs /\ NoOne \notin Procs \cup {Reaper}
  /\ MaxSuites \in Nat
  /\ Budget \in [Events -> Nat]

VARIABLES
  pc,        \* the command's next step
  order,     \* entries by createdAt, which is taken before the entry is written
  file,      \* the command's entry: "none", "waiting" or "cancelled"
  names,     \* entries of the listing that are still to be read
  listed,    \* entries of the listing that wait
  todo,      \* what an admitted command still writes
  slot,      \* hold on the container slot: of the "command", of the "process", "none"
  hold,      \* hold on docker, likewise
  panes,     \* commands whose process runs in its tmux session
  lock,      \* docker.lock
  docker,    \* docker is "up" or "down"
  marker,    \* docker-started-by-megabrain
  reaper,    \* the reaper's next step
  canceller, \* the entry that `orchestrate queue cancel` has read
  before,    \* history: who waited when the command first looked
  cancelled, \* history: commands that were asked to leave
  budget     \* what is left of Budget

queue  == <<order, file, names, listed, todo>>
engine == <<docker, marker, reaper>>
asked  == <<canceller, cancelled>>
vars   == <<pc, queue, slot, hold, panes, lock, engine, asked, before, budget>>

Looping  == {"look", "list", "read", "judge", "wait", "write"}
Critical == {"up", "boot", "mark", "watch"}
Working  == {"start", "run", "pass"}

Init ==
  /\ pc = [p \in Procs |-> "list"]
  /\ order = <<>>
  /\ file = [p \in Procs |-> "none"]
  /\ names = [p \in Procs |-> {}] /\ listed = [p \in Procs |-> {}] /\ todo = [p \in Procs |-> {}]
  /\ slot = [p \in Procs |-> "none"] /\ hold = [p \in Procs |-> "none"]
  /\ panes = {}
  /\ lock = NoOne
  /\ docker \in {"up", "down"} /\ marker = FALSE /\ reaper = "off"
  /\ canceller = NoOne
  /\ before = [p \in Procs |-> {}] /\ cancelled = {}
  /\ budget = Budget

----------------------------------------------------------------------------
Spend(e) ==
  /\ budget[e] > 0 /\ budget["any"] > 0
  /\ budget' = [budget EXCEPT ![e] = @ - 1, !["any"] = @ - 1]
Spent(e) == budget[e] # Budget[e]

At(p, step)   == pc[p] = step
Goto(p, step) == pc' = [pc EXCEPT ![p] = step]

Alive(p) == pc[p] \notin {"ended", "unknown", "dead"}

(* A hold counts while the process it names lives; a reader removes the    *)
(* others.                                                                 *)
Live(h, p) == (h[p] = "command" /\ Alive(p)) \/ (h[p] = "process" /\ p \in panes)
Pruned(h)  == [p \in Procs |-> IF Live(h, p) THEN h[p] ELSE "none"]
Holders(h) == {p \in Procs : Live(h, p)}

HasEntry(p)  == \E i \in DOMAIN order : order[i] = p
Before(p, q) == \E i, j \in DOMAIN order : i < j /\ order[i] = p /\ order[j] = q

----------------------------------------------------------------------------
(* awaitProcAdmission: a round of the loop reads its own entry, lists the  *)
(* queue, and as its head asks for the machine; else it writes its entry,  *)
(* the whole of it, and sleeps.                                            *)

Look(p) ==
  /\ At(p, "look")
  /\ Goto(p, IF file[p] = "cancelled" THEN "leave" ELSE "list")
  /\ UNCHANGED <<queue, slot, hold, panes, lock, engine, asked, before, budget>>

(* The command leaves the queue as cancelled.                              *)
Leave(p) ==
  /\ At(p, "leave")
  /\ file' = [file EXCEPT ![p] = "none"]
  /\ Goto(p, "ended")
  /\ UNCHANGED <<order, names, listed, todo, slot, hold, panes, lock, engine, asked, before, budget>>

ReadDir(p) ==
  /\ At(p, "list")
  /\ names' = [names EXCEPT ![p] = {q \in Procs : file[q] # "none"}]
  /\ Goto(p, "read")
  /\ UNCHANGED <<order, file, listed, todo, slot, hold, panes, lock, engine, asked, before, budget>>

(* Mutant of ReadEntry: entries of the dead are not removed.               *)
ReadAny(p) ==
  /\ At(p, "read")
  /\ \E q \in names[p] :
       /\ names' = [names EXCEPT ![p] = @ \ {q}]
       /\ listed' = [listed EXCEPT ![p] = IF file[q] = "waiting" THEN @ \cup {q} ELSE @]
  /\ UNCHANGED <<pc, order, file, todo, slot, hold, panes, lock, engine, asked, before, budget>>

(* One entry of listProcQueue: gone, of a dead command, cancelled, or one  *)
(* that waits.                                                             *)
ReadEntry(p) ==
  /\ At(p, "read")
  /\ \E q \in names[p] :
       /\ names' = [names EXCEPT ![p] = @ \ {q}]
       /\ file' = [file EXCEPT ![q] = IF Alive(q) THEN @ ELSE "none"]
       /\ listed' = [listed EXCEPT ![p] = IF file'[q] = "waiting" THEN @ \cup {q} ELSE @]
  /\ UNCHANGED <<pc, order, todo, slot, hold, panes, lock, engine, asked, before, budget>>

(* Mutant of IsHead: an entry that is not in the list does not matter.     *)
HeadOrGone(p) == \A q \in listed[p] \ {p} : HasEntry(p) /\ (Before(p, q) \/ p \notin listed[p])
(* Nobody is ahead, and its own entry, if it has one, was in the list.     *)
IsHead(p) ==
  /\ HasEntry(p) => p \in listed[p]
  /\ \A q \in listed[p] \ {p} : Before(p, q)

Judge(p) ==
  /\ At(p, "read") /\ names[p] = {}
  /\ Goto(p, IF IsHead(p) THEN "judge" ELSE "wait")
  /\ listed' = [listed EXCEPT ![p] = {}]
  /\ before' = IF HasEntry(p) THEN before ELSE [before EXCEPT ![p] = listed[p]]
  /\ UNCHANGED <<order, file, names, todo, slot, hold, panes, lock, engine, asked, budget>>

Fits(p) == p \in Suites => Cardinality(Holders(slot)) < MaxSuites
Onward(p) == IF p \in Dockers THEN "hold" ELSE "start"

(* Admitted: the slot's hold is being written while the entry is removed.  *)
Admit(p) ==
  /\ At(p, "judge") /\ Fits(p)
  /\ slot' = Pruned(slot)
  /\ LET rest == {x \in {"slot", "entry"} : IF x = "slot" THEN p \in Suites ELSE HasEntry(p)}
     IN  /\ todo' = [todo EXCEPT ![p] = rest]
         /\ Goto(p, IF rest = {} THEN Onward(p) ELSE "admitted")
  /\ UNCHANGED <<order, file, names, listed, hold, panes, lock, engine, asked, before, budget>>

Done(p, x) ==
  /\ At(p, "admitted") /\ x \in todo[p]
  /\ todo' = [todo EXCEPT ![p] = @ \ {x}]
  /\ pc' = IF todo[p] = {x} THEN [pc EXCEPT ![p] = Onward(p)] ELSE pc

TakeSlot(p) ==
  /\ Done(p, "slot")
  /\ slot' = [slot EXCEPT ![p] = "command"]
  /\ UNCHANGED <<order, file, names, listed, hold, panes, lock, engine, asked, before, budget>>

RemoveEntry(p) ==
  /\ Done(p, "entry")
  /\ file' = [file EXCEPT ![p] = "none"]
  /\ UNCHANGED <<order, names, listed, slot, hold, panes, lock, engine, asked, before, budget>>

(* The slot is taken, or the machine has too little memory.                *)
Defer(p) ==
  /\ At(p, "judge")
  /\ (~Fits(p) /\ UNCHANGED budget) \/ Spend("full")
  /\ slot' = Pruned(slot)
  /\ Goto(p, "wait")
  /\ UNCHANGED <<queue, hold, panes, lock, engine, asked, before>>

(* --admission fail.                                                       *)
Refuse(p) ==
  /\ At(p, "wait") /\ ~HasEntry(p)
  /\ Goto(p, "ended")
  /\ UNCHANGED <<queue, slot, hold, panes, lock, engine, asked, before, budget>>

(* Mutant of Stamp: each write sets a new time.                            *)
StampAgain(p) ==
  /\ At(p, "wait")
  /\ order' = Append(order, p)
  /\ Goto(p, "write")
  /\ UNCHANGED <<file, names, listed, todo, slot, hold, panes, lock, engine, asked, before, budget>>

(* The entry is made once, and with it the time it is sorted by.           *)
Stamp(p) ==
  /\ At(p, "wait")
  /\ order' = IF HasEntry(p) THEN order ELSE Append(order, p)
  /\ Goto(p, "write")
  /\ UNCHANGED <<file, names, listed, todo, slot, hold, panes, lock, engine, asked, before, budget>>

WriteEntry(p) ==
  /\ At(p, "write")
  /\ file' = [file EXCEPT ![p] = "waiting"]
  /\ Goto(p, "look")
  /\ UNCHANGED <<order, names, listed, todo, slot, hold, panes, lock, engine, asked, before, budget>>

(* cancelProcQueueEntry, by the owner's `orchestrate queue cancel`.        *)
CancelRead(p) ==
  /\ canceller = NoOne
  /\ file[p] # "none" /\ Alive(p)
  /\ Spend("cancel")
  /\ canceller' = p
  /\ UNCHANGED <<pc, queue, slot, hold, panes, lock, engine, cancelled, before>>

CancelMark(p) ==
  /\ canceller = p
  /\ file' = [file EXCEPT ![p] = "cancelled"]
  /\ canceller' = NoOne
  /\ cancelled' = cancelled \cup {p}
  /\ UNCHANGED <<pc, order, names, listed, todo, slot, hold, panes, lock, engine, before, budget>>

----------------------------------------------------------------------------
(* holdDocker: the hold first, then under the lock docker, marker, reaper. *)

TakeHold(p) ==
  /\ At(p, "hold")
  /\ hold' = [hold EXCEPT ![p] = "command"]
  /\ Goto(p, "lock")
  /\ UNCHANGED <<queue, slot, panes, lock, engine, asked, before, budget>>

(* Mutant of Lock: the directory may exist.                                *)
LockShared(p) ==
  /\ At(p, "lock")
  /\ lock' = p
  /\ Goto(p, "up")
  /\ UNCHANGED <<queue, slot, hold, panes, engine, asked, before, budget>>

Lock(p) ==
  /\ At(p, "lock") /\ lock = NoOne
  /\ lock' = p
  /\ Goto(p, "up")
  /\ UNCHANGED <<queue, slot, hold, panes, engine, asked, before, budget>>

(* Its holder died: the lock stays.                                        *)
Orphaned ==
  \/ lock \in Procs /\ pc[lock] = "dead"
  \/ lock = Reaper /\ reaper = "off"

(* 180 seconds have passed.                                                *)
LockTimeout(p) ==
  /\ At(p, "lock") /\ lock # NoOne
  /\ (Orphaned /\ UNCHANGED budget) \/ Spend("slow")
  /\ hold' = [hold EXCEPT ![p] = "none"]
  /\ Goto(p, "fail")
  /\ UNCHANGED <<queue, slot, panes, lock, engine, asked, before>>

DockerUp(p) ==
  /\ At(p, "up")
  /\ Goto(p, IF docker = "up" THEN "watch" ELSE "boot")
  /\ UNCHANGED <<queue, slot, hold, panes, lock, engine, asked, before, budget>>

OrbStart(p) ==
  /\ At(p, "boot")
  /\ docker' = "up"
  /\ Goto(p, "mark")
  /\ UNCHANGED <<queue, slot, hold, panes, lock, marker, reaper, asked, before, budget>>

OrbStartFails(p) ==
  /\ At(p, "boot")
  /\ Spend("fail")
  /\ hold' = [hold EXCEPT ![p] = "none"]
  /\ lock' = NoOne
  /\ Goto(p, "fail")
  /\ UNCHANGED <<queue, slot, panes, engine, asked, before>>

WriteMarker(p) ==
  /\ At(p, "mark")
  /\ marker' = TRUE
  /\ Goto(p, "watch")
  /\ UNCHANGED <<queue, slot, hold, panes, lock, docker, reaper, asked, before, budget>>

EnsureReaper(p) ==
  /\ At(p, "watch")
  /\ reaper' = IF marker /\ reaper = "off" THEN "watch" ELSE reaper
  /\ lock' = NoOne
  /\ Goto(p, "start")
  /\ UNCHANGED <<queue, slot, hold, panes, docker, marker, asked, before, budget>>

(* The reaper does not start: the hold stays until the command has ended.  *)
ReaperFails(p) ==
  /\ At(p, "watch") /\ marker /\ reaper = "off"
  /\ Spend("fail")
  /\ lock' = NoOne
  /\ Goto(p, "fail")
  /\ UNCHANGED <<queue, slot, hold, panes, engine, asked, before>>

(* takeHolds gives the slot back when docker could not be held.            *)
Fail(p) ==
  /\ At(p, "fail")
  /\ slot' = [slot EXCEPT ![p] = "none"]
  /\ Goto(p, "ended")
  /\ UNCHANGED <<queue, hold, panes, lock, engine, asked, before, budget>>

----------------------------------------------------------------------------
(* runProc and startProc.                                                  *)

(* releaseHolds at the end of a command: each file is removed, whoever     *)
(* holds it.                                                               *)
ReleaseHolds(p) ==
  /\ slot' = [slot EXCEPT ![p] = "none"]
  /\ hold' = [hold EXCEPT ![p] = "none"]
  /\ Goto(p, "ended")

Run(p) ==
  /\ At(p, "start")
  /\ Goto(p, "run")
  /\ UNCHANGED <<queue, slot, hold, panes, lock, engine, asked, before, budget>>

RunEnds(p) ==
  /\ At(p, "run")
  /\ ReleaseHolds(p)
  /\ UNCHANGED <<queue, panes, lock, engine, asked, before, budget>>

Launch(p) ==
  /\ At(p, "start")
  /\ panes' = panes \cup {p}
  /\ Goto(p, "pass")
  /\ UNCHANGED <<queue, slot, hold, lock, engine, asked, before, budget>>

LaunchFails(p) ==
  /\ At(p, "start")
  /\ Spend("fail")
  /\ ReleaseHolds(p)
  /\ UNCHANGED <<queue, panes, lock, engine, asked, before>>

(* The holds move to the process, and the command ends.                    *)
Reassign(p) ==
  /\ At(p, "pass")
  /\ slot' = [slot EXCEPT ![p] = IF @ = "none" THEN @ ELSE "process"]
  /\ hold' = [hold EXCEPT ![p] = IF @ = "none" THEN @ ELSE "process"]
  /\ Goto(p, "ended")
  /\ UNCHANGED <<queue, panes, lock, engine, asked, before, budget>>

(* It does not learn the process: the holds go, though the process runs.   *)
ReassignFails(p) ==
  /\ At(p, "pass")
  /\ Spend("pid")
  /\ slot' = [slot EXCEPT ![p] = "none"]
  /\ hold' = [hold EXCEPT ![p] = "none"]
  /\ Goto(p, "unknown")
  /\ UNCHANGED <<queue, panes, lock, engine, asked, before>>

PaneEnds(p) ==
  /\ p \in panes
  /\ panes' = panes \ {p}
  /\ UNCHANGED <<pc, queue, slot, hold, lock, engine, asked, before, budget>>

Die(p) ==
  /\ Alive(p)
  /\ Spend("crash")
  /\ Goto(p, "dead")
  /\ UNCHANGED <<queue, slot, hold, panes, lock, engine, asked, before>>

----------------------------------------------------------------------------
(* The reaper.                                                             *)

(* A tick after the idle period without a holder.                          *)
ReapIdle ==
  /\ reaper = "watch" /\ Holders(hold) = {}
  /\ hold' = Pruned(hold)
  /\ reaper' = "idle"
  /\ UNCHANGED <<pc, queue, slot, panes, lock, docker, marker, asked, before, budget>>

ReapLock ==
  /\ reaper = "idle"
  /\ lock' = IF lock = NoOne THEN Reaper ELSE lock
  /\ reaper' = IF lock = NoOne THEN "check" ELSE "watch"
  /\ UNCHANGED <<pc, queue, slot, hold, panes, docker, marker, asked, before, budget>>

(* Mutant of ReapCheck: holders are not counted again.                     *)
ReapBlindly ==
  /\ reaper = "check"
  /\ reaper' = "stop"
  /\ UNCHANGED <<pc, queue, slot, hold, panes, lock, docker, marker, asked, before, budget>>

(* Mutant of ReapCheck: the lock is kept when there are holders.           *)
ReapHolding ==
  /\ reaper = "check"
  /\ hold' = Pruned(hold)
  /\ reaper' = IF Holders(hold) = {} THEN "stop" ELSE "watch"
  /\ UNCHANGED <<pc, queue, slot, panes, lock, docker, marker, asked, before, budget>>

(* It looks again under the lock.                                          *)
ReapCheck ==
  /\ reaper = "check"
  /\ hold' = Pruned(hold)
  /\ reaper' = IF Holders(hold) = {} THEN "stop" ELSE "watch"
  /\ lock' = IF Holders(hold) = {} THEN lock ELSE NoOne
  /\ UNCHANGED <<pc, queue, slot, panes, docker, marker, asked, before, budget>>

(* Nobody looks whether docker was stopped.                                *)
OrbStop ==
  /\ reaper = "stop"
  /\ reaper' = "exit"
  /\ \/ docker' = "down" /\ UNCHANGED budget
     \/ Spend("orb") /\ UNCHANGED docker
  /\ UNCHANGED <<pc, queue, slot, hold, panes, lock, marker, asked, before>>

ReapExit ==
  /\ reaper = "exit"
  /\ marker' = FALSE
  /\ lock' = NoOne
  /\ reaper' = "off"
  /\ UNCHANGED <<pc, queue, slot, hold, panes, docker, asked, before, budget>>

ReaperDies ==
  /\ reaper # "off"
  /\ Spend("reaper")
  /\ reaper' = "off"
  /\ UNCHANGED <<pc, queue, slot, hold, panes, lock, docker, marker, asked, before>>

(* Somebody else starts or stops docker.                                   *)
UserStarts ==
  /\ docker = "down"
  /\ Spend("start")
  /\ docker' = "up"
  /\ UNCHANGED <<pc, queue, slot, hold, panes, lock, marker, reaper, asked, before>>

UserStops ==
  /\ docker = "up"
  /\ Spend("stop")
  /\ docker' = "down"
  /\ UNCHANGED <<pc, queue, slot, hold, panes, lock, marker, reaper, asked, before>>

----------------------------------------------------------------------------
Waiting(p) ==
  Look(p) \/ Leave(p) \/ ReadDir(p) \/ ReadEntry(p) \/ Judge(p) \/ Admit(p) \/ TakeSlot(p)
    \/ RemoveEntry(p) \/ Defer(p) \/ Refuse(p) \/ Stamp(p) \/ WriteEntry(p)

HoldDocker(p) ==
  TakeHold(p) \/ Lock(p) \/ LockTimeout(p) \/ DockerUp(p) \/ OrbStart(p) \/ OrbStartFails(p)
    \/ WriteMarker(p) \/ EnsureReaper(p) \/ ReaperFails(p) \/ Fail(p)

Works(p) == Run(p) \/ RunEnds(p) \/ Launch(p) \/ LaunchFails(p) \/ Reassign(p) \/ ReassignFails(p)

Reaps == ReapIdle \/ ReapLock \/ ReapCheck \/ OrbStop \/ ReapExit

Next ==
  \/ \E p \in Procs :
       Waiting(p) \/ HoldDocker(p) \/ Works(p) \/ PaneEnds(p) \/ Die(p) \/ CancelRead(p) \/ CancelMark(p)
  \/ Reaps \/ ReaperDies \/ UserStarts \/ UserStops

Spec == Init /\ [][Next]_vars

(* A command and the reaper go on while they live, a cancellation is       *)
(* written, and what was started ends.                                     *)
Fairness ==
  /\ \A p \in Procs : WF_vars(Waiting(p) \/ HoldDocker(p) \/ Works(p)) /\ WF_vars(PaneEnds(p))
  /\ WF_vars(Reaps)
  /\ WF_vars(\E p \in Procs : CancelMark(p))
FairSpec == Spec /\ Fairness

----------------------------------------------------------------------------
(* Properties.                                                             *)

(* Types; an entry keeps its first place.                                  *)
ProcTypeOK ==
  /\ pc \in [Procs -> Looping \cup {"leave", "admitted", "hold", "lock", "fail", "ended", "unknown", "dead"}
                       \cup Critical \cup Working]
  /\ order \in Seq(Procs)
  /\ \A i, j \in DOMAIN order : order[i] = order[j] => i = j
  /\ file \in [Procs -> {"none", "waiting", "cancelled"}]
  /\ names \in [Procs -> SUBSET Procs] /\ listed \in [Procs -> SUBSET Procs]
  /\ todo \in [Procs -> SUBSET {"slot", "entry"}]
  /\ slot \in [Procs -> {"none", "command", "process"}]
  /\ hold \in [Procs -> {"none", "command", "process"}]
  /\ panes \in SUBSET Procs
  /\ lock \in Procs \cup {Reaper, NoOne}
  /\ docker \in {"up", "down"} /\ marker \in BOOLEAN
  /\ reaper \in {"off", "watch", "idle", "check", "stop", "exit"}
  /\ canceller \in Procs \cup {NoOne}
  /\ before \in [Procs -> SUBSET Procs]
  /\ cancelled \in SUBSET Procs
  /\ budget \in [Events -> Nat]

(* A command is not admitted while another waits whose entry it saw when   *)
(* it first looked, unless that one was asked to leave.                    *)
Waits(q) == pc[q] \in Looping /\ file[q] = "waiting" /\ q \notin cancelled
Admits(p) == At(p, "judge") /\ pc'[p] \notin {"judge", "wait", "dead"}
QueueOrder == [][\A p \in Procs : Admits(p) => \A q \in before[p] : ~Waits(q)]_vars

Uses(p) == p \in Dockers /\ (pc[p] \in Working \/ (pc[p] = "ended" /\ p \in panes))

(* The commands and the reaper decide about docker one at a time, what uses *)
(* it holds it in the name of a process that lives, and when the reaper    *)
(* has looked nobody does.                                                 *)
OneDecides ==
  /\ \A p \in Procs : pc[p] \in Critical => lock = p
  /\ reaper \in {"check", "stop", "exit"} => lock = Reaper
HeldByLive ==
  \A p \in Procs :
    /\ p \in Dockers /\ pc[p] \in {"lock"} \cup Critical \cup Working => hold[p] = "command"
    /\ p \in Dockers /\ pc[p] = "ended" /\ p \in panes => hold[p] = "process"
    /\ p \in panes => pc[p] \in {"pass", "ended", "unknown", "dead"}
NobodyLeft == reaper \in {"stop", "exit"} => \A p \in Procs : ~Uses(p)
HoldInv == OneDecides /\ HeldByLive /\ NobodyLeft

(* What was told that it holds docker has it for as long as it runs, unless *)
(* somebody else stops docker: the reaper never does.                      *)
DockerHeld == \A p \in Procs : Uses(p) => docker = "up" \/ Spent("stop")

(* Nobody waits for ever, though others die in the queue, at the lock or   *)
(* with a hold.                                                            *)
Starting(p) == pc[p] \in Looping \cup Critical \cup {"leave", "admitted", "hold", "lock", "fail"}
WaitersEnd == \A p \in Procs : Starting(p) ~> ~Starting(p)

(* Docker that bears megabrain's mark is stopped when nobody holds it any   *)
(* more (the reaper takes the mark away after that), unless the reaper was *)
(* lost, the lock died with its holder, or `orb stop` failed.              *)
Unreaped == Orphaned \/ (reaper = "off" /\ (Spent("reaper") \/ Spent("fail")))
DockerIsStopped == (marker /\ reaper # "exit") ~> (docker = "down" \/ Unreaped \/ Spent("orb"))

(* "The waiter reads the mark, removes its entry and exits without starting *)
(* anything" (core/proc-queue.ts:77): a mark stays until the waiter leaves. *)
MarkStays ==
  [][\A p \in Procs : file[p] = "cancelled" => file'[p] # "waiting"]_vars
=============================================================================
