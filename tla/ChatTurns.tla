------------------------------ MODULE ChatTurns ------------------------------
(***************************************************************************)
(* One chat of the chat daemon (src/chat/daemon): the messages a person    *)
(* sends or queues, the Claude process that answers them, and the daemon   *)
(* that drains, dies and starts again.                                     *)
(*                                                                         *)
(* The daemon is one thread; a step is what it does between two awaits.    *)
(* The chat record is read into a copy and later written whole, so the     *)
(* copy is a field of whoever holds it.  The state waiting-approval is     *)
(* "working": every guard here treats the two alike.  The chat has an agent *)
(* session to resume.  Terminals, sessions held elsewhere and the turns of *)
(* Codex and Grok are left out.                                            *)
(***************************************************************************)
EXTENDS Naturals, Sequences

CONSTANTS
  Msgs,      \* messages, each typed once
  Sent,      \* those given to `send`; the others are given to `queue add`
  Procs,     \* agent processes, each spawned once
  Budget,    \* how often each kind of event happens
  NoOne

Events == {"interrupt", "stop", "now", "remove", "edit", "exit", "mute", "fail", "drain", "crash"}
Others == {"person", "timer"}   \* what runs in the daemon beside the messages' calls
Tasks  == Msgs \cup Others

ASSUME ChatAssumption ==
  /\ Sent \subseteq Msgs
  /\ NoOne \notin Msgs \cup Procs
  /\ Msgs \cap Others = {}
  /\ Budget \in [Events -> Nat]

VARIABLES
  rec,       \* the state in the chat record on disk
  queue,     \* the queue file, which the cached queue follows
  resumes,   \* resume.json names the chat
  life,      \* the daemon: "down", "boot", "resume", "sending", "up", "draining" or "leaving"
  child,     \* children: the agent process of the chat, or NoOne
  outbox,    \* queues: shown messages that wait for the agent
  held,      \* queueHeld
  cutting,   \* interrupting
  seen,      \* outputSeen
  timer,     \* startTimers: the process whose first output is awaited, or NoOne
  drains,    \* drainChains: calls of drain that wait their turn
  drainer,   \* drainOnce: its step, the child and the message it holds
  handler,   \* eventChains: the event being handled, its copy, the drains it waits for
  task,      \* call -> its step, its copy, the process it holds, whether the message was
             \* taken from the queue, whether it resumes the chat
  agent,     \* process -> its life, input, turn and output, and how its exit is handled
  shown,     \* history: messages published as the person's
  handed,    \* history: messages written to a live agent, in order
  budget     \* what is left of Budget

disk    == <<rec, queue, resumes>>
flow    == <<outbox, held, cutting>>
starts  == <<seen, timer>>
drained == <<drains, drainer>>
history == <<shown, handed>>
vars    == <<disk, life, child, flow, starts, drained, handler, task, agent, history, budget>>

States  == {"starting", "idle", "working", "suspended", "error"}
Off     == [pc |-> "off", proc |-> NoOne, msg |-> NoOne]
NoEvent == [kind |-> "none", copy |-> "idle", ahead |-> 0]
Call(step)  == [pc |-> step, copy |-> "idle", proc |-> NoOne, taken |-> FALSE, resuming |-> FALSE]
Agent(stage) == [life |-> stage, ok |-> FALSE, inbox |-> <<>>, turn |-> NoOne, spoke |-> FALSE,
                 sigint |-> FALSE, out |-> <<>>, exit |-> "none", after |-> "idle"]

Init ==
  /\ rec = "suspended"
  /\ queue = <<>> /\ resumes = FALSE
  /\ life = "up" /\ child = NoOne
  /\ outbox = <<>> /\ held = FALSE /\ cutting = FALSE
  /\ seen = FALSE /\ timer = NoOne
  /\ drains = 0 /\ drainer = Off /\ handler = NoEvent
  /\ task = [t \in Tasks |-> Call(IF t \in Msgs THEN "new" ELSE "done")]
  /\ agent = [p \in Procs |-> Agent("off")]
  /\ shown = {} /\ handed = <<>>
  /\ budget = Budget

----------------------------------------------------------------------------
Spend(e) == budget[e] > 0 /\ budget' = [budget EXCEPT ![e] = @ - 1]

Serving  == life \in {"up", "draining", "leaving"}
In(m, s) == \E i \in DOMAIN s : s[i] = m

(* take: the message leaves the queue and those behind it move up.         *)
Without(s, m) ==
  LET at == CHOOSE i \in DOMAIN s : s[i] = m
  IN [i \in 1..Len(s) - 1 |-> IF i < at THEN s[i] ELSE s[i + 1]]

Goto(t, step) == task' = [task EXCEPT ![t].pc = step]
Read(t, step) == task' = [task EXCEPT ![t].pc = step, ![t].copy = rec]
End(t)   == task' = [task EXCEPT ![t] = Call("done")]

(* Mutant of Killed: the process is not told to go.                        *)
KilledNever(p) == agent
Killed(p) == [agent EXCEPT ![p].life = IF @ = "up" THEN "term" ELSE @]
Drop(p)   == agent' = (IF p = NoOne THEN agent ELSE Killed(p)) /\ child' = NoOne

(* Calls of drain run one after the other, each from when the last ended.   *)
Reading(c) == [Off EXCEPT !.pc = "read", !.proc = c]
(* Mutant of CallDrain: one that is called while another runs is dropped.  *)
CallDrainDropped ==
  IF drainer.pc = "off" THEN drainer' = Reading(child) /\ UNCHANGED drains ELSE UNCHANGED drained
CallDrain ==
  IF drainer.pc = "off"
  THEN drainer' = Reading(child) /\ UNCHANGED drains
  ELSE drains' = drains + 1 /\ UNCHANGED drainer

(* Messages the daemon has taken over from the person.                     *)
KnownMsgs == {m \in Msgs :
  /\ task[m].pc \notin {"new", "away", "refused"}
  /\ task[m].pc \in {"branch", "deliver", "show"} => task[m].taken}

----------------------------------------------------------------------------
(* Messages come in (send, queueOperation).                                *)

(* A draining daemon only queues.                                          *)
Send(m) ==
  /\ m \in Sent /\ task[m].pc = "new" /\ Serving
  /\ IF life = "up"
     THEN Goto(m, "branch") /\ UNCHANGED queue
     ELSE queue' = Append(queue, m) /\ End(m)
  /\ UNCHANGED <<rec, resumes, life, child, flow, starts, drained, handler, agent, history, budget>>

Add(m) ==
  /\ m \notin Sent /\ task[m].pc = "new" /\ Serving
  /\ queue' = Append(queue, m)
  /\ End(m)
  /\ CallDrain
  /\ UNCHANGED <<rec, resumes, life, child, flow, starts, handler, agent, history, budget>>

SendNow(m) ==
  /\ In(m, queue) /\ task[m].pc = "done" /\ life = "up"
  /\ Spend("now")
  /\ task' = [task EXCEPT ![m].pc = "branch", ![m].taken = TRUE]
  /\ UNCHANGED <<disk, life, child, flow, starts, drained, handler, agent, history>>

Remove(m) ==
  /\ In(m, queue) /\ Serving
  /\ Spend("remove")
  /\ queue' = Without(queue, m)
  /\ UNCHANGED <<rec, resumes, life, child, flow, starts, drained, handler, task, agent, history>>

(* An edited message goes to the end.                                      *)
Edit(m) ==
  /\ In(m, queue) /\ Serving
  /\ Spend("edit")
  /\ queue' = Append(Without(queue, m), m)
  /\ UNCHANGED <<rec, resumes, life, child, flow, starts, drained, handler, task, agent, history>>

(* takeOver refuses under a drain: the client waits for the next daemon.   *)
Branch(m) ==
  /\ task[m].pc = "branch" /\ ~task[m].taken
  /\ CASE life # "up"                   -> Goto(m, "away") /\ UNCHANGED queue
       [] life = "up" /\ rec = "working" -> queue' = Append(queue, m) /\ End(m)
       [] life = "up" /\ rec # "working" -> Read(m, "deliver") /\ UNCHANGED queue
  /\ UNCHANGED <<rec, resumes, life, child, flow, starts, drained, handler, agent, history, budget>>

(* Mutant of Left: the message stays in the queue.                         *)
LeftCopied(m) == queue
Left(m) == Without(queue, m)

(* send-now takes its message and cuts the turn that runs.                 *)
Take(m) ==
  /\ task[m].pc = "branch" /\ task[m].taken
  /\ IF life = "up" /\ In(m, queue)
     THEN queue' = Left(m) /\ Goto(m, IF rec = "working" THEN "cut" ELSE "reread")
     ELSE End(m) /\ UNCHANGED queue
  /\ UNCHANGED <<rec, resumes, life, child, flow, starts, drained, handler, agent, history, budget>>

Reread(m) ==
  /\ task[m].pc = "reread"
  /\ Read(m, "deliver")
  /\ UNCHANGED <<disk, life, child, flow, starts, drained, handler, agent, history, budget>>

(* Mutant of Published: the line is not published.                         *)
PublishedNever(m) == shown
Published(m) == shown \cup {m}

(* deliver: the record, the person's line, then the agent.                 *)
Deliver(m) ==
  /\ task[m].pc = "deliver"
  /\ rec' = task[m].copy
  /\ Goto(m, "show")
  /\ UNCHANGED <<queue, resumes, life, child, flow, starts, drained, handler, agent, history, budget>>

Show(m) ==
  LET resuming == task[m].copy = "suspended"
      begins == resuming \/ (child = NoOne /\ task[m].copy = "idle")
  IN
  /\ task[m].pc = "show"
  /\ shown' = Published(m)
  /\ cutting' = (cutting /\ task[m].taken)
  /\ outbox' = IF resuming THEN <<m>> ELSE Append(outbox, m)
  /\ IF begins
     THEN task' = [task EXCEPT ![m].pc = "begin", ![m].resuming = resuming] /\ UNCHANGED drained
     ELSE End(m) /\ CallDrain
  /\ UNCHANGED <<disk, life, child, held, starts, handler, agent, handed, budget>>

----------------------------------------------------------------------------
(* An agent is started (runAgentInternal).                                 *)

Begin(m) ==
  /\ task[m].pc = "begin"
  /\ rec' = "starting"
  /\ Goto(m, "replace")
  /\ UNCHANGED <<queue, resumes, life, child, flow, starts, drained, handler, agent, history, budget>>

(* One agent per chat: the one there is goes first.                        *)
Replace(m) ==
  /\ task[m].pc = "replace"
  /\ task' = [task EXCEPT ![m].pc = "prepare", ![m].proc = child]
  /\ Drop(child)
  /\ UNCHANGED <<disk, life, flow, starts, drained, handler, history, budget>>

Spawn(m, p) ==
  LET previous == task[m].proc IN
  /\ task[m].pc = "prepare"
  /\ previous # NoOne => agent[previous].life = "gone"
  /\ agent[p].life = "off"
  /\ agent' = [agent EXCEPT ![p].life = "up"]
  /\ child' = p
  /\ task' = [task EXCEPT ![m].pc = "spawned", ![m].proc = p]
  /\ UNCHANGED <<disk, life, flow, starts, drained, handler, history, budget>>

Spawned(m) ==
  /\ task[m].pc = "spawned"
  /\ rec' = "starting"
  /\ seen' = FALSE
  /\ Goto(m, "started")
  /\ UNCHANGED <<queue, resumes, life, child, flow, timer, drained, handler, agent, history, budget>>

(* Claude reads before it prints: what waits goes out now.                 *)
Started(m) ==
  /\ task[m].pc = "started"
  /\ rec' = IF rec = "starting" /\ outbox = <<>> THEN "idle" ELSE rec
  /\ End(m)
  /\ CallDrain
  /\ UNCHANGED <<queue, resumes, life, child, flow, starts, handler, agent, history, budget>>

(* The launch cannot be prepared: resumeFailed, or fail.                   *)
StartFails(m) ==
  /\ task[m].pc = "prepare"
  /\ Spend("fail")
  /\ Goto(m, "failing")
  /\ IF task[m].resuming
     THEN Drop(child) /\ outbox' = <<>> /\ timer' = NoOne
     ELSE UNCHANGED <<child, agent, outbox, timer>>
  /\ UNCHANGED <<disk, life, held, cutting, seen, drained, handler, history>>

Failing(t) ==
  /\ task[t].pc = "failing"
  /\ rec' = IF task[t].resuming THEN "suspended" ELSE "error"
  /\ End(t)
  /\ UNCHANGED <<queue, resumes, life, child, flow, starts, drained, handler, agent, history, budget>>

(* Nothing was printed for a minute after the first write.                 *)
StartTimeout ==
  /\ timer # NoOne /\ task["timer"].pc = "done"
  /\ timer' = NoOne
  /\ IF child = timer /\ ~seen
     THEN /\ Drop(child) /\ Goto("timer", "failing")
          /\ IF agent[timer].life = "up" THEN Spend("mute") ELSE UNCHANGED budget
     ELSE UNCHANGED <<child, agent, task, budget>>
  /\ UNCHANGED <<disk, life, flow, seen, drained, handler, history>>

----------------------------------------------------------------------------
(* The next turn starts (drain, drainOnce).                                *)

Rest ==
  /\ IF drains = 0
     THEN drainer' = Off /\ UNCHANGED drains
     ELSE drainer' = Reading(child) /\ drains' = drains - 1
  /\ handler' = [handler EXCEPT !.ahead = IF @ > 0 THEN @ - 1 ELSE 0]

Takes(m, step) == drainer' = [drainer EXCEPT !.pc = step, !.msg = m] /\ UNCHANGED <<drains, handler>>

DrainRead ==
  /\ drainer.pc = "read"
  /\ IF drainer.proc = NoOne \/ rec = "working" THEN Rest /\ UNCHANGED <<outbox, held, queue>>
     ELSE IF outbox # <<>>
     THEN /\ Takes(Head(outbox), "save")
          /\ outbox' = Tail(outbox) /\ held' = FALSE
          /\ UNCHANGED queue
     ELSE IF rec # "idle" \/ held \/ life \in {"draining", "leaving"} \/ queue = <<>>
     THEN Rest /\ UNCHANGED <<outbox, held, queue>>
     ELSE /\ Takes(Head(queue), "show")
          /\ queue' = Tail(queue)
          /\ UNCHANGED <<outbox, held>>
  /\ UNCHANGED <<rec, resumes, life, child, cutting, starts, task, agent, history, budget>>

DrainShow ==
  /\ drainer.pc = "show"
  /\ shown' = Published(drainer.msg)
  /\ drainer' = [drainer EXCEPT !.pc = "save"]
  /\ UNCHANGED <<disk, life, child, flow, starts, drains, handler, task, agent, handed, budget>>

DrainSave ==
  /\ drainer.pc = "save"
  /\ rec' = "working"
  /\ drainer' = [drainer EXCEPT !.pc = "send"]
  /\ UNCHANGED <<queue, resumes, life, child, flow, starts, drains, handler, task, agent, history, budget>>

DrainSend ==
  LET p == drainer.proc IN
  /\ drainer.pc = "send"
  /\ IF agent[p].life = "up"
     THEN /\ agent' = [agent EXCEPT ![p].inbox = Append(@, drainer.msg)]
          /\ handed' = Append(handed, drainer.msg)
     ELSE UNCHANGED <<agent, handed>>
  /\ timer' = IF seen \/ timer # NoOne THEN timer ELSE p
  /\ Rest
  /\ UNCHANGED <<disk, life, child, flow, seen, task, shown, budget>>

----------------------------------------------------------------------------
(* A turn is cut (interrupt, stop).                                        *)

Interrupt ==
  /\ task["person"].pc = "done" /\ Serving
  /\ Spend("interrupt")
  /\ Goto("person", "cut")
  /\ UNCHANGED <<disk, life, child, flow, starts, drained, handler, agent, history>>

Cut(t) ==
  /\ task[t].pc = "cut"
  /\ task' = [task EXCEPT ![t].pc = "signal", ![t].proc = child]
  /\ held' = TRUE /\ cutting' = TRUE
  /\ UNCHANGED <<disk, life, child, outbox, starts, drained, handler, agent, history, budget>>

Signal(t) ==
  LET p == task[t].proc IN
  /\ task[t].pc = "signal"
  /\ rec' = "idle"
  /\ agent' = IF p # NoOne /\ agent[p].life = "up" THEN [agent EXCEPT ![p].sigint = TRUE] ELSE agent
  /\ IF t \in Msgs THEN Goto(t, "reread") ELSE End(t)
  /\ UNCHANGED <<queue, resumes, life, child, flow, starts, drained, handler, history, budget>>

Stop ==
  /\ task["person"].pc = "done" /\ Serving
  /\ Spend("stop")
  /\ Goto("person", "stopSave")
  /\ Drop(child)
  /\ outbox' = <<>> /\ timer' = NoOne
  /\ UNCHANGED <<disk, life, held, cutting, seen, drained, handler, history>>

StopSave ==
  /\ task["person"].pc = "stopSave"
  /\ rec' = "suspended"
  /\ End("person")
  /\ UNCHANGED <<queue, resumes, life, child, flow, starts, drained, handler, agent, history, budget>>

----------------------------------------------------------------------------
(* The Claude process (external): one turn at a time, in the order it reads *)
(* its input.  Nothing listens to it before its start was recorded.        *)

Heard(p) == \A m \in Msgs : ~(task[m].pc = "spawned" /\ task[m].proc = p)

Prints(p, a) == agent' = [agent EXCEPT ![p] = a] /\ seen' = TRUE /\ timer' = NoOne

TurnBegins(p) ==
  LET a == agent[p] IN
  /\ a.life = "up" /\ a.turn = NoOne /\ a.inbox # <<>> /\ Heard(p)
  /\ Prints(p, [a EXCEPT !.turn = Head(a.inbox), !.inbox = Tail(@), !.out = Append(@, "init")])
  /\ UNCHANGED <<disk, life, child, flow, drained, handler, task, history, budget>>

Speaks(p) ==
  LET a == agent[p] IN
  /\ a.life = "up" /\ a.turn # NoOne /\ ~a.spoke
  /\ Prints(p, [a EXCEPT !.spoke = TRUE, !.out = Append(@, "text")])
  /\ UNCHANGED <<disk, life, child, flow, drained, handler, task, history, budget>>

TurnEnds(p) ==
  LET a == agent[p] IN
  /\ a.life = "up" /\ a.turn # NoOne
  /\ \E kind \in IF a.sigint THEN {"ok", "err"} ELSE {"ok"} :
       Prints(p, [a EXCEPT !.turn = NoOne, !.spoke = FALSE, !.out = Append(@, kind),
                           !.sigint = @ /\ kind = "ok"])
  /\ UNCHANGED <<disk, life, child, flow, drained, handler, task, history, budget>>

(* It was told to, it takes the interrupt as one, or it just ends.  An end  *)
(* nothing listens to is never handled.                                    *)
Exits(p) ==
  /\ agent[p].life \in {"up", "term"}
  /\ \E ok \in BOOLEAN :
       /\ IF agent[p].life = "term" \/ agent[p].sigint
          THEN (agent[p].life = "term" => ~ok) /\ UNCHANGED budget
          ELSE Spend("exit")
       /\ agent' = [agent EXCEPT ![p] = [Agent("gone") EXCEPT !.ok = ok, !.out = agent[p].out,
                                                     !.exit = IF Heard(p) THEN "wait" ELSE "done"]]
  /\ UNCHANGED <<disk, life, child, flow, starts, drained, handler, task, history>>

(* An interrupt that finds no turn.                                        *)
Ignores(p) ==
  /\ agent[p].life = "up" /\ agent[p].sigint /\ agent[p].turn = NoOne
  /\ agent' = [agent EXCEPT ![p].sigint = FALSE]
  /\ UNCHANGED <<disk, life, child, flow, starts, drained, handler, task, history, budget>>

----------------------------------------------------------------------------
(* The daemon hears of it (handleClaude, the close handler).               *)

Free == handler.kind = "none" /\ handler.ahead = 0

Swallowed(kind) == kind = "err" /\ cutting /\ rec = "working"

Handle(p) ==
  LET kind == Head(agent[p].out) IN
  /\ Free /\ agent[p].out # <<>>
  /\ agent' = [agent EXCEPT ![p].out = Tail(@)]
  /\ IF Swallowed(kind)
     THEN cutting' = FALSE /\ UNCHANGED handler
     ELSE handler' = [kind |-> kind, copy |-> rec, ahead |-> 0] /\ UNCHANGED cutting
  /\ UNCHANGED <<disk, life, child, outbox, held, starts, drained, task, history, budget>>

Handled(kind, c) ==
  CASE kind = "init" -> IF c = "starting" THEN "idle" ELSE c
    [] kind = "text" -> c
    [] OTHER         -> "idle"

HandleSave ==
  LET kind == handler.kind IN
  /\ kind # "none"
  /\ rec' = Handled(kind, handler.copy)
  /\ cutting' = (cutting /\ kind # "err")
  /\ IF kind = "text"
     THEN handler' = NoEvent /\ UNCHANGED drained
     ELSE /\ CallDrain
          /\ handler' = [NoEvent EXCEPT !.ahead = drains + IF drainer.pc = "off" THEN 1 ELSE 2]
  /\ UNCHANGED <<queue, resumes, life, child, outbox, held, starts, task, agent, history, budget>>

(* Everything it printed is handled first.  Another agent may be the       *)
(* chat's by then.                                                         *)
ExitForeign(p) ==
  /\ agent[p].exit = "wait" /\ agent[p].out = <<>> /\ Free /\ child # p
  /\ agent' = [agent EXCEPT ![p].exit = "done"]
  /\ UNCHANGED <<disk, life, child, flow, starts, drained, handler, task, history, budget>>

ExitSeen(p) ==
  /\ agent[p].exit = "wait" /\ agent[p].out = <<>> /\ Free /\ child = p
  /\ agent' = [agent EXCEPT ![p].exit = "read"]
  /\ child' = NoOne /\ timer' = NoOne
  /\ UNCHANGED <<disk, life, flow, seen, drained, handler, task, history, budget>>

(* The record is read after that, and what waits is thrown away then.      *)
ExitRead(p) ==
  LET quiet == rec = "suspended"
      state == IF quiet THEN rec ELSE IF cutting \/ agent[p].ok THEN "idle" ELSE "suspended"
  IN
  /\ agent[p].exit = "read"
  /\ agent' = [agent EXCEPT ![p].exit = "save", ![p].after = state]
  /\ cutting' = (cutting /\ quiet)
  /\ outbox' = IF ~quiet /\ state = "suspended" THEN <<>> ELSE outbox
  /\ UNCHANGED <<disk, life, child, held, starts, drained, handler, task, history, budget>>

ExitSave(p) ==
  /\ agent[p].exit = "save"
  /\ rec' = agent[p].after
  /\ agent' = [agent EXCEPT ![p].exit = "done", ![p].after = "idle"]
  /\ UNCHANGED <<queue, resumes, life, child, flow, starts, drained, handler, task, history, budget>>

----------------------------------------------------------------------------
(* The daemon drains, dies and starts (server.ts, resumeDrained).          *)

(* Mutant of Suspended: a state the chat does not have.                    *)
SuspendedStopped(r) == IF r = "error" THEN r ELSE "stopped"
Suspended(r) == IF r = "error" THEN r ELSE "suspended"

Drain ==
  /\ life = "up"
  /\ Spend("drain")
  /\ life' = "draining"
  /\ UNCHANGED <<disk, child, flow, starts, drained, handler, task, agent, history>>

(* Mutant of AtRest: the drain waits for the queue, too.                   *)
AtRestEmpty == rec # "working" /\ Free /\ queue = <<>>
AtRest == rec # "working" /\ Free

(* Mutant of LeavesSome: nothing is left to the next daemon.               *)
LeavesNone == FALSE
LeavesSome == queue # <<>>

(* No turn runs: what is queued is left to the next daemon.                *)
Quiet ==
  /\ life = "draining" /\ AtRest
  /\ life' = "leaving"
  /\ resumes' = (resumes \/ LeavesSome)
  /\ UNCHANGED <<rec, queue, child, flow, starts, drained, handler, task, agent, history, budget>>

(* The process is gone, and its agents with their pipes.                   *)
Lost ==
  /\ life' = "down" /\ child' = NoOne
  /\ outbox' = <<>> /\ held' = FALSE /\ cutting' = FALSE
  /\ seen' = FALSE /\ timer' = NoOne
  /\ drains' = 0 /\ drainer' = Off /\ handler' = NoEvent
  /\ task' = [t \in Tasks |-> 
       IF task[t].pc \in {"new", "away"} THEN task[t]
       ELSE IF t \in KnownMsgs \cup Others THEN Call("done") ELSE Call("refused")]
  /\ agent' = [p \in Procs |-> IF agent[p].life = "off" THEN agent[p]
                               ELSE [Agent("gone") EXCEPT !.exit = "done"]]
  /\ UNCHANGED history

Leave ==
  /\ life = "leaving"
  /\ Lost
  /\ rec' = Suspended(rec)
  /\ UNCHANGED <<queue, resumes, budget>>

Crash ==
  /\ life # "down"
  /\ Spend("crash")
  /\ Lost
  /\ UNCHANGED disk

Boot ==
  /\ life = "down"
  /\ life' = "boot"
  /\ rec' = Suspended(rec)
  /\ task' = [t \in Tasks |-> IF task[t].pc = "away" THEN Call("new") ELSE task[t]]
  /\ UNCHANGED <<queue, resumes, child, flow, starts, drained, handler, agent, history, budget>>

ReadResumes ==
  /\ life = "boot"
  /\ life' = IF resumes THEN "resume" ELSE "up"
  /\ resumes' = FALSE
  /\ UNCHANGED <<rec, queue, child, flow, starts, drained, handler, task, agent, history, budget>>

(* One message of the chat goes out, then the daemon listens.              *)
ResumeQueued ==
  /\ life = "resume"
  /\ IF queue = <<>>
     THEN life' = "up" /\ UNCHANGED <<queue, task>>
     ELSE /\ life' = "sending" /\ queue' = Tail(queue)
          /\ task' = [task EXCEPT ![Head(queue)] = [Call("deliver") EXCEPT !.copy = rec, !.taken = TRUE]]
  /\ UNCHANGED <<rec, resumes, child, flow, starts, drained, handler, agent, history, budget>>

Delivering == \E m \in Msgs : task[m].pc \in {"deliver", "show", "begin"}

Listen ==
  /\ life = "sending" /\ ~Delivering
  /\ life' = "up"
  /\ UNCHANGED <<disk, child, flow, starts, drained, handler, task, agent, history, budget>>

----------------------------------------------------------------------------
Asks(m) == Send(m) \/ Add(m) \/ SendNow(m) \/ Remove(m) \/ Edit(m)

Calls(m) ==
  \/ Branch(m) \/ Take(m) \/ Reread(m) \/ Deliver(m) \/ Show(m)
  \/ Begin(m) \/ Replace(m) \/ (\E p \in Procs : Spawn(m, p)) \/ Spawned(m) \/ Started(m)

Cutting(t) == Cut(t) \/ Signal(t) \/ Failing(t)

Draining == DrainRead \/ DrainShow \/ DrainSave \/ DrainSend

Hearing ==
  \/ HandleSave
  \/ \E p \in Procs : Handle(p) \/ ExitForeign(p) \/ ExitSeen(p) \/ ExitRead(p) \/ ExitSave(p)

Claude(p) == TurnBegins(p) \/ TurnEnds(p) \/ Ignores(p)

Leaving == Quiet \/ Leave \/ Boot \/ ReadResumes \/ ResumeQueued \/ Listen

Next ==
  \/ \E m \in Msgs : Asks(m) \/ Calls(m) \/ StartFails(m)
  \/ \E t \in Tasks : Cutting(t)
  \/ StartTimeout \/ Draining \/ Interrupt \/ Stop \/ StopSave
  \/ \E p \in Procs : Claude(p) \/ Speaks(p) \/ Exits(p)
  \/ Hearing \/ Leaving \/ Drain \/ Crash

Spec == Init /\ [][Next]_vars

(* The daemon goes on with what it began, and a client that waits starts it *)
(* again.  An agent begins the turns it was given and ends them, and one   *)
(* that was told to go goes.  Nobody has to send, cut, speak or drain.     *)
TimesOut == timer # NoOne /\ agent[timer].life # "up" /\ StartTimeout
Goes(p)  == agent[p].life = "term" /\ Exits(p)

Fairness ==
  /\ \A m \in Msgs : WF_vars(Calls(m))
  /\ \A t \in Tasks : WF_vars(Cutting(t))
  /\ \A p \in Procs : WF_vars(Claude(p)) /\ WF_vars(Goes(p))
  /\ WF_vars(StopSave) /\ WF_vars(TimesOut)
  /\ WF_vars(Draining) /\ WF_vars(Hearing) /\ WF_vars(Leaving)

FairSpec == Spec /\ Fairness

----------------------------------------------------------------------------
Steps == {"new", "away", "refused", "branch", "reread", "deliver", "show", "begin",
          "replace", "prepare", "spawned", "started", "failing", "cut", "signal",
          "stopSave", "done"}

TaskType ==
  [pc : Steps, copy : States, proc : Procs \cup {NoOne}, taken : BOOLEAN, resuming : BOOLEAN]

AgentType ==
  [life : {"off", "up", "term", "gone"}, ok : BOOLEAN, inbox : Seq(Msgs), turn : Msgs \cup {NoOne},
   spoke : BOOLEAN, sigint : BOOLEAN, out : Seq({"init", "text", "ok", "err"}),
   exit : {"none", "wait", "read", "save", "done"}, after : States]

ChatTypeOK ==
  /\ rec \in States
  /\ queue \in Seq(Msgs) /\ outbox \in Seq(Msgs) /\ handed \in Seq(Msgs)
  /\ resumes \in BOOLEAN /\ held \in BOOLEAN /\ cutting \in BOOLEAN /\ seen \in BOOLEAN
  /\ life \in {"boot", "resume", "sending", "up", "draining", "leaving", "down"}
  /\ child \in Procs \cup {NoOne} /\ timer \in Procs \cup {NoOne}
  /\ drains \in Nat
  /\ drainer \in [pc : {"off", "read", "show", "save", "send"}, proc : Procs \cup {NoOne}, msg : Msgs \cup {NoOne}]
  /\ handler \in [kind : {"none", "init", "text", "ok", "err"}, copy : States, ahead : Nat]
  /\ task \in [Tasks -> TaskType]
  /\ agent \in [Procs -> AgentType]
  /\ shown \subseteq Msgs
  /\ budget \in [Events -> Nat]

(* Where a message waits for an agent.                                    *)
InCall(m) == task[m].taken /\ task[m].pc \in {"cut", "signal", "reread", "deliver", "show"}
WaitingMsgs == {m \in Msgs : In(m, queue) \/ In(m, outbox) \/ drainer.msg = m \/ InCall(m)}

(* Whatever the person sends, queues, edits or removes, and whatever cuts, *)
(* fails or restarts in between: a message reaches an agent once at most,  *)
(* after it was shown and never after it was taken back; and a message in  *)
(* the queue stays there until it is shown, unless the person removes it   *)
(* or the daemon dies over it.                                             *)
Promise == INSTANCE MessagePromise WITH
  known <- KnownMsgs, waiting <- WaitingMsgs, turns <- handed,
  removals <- Budget["remove"] - budget["remove"], crashes <- Budget["crash"] - budget["crash"]
KeepsPromise == Promise!Spec

(* No two agents work in one chat's directory: the one the daemon counts   *)
(* as the chat's is the only one that was not told to go.  ("One agent per *)
(* chat ... never left behind unowned", agent-process.ts.)                 *)
OneAgent == \A p \in Procs : agent[p].life = "up" => p = child

(* Send now, the queue, the edit and the interrupt move messages about     *)
(* between the same awaits: none reaches an agent twice, unseen, or while  *)
(* it still waits somewhere.                                               *)
OneTurnEach == Promise!OneTurnEach

(* A drain ends: no turn starts behind it for ever, and none it waits for  *)
(* has already gone.                                                       *)
DrainEnds == life = "draining" ~> life # "draining"

(* What waits in the queue when the daemon drains is left to the next one, *)
(* which takes up all of it without being asked.                           *)
QueuedGoesOn == \A m \in Msgs : (In(m, queue) /\ life = "draining") ~> ~In(m, queue)

(* A message shown as sent does not wait in memory for a drain that nobody *)
(* asks for: whoever asks for one while another runs is heard after it.    *)
ShownGoesOut == \A m \in Msgs : In(m, outbox) ~> ~In(m, outbox)

----------------------------------------------------------------------------
(* What the daemon does not see to, and what its promises rest on: of two  *)
(* starts of the chat, one waits for the agent before it when the other    *)
(* one has come that far, ...                                              *)
OneStart == \A m, n \in Msgs : task[m].pc = "prepare" /\ task[n].pc = "prepare" => m = n

(* ... and no message waits in the outbox when the start of an agent for   *)
(* another one replaces it.                                                *)
ResumesAlone ==
  \A m \in Msgs : task[m].pc = "show" /\ task[m].copy = "suspended" => outbox = <<>>
=============================================================================
