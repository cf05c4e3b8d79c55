# Megabrain: formal models

TLA+ models of the orchestration core of megabrain, the TLC configurations that
check them on small instances, and TLAPS proofs of the properties that matter
most for every instance. Paths below are relative to the repository's `src/`
directory unless they start with `README.md` or `docs/`.

- [1. The system](#1-the-system)
- [2. Plan](#2-plan)
- [3. The modules and how they correspond to the code](#3-the-modules-and-how-they-correspond-to-the-code)
- [4. What the runs check](#4-what-the-runs-check)
- [5. Disagreements between code and documentation](#5-disagreements-between-code-and-documentation)
- [6. Bounds](#6-bounds)
- [7. Fairness](#7-fairness)
- [8. What is proved](#8-what-is-proved)
- [9. What is not modelled](#9-what-is-not-modelled)

## 1. The system

Megabrain runs coding agents (Claude, Codex, Grok, agy) as child sessions of a
parent session, and lets the two write to each other. Everything that has to
survive an agent, a terminal or the machine is in one SQLite database, and one
process, the *state owner*, is the only writer of it. All other processes
(short-lived CLI commands, the supervisor, the chat daemon, hooks inside the
agents) read the database themselves and write through the owner's socket.

| component | state | operations | interacts with |
|---|---|---|---|
| mailbox (`adapters/state/mailbox.ts`) | messages, deliveries, outbox rows, nudges per dispatch | append mail, reply, supersede, cancel, claim, acknowledge, fence, lease, finish, requeue | called by the owner's operations only |
| delivery worker (`cli/commands/delivery-worker.ts`, `core/session-send.ts`, `core/idle-delivery.ts`, `core/*-delivery.ts`) | per target a chain of rows, a lease with a heartbeat, a cache of sent messages, running verifications | lease a row, try the channels, verify a queued message, fall back to typing | mailbox, the agents' sockets, queues and terminals |
| state owner (`db/state-owner.ts`, `db/state-owner-operations.ts`) | lock file, socket, request ledger, idle timer, subscribed rows | start, stop, execute a request once, sweep the outbox at startup | every other process |
| mail readers (`cli/commands/check.ts`, `orchestrate-parent.ts`, `child-ack.ts`, `hook-turn-end.ts`) | consumer name and generation | check, watch, ack, fence the claims of an earlier generation | mailbox |
| dispatch lifecycle (`core/dispatch-states.ts`, `core/dispatch.ts`, `cli/commands/orchestrate-*.ts`) | state of the dispatch, its process and its terminal | spawn, child report, reply, change, close, prune, adopt, reconcile | owner, terminals, mailbox |
| supervisor (`cli/commands/supervise.ts`, `core/supervise.ts`) | findings already reported, process lease | a round over all open dispatches: retry rows, resume verifications, report findings, free admission slots | owner, mailbox, processes |
| admission and process queue (`core/admission.ts`, `core/proc-queue.ts`, `core/proc-runner.ts`, `core/proc-holds.ts`) | the policy; a directory of waiting commands; holds on the container slot and on docker; the docker lock, marker and reaper | decide, wait, admit, cancel, hold docker, reassign and release holds, reap | supervisor, spawn, tmux, docker |
| chat daemon (`chat/daemon/*.ts`, `chat/store.ts`) | per conversation a queue, a turn, a process, an event log | enqueue, start turn, stream, interrupt, fork, edit, restart | agents, desktop application |
| chains (`core/chain.ts`, `core/chain-limits.ts`, `cli/commands/chain-run.ts`) | ordered agents with limits | choose the next usable agent | usage, spawn |
| channel health (`core/delivery-channel.ts`, `adapters/state/channels.ts`) | per agent and channel: failures, retry time | record result, verdict | delivery worker |
| process leases (`adapters/state/mailbox.ts` 662-700) | key, holder, expiry | acquire, transfer, release | supervisor, verifier, worktrees |
| database (`db/db.ts`, `db/cutover.ts`, `db/schema`, `db/import`) | file, transactions, schema version | open, migrate, write transaction, snapshot | owner |
| worktrees (`core/worktree-*.ts`, `cli/commands/worktree-*.ts`) | worktrees with owners | create, adopt, finish, prune, archive | git, owner |
| knowledge (`knowledge/*.ts`) | summaries, references, artifacts per project | distil, curate, repair | chat daemon |
| agents and hosts (`agents/*.ts`, `hosts/*.ts`, `core/tmux*.ts`) | none of their own | recognise and drive an agent in a terminal | external programs |
| CLI surface, installation, GitHub, devices, usage statistics | configuration files | read, print, install | external programs |
| desktop application (`apps/desktop`) | view state | display, forward operations | chat daemon, CLI |

What makes them hard:

- **mailbox.** A message may be read before, while and after it is pushed; a
  direction may be replaced or cancelled while its row is queued, leased or
  verified. Correct: a replaced direction is never offered, an answered ask is
  never left open, an acknowledgement takes the message from the pusher, a
  cancellation reaches reader and pusher together, claims and final states are
  for good.
- **delivery worker.** Leases, heartbeats, four kinds of channels with different
  guarantees, retries by three actors (worker, supervisor, startup sweep),
  verification that races the reader. Correct: a row recorded as sent was
  received; nothing is pushed twice without cause; what was read or cancelled is
  not pushed; every row ends.
- **state owner.** A request may be sent again after a crash between executing
  and answering it. Correct: executed once, the same answer for every attempt,
  one owner at a time.
- **mail readers.** A restarted session is a new generation of the same
  consumer. Correct: every message is seen by some generation; none is
  acknowledged by a generation that did not see it.
- **dispatch lifecycle.** State is read in one process and patched in another,
  with several round trips between; spawn command, supervisor, child and
  coordinator all write the same row. Correct: a spawn gets one agent, wherever
  its executors die; a cancelled one gets none.
- **admission of spawns, supervisor.** Two spawns decide on the same slot; a
  supervisor walks a list that it read minutes ago, while another has taken over
  its lease. Correct: the limit holds, the queue is started in order, nothing in
  it waits for ever.
- **process queue and holds.** Everything is a file of its own, written by
  processes that die between two steps and read one by one. Correct: who waits is
  not overtaken, docker stays up under its holders and is stopped after the last
  one, nobody waits for a dead one.
- **chat daemon.** One thread, but every handler is cut by awaits and writes back
  a copy of the chat that it read before them. Correct: a message becomes a turn
  once, after it was shown; one agent per chat; a drain ends, and what it leaves
  in the queue goes on in the next daemon.
- **channels, chains, worktrees.** Rounds that act on what they read earlier.
  Correct: a broken channel is left alone until its retry time.

## 2. Plan

Done modules are marked with a check.

1. [x] `Mailbox`: the tables of one dispatch, every operation that writes them,
   arbitrary clients. `MailboxProofs`: its invariants for any number of
   consumers, workers and messages.
2. [x] `DeliveryWorker`: extends `Mailbox` with the owner's chains, workers and
   verifications, the readers, the parent and the supervisor's retries. Composes
   1 with the actors that call it. `DeliveryWorkerProofs`: its safety properties,
   and that it drives the mailbox only by the operations of 1.
3. [x] `StateOwner`: clients, sockets, the request ledger, crash and takeover,
   idle exit. Abstract specification: `RequestContract`, which commits every
   request at most once and says "ok" of nothing else. `StateOwnerProofs`: the
   ledger keeps that contract for any number of owners and requests.
4. [x] `ChatTurns`: messages, queue, turn and agent process of a chat across
   drains and restarts of the daemon. Abstract specification: `MessagePromise`,
   what a person may rely on of a message. `ChatTurnsProofs`: its safety
   properties and the refinement. `MessagePromiseProofs`.
5. [x] `SpawnQueue`: the life of a dispatch with spawn, queue, supervisor, child
   and coordinator, under the admission policy and the two leases.
   `SpawnQueueProofs` and `SpawnLimitProofs`.
6. [x] `ManagedProcs`: the queue of managed processes, the holds on slot and
   docker, the reaper. `ManagedProcsProofs`.
7. [ ] `MailReaders`: `watch`, `check` and `ack` step by step for two generations
   of one consumer, on top of `Mailbox` (fencing, replay, cursor).
8. [ ] `ChannelHealth`: the breaker of a channel against its retry time.
9. [ ] `ChainSelect`: which agent a chain chooses, against a reference definition.

Every invariant, step property and refinement that a run checks has a theorem.
Worth proving next, with module 7: that every message is seen by some generation of its
reader. Liveness stays with TLC.

## 3. The modules and how they correspond to the code

### Mailbox

The tables `messages`, `deliveries` and `outbox` of one dispatch
(`adapters/state/mailbox.ts`). One action is one function of that file, that is
one transaction of the state owner.

| state | code |
|---|---|
| `top`, `message` | table `messages`: the sequence (`nextMessageSequence`), the type, the idempotency key |
| `delivery` | table `deliveries`: status, consumer, generation, the `superseded` flag and the transport of its `extra` column |
| `outbox` | table `outbox`: status, `lease_holder`, `lease_until` as ticks that are left, the verification record of the `detail` column as `peer` |
| `direction` | history: the last reply sent with `--supersede` |

A delivery and a row are named by the sequence of their message; the code
creates the three together. Message types are kept as far as the code tells them
apart: what the parent must act on (`ask`, `done`), what is only kept (`receipt`),
notices whose outbox payload names no sequence (`supervise`, which also stands
for the notices of admission), replies, and the notes the mailbox writes itself.

| action | function |
|---|---|
| `AppendChildMail` | `appendMessage`, `appendQueueMessage` with their outbox entry (`db/state-owner-operations.ts`) |
| `AppendParentReply` | `appendParentReply`: answers the asks, replaces directions, appends a withdrawal note, then the reply |
| `CancelQueued`, `CancelNotice` | the two branches of `cancelQueuedMessage` |
| `ClaimDelivery`, `AckDelivery`, `AckImplicit`, `FenceDelivery`, `SetTransport` | `claimDelivery`, `ackDelivery`, `acknowledgeImplicitDelivery`, `fenceDelivery`, `setDeliveryTransport` |
| `ClaimOutbox`, `RenewOutboxLease`, `FinishOutbox`, `FinishNotification` | the functions of the same names |
| `MarkPeerSent`, `FinishPeerVerification`, `RequeuePeerFallback` | the verification record of a message a channel only queued |
| `RetryFailedChild`, `SupersedeClosedParentDeliveries` | the supervisor's retry, the closing of a dispatch |
| `LeaseTick` | the clock `lease_until` is compared with |

`Shown` is the selection of `core/check.ts`.

### DeliveryWorker

Extends Mailbox with what calls it: the owner's chains of subscribed rows, one
worker per chain (`executeDeliveryWorker`), the verification of a queued message
(`executeDeliveryVerificationWorker`), the child's `check`, the readers, the
parent, and the supervisor's retries. Every call of a mailbox operation is one
step, and between two calls of one actor any other actor may step.

| state | code |
|---|---|
| `chain`, `worker` | `deliveryChains` of the owner; the local variables and the position of the running worker |
| `accepted` | the cache of delivered messages in `core/session-send.ts` |
| `verifier` | the verification timers and their position |
| `epoch`, `swept` | the incarnation of the owner (its workers' holder name) and whether its startup sweep has run |
| `reading`, `retrying` | what a `check` and a supervisor round have read and not yet acted on |
| `phase` | the dispatch as far as the pusher asks: open, done, closed |
| `pushed`, `again`, `faults` | history and the fault budget |

The channels are grouped by what differs in their control. `socket` is the Claude
peer socket and the agy language server: they ask whether the message was read
before they push. `queue` is the Grok leader and the Codex queue, which do not.
`typed` is the terminal. The result of a push is a free choice: it lands
(`PushLands`), it is reported as failed and the next channel follows (`PushFails`), or
nothing else is tried (`PushStops`). What is reported as failed may be in the session
all the same (`MayHaveLanded`).

Faults: `crash` (the owner dies with its chains, timers and cache), `sleep` (a
live owner's lease runs out, because the machine slept through its heartbeats),
`call` (an owner call before the lease throws), `late` (one after it does, and the
task ends with the row leased, or the heartbeat takes its lease for lost) and `doubt`
(a push that was reported as failed is in the session).

### StateOwner and RequestContract

`StateOwner` is the life of owner processes and the request ledger
(`db/state-owner.ts`). The lock, the socket and `owner.pid` are paths; a path holds
the file of one owner and unlinking it removes whatever is there, which is where
starters race. `Starting`, one action per file operation, is `startStateOwner`;
`Stopping` is `stopStateOwner` with its lifecycle timer; `Connect`, `Timeout`,
`GiveUp` and `Respond` are `callStateOwner`; `Execute` is `ownerRequest`, whose
operation and ledger entry are one transaction. `Past` are owners of earlier days,
dead, with their files left in any combination.

`RequestContract` is what a client relies on: a request is committed at most once,
and "ok" is said only of a committed one. A failure or a passed deadline says
nothing. `StateOwner` implements it with the identity as refinement mapping on
`applied` and `answer`; everything else of the owner is internal.

### ChatTurns and MessagePromise

`ChatTurns` is one Claude chat of the chat daemon (`chat/daemon/*.ts`). The daemon
is one thread; an action is what it does between two awaits. A handler reads the
chat's record, awaits, and writes the whole of it back, so each call in flight
carries its copy.

| state | code |
|---|---|
| `rec`, `queue`, `resumes` | the chat record and the queue file (`chat/store.ts`), `resume.json` |
| `life` | the daemon: starting, serving, draining, leaving |
| `child`, `agent` | `children`; the processes with their input, turn, output and exit |
| `outbox`, `held`, `cutting`, `seen`, `timer` | `queues`, `queueHeld`, `interrupting`, `outputSeen`, `startTimers` |
| `drains`, `drainer` | `drainChains` and the step of the `drainOnce` that runs |
| `handler` | `eventChains`: the event that is being handled |
| `task` | every call that sends, cuts or stops: its step and its copy |

| action | function |
|---|---|
| `Send`, `Branch`, `Deliver`, `Show`, `Failing` | `send`, `deliver`, `resumeFailed` (`resume.ts`) |
| `Add`, `Edit`, `Remove`, `SendNow`, `Take`, `Reread` | `queueOperation` (`queue.ts`) |
| `DrainRead`, `DrainShow`, `DrainSave`, `DrainSend` | `drainOnce` (`queue.ts`) |
| `Begin`, `Replace`, `Spawn`, `Spawned`, `Started`, `StartTimeout` | `runAgentInternal`, `armStartTimer` (`agent-process.ts`) |
| `Handle`, `HandleSave` | `handleClaude` (`agent-streams.ts`) |
| `ExitForeign`, `ExitSeen`, `ExitRead`, `ExitSave` | the close handler (`agent-process.ts`) |
| `Interrupt`, `Cut`, `Signal`, `Stop`, `StopSave` | `interrupt`, `stop` |
| `Drain`, `Quiet`, `Leave`, `Crash`, `Boot`, `ReadResumes`, `ResumeQueued`, `Listen` | `drainDaemon`, `closeDaemon`, `suspendActive`, `start`, `resumeDrained` |
| `TurnBegins`, `Speaks`, `TurnEnds`, `Exits`, `Ignores` | the Claude process, external |

`MessagePromise` is the abstract side: a message waits until it is shown, a shown
one becomes a turn once, and only a removal or a crash takes a waiting message
away. `ChatTurns` maps `waiting` to the messages in the queue, the outbox, the
drainer's hand or a send-now in flight, and `turns` to what was written to a live
agent.

### SpawnQueue

The life of a dispatch from `orchestrate spawn` on. An action is one request to the
state owner or one read of the database.

| state | code |
|---|---|
| `state`, `entry`, `late`, `order` | table `dispatches`: the state, `admissionQueueEntry`, `readinessState`, `created_at` |
| `agent` | the terminal of the dispatch and what runs in it |
| `gate`, `watch` | the leases `resource-admission` and `supervise` |
| `run` | every executor of `executeSpawn`: the spawn commands and the supervisor workers, with the list a worker walks |
| `coord` | the coordinator's command in flight and the row it read |

| action | function |
|---|---|
| `AcquireAdmission`, `AdmissionBusy`, `Release`, `Kill` | `executeSpawn` (`orchestrate-spawn-entry.ts`) |
| `Decide`, `Requeue`, `Enqueue`, `Claim`, `Record`, `Insert`, `Fill` | `runSpawn` up to its row (`orchestrate-spawn-run.ts`) |
| `Publish`, `Launch`, `Ready`, `Deferred`, `Transport`, `Persist`, `Fail`, `StepFails` | the steps of the spawn plan (`core/spawn-plan.ts`) |
| `Mark`, `Marking` | `markRunningIfSpawning` |
| `Wake`, `Transfer`, `Pass`, `After`, `GiveUp`, `Tend`, `Tended`, `Rest`, `Leave`, `Expire`, `RunsOut` | `startSupervisorWorker`, `executeSupervisorWorker`, `superviseOnce` (`supervise.ts`) |
| `Received`, `Ask`, `Done` | `applyChildReport` (`db/state-owner-operations.ts`) |
| `QueueCancel`, `Cancelled`, `Reply`, `Replied`, `Close`, `Kills`, `Closed` | the coordinator's commands, the read and the write apart, and a close's removal of the terminal between them |
| `Exit`, `Crash` | the agent, the death of a process |

Simplified: a spawn is shorter than the 300 seconds of the admission lease, which
runs out only when a worker could not release it (`RunsOut`); `Ready`
is three steps of the plan that write the same; `Pass` renews the lease and lists
the rows at once; `Wake` looks for open rows and takes the lease at once; which
agents are late is read when they are looked at, and not with the list.

### ManagedProcs

`proc run` and `proc start` under a policy. An action is one file operation or one
answer of the machine; the commands, the processes they start and the reaper die
where they like.

| state | code |
|---|---|
| `pc` | the position of a command in `awaitProcAdmission`, `takeHolds`, `holdDocker`, `runProc`, `startProc` |
| `order`, `file` | the entry in `procs/queue`: its `createdAt`, and whether it waits or carries a `cancelledReason` |
| `names`, `listed` | the listing in progress in `listProcQueue` |
| `slot`, `hold` | the files below `procs/holds`, by whom each names as its holder |
| `panes` | processes that run in a tmux session |
| `lock`, `marker`, `docker` | `docker.lock`, `docker-started-by-megabrain`, docker itself |
| `reaper` | the step of the reaper's script |
| `canceller` | the entry an `orchestrate queue cancel` has read |

| action | function |
|---|---|
| `Look`, `Leave`, `ReadDir`, `ReadEntry`, `Judge`, `Admit`, `TakeSlot`, `RemoveEntry`, `Defer`, `Refuse`, `Stamp`, `WriteEntry` | `awaitProcAdmission`, `listProcQueue` (`core/proc-queue.ts`) |
| `CancelRead`, `CancelMark` | `cancelProcQueueEntry` |
| `TakeHold`, `Lock`, `LockTimeout`, `DockerUp`, `OrbStart`, `OrbStartFails`, `WriteMarker`, `EnsureReaper`, `ReaperFails` | `holdDocker`, `withDockerLock`, `ensureReaper` (`core/proc-holds.ts`) |
| `Fail`, `Run`, `RunEnds`, `Launch`, `LaunchFails`, `Reassign`, `ReassignFails` | `takeHolds`, `runProc`, `startProc` (`core/proc-runner.ts`) |
| `ReapIdle`, `ReapLock`, `ReapCheck`, `OrbStop`, `ReapExit` | the reaper's script (`core/proc-holds.ts` 139) |
| `PaneEnds`, `Die`, `ReaperDies`, `UserStarts`, `UserStops` | the environment |

`return admit()` is not awaited inside the `try`, so its `finally` removes the entry
while the hold is still being written: `Admit` leaves both to do, and `TakeSlot` and
`RemoveEntry` come in either order.

## 4. What the runs check

| run | instance | what it shows |
|---|---|---|
| `mailbox` | three messages, two generations of a reader, two workers, all peer outcomes on the first | the inductive invariant `MailboxInv`, with the leases and verification records of the rows in it; `OneDirectionStands`: after a superseding reply no reader is offered an older one; `AnsweredAsksSettled`: no ask stays outstanding below a reply; `ReadMailIsNotPushed` and `CancelledTogether` between the three tables; `FinalStays` and `OwnerKept` as step properties; `LeaseDecides`: at no instant do two workers decide on a row, the tick at which its lease ends included |
| `worker_one` | one message, a socket and a terminal, two faults of any kind, two fallbacks | `SentMeansReceived`: a row recorded as sent reached its session or its reader has it; `PushedOnce`: nothing is pushed twice but after a fallback, a lost lease or a push that was reported as failed, and a row that is queued or recorded as failed was pushed for these causes only; `ReadMailStaysQuiet` |
| `worker_directions` | two directions on one chain, one crash, sleep or unconfirmed push | `CancelledStaysQuiet`: a cancelled direction is not typed, whatever worker, sweep and supervisor do |
| `worker_settles` | one ask or finding, two faults of any kind, fairness | `RowsSettle`: the row of an unread message of an open dispatch ends; `VerificationsSettle`: so does a verification. Both but for the rows of `Left`, see section 5 |
| `owner` | three owners, one of them dead before, one request, fairness | `Implements`: the contract; `LedgerInv`; `OneOwnerRemains`: if starters that broke one stale lock both serve, one of them stops |
| `chat_agents` | two messages sent; stop, failed start, silent agent, exit, crash, each once | `KeepsPromise`: ChatTurns implements MessagePromise; `OneAgent`: no agent runs that is not the chat's, while one agent exits, is stopped or replaced and the other message starts the next |
| `chat_turns` | a message sent and one queued; send now, edit, interrupt, each once | `OneTurnEach`: no message goes to an agent twice, unseen or while it waits |
| `chat_handover` | a message sent and one queued; two drains, an edit, a removal, fairness | `DrainEnds`, `QueuedGoesOn`: the next daemon takes up the queue; `ShownGoesOut`: no message that is shown as sent waits in memory for ever, so a drain of the queue that is asked for while another runs is heard |
| `spawn_queue` | two spawns, two supervisor workers, one agent allowed, any two events, a release of the lease that fails among them | `LaunchedOnce`, `CancelledNeverStarts`, `WithinLimit` and what they rest on, `SpawnInv` |
| `queue_moves` | the same, without mishaps but a lease that another spawn holds for the whole wait, a machine that is full up to three times, fairness | `InOrder`, `QueueInv`; `QueueMoves`: a spawn in a supervisor's list leaves the queue or the supervisors end |
| `managed_procs` | two commands that want the one slot and docker, any three mishaps, fairness | `QueueOrder`: nobody is admitted past one that it saw waiting; `HoldInv` and `DockerHeld`: docker is not stopped under its holders; `WaitersEnd`; `DockerIsStopped` |
| `mark_stays` | one cancellation | see section 5: expected to be violated |

Every property of the other runs has a mutant, a plausible bug of the code that
breaks it: the definitions marked "mutant of" in the modules.

## 5. Disagreements between code and documentation

With a run:

- `mark_stays`: the comment at `core/proc-queue.ts` 77 says that a cancelled waiter
  reads the mark and exits without starting anything, README.md 668-669 that a
  queued process whose owner cancels it exits without starting. The waiter looks for
  the mark once a round (103), then lists the queue and asks for the machine, which
  takes a while, and writes its whole entry again (128) without the mark. A
  cancellation that was confirmed in between is lost.

Without a run of their own, met while modelling; the properties of section 4 are
stated so that they hold beside them:

- `core/proc-queue.ts` 95 and 135: README.md 682-683 says that a container suite
  beyond the limit waits. Two commands that find the queue empty are both its head,
  and neither has written its hold when the other counts: both run. The comment at
  85-88 says that the hold is there before the command leaves the queue; the
  unawaited `return admit()` lets the entry go first.
- `core/proc-holds.ts` 79: a command that dies under `docker.lock` leaves it; nothing
  breaks it, and every later command fails after three minutes.
- `core/proc-holds.ts` 113: README.md 678-679 says that docker that was already
  running when megabrain looked is never stopped. When a person has stopped docker
  that megabrain started, and started it again, the marker still stands, and the
  reaper stops it.
- `core/proc-runner.ts` 147-161: a `proc start` that dies between the start of its
  session and the reassignment of its holds leaves a process that uses docker under
  the hold of a dead command. One that tmux gives no process id for releases its holds under the session that runs (`ReassignFails`). `Uses` leaves both
  out.
- `core/proc-holds.ts` 139: the reaper does not look whether `orb stop` worked before it
  removes the marker, so docker that it could not stop is stopped by nobody.
  `DockerIsStopped` excepts it.
- `cli/commands/supervise.ts` 608: README.md 651-652 says that the supervisor starts
  what waits. One that has listed nothing open holds its lease until it has left
  (618); a spawn that is queued in between finds it taken (569) and starts no other.
- `cli/commands/orchestrate-spawn-run.ts` 485: README.md 1361-1363 gives a child no
  deadline. The plan's step after the launch writes the state `spawning`. A child
  that has reported made it `running`, the table refuses the step, the spawn fails and
  kills the session (`orchestrate-spawn-entry.ts` 96-97) with the child that works in
  it. A spawn that must wait again (`Requeue`) cannot return from `spawning` to
  `queued` either, and fails.
- `chat/daemon/queue.ts` 149: the comment at `agent-process.ts` 128 says that a turn
  the agent died in is over. A `drainOnce` that read the chat before writes its copy as working
  afterwards: no agent runs, nothing ends the turn, and a drain of the daemon waits for
  it. No run claims that comment, and `DrainEnds` is checked where no agent exits.
- `chat/daemon/queue.ts` 141-145: README.md 334-335 says that a drain leaves queued
  messages for the next daemon. A `drainOnce` takes a message from the queue, saves
  the queue without it and only then shows it; the drain counts working chats
  (`server.ts` 177) and this one is still idle, so the daemon may leave in between and
  the message is neither queued nor shown. The same holds of a send-now that has taken
  its message out. `KeepsPromise` holds in `chat_agents`, which does not drain;
  `PromiseKept` excludes this by `LeavesQueued`.
- `chat/daemon/resume.ts` 150: README.md 321-323 says that the next send to a suspended
  chat respawns its agent. That send replaces the outbox by its own message. Where
  another waits there, as when two sends both find the chat suspended, that one is shown
  and never becomes a turn.
  `PromiseKept` excludes this by `ResumesAlone`.
- `chat/daemon/agent-process.ts` 54: the comment says that one agent runs per chat and
  none is left behind unowned. Two sends that both find the chat suspended prepare
  their starts at once; neither finds an earlier agent, both spawn one, and the one
  that is replaced in `children` is never stopped. `OneAgentPerChat` excludes this by
  `OneStart`.
- `core/session-send.ts` 42: README.md 860-862 says that a message an idle session
  does not consume within 20 seconds is typed instead. The sender remembers it as
  delivered for five minutes, so the fallback finds its own first attempt, tries no
  channel, and the row is recorded as failed.
- `cli/commands/delivery-worker.ts` 386: what it reports of an aborted push refuses "to
  risk a duplicate typed send". A push that times out after its frame was written (`agents/claude-peer.ts`
  153-156 with `core/claude-peer-delivery.ts` 106-107, `core/codex-delivery.ts` 146-147,
  `core/grok-leader-delivery.ts` 27-31) counts as failed and is followed by typing, so
  the session may get the message twice. `PushedOnce` counts such a push as a cause.
- docs/state-db-inventory.md 120: supervisor retries are the last-resort recovery path.
  They reach not every row. One whose worker lost its lease
  (`cli/commands/delivery-worker.ts` 367-370), whose owner call failed, or whose owner
  died shortly before the sweep of the next one (`db/state-owner.ts` 372) stays
  `sending`: the supervisor resumes only what is `pending`, and the sweep runs once.
  A finding of the supervisor or of admission whose call failed stays `pending`, for its
  payload names no sequence (`cli/commands/supervise.ts` 347). Both wait for the next
  owner; they are `Left`, which `RowsSettle` and `VerificationsSettle` except.
- `cli/commands/supervise.ts` 260: README.md 734 says that a finding of the supervisor
  is delivered like any child message. Its outbox payload names no sequence, and
  typing refuses such a payload (`delivery-worker.ts` 286).
- `core/usage.ts` 300: `--supersede` "replaces old replies". It leaves the outbox row
  of the replaced reply alone, and the worker asks only whether the message was
  read, so the replaced direction is typed into the child.
- README.md 857 says that pushing stops when `check` pulls the delivery or it is
  acknowledged. The Grok and Codex channels do not ask, so a failed row that is
  retried after its acknowledgement is pushed again.
- `db/state-owner.ts` 458: the comment says that the lock proves that no live owner
  can be using the socket path. A starter that judged a lock stale unlinks whatever
  file is there afterwards, also the lock of a faster starter; the slower one may then
  unlink the socket the other is listening on.

## 6. Bounds

- **Mailbox.** `MaxSeq = 3`: where directions replace each other there is an older
  direction, a withdrawal note and the new reply. Operations touch one sequence, or
  all of one kind at once, so more of a kind adds nothing. `FirstOnly` sets keys and
  transports on the first message only, which tell no two messages apart;
  `TypedLater` gives a peer channel and a lease to the first row only;
  `ThirdDirects` keeps the third message for a direction that follows a direction or
  an ask. Two generations of one reader, and two workers, which `LeaseDecides` needs;
  `LeaseTerm = 1`: a lease runs, and one tick later it has run out.
- **DeliveryWorker.** One message in `worker_one` and `worker_settles`, whose
  properties are about a single row; two directions in `worker_directions`. All
  faults are in the two runs of one message, two at a time: enough for a fault during
  the recovery from a fault. `worker_directions` has one, and none that fails a call.
  `MaxFallbacks` is two in `worker_one`, one in `worker_settles`. `TypedTries`: two in
  `worker_one`; the code tries typing a fixed number of times, and only "again" and "no
  more" differ. `LeaseTerm` is two where a lease is renewed between fresh and expired.
  `ClaudeReach` and `TypedReach` are the channels of a Claude session and of one without
  a socket.
- **StateOwner.** Each process runs once. Three, one of them dead, give a stale lock
  and two starters, and a takeover with a client on both sides. One request: what the
  ledger knows of two is apart, and the proof covers the others.
- **ChatTurns.** Two messages and two agents, the one that is replaced and the one that
  replaces it. Each event of a run happens once, drains twice. In `chat_agents` both
  messages are sent, so that the second starts an agent while the first one's works,
  exits, was stopped or fails to start. Two states are excluded there, by the constraints
  `OneStart` and `ResumesAlone`: two starts that prepare beside each other, and a start that
  replaces an outbox in which another message waits. In both the code breaks the
  property (section 5). The theorems have the same two hypotheses. Interrupts are in
  `chat_turns`, drains in `chat_handover`, where one message is sent.
- **SpawnQueue.** Two dispatches, two workers and a limit of one: a slot that both
  want and a supervisor that outlives its lease. `Troubled`: any two events, each at
  most once. `Loaded`: the machine is full, or another spawn holds the lease for a whole
  wait (once), up to three times, so that each spawn waits, fits and waits again. A second
  walk that begins when the supervisor's lease runs out is in `spawn_queue` only:
  with it `queue_moves` takes too long, and `QueueInv` and `InOrder` rest on
  their proofs there.
- **ManagedProcs.** Two commands that want the same slot and docker. `Mishaps`: any
  three events, each at most once.

The theorems of section 8 do not depend on any of these.

## 7. Fairness

- `FairWorkerSpec`: weak fairness of each worker's steps and each verification's steps
  (promises and timers of one event loop: what is enabled is run), of the startup
  sweep (a timer), of the supervisor's resumption of unscheduled rows and unfinished
  verifications (it makes a round over all open dispatches at an interval), and of
  the expiry of a lease whose holder is dead. No fairness for readers, parents,
  channels, faults or the verifier's choice between seen and given up beyond that it
  makes one. A row
  that a live owner lost through a fault after it was leased stays leased until another
  owner starts, which nothing makes it do: `Left` in both properties.
- `FairSpec` of StateOwner: weak fairness of a starting process's steps (a program
  that runs gets on) and of a stopping one's with its one-second lifecycle timer. An
  idle exit is not fair, since work in the outbox may put it off for ever; clients
  are free.
- `FairSpec` of ChatTurns: weak fairness of the calls in flight, the drainer, the event
  handler and the daemon's leaving and starting (one event loop; a client that waits
  starts the daemon again), and of an agent that it begins and ends the turns it was
  given and goes when it was told to. Nobody has to send, cut, speak or drain. A turn
  ends because an agent ends it: the daemon sets no limit.
- `FairSpec` of SpawnQueue: weak fairness of each process's next step and of the
  coordinator's write after its read; a child reports its brief and its end. Strong
  fairness of closing a dispatch whose agent is gone, which is the one command the
  coordinator must give: the supervisor tells it to. Without it a dead agent keeps
  its slot and the queue waits.
- `FairSpec` of ManagedProcs: weak fairness of each command's next step, of the
  reaper's, of the write of a cancellation that was begun, and of the end of a process
  that was started. Deaths, refusals and foreign starts of docker are not fair.

## 8. What is proved

For every value of the constants that satisfies the named assumptions
(`MailboxAssumption`, `WorkerAssumption`, `OwnerAssumption`, `ChatAssumption`,
`SpawnAssumption`, `ProcAssumption`): the counts are natural numbers, `NoOne` and
`Reaper` are none of the names, subsets are subsets, the dispatches are finitely many,
and the holders of outbox leases are the incarnations of the owner.

- **MailboxProofs**: `TypeCorrect`; `RowsSafe`: `LeaseDiscipline` and
  `PeerRecordFits`; `AcknowledgedAtRest`: `ReadMailIsNotPushed`; `CancelsBoth`:
  `CancelledTogether`; `MailboxInvariant`: `MailboxInv`; `DirectionsSafe`:
  `OneDirectionStands`; `AsksSettled`: `AnsweredAsksSettled`; `DeliveriesStay`:
  `FinalStays`; `OwnersStay`: `OwnerKept`; `LeasesDecide`: `LeaseDecides`.
  None of the safety properties is inductive alone: that a cancellation finds the
  row of its delivery needs to know that a reply has a row, that a new message
  disturbs no old one needs to know that no sequence above `top` is in use, and that
  an older direction is not shown needs to know that it was flagged when it was
  replaced. `MailboxInv` collects this: `RowAt` at every sequence,
  `AnsweredAsksSettled` and `ReplacedAreFlagged`. The proof is by action:
  `TypeStep`, then `RowStep`, then `KeepsDelivery` (what a step may do to a delivery
  that exists), from which the step properties and the two direction lemmas follow.
- **DeliveryWorkerProofs**: `WorkerTypes`; `SentWasReceived`: `SentMeansReceived`;
  `NoSpareIsPushed`: `PushedOnce`; `CancelledIsQuiet`: `CancelledStaysQuiet`;
  `DrivesMailbox`: every step of the worker, its clients, verifications and faults is an
  operation of `Mailbox` or leaves the tables alone, so that `WorkerSpec` implements
  Mailbox's `Spec` and all of MailboxProofs holds under it.
  The invariant `WorkerInv` joins the rows (`RowAt`), the chains (`ChainsFit`: a row is
  in one chain once, that of its target) and what the position of a worker says of its
  row: the row is leased to it or was settled under it by a reader or a cancellation
  (`RowsWorked`), a channel that it is about to record did take the message
  (`WorkerKnows`), what is verified was pushed (`VerifiedWasPushed`). `PushedOnce` is a
  count: a row that may be pushed again, or a worker that still will push it (`Spare`),
  has a push less than what fallbacks, lost leases and pushes that were reported as failed
  have paid for (`PushesCounted`), whichever of these landed. A crash, a sleep, a late
  error and a fallback each have to leave this true.
  `ReadMailStaysQuiet` is not true of every session: the queue channels do not ask
  whether a message was read (section 5). `ReadMailIsQueuedOnly` proves that they are
  the only ones that push what had been acknowledged when its row was leased, and
  `ReadMailIsQuiet` the property itself for sessions without a queue channel: Claude's,
  agy's and those that are only typed into.
- **StateOwnerProofs**: `TypeCorrect`; `LedgerTrue`: `LedgerInv`; `ContractKept`:
  `Spec => Contract!Spec`. The invariant says that a committed request is in the
  ledger unless it was answered and none of its copies still waits to be read, and
  that no owner's memory says "ok" of anything else; `StepImplements` maps each step
  to a step of the contract or a stutter. No lemma is about the lock or the socket:
  the contract holds even while two owners run, because the ledger and the operation
  share a transaction.
- **ChatTurnsProofs**: `ChatTypes`: `ChatTypeOK`; `OneTurnForEach`: `OneTurnEach`;
  `OneAgentPerChat`: `OneAgent`; `PromiseKept`: `KeepsPromise`.
  `TurnInv` says that a message is in one place at most, of the queue, the outbox, the
  drainer's hand, a call on its way and the turns (`OnePlace`), and twice in none.
  Every handler moves messages between places, so this, and not that no message is
  handed over twice, is what a step preserves.
  `AgentInv` adds to `OneAgent` that a call that is about to spawn has taken the old
  agent out of the table (`StartsAlone`) and that what has exited is gone. It holds in
  every behaviour in which no two starts wait beside each other (`OneStart`); two that
  do leave an agent behind (section 5).
  `PromiseKept` maps each step of the daemon to a step of `MessagePromise` or a stutter:
  showing is `Show`, a write to a live agent `Turn`, removals and crashes are counted,
  and everything else leaves `waiting` as it was. Its two hypotheses are the two losses
  of section 5, in the one state in which each occurs: `ResumesAlone`, that the outbox is
  empty when a send resumes a suspended chat, and `LeavesQueued`, that what waits is
  queued or shown when the daemon leaves. TLC finds the promise broken without
  them. `chat_agents`, which sends two messages and does not drain, has the first as a
  constraint.
- **MessagePromiseProofs**: `TurnsAreOnce`: the promise implies that a message becomes a
  turn once at most, after it was shown. It is the same fact as `OneTurnForEach` on the
  side of what a person sees.
- **SpawnQueueProofs**: `TypeCorrect`; `SpawnSafe`: `SpawnInv`; `LaunchesOnce`,
  `CancelledStays`; `QueueSafe`: `QueueInv`; `StartsInOrder`: `InOrder`.
  `LaunchedOnce` needs all of `SpawnInv`: that an executor works under the lease
  (`GateIsHeld`), also while a worker that could not release it has it, that what is queued has no terminal (`WaitsBare`), that a cancelled
  row is closed (`CancelledIsClosed`) and that who is about to launch has a terminal
  without an agent (`LaunchesBare`). `QueueInv` says that rows are created by their
  own commands (`RowsInOrder`) and that a walk has left behind no earlier spawn that
  is queued (`WalkInOrder`), whoever holds the supervisor's lease meanwhile.
- **SpawnLimitProofs**: `LimitHolds`: `WithinLimit`. Between the decision and the row
  the slot is counted nowhere, so the invariant counts the dispatch that the holder
  of the lease has decided for; finite sets and cardinality do the rest.
- **ManagedProcsProofs**: `TypeCorrect`; `HoldsSafe`: `HoldInv`; `DockerStays`:
  `DockerHeld`. The invariant adds to `HoldInv` and `DockerHeld` that a command that
  was told docker is up finds it so under the lock (`ToldUp`) and that a foreign stop
  is not forgotten (`StopsLeft`). A hold is written before the lock is taken, the
  reaper counts holds under it, so a reaper that has counted none is followed by
  nobody until it lets go.
  `AdmitsInOrder`: `QueueOrder`. The listing is read one entry at a time. The invariant
  follows those a command saw when it first looked: each keeps its entry while it waits
  (`Seen`), has an earlier place (`Behind`), is among the entries that are read or still
  to be read (`Reading`), and so is none that still waits once the command finds itself
  head (`First`).

Model-checked only is liveness, which the prover has no rule for: `RowsSettle`,
`VerificationsSettle`, `OneOwnerRemains`, `DrainEnds`, `QueuedGoesOn`, `ShownGoesOut`,
`QueueMoves`, `WaitersEnd` and `DockerIsStopped`.

## 9. What is not modelled

- Inside the modelled parts:
  - mailbox and workers: nudges and waiters, the import of deliveries for mail
    written before deliveries existed, the text of messages, how a channel encodes a
    message or recognises an idle screen (its outcome is a free choice), the channel
    breaker;
  - owner: requests that bypass the ledger (migration, cutover, verification
    timers), read-only requests, legacy sockets. A transaction is atomic, as SQLite
    provides it. `stopStateOwner` is taken not to unlink a path that another owner
    has bound since, but in the window between its look and its removal;
  - chats: Codex and Grok turns, terminals and sessions held elsewhere, fork and
    edit-last, approvals, retire and handover between builds;
  - dispatches: prune, adopt, change, orphaned and exited dispatches, auto-close,
    receipts that older builds took for failures, `--admission fail`, a refusal for
    more memory than the machine has;
  - managed processes: their names, ports and records, stop, restart, status and logs,
    a machine without docker or without a policy, an orb command that fails though it
    did its work, a marker that is removed by hand.
- Planned, section 2: generations of readers step by step, channel health, chains.
- Left out: the database file and its migrations (sequential), worktrees (the state
  is git's), knowledge (language models), recognition of agents' screens, the
  supervisor's findings, installation, printing and the desktop application.
