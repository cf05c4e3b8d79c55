--------------------------- MODULE DeliveryWorker ---------------------------
(***************************************************************************)
(* The state owner pushes the outbox of one dispatch to its two sessions   *)
(* (src/cli/commands/delivery-worker.ts, src/db/state-owner.ts).           *)
(*                                                                         *)
(* Per target a chain of subscribed rows is worked off one at a time: a    *)
(* worker leases the row, tries the channels of the target in order, and   *)
(* finishes the row.  A channel that only queues a message is verified     *)
(* afterwards, and the message falls back to typing when it was not seen.  *)
(* The reader, the parent that writes and cancels directions, and the      *)
(* supervisor's retry loop run in processes of their own and interleave    *)
(* between any two owner calls.  The owner may crash, a machine that       *)
(* sleeps may outlive a lease, an owner call may fail, and a push that a   *)
(* channel reports as failed may have reached its session.                 *)
(***************************************************************************)
EXTENDS Mailbox, Sequences

CONSTANTS
  Reach,        \* [Targets -> SUBSET Channels]: the channels a session has
  TypedTries,   \* how often a failing typed send is tried before it fails
  Faults,       \* BOUND: which faults happen, of FaultKinds
  MaxFaults,    \* BOUND: how many
  MaxFallbacks  \* BOUND: how often a row falls back

(* "socket" stands for the peer socket and the agy language server, which   *)
(* ask whether the message was read; "queue" for the leader socket and the  *)
(* codex queue, which do not.  A session has at most one of the two.        *)
Targets  == {"parent", "child"}
Channels == {"socket", "queue", "typed"}
FaultKinds == {"crash", "sleep", "call", "late", "doubt"}
Epochs   == 1..(MaxFaults + 1)

ASSUME WorkerAssumption ==
  /\ Reach \in [Targets -> SUBSET Channels]
  /\ TypedTries \in Nat \ {0}
  /\ Faults \subseteq FaultKinds
  /\ MaxFaults \in Nat
  /\ MaxFallbacks \in Nat
  /\ Holders = Epochs
  /\ Targets \subseteq Consumers
  /\ 1 \in Generations
  /\ {"checked", "tried"} \subseteq Transports

VARIABLES
  chain,      \* target -> the rows subscribed for it, the first one worked on
  worker,     \* target -> how far the worker of the first row is
  accepted,   \* rows in the sender's cache of delivered messages
  verifier,   \* row -> the verification running for it
  epoch,      \* which incarnation of the owner runs; its workers' holder name
  swept,      \* the startup sweep has run
  faults,     \* BOUND: faults so far
  reading,    \* the direction the child's check is about to acknowledge, or 0
  retrying,   \* failed directions the supervisor has decided to retry
  phase,      \* of the dispatch: open, done (no round visits it), closed
  pushed,     \* history: how often a row's message reached its session
  again       \* history: how often a fallback, a lost lease or a push that
              \* was reported as failed gave cause to push a row once more

ownerVars  == <<chain, worker, accepted, verifier, epoch, swept>>
clientVars == <<reading, retrying, phase>>
history    == <<pushed, again>>
vars == <<mailVars, ownerVars, clientVars, history, faults>>

Idle == [step |-> "idle", fallback |-> FALSE, left |-> {}, channel |-> "none",
         tries |-> 0, tried |-> {}, lost |-> FALSE, readAtClaim |-> FALSE]

NotReading == [seq |-> 0, pulled |-> FALSE]

TargetOf(type) == IF type = "reply" THEN "child" ELSE "parent"

Scheduled == {s \in Seqs : \E t \in Targets : \E i \in 1..Len(chain[t]) : chain[t][i] = s}

Due(row) == row.status = "pending" \/ (row.status = "sending" /\ row.lease = 0)

(* subscribeOutbox: a row that waits, or whose lease ran out, joins the     *)
(* chain of its target unless it is there already, as the mailbox           *)
(* operation of the same step left it.                                     *)
Subscribe(s) ==
  LET joins == s \notin Scheduled /\ Due(outbox'[s])
  IN chain' = [t \in Targets |->
       IF joins /\ TargetOf(message'[s].type) = t THEN Append(chain[t], s) ELSE chain[t]]

(* The elements of S, in ascending order: one sequence.                    *)
Ascending(S) ==
  {q \in UNION {[1..n -> S] : n \in 0..MaxSeq} :
     /\ \A s \in S : \E i \in DOMAIN q : q[i] = s
     /\ \A i, j \in DOMAIN q : i < j => q[i] < q[j]}

(* All rows are subscribed, in order.                                      *)
SubscribeAll ==
  LET due(t) == {s \in Seqs \ Scheduled : Due(outbox[s]) /\ TargetOf(message[s].type) = t}
  IN \E parents \in Ascending(due("parent")), children \in Ascending(due("child")) :
       chain' = [t \in Targets |->
         chain[t] \o (IF t = "parent" THEN parents ELSE children)]

WorkerInit ==
  /\ Init
  /\ chain = [t \in Targets |-> <<>>]
  /\ worker = [t \in Targets |-> Idle]
  /\ accepted = {}
  /\ verifier = [s \in Seqs |-> "off"]
  /\ epoch = 1
  /\ swept = TRUE
  /\ faults = 0
  /\ reading = NotReading
  /\ retrying = {}
  /\ phase = "open"
  /\ pushed = [s \in Seqs |-> 0]
  /\ again = [s \in Seqs |-> 0]

----------------------------------------------------------------------------
(* The clients' operations: the mailbox's, plus the subscription of a row  *)
(* they append.                                                            *)

ChildReports(type) ==
  /\ phase # "closed"
  /\ AppendChildMail(type, NoOne)
  /\ Subscribe(top + 1)
  /\ phase' = IF type = "done" THEN "done" ELSE IF type = "ask" THEN "open" ELSE phase
  /\ UNCHANGED <<worker, accepted, verifier, epoch, swept, reading, retrying, history, faults>>

ParentReplies(supersede) ==
  /\ phase = "open"
  /\ AppendParentReply(supersede)
  /\ Subscribe(top')
  /\ UNCHANGED <<worker, accepted, verifier, epoch, swept, clientVars, history, faults>>

ParentCancels(s) ==
  /\ CancelQueued(s) \/ CancelNotice(s)
  /\ UNCHANGED <<ownerVars, clientVars, history, faults>>

CloseDispatch ==
  /\ phase # "closed"
  /\ phase' = "closed"
  /\ UNCHANGED <<mailVars, ownerVars, reading, retrying, history, faults>>

(* `check` in the child: claim the direction, record that it was pulled,   *)
(* acknowledge it.  `watch`, and the acknowledgement a pushed message asks *)
(* its reader for, claim and acknowledge.                                  *)
CheckClaims(s) ==
  /\ reading = NotReading
  /\ s \in Shown("child", FALSE, "child")
  /\ IF delivery[s].consumer = NoOne THEN ClaimDelivery(s, "child", 1) ELSE UNCHANGED mailVars
  /\ reading' = [seq |-> s, pulled |-> FALSE]
  /\ UNCHANGED <<ownerVars, retrying, phase, history, faults>>

CheckPulls ==
  /\ reading.seq # 0
  /\ ~reading.pulled
  /\ SetTransport(reading.seq, "checked")
  /\ reading' = [reading EXCEPT !.pulled = TRUE]
  /\ UNCHANGED <<ownerVars, retrying, phase, history, faults>>

CheckAcknowledges ==
  /\ reading.pulled
  /\ IF delivery[reading.seq].status \in Open
     THEN AckImplicit(reading.seq, "child", NoOne)
     ELSE UNCHANGED mailVars
  /\ reading' = NotReading
  /\ UNCHANGED <<ownerVars, retrying, phase, history, faults>>

ReaderClaims(s, c) ==
  /\ Recipient(message[s].type) = c
  /\ ClaimDelivery(s, c, 1)
  /\ UNCHANGED <<ownerVars, clientVars, history, faults>>

ReaderAcknowledges(s, c) ==
  /\ AckDelivery(s, c, 1)
  /\ UNCHANGED <<ownerVars, clientVars, history, faults>>

----------------------------------------------------------------------------
(* The worker of one row (executeDeliveryWorker).                          *)

Fault(kind) == kind \in Faults /\ faults < MaxFaults /\ faults' = faults + 1

At(t, step) == chain[t] # <<>> /\ worker[t].step = step

Row(t) == Head(chain[t])

Keep(t, w) ==
  /\ worker' = [worker EXCEPT ![t] = w]
  /\ UNCHANGED <<chain, epoch, swept, faults, clientVars>>

EndTask(t) ==
  /\ worker' = [worker EXCEPT ![t] = Idle]
  /\ chain' = [chain EXCEPT ![t] = Tail(@)]
  /\ UNCHANGED <<accepted, verifier, epoch, swept, clientVars, history>>

(* Parent mail of a dispatch that was closed is settled before any row is  *)
(* leased.                                                                 *)
Settled == IF phase = "closed" THEN SupersedeClosedParentDeliveries ELSE UNCHANGED mailVars

SettleBacklog(t) ==
  /\ At(t, "idle")
  /\ Settled
  /\ Keep(t, [Idle EXCEPT !.step = "claim"])
  /\ UNCHANGED <<accepted, verifier, history>>

(* readWasPulled: nothing is known of a row that names no sequence.        *)
ReadWasPulled(s) ==
  /\ CarriesSequence(s)
  /\ delivery[s].status \in {"acknowledged", "fenced"} \/ delivery[s].transport = "checked"

Claim(t) ==
  LET s == Row(t) IN
  /\ At(t, "claim")
  /\ ClaimOutbox(s, epoch)
  /\ Keep(t, [Idle EXCEPT !.step = "send", !.left = Reach[t],
                          !.fallback = (outbox[s].peer = "fallback-queued"),
                          !.readAtClaim = delivery[s].status = "acknowledged"])
  /\ again' = [again EXCEPT ![s] = IF outbox[s].status = "sending" THEN @ + 1 ELSE @]
  /\ UNCHANGED <<accepted, verifier, pushed>>

ClaimRefused(t) ==
  /\ At(t, "claim")
  /\ ~Due(outbox[Row(t)])
  /\ EndTask(t)
  /\ UNCHANGED <<mailVars, faults>>

(* An owner call throws.  Before the row is leased nothing is lost; after   *)
(* it, the task ends with the row leased.  (Its heartbeat, which nothing   *)
(* stops, may renew the lease until a renewal throws too: LeaseRuns takes  *)
(* that to happen at any time.)                                            *)
OwnerCallFails(t) ==
  /\ At(t, "idle") \/ At(t, "claim")
  /\ Fault("call")
  /\ EndTask(t)
  /\ UNCHANGED mailVars

LateCallFails(t) ==
  /\ At(t, "record") \/ At(t, "finish")
  /\ ~worker[t].lost
  /\ Fault("late")
  /\ EndTask(t)
  /\ UNCHANGED mailVars

(* sendSessionMessage remembers what it delivered: for a message it has    *)
(* delivered before it tries no channel, and the worker, none of whose     *)
(* handlers ran, records a failure.                                        *)
AlreadySent(t) ==
  /\ At(t, "send")
  /\ worker[t].tried = {}
  /\ Row(t) \in accepted
  /\ Keep(t, [worker[t] EXCEPT !.step = "record", !.channel = "none"])
  /\ UNCHANGED <<mailVars, accepted, verifier, history>>

(* A channel is passed over when the session lacks it, and the socket and  *)
(* typing also when the payload names no sequence; a fallback is typed.    *)
Usable(t, ch) ==
  /\ ch \in worker[t].left
  /\ ch = "typed" \/ ~worker[t].fallback
  /\ ch = "queue" \/ CarriesSequence(Row(t))

First(t) ==
  CHOOSE ch \in Channels :
    /\ Usable(t, ch)
    /\ ch = "queue" => ~Usable(t, "socket")
    /\ ch = "typed" => ~Usable(t, "socket") /\ ~Usable(t, "queue")

(* Mutant of LooksFirst: only the socket asks whether the reader has it.   *)
LooksFirstSocket(ch) == ch = "socket"

LooksFirst(ch) == ch \in {"socket", "typed"}

ChooseChannel(t) ==
  LET s == Row(t)
      ch == First(t)
  IN /\ At(t, "send")
     /\ s \notin accepted
     /\ ~worker[t].lost
     /\ \E c \in Channels : Usable(t, c)
     /\ IF LooksFirst(ch) /\ ReadWasPulled(s)
        THEN Keep(t, [worker[t] EXCEPT !.step = "record", !.channel = "checked"])
        ELSE Keep(t, [worker[t] EXCEPT !.step = "push", !.channel = ch])
     /\ UNCHANGED <<mailVars, accepted, verifier, history>>

NoChannel(t) ==
  /\ At(t, "send")
  /\ Row(t) \notin accepted
  /\ worker[t].lost \/ \A c \in Channels : ~Usable(t, c)
  /\ Keep(t, [worker[t] EXCEPT !.step = "record", !.channel = "none"])
  /\ UNCHANGED <<mailVars, accepted, verifier, history>>

(* The text reaches the session.                                           *)
PushLands(t) ==
  LET s == Row(t) IN
  /\ At(t, "push")
  /\ Keep(t, [worker[t] EXCEPT !.step = "mark", !.tried = @ \cup {worker[t].channel}])
  /\ pushed' = [pushed EXCEPT ![s] = @ + 1]
  /\ accepted' = accepted \cup {s}
  /\ UNCHANGED <<mailVars, verifier, again>>

(* A push is reported as failed.  The text may be in the session all the   *)
(* same: the frame was written and the socket timed out, the request was   *)
(* taken and its answer lost, the paste went in and the next command       *)
(* failed.                                                                 *)
MayHaveLanded(t) ==
  \/ UNCHANGED <<history, faults>>
  \/ /\ Fault("doubt")
     /\ pushed' = [pushed EXCEPT ![Row(t)] = @ + 1]
     /\ again' = [again EXCEPT ![Row(t)] = @ + 1]

(* A failed send passes to the next channel; typing is tried again first.  *)
SpentNever(w) == w.channel # "typed"   \* mutant of Spent
Spent(w) == w.channel # "typed" \/ w.tries + 1 >= TypedTries

PushFails(t) ==
  LET w == worker[t]
  IN /\ At(t, "push")
     /\ worker' = [worker EXCEPT ![t] =
          [w EXCEPT !.step = "send", !.tried = @ \cup {w.channel},
                    !.tries = IF w.channel = "typed" THEN @ + 1 ELSE @,
                    !.left = IF Spent(w) THEN @ \ {w.channel} ELSE @]]
     /\ MayHaveLanded(t)
     /\ UNCHANGED <<mailVars, chain, accepted, verifier, epoch, swept, clientVars>>

(* The receiver's process is gone, or the channel's code throws: nothing   *)
(* else is tried.                                                          *)
PushStops(t) ==
  LET w == worker[t]
  IN /\ At(t, "push")
     /\ w.channel # "queue"
     /\ worker' = [worker EXCEPT ![t] =
          [w EXCEPT !.step = "record", !.channel = "none", !.tried = @ \cup {w.channel}]]
     /\ MayHaveLanded(t)
     /\ UNCHANGED <<mailVars, chain, accepted, verifier, epoch, swept, clientVars>>

(* What was only queued is recorded and verified; a typed fallback settles *)
(* the verification that asked for it.                                     *)
Mark(t) ==
  LET s == Row(t)
      w == worker[t]
      saved == w.channel # "typed" /\ ~w.lost /\ HeldBy(s, epoch)
      settles == w.channel = "typed" /\ w.fallback /\ outbox[s].peer # "none"
  IN /\ At(t, "mark")
     /\ IF saved THEN MarkPeerSent(s, epoch)
        ELSE IF settles THEN FinishPeerVerification(s, "fallback-delivered")
        ELSE UNCHANGED mailVars
     /\ verifier' = IF saved /\ verifier[s] = "off"
                    THEN [verifier EXCEPT ![s] = "due"] ELSE verifier
     /\ Keep(t, [w EXCEPT !.step = "record"])
     /\ UNCHANGED <<accepted, history>>

Record(t) ==
  LET s == Row(t)
      w == worker[t]
      transport == IF w.channel = "checked" THEN "checked" ELSE "tried"
  IN /\ At(t, "record")
     /\ ~w.lost
     /\ IF CarriesSequence(s) THEN SetTransport(s, transport) ELSE UNCHANGED mailVars
     /\ Keep(t, [w EXCEPT !.step = "finish"])
     /\ UNCHANGED <<accepted, verifier, history>>

(* Mutants of Verdict: a refused push counts as sent; only typing does.     *)
VerdictRefused(w) == IF w.channel = "none" /\ w.tried = {} THEN "failed" ELSE "sent"
VerdictTyped(w) == IF w.channel \in {"typed", "checked"} THEN "sent" ELSE "failed"

Verdict(w) == IF w.channel = "none" THEN "failed" ELSE "sent"

FinishRow(t) ==
  LET s == Row(t) IN
  /\ At(t, "finish")
  /\ IF HeldBy(s, epoch) /\ outbox[s].lease > 0
     THEN Finish(s, epoch, Verdict(worker[t]))
     ELSE UNCHANGED mailVars
  /\ EndTask(t)
  /\ UNCHANGED faults

LeaseLost(t) ==
  /\ At(t, "record")
  /\ worker[t].lost
  /\ EndTask(t)
  /\ UNCHANGED <<mailVars, faults>>

(* The heartbeat renews the lease of the row, or learns that it is gone.   *)
Heartbeat(t) ==
  LET s == Row(t) IN
  /\ chain[t] # <<>>
  /\ worker[t].step \notin {"idle", "claim"}
  /\ ~worker[t].lost
  /\ IF HeldBy(s, epoch) /\ outbox[s].lease > 0
     THEN outbox[s].lease < LeaseTerm /\ RenewOutboxLease(s, epoch) /\ UNCHANGED worker
     ELSE worker' = [worker EXCEPT ![t].lost = TRUE] /\ UNCHANGED mailVars
  /\ UNCHANGED <<chain, accepted, verifier, epoch, swept, clientVars, history, faults>>

(* A renewal that throws counts as a lost lease, which the row still has.   *)
HeartbeatFails(t) ==
  /\ chain[t] # <<>>
  /\ worker[t].step \notin {"idle", "claim"}
  /\ ~worker[t].lost
  /\ Fault("late")
  /\ worker' = [worker EXCEPT ![t].lost = TRUE]
  /\ UNCHANGED <<mailVars, chain, accepted, verifier, epoch, swept, clientVars, history>>

WorkerStep(t) ==
  \/ SettleBacklog(t) \/ Claim(t) \/ ClaimRefused(t)
  \/ AlreadySent(t) \/ ChooseChannel(t) \/ NoChannel(t)
  \/ PushLands(t) \/ PushFails(t) \/ PushStops(t)
  \/ Mark(t) \/ Record(t) \/ FinishRow(t) \/ LeaseLost(t)

----------------------------------------------------------------------------
(* The verification of a message that a channel accepted                   *)
(* (executeDeliveryVerificationWorker, verifyClaudePeerConsumption).       *)

VerifierOnly == UNCHANGED <<worker, accepted, epoch, swept, clientVars, pushed, faults>>

VerifierStarts(s) ==
  /\ verifier[s] = "due"
  /\ Settled
  /\ verifier' = [verifier EXCEPT ![s] =
       IF outbox'[s].peer = "pending" /\ CarriesSequence(s) THEN "watch" ELSE "off"]
  /\ VerifierOnly
  /\ UNCHANGED <<chain, again>>

(* The reader acknowledged it, or the transcript of a session with a       *)
(* socket shows that it was read.                                          *)
VerifierSees(s) ==
  /\ verifier[s] = "watch"
  /\ \/ delivery[s].status = "acknowledged"
     \/ pushed[s] > 0 /\ "socket" \in Reach[TargetOf(message[s].type)]
  /\ IF Recipient(message[s].type) = "parent" /\ delivery[s].status \in Open
     THEN AckImplicit(s, "parent", NoOne)
     ELSE UNCHANGED mailVars
  /\ verifier' = [verifier EXCEPT ![s] = "seen"]
  /\ VerifierOnly
  /\ UNCHANGED <<chain, again>>

VerifierSettles(s) ==
  /\ verifier[s] = "seen"
  /\ IF outbox[s].peer # "none"
     THEN FinishPeerVerification(s, "delivered") ELSE UNCHANGED mailVars
  /\ verifier' = [verifier EXCEPT ![s] = "record"]
  /\ VerifierOnly
  /\ UNCHANGED <<chain, again>>

VerifierRecords(s) ==
  /\ verifier[s] = "record"
  /\ SetTransport(s, "tried")
  /\ verifier' = [verifier EXCEPT ![s] = "off"]
  /\ VerifierOnly
  /\ UNCHANGED <<chain, again>>

(* The session ended, or was idle for 20 seconds, and has not read it: the *)
(* row is queued again, unless its worker has not finished it yet.         *)
VerifierGivesUp(s) ==
  /\ verifier[s] = "watch"
  /\ delivery[s].status # "acknowledged"
  /\ again[s] < MaxFallbacks
  /\ verifier' = [verifier EXCEPT ![s] = "unseen"]
  /\ VerifierOnly
  /\ UNCHANGED <<mailVars, chain, again>>

VerifierFallsBack(s) ==
  /\ verifier[s] = "unseen"
  /\ IF outbox[s].status = "sent" /\ outbox[s].peer = "pending"
     THEN /\ RequeuePeerFallback(s)
          /\ Subscribe(s)
          /\ again' = [again EXCEPT ![s] = @ + 1]
     ELSE UNCHANGED <<mailVars, chain, again>>
  /\ verifier' = [verifier EXCEPT ![s] = "off"]
  /\ VerifierOnly

VerifierStep(s) ==
  \/ VerifierStarts(s) \/ VerifierSees(s) \/ VerifierSettles(s)
  \/ VerifierRecords(s) \/ VerifierGivesUp(s) \/ VerifierFallsBack(s)

----------------------------------------------------------------------------
(* The supervisor's round (superviseOnce).  It reads the mailbox, decides, *)
(* and calls the owner for one row after the other.                        *)

UnverifiedOpen(s) ==   \* mutant of Unverified
  phase = "open" /\ outbox[s].status = "sent" /\ outbox[s].peer = "pending"
Unverified(s) == outbox[s].status = "sent" /\ outbox[s].peer = "pending"

SupervisorResumesVerification(s) ==
  /\ Unverified(s)
  /\ verifier[s] = "off"
  /\ verifier' = [verifier EXCEPT ![s] = "due"]
  /\ UNCHANGED <<mailVars, chain, worker, accepted, epoch, swept, clientVars, history, faults>>

UnreadUnclaimed(s) == Queued(s)   \* mutant of Unread
Unread(s) == delivery[s].status = "outstanding"

SupervisorFinds(s) ==
  /\ phase = "open"
  /\ message[s].type = "reply"
  /\ outbox[s].status = "failed"
  /\ Unread(s)
  /\ retrying' = retrying \cup {s}
  /\ UNCHANGED <<mailVars, ownerVars, reading, phase, history, faults>>

SupervisorRetries(s) ==
  /\ s \in retrying
  /\ retrying' = retrying \ {s}
  /\ IF outbox[s].status = "failed"
     THEN RetryFailedChild(s) /\ Subscribe(s)
     ELSE UNCHANGED <<mailVars, chain>>
  /\ UNCHANGED <<worker, accepted, verifier, epoch, swept, reading, phase, history, faults>>

SupervisorResumes(s) ==
  /\ phase = "open"
  /\ s \notin Scheduled
  /\ CarriesSequence(s)
  /\ outbox[s].status = "pending"
  /\ Unread(s)
  /\ UNCHANGED mailVars
  /\ Subscribe(s)
  /\ UNCHANGED <<worker, accepted, verifier, epoch, swept, clientVars, history, faults>>

----------------------------------------------------------------------------
(* The owner's life, and time.                                             *)

(* The owner dies with its chains, timers and caches; the next one starts. *)
Crash ==
  /\ Fault("crash")
  /\ epoch' = epoch + 1
  /\ swept' = FALSE
  /\ chain' = [t \in Targets |-> <<>>]
  /\ worker' = [t \in Targets |-> Idle]
  /\ accepted' = {}
  /\ verifier' = [s \in Seqs |-> "off"]
  /\ UNCHANGED <<mailVars, clientVars, history>>

(* scheduleOutboxSweep: once, shortly after the owner started.             *)
Sweep ==
  /\ ~swept
  /\ swept' = TRUE
  /\ UNCHANGED mailVars
  /\ SubscribeAll
  /\ UNCHANGED <<worker, accepted, verifier, epoch, clientVars, history, faults>>

Beating(s) ==
  \E t \in Targets : /\ chain[t] # <<>> /\ Row(t) = s
                     /\ worker[t].step \notin {"idle", "claim"} /\ ~worker[t].lost

(* A lease that nothing renews runs out by itself; one with a heartbeat    *)
(* only when the machine slept through it.                                 *)
LeaseRuns(s) ==
  /\ LeaseTick(s)
  /\ IF outbox[s].holder = epoch /\ outbox[s].lease = 1 /\ Beating(s)
     THEN Fault("sleep")
     ELSE UNCHANGED faults
  /\ UNCHANGED <<ownerVars, clientVars, history>>

(* Five minutes on, the sender has forgotten what it delivered.            *)
Forget(s) ==
  /\ s \in accepted
  /\ accepted' = accepted \ {s}
  /\ UNCHANGED <<mailVars, chain, worker, verifier, epoch, swept, clientVars, history, faults>>

WorkerNext ==
  \/ \E type \in Mail : ChildReports(type)
  \/ \E supersede \in BOOLEAN : ParentReplies(supersede)
  \/ \E t \in Targets :
       \/ WorkerStep(t) \/ OwnerCallFails(t) \/ LateCallFails(t)
       \/ Heartbeat(t) \/ HeartbeatFails(t)
  \/ \E s \in Seqs :
       \/ ParentCancels(s) \/ CheckClaims(s)
       \/ \E c \in Targets : ReaderClaims(s, c) \/ ReaderAcknowledges(s, c)
       \/ VerifierStep(s)
       \/ SupervisorResumesVerification(s) \/ SupervisorFinds(s)
       \/ SupervisorRetries(s) \/ SupervisorResumes(s)
       \/ LeaseRuns(s) \/ Forget(s)
  \/ CloseDispatch \/ CheckPulls \/ CheckAcknowledges
  \/ Crash \/ Sweep

WorkerSpec == WorkerInit /\ [][WorkerNext]_vars

(* The owner's event loop runs every task it has, its timers fire, the     *)
(* supervisor keeps making its rounds, and leases of the dead run out.     *)
WorkerFairness ==
  /\ \A t \in Targets : WF_vars(WorkerStep(t))
  /\ \A s \in Seqs :
       /\ WF_vars(VerifierStep(s))
       /\ WF_vars(SupervisorResumes(s))
       /\ WF_vars(SupervisorResumesVerification(s))
       /\ WF_vars(outbox[s].holder # epoch /\ LeaseRuns(s))
  /\ WF_vars(Sweep)

FairWorkerSpec == WorkerSpec /\ WorkerFairness

----------------------------------------------------------------------------
(* Properties.                                                             *)

WorkerType ==
  [step : {"idle", "claim", "send", "push", "mark", "record", "finish"},
   fallback : BOOLEAN, left : SUBSET Channels,
   channel : Channels \cup {"none", "checked"}, tries : 0..TypedTries,
   tried : SUBSET Channels, lost : BOOLEAN, readAtClaim : BOOLEAN]

(* Types: typing is tried TypedTries times at most, and every crash of the *)
(* owner is followed by one successor with a name of its own.              *)
WorkerTypeOK ==
  /\ TypeOK
  /\ chain \in [Targets -> Seq(Seqs)]
  /\ worker \in [Targets -> WorkerType]
  /\ accepted \subseteq Seqs
  /\ verifier \in [Seqs -> {"off", "due", "watch", "seen", "record", "unseen"}]
  /\ epoch \in Epochs
  /\ swept \in BOOLEAN
  /\ faults \in 0..MaxFaults
  /\ reading \in [seq : Seqs \cup {0}, pulled : BOOLEAN]
  /\ retrying \subseteq Seqs
  /\ phase \in {"open", "done", "closed"}
  /\ pushed \in [Seqs -> Nat]
  /\ again \in [Seqs -> Nat]

(* A row that is recorded as sent did reach its session, or its reader had *)
(* taken the message without it.                                           *)
SentMeansReceived ==
  \A s \in Seqs :
    outbox[s].status = "sent" =>
      pushed[s] > 0 \/ ReadWasPulled(s)

(* A message reaches its session once more only when something gave cause: *)
(* it was not seen the first time, the lease of its row ran out, or the    *)
(* push was reported as failed.  The supervisor's retries, the sweep and   *)
(* repeated subscriptions push nothing twice by themselves, and a row that *)
(* is queued or recorded as failed was not pushed beyond those causes: of  *)
(* a push that was delivered, and not repeated, no failure is recorded.    *)
PushedOnce ==
  \A s \in Seqs :
    /\ pushed[s] <= 1 + again[s]
    /\ outbox[s].status \in {"pending", "failed"} => pushed[s] <= again[s]

(* What its reader had acknowledged when a worker leased its row is not    *)
(* pushed on top of it.                                                    *)
ReadMailStaysQuiet ==
  [][\A t \in Targets :
       At(t, "push") /\ pushed'[Row(t)] # pushed[Row(t)] => ~worker[t].readAtClaim]_vars

(* A cancelled direction is not pushed any more.                           *)
CancelledStaysQuiet ==
  [][\A s \in Seqs : pushed'[s] # pushed[s] => delivery[s].status # "cancelled"]_vars

(* A row that was leased and that no chain holds any more: its worker lost *)
(* its lease or an owner call failed, or its owner died and the next one   *)
(* swept before the lease had run out.  Nobody queues it again while this  *)
(* owner lives, nor a notice (it names no sequence) whose row was not      *)
(* leased because a call failed.                                           *)
Left(s) ==
  /\ swept /\ faults > 0
  /\ s \notin Scheduled
  /\ outbox[s].status = "sending" \/ ~CarriesSequence(s)

(* While the dispatch is open, the row of a message that is still to be    *)
(* read is finished in time, also when an owner call failed before it was  *)
(* leased or its owner died: the supervisor and the sweep queue again what *)
(* no chain holds.  Left rows are the exception.                           *)
RowsSettle ==
  \A s \in Seqs :
    outbox[s].status \in Unfinished
      ~> \/ outbox[s].status \notin Unfinished
         \/ phase # "open"
         \/ delivery[s].status # "outstanding"
         \/ Left(s)

(* A message a channel accepted is in time found read or queued to be      *)
(* typed, whoever died meanwhile, unless its row was left leased.  (One    *)
(* that names no sequence is never verified.)                              *)
VerificationsSettle ==
  \A s \in Seqs :
    outbox[s].peer = "pending" /\ CarriesSequence(s)
      ~> outbox[s].peer # "pending" \/ Left(s)
=============================================================================
