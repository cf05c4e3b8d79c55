------------------------ MODULE DeliveryWorkerProofs ------------------------
(***************************************************************************)
(* Theorems about DeliveryWorker for any number of messages, owner         *)
(* incarnations, faults and fallbacks, and any channels of the sessions.   *)
(***************************************************************************)
EXTENDS DeliveryWorker, MailboxProofs

Sending == {"send", "push", "mark", "record", "finish"}

(* The worker of t has leased the row s and has not finished it.           *)
Works(t, s) == chain[t] # <<>> /\ s = Row(t) /\ worker[t].step \in Sending

(* Rows are scheduled for the target of their message, each once; a chain  *)
(* without rows has no worker.                                             *)
ChainFits(t) ==
  /\ chain[t] = <<>> => worker[t] = Idle
  /\ \A i \in 1..Len(chain[t]) : /\ Pushed(message[chain[t][i]].type)
                                 /\ TargetOf(message[chain[t][i]].type) = t
  /\ \A i, j \in 1..Len(chain[t]) : chain[t][i] = chain[t][j] => i = j

ChainsFit == \A t \in Targets : ChainFits(t)

(* What a worker remembers: which channels are left and how often typing   *)
(* may be tried.                                                           *)
StepFits(t) ==
  /\ worker[t].left \subseteq Reach[t]
  /\ worker[t].step = "push" => worker[t].channel \in worker[t].left
  /\ "typed" \in worker[t].left => worker[t].tries < TypedTries
  /\ worker[t].step = "mark" => worker[t].channel \in Channels

(* An owner follows each crash; what was pulled was claimed.               *)
StepsFit ==
  /\ \A t \in Targets : StepFits(t)
  /\ epoch <= faults + 1
  /\ reading.pulled => reading.seq # 0

(* Nobody but its worker moves a row that is being sent, except that its   *)
(* reader acknowledges it, or the dispatch is closed and the notice's row  *)
(* then cancelled.                                                         *)
WorkedRow(s) ==
  /\ delivery[s].status # "cancelled"
  /\ \/ outbox[s].status = "sending" /\ outbox[s].holder = epoch
     \/ /\ outbox[s].status = "sent" /\ outbox[s].peer = "none"
        /\ delivery[s].status = "acknowledged" /\ CarriesSequence(s)
     \/ /\ outbox[s].status \in {"suppressed", "cancelled"} /\ outbox[s].peer = "none"
        /\ Recipient(message[s].type) = "parent"

RowsWorked == \A t \in Targets, s \in Seqs : Works(t, s) => WorkedRow(s)

(* The worker of t knows what its row s has been through.                  *)
Knows(t, s) ==
  /\ worker[t].step \in {"mark", "record", "finish"} /\ worker[t].channel \in Channels
       => pushed[s] > 0
  /\ worker[t].channel = "checked" => CarriesSequence(s)
  /\ worker[t].step = "finish" /\ worker[t].channel = "checked"
       => pushed[s] > 0 \/ ReadWasPulled(s)
  /\ worker[t].readAtClaim => delivery[s].status = "acknowledged"
  /\ worker[t].step = "push" /\ worker[t].readAtClaim => worker[t].channel = "queue"

WorkerKnows == \A t \in Targets, s \in Seqs : Works(t, s) => Knows(t, s)

(* Only what reached its session is verified.                              *)
VerifiedAt(s) ==
  /\ outbox[s].peer = "pending" => pushed[s] > 0
  /\ verifier[s] \in {"watch", "seen", "record", "unseen"} => pushed[s] > 0

VerifiedWasPushed == \A s \in Seqs : VerifiedAt(s)

(* A row that may be pushed without another fallback or lost lease has not *)
(* been since the last one.                                                *)
Spare(t, s) ==
  /\ Works(t, s)
  /\ \/ worker[t].step \in {"send", "push"}
     \/ worker[t].step \in {"record", "finish"} /\ worker[t].channel = "none"

Unspent(s) ==
  \/ outbox[s].status \in {"none", "pending", "failed"}
  \/ \E t \in Targets : Spare(t, s)

CountedAt(s) == pushed[s] <= 1 + again[s] /\ (Unspent(s) => pushed[s] <= again[s])

PushesCounted == \A s \in Seqs : CountedAt(s)

ReceivedAt(s) == outbox[s].status = "sent" => pushed[s] > 0 \/ ReadWasPulled(s)

RowInv == TypeOK /\ \A s \in Seqs : RowAt(s)

Told == RowsWorked /\ WorkerKnows /\ VerifiedWasPushed /\ PushesCounted /\ SentMeansReceived

(* The inductive invariant of the worker and the mailbox it drives.        *)
WorkerInv == WorkerTypeOK /\ RowInv /\ StepsFit /\ ChainsFit /\ Told

----------------------------------------------------------------------------
(* The worker drives the mailbox by its operations only.                   *)

LEMMA RowInChain ==
  ASSUME WorkerTypeOK, NEW t \in Targets, chain[t] # <<>>
  PROVE  /\ Row(t) \in Seqs /\ Row(t) = chain[t][1]
         /\ chain[t] \in Seq(Seqs) /\ Len(chain[t]) \in Nat /\ Len(chain[t]) > 0
<1>1. chain[t] \in Seq(Seqs)
  BY DEF WorkerTypeOK
<1> QED BY <1>1 DEF Row

LEMMA SettledStep ==
  ASSUME Settled PROVE [Next]_mailVars
  BY DEF Settled, Next

LEMMA ClientMail ==
  ASSUME WorkerTypeOK, StepsFit,
         \/ \E type \in Mail : ChildReports(type)
         \/ \E supersede \in BOOLEAN : ParentReplies(supersede)
         \/ \E s \in Seqs : ParentCancels(s) \/ CheckClaims(s)
         \/ \E s \in Seqs, c \in Targets : ReaderClaims(s, c) \/ ReaderAcknowledges(s, c)
         \/ CheckPulls \/ CheckAcknowledges
  PROVE  [Next]_mailVars
<1> USE WorkerAssumption DEF WorkerAssumption
<1>1. ASSUME NEW type \in Mail, ChildReports(type)
      PROVE  [Next]_mailVars
  <2>1. AppendChildMail(type, NoOne) /\ NoOne \in Keys \cup {NoOne}
    BY <1>1 DEF ChildReports
  <2> QED BY <2>1 DEF Next
<1>2. ASSUME NEW supersede \in BOOLEAN, ParentReplies(supersede)
      PROVE  [Next]_mailVars
  BY <1>2 DEF ParentReplies, Next
<1>3. ASSUME NEW s \in Seqs, ParentCancels(s)
      PROVE  [Next]_mailVars
  BY <1>3 DEF ParentCancels, Next
<1>4. ASSUME NEW s \in Seqs, CheckClaims(s)
      PROVE  [Next]_mailVars
  <2>1. "child" \in Consumers
    BY DEF Targets
  <2> QED BY <1>4, <2>1 DEF CheckClaims, Next
<1>5. ASSUME NEW s \in Seqs, NEW c \in Targets, ReaderClaims(s, c)
      PROVE  [Next]_mailVars
  BY <1>5 DEF ReaderClaims, Next
<1>6. ASSUME NEW s \in Seqs, NEW c \in Targets, ReaderAcknowledges(s, c)
      PROVE  [Next]_mailVars
  BY <1>6 DEF ReaderAcknowledges, Next
<1>7. CASE CheckPulls
  <2>1. reading.seq \in Seqs /\ SetTransport(reading.seq, "checked") /\ "checked" \in Transports
    BY <1>7 DEF CheckPulls, WorkerTypeOK
  <2> QED BY <2>1 DEF Next
<1>8. CASE CheckAcknowledges
  <2>1. reading.seq \in Seqs
    BY <1>8 DEF CheckAcknowledges, WorkerTypeOK, StepsFit
  <2> QED BY <1>8, <2>1 DEF CheckAcknowledges, Next
<1> QED BY <1>1, <1>2, <1>3, <1>4, <1>5, <1>6, <1>7, <1>8

LEMMA WorkerMail ==
  ASSUME WorkerTypeOK, RowInv, NEW t \in Targets, WorkerStep(t) \/ Heartbeat(t)
  PROVE  [Next]_mailVars
<1> USE WorkerAssumption DEF WorkerAssumption
<1>0. epoch \in Holders
  BY DEF WorkerTypeOK
<1>1. CASE SettleBacklog(t)
  BY <1>1, SettledStep DEF SettleBacklog
<1>2. CASE Claim(t)
  <2>1. Row(t) \in Seqs /\ ClaimOutbox(Row(t), epoch)
    BY <1>2, RowInChain DEF Claim, At
  <2> QED BY <1>0, <2>1 DEF Next
<1>3. CASE Mark(t)
  <2>1. Row(t) \in Seqs
    BY <1>3, RowInChain DEF Mark, At
  <2> QED BY <1>0, <1>3, <2>1 DEF Mark, Next, PeerSettled
<1>4. CASE Record(t)
  <2>1. Row(t) \in Seqs
    BY <1>4, RowInChain DEF Record, At
  <2> QED BY <1>4, <2>1 DEF Record, Next
<1>5. CASE FinishRow(t)
  <2> DEFINE s == Row(t)
  <2>1. s \in Seqs
    BY <1>5, RowInChain DEF FinishRow, At
  <2>2. CASE HeldBy(s, epoch) /\ outbox[s].lease > 0
    <3>1. Finish(s, epoch, Verdict(worker[t])) /\ Verdict(worker[t]) \in Verdicts
      BY <1>5, <2>2 DEF FinishRow, Verdict, Verdicts
    <3>2. message[s].type \in Actionable \cup {"reply"}
      BY <2>1, <2>2 DEF RowInv, RowAt, HeldBy, Pushed
    <3>3. \/ FinishOutbox(s, epoch, Verdict(worker[t]))
          \/ FinishNotification(s, epoch, Verdict(worker[t]))
      BY <3>1, <3>2 DEF FinishOutbox, FinishNotification
    <3> QED BY <1>0, <2>1, <3>1, <3>3 DEF Next
  <2>3. CASE ~(HeldBy(s, epoch) /\ outbox[s].lease > 0)
    BY <1>5, <2>3 DEF FinishRow
  <2> QED BY <2>2, <2>3
<1>6. CASE Heartbeat(t)
  <2>1. Row(t) \in Seqs
    BY <1>6, RowInChain DEF Heartbeat
  <2> QED BY <1>0, <1>6, <2>1 DEF Heartbeat, Next
<1>7. CASE UNCHANGED mailVars
  BY <1>7
<1> QED BY <1>1, <1>2, <1>3, <1>4, <1>5, <1>6, <1>7
        DEF WorkerStep, ClaimRefused, AlreadySent, ChooseChannel, NoChannel, PushLands,
            PushFails, PushStops, LeaseLost

LEMMA VerifierMail ==
  ASSUME WorkerTypeOK, NEW s \in Seqs, VerifierStep(s)
  PROVE  [Next]_mailVars
<1> USE WorkerAssumption DEF WorkerAssumption
<1>1. CASE VerifierStarts(s)
  BY <1>1, SettledStep DEF VerifierStarts
<1>2. CASE VerifierSees(s)
  BY <1>2 DEF VerifierSees, Next
<1>3. CASE VerifierSettles(s)
  BY <1>3 DEF VerifierSettles, Next, PeerSettled
<1>4. CASE VerifierRecords(s)
  BY <1>4 DEF VerifierRecords, Next
<1>5. CASE VerifierGivesUp(s)
  BY <1>5 DEF VerifierGivesUp
<1>6. CASE VerifierFallsBack(s)
  BY <1>6 DEF VerifierFallsBack, Next
<1> QED BY <1>1, <1>2, <1>3, <1>4, <1>5, <1>6 DEF VerifierStep

LEMMA MailStep ==
  ASSUME WorkerTypeOK, RowInv, StepsFit, [WorkerNext]_vars
  PROVE  [Next]_mailVars
<1>1. ASSUME NEW s \in Seqs, SupervisorRetries(s) \/ LeaseRuns(s)
      PROVE  [Next]_mailVars
  BY <1>1 DEF SupervisorRetries, LeaseRuns, Next
<1>2. CASE UNCHANGED mailVars
  BY <1>2
<1> QED BY <1>1, <1>2, ClientMail, WorkerMail, VerifierMail
        DEF WorkerNext, OwnerCallFails, LateCallFails, HeartbeatFails, SupervisorResumesVerification,
            SupervisorFinds, SupervisorResumes, Forget, CloseDispatch, Crash, Sweep, vars

----------------------------------------------------------------------------
(* What a step of anybody but the worker of the row s may do to it.        *)
RowStays(s) ==
  /\ outbox'[s].status = outbox[s].status
  /\ outbox'[s].holder = outbox[s].holder
  /\ outbox'[s].peer # outbox[s].peer =>
       outbox[s].peer # "none" /\ outbox'[s].peer \in PeerSettled \cup {"superseded", "none"}

RowGoes(s) ==
  /\ outbox'[s].peer = "none"
  /\ \/ /\ outbox[s].status \in Unfinished /\ outbox'[s].status = "sent"
        /\ delivery'[s].status = "acknowledged" /\ CarriesSequence(s)
     \/ /\ outbox[s].status \in Unfinished /\ outbox'[s].status = "suppressed"
        /\ Recipient(message[s].type) = "parent"
     \/ /\ outbox[s].status \in {"pending", "failed", "suppressed"}
        /\ outbox'[s].status = "cancelled"
     \/ outbox[s].status \in {"none", "failed"} /\ outbox'[s].status = "pending"

DeliveryStays(s) ==
  /\ delivery[s].status \in Final => delivery'[s].status = delivery[s].status
  /\ delivery'[s].status = "cancelled" /\ delivery[s].status # "cancelled"
       => message[s].type = "reply" /\ outbox[s].status \notin {"sent", "sending"}
  /\ delivery'[s].transport \in {delivery[s].transport, "checked"} \/ pushed[s] > 0

Moves(s) ==
  /\ message[s].type # "none" => message'[s].type = message[s].type
  /\ DeliveryStays(s)
  /\ RowStays(s) \/ RowGoes(s)

LEMMA StillMoves ==
  ASSUME NEW s, UNCHANGED <<message[s], delivery[s], outbox[s]>>
  PROVE  Moves(s)
BY DEF Moves, DeliveryStays, RowStays

(* An acknowledgement of open deliveries, alone or with an answer.         *)
LEMMA AcknowledgedMoves ==
  ASSUME RowInv, NEW s \in Seqs, NEW S \in SUBSET Seqs, NEW c,
         \A q \in S : delivery[q].status \in Open,
         message'[s].type = message[s].type,
         delivery'[s] = Acknowledged(S, c)[s],
         outbox'[s] = RowsAfterAck(S)[s]
  PROVE  Moves(s)
<1>0. delivery[s] \in DeliveryType /\ outbox[s] \in RowType
  BY DEF RowInv, TypeOK
<1>1. CASE s \notin S
  <2>1. delivery'[s] = delivery[s] /\ outbox'[s] = outbox[s]
    BY <1>1 DEF Acknowledged, RowsAfterAck
  <2> QED BY <2>1 DEF Moves, DeliveryStays, RowStays
<1>2. CASE s \in S
  <2>1. /\ delivery'[s].status = "acknowledged"
        /\ delivery'[s].transport = delivery[s].transport
        /\ delivery[s].status \in Open
    BY <1>0, <1>2, ZenonT(60) DEF Acknowledged, DeliveryType
  <2>2. DeliveryStays(s)
    BY <2>1 DEF DeliveryStays, Open, Final
  <2>3. CASE CarriesSequence(s) /\ outbox[s].status \in Unfinished
    <3>1. outbox'[s] = Closed(outbox[s], "sent")
      BY <1>2, <2>3 DEF RowsAfterAck
    <3> QED BY <2>1, <2>2, <2>3, <3>1 DEF Moves, RowGoes, Closed
  <2>4. CASE ~(CarriesSequence(s) /\ outbox[s].status \in Unfinished)
    <3>1. outbox'[s] = outbox[s]
      BY <1>2, <2>4 DEF RowsAfterAck
    <3> QED BY <2>2, <3>1 DEF Moves, RowStays
  <2> QED BY <2>3, <2>4
<1> QED BY <1>1, <1>2

LEMMA ChildMailMoves ==
  ASSUME RowInv, NEW type \in Mail, NEW key, AppendChildMail(type, key), NEW s \in Seqs
  PROVE  Moves(s)
<1>0. top \in Nat /\ top + 1 \in Seqs
  BY MailboxAssumption DEF MailboxAssumption, AppendChildMail, RowInv, TypeOK, Seqs
<1>1. CASE s = top + 1
  <2>1. message[s].type = "none"
    BY <1>0, <1>1 DEF RowInv, RowAt
  <2>2. delivery[s] = NoDelivery /\ outbox[s].status = "none"
    BY <2>1 DEF RowInv, RowAt, Recipient, Pushed, ChildMail, Actionable
  <2>3. outbox[s].holder = NoOne
    BY <2>2 DEF RowInv, RowAt
  <2>4. delivery'[s] = NewDelivery /\ outbox'[s] \in {NewRow, NoRow}
    BY <1>1 DEF AppendChildMail, RowInv, TypeOK
  <2>5. DeliveryStays(s)
    BY <2>2, <2>4 DEF DeliveryStays, NewDelivery, NoDelivery, Final
  <2> QED BY <2>1, <2>2, <2>3, <2>4, <2>5 DEF Moves, RowStays, RowGoes, NewRow, NoRow
<1>2. CASE s # top + 1
  BY <1>2, StillMoves DEF AppendChildMail, RowInv, TypeOK
<1> QED BY <1>1, <1>2

LEMMA ReplyMoves ==
  ASSUME RowInv, NEW supersede \in BOOLEAN, AppendParentReply(supersede), NEW s \in Seqs
  PROVE  Moves(s)
<1> DEFINE noted == \E q \in Replaced(supersede) : ~Queued(q)
           reply == IF noted THEN top + 2 ELSE top + 1
<1>0. top \in Nat /\ reply \in {top + 1, top + 2}
  BY DEF RowInv, TypeOK
<1>1. /\ message'[s].type = IF s = reply THEN "reply"
                            ELSE IF s = top + 1 /\ noted THEN "withdrawal" ELSE message[s].type
      /\ delivery'[s] = IF s = reply THEN NewDelivery
                        ELSE IF s \in Replaced(supersede)
                             THEN [delivery[s] EXCEPT !.superseded = TRUE,
                                            !.status = IF Queued(s) THEN "superseded" ELSE @]
                        ELSE Acknowledged(Answered, NoOne)[s]
      /\ outbox'[s] = IF s = reply THEN NewRow ELSE RowsAfterAck(Answered)[s]
  BY <1>0 DEF AppendParentReply, RowsAfterAck
<1>2. Answered \in SUBSET Seqs /\ \A q \in Answered : delivery[q].status \in Open
  BY DEF Answered, Open
<1>3. CASE s = reply
  <2>1. message[s].type = "none"
    <3> HIDE DEF reply
    <3> QED BY <1>0, <1>3 DEF RowInv, RowAt
  <2>2. delivery[s] = NoDelivery /\ outbox[s].status = "none"
    BY <2>1 DEF RowInv, RowAt, Recipient, Pushed, ChildMail, Actionable
  <2>3. delivery'[s] = NewDelivery /\ outbox'[s] = NewRow
    BY <1>1, <1>3
  <2>4. DeliveryStays(s)
    BY <2>2, <2>3 DEF DeliveryStays, NewDelivery, NoDelivery, Final
  <2> QED BY <2>1, <2>2, <2>3, <2>4 DEF Moves, RowGoes, NewRow, NoRow
<1>4. CASE s # reply /\ message[s].type = "none"
  <2>1. delivery[s].status = "none"
    BY <1>4 DEF RowInv, RowAt, Recipient, ChildMail, Actionable
  <2>2. delivery'[s] = delivery[s] /\ outbox'[s] = outbox[s]
    BY <1>1, <1>4, <2>1 DEF Replaced, Answered, Acknowledged, RowsAfterAck
  <2> QED BY <1>4, <2>2 DEF Moves, DeliveryStays, RowStays
<1>5. CASE s # reply /\ message[s].type # "none"
  <2>0. message'[s].type = message[s].type
    <3>1. ~(s > top)
      BY <1>5 DEF RowInv, RowAt
    <3>2. s # top + 1
      BY <1>0, <3>1
    <3> QED BY <1>1, <1>5, <3>2
  <2>1. CASE s \in Replaced(supersede)
    <3>1. message[s].type # "ask" /\ s \notin Answered
      BY <2>1 DEF Replaced, Answered
    <3>2. outbox'[s] = outbox[s]
      BY <1>1, <1>5, <3>1 DEF RowsAfterAck
    <3>3. delivery'[s] = [delivery[s] EXCEPT !.superseded = TRUE,
                                   !.status = IF Queued(s) THEN "superseded" ELSE @]
      BY <1>1, <1>5, <2>1
    <3>4. delivery[s] \in DeliveryType
      BY DEF RowInv, TypeOK
    <3>5. /\ delivery'[s].status = IF Queued(s) THEN "superseded" ELSE delivery[s].status
          /\ delivery'[s].transport = delivery[s].transport
      BY <3>3, <3>4 DEF DeliveryType
    <3> QED BY <2>0, <3>2, <3>5 DEF Moves, DeliveryStays, RowStays, Queued, Final
  <2>2. CASE s \notin Replaced(supersede)
    BY <1>1, <1>2, <1>5, <2>0, <2>2, AcknowledgedMoves
  <2> QED BY <2>1, <2>2
<1> QED BY <1>3, <1>4, <1>5

LEMMA CancelMoves ==
  ASSUME RowInv, NEW q \in Seqs, CancelQueued(q) \/ CancelNotice(q), NEW s \in Seqs
  PROVE  Moves(s)
<1>0. top \in Nat /\ top + 1 \in Seqs
  BY MailboxAssumption DEF MailboxAssumption, CancelQueued, CancelNotice, RowInv, TypeOK, Seqs
<1>1. message[s].type # "none" => message'[s].type = message[s].type
  <2>1. message[s].type # "none" => s # top + 1
    BY <1>0 DEF RowInv, RowAt
  <2> QED BY <2>1 DEF CancelQueued, CancelNotice, RowInv, TypeOK
<1>2. CASE s # q
  <2>1. delivery'[s] = delivery[s] /\ outbox'[s] = outbox[s]
    BY <1>2 DEF CancelQueued, CancelNotice, RowInv, TypeOK
  <2> QED BY <1>1, <2>1 DEF Moves, DeliveryStays, RowStays
<1>3. CASE s = q /\ CancelQueued(q)
  <2>0. delivery[s] \in DeliveryType /\ outbox[s] \in RowType
    BY DEF RowInv, TypeOK
  <2>1. /\ delivery'[s] = [delivery[s] EXCEPT !.status = "cancelled"]
        /\ outbox'[s] = IF outbox[s].status \in {"pending", "failed", "suppressed"}
                        THEN Closed(outbox[s], "cancelled") ELSE outbox[s]
    BY <1>3 DEF CancelQueued, RowInv, TypeOK
  <2>2. /\ delivery[s].status \in Open
        /\ message[s].type = "reply" /\ outbox[s].status \notin {"sent", "sending"}
    BY <1>3 DEF CancelQueued, Cancellable
  <2>3. DeliveryStays(s)
    BY <2>0, <2>1, <2>2 DEF DeliveryStays, DeliveryType, Open, Final
  <2> QED BY <1>1, <2>1, <2>3 DEF Moves, RowStays, RowGoes, Closed
<1>4. CASE s = q /\ CancelNotice(q)
  <2>1. /\ delivery' = delivery
        /\ outbox'[s] = Closed(outbox[s], "cancelled")
        /\ outbox[s].status \in {"pending", "failed", "suppressed"}
    BY <1>4 DEF CancelNotice, RowInv, TypeOK
  <2> QED BY <1>1, <2>1 DEF Moves, DeliveryStays, RowGoes, Closed
<1> QED BY <1>2, <1>3, <1>4

LEMMA ReaderMoves ==
  ASSUME RowInv, NEW q \in Seqs, NEW c, NEW g, NEW recipient,
         ClaimDelivery(q, c, g) \/ AckDelivery(q, c, g) \/ AckImplicit(q, recipient, c),
         NEW s \in Seqs
  PROVE  Moves(s)
<1>0. delivery[s] \in DeliveryType
  BY DEF RowInv, TypeOK
<1>1. CASE ClaimDelivery(q, c, g)
  <2>1. outbox' = outbox /\ message' = message /\ delivery[q].status \in Open
    BY <1>1 DEF ClaimDelivery
  <2>2. /\ delivery'[s].status = delivery[s].status
        /\ delivery'[s].transport = delivery[s].transport
    BY <1>0, <1>1 DEF ClaimDelivery, RowInv, TypeOK, DeliveryType
  <2> QED BY <2>1, <2>2 DEF Moves, DeliveryStays, RowStays
<1>2. CASE AckDelivery(q, c, g) \/ AckImplicit(q, recipient, c)
  <2>1. /\ message' = message /\ delivery[q].status \in Open
        /\ delivery' = Acknowledged({q}, c) /\ outbox' = RowsAfterAck({q})
    BY <1>2 DEF AckDelivery, AckImplicit
  <2> QED BY <2>1, AcknowledgedMoves
<1> QED BY <1>1, <1>2

LEMMA TransportMoves ==
  ASSUME RowInv, NEW q \in Seqs, NEW transport, SetTransport(q, transport), NEW s \in Seqs,
         s = q => transport = "checked" \/ pushed[q] > 0
  PROVE  Moves(s)
<1>0. delivery[s] \in DeliveryType
  BY DEF RowInv, TypeOK
<1>1. outbox' = outbox /\ message' = message
  BY DEF SetTransport
<1>2. /\ delivery'[s].status = delivery[s].status
      /\ delivery'[s].transport = IF s = q THEN transport ELSE delivery[s].transport
  BY <1>0 DEF SetTransport, RowInv, TypeOK, DeliveryType
<1> QED BY <1>1, <1>2 DEF Moves, DeliveryStays, RowStays

LEMMA PusherMoves ==
  ASSUME RowInv, NEW q \in Seqs, NEW h, NEW state \in PeerSettled,
         \/ RenewOutboxLease(q, h) \/ FinishPeerVerification(q, state)
         \/ RetryFailedChild(q) \/ LeaseTick(q),
         NEW s \in Seqs
  PROVE  Moves(s)
<1>0. outbox[s] \in RowType
  BY DEF RowInv, TypeOK
<1>1. UNCHANGED <<message, delivery>>
  BY DEF RenewOutboxLease, FinishPeerVerification, RetryFailedChild, LeaseTick
<1>2. RowStays(s) \/ RowGoes(s)
  <2>1. CASE RenewOutboxLease(q, h) \/ LeaseTick(q)
    BY <1>0, <2>1 DEF RenewOutboxLease, LeaseTick, RowStays, RowInv, TypeOK, RowType
  <2>2. CASE FinishPeerVerification(q, state)
    BY <1>0, <2>2 DEF FinishPeerVerification, RowStays, RowInv, TypeOK, RowType
  <2>3. CASE RetryFailedChild(q)
    BY <1>0, <2>3 DEF RetryFailedChild, RowStays, RowGoes, Closed, RowInv, TypeOK, RowType
  <2> QED BY <2>1, <2>2, <2>3
<1> QED BY <1>1, <1>2 DEF Moves, DeliveryStays

LEMMA SettledMoves ==
  ASSUME RowInv, Settled, NEW s \in Seqs
  PROVE  Moves(s)
<1>1. CASE SupersedeClosedParentDeliveries
  <2>0. delivery[s] \in DeliveryType /\ outbox[s] \in RowType
    BY DEF RowInv, TypeOK
  <2>1. message' = message
    BY <1>1 DEF SupersedeClosedParentDeliveries
  <2>2. DeliveryStays(s)
    BY <1>1, <2>0 DEF SupersedeClosedParentDeliveries, DeliveryStays, DeliveryType, Final
  <2>3. RowStays(s) \/ RowGoes(s)
    BY <1>1, <2>0 DEF SupersedeClosedParentDeliveries, RowStays, RowGoes, Closed, RowType
  <2> QED BY <2>1, <2>2, <2>3 DEF Moves
<1>2. CASE UNCHANGED mailVars
  BY <1>2, StillMoves DEF mailVars
<1> QED BY <1>1, <1>2 DEF Settled

----------------------------------------------------------------------------
(* What a step of others leaves a worker and its row with.                 *)

LEMMA WorkedRowKept ==
  ASSUME RowInv, NEW s \in Seqs, Moves(s), WorkedRow(s), epoch' = epoch
  PROVE  WorkedRow(s)'
<1>1. message'[s].type = message[s].type
  <2>1. outbox[s].status # "none"
    BY DEF WorkedRow
  <2>2. message[s].type # "none"
    BY <2>1 DEF RowInv, RowAt, Pushed, Actionable
  <2> QED BY <2>2 DEF Moves
<1>2. Recipient(message[s].type) = "parent" => message[s].type # "reply"
  BY DEF Recipient, ChildMail, Actionable
<1>3. delivery'[s].status # "cancelled"
  BY <1>2 DEF Moves, DeliveryStays, WorkedRow
<1>4. delivery[s].status = "acknowledged" => delivery'[s].status = "acknowledged"
  BY DEF Moves, DeliveryStays, Final
<1>5. CASE RowStays(s)
  BY <1>1, <1>3, <1>4, <1>5 DEF RowStays, WorkedRow, CarriesSequence
<1>6. CASE RowGoes(s)
  BY <1>1, <1>3, <1>4, <1>6 DEF RowGoes, WorkedRow, CarriesSequence, Unfinished
<1> QED BY <1>5, <1>6 DEF Moves

LEMMA PulledKept ==
  ASSUME RowInv, NEW s \in Seqs, Moves(s), message[s].type # "none", ReadWasPulled(s)
  PROVE  ReadWasPulled(s)' \/ pushed[s] > 0
BY DEF Moves, DeliveryStays, ReadWasPulled, CarriesSequence, Final

LEMMA KnowsKept ==
  ASSUME WorkerTypeOK, RowInv, NEW t \in Targets, NEW s \in Seqs, Moves(s), WorkedRow(s), Knows(t, s),
         worker'[t] = worker[t], pushed'[s] = pushed[s]
  PROVE  Knows(t, s)'
<1>1. message[s].type # "none"
  <2>1. outbox[s].status # "none"
    BY DEF WorkedRow
  <2> QED BY <2>1 DEF RowInv, RowAt, Pushed, Actionable
<1>2. ReadWasPulled(s) => ReadWasPulled(s)' \/ pushed[s] > 0
  BY <1>1, PulledKept
<1>3. CarriesSequence(s)' <=> CarriesSequence(s)
  BY <1>1 DEF Moves, CarriesSequence
<1>4. delivery[s].status = "acknowledged" => delivery'[s].status = "acknowledged"
  BY DEF Moves, DeliveryStays, Final
<1> QED BY <1>2, <1>3, <1>4 DEF Knows

LEMMA ReceivedKept ==
  ASSUME RowInv, NEW s \in Seqs, Moves(s), ReceivedAt(s), pushed'[s] = pushed[s]
  PROVE  ReceivedAt(s)'
<1> SUFFICES ASSUME outbox'[s].status = "sent"
             PROVE  pushed[s] > 0 \/ ReadWasPulled(s)'
    BY DEF ReceivedAt
<1>1. message[s].type # "none"
  <2>1. outbox[s].status # "none"
    BY DEF Moves, RowStays, RowGoes, Unfinished
  <2> QED BY <2>1 DEF RowInv, RowAt, Pushed, Actionable
<1>2. CASE outbox[s].status = "sent"
  BY <1>1, <1>2, PulledKept DEF ReceivedAt
<1>3. CASE outbox[s].status # "sent"
  BY <1>1, <1>3 DEF Moves, RowStays, RowGoes, ReadWasPulled, CarriesSequence
<1> QED BY <1>2, <1>3

(* Only the worker, a fallback and a lost lease let a row be pushed again. *)
LEMMA CountedKept ==
  ASSUME NEW s \in Seqs, Moves(s), CountedAt(s),
         pushed'[s] = pushed[s], again'[s] = again[s],
         \A t \in Targets : Works(t, s)' => Works(t, s) /\ worker'[t] = worker[t]
  PROVE  CountedAt(s)'
<1>1. outbox'[s].status \in {"none", "pending", "failed"}
        => outbox[s].status \in {"none", "pending", "failed"}
  BY DEF Moves, RowStays, RowGoes
<1>2. Unspent(s)' => Unspent(s)
  BY <1>1 DEF Unspent, Spare
<1> QED BY <1>2 DEF CountedAt

(* Verifications that are under way are of messages that were pushed.      *)
Watching == {"watch", "seen", "record", "unseen"}

LEMMA VerifiedKept ==
  ASSUME NEW s \in Seqs, Moves(s), VerifiedAt(s), pushed'[s] = pushed[s],
         verifier'[s] \in Watching => verifier[s] \in Watching \/ pushed[s] > 0
  PROVE  VerifiedAt(s)'
<1>1. outbox'[s].peer = "pending" => outbox[s].peer = "pending"
  BY DEF Moves, RowStays, RowGoes, PeerSettled
<1> QED BY <1>1 DEF VerifiedAt, Watching

(* The first row of a chain stays the first.                               *)
HeadKept(t) == chain[t] # <<>> => chain'[t] # <<>> /\ Row(t)' = Row(t)

LEMMA WorksKept ==
  ASSUME ChainsFit, NEW t \in Targets, NEW s \in Seqs, HeadKept(t), worker'[t] = worker[t], Works(t, s)'
  PROVE  Works(t, s)
BY DEF ChainsFit, ChainFits, HeadKept, Works, Idle, Sending

LEMMA OneWorker ==
  ASSUME WorkerTypeOK, ChainsFit, NEW t \in Targets, NEW u \in Targets,
         chain[t] # <<>>, chain[u] # <<>>, Row(t) = Row(u)
  PROVE  t = u
<1>1. ASSUME NEW v \in Targets, chain[v] # <<>>
      PROVE  TargetOf(message[Row(v)].type) = v
  <2>1. Row(v) = chain[v][1] /\ 1 \in 1..Len(chain[v])
    BY <1>1, RowInChain
  <2> QED BY <2>1 DEF ChainsFit, ChainFits
<1>2. TargetOf(message[Row(t)].type) = t /\ TargetOf(message[Row(u)].type) = u
  BY <1>1
<1> QED BY <1>2

(* A step of which the workers see no more than what others do to a row.   *)
LEMMA OthersStep ==
  ASSUME WorkerInv, \A s \in Seqs : Moves(s), UNCHANGED <<worker, epoch, pushed, again>>,
         \A t \in Targets : HeadKept(t),
         \A s \in Seqs : verifier'[s] \in Watching => verifier[s] \in Watching \/ pushed[s] > 0
  PROVE  Told'
<1> USE DEF WorkerInv, Told
<1>1. ASSUME NEW t \in Targets, NEW s \in Seqs, Works(t, s)'
      PROVE  WorkedRow(s)' /\ Knows(t, s)'
  <2>1. Works(t, s)
    BY <1>1, WorksKept
  <2> QED BY <2>1, WorkedRowKept, KnowsKept DEF RowsWorked, WorkerKnows
<1>2. ASSUME NEW s \in Seqs PROVE VerifiedAt(s)'
  BY VerifiedKept DEF VerifiedWasPushed
<1>3. ASSUME NEW s \in Seqs PROVE CountedAt(s)'
  <2>1. \A t \in Targets : Works(t, s)' => Works(t, s) /\ worker'[t] = worker[t]
    BY WorksKept
  <2> QED BY <2>1, CountedKept DEF PushesCounted
<1>4. ASSUME NEW s \in Seqs PROVE ReceivedAt(s)'
  BY ReceivedKept DEF SentMeansReceived, ReceivedAt
<1> QED BY <1>1, <1>2, <1>3, <1>4
        DEF RowsWorked, WorkerKnows, VerifiedWasPushed, PushesCounted, SentMeansReceived, ReceivedAt

(* A step of the worker of t, which may end with it.                       *)
LEMMA OwnStep ==
  ASSUME WorkerInv, NEW t \in Targets, NEW s \in Seqs, chain[t] # <<>>, s = Row(t),
         \A q \in Seqs \ {s} : Moves(q) /\ pushed'[q] = pushed[q] /\ again'[q] = again[q],
         \A u \in Targets \ {t} : chain'[u] = chain[u] /\ worker'[u] = worker[u],
         \A q \in Seqs \ {s} : ~Works(t, q)',
         Works(t, s)' => WorkedRow(s)' /\ Knows(t, s)',
         epoch' = epoch,
         \A q \in Seqs : verifier'[q] \in Watching => verifier[q] \in Watching,
         VerifiedAt(s)', CountedAt(s)', ReceivedAt(s)'
  PROVE  Told'
<1> USE DEF WorkerInv, Told
<1>0. ASSUME NEW u \in Targets \ {t}, NEW q \in Seqs, Works(u, q)'
      PROVE  Works(u, q) /\ q # s
  <2>1. Works(u, q)
    BY <1>0, WorksKept DEF HeadKept, Row
  <2> QED BY <2>1, OneWorker DEF Works
<1>1. ASSUME NEW u \in Targets, NEW q \in Seqs, Works(u, q)'
      PROVE  WorkedRow(q)' /\ Knows(u, q)'
  <2>1. CASE u = t
    BY <1>1, <2>1
  <2>2. CASE u # t
    <3>1. Works(u, q) /\ q \in Seqs \ {s}
      BY <1>0, <1>1, <2>2
    <3> QED BY <2>2, <3>1, WorkedRowKept, KnowsKept DEF RowsWorked, WorkerKnows
  <2> QED BY <2>1, <2>2
<1>2. ASSUME NEW q \in Seqs \ {s} PROVE VerifiedAt(q)' /\ ReceivedAt(q)'
  BY <1>2, VerifiedKept, ReceivedKept DEF VerifiedWasPushed, SentMeansReceived, ReceivedAt
<1>3. ASSUME NEW q \in Seqs \ {s} PROVE CountedAt(q)'
  <2>1. \A u \in Targets : Works(u, q)' => Works(u, q) /\ worker'[u] = worker[u]
    BY <1>0
  <2> QED BY <2>1, CountedKept DEF PushesCounted
<1> QED BY <1>1, <1>2, <1>3
        DEF RowsWorked, WorkerKnows, VerifiedWasPushed, PushesCounted, SentMeansReceived, ReceivedAt

----------------------------------------------------------------------------
(* Subscriptions: rows join the end of the chain of their target, once.    *)

LEMMA JoinRows ==
  ASSUME NEW q \in Seq(Seqs), NEW r \in Seq(Seqs)
  PROVE  /\ q \o r \in Seq(Seqs)
         /\ Len(q \o r) = Len(q) + Len(r)
         /\ \A i \in 1..Len(q) : (q \o r)[i] = q[i]
         /\ \A i \in 1..Len(r) : (q \o r)[Len(q) + i] = r[i]
         /\ q # <<>> => q \o r # <<>> /\ Head(q \o r) = Head(q)
OBVIOUS

LEMMA TailRow ==
  ASSUME NEW q \in Seq(Seqs), q # <<>>
  PROVE  /\ Tail(q) \in Seq(Seqs)
         /\ Len(q) \in Nat /\ Len(q) > 0 /\ Len(Tail(q)) = Len(q) - 1
         /\ \A i \in 1..Len(Tail(q)) : Tail(q)[i] = q[i + 1] /\ i + 1 \in 1..Len(q)
OBVIOUS

LEMMA AppendJoins ==
  ASSUME NEW q \in Seq(Seqs), NEW s \in Seqs
  PROVE  Append(q, s) = q \o <<s>> /\ q \o <<>> = q /\ <<s>> \in Seq(Seqs)
<1>1. Append(q, s) = q \o <<s>>
  OBVIOUS
<1>2. q \o <<>> = q
  OBVIOUS
<1> QED BY <1>1, <1>2

MessagesKept == \A s \in Seqs : message[s].type # "none" => message'[s].type = message[s].type

LEMMA ChainGrown ==
  ASSUME WorkerTypeOK, ChainsFit, MessagesKept, NEW t \in Targets, worker'[t] = worker[t],
         NEW r \in Seq(Seqs), chain'[t] = chain[t] \o r,
         \A i \in 1..Len(r) : /\ Pushed(message'[r[i]].type) /\ TargetOf(message'[r[i]].type) = t
                              /\ r[i] \notin Scheduled,
         \A i, j \in 1..Len(r) : r[i] = r[j] => i = j
  PROVE  chain'[t] \in Seq(Seqs) /\ ChainFits(t)' /\ HeadKept(t)
<1> DEFINE q == chain[t]
           c == chain'[t]
<1>0. q \in Seq(Seqs) /\ ChainFits(t)
  BY DEF WorkerTypeOK, ChainsFit
<1>1. /\ c \in Seq(Seqs) /\ Len(c) = Len(q) + Len(r)
      /\ \A i \in 1..Len(q) : c[i] = q[i]
      /\ \A i \in 1..Len(r) : c[Len(q) + i] = r[i]
      /\ q # <<>> => c # <<>> /\ Head(c) = Head(q)
  BY <1>0, JoinRows
<1>2. HeadKept(t)
  BY <1>1 DEF HeadKept, Row
<1>3. chain'[t] = <<>> => worker'[t] = Idle
  BY <1>0, <1>1 DEF ChainFits
<1>4. Len(q) \in Nat /\ Len(r) \in Nat
  BY <1>0
<1>5. ASSUME NEW i \in 1..Len(c)
      PROVE  \/ i \in 1..Len(q) /\ c[i] = q[i]
             \/ i - Len(q) \in 1..Len(r) /\ c[i] = r[i - Len(q)] /\ i > Len(q)
  <2>1. CASE i <= Len(q)
    BY <1>1, <1>4, <2>1
  <2>2. CASE i > Len(q)
    <3>1. i - Len(q) \in 1..Len(r) /\ Len(q) + (i - Len(q)) = i
      BY <1>1, <1>4, <2>2
    <3> QED BY <1>1, <2>2, <3>1
  <2> QED BY <1>4, <2>1, <2>2
<1>6. ASSUME NEW i \in 1..Len(c)
      PROVE  Pushed(message'[c[i]].type) /\ TargetOf(message'[c[i]].type) = t
  <2>1. CASE i \in 1..Len(q) /\ c[i] = q[i]
    <3>1. Pushed(message[q[i]].type) /\ TargetOf(message[q[i]].type) = t /\ q[i] \in Seqs
      BY <1>0, <2>1 DEF ChainFits
    <3>2. message[q[i]].type # "none"
      BY <3>1 DEF Pushed, Actionable
    <3> QED BY <2>1, <3>1, <3>2 DEF MessagesKept
  <2>2. CASE i - Len(q) \in 1..Len(r) /\ c[i] = r[i - Len(q)]
    BY <2>2
  <2> QED BY <1>5, <2>1, <2>2
<1>7. ASSUME NEW i \in 1..Len(q) PROVE q[i] \in Scheduled
  BY <1>0, <1>7 DEF Scheduled
<1>8. ASSUME NEW i \in 1..Len(c), NEW j \in 1..Len(c), c[i] = c[j]
      PROVE  i = j
  <2>1. CASE i \in 1..Len(q) /\ j \in 1..Len(q) /\ c[i] = q[i] /\ c[j] = q[j]
    BY <1>0, <1>8, <2>1 DEF ChainFits
  <2>2. CASE /\ i - Len(q) \in 1..Len(r) /\ j - Len(q) \in 1..Len(r)
             /\ c[i] = r[i - Len(q)] /\ c[j] = r[j - Len(q)]
    <3>1. i - Len(q) = j - Len(q)
      BY <1>8, <2>2
    <3> QED BY <1>1, <1>4, <3>1
  <2>3. CASE i \in 1..Len(q) /\ c[i] = q[i] /\ j - Len(q) \in 1..Len(r) /\ c[j] = r[j - Len(q)]
    BY <1>7, <1>8, <2>3
  <2>4. CASE j \in 1..Len(q) /\ c[j] = q[j] /\ i - Len(q) \in 1..Len(r) /\ c[i] = r[i - Len(q)]
    BY <1>7, <1>8, <2>4
  <2> QED BY <1>5, <2>1, <2>2, <2>3, <2>4
<1> HIDE DEF q, c
<1> QED BY <1>1, <1>2, <1>3, <1>6, <1>8 DEF ChainFits, c

LEMMA DueIsPushed ==
  ASSUME RowInv, NEW s \in Seqs, Due(outbox[s])
  PROVE  Pushed(message[s].type)
BY DEF RowInv, RowAt, Due

LEMMA SubscribeFits ==
  ASSUME WorkerTypeOK, ChainsFit, RowInv', MessagesKept, worker' = worker,
         NEW s \in Seqs, Subscribe(s)
  PROVE  chain' \in [Targets -> Seq(Seqs)] /\ ChainsFit' /\ \A t \in Targets : HeadKept(t)
<1>1. ASSUME NEW t \in Targets
      PROVE  chain'[t] \in Seq(Seqs) /\ ChainFits(t)' /\ HeadKept(t)
  <2>0. chain[t] \in Seq(Seqs)
    BY DEF WorkerTypeOK
  <2>1. \E r \in Seq(Seqs) :
          /\ chain'[t] = chain[t] \o r
          /\ \A i \in 1..Len(r) : /\ Pushed(message'[r[i]].type) /\ TargetOf(message'[r[i]].type) = t
                                  /\ r[i] \notin Scheduled
          /\ \A i, j \in 1..Len(r) : r[i] = r[j] => i = j
    <3>1. CASE s \notin Scheduled /\ Due(outbox'[s]) /\ TargetOf(message'[s].type) = t
      <4>1. chain'[t] = chain[t] \o <<s>> /\ <<s>> \in Seq(Seqs)
        BY <2>0, <3>1, AppendJoins DEF Subscribe
      <4>2. Pushed(message'[s].type)
        BY <3>1 DEF RowInv, RowAt, Due
      <4>3. /\ \A i \in 1..Len(<<s>>) : i = 1 /\ <<s>>[i] = s
            /\ \A i, j \in 1..Len(<<s>>) : i = j
        OBVIOUS
      <4> WITNESS <<s>> \in Seq(Seqs)
      <4> QED BY <3>1, <4>1, <4>2, <4>3
    <3>2. CASE ~(s \notin Scheduled /\ Due(outbox'[s]) /\ TargetOf(message'[s].type) = t)
      <4>1. chain'[t] = chain[t] \o <<>>
        BY <2>0, <3>2, AppendJoins DEF Subscribe
      <4>2. <<>> \in Seq(Seqs) /\ 1..Len(<<>>) = {}
        OBVIOUS
      <4> WITNESS <<>> \in Seq(Seqs)
      <4> QED BY <4>1, <4>2
    <3> QED BY <3>1, <3>2
  <2> QED BY <2>1, ChainGrown
<1>2. chain' = [t \in Targets |-> chain'[t]]
  BY DEF Subscribe
<1> QED BY <1>1, <1>2 DEF ChainsFit

LEMMA AscendingFacts ==
  ASSUME NEW S \in SUBSET Seqs, NEW q \in Ascending(S)
  PROVE  /\ q \in Seq(Seqs)
         /\ \A i \in 1..Len(q) : q[i] \in S
         /\ \A i, j \in 1..Len(q) : q[i] = q[j] => i = j
<1> USE MailboxAssumption DEF MailboxAssumption
<1>1. PICK n \in 0..MaxSeq : q \in [1..n -> S]
  BY DEF Ascending
<1>2. n \in Nat /\ q \in Seq(Seqs) /\ Len(q) = n /\ DOMAIN q = 1..n
  <2>1. n \in Nat /\ q \in [1..n -> Seqs]
    BY <1>1
  <2>2. q \in Seq(Seqs)
    BY <2>1
  <2> QED BY <2>1, <2>2
<1>3. \A i, j \in 1..n : i < j => q[i] < q[j]
  BY <1>2 DEF Ascending
<1>4. ASSUME NEW i \in 1..n, NEW j \in 1..n, q[i] = q[j]
      PROVE  i = j
  <2>1. q[i] \in Nat /\ i \in Nat /\ j \in Nat
    BY <1>2 DEF Seqs
  <2>2. ~(i < j) /\ ~(j < i)
    BY <1>3, <1>4, <2>1
  <2> QED BY <2>1, <2>2
<1> QED BY <1>1, <1>2, <1>4

LEMMA SubscribeAllFits ==
  ASSUME WorkerTypeOK, ChainsFit, RowInv, UNCHANGED mailVars, worker' = worker, SubscribeAll
  PROVE  chain' \in [Targets -> Seq(Seqs)] /\ ChainsFit' /\ \A t \in Targets : HeadKept(t)
<1> DEFINE due(t) == {s \in Seqs \ Scheduled : Due(outbox[s]) /\ TargetOf(message[s].type) = t}
<1>1. PICK parents \in Ascending(due("parent")), children \in Ascending(due("child")) :
        chain' = [t \in Targets |-> chain[t] \o (IF t = "parent" THEN parents ELSE children)]
  BY DEF SubscribeAll
<1>2. ASSUME NEW t \in Targets
      PROVE  chain'[t] \in Seq(Seqs) /\ ChainFits(t)' /\ HeadKept(t)
  <2> DEFINE r == IF t = "parent" THEN parents ELSE children
  <2>1. r \in Ascending(due(t))
    BY <1>1 DEF Targets
  <2>2. due(t) \in SUBSET Seqs
    OBVIOUS
  <2>3. chain'[t] = chain[t] \o r
    BY <1>1
  <2>4. message' = message
    BY DEF mailVars
  <2> HIDE DEF r
  <2>5. /\ r \in Seq(Seqs)
        /\ \A i \in 1..Len(r) : r[i] \in due(t)
        /\ \A i, j \in 1..Len(r) : r[i] = r[j] => i = j
    <3> HIDE DEF due
    <3> QED BY <2>1, <2>2, AscendingFacts
  <2>6. \A i \in 1..Len(r) : /\ Pushed(message'[r[i]].type) /\ TargetOf(message'[r[i]].type) = t
                             /\ r[i] \notin Scheduled
    BY <2>4, <2>5, DueIsPushed
  <2>7. MessagesKept
    BY <2>4 DEF MessagesKept
  <2> QED BY <2>3, <2>5, <2>6, <2>7, ChainGrown
<1>3. chain' = [t \in Targets |-> chain'[t]]
  BY <1>1
<1> QED BY <1>2, <1>3 DEF ChainsFit

LEMMA SameChainsFit ==
  ASSUME WorkerTypeOK, ChainsFit, MessagesKept, chain' = chain,
         \A t \in Targets : chain[t] = <<>> => worker'[t] = worker[t]
  PROVE  chain' \in [Targets -> Seq(Seqs)] /\ ChainsFit' /\ \A t \in Targets : HeadKept(t)
<1>1. chain' \in [Targets -> Seq(Seqs)]
  BY DEF WorkerTypeOK
<1>2. ASSUME NEW t \in Targets PROVE ChainFits(t)' /\ HeadKept(t)
  <2>1. chain'[t] = <<>> => worker'[t] = Idle
    BY DEF ChainsFit, ChainFits
  <2>2. ASSUME NEW i \in 1..Len(chain[t])
        PROVE  Pushed(message'[chain[t][i]].type) /\ TargetOf(message'[chain[t][i]].type) = t
    <3>1. chain[t][i] \in Seqs /\ Pushed(message[chain[t][i]].type) /\ TargetOf(message[chain[t][i]].type) = t
      BY <1>1 DEF ChainsFit, ChainFits
    <3> QED BY <3>1 DEF Pushed, Actionable, MessagesKept
  <2>3. \A i, j \in 1..Len(chain[t]) : chain[t][i] = chain[t][j] => i = j
    BY DEF ChainsFit, ChainFits
  <2> QED BY <2>1, <2>2, <2>3 DEF ChainFits, HeadKept, Row
<1> QED BY <1>1, <1>2 DEF ChainsFit

LEMMA TaskEnds ==
  ASSUME WorkerTypeOK, ChainsFit, MessagesKept, NEW t \in Targets, chain[t] # <<>>,
         worker' = [worker EXCEPT ![t] = Idle], chain' = [chain EXCEPT ![t] = Tail(@)]
  PROVE  chain' \in [Targets -> Seq(Seqs)] /\ ChainsFit'
<1>0. chain \in [Targets -> Seq(Seqs)] /\ worker \in [Targets -> WorkerType]
  BY DEF WorkerTypeOK
<1>1. chain' \in [Targets -> Seq(Seqs)]
  BY <1>0, TailRow
<1>2. ASSUME NEW u \in Targets PROVE ChainFits(u)'
  <2>0. ChainFits(u)
    BY DEF ChainsFit
  <2>1. chain'[u] = <<>> => worker'[u] = Idle
    BY <1>0, <2>0 DEF ChainFits
  <2>2. /\ chain[u] \in Seq(Seqs) /\ Len(chain[u]) \in Nat
        /\ \A i \in 1..Len(chain'[u]) :
             IF u = t THEN i + 1 \in 1..Len(chain[u]) /\ chain'[u][i] = chain[u][i + 1]
             ELSE i \in 1..Len(chain[u]) /\ chain'[u][i] = chain[u][i]
    BY <1>0, TailRow
  <2>3. ASSUME NEW i \in 1..Len(chain'[u])
        PROVE  Pushed(message'[chain'[u][i]].type) /\ TargetOf(message'[chain'[u][i]].type) = u
    <3>1. PICK j \in 1..Len(chain[u]) : chain'[u][i] = chain[u][j]
      BY <2>2
    <3>2. chain[u][j] \in Seqs /\ Pushed(message[chain[u][j]].type) /\ TargetOf(message[chain[u][j]].type) = u
      BY <2>0, <2>2 DEF ChainFits
    <3> QED BY <3>1, <3>2 DEF Pushed, Actionable, MessagesKept
  <2>4. ASSUME NEW i \in 1..Len(chain'[u]), NEW j \in 1..Len(chain'[u]), chain'[u][i] = chain'[u][j]
        PROVE  i = j
    <3>1. CASE u = t
      <4>1. i + 1 = j + 1
        BY <2>0, <2>2, <2>4, <3>1 DEF ChainFits
      <4>2. Len(chain'[u]) \in Nat
        BY <1>1
      <4> QED BY <4>1, <4>2
    <3>2. CASE u # t
      BY <2>0, <2>2, <2>4, <3>2 DEF ChainFits
    <3> QED BY <3>1, <3>2
  <2> QED BY <2>1, <2>3, <2>4 DEF ChainFits
<1> QED BY <1>1, <1>2 DEF ChainsFit

----------------------------------------------------------------------------
(* Every step keeps the invariant.                                         *)

LEMMA MailKept ==
  ASSUME WorkerInv, [WorkerNext]_vars
  PROVE  RowInv' /\ MessagesKept
<1> USE DEF WorkerInv, RowInv
<1>1. [Next]_mailVars
  BY MailStep
<1>2. TypeOK'
  BY <1>1, TypeStep
<1>3. \A s \in Seqs : RowAt(s)'
  BY <1>1, RowStep
<1>4. MessagesKept
  BY <1>1, DeliveryStep DEF KeepsDelivery, MessagesKept
<1> QED BY <1>2, <1>3, <1>4

LEMMA EpochFollows ==
  ASSUME WorkerInv, epoch' = epoch, faults' \in 0..MaxFaults, faults' >= faults
  PROVE  epoch' <= faults' + 1
<1>1. epoch \in Nat /\ faults \in Nat /\ faults' \in Nat
  BY WorkerAssumption DEF WorkerAssumption, WorkerInv, WorkerTypeOK, Epochs
<1>2. epoch <= faults + 1
  BY DEF WorkerInv, StepsFit
<1>3. \A n \in Nat : n >= faults => epoch <= n + 1
  BY <1>1, <1>2
<1> QED BY <1>1, <1>3

(* What the workers do not take part in: they and their rows are left.     *)
LEMMA BystanderStep ==
  ASSUME WorkerInv, RowInv', \A s \in Seqs : Moves(s),
         UNCHANGED <<worker, epoch, pushed, again>>, accepted' \subseteq Seqs,
         chain' \in [Targets -> Seq(Seqs)], ChainsFit', \A t \in Targets : HeadKept(t),
         verifier' \in [Seqs -> {"off", "due"} \cup Watching],
         \A s \in Seqs : verifier'[s] \in Watching => verifier[s] \in Watching \/ pushed[s] > 0,
         swept' \in BOOLEAN, faults' \in 0..MaxFaults, faults' >= faults,
         reading' \in [seq : Seqs \cup {0}, pulled : BOOLEAN], reading'.pulled => reading'.seq # 0,
         retrying' \subseteq Seqs, phase' \in {"open", "done", "closed"}
  PROVE  WorkerInv'
<1>1. Told'
  BY OthersStep
<1>2. WorkerTypeOK'
  BY DEF WorkerInv, WorkerTypeOK, RowInv, Watching
<1>3. StepsFit'
  <2>2. epoch' <= faults' + 1
    BY EpochFollows
  <2>3. \A t \in Targets : StepFits(t)'
    BY DEF WorkerInv, StepsFit, StepFits
  <2> QED BY <2>2, <2>3 DEF StepsFit
<1> QED BY <1>1, <1>2, <1>3 DEF WorkerInv

LEMMA ChainsStay ==
  ASSUME WorkerInv, MessagesKept, UNCHANGED <<chain, worker>>
  PROVE  chain' \in [Targets -> Seq(Seqs)] /\ ChainsFit' /\ \A t \in Targets : HeadKept(t)
BY SameChainsFit DEF WorkerInv

LEMMA ClientStep ==
  ASSUME WorkerInv, RowInv', MessagesKept,
         \/ \E type \in Mail : ChildReports(type)
         \/ \E supersede \in BOOLEAN : ParentReplies(supersede)
         \/ \E s \in Seqs : ParentCancels(s) \/ CheckClaims(s)
         \/ \E s \in Seqs, c \in Targets : ReaderClaims(s, c) \/ ReaderAcknowledges(s, c)
         \/ CheckPulls \/ CheckAcknowledges \/ CloseDispatch
  PROVE  WorkerInv'
<1>0. /\ accepted \subseteq Seqs /\ verifier \in [Seqs -> {"off", "due"} \cup Watching] /\ swept \in BOOLEAN
      /\ faults \in 0..MaxFaults /\ faults >= faults
      /\ reading \in [seq : Seqs \cup {0}, pulled : BOOLEAN] /\ (reading.pulled => reading.seq # 0)
      /\ retrying \subseteq Seqs /\ phase \in {"open", "done", "closed"}
  BY DEF WorkerInv, WorkerTypeOK, StepsFit, Watching
<1> USE DEF history, clientVars, ownerVars
<1>1. ASSUME NEW type \in Mail, ChildReports(type)
      PROVE  WorkerInv'
  <2>1. \A s \in Seqs : Moves(s)
    BY <1>1, ChildMailMoves DEF ChildReports, WorkerInv
  <2>2. chain' \in [Targets -> Seq(Seqs)] /\ ChainsFit' /\ \A t \in Targets : HeadKept(t)
    <3>1. top + 1 \in Seqs
      BY <1>1, MailboxAssumption
         DEF ChildReports, AppendChildMail, MailboxAssumption, WorkerInv, RowInv, TypeOK, Seqs
    <3> QED BY <1>1, <3>1, SubscribeFits DEF ChildReports, WorkerInv
  <2> QED BY <1>0, <1>1, <2>1, <2>2, BystanderStep DEF ChildReports
<1>2. ASSUME NEW supersede \in BOOLEAN, ParentReplies(supersede)
      PROVE  WorkerInv'
  <2>1. \A s \in Seqs : Moves(s)
    BY <1>2, ReplyMoves DEF ParentReplies, WorkerInv
  <2>2. chain' \in [Targets -> Seq(Seqs)] /\ ChainsFit' /\ \A t \in Targets : HeadKept(t)
    <3>1. top' \in Seqs
      <4>1. top' \in 0..MaxSeq /\ top \in 0..MaxSeq
        BY DEF WorkerInv, RowInv, TypeOK
      <4>2. top' = top + 1 \/ top' = top + 2
        BY <1>2 DEF ParentReplies, AppendParentReply
      <4> QED BY <4>1, <4>2, MailboxAssumption DEF MailboxAssumption, Seqs
    <3> QED BY <1>2, <3>1, SubscribeFits DEF ParentReplies, WorkerInv
  <2> QED BY <1>0, <1>2, <2>1, <2>2, BystanderStep DEF ParentReplies
<1>3. ASSUME NEW s \in Seqs, ParentCancels(s)
      PROVE  WorkerInv'
  <2>1. \A q \in Seqs : Moves(q)
    BY <1>3, CancelMoves DEF ParentCancels, WorkerInv
  <2> QED BY <1>0, <1>3, <2>1, ChainsStay, BystanderStep DEF ParentCancels
<1>4. ASSUME NEW s \in Seqs, CheckClaims(s)
      PROVE  WorkerInv'
  <2>1. \A q \in Seqs : Moves(q)
    BY <1>4, ReaderMoves, StillMoves DEF CheckClaims, WorkerInv, mailVars
  <2> QED BY <1>0, <1>4, <2>1, ChainsStay, BystanderStep DEF CheckClaims
<1>5. ASSUME NEW s \in Seqs, NEW c \in Targets, ReaderClaims(s, c) \/ ReaderAcknowledges(s, c)
      PROVE  WorkerInv'
  <2>1. \A q \in Seqs : Moves(q)
    BY <1>5, ReaderMoves DEF ReaderClaims, ReaderAcknowledges, WorkerInv
  <2> QED BY <1>0, <1>5, <2>1, ChainsStay, BystanderStep DEF ReaderClaims, ReaderAcknowledges
<1>6. CASE CheckPulls
  <2>1. reading.seq \in Seqs
    BY <1>0, <1>6 DEF CheckPulls
  <2>2. \A q \in Seqs : Moves(q)
    BY <1>6, <2>1, TransportMoves DEF CheckPulls, WorkerInv
  <2>3. reading' \in [seq : Seqs \cup {0}, pulled : BOOLEAN] /\ reading'.seq # 0
    BY <1>0, <1>6 DEF CheckPulls
  <2> QED BY <1>0, <1>6, <2>2, <2>3, ChainsStay, BystanderStep DEF CheckPulls
<1>7. CASE CheckAcknowledges
  <2>1. reading.seq \in Seqs
    BY <1>0, <1>7 DEF CheckAcknowledges
  <2>2. \A q \in Seqs : Moves(q)
    BY <1>7, <2>1, ReaderMoves, StillMoves DEF CheckAcknowledges, WorkerInv, mailVars
  <2>3. reading' \in [seq : Seqs \cup {0}, pulled : BOOLEAN] /\ ~reading'.pulled
    BY <1>7 DEF CheckAcknowledges, NotReading
  <2> QED BY <1>0, <1>7, <2>2, <2>3, ChainsStay, BystanderStep DEF CheckAcknowledges
<1>8. CASE CloseDispatch
  <2>1. \A q \in Seqs : Moves(q)
    BY <1>8, StillMoves DEF CloseDispatch, mailVars
  <2> QED BY <1>0, <1>8, <2>1, ChainsStay, BystanderStep DEF CloseDispatch
<1> QED BY <1>1, <1>2, <1>3, <1>4, <1>5, <1>6, <1>7, <1>8

LEMMA VerifierBystands ==
  ASSUME WorkerInv, RowInv', MessagesKept, NEW s \in Seqs, VerifierStep(s), again' = again
  PROVE  WorkerInv'
<1>0. /\ accepted \subseteq Seqs /\ verifier \in [Seqs -> {"off", "due"} \cup Watching] /\ swept \in BOOLEAN
      /\ faults \in 0..MaxFaults /\ faults >= faults
      /\ reading \in [seq : Seqs \cup {0}, pulled : BOOLEAN] /\ (reading.pulled => reading.seq # 0)
      /\ retrying \subseteq Seqs /\ phase \in {"open", "done", "closed"}
  BY DEF WorkerInv, WorkerTypeOK, StepsFit, Watching
<1>1. ASSUME \A q \in Seqs : Moves(q), VerifierOnly, chain' = chain,
             NEW w \in {"off", "due"} \cup Watching, verifier' = [verifier EXCEPT ![s] = w],
             w \in Watching => pushed[s] > 0
      PROVE  WorkerInv'
  <2>1. /\ verifier' \in [Seqs -> {"off", "due"} \cup Watching]
        /\ \A q \in Seqs : verifier'[q] \in Watching => verifier[q] \in Watching \/ pushed[q] > 0
    BY <1>0, <1>1
  <2> QED BY <1>0, <1>1, <2>1, ChainsStay, BystanderStep DEF VerifierOnly, clientVars
<1>2. verifier[s] \in Watching => pushed[s] > 0
  BY DEF WorkerInv, Told, VerifiedWasPushed, VerifiedAt, Watching
<1>3. CASE VerifierStarts(s)
  <2>1. \A q \in Seqs : Moves(q)
    BY <1>3, SettledMoves DEF VerifierStarts, WorkerInv
  <2>2. outbox'[s].peer = "pending" => pushed[s] > 0
    <3>1. outbox'[s].peer = "pending" => outbox[s].peer = "pending"
      BY <2>1 DEF Moves, RowStays, RowGoes, PeerSettled
    <3> QED BY <3>1 DEF WorkerInv, Told, VerifiedWasPushed, VerifiedAt
  <2> DEFINE w == IF outbox'[s].peer = "pending" /\ CarriesSequence(s) THEN "watch" ELSE "off"
  <2>3. verifier' = [verifier EXCEPT ![s] = w] /\ VerifierOnly /\ chain' = chain
    BY <1>3 DEF VerifierStarts
  <2>4. w \in {"off", "due"} \cup Watching /\ (w \in Watching => pushed[s] > 0)
    BY <2>2 DEF Watching
  <2> HIDE DEF w
  <2> QED BY <1>1, <2>1, <2>3, <2>4
<1>4. CASE VerifierSees(s)
  <2>1. \A q \in Seqs : Moves(q)
    BY <1>4, ReaderMoves, StillMoves DEF VerifierSees, WorkerInv, mailVars
  <2> QED BY <1>1, <1>2, <1>4, <2>1 DEF VerifierSees, Watching
<1>5. CASE VerifierSettles(s)
  <2>1. \A q \in Seqs : Moves(q)
    BY <1>5, PusherMoves, StillMoves DEF VerifierSettles, WorkerInv, mailVars, PeerSettled
  <2> QED BY <1>1, <1>2, <1>5, <2>1 DEF VerifierSettles, Watching
<1>6. CASE VerifierRecords(s)
  <2>1. pushed[s] > 0
    BY <1>2, <1>6 DEF VerifierRecords, Watching
  <2>2. \A q \in Seqs : Moves(q)
    BY <1>6, <2>1, TransportMoves DEF VerifierRecords, WorkerInv
  <2> QED BY <1>1, <1>6, <2>2 DEF VerifierRecords, Watching
<1>7. CASE VerifierGivesUp(s)
  <2>1. \A q \in Seqs : Moves(q)
    BY <1>7, StillMoves DEF VerifierGivesUp, mailVars
  <2> QED BY <1>1, <1>2, <1>7, <2>1 DEF VerifierGivesUp, Watching
<1>8. CASE VerifierFallsBack(s)
  <2>1. UNCHANGED <<mailVars, chain>>
    <3>1. ASSUME again' = [again EXCEPT ![s] = @ + 1] PROVE FALSE
      <4>1. again[s] \in Nat /\ again'[s] = again[s] + 1
        BY <3>1 DEF WorkerInv, WorkerTypeOK
      <4> QED BY <4>1
    <3> QED BY <1>8, <3>1 DEF VerifierFallsBack
  <2>2. \A q \in Seqs : Moves(q)
    BY <2>1, StillMoves DEF mailVars
  <2> QED BY <1>1, <1>8, <2>1, <2>2 DEF VerifierFallsBack, Watching
<1> QED BY <1>3, <1>4, <1>5, <1>6, <1>7, <1>8 DEF VerifierStep

LEMMA OwnerBystands ==
  ASSUME WorkerInv, RowInv', MessagesKept,
         \/ \E s \in Seqs :
              \/ SupervisorResumesVerification(s) \/ SupervisorFinds(s)
              \/ SupervisorRetries(s) \/ SupervisorResumes(s)
              \/ LeaseRuns(s) \/ Forget(s)
         \/ Sweep
  PROVE  WorkerInv'
<1>0. /\ accepted \subseteq Seqs /\ verifier \in [Seqs -> {"off", "due"} \cup Watching] /\ swept \in BOOLEAN
      /\ faults \in 0..MaxFaults /\ faults >= faults
      /\ reading \in [seq : Seqs \cup {0}, pulled : BOOLEAN] /\ (reading.pulled => reading.seq # 0)
      /\ retrying \subseteq Seqs /\ phase \in {"open", "done", "closed"}
  BY DEF WorkerInv, WorkerTypeOK, StepsFit, Watching
<1> USE DEF history, clientVars, ownerVars
<1>1. ASSUME NEW s \in Seqs, SupervisorResumesVerification(s)
      PROVE  WorkerInv'
  <2>1. \A q \in Seqs : Moves(q)
    BY <1>1, StillMoves DEF SupervisorResumesVerification, mailVars
  <2>2. /\ verifier' \in [Seqs -> {"off", "due"} \cup Watching]
        /\ \A q \in Seqs : verifier'[q] \in Watching => verifier[q] \in Watching
    BY <1>0, <1>1 DEF SupervisorResumesVerification, Watching
  <2> QED BY <1>0, <1>1, <2>1, <2>2, ChainsStay, BystanderStep DEF SupervisorResumesVerification
<1>2. ASSUME NEW s \in Seqs, SupervisorFinds(s)
      PROVE  WorkerInv'
  <2>1. \A q \in Seqs : Moves(q)
    BY <1>2, StillMoves DEF SupervisorFinds, mailVars
  <2>2. retrying' \subseteq Seqs
    BY <1>0, <1>2 DEF SupervisorFinds
  <2> QED BY <1>0, <1>2, <2>1, <2>2, ChainsStay, BystanderStep DEF SupervisorFinds
<1>3. ASSUME NEW s \in Seqs, SupervisorRetries(s)
      PROVE  WorkerInv'
  <2>1. \A q \in Seqs : Moves(q)
    BY <1>3, PusherMoves, StillMoves DEF SupervisorRetries, WorkerInv, mailVars, PeerSettled
  <2>2. chain' \in [Targets -> Seq(Seqs)] /\ ChainsFit' /\ \A t \in Targets : HeadKept(t)
    BY <1>3, SubscribeFits, ChainsStay DEF SupervisorRetries, WorkerInv
  <2>3. retrying' \subseteq Seqs
    BY <1>0, <1>3 DEF SupervisorRetries
  <2> QED BY <1>0, <1>3, <2>1, <2>2, <2>3, BystanderStep DEF SupervisorRetries
<1>4. ASSUME NEW s \in Seqs, SupervisorResumes(s)
      PROVE  WorkerInv'
  <2>1. \A q \in Seqs : Moves(q)
    BY <1>4, StillMoves DEF SupervisorResumes, mailVars
  <2>2. chain' \in [Targets -> Seq(Seqs)] /\ ChainsFit' /\ \A t \in Targets : HeadKept(t)
    BY <1>4, SubscribeFits DEF SupervisorResumes, WorkerInv
  <2> QED BY <1>0, <1>4, <2>1, <2>2, BystanderStep DEF SupervisorResumes
<1>5. ASSUME NEW s \in Seqs, LeaseRuns(s)
      PROVE  WorkerInv'
  <2>1. \A q \in Seqs : Moves(q)
    BY <1>5, PusherMoves DEF LeaseRuns, WorkerInv, PeerSettled
  <2>2. faults' \in 0..MaxFaults /\ faults' >= faults
    BY <1>0, <1>5, WorkerAssumption DEF LeaseRuns, Fault, WorkerAssumption
  <2> QED BY <1>0, <1>5, <2>1, <2>2, ChainsStay, BystanderStep DEF LeaseRuns
<1>6. ASSUME NEW s \in Seqs, Forget(s)
      PROVE  WorkerInv'
  <2>1. \A q \in Seqs : Moves(q)
    BY <1>6, StillMoves DEF Forget, mailVars
  <2>2. accepted' \subseteq Seqs
    BY <1>0, <1>6 DEF Forget
  <2> QED BY <1>0, <1>6, <2>1, <2>2, ChainsStay, BystanderStep DEF Forget
<1>7. CASE Sweep
  <2>1. \A q \in Seqs : Moves(q)
    BY <1>7, StillMoves DEF Sweep, mailVars
  <2>2. chain' \in [Targets -> Seq(Seqs)] /\ ChainsFit' /\ \A t \in Targets : HeadKept(t)
    BY <1>7, SubscribeAllFits DEF Sweep, WorkerInv
  <2> QED BY <1>0, <1>7, <2>1, <2>2, BystanderStep DEF Sweep
<1> QED BY <1>1, <1>2, <1>3, <1>4, <1>5, <1>6, <1>7

(* The worker of t goes on to w, with the row it has leased.               *)
(* The worker of t goes on with its row, or a fault lets it.               *)
Goes(t, w) ==
  /\ worker' = [worker EXCEPT ![t] = w]
  /\ UNCHANGED <<chain, epoch, swept, clientVars>>
  /\ faults' \in 0..MaxFaults /\ faults' >= faults

LEMMA KeepGoes ==
  ASSUME WorkerInv, NEW t \in Targets, NEW w, Keep(t, w)
  PROVE  Goes(t, w)
<1>1. faults \in 0..MaxFaults /\ MaxFaults \in Nat
  BY WorkerAssumption DEF WorkerAssumption, WorkerInv, WorkerTypeOK
<1> QED BY <1>1 DEF Keep, Goes

LEMMA FaultGoes ==
  ASSUME WorkerInv, NEW kind, Fault(kind)
  PROVE  faults' \in 0..MaxFaults /\ faults' >= faults
<1>1. faults \in 0..MaxFaults /\ MaxFaults \in Nat
  BY WorkerAssumption DEF WorkerAssumption, WorkerInv, WorkerTypeOK
<1> QED BY <1>1 DEF Fault

LEMMA GoStep ==
  ASSUME WorkerInv, RowInv', MessagesKept, NEW t \in Targets, chain[t] # <<>>,
         NEW s \in Seqs, s = Row(t), NEW w \in WorkerType, Goes(t, w),
         w.left \subseteq Reach[t], w.step = "push" => w.channel \in w.left,
         "typed" \in w.left => w.tries < TypedTries, w.step = "mark" => w.channel \in Channels,
         accepted' \subseteq Seqs, verifier' \in [Seqs -> {"off", "due"} \cup Watching],
         pushed' \in [Seqs -> Nat], again' \in [Seqs -> Nat],
         \A q \in Seqs \ {s} : Moves(q) /\ pushed'[q] = pushed[q] /\ again'[q] = again[q],
         \A q \in Seqs : verifier'[q] \in Watching => verifier[q] \in Watching,
         w.step \in Sending => WorkedRow(s)' /\ Knows(t, s)',
         VerifiedAt(s)', CountedAt(s)', ReceivedAt(s)'
  PROVE  WorkerInv'
<1>0. /\ worker \in [Targets -> WorkerType] /\ worker' = [worker EXCEPT ![t] = w]
      /\ UNCHANGED <<chain, epoch, swept, reading, retrying, phase>>
      /\ faults' \in 0..MaxFaults /\ faults' >= faults
  BY DEF WorkerInv, WorkerTypeOK, Goes, clientVars
<1>1. worker'[t] = w /\ \A u \in Targets \ {t} : chain'[u] = chain[u] /\ worker'[u] = worker[u]
  BY <1>0
<1>2. chain' \in [Targets -> Seq(Seqs)] /\ ChainsFit'
  <2>1. \A u \in Targets : chain[u] = <<>> => worker'[u] = worker[u]
    BY <1>1
  <2> QED BY <1>0, <2>1, SameChainsFit DEF WorkerInv
<1>3. \A q \in Seqs \ {s} : ~Works(t, q)'
  BY <1>0 DEF Works, Row
<1>4. Works(t, s)' => WorkedRow(s)' /\ Knows(t, s)'
  BY <1>1 DEF Works
<1>5. Told'
  BY <1>0, <1>1, <1>3, <1>4, OwnStep
<1>6. WorkerTypeOK'
  <2>1. worker' \in [Targets -> WorkerType]
    BY <1>0
  <2> QED BY <1>0, <1>2, <2>1 DEF WorkerInv, WorkerTypeOK, RowInv, Watching
<1>7. StepsFit'
  <2>1. ASSUME NEW u \in Targets PROVE StepFits(u)'
    <3>1. CASE u = t
      BY <1>1, <3>1 DEF StepFits
    <3>2. CASE u # t
      BY <1>1, <3>2 DEF WorkerInv, StepsFit, StepFits
    <3> QED BY <3>1, <3>2
  <2>2. epoch' <= faults' + 1
    BY <1>0, EpochFollows
  <2> QED BY <1>0, <2>1, <2>2 DEF WorkerInv, StepsFit
<1> QED BY <1>2, <1>5, <1>6, <1>7 DEF WorkerInv

LEMMA KeepStep ==
  ASSUME WorkerInv, RowInv', MessagesKept, NEW t \in Targets, chain[t] # <<>>,
         NEW s \in Seqs, s = Row(t), NEW w \in WorkerType, Keep(t, w),
         w.left \subseteq Reach[t], w.step = "push" => w.channel \in w.left,
         "typed" \in w.left => w.tries < TypedTries, w.step = "mark" => w.channel \in Channels,
         accepted' \subseteq Seqs, verifier' \in [Seqs -> {"off", "due"} \cup Watching],
         pushed' \in [Seqs -> Nat], again' \in [Seqs -> Nat],
         \A q \in Seqs \ {s} : Moves(q) /\ pushed'[q] = pushed[q] /\ again'[q] = again[q],
         \A q \in Seqs : verifier'[q] \in Watching => verifier[q] \in Watching,
         w.step \in Sending => WorkedRow(s)' /\ Knows(t, s)',
         VerifiedAt(s)', CountedAt(s)', ReceivedAt(s)'
  PROVE  WorkerInv'
<1>1. Goes(t, w)
  BY KeepGoes
<1> QED BY <1>1, GoStep

(* The worker of t ends.                                                   *)
LEMMA EndStep ==
  ASSUME WorkerInv, RowInv', MessagesKept, NEW t \in Targets, chain[t] # <<>>,
         NEW s \in Seqs, s = Row(t), EndTask(t),
         faults' \in 0..MaxFaults, faults' >= faults,
         \A q \in Seqs \ {s} : Moves(q),
         VerifiedAt(s)', CountedAt(s)', ReceivedAt(s)'
  PROVE  WorkerInv'
<1>0. /\ worker \in [Targets -> WorkerType] /\ chain \in [Targets -> Seq(Seqs)]
      /\ worker' = [worker EXCEPT ![t] = Idle] /\ chain' = [chain EXCEPT ![t] = Tail(@)]
      /\ UNCHANGED <<accepted, verifier, epoch, swept, reading, retrying, phase, pushed, again>>
  BY DEF WorkerInv, WorkerTypeOK, EndTask, clientVars, history
<1>1. /\ worker'[t] = Idle
      /\ \A u \in Targets \ {t} : chain'[u] = chain[u] /\ worker'[u] = worker[u]
  BY <1>0
<1>2. chain' \in [Targets -> Seq(Seqs)] /\ ChainsFit'
  BY <1>0, TaskEnds DEF WorkerInv
<1>3. \A q \in Seqs : ~Works(t, q)'
  BY <1>1 DEF Works, Idle, Sending
<1>5. Told'
  BY <1>0, <1>1, <1>3, OwnStep
<1>6. WorkerTypeOK'
  <2>1. Idle \in WorkerType
    BY WorkerAssumption DEF WorkerAssumption, Idle, WorkerType
  <2>2. worker' \in [Targets -> WorkerType]
    BY <1>0, <2>1
  <2> QED BY <1>0, <1>2, <2>2 DEF WorkerInv, WorkerTypeOK, RowInv
<1>7. StepsFit'
  <2>1. ASSUME NEW u \in Targets PROVE StepFits(u)'
    <3>1. CASE u = t
      BY <1>1, <3>1 DEF StepFits, Idle
    <3>2. CASE u # t
      BY <1>1, <3>2 DEF WorkerInv, StepsFit, StepFits
    <3> QED BY <3>1, <3>2
  <2>2. epoch' <= faults' + 1
    BY <1>0, EpochFollows
  <2> QED BY <1>0, <2>1, <2>2 DEF WorkerInv, StepsFit
<1> QED BY <1>2, <1>5, <1>6, <1>7 DEF WorkerInv

(* What a worker that has leased the row s knows.                          *)
LEMMA AtWork ==
  ASSUME WorkerInv, NEW t \in Targets, NEW s \in Seqs, s = Row(t), chain[t] # <<>>,
         worker[t].step \in Sending
  PROVE  /\ worker[t] \in WorkerType /\ StepFits(t)
         /\ Works(t, s) /\ WorkedRow(s) /\ Knows(t, s)
BY DEF WorkerInv, Told, WorkerTypeOK, StepsFit, Works, RowsWorked, WorkerKnows

LEMMA SpentKept ==
  ASSUME NEW s \in Seqs, NEW t \in Targets, Moves(s), CountedAt(s),
         pushed'[s] = pushed[s], again'[s] = again[s],
         \A u \in Targets \ {t} : chain'[u] = chain[u] /\ worker'[u] = worker[u],
         Spare(t, s)' => Spare(t, s)
  PROVE  CountedAt(s)'
<1>1. outbox'[s].status \in {"none", "pending", "failed"}
        => outbox[s].status \in {"none", "pending", "failed"}
  BY DEF Moves, RowStays, RowGoes
<1>2. \A u \in Targets \ {t} : Spare(u, s)' => Spare(u, s)
  BY DEF Spare, Works, Row
<1>3. Unspent(s)' => Unspent(s)
  BY <1>1, <1>2 DEF Unspent
<1> QED BY <1>3 DEF CountedAt

(* The worker of t ends, or goes on with its row, and has not pushed it.   *)
LEMMA UnpushedEnd ==
  ASSUME WorkerInv, RowInv', MessagesKept, NEW t \in Targets, chain[t] # <<>>, EndTask(t),
         faults' \in 0..MaxFaults, faults' >= faults, UNCHANGED mailVars
  PROVE  WorkerInv'
<1> PICK s \in Seqs : s = Row(t)
    BY RowInChain DEF WorkerInv
<1>1. \A q \in Seqs : Moves(q)
  BY StillMoves DEF mailVars
<1>2. /\ worker \in [Targets -> WorkerType] /\ chain \in [Targets -> Seq(Seqs)]
      /\ worker' = [worker EXCEPT ![t] = Idle] /\ chain' = [chain EXCEPT ![t] = Tail(@)]
      /\ pushed' = pushed /\ again' = again /\ verifier' = verifier
  BY DEF WorkerInv, WorkerTypeOK, EndTask, history
<1>3. ~Spare(t, s)'
  BY <1>2 DEF Spare, Works, Idle, Sending
<1>4. VerifiedAt(s)' /\ ReceivedAt(s)'
  BY <1>1, <1>2, VerifiedKept, ReceivedKept
     DEF WorkerInv, Told, VerifiedWasPushed, SentMeansReceived, ReceivedAt
<1>5. CountedAt(s)'
  BY <1>1, <1>2, <1>3, SpentKept DEF WorkerInv, Told, PushesCounted
<1> QED BY <1>1, <1>4, <1>5, EndStep

LEMMA UnpushedGo ==
  ASSUME WorkerInv, RowInv', MessagesKept, NEW t \in Targets, chain[t] # <<>>,
         NEW s \in Seqs, s = Row(t), Works(t, s), NEW w \in WorkerType, Goes(t, w),
         w.left \subseteq Reach[t], w.step = "push" => w.channel \in w.left,
         "typed" \in w.left => w.tries < TypedTries, w.step = "mark" => w.channel \in Channels,
         UNCHANGED <<mailVars, accepted, verifier, pushed, again>>,
         Knows(t, s)', Spare(t, s)' => Spare(t, s)
  PROVE  WorkerInv'
<1>0. /\ worker' = [worker EXCEPT ![t] = w] /\ worker \in [Targets -> WorkerType]
      /\ UNCHANGED <<chain, epoch>>
      /\ accepted \subseteq Seqs /\ verifier \in [Seqs -> {"off", "due"} \cup Watching]
      /\ pushed \in [Seqs -> Nat] /\ again \in [Seqs -> Nat]
  BY DEF WorkerInv, WorkerTypeOK, Goes, Watching
<1>1. \A q \in Seqs : Moves(q)
  BY StillMoves DEF mailVars
<1>2. WorkedRow(s)'
  BY <1>0, <1>1, WorkedRowKept DEF WorkerInv, Told, RowsWorked
<1>4. VerifiedAt(s)' /\ ReceivedAt(s)'
  BY <1>0, <1>1, VerifiedKept, ReceivedKept
     DEF WorkerInv, Told, VerifiedWasPushed, SentMeansReceived, ReceivedAt
<1>5. CountedAt(s)'
  BY <1>0, <1>1, SpentKept DEF WorkerInv, Told, PushesCounted
<1> QED BY <1>0, <1>1, <1>2, <1>4, <1>5, GoStep

LEMMA UnpushedKeep ==
  ASSUME WorkerInv, RowInv', MessagesKept, NEW t \in Targets, chain[t] # <<>>,
         NEW s \in Seqs, s = Row(t), Works(t, s), NEW w \in WorkerType, Keep(t, w),
         w.left \subseteq Reach[t], w.step = "push" => w.channel \in w.left,
         "typed" \in w.left => w.tries < TypedTries, w.step = "mark" => w.channel \in Channels,
         UNCHANGED <<mailVars, accepted, verifier, pushed, again>>,
         Knows(t, s)', Spare(t, s)' => Spare(t, s)
  PROVE  WorkerInv'
<1>1. Goes(t, w)
  BY KeepGoes
<1> QED BY <1>1, UnpushedGo

(* The worker of t goes on with its row, which reached its session by a    *)
(* push that was reported as failed.                                       *)
LEMMA DoubtedGo ==
  ASSUME WorkerInv, RowInv', MessagesKept, NEW t \in Targets, chain[t] # <<>>,
         NEW s \in Seqs, s = Row(t), worker[t].step = "push", NEW w \in WorkerType, Goes(t, w),
         w.left \subseteq Reach[t], w.step = "push" => w.channel \in w.left,
         "typed" \in w.left => w.tries < TypedTries, w.step = "mark" => w.channel \in Channels,
         UNCHANGED <<mailVars, accepted, verifier>>,
         pushed' = [pushed EXCEPT ![s] = @ + 1], again' = [again EXCEPT ![s] = @ + 1],
         Knows(t, s)'
  PROVE  WorkerInv'
<1>0. /\ worker' = [worker EXCEPT ![t] = w] /\ worker \in [Targets -> WorkerType]
      /\ UNCHANGED <<chain, epoch>>
      /\ accepted \subseteq Seqs /\ verifier \in [Seqs -> {"off", "due"} \cup Watching]
      /\ pushed \in [Seqs -> Nat] /\ again \in [Seqs -> Nat]
  BY DEF WorkerInv, WorkerTypeOK, Goes, Watching
<1>1. \A q \in Seqs : Moves(q)
  BY StillMoves DEF mailVars
<1>2. Works(t, s) /\ WorkedRow(s)
  BY AtWork DEF Sending
<1>3. WorkedRow(s)'
  BY <1>0, <1>1, <1>2, WorkedRowKept DEF WorkerInv
<1>4. /\ pushed' \in [Seqs -> Nat] /\ again' \in [Seqs -> Nat]
      /\ pushed'[s] = pushed[s] + 1 /\ again'[s] = again[s] + 1 /\ pushed'[s] > 0
      /\ \A q \in Seqs \ {s} : pushed'[q] = pushed[q] /\ again'[q] = again[q]
  BY <1>0
<1>5. VerifiedAt(s)' /\ ReceivedAt(s)'
  BY <1>4 DEF VerifiedAt, ReceivedAt
<1>6. CountedAt(s)'
  <2>1. Unspent(s)
    BY <1>2 DEF Unspent, Spare
  <2>2. pushed[s] <= again[s]
    BY <2>1 DEF WorkerInv, Told, PushesCounted, CountedAt
  <2>3. pushed'[s] <= again'[s] /\ pushed'[s] <= 1 + again'[s]
    BY <1>0, <1>4, <2>2
  <2> QED BY <2>3 DEF CountedAt
<1> QED BY <1>0, <1>1, <1>3, <1>4, <1>5, <1>6, GoStep

LEMMA EndingStep ==
  ASSUME WorkerInv, RowInv', MessagesKept, NEW t \in Targets,
         ClaimRefused(t) \/ OwnerCallFails(t) \/ LateCallFails(t) \/ LeaseLost(t)
  PROVE  WorkerInv'
<1>1. chain[t] # <<>> /\ EndTask(t) /\ UNCHANGED mailVars
  BY DEF ClaimRefused, OwnerCallFails, LateCallFails, LeaseLost, At
<1>2. faults' \in 0..MaxFaults /\ faults' >= faults
  <2>1. faults \in 0..MaxFaults /\ MaxFaults \in Nat
    BY WorkerAssumption DEF WorkerAssumption, WorkerInv, WorkerTypeOK
  <2> QED BY <2>1 DEF ClaimRefused, OwnerCallFails, LateCallFails, LeaseLost, Fault
<1> QED BY <1>1, <1>2, UnpushedEnd

LEMMA SettleStep ==
  ASSUME WorkerInv, RowInv', MessagesKept, NEW t \in Targets, SettleBacklog(t)
  PROVE  WorkerInv'
<1> DEFINE w == [Idle EXCEPT !.step = "claim"]
<1>0. /\ chain[t] # <<>> /\ Keep(t, w) /\ worker[t].step = "idle"
      /\ UNCHANGED <<accepted, verifier, pushed, again>>
  BY DEF SettleBacklog, At, history
<1> PICK s \in Seqs : s = Row(t)
    BY <1>0, RowInChain DEF WorkerInv
<1>1. \A q \in Seqs : Moves(q)
  BY SettledMoves DEF SettleBacklog, WorkerInv
<1>2. /\ w \in WorkerType /\ w.step = "claim" /\ w.left = {}
  <2>1. Idle \in WorkerType /\ Idle.left = {}
    BY WorkerAssumption DEF WorkerAssumption, WorkerType, Idle
  <2> QED BY <2>1 DEF WorkerType
<1>3. /\ worker' = [worker EXCEPT ![t] = w] /\ worker \in [Targets -> WorkerType]
      /\ chain' = chain
      /\ accepted \subseteq Seqs /\ verifier \in [Seqs -> {"off", "due"} \cup Watching]
      /\ pushed \in [Seqs -> Nat] /\ again \in [Seqs -> Nat]
  BY <1>0 DEF WorkerInv, WorkerTypeOK, Keep, Watching
<1> HIDE DEF w
<1>4. VerifiedAt(s)' /\ ReceivedAt(s)'
  BY <1>0, <1>1, VerifiedKept, ReceivedKept
     DEF WorkerInv, Told, VerifiedWasPushed, SentMeansReceived, ReceivedAt
<1>5. CountedAt(s)'
  <2>1. ~Spare(t, s)'
    BY <1>2, <1>3 DEF Spare, Works, Sending
  <2> QED BY <1>0, <1>1, <1>3, <2>1, SpentKept DEF WorkerInv, Told, PushesCounted
<1>6. w.step \notin Sending
  BY <1>2 DEF Sending
<1> QED BY <1>0, <1>1, <1>2, <1>3, <1>4, <1>5, <1>6, KeepStep

(* The first usable channel, when there is one, is usable.                 *)
LEMMA FirstIsUsable ==
  ASSUME NEW t \in Targets, \E c \in Channels : Usable(t, c)
  PROVE  First(t) \in Channels /\ Usable(t, First(t))
<1> DEFINE Best(ch) == /\ Usable(t, ch)
                       /\ ch = "queue" => ~Usable(t, "socket")
                       /\ ch = "typed" => ~Usable(t, "socket") /\ ~Usable(t, "queue")
<1>1. \E ch \in Channels : Best(ch)
  BY DEF Channels
<1>2. First(t) = CHOOSE ch \in Channels : Best(ch)
  BY DEF First
<1>3. First(t) \in Channels /\ Best(First(t))
  <2> HIDE DEF Best
  <2> QED BY <1>1, <1>2
<1> QED BY <1>3

LEMMA PassingStep ==
  ASSUME WorkerInv, RowInv', MessagesKept, NEW t \in Targets,
         AlreadySent(t) \/ NoChannel(t)
  PROVE  WorkerInv'
<1> DEFINE w == [worker[t] EXCEPT !.step = "record", !.channel = "none"]
<1>0. chain[t] # <<>> /\ worker[t].step = "send" /\ Keep(t, w)
      /\ UNCHANGED <<mailVars, accepted, verifier, pushed, again>>
  BY DEF AlreadySent, NoChannel, At, history
<1> PICK s \in Seqs : s = Row(t)
    BY <1>0, RowInChain DEF WorkerInv
<1>1. worker[t] \in WorkerType /\ StepFits(t) /\ Works(t, s) /\ Knows(t, s)
  BY <1>0, AtWork DEF Sending
<1>2. /\ w \in WorkerType /\ w.step = "record" /\ w.channel = "none"
      /\ w.left = worker[t].left /\ w.tries = worker[t].tries /\ w.readAtClaim = worker[t].readAtClaim
  BY <1>1 DEF WorkerType
<1>3. worker'[t] = w
  BY <1>0 DEF Keep, WorkerInv, WorkerTypeOK
<1> HIDE DEF w
<1>4. Knows(t, s)'
  <2>1. delivery' = delivery
    BY <1>0 DEF mailVars
  <2> QED BY <1>1, <1>2, <1>3, <2>1 DEF Knows, Channels
<1>5. Spare(t, s)
  BY <1>0, <1>1 DEF Spare
<1>6. w.left \subseteq Reach[t] /\ ("typed" \in w.left => w.tries < TypedTries)
  BY <1>1, <1>2 DEF StepFits
<1> QED BY <1>0, <1>1, <1>2, <1>4, <1>5, <1>6, UnpushedKeep

LEMMA ChooseStep ==
  ASSUME WorkerInv, RowInv', MessagesKept, NEW t \in Targets, ChooseChannel(t)
  PROVE  WorkerInv'
<1> DEFINE ch == First(t)
<1>0. /\ chain[t] # <<>> /\ worker[t].step = "send" /\ \E c \in Channels : Usable(t, c)
      /\ UNCHANGED <<mailVars, accepted, verifier, pushed, again>>
  BY DEF ChooseChannel, At, history
<1> PICK s \in Seqs : s = Row(t)
    BY <1>0, RowInChain DEF WorkerInv
<1>1. worker[t] \in WorkerType /\ StepFits(t) /\ Works(t, s) /\ WorkedRow(s) /\ Knows(t, s)
  BY <1>0, AtWork DEF Sending
<1>2. ch \in Channels /\ Usable(t, ch)
  BY <1>0, FirstIsUsable
<1>3. Spare(t, s)
  BY <1>0, <1>1 DEF Spare
<1>4. delivery' = delivery /\ message' = message
  BY <1>0 DEF mailVars
<1>5. CASE LooksFirst(ch) /\ ReadWasPulled(s)
  <2> DEFINE w == [worker[t] EXCEPT !.step = "record", !.channel = "checked"]
  <2>1. /\ w \in WorkerType /\ w.step = "record" /\ w.channel = "checked"
        /\ w.left = worker[t].left /\ w.tries = worker[t].tries /\ w.readAtClaim = worker[t].readAtClaim
    BY <1>1 DEF WorkerType
  <2>2. Keep(t, w)
    BY <1>5 DEF ChooseChannel
  <2>3. worker'[t] = w
    BY <2>2 DEF Keep, WorkerInv, WorkerTypeOK
  <2> HIDE DEF w
  <2>4. Knows(t, s)'
    <3>1. CarriesSequence(s)'
      BY <1>4, <1>5 DEF ReadWasPulled, CarriesSequence
    <3> QED BY <1>1, <1>4, <2>1, <2>3, <3>1 DEF Knows, Channels
  <2>5. w.left \subseteq Reach[t] /\ ("typed" \in w.left => w.tries < TypedTries)
    BY <1>1, <2>1 DEF StepFits
  <2> QED BY <1>0, <1>1, <1>3, <2>1, <2>2, <2>4, <2>5, UnpushedKeep
<1>6. CASE ~(LooksFirst(ch) /\ ReadWasPulled(s))
  <2> DEFINE w == [worker[t] EXCEPT !.step = "push", !.channel = ch]
  <2>1. /\ w \in WorkerType /\ w.step = "push" /\ w.channel = ch
        /\ w.left = worker[t].left /\ w.tries = worker[t].tries /\ w.readAtClaim = worker[t].readAtClaim
    <3> HIDE DEF ch
    <3> QED BY <1>1, <1>2 DEF WorkerType
  <2>2. Keep(t, w)
    BY <1>6 DEF ChooseChannel
  <2>3. worker'[t] = w
    BY <2>2 DEF Keep, WorkerInv, WorkerTypeOK
  <2>4. worker[t].readAtClaim => ch = "queue"
    <3>1. ASSUME worker[t].readAtClaim, ch # "queue" PROVE FALSE
      <4>1. LooksFirst(ch)
        BY <1>2, <3>1 DEF LooksFirst, Channels
      <4>2. CarriesSequence(s)
        BY <1>2, <3>1 DEF Usable
      <4>3. delivery[s].status = "acknowledged"
        BY <1>1, <3>1 DEF Knows
      <4> QED BY <1>6, <4>1, <4>2, <4>3 DEF ReadWasPulled
    <3> QED BY <3>1
  <2>5. ch \in worker[t].left
    BY <1>2 DEF Usable
  <2> HIDE DEF w, ch
  <2>6. Knows(t, s)'
    <3>1. w.channel # "checked"
      BY <1>2, <2>1 DEF Channels
    <3> QED BY <1>1, <1>4, <2>1, <2>3, <2>4, <3>1 DEF Knows
  <2>7. w.left \subseteq Reach[t] /\ ("typed" \in w.left => w.tries < TypedTries)
    BY <1>1, <2>1 DEF StepFits
  <2> QED BY <1>0, <1>1, <1>3, <2>1, <2>2, <2>5, <2>6, <2>7, UnpushedKeep
<1> QED BY <1>5, <1>6

(* A push that was reported as failed, whether or not it landed.           *)
LEMMA ReportedStep ==
  ASSUME WorkerInv, RowInv', MessagesKept, NEW t \in Targets, At(t, "push"),
         NEW w \in WorkerType, worker' = [worker EXCEPT ![t] = w], MayHaveLanded(t),
         w.step = "send" \/ (w.step = "record" /\ w.channel = "none"),
         w.channel \in Channels \cup {"none"}, w.readAtClaim = worker[t].readAtClaim,
         w.left \subseteq Reach[t], "typed" \in w.left => w.tries < TypedTries,
         UNCHANGED <<mailVars, chain, accepted, verifier, epoch, swept, clientVars>>
  PROVE  WorkerInv'
<1>0. chain[t] # <<>> /\ worker[t].step = "push"
  BY DEF At
<1> PICK s \in Seqs : s = Row(t)
    BY <1>0, RowInChain DEF WorkerInv
<1>1. Works(t, s) /\ Knows(t, s)
  BY <1>0, AtWork DEF Sending
<1>2. worker'[t] = w
  BY DEF WorkerInv, WorkerTypeOK
<1>3. Knows(t, s)'
  <2>1. delivery' = delivery
    BY DEF mailVars
  <2> QED BY <1>1, <1>2, <2>1 DEF Knows, Channels
<1>4. CASE UNCHANGED <<history, faults>>
  <2>1. Keep(t, w) /\ UNCHANGED <<pushed, again>>
    BY <1>4 DEF Keep, history
  <2>2. Spare(t, s)
    BY <1>0, <1>1 DEF Spare
  <2> QED BY <1>0, <1>1, <1>3, <2>1, <2>2, UnpushedKeep
<1>5. CASE Fault("doubt") /\ pushed' = [pushed EXCEPT ![s] = @ + 1]
                        /\ again' = [again EXCEPT ![s] = @ + 1]
  <2>1. Goes(t, w)
    BY <1>5, FaultGoes DEF Goes
  <2> QED BY <1>0, <1>3, <1>5, <2>1, DoubtedGo
<1> QED BY <1>4, <1>5 DEF MayHaveLanded

LEMMA StoppedStep ==
  ASSUME WorkerInv, RowInv', MessagesKept, NEW t \in Targets, PushStops(t)
  PROVE  WorkerInv'
<1> DEFINE o == worker[t]
           w == [o EXCEPT !.step = "record", !.channel = "none", !.tried = @ \cup {o.channel}]
<1>0. /\ At(t, "push") /\ chain[t] # <<>> /\ o.step = "push" /\ MayHaveLanded(t)
      /\ worker' = [worker EXCEPT ![t] = w]
      /\ UNCHANGED <<mailVars, chain, accepted, verifier, epoch, swept, clientVars>>
  BY DEF PushStops, At
<1>1. o \in WorkerType /\ StepFits(t)
  <2>1. Row(t) \in Seqs
    BY <1>0, RowInChain DEF WorkerInv
  <2> QED BY <1>0, <2>1, AtWork DEF Sending
<1>2. o.channel \in Channels
  BY <1>0, <1>1, WorkerAssumption DEF StepFits, WorkerAssumption
<1>3. /\ w \in WorkerType /\ w.step = "record" /\ w.channel = "none"
      /\ w.left = o.left /\ w.tries = o.tries /\ w.readAtClaim = o.readAtClaim
  BY <1>1, <1>2 DEF WorkerType
<1>4. w.left \subseteq Reach[t] /\ ("typed" \in w.left => w.tries < TypedTries)
  BY <1>1, <1>3 DEF StepFits
<1> HIDE DEF w
<1> QED BY <1>0, <1>3, <1>4, ReportedStep

LEMMA RefusedStep ==
  ASSUME WorkerInv, RowInv', MessagesKept, NEW t \in Targets, PushFails(t)
  PROVE  WorkerInv'
<1> DEFINE o == worker[t]
           w == [o EXCEPT !.step = "send", !.tried = @ \cup {o.channel},
                          !.tries = IF o.channel = "typed" THEN @ + 1 ELSE @,
                          !.left = IF Spent(o) THEN @ \ {o.channel} ELSE @]
<1>0. /\ At(t, "push") /\ chain[t] # <<>> /\ o.step = "push" /\ MayHaveLanded(t)
      /\ worker' = [worker EXCEPT ![t] = w]
      /\ UNCHANGED <<mailVars, chain, accepted, verifier, epoch, swept, clientVars>>
  BY DEF PushFails, At
<1>1. o \in WorkerType /\ StepFits(t)
  <2>1. Row(t) \in Seqs
    BY <1>0, RowInChain DEF WorkerInv
  <2> QED BY <1>0, <2>1, AtWork DEF Sending
<1>2. /\ o.channel \in Channels /\ o.channel \in o.left
      /\ o.left \subseteq Reach[t] /\ o.left \subseteq Channels
      /\ o.tries \in 0..TypedTries /\ ("typed" \in o.left => o.tries < TypedTries)
  BY <1>0, <1>1, WorkerAssumption DEF StepFits, WorkerType, WorkerAssumption
<1>3. TypedTries \in Nat
  BY WorkerAssumption DEF WorkerAssumption
<1>4. (IF o.channel = "typed" THEN o.tries + 1 ELSE o.tries) \in 0..TypedTries
  BY <1>2, <1>3
<1>5. /\ w.step = "send" /\ w.channel = o.channel /\ w.readAtClaim = o.readAtClaim
      /\ w.left = IF Spent(o) THEN o.left \ {o.channel} ELSE o.left
      /\ w.tries = IF o.channel = "typed" THEN o.tries + 1 ELSE o.tries
  BY <1>1 DEF WorkerType
<1>6. w \in WorkerType
  <2>1. o.tried \cup {o.channel} \in SUBSET Channels
    BY <1>1, <1>2 DEF WorkerType
  <2>2. (IF Spent(o) THEN o.left \ {o.channel} ELSE o.left) \in SUBSET Channels
    BY <1>2
  <2> HIDE DEF o
  <2> QED BY <1>1, <1>4, <2>1, <2>2 DEF WorkerType
<1>7. w.left \subseteq Reach[t] /\ ("typed" \in w.left => w.tries < TypedTries)
  <2>1. ASSUME "typed" \in w.left, o.channel = "typed" PROVE o.tries + 1 < TypedTries
    BY <1>2, <1>3, <1>5, <2>1 DEF Spent
  <2> HIDE DEF w
  <2> QED BY <1>2, <1>5, <2>1
<1> HIDE DEF w
<1> QED BY <1>0, <1>2, <1>5, <1>6, <1>7, ReportedStep

LEMMA PushStep ==
  ASSUME WorkerInv, RowInv', MessagesKept, NEW t \in Targets, PushLands(t)
  PROVE  WorkerInv'
<1> DEFINE o == worker[t]
           w == [o EXCEPT !.step = "mark", !.tried = @ \cup {o.channel}]
<1>0. /\ chain[t] # <<>> /\ o.step = "push" /\ Keep(t, w)
      /\ pushed' = [pushed EXCEPT ![Row(t)] = @ + 1] /\ accepted' = accepted \cup {Row(t)}
      /\ UNCHANGED <<mailVars, verifier, again>>
  BY DEF PushLands, At
<1> PICK s \in Seqs : s = Row(t)
    BY <1>0, RowInChain DEF WorkerInv
<1>1. o \in WorkerType /\ StepFits(t) /\ Works(t, s) /\ WorkedRow(s) /\ Knows(t, s)
  BY <1>0, AtWork DEF Sending
<1>2. /\ o.channel \in Channels /\ o.left \subseteq Reach[t]
      /\ ("typed" \in o.left => o.tries < TypedTries)
  BY <1>0, <1>1, WorkerAssumption DEF StepFits, WorkerType, WorkerAssumption
<1>3. /\ w \in WorkerType /\ w.step = "mark" /\ w.channel = o.channel /\ w.readAtClaim = o.readAtClaim
      /\ w.left = o.left /\ w.tries = o.tries
  <2>1. o.tried \cup {o.channel} \in SUBSET Channels
    BY <1>1, <1>2 DEF WorkerType
  <2> HIDE DEF o
  <2> QED BY <1>1, <2>1 DEF WorkerType
<1>4. worker'[t] = w
  BY <1>0 DEF Keep, WorkerInv, WorkerTypeOK
<1>5. /\ pushed \in [Seqs -> Nat] /\ again \in [Seqs -> Nat] /\ again' = again
      /\ verifier \in [Seqs -> {"off", "due"} \cup Watching] /\ accepted \subseteq Seqs
      /\ chain' = chain /\ epoch' = epoch
      /\ worker \in [Targets -> WorkerType] /\ worker' = [worker EXCEPT ![t] = w]
  BY <1>0 DEF WorkerInv, WorkerTypeOK, Watching, Keep
<1> HIDE DEF w
<1>6. /\ pushed' \in [Seqs -> Nat] /\ pushed'[s] = pushed[s] + 1 /\ pushed'[s] > 0
      /\ \A q \in Seqs \ {s} : pushed'[q] = pushed[q]
  BY <1>0, <1>5
<1>7. \A q \in Seqs : Moves(q)
  BY <1>0, StillMoves DEF mailVars
<1>8. WorkedRow(s)'
  BY <1>1, <1>5, <1>7, WorkedRowKept DEF WorkerInv
<1>9. Knows(t, s)'
  <2>1. delivery' = delivery /\ message' = message
    BY <1>0 DEF mailVars
  <2> QED BY <1>1, <1>2, <1>3, <1>4, <1>6, <2>1 DEF Knows, Channels
<1>10. VerifiedAt(s)' /\ ReceivedAt(s)'
  BY <1>6 DEF VerifiedAt, ReceivedAt
<1>11. CountedAt(s)'
  <2>1. Unspent(s)
    BY <1>0, <1>1 DEF Unspent, Spare
  <2>2. pushed[s] <= again[s]
    BY <2>1 DEF WorkerInv, Told, PushesCounted, CountedAt
  <2>3. pushed'[s] <= 1 + again'[s]
    <3>1. pushed[s] \in Nat /\ again[s] \in Nat
      BY <1>5
    <3>2. \A n \in Nat : n = pushed[s] + 1 => n <= 1 + again[s]
      BY <2>2, <3>1
    <3> QED BY <1>5, <1>6, <3>2
  <2>4. outbox'[s].status \notin {"none", "pending", "failed"}
    BY <1>8 DEF WorkedRow
  <2>5. ASSUME NEW u \in Targets PROVE ~Spare(u, s)'
    <3>1. CASE u = t
      BY <1>3, <1>4, <3>1 DEF Spare
    <3>2. CASE u # t
      <4>1. ~Works(u, s)
        BY <1>0, <3>2, OneWorker DEF Works, WorkerInv
      <4> QED BY <1>5, <3>2, <4>1 DEF Spare, Works, Row
    <3> QED BY <3>1, <3>2
  <2> QED BY <2>3, <2>4, <2>5 DEF CountedAt, Unspent
<1>12. accepted' \subseteq Seqs
  BY <1>0, <1>5
<1> QED BY <1>0, <1>2, <1>3, <1>5, <1>6, <1>7, <1>8, <1>9, <1>10, <1>11, <1>12, KeepStep

LEMMA LostStep ==
  ASSUME WorkerInv, RowInv', MessagesKept, NEW t \in Targets, chain[t] # <<>>,
         worker[t].step \in Sending, worker' = [worker EXCEPT ![t].lost = TRUE],
         UNCHANGED <<mailVars, chain, accepted, verifier, epoch, swept, clientVars, pushed, again>>,
         faults' \in 0..MaxFaults, faults' >= faults
  PROVE  WorkerInv'
<1> DEFINE w == [worker[t] EXCEPT !.lost = TRUE]
<1> PICK s \in Seqs : s = Row(t)
    BY RowInChain DEF WorkerInv
<1>1. worker[t] \in WorkerType /\ StepFits(t) /\ Works(t, s) /\ Knows(t, s)
  BY AtWork
<1>2. /\ w \in WorkerType /\ w.step = worker[t].step /\ w.channel = worker[t].channel
      /\ w.left = worker[t].left /\ w.tries = worker[t].tries /\ w.readAtClaim = worker[t].readAtClaim
  BY <1>1 DEF WorkerType
<1>3. worker' = [worker EXCEPT ![t] = w]
  OBVIOUS
<1>4. worker'[t] = w
  BY <1>3 DEF WorkerInv, WorkerTypeOK
<1> HIDE DEF w
<1>5. Goes(t, w)
  BY <1>3 DEF Goes
<1>6. Knows(t, s)'
  <2>1. delivery' = delivery /\ message' = message
    BY DEF mailVars
  <2> QED BY <1>1, <1>2, <1>4, <2>1 DEF Knows, ReadWasPulled, CarriesSequence
<1>7. Spare(t, s)' => Spare(t, s)
  BY <1>1, <1>2, <1>4 DEF Spare
<1>8. /\ w.left \subseteq Reach[t] /\ (w.step = "push" => w.channel \in w.left)
      /\ ("typed" \in w.left => w.tries < TypedTries) /\ (w.step = "mark" => w.channel \in Channels)
  BY <1>1, <1>2 DEF StepFits
<1> QED BY <1>1, <1>2, <1>5, <1>6, <1>7, <1>8, UnpushedGo

LEMMA HeartbeatStep ==
  ASSUME WorkerInv, RowInv', MessagesKept, NEW t \in Targets, Heartbeat(t)
  PROVE  WorkerInv'
<1>0. /\ chain[t] # <<>> /\ worker[t].step \in Sending
      /\ UNCHANGED <<chain, accepted, verifier, epoch, swept, reading, retrying, phase, pushed, again, faults>>
  <2>1. worker[t].step \in {"idle", "claim", "send", "push", "mark", "record", "finish"}
    BY DEF WorkerInv, WorkerTypeOK, WorkerType
  <2> QED BY <2>1 DEF Heartbeat, Sending, clientVars, history
<1> PICK s \in Seqs : s = Row(t)
    BY <1>0, RowInChain DEF WorkerInv
<1>1. worker[t] \in WorkerType /\ StepFits(t) /\ Works(t, s) /\ WorkedRow(s) /\ Knows(t, s)
  BY <1>0, AtWork
<1>2. CASE HeldBy(s, epoch) /\ outbox[s].lease > 0
  <2>1. RenewOutboxLease(s, epoch) /\ worker' = worker
    BY <1>2 DEF Heartbeat
  <2>2. \A q \in Seqs : Moves(q)
    BY <2>1, PusherMoves DEF WorkerInv, PeerSettled
  <2>3. /\ accepted \subseteq Seqs /\ verifier \in [Seqs -> {"off", "due"} \cup Watching] /\ swept \in BOOLEAN
        /\ faults \in 0..MaxFaults /\ faults >= faults
        /\ reading \in [seq : Seqs \cup {0}, pulled : BOOLEAN] /\ (reading.pulled => reading.seq # 0)
        /\ retrying \subseteq Seqs /\ phase \in {"open", "done", "closed"}
    BY DEF WorkerInv, WorkerTypeOK, StepsFit, Watching
  <2> QED BY <1>0, <2>1, <2>2, <2>3, ChainsStay, BystanderStep
<1>3. CASE ~(HeldBy(s, epoch) /\ outbox[s].lease > 0)
  <2>1. worker' = [worker EXCEPT ![t].lost = TRUE] /\ UNCHANGED mailVars
    BY <1>3 DEF Heartbeat
  <2>2. faults \in 0..MaxFaults /\ faults >= faults
    BY WorkerAssumption DEF WorkerAssumption, WorkerInv, WorkerTypeOK
  <2>3. UNCHANGED clientVars
    BY <1>0 DEF clientVars
  <2> QED BY <1>0, <2>1, <2>2, <2>3, LostStep
<1> QED BY <1>2, <1>3

LEMMA HeartbeatFailsStep ==
  ASSUME WorkerInv, RowInv', MessagesKept, NEW t \in Targets, HeartbeatFails(t)
  PROVE  WorkerInv'
<1>1. worker[t].step \in Sending
  <2>1. worker[t].step \in {"idle", "claim", "send", "push", "mark", "record", "finish"}
    BY DEF WorkerInv, WorkerTypeOK, WorkerType
  <2> QED BY <2>1 DEF HeartbeatFails, Sending
<1>2. faults' \in 0..MaxFaults /\ faults' >= faults
  BY FaultGoes DEF HeartbeatFails
<1> QED BY <1>1, <1>2, LostStep DEF HeartbeatFails, history

LEMMA ClaimStep ==
  ASSUME WorkerInv, RowInv', MessagesKept, NEW t \in Targets, Claim(t)
  PROVE  WorkerInv'
<1>0. chain[t] # <<>> /\ worker[t].step = "claim"
  BY DEF Claim, At
<1> PICK s \in Seqs : s = Row(t)
    BY <1>0, RowInChain DEF WorkerInv
<1> DEFINE w == [Idle EXCEPT !.step = "send", !.left = Reach[t],
                             !.fallback = (outbox[s].peer = "fallback-queued"),
                             !.readAtClaim = delivery[s].status = "acknowledged"]
<1>1. /\ ClaimOutbox(s, epoch) /\ Keep(t, w)
      /\ again' = [again EXCEPT ![s] = IF outbox[s].status = "sending" THEN @ + 1 ELSE @]
      /\ UNCHANGED <<accepted, verifier, pushed>>
  BY DEF Claim
<1>2. /\ w.step = "send" /\ w.left = Reach[t] /\ w.channel = "none" /\ w.tries = 0
      /\ w.readAtClaim = (delivery[s].status = "acknowledged")
  BY DEF Idle
<1>3. w \in WorkerType
  <2>1. Idle \in WorkerType /\ Reach[t] \in SUBSET Channels
    BY WorkerAssumption DEF WorkerAssumption, Idle, WorkerType
  <2> QED BY <2>1 DEF WorkerType
<1>4. /\ pushed \in [Seqs -> Nat] /\ again \in [Seqs -> Nat] /\ epoch \in Holders
      /\ verifier \in [Seqs -> {"off", "due"} \cup Watching] /\ accepted \subseteq Seqs
      /\ chain' = chain /\ epoch' = epoch
      /\ worker \in [Targets -> WorkerType] /\ worker' = [worker EXCEPT ![t] = w]
  BY <1>1, WorkerAssumption DEF WorkerInv, WorkerTypeOK, Watching, Keep, WorkerAssumption
<1>5. worker'[t] = w
  BY <1>4
<1> HIDE DEF w
<1>6. /\ outbox[s].status \in {"pending", "sending"}
      /\ outbox'[s].status = "sending" /\ outbox'[s].holder = epoch /\ outbox'[s].peer = outbox[s].peer
      /\ UNCHANGED <<message, delivery>>
      /\ \A q \in Seqs \ {s} : outbox'[q] = outbox[q]
  BY <1>1 DEF ClaimOutbox, Expired, WorkerInv, RowInv, TypeOK, RowType
<1>7. \A q \in Seqs \ {s} : Moves(q) /\ pushed'[q] = pushed[q] /\ again'[q] = again[q]
  BY <1>1, <1>4, <1>6, StillMoves
<1>8. WorkedRow(s)'
  <2>1. delivery[s].status # "cancelled"
    BY <1>6 DEF WorkerInv, RowInv, RowAt
  <2> QED BY <1>4, <1>6, <2>1 DEF WorkedRow
<1>9. Knows(t, s)'
  BY <1>2, <1>5, <1>6 DEF Knows
<1>10. VerifiedAt(s)' /\ ReceivedAt(s)'
  <2>1. VerifiedAt(s)
    BY DEF WorkerInv, Told, VerifiedWasPushed
  <2> QED BY <1>1, <1>6, <2>1 DEF VerifiedAt, ReceivedAt
<1>11. again' \in [Seqs -> Nat] /\ pushed'[s] <= again'[s] /\ again'[s] \in Nat
  <2>1. CountedAt(s) /\ pushed[s] \in Nat /\ again[s] \in Nat
    BY <1>4 DEF WorkerInv, Told, PushesCounted
  <2>2. CASE outbox[s].status = "sending"
    <3>1. again' = [again EXCEPT ![s] = @ + 1]
      BY <1>1, <2>2
    <3>2. again'[s] = again[s] + 1 /\ again' \in [Seqs -> Nat]
      BY <1>4, <3>1
    <3>3. pushed[s] <= again[s] + 1
      BY <2>1 DEF CountedAt
    <3> QED BY <1>1, <2>1, <3>2, <3>3
  <2>3. CASE outbox[s].status = "pending"
    <3>1. again' = again
      BY <1>1, <1>4, <2>3
    <3>2. pushed[s] <= again[s]
      BY <2>1, <2>3 DEF CountedAt, Unspent
    <3> QED BY <1>1, <1>4, <2>1, <3>1, <3>2
  <2> QED BY <1>6, <2>2, <2>3
<1>12. CountedAt(s)'
  <2>1. pushed'[s] \in Nat
    BY <1>1, <1>4
  <2>2. \A n \in Nat : pushed'[s] <= n => pushed'[s] <= 1 + n
    BY <2>1
  <2> QED BY <1>11, <2>2 DEF CountedAt
<1>13. w.left \subseteq Reach[t] /\ ("typed" \in w.left => w.tries < TypedTries)
  BY <1>2, WorkerAssumption DEF WorkerAssumption
<1> QED BY <1>0, <1>1, <1>2, <1>3, <1>4, <1>7, <1>8, <1>9, <1>10, <1>11, <1>12, <1>13, KeepStep

LEMMA MarkStep ==
  ASSUME WorkerInv, RowInv', MessagesKept, NEW t \in Targets, Mark(t)
  PROVE  WorkerInv'
<1>0. chain[t] # <<>> /\ worker[t].step = "mark"
  BY DEF Mark, At
<1> PICK s \in Seqs : s = Row(t)
    BY <1>0, RowInChain DEF WorkerInv
<1> DEFINE o == worker[t]
           w == [o EXCEPT !.step = "record"]
           saved == o.channel # "typed" /\ ~o.lost /\ HeldBy(s, epoch)
           settles == o.channel = "typed" /\ o.fallback /\ outbox[s].peer # "none"
<1>1. /\ IF saved THEN MarkPeerSent(s, epoch)
         ELSE IF settles THEN FinishPeerVerification(s, "fallback-delivered")
         ELSE UNCHANGED mailVars
      /\ verifier' = IF saved /\ verifier[s] = "off" THEN [verifier EXCEPT ![s] = "due"] ELSE verifier
      /\ Keep(t, w) /\ UNCHANGED <<accepted, pushed, again>>
  BY DEF Mark, history
<1>2. o \in WorkerType /\ StepFits(t) /\ Works(t, s) /\ WorkedRow(s) /\ Knows(t, s)
  BY <1>0, AtWork DEF Sending
<1>3. /\ w \in WorkerType /\ w.step = "record" /\ w.channel = o.channel /\ w.readAtClaim = o.readAtClaim
      /\ w.left = o.left /\ w.tries = o.tries
  BY <1>2 DEF WorkerType
<1>4. /\ pushed \in [Seqs -> Nat] /\ again \in [Seqs -> Nat]
      /\ verifier \in [Seqs -> {"off", "due"} \cup Watching] /\ accepted \subseteq Seqs
      /\ chain' = chain /\ epoch' = epoch
      /\ worker \in [Targets -> WorkerType] /\ worker' = [worker EXCEPT ![t] = w]
  BY <1>1 DEF WorkerInv, WorkerTypeOK, Watching, Keep
<1>5. worker'[t] = w
  BY <1>4
<1>6. o.channel \in Channels /\ pushed[s] > 0
  BY <1>0, <1>2 DEF StepFits, Knows
<1>7. /\ UNCHANGED <<message, delivery>>
      /\ outbox'[s].status = outbox[s].status /\ outbox'[s].holder = outbox[s].holder
      /\ outbox'[s].peer # outbox[s].peer => saved \/ outbox[s].peer # "none"
      /\ \A q \in Seqs \ {s} : outbox'[q] = outbox[q]
  <2>1. outbox[s] \in RowType /\ outbox \in [Seqs -> RowType]
    BY DEF WorkerInv, RowInv, TypeOK
  <2>2. CASE saved
    BY <1>1, <2>1, <2>2 DEF MarkPeerSent, RowType
  <2>3. CASE ~saved /\ settles
    BY <1>1, <2>1, <2>3 DEF FinishPeerVerification, RowType
  <2>4. CASE ~saved /\ ~settles
    BY <1>1, <2>4 DEF mailVars
  <2> QED BY <2>2, <2>3, <2>4
<1>8. \A q \in Seqs \ {s} : Moves(q) /\ pushed'[q] = pushed[q] /\ again'[q] = again[q]
  BY <1>1, <1>7, StillMoves
<1>9. WorkedRow(s)'
  <2>1. saved => outbox[s].status = "sending"
    BY DEF HeldBy
  <2> HIDE DEF saved
  <2> QED BY <1>2, <1>4, <1>7, <2>1 DEF WorkedRow, CarriesSequence
<1>10. verifier' \in [Seqs -> {"off", "due"} \cup Watching]
       /\ \A q \in Seqs : verifier'[q] \in Watching => verifier[q] \in Watching
  BY <1>1, <1>4 DEF Watching
<1> HIDE DEF w, saved, settles
<1>11. Knows(t, s)'
  BY <1>1, <1>2, <1>3, <1>5, <1>6, <1>7 DEF Knows, Channels
<1>12. VerifiedAt(s)'
  BY <1>1, <1>6 DEF VerifiedAt
<1>13. ReceivedAt(s)'
  BY <1>1, <1>6 DEF ReceivedAt
<1>14. CountedAt(s)'
  <2>1. CountedAt(s)
    BY DEF WorkerInv, Told, PushesCounted
  <2>2. ASSUME NEW u \in Targets, Spare(u, s)' PROVE Spare(u, s)
    <3>1. u # t
      BY <1>3, <1>5, <1>6, <2>2 DEF Spare, Channels
    <3> QED BY <1>4, <2>2, <3>1 DEF Spare, Works, Row
  <2>3. Unspent(s)' => Unspent(s)
    BY <1>7, <2>2 DEF Unspent
  <2> QED BY <1>1, <2>1, <2>3 DEF CountedAt
<1>15. w.left \subseteq Reach[t] /\ ("typed" \in w.left => w.tries < TypedTries)
  BY <1>2, <1>3 DEF StepFits
<1>16. /\ accepted' \subseteq Seqs /\ pushed' \in [Seqs -> Nat] /\ again' \in [Seqs -> Nat]
  BY <1>1, <1>4
<1>17. Keep(t, w)
  BY <1>1
<1> QED BY <1>0, <1>3, <1>8, <1>9, <1>10, <1>11, <1>12, <1>13, <1>14, <1>15, <1>16, <1>17, KeepStep

LEMMA RecordStep ==
  ASSUME WorkerInv, RowInv', MessagesKept, NEW t \in Targets, Record(t)
  PROVE  WorkerInv'
<1>0. chain[t] # <<>> /\ worker[t].step = "record"
  BY DEF Record, At
<1> PICK s \in Seqs : s = Row(t)
    BY <1>0, RowInChain DEF WorkerInv
<1> DEFINE o == worker[t]
           w == [o EXCEPT !.step = "finish"]
           transport == IF o.channel = "checked" THEN "checked" ELSE "tried"
<1>1. /\ IF CarriesSequence(s) THEN SetTransport(s, transport) ELSE UNCHANGED mailVars
      /\ Keep(t, w) /\ UNCHANGED <<accepted, verifier, pushed, again>>
  BY DEF Record, history
<1>2. o \in WorkerType /\ StepFits(t) /\ Works(t, s) /\ WorkedRow(s) /\ Knows(t, s)
  BY <1>0, AtWork DEF Sending
<1>3. /\ w \in WorkerType /\ w.step = "finish" /\ w.channel = o.channel /\ w.readAtClaim = o.readAtClaim
      /\ w.left = o.left /\ w.tries = o.tries
  BY <1>2 DEF WorkerType
<1>4. /\ pushed \in [Seqs -> Nat] /\ again \in [Seqs -> Nat]
      /\ verifier \in [Seqs -> {"off", "due"} \cup Watching] /\ accepted \subseteq Seqs
      /\ chain' = chain /\ epoch' = epoch
      /\ worker \in [Targets -> WorkerType] /\ worker' = [worker EXCEPT ![t] = w]
  BY <1>1 DEF WorkerInv, WorkerTypeOK, Watching, Keep
<1>5. worker'[t] = w
  BY <1>4
<1>6. /\ UNCHANGED <<message, outbox>>
      /\ delivery'[s].status = delivery[s].status
      /\ CarriesSequence(s) /\ o.channel = "checked" => delivery'[s].transport = "checked"
      /\ \A q \in Seqs \ {s} : delivery'[q] = delivery[q]
  <2>1. delivery \in [Seqs -> DeliveryType]
    BY DEF WorkerInv, RowInv, TypeOK
  <2>2. CASE CarriesSequence(s)
    BY <1>1, <2>1, <2>2 DEF SetTransport, DeliveryType
  <2>3. CASE ~CarriesSequence(s)
    BY <1>1, <2>3 DEF mailVars
  <2> QED BY <2>2, <2>3
<1> HIDE DEF w, transport
<1>8. \A q \in Seqs \ {s} : Moves(q) /\ pushed'[q] = pushed[q] /\ again'[q] = again[q]
  BY <1>1, <1>6, StillMoves
<1>9. WorkedRow(s)'
  BY <1>2, <1>4, <1>6 DEF WorkedRow, CarriesSequence
<1>11. Knows(t, s)'
  <2>1. o.channel = "checked" => ReadWasPulled(s)' /\ CarriesSequence(s)'
    BY <1>2, <1>6 DEF Knows, ReadWasPulled, CarriesSequence
  <2>2. o.channel \in Channels => pushed'[s] > 0
    BY <1>0, <1>1, <1>2 DEF Knows
  <2>3. o.readAtClaim => delivery'[s].status = "acknowledged"
    BY <1>2, <1>6 DEF Knows
  <2> QED BY <1>3, <1>5, <2>1, <2>2, <2>3 DEF Knows
<1>12. VerifiedAt(s)'
  BY <1>1, <1>6 DEF VerifiedAt, WorkerInv, Told, VerifiedWasPushed
<1>13. ReceivedAt(s)'
  BY <1>2, <1>6 DEF ReceivedAt, WorkedRow, ReadWasPulled, CarriesSequence
<1>14. CountedAt(s)'
  <2>1. CountedAt(s)
    BY DEF WorkerInv, Told, PushesCounted
  <2>2. ASSUME NEW u \in Targets, Spare(u, s)' PROVE Spare(u, s)
    <3>1. CASE u = t
      BY <1>0, <1>2, <1>3, <1>5, <2>2, <3>1 DEF Spare
    <3>2. CASE u # t
      BY <1>4, <2>2, <3>2 DEF Spare, Works, Row
    <3> QED BY <3>1, <3>2
  <2>3. Unspent(s)' => Unspent(s)
    BY <1>6, <2>2 DEF Unspent
  <2> QED BY <1>1, <2>1, <2>3 DEF CountedAt
<1>15. w.left \subseteq Reach[t] /\ ("typed" \in w.left => w.tries < TypedTries)
  BY <1>2, <1>3 DEF StepFits
<1>16. /\ accepted' \subseteq Seqs /\ pushed' \in [Seqs -> Nat] /\ again' \in [Seqs -> Nat]
       /\ verifier' \in [Seqs -> {"off", "due"} \cup Watching] /\ verifier' = verifier
  BY <1>1, <1>4
<1>17. Keep(t, w)
  BY <1>1
<1> QED BY <1>0, <1>3, <1>8, <1>9, <1>11, <1>12, <1>13, <1>14, <1>15, <1>16, <1>17, KeepStep

LEMMA FinishStep ==
  ASSUME WorkerInv, RowInv', MessagesKept, NEW t \in Targets, FinishRow(t)
  PROVE  WorkerInv'
<1>0. /\ chain[t] # <<>> /\ worker[t].step = "finish" /\ EndTask(t)
      /\ faults' \in 0..MaxFaults /\ faults' >= faults
  BY DEF FinishRow, At, WorkerInv, WorkerTypeOK
<1> PICK s \in Seqs : s = Row(t)
    BY <1>0, RowInChain DEF WorkerInv
<1> DEFINE o == worker[t]
           leased == HeldBy(s, epoch) /\ outbox[s].lease > 0
<1>1. CASE ~leased
  <2>1. UNCHANGED mailVars
    BY <1>1 DEF FinishRow
  <2> QED BY <1>0, <2>1, UnpushedEnd
<1>2. CASE leased
  <2>1. Finish(s, epoch, Verdict(o))
    BY <1>2 DEF FinishRow
  <2>2. o \in WorkerType /\ Works(t, s) /\ Knows(t, s)
    BY <1>0, AtWork DEF Sending
  <2>3. /\ outbox'[s].status = Verdict(o)
        /\ outbox'[s].peer = "pending" => outbox[s].peer = "pending"
        /\ UNCHANGED <<message, delivery>>
        /\ \A q \in Seqs \ {s} : outbox'[q] = outbox[q]
    BY <2>1 DEF Finish, Released, Closed, WorkerInv, RowInv, TypeOK
  <2>4. \A q \in Seqs \ {s} : Moves(q)
    BY <2>3, StillMoves
  <2>5. /\ pushed' = pushed /\ again' = again /\ verifier' = verifier
        /\ worker' = [worker EXCEPT ![t] = Idle] /\ worker \in [Targets -> WorkerType]
        /\ chain' = [chain EXCEPT ![t] = Tail(@)] /\ chain \in [Targets -> Seq(Seqs)]
    BY <1>0 DEF EndTask, history, WorkerInv, WorkerTypeOK
  <2>6. VerifiedAt(s)'
    BY <2>3, <2>5 DEF VerifiedAt, WorkerInv, Told, VerifiedWasPushed
  <2>7. ReceivedAt(s)'
    <3>1. o.channel \in Channels \/ o.channel = "checked" => pushed[s] > 0 \/ ReadWasPulled(s)
      BY <1>0, <2>2 DEF Knows
    <3>2. Verdict(o) = "sent" => o.channel \in Channels \/ o.channel = "checked"
      BY <2>2 DEF Verdict, WorkerType
    <3>3. ReadWasPulled(s)' <=> ReadWasPulled(s)
      BY <2>3 DEF ReadWasPulled, CarriesSequence
    <3> QED BY <2>3, <2>5, <3>1, <3>2, <3>3 DEF ReceivedAt
  <2>8. CountedAt(s)'
    <3>1. CountedAt(s)
      BY DEF WorkerInv, Told, PushesCounted
    <3>2. CASE o.channel = "none"
      <4>1. Unspent(s)
        BY <1>0, <2>2, <3>2 DEF Unspent, Spare
      <4> QED BY <2>5, <3>1, <4>1 DEF CountedAt
    <3>3. CASE o.channel # "none"
      <4>1. outbox'[s].status = "sent"
        BY <2>3, <3>3 DEF Verdict
      <4>2. ASSUME NEW u \in Targets, Spare(u, s)' PROVE Spare(u, s)
        <5>1. u # t
          BY <2>5, <4>2 DEF Spare, Idle
        <5> QED BY <2>5, <4>2, <5>1 DEF Spare, Works, Row
      <4>3. Unspent(s)' => Unspent(s)
        BY <4>1, <4>2 DEF Unspent
      <4> QED BY <2>5, <3>1, <4>3 DEF CountedAt
    <3> QED BY <3>2, <3>3
  <2> QED BY <1>0, <2>4, <2>6, <2>7, <2>8, EndStep
<1> QED BY <1>1, <1>2

(* A message that was not seen is queued again: no worker has its row.     *)
LEMMA FallbackStep ==
  ASSUME WorkerInv, RowInv', MessagesKept, NEW s \in Seqs, VerifierFallsBack(s)
  PROVE  WorkerInv'
<1>0. /\ verifier' = [verifier EXCEPT ![s] = "off"]
      /\ UNCHANGED <<worker, accepted, epoch, swept, reading, retrying, phase, pushed, faults>>
      /\ verifier \in [Seqs -> {"off", "due"} \cup Watching]
      /\ pushed \in [Seqs -> Nat] /\ again \in [Seqs -> Nat]
  BY DEF VerifierFallsBack, VerifierOnly, clientVars, WorkerInv, WorkerTypeOK, Watching
<1>1. CASE ~(outbox[s].status = "sent" /\ outbox[s].peer = "pending")
  <2>1. VerifierStep(s) /\ again' = again
    BY <1>1 DEF VerifierFallsBack, VerifierStep
  <2> QED BY <2>1, VerifierBystands
<1>2. CASE outbox[s].status = "sent" /\ outbox[s].peer = "pending"
  <2>1. RequeuePeerFallback(s) /\ Subscribe(s) /\ again' = [again EXCEPT ![s] = @ + 1]
    BY <1>2 DEF VerifierFallsBack
  <2>2. /\ UNCHANGED <<message, delivery>>
        /\ outbox'[s].status = "pending" /\ outbox'[s].peer = "fallback-queued"
        /\ \A q \in Seqs \ {s} : outbox'[q] = outbox[q]
    BY <2>1 DEF RequeuePeerFallback, Released, WorkerInv, RowInv, TypeOK
  <2>3. again' \in [Seqs -> Nat] /\ again'[s] = again[s] + 1
        /\ \A q \in Seqs \ {s} : Moves(q) /\ again'[q] = again[q]
    BY <1>0, <2>1, <2>2, StillMoves
  <2>4. chain' \in [Targets -> Seq(Seqs)] /\ ChainsFit' /\ \A t \in Targets : HeadKept(t)
    BY <1>0, <2>1, SubscribeFits DEF WorkerInv
  <2>5. ASSUME NEW t \in Targets, NEW q \in Seqs, Works(t, q)'
        PROVE  Works(t, q) /\ q # s
    <3>1. Works(t, q)
      BY <1>0, <2>4, <2>5, WorksKept DEF WorkerInv
    <3>2. WorkedRow(q)
      BY <3>1 DEF WorkerInv, Told, RowsWorked
    <3> QED BY <1>2, <3>1, <3>2 DEF WorkedRow
  <2>6. ASSUME NEW t \in Targets, NEW q \in Seqs, Works(t, q)'
        PROVE  WorkedRow(q)' /\ Knows(t, q)'
    <3>1. Works(t, q) /\ q \in Seqs \ {s}
      BY <2>5, <2>6
    <3>2. WorkedRow(q) /\ Knows(t, q)
      BY <3>1 DEF WorkerInv, Told, RowsWorked, WorkerKnows
    <3> QED BY <1>0, <2>3, <3>1, <3>2, WorkedRowKept, KnowsKept DEF WorkerInv
  <2>7. ASSUME NEW q \in Seqs \ {s} PROVE VerifiedAt(q)' /\ ReceivedAt(q)'
    BY <1>0, <2>3, VerifiedKept, ReceivedKept
       DEF WorkerInv, Told, VerifiedWasPushed, SentMeansReceived, ReceivedAt
  <2>8. ASSUME NEW q \in Seqs \ {s} PROVE CountedAt(q)'
    BY <1>0, <2>3, <2>5, CountedKept DEF WorkerInv, Told, PushesCounted
  <2>9. VerifiedAt(s)' /\ ReceivedAt(s)'
    BY <1>0, <2>2 DEF VerifiedAt, ReceivedAt
  <2>10. CountedAt(s)'
    <3>1. pushed[s] <= 1 + again[s] /\ pushed[s] \in Nat /\ again[s] \in Nat
      BY <1>0 DEF WorkerInv, Told, PushesCounted, CountedAt
    <3>2. \A n \in Nat : n = again[s] + 1 => pushed[s] <= n /\ pushed[s] <= 1 + n
      BY <3>1
    <3>3. again'[s] \in Nat
      BY <2>3
    <3> QED BY <1>0, <2>3, <3>2, <3>3 DEF CountedAt
  <2>11. Told'
    BY <2>6, <2>7, <2>8, <2>9, <2>10
       DEF Told, RowsWorked, WorkerKnows, VerifiedWasPushed, PushesCounted, SentMeansReceived, ReceivedAt
  <2>12. WorkerTypeOK'
    BY <1>0, <2>3, <2>4 DEF WorkerInv, WorkerTypeOK, RowInv, Watching
  <2>13. StepsFit'
    BY <1>0 DEF WorkerInv, StepsFit, StepFits
  <2> QED BY <2>4, <2>11, <2>12, <2>13 DEF WorkerInv
<1> QED BY <1>1, <1>2

LEMMA CrashStep ==
  ASSUME WorkerInv, RowInv', Crash
  PROVE  WorkerInv'
<1>0. /\ chain' = [t \in Targets |-> <<>>] /\ worker' = [t \in Targets |-> Idle]
      /\ accepted' = {} /\ verifier' = [s \in Seqs |-> "off"] /\ swept' = FALSE
      /\ epoch' = epoch + 1 /\ faults' = faults + 1 /\ faults < MaxFaults
      /\ UNCHANGED <<mailVars, message, delivery, outbox, pushed, again, reading, retrying, phase>>
  BY DEF Crash, Fault, mailVars, clientVars, history
<1>1. /\ faults \in Nat /\ epoch \in Nat /\ epoch >= 1 /\ epoch <= faults + 1 /\ MaxFaults \in Nat
  BY WorkerAssumption DEF WorkerAssumption, WorkerInv, WorkerTypeOK, Epochs, StepsFit
<1>2. faults + 1 \in 0..MaxFaults /\ epoch + 1 \in Epochs /\ epoch + 1 <= (faults + 1) + 1
  BY <1>0, <1>1 DEF Epochs
<1>3. ASSUME NEW t \in Targets, NEW s \in Seqs PROVE ~Works(t, s)'
  BY <1>0 DEF Works
<1>4. ASSUME NEW s \in Seqs PROVE VerifiedAt(s)' /\ ReceivedAt(s)' /\ CountedAt(s)'
  <2>1. VerifiedAt(s) /\ ReceivedAt(s) /\ CountedAt(s)
    BY DEF WorkerInv, Told, VerifiedWasPushed, SentMeansReceived, ReceivedAt, PushesCounted
  <2>2. VerifiedAt(s)'
    BY <1>0, <2>1 DEF VerifiedAt
  <2>3. ReceivedAt(s)'
    BY <1>0, <2>1 DEF ReceivedAt, ReadWasPulled, CarriesSequence
  <2>4. Unspent(s)' => Unspent(s)
    BY <1>0, <1>3 DEF Unspent, Spare
  <2>5. CountedAt(s)'
    BY <1>0, <2>1, <2>4 DEF CountedAt
  <2> QED BY <2>2, <2>3, <2>5
<1>5. Told'
  BY <1>3, <1>4
     DEF Told, RowsWorked, WorkerKnows, VerifiedWasPushed, PushesCounted, SentMeansReceived, ReceivedAt
<1>6. WorkerTypeOK'
  <2>1. Idle \in WorkerType
    BY WorkerAssumption DEF WorkerAssumption, Idle, WorkerType
  <2>2. worker' \in [Targets -> WorkerType] /\ chain' \in [Targets -> Seq(Seqs)]
    BY <1>0, <2>1
  <2> QED BY <1>0, <1>2, <2>2 DEF WorkerInv, WorkerTypeOK, RowInv
<1>7. StepsFit'
  <2>1. \A t \in Targets : StepFits(t)'
    BY <1>0 DEF StepFits, Idle
  <2> QED BY <1>0, <1>2, <2>1 DEF WorkerInv, StepsFit
<1>8. ChainsFit'
  <2>1. Len(<<>>) = 0 /\ 1..0 = {}
    OBVIOUS
  <2> QED BY <1>0, <2>1 DEF ChainsFit, ChainFits
<1> QED BY <1>5, <1>6, <1>7, <1>8 DEF WorkerInv

(* Every step of the worker's protocol keeps the invariant.                *)
LEMMA WorkerInvStep == WorkerInv /\ [WorkerNext]_vars => WorkerInv'
<1> SUFFICES ASSUME WorkerInv, [WorkerNext]_vars
             PROVE  WorkerInv'
    OBVIOUS
<1>0. RowInv' /\ MessagesKept
  BY MailKept
<1>1. CASE UNCHANGED vars
  BY <1>1
     DEF vars, mailVars, ownerVars, clientVars, history, WorkerInv, WorkerTypeOK, RowInv, TypeOK,
         RowAt, StepsFit, StepFits, ChainsFit, ChainFits, Row, Works, Told, RowsWorked, WorkedRow,
         WorkerKnows, Knows, VerifiedWasPushed, VerifiedAt, PushesCounted, CountedAt, Unspent, Spare,
         SentMeansReceived, ReadWasPulled, CarriesSequence
<1>2. ASSUME NEW t \in Targets,
             \/ WorkerStep(t) \/ OwnerCallFails(t) \/ LateCallFails(t)
             \/ Heartbeat(t) \/ HeartbeatFails(t)
      PROVE  WorkerInv'
  BY <1>0, <1>2, SettleStep, ClaimStep, EndingStep, PassingStep, ChooseStep, PushStep, RefusedStep,
     StoppedStep, MarkStep, RecordStep, FinishStep, HeartbeatStep, HeartbeatFailsStep
     DEF WorkerStep
<1>3. ASSUME NEW s \in Seqs, VerifierStep(s)
      PROVE  WorkerInv'
  <2>1. CASE VerifierFallsBack(s)
    BY <1>0, <2>1, FallbackStep
  <2>2. CASE ~VerifierFallsBack(s)
    <3>1. again' = again
      BY <1>3, <2>2
         DEF VerifierStep, VerifierStarts, VerifierSees, VerifierSettles, VerifierRecords, VerifierGivesUp
    <3> QED BY <1>0, <1>3, <3>1, VerifierBystands
  <2> QED BY <2>1, <2>2
<1>4. CASE Crash
  BY <1>0, <1>4, CrashStep
<1> QED BY <1>0, <1>1, <1>2, <1>3, <1>4, ClientStep, OwnerBystands DEF WorkerNext

LEMMA WorkerInvStarts == WorkerInit => WorkerInv
<1> SUFFICES ASSUME WorkerInit
             PROVE  WorkerInv
    OBVIOUS
<1> USE WorkerAssumption DEF WorkerAssumption, WorkerInit
<1>1. RowInv
  <2>1. TypeOK
    BY MailboxAssumption, NewRecords DEF MailboxAssumption, Init, TypeOK, NoMessage, MessageType, Seqs
  <2>2. ASSUME NEW s \in Seqs PROVE RowAt(s)
    BY DEF Init, RowAt, NoMessage, NoDelivery, NoRow, Recipient, Pushed, ChildMail, Actionable, Seqs
  <2> QED BY <2>1, <2>2 DEF RowInv
<1>2. WorkerTypeOK
  <2>1. Idle \in WorkerType /\ NotReading \in [seq : Seqs \cup {0}, pulled : BOOLEAN]
    BY DEF Idle, WorkerType, NotReading
  <2>2. 1 \in Epochs /\ 0 \in 0..MaxFaults
    BY DEF Epochs
  <2>3. <<>> \in Seq(Seqs)
    OBVIOUS
  <2> QED BY <1>1, <2>1, <2>2, <2>3 DEF RowInv, WorkerTypeOK
<1>3. StepsFit
  BY DEF StepsFit, StepFits, Idle, NotReading
<1>4. ChainsFit
  <2>1. Len(<<>>) = 0 /\ 1..0 = {}
    OBVIOUS
  <2> QED BY <2>1 DEF ChainsFit, ChainFits
<1>5. \A t \in Targets, s \in Seqs : ~Works(t, s)
  BY DEF Works
<1>6. Told
  BY <1>5
     DEF Told, RowsWorked, WorkerKnows, VerifiedWasPushed, VerifiedAt, PushesCounted, CountedAt,
         SentMeansReceived, Init, NoRow
<1> QED BY <1>1, <1>2, <1>3, <1>4, <1>6 DEF WorkerInv

----------------------------------------------------------------------------
(* What the worker promises.                                               *)

(* The worker, its clients, its verifications and its faults never leave   *)
(* the invariant that the mailbox, the chains and the workers share.       *)
THEOREM WorkerInvariant == WorkerSpec => []WorkerInv
BY WorkerInvStarts, WorkerInvStep, PTL DEF WorkerSpec

(* Every variable of the delivery worker keeps its type: typing is tried   *)
(* no more than TypedTries times, and no owner outlives its crash.         *)
THEOREM WorkerTypes == WorkerSpec => []WorkerTypeOK
<1>1. WorkerInv => WorkerTypeOK
  BY DEF WorkerInv
<1> QED BY <1>1, WorkerInvariant, PTL

(* A row that is recorded as sent did reach its session, or its reader had *)
(* taken the message without it (finishOutbox after executeDeliveryWorker).*)
THEOREM SentWasReceived == WorkerSpec => []SentMeansReceived
<1>1. WorkerInv => SentMeansReceived
  BY DEF WorkerInv, Told
<1> QED BY <1>1, WorkerInvariant, PTL

(* Retries, sweeps and repeated subscriptions push nothing twice: each     *)
(* push after the first is paid for by a fallback, a lost lease or a push  *)
(* that was reported as failed, and a row that is queued or recorded as    *)
(* failed was not pushed beyond those causes (executeDeliveryWorker).      *)
THEOREM NoSpareIsPushed == WorkerSpec => []PushedOnce
<1>1. WorkerInv => PushedOnce
  BY DEF WorkerInv, Told, PushesCounted, CountedAt, Unspent, PushedOnce
<1> QED BY <1>1, WorkerInvariant, PTL

(* The steps by which messages reach a session.                            *)
Pushes(t) == PushLands(t) \/ PushFails(t) \/ PushStops(t)

LEMMA PushIsAtWork ==
  ASSUME WorkerInv, NEW t \in Targets, At(t, "push")
  PROVE  /\ Row(t) \in Seqs /\ WorkedRow(Row(t)) /\ Knows(t, Row(t))
         /\ worker[t].step = "push" /\ worker[t].channel \in Reach[t]
<1>1. chain[t] # <<>> /\ worker[t].step = "push"
  BY DEF At
<1> PICK s \in Seqs : s = Row(t)
    BY <1>1, RowInChain DEF WorkerInv
<1>2. StepFits(t) /\ WorkedRow(s) /\ Knows(t, s)
  BY <1>1, AtWork DEF Sending
<1> QED BY <1>1, <1>2 DEF StepFits

LEMMA OnlyPushes ==
  ASSUME WorkerInv, [WorkerNext]_vars, NEW s \in Seqs, pushed'[s] # pushed[s]
  PROVE  \E t \in Targets : At(t, "push") /\ s = Row(t)
<1>1. PICK t \in Targets : Pushes(t)
  BY DEF WorkerNext, Pushes, vars, history, VerifierOnly, ChildReports, ParentReplies, ParentCancels,
         CloseDispatch, CheckClaims, CheckPulls, CheckAcknowledges, ReaderClaims, ReaderAcknowledges,
         WorkerStep, SettleBacklog, Claim, ClaimRefused, OwnerCallFails, LateCallFails, EndTask,
         AlreadySent, ChooseChannel, NoChannel, Mark, Record, FinishRow, LeaseLost, Heartbeat,
         HeartbeatFails, VerifierStep, VerifierStarts, VerifierSees, VerifierSettles, VerifierRecords,
         VerifierGivesUp, VerifierFallsBack, SupervisorResumesVerification, SupervisorFinds,
         SupervisorRetries, SupervisorResumes, LeaseRuns, Forget, Crash, Sweep
<1>2. At(t, "push") /\ (pushed' = pushed \/ pushed' = [pushed EXCEPT ![Row(t)] = @ + 1])
  BY <1>1 DEF Pushes, PushLands, PushFails, PushStops, MayHaveLanded, history
<1>3. pushed \in [Seqs -> Nat]
  BY DEF WorkerInv, WorkerTypeOK
<1> QED BY <1>2, <1>3

(* No direction is pushed once its parent cancelled it: what is pushed is  *)
(* the row the worker leased, which a cancellation leaves alone.           *)
THEOREM CancelledIsQuiet == WorkerSpec => CancelledStaysQuiet
<1>1. ASSUME WorkerInv, [WorkerNext]_vars, NEW s \in Seqs, pushed'[s] # pushed[s]
      PROVE  delivery[s].status # "cancelled"
  <2>1. PICK t \in Targets : At(t, "push") /\ s = Row(t)
    BY <1>1, OnlyPushes
  <2> QED BY <1>1, <2>1, PushIsAtWork DEF WorkedRow
<1>2. WorkerInv /\ [WorkerNext]_vars
        => [\A s \in Seqs : pushed'[s] # pushed[s] => delivery[s].status # "cancelled"]_vars
  BY <1>1
<1> QED BY <1>2, WorkerInvariant, PTL DEF WorkerSpec, CancelledStaysQuiet

(* What its reader had acknowledged when its row was leased is pushed on   *)
(* top of the acknowledgement by a leader socket or a codex queue only,    *)
(* the channels that do not ask whether it was read (isRead of a channel). *)
THEOREM ReadMailIsQueuedOnly ==
  WorkerSpec =>
    [][\A t \in Targets :
         At(t, "push") /\ pushed'[Row(t)] # pushed[Row(t)] /\ worker[t].readAtClaim
           => worker[t].channel = "queue" /\ "queue" \in Reach[t]]_vars
<1>1. ASSUME WorkerInv, NEW t \in Targets, At(t, "push"), worker[t].readAtClaim
      PROVE  worker[t].channel = "queue" /\ "queue" \in Reach[t]
  BY <1>1, PushIsAtWork DEF Knows
<1>2. WorkerInv /\ [WorkerNext]_vars
        => [\A t \in Targets :
              At(t, "push") /\ pushed'[Row(t)] # pushed[Row(t)] /\ worker[t].readAtClaim
                => worker[t].channel = "queue" /\ "queue" \in Reach[t]]_vars
  BY <1>1
<1> QED BY <1>2, WorkerInvariant, PTL DEF WorkerSpec

(* So a dispatch whose two sessions are reached by the other channels      *)
(* never has a message pushed that was read before its row was leased.     *)
THEOREM ReadMailIsQuiet ==
  (\A t \in Targets : "queue" \notin Reach[t]) => (WorkerSpec => ReadMailStaysQuiet)
<1> SUFFICES ASSUME \A t \in Targets : "queue" \notin Reach[t]
             PROVE  WorkerSpec => ReadMailStaysQuiet
    OBVIOUS
<1>1. ASSUME WorkerInv, NEW t \in Targets, At(t, "push")
      PROVE  ~worker[t].readAtClaim
  BY <1>1, PushIsAtWork DEF Knows
<1>2. WorkerInv /\ [WorkerNext]_vars
        => [\A t \in Targets :
              At(t, "push") /\ pushed'[Row(t)] # pushed[Row(t)] => ~worker[t].readAtClaim]_vars
  BY <1>1
<1> QED BY <1>2, WorkerInvariant, PTL DEF WorkerSpec, ReadMailStaysQuiet

(* The worker, its clients and the supervisor only ever do to the mailbox  *)
(* what the mailbox offers: they implement Mailbox.                        *)
THEOREM DrivesMailbox == WorkerSpec => Spec
<1>1. WorkerInit => Init
  BY DEF WorkerInit
<1>2. WorkerInv /\ [WorkerNext]_vars => [Next]_mailVars
  BY MailStep DEF WorkerInv
<1> QED BY <1>1, <1>2, WorkerInvariant, PTL DEF WorkerSpec, Spec

(* So what is settled stays settled, one direction stands and answered     *)
(* asks are settled, however the worker, the readers and the owner's       *)
(* crashes interleave.                                                     *)
COROLLARY DrivenMailSafe == WorkerSpec => FinalStays /\ []MailboxInv
BY DrivesMailbox, DeliveriesStay, MailboxInvariant, PTL
=============================================================================
