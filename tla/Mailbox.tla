------------------------------ MODULE Mailbox ------------------------------
(***************************************************************************)
(* The durable mailbox of ONE dispatch: its messages, the delivery that    *)
(* tracks who has read each message, and the outbox row that pushes the    *)
(* message to its recipient (src/adapters/state/mailbox.ts).               *)
(*                                                                         *)
(* The child writes mail for the parent (ask, done, supervise, receipt);   *)
(* the parent writes replies, called directions, for the child, and the    *)
(* mailbox itself appends withdrawal and cancel notes.  Every operation is *)
(* one SQLite transaction of the single state owner, hence one action.     *)
(* The clients are arbitrary: any operation may come at any time.          *)
(*                                                                         *)
(* A message, its delivery and its row are all named by the sequence       *)
(* number of the message: the code creates them in the same transaction,   *)
(* one of each.  A lease is the time left until its lease_until.           *)
(***************************************************************************)
EXTENDS Naturals

CONSTANTS
  Consumers,     \* sessions that claim and acknowledge deliveries
  Generations,   \* consumer generations: a restarted session has another one
  Holders,       \* delivery workers that lease outbox rows
  Keys,          \* idempotency keys of messages
  Transports,    \* the values recorded by set-delivery-transport
  Mail,          \* BOUND: the kinds of mail the child sends, of ChildMail
  LeaseTerm,     \* ticks a fresh outbox lease runs
  MaxSeq,        \* BOUND: how many messages the dispatch may hold
  NoOne          \* no consumer, no holder, no key

ASSUME MailboxAssumption ==
  /\ MaxSeq \in Nat \ {0}
  /\ LeaseTerm \in Nat \ {0}
  /\ Generations \subseteq Nat \ {0}
  /\ NoOne \notin Consumers
  /\ NoOne \notin Holders
  /\ NoOne \notin Keys
  /\ Mail \subseteq {"ask", "done", "supervise", "receipt"}

VARIABLES
  top,         \* the highest sequence number given out, 0 when none
  message,     \* sequence -> type and idempotency key
  delivery,    \* sequence -> who reads the message and how far that is
  outbox,      \* sequence -> the row that pushes the message
  direction    \* history: the latest reply sent with --supersede, 0 when none

mailVars == <<top, message, delivery, outbox, direction>>

Seqs == 1..MaxSeq

----------------------------------------------------------------------------
(* Messages.  "supervise" stands for the notices of the supervisor and of  *)
(* admission, the only mail whose outbox payload names no sequence.        *)

Actionable == {"ask", "done", "supervise"}
ChildMail  == Actionable \cup {"receipt"}
Notes      == {"withdrawal", "cancel"}

MessageType == ChildMail \cup Notes \cup {"reply", "none"}

Recipient(type) ==
  IF type \in ChildMail THEN "parent" ELSE IF type = "reply" THEN "child" ELSE "none"

Pushed(type) == type \in Actionable \cup {"reply"}

CarriesSequence(s) == message[s].type # "supervise"

NoMessage == [type |-> "none", key |-> NoOne]

(* Deliveries and outbox rows. *)

OpenOrFenced == {"outstanding", "superseded", "fenced"}   \* mutant of Open
Open       == {"outstanding", "superseded"}
Final      == {"acknowledged", "fenced", "cancelled"}
Unfinished == {"pending", "sending"}
Verdicts   == {"sent", "failed", "suppressed"}
PeerSettled == {"delivered", "fallback-delivered"}

NoDelivery ==
  [status |-> "none", consumer |-> NoOne, generation |-> 0,
   superseded |-> FALSE, transport |-> "unset"]

NewDelivery == [NoDelivery EXCEPT !.status = "outstanding"]

NoRow  == [status |-> "none", holder |-> NoOne, lease |-> 0, peer |-> "none"]
NewRow == [NoRow EXCEPT !.status = "pending"]

(* A row that leaves "sending" loses its lease; its verification record    *)
(* lives in the detail column and goes when another detail replaces it.    *)
ReleasedKeepingLease(row, status) == [row EXCEPT !.status = status]  \* mutant of Released
Released(row, status) ==
  [status |-> status, holder |-> NoOne, lease |-> 0, peer |-> row.peer]

Closed(row, status) ==
  [status |-> status, holder |-> NoOne, lease |-> 0, peer |-> "none"]

(* acknowledgeImplicitDelivery and ackDelivery: the deliveries S are read, *)
(* an unowned one by c, and the rows that still push them are settled.     *)
Acknowledged(S, c) ==
  [s \in Seqs |->
     IF s \in S
     THEN [delivery[s] EXCEPT !.status = "acknowledged",
                              !.consumer = IF @ = NoOne THEN c ELSE @]
     ELSE delivery[s]]

(* Mutant of RowsAfterAck: a row some worker is sending is left alone.     *)
PendingRowsAfterAck(S) ==
  [s \in Seqs |->
     IF s \in S /\ CarriesSequence(s) /\ outbox[s].status = "pending"
     THEN Closed(outbox[s], "sent")
     ELSE outbox[s]]

RowsAfterAck(S) ==
  [s \in Seqs |->
     IF s \in S /\ CarriesSequence(s) /\ outbox[s].status \in Unfinished
     THEN Closed(outbox[s], "sent")
     ELSE outbox[s]]

----------------------------------------------------------------------------
Init ==
  /\ top = 0
  /\ message = [s \in Seqs |-> NoMessage]
  /\ delivery = [s \in Seqs |-> NoDelivery]
  /\ outbox = [s \in Seqs |-> NoRow]
  /\ direction = 0

(* The child's mail: a message, its delivery and, when the parent should   *)
(* act on it, a row that pushes it.  A key seen before appends nothing.    *)
AppendChildMail(type, key) ==
  /\ top < MaxSeq
  /\ key # NoOne => \A s \in Seqs : message[s].key # key
  /\ top' = top + 1
  /\ message' = [message EXCEPT ![top + 1] = [type |-> type, key |-> key]]
  /\ delivery' = [delivery EXCEPT ![top + 1] = NewDelivery]
  /\ outbox' = [outbox EXCEPT ![top + 1] = IF Pushed(type) THEN NewRow ELSE NoRow]
  /\ UNCHANGED direction

(* Asks a reply answers.  The mutant answers only what nobody has claimed. *)
AnsweredUnclaimed ==
  {s \in Seqs : /\ message[s].type = "ask"
                /\ delivery[s].status = "outstanding"
                /\ delivery[s].consumer = NoOne}

Answered ==
  {s \in Seqs : message[s].type = "ask" /\ delivery[s].status = "outstanding"}

(* Mutant of Replaced: a direction its reader has claimed is overlooked.   *)
ReplacedUnclaimed(supersede) ==
  {s \in Seqs : /\ supersede
                /\ message[s].type = "reply"
                /\ delivery[s].status = "outstanding"
                /\ delivery[s].consumer = NoOne}

(* Replies a superseding reply replaces: the ones still queued become      *)
(* "superseded"; the ones a reader already took are flagged and withdrawn. *)
Replaced(supersede) ==
  {s \in Seqs : /\ supersede
                /\ message[s].type = "reply"
                /\ ~delivery[s].superseded
                /\ delivery[s].status \in {"outstanding", "acknowledged", "fenced"}}

Queued(s) == delivery[s].status = "outstanding" /\ delivery[s].consumer = NoOne

(* A reply of the parent answers every ask still outstanding, replaces the *)
(* earlier directions when told to, and appends a withdrawal note before   *)
(* itself when one of those had been taken.                                *)
AppendParentReply(supersede) ==
  LET asks     == Answered
      replaced == Replaced(supersede)
      noted    == \E s \in replaced : ~Queued(s)
      reply    == IF noted THEN top + 2 ELSE top + 1
  IN /\ reply <= MaxSeq
     /\ top' = reply
     /\ message' = [s \in Seqs |->
          IF s = reply THEN [type |-> "reply", key |-> NoOne]
          ELSE IF s = top + 1 /\ noted THEN [type |-> "withdrawal", key |-> NoOne]
          ELSE message[s]]
     /\ delivery' = [s \in Seqs |->
          IF s = reply THEN NewDelivery
          ELSE IF s \in replaced
               THEN [delivery[s] EXCEPT !.superseded = TRUE,
                                        !.status = IF Queued(s) THEN "superseded" ELSE @]
          ELSE Acknowledged(asks, NoOne)[s]]
     /\ outbox' = [RowsAfterAck(asks) EXCEPT ![reply] = NewRow]
     /\ direction' = IF supersede THEN reply ELSE direction

(* Mutant of Cancellable: the row that is being sent is not looked at.     *)
CancellableBlind(s) == delivery[s].status \in Open /\ message[s].type = "reply"

Cancellable(s) ==
  /\ delivery[s].status \in Open
  /\ message[s].type = "reply"
  /\ outbox[s].status \notin {"sent", "sending"}

(* `orchestrate queue cancel`: only a reply that is neither read nor sent  *)
(* nor being sent; the note of the cancellation is the next message.       *)
CancelQueued(s) ==
  /\ top < MaxSeq
  /\ Cancellable(s)
  /\ delivery' = [delivery EXCEPT ![s].status = "cancelled"]
  /\ outbox' = [outbox EXCEPT ![s] =
       IF @.status \in {"pending", "failed", "suppressed"} THEN Closed(@, "cancelled") ELSE @]
  /\ top' = top + 1
  /\ message' = [message EXCEPT ![top + 1] = [type |-> "cancel", key |-> NoOne]]
  /\ UNCHANGED direction

(* A notice has no message to take back: cancelling it takes its row from  *)
(* the pusher and leaves its delivery to be read.                          *)
CancelNotice(s) ==
  /\ top < MaxSeq
  /\ ~CarriesSequence(s)
  /\ outbox[s].status \in {"pending", "failed", "suppressed"}
  /\ outbox' = [outbox EXCEPT ![s] = Closed(@, "cancelled")]
  /\ top' = top + 1
  /\ message' = [message EXCEPT ![top + 1] = [type |-> "cancel", key |-> NoOne]]
  /\ UNCHANGED <<delivery, direction>>

SetTransport(s, transport) ==
  /\ delivery[s].status # "none"
  /\ delivery' = [delivery EXCEPT ![s].transport = transport]
  /\ UNCHANGED <<top, message, outbox, direction>>

(* Mutant of ClaimDelivery: the owner is not looked at.                    *)
ClaimDeliveryOwned(s, c, g) ==
  /\ delivery[s].status \in Open
  /\ delivery' = [delivery EXCEPT ![s].consumer = c, ![s].generation = g]
  /\ UNCHANGED <<top, message, outbox, direction>>

(* The first consumer to claim an open delivery owns it for good.          *)
ClaimDelivery(s, c, g) ==
  /\ delivery[s].status \in Open
  /\ delivery[s].consumer = NoOne
  /\ delivery' = [delivery EXCEPT ![s].consumer = c, ![s].generation = g]
  /\ UNCHANGED <<top, message, outbox, direction>>

(* Only the consumer and generation that claimed a delivery acknowledge it;*)
(* a second acknowledgement is reported as a duplicate and changes nothing.*)
AckDelivery(s, c, g) ==
  /\ delivery[s].status \in Open
  /\ delivery[s].consumer = c
  /\ delivery[s].generation = g
  /\ delivery' = Acknowledged({s}, c)
  /\ outbox' = RowsAfterAck({s})
  /\ UNCHANGED <<top, message, direction>>

(* A reader that is known to have seen the message (check by the child, a  *)
(* verified channel, closing) acknowledges without having claimed it.      *)
AckImplicit(s, recipient, c) ==
  /\ delivery[s].status \in Open
  /\ Recipient(message[s].type) = recipient
  /\ delivery' = Acknowledged({s}, c)
  /\ outbox' = RowsAfterAck({s})
  /\ UNCHANGED <<top, message, direction>>

(* A consumer that restarted fences what its earlier generation claimed.   *)
FenceDelivery(s, c, g) ==
  /\ delivery[s].status \in Open
  /\ delivery[s].consumer = c
  /\ delivery[s].generation # g
  /\ delivery' = [delivery EXCEPT ![s].status = "fenced"]
  /\ UNCHANGED <<top, message, outbox, direction>>

----------------------------------------------------------------------------
(* The outbox.  A worker leases a row, may record that a peer accepted the *)
(* message and is yet to be seen reading it, and finishes the row.  Owner  *)
(* holders do not match the pid pattern of leaseHolderIsAlive, so a lease  *)
(* is taken over only once it has expired.                                 *)

ExpiredAnyTime(s) == outbox[s].status = "sending"   \* mutant of Expired
Expired(s) == outbox[s].status = "sending" /\ outbox[s].lease = 0

HeldBy(s, h) == outbox[s].status = "sending" /\ outbox[s].holder = h

ClaimOutbox(s, h) ==
  /\ outbox[s].status = "pending" \/ Expired(s)
  /\ outbox' = [outbox EXCEPT ![s] =
       [@ EXCEPT !.status = "sending", !.holder = h, !.lease = LeaseTerm]]
  /\ UNCHANGED <<top, message, delivery, direction>>

RenewOutboxLease(s, h) ==
  /\ HeldBy(s, h)
  /\ outbox[s].lease > 0
  /\ outbox' = [outbox EXCEPT ![s].lease = LeaseTerm]
  /\ UNCHANGED <<top, message, delivery, direction>>

(* Accepting is recorded by the holder even when its lease has run out.    *)
MarkPeerSent(s, h) ==
  /\ HeldBy(s, h)
  /\ outbox' = [outbox EXCEPT ![s].peer = "pending"]
  /\ UNCHANGED <<top, message, delivery, direction>>

(* Finishing needs an unexpired lease; a verification record outlives the  *)
(* send, never a failure or a suppression.                                 *)
Finish(s, h, verdict) ==
  /\ HeldBy(s, h)
  /\ outbox[s].lease > 0
  /\ outbox' = [outbox EXCEPT ![s] =
       IF verdict = "sent" THEN Released(@, verdict) ELSE Closed(@, verdict)]
  /\ UNCHANGED <<top, message, delivery, direction>>

FinishOutbox(s, h, verdict)       == message[s].type = "reply" /\ Finish(s, h, verdict)
FinishNotification(s, h, verdict) == message[s].type \in Actionable /\ Finish(s, h, verdict)

FinishPeerVerification(s, state) ==
  /\ outbox[s].peer # "none"
  /\ outbox' = [outbox EXCEPT ![s].peer = state]
  /\ UNCHANGED <<top, message, delivery, direction>>

(* The peer was not seen reading the message: queue it again to be typed.  *)
RequeuePeerFallback(s) ==
  /\ outbox[s].peer = "pending"
  /\ outbox[s].status = "sent"
  /\ outbox' = [outbox EXCEPT ![s] =
       [Released(@, "pending") EXCEPT !.peer = "fallback-queued"]]
  /\ UNCHANGED <<top, message, delivery, direction>>

(* Whatever became of its delivery, a failed direction may be queued again.*)
RetryFailedChild(s) ==
  /\ message[s].type = "reply"
  /\ outbox[s].status = "failed"
  /\ outbox' = [outbox EXCEPT ![s] = Closed(@, "pending")]
  /\ UNCHANGED <<top, message, delivery, direction>>

(* The dispatch was closed or archived: nothing is pushed to the parent    *)
(* any more, and its unread mail leaves the default view.                  *)
SupersedeClosedParentDeliveries ==
  LET parents == {s \in Seqs : Recipient(message[s].type) = "parent"}
  IN /\ delivery' = [s \in Seqs |->
          IF s \in parents /\ delivery[s].status = "outstanding"
          THEN [delivery[s] EXCEPT !.status = "superseded"] ELSE delivery[s]]
     /\ outbox' = [s \in Seqs |->
          IF s \notin parents THEN outbox[s]
          ELSE IF outbox[s].status \in Unfinished THEN Closed(outbox[s], "suppressed")
          ELSE IF outbox[s].status = "sent" /\ outbox[s].peer \in {"pending", "fallback-queued"}
               THEN [outbox[s] EXCEPT !.peer = "superseded"]
          ELSE outbox[s]]
     /\ UNCHANGED <<top, message, direction>>

(* The system clock, which claim, renew and finish compare lease_until     *)
(* with: a row's `lease` is the time it has left, and 0 from the moment    *)
(* lease_until is reached.                                                 *)
LeaseTick(s) ==
  /\ outbox[s].lease > 0
  /\ outbox' = [outbox EXCEPT ![s].lease = @ - 1]
  /\ UNCHANGED <<top, message, delivery, direction>>

Next ==
  \/ \E type \in Mail, key \in Keys \cup {NoOne} : AppendChildMail(type, key)
  \/ \E supersede \in BOOLEAN : AppendParentReply(supersede)
  \/ \E s \in Seqs :
       \/ CancelQueued(s)
       \/ CancelNotice(s)
       \/ \E transport \in Transports : SetTransport(s, transport)
       \/ \E c \in Consumers, g \in Generations :
            ClaimDelivery(s, c, g) \/ AckDelivery(s, c, g) \/ FenceDelivery(s, c, g)
       \/ \E recipient \in {"parent", "child"}, c \in Consumers \cup {NoOne} :
            AckImplicit(s, recipient, c)
       \/ \E h \in Holders :
            \/ ClaimOutbox(s, h) \/ RenewOutboxLease(s, h) \/ MarkPeerSent(s, h)
            \/ \E verdict \in Verdicts :
                 FinishOutbox(s, h, verdict) \/ FinishNotification(s, h, verdict)
       \/ \E state \in PeerSettled : FinishPeerVerification(s, state)
       \/ RequeuePeerFallback(s)
       \/ RetryFailedChild(s)
       \/ LeaseTick(s)
  \/ SupersedeClosedParentDeliveries

Spec == Init /\ [][Next]_mailVars

----------------------------------------------------------------------------
(* core/check.ts: the deliveries a mailbox may show a consumer.  The       *)
(* default view leaves out replaced directions and protocol mail; --full   *)
(* shows both.                                                             *)

Shown(mailbox, full, c) ==
  {s \in Seqs :
     /\ delivery[s].status = "outstanding" \/ (full /\ delivery[s].status = "superseded")
     /\ full \/ ~delivery[s].superseded
     /\ delivery[s].consumer \in {NoOne, c}
     /\ Recipient(message[s].type) = mailbox
     /\ mailbox = "parent" => full \/ message[s].type \in Actionable}

----------------------------------------------------------------------------
(* Properties.                                                             *)

DeliveryType ==
  [status : {"none"} \cup Open \cup Final, consumer : Consumers \cup {NoOne},
   generation : Generations \cup {0}, superseded : BOOLEAN,
   transport : Transports \cup {"unset"}]

RowType ==
  [status : {"none", "cancelled"} \cup Unfinished \cup Verdicts,
   holder : Holders \cup {NoOne}, lease : 0..LeaseTerm,
   peer : {"none", "pending", "fallback-queued", "superseded"} \cup PeerSettled]

(* Every table holds rows of its type.                                     *)
TypeOK ==
  /\ top \in 0..MaxSeq
  /\ message \in [Seqs -> [type : MessageType, key : Keys \cup {NoOne}]]
  /\ delivery \in [Seqs -> DeliveryType]
  /\ outbox \in [Seqs -> RowType]
  /\ direction \in 0..MaxSeq

(* Once the parent has replaced its directions, the view `check` gives the *)
(* child never offers an older one, whoever claimed, read, fenced or       *)
(* requeued what in between (appendParentReply against selectDelivery).    *)
OneDirectionStands ==
  \A c \in Consumers : \A s \in Shown("child", FALSE, c) : s >= direction

(* An ask that a later reply answered is not left outstanding: watch and   *)
(* the turn-end hook would show the parent a question it has answered.     *)
AnsweredAsksSettled ==
  \A a, r \in Seqs :
    message[a].type = "ask" /\ message[r].type = "reply" /\ a < r
      => delivery[a].status # "outstanding"

(* Mail its reader acknowledged is pushed again only when a peer that      *)
(* accepted it was not seen reading it: no acknowledgement leaves a row    *)
(* queued or leased (finishAcknowledgedOutbox).                            *)
ReadMailIsNotPushed ==
  \A s \in Seqs :
    (/\ message[s].type \in {"ask", "done"}
     /\ delivery[s].status = "acknowledged"
     /\ outbox[s].status \in Unfinished) => outbox[s].peer # "none"

(* Cancelling takes a direction from the reader and from the pusher at     *)
(* once: a cancelled delivery is never sent, a cancelled row never read,   *)
(* but for a notice, whose row can be cancelled alone.                     *)
CancelledTogether ==
  \A s \in Seqs :
    /\ delivery[s].status = "cancelled" => outbox[s].status = "cancelled"
    /\ outbox[s].status = "cancelled" => delivery[s].status = "cancelled" \/ ~CarriesSequence(s)

(* A row is leased exactly while it is being sent: whatever ends a send    *)
(* (finish, acknowledgement, cancel, closing, fallback) frees the lease.   *)
LeaseDiscipline ==
  \A s \in Seqs :
    /\ outbox[s].status = "sending" <=> outbox[s].holder # NoOne
    /\ outbox[s].lease > 0 => outbox[s].status = "sending"

(* An open verification belongs to a row that was or is being sent, and a  *)
(* fallback to one that has not failed: a row queued afresh carries no     *)
(* record that would make its next worker skip the peer channels.          *)
PeerRecordFits ==
  \A s \in Seqs :
    /\ outbox[s].peer = "pending" => outbox[s].status \in {"sending", "sent"}
    /\ outbox[s].peer = "fallback-queued" => outbox[s].status \in {"pending", "sending", "sent"}
    /\ outbox[s].peer = "superseded" => outbox[s].status = "sent"

(* What the invariants above rest on, at one sequence number: sequences    *)
(* are given out in order, a message has a delivery when it has a recipient*)
(* and a row when it is pushed, and the row fits the delivery.             *)
RowAt(s) ==
  /\ message[s].type = "none" <=> s > top
  /\ delivery[s].status = "none" <=> Recipient(message[s].type) = "none"
  /\ delivery[s].status = "none" => delivery[s] = NoDelivery
  /\ outbox[s].status = "none" <=> ~Pushed(message[s].type)
  /\ outbox[s].status = "sending" <=> outbox[s].holder # NoOne
  /\ outbox[s].lease > 0 => outbox[s].status = "sending"
  /\ outbox[s].peer = "pending" => outbox[s].status \in {"sending", "sent"}
  /\ outbox[s].peer = "fallback-queued" => outbox[s].status \in {"pending", "sending", "sent"}
  /\ outbox[s].peer = "superseded" => outbox[s].status = "sent"
  /\ delivery[s].status = "cancelled" => outbox[s].status = "cancelled"
  /\ outbox[s].status = "cancelled" => delivery[s].status = "cancelled" \/ message[s].type = "supervise"
  /\ (/\ message[s].type \in {"ask", "done"}
      /\ delivery[s].status = "acknowledged"
      /\ outbox[s].status \in Unfinished) => outbox[s].peer # "none"

(* A direction older than the standing one that is still outstanding has   *)
(* been flagged as replaced.                                               *)
ReplacedAreFlagged ==
  /\ direction <= top
  /\ \A s \in Seqs : (/\ s < direction
                      /\ message[s].type = "reply"
                      /\ delivery[s].status = "outstanding") => delivery[s].superseded

(* The inductive invariant of the mailbox: the three tables describe the   *)
(* same messages and no operation leaves them half changed.                *)
MailboxInv ==
  /\ TypeOK
  /\ \A s \in Seqs : RowAt(s)
  /\ AnsweredAsksSettled
  /\ ReplacedAreFlagged

(* A delivery that was acknowledged, fenced or cancelled stays so.         *)
FinalStays ==
  [][\A s \in Seqs : delivery[s].status \in Final
        => delivery'[s].status = delivery[s].status]_mailVars

(* While a lease runs nobody else leases the row, and once it has run out  *)
(* a worker that fails late no longer decides what becomes of the row: at  *)
(* no instant is it two workers' (claimOutbox against finishOutbox and     *)
(* finishNotification, which compare lease_until with opposite bounds).    *)
LeaseDecides ==
  [][\A s \in Seqs :
       outbox[s].status = "sending" =>
         IF outbox[s].lease > 0
         THEN outbox'[s].status = "sending" => outbox'[s].holder = outbox[s].holder
         ELSE outbox'[s].status # "failed"]_mailVars

(* A claim is for good: no other consumer, and no other generation of the  *)
(* same one, takes a delivery over.                                        *)
OwnerKept ==
  [][\A s \in Seqs : delivery[s].consumer # NoOne
        => /\ delivery'[s].consumer = delivery[s].consumer
           /\ delivery'[s].generation = delivery[s].generation]_mailVars
============================================================================
