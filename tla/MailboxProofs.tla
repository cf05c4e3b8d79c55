--------------------------- MODULE MailboxProofs ---------------------------
(***************************************************************************)
(* Theorems about Mailbox for any number of consumers, workers, messages   *)
(* and lease ticks.                                                        *)
(***************************************************************************)
EXTENDS Mailbox, TLAPS

(* What the operators that rebuild a whole table return. *)

LEMMA ReleasedType ==
  ASSUME NEW row \in RowType, NEW status \in {"cancelled", "pending"} \cup Verdicts
  PROVE  /\ Released(row, status) \in RowType
         /\ Closed(row, status) \in RowType
  BY MailboxAssumption DEF MailboxAssumption, Released, Closed, RowType, Unfinished, Verdicts, PeerSettled

LEMMA AcknowledgedType ==
  ASSUME TypeOK, NEW S \in SUBSET Seqs, NEW c \in Consumers \cup {NoOne}
  PROVE  Acknowledged(S, c) \in [Seqs -> DeliveryType]
<1> SUFFICES ASSUME NEW s \in Seqs
             PROVE  Acknowledged(S, c)[s] \in DeliveryType
    BY DEF Acknowledged
<1> QED BY DEF Acknowledged, TypeOK, DeliveryType, Final

LEMMA RowsAfterAckType ==
  ASSUME TypeOK, NEW S \in SUBSET Seqs
  PROVE  RowsAfterAck(S) \in [Seqs -> RowType]
<1> SUFFICES ASSUME NEW s \in Seqs
             PROVE  RowsAfterAck(S)[s] \in RowType
    BY DEF RowsAfterAck
<1> QED BY ReleasedType DEF RowsAfterAck, TypeOK, Verdicts

LEMMA NewRecords ==
  /\ NewDelivery \in DeliveryType
  /\ NewRow \in RowType
  /\ NoDelivery \in DeliveryType
  /\ NoRow \in RowType
<1> USE MailboxAssumption DEF MailboxAssumption
<1>1. NoDelivery \in DeliveryType
  BY DEF NoDelivery, DeliveryType
<1>2. NewDelivery \in DeliveryType
  BY <1>1 DEF NewDelivery, DeliveryType, Open
<1>3. NoRow \in RowType
  BY DEF NoRow, RowType
<1>4. NewRow \in RowType
  BY <1>3 DEF NewRow, RowType, Unfinished
<1> QED BY <1>1, <1>2, <1>3, <1>4

LEMMA DeliveryUpdate ==
  ASSUME NEW d \in DeliveryType
  PROVE  /\ \A status \in Open \cup Final : [d EXCEPT !.status = status] \in DeliveryType
         /\ \A transport \in Transports : [d EXCEPT !.transport = transport] \in DeliveryType
         /\ \A c \in Consumers, g \in Generations :
              [d EXCEPT !.consumer = c, !.generation = g] \in DeliveryType
<1>1. \A status \in Open \cup Final : [d EXCEPT !.status = status] \in DeliveryType
  BY DEF DeliveryType
<1>2. \A transport \in Transports : [d EXCEPT !.transport = transport] \in DeliveryType
  BY DEF DeliveryType
<1>3. \A c \in Consumers, g \in Generations :
        [d EXCEPT !.consumer = c, !.generation = g] \in DeliveryType
  BY DEF DeliveryType
<1> QED BY <1>1, <1>2, <1>3

LEMMA RowUpdate ==
  ASSUME NEW row \in RowType
  PROVE  /\ \A h \in Holders :
              [row EXCEPT !.status = "sending", !.holder = h, !.lease = LeaseTerm] \in RowType
         /\ \A n \in 0..LeaseTerm : [row EXCEPT !.lease = n] \in RowType
<1>1. ASSUME NEW h \in Holders
      PROVE  [row EXCEPT !.status = "sending", !.holder = h, !.lease = LeaseTerm] \in RowType
  <2>1. "sending" \in {"none", "cancelled"} \cup Unfinished \cup Verdicts
    BY DEF Unfinished
  <2>2. LeaseTerm \in 0..LeaseTerm
    BY MailboxAssumption DEF MailboxAssumption
  <2> QED BY <2>1, <2>2 DEF RowType
<1>2. \A n \in 0..LeaseTerm : [row EXCEPT !.lease = n] \in RowType
  BY DEF RowType
<1> QED BY <1>1, <1>2

----------------------------------------------------------------------------
LEMMA TypeStep == TypeOK /\ [Next]_mailVars => TypeOK'
<1> SUFFICES ASSUME TypeOK, [Next]_mailVars PROVE TypeOK'
    OBVIOUS
<1> USE MailboxAssumption DEF MailboxAssumption
<1>1. ASSUME NEW type \in Mail, NEW key \in Keys \cup {NoOne}, AppendChildMail(type, key)
      PROVE  TypeOK'
  <2>1. top + 1 \in Seqs /\ top' \in 0..MaxSeq
    BY <1>1 DEF AppendChildMail, TypeOK, Seqs
  <2>2. type \in MessageType
    BY <1>1 DEF MessageType, ChildMail, Actionable
  <2> QED BY <1>1, <2>1, <2>2, NewRecords DEF AppendChildMail, TypeOK
<1>2. ASSUME NEW supersede \in BOOLEAN, AppendParentReply(supersede)
      PROVE  TypeOK'
  <2> DEFINE noted == \E s \in Replaced(supersede) : ~Queued(s)
             reply == IF noted THEN top + 2 ELSE top + 1
  <2>1. reply \in Seqs /\ reply \in 0..MaxSeq /\ top' = reply
    <3>1. top \in Nat /\ reply \in {top + 1, top + 2}
      BY DEF TypeOK
    <3>2. reply <= MaxSeq /\ top' = reply
      BY <1>2 DEF AppendParentReply
    <3> HIDE DEF reply
    <3> QED BY <3>1, <3>2 DEF Seqs
  <2>2. message' \in [Seqs -> [type : MessageType, key : Keys \cup {NoOne}]]
    <3> SUFFICES ASSUME NEW s \in Seqs
                 PROVE  message'[s] \in [type : MessageType, key : Keys \cup {NoOne}]
        BY <1>2 DEF AppendParentReply
    <3> QED BY <1>2 DEF AppendParentReply, TypeOK, MessageType, Notes
  <2>3. delivery' \in [Seqs -> DeliveryType]
    <3> SUFFICES ASSUME NEW s \in Seqs
                 PROVE  delivery'[s] \in DeliveryType
        BY <1>2 DEF AppendParentReply
    <3>1. Acknowledged(Answered, NoOne)[s] \in DeliveryType
      BY AcknowledgedType DEF Answered
    <3>2. [delivery[s] EXCEPT !.superseded = TRUE,
                              !.status = IF Queued(s) THEN "superseded" ELSE @] \in DeliveryType
      BY ZenonT(60) DEF TypeOK, DeliveryType, Open
    <3> QED BY <1>2, <3>1, <3>2, NewRecords DEF AppendParentReply
  <2>4. outbox' \in [Seqs -> RowType]
    <3>1. RowsAfterAck(Answered) \in [Seqs -> RowType]
      BY RowsAfterAckType DEF Answered
    <3> QED BY <1>2, <2>1, <3>1, NewRecords DEF AppendParentReply
  <2>5. direction' \in 0..MaxSeq
    BY <1>2, <2>1 DEF AppendParentReply, TypeOK
  <2> QED BY <2>1, <2>2, <2>3, <2>4, <2>5 DEF TypeOK
<1>3. ASSUME NEW s \in Seqs, CancelQueued(s)
      PROVE  TypeOK'
  <2>1. top + 1 \in Seqs /\ top' \in 0..MaxSeq
    BY <1>3 DEF CancelQueued, TypeOK, Seqs
  <2>2. Closed(outbox[s], "cancelled") \in RowType
    BY ReleasedType DEF TypeOK
  <2>3. delivery' \in [Seqs -> DeliveryType]
    BY <1>3, DeliveryUpdate DEF CancelQueued, TypeOK, Final
  <2> QED BY <1>3, <2>1, <2>2, <2>3 DEF CancelQueued, TypeOK, MessageType, Notes
<1>4. ASSUME NEW s \in Seqs, NEW transport \in Transports, SetTransport(s, transport)
      PROVE  TypeOK'
  BY <1>4, DeliveryUpdate DEF SetTransport, TypeOK
<1>5. ASSUME NEW s \in Seqs, NEW c \in Consumers, NEW g \in Generations, ClaimDelivery(s, c, g)
      PROVE  TypeOK'
  BY <1>5, DeliveryUpdate DEF ClaimDelivery, TypeOK
<1>6. ASSUME NEW s \in Seqs, NEW c \in Consumers, NEW g \in Generations, AckDelivery(s, c, g)
      PROVE  TypeOK'
  BY <1>6, AcknowledgedType, RowsAfterAckType DEF AckDelivery, TypeOK
<1>7. ASSUME NEW s \in Seqs, NEW c \in Consumers, NEW g \in Generations, FenceDelivery(s, c, g)
      PROVE  TypeOK'
  BY <1>7, DeliveryUpdate DEF FenceDelivery, TypeOK, Final
<1>8. ASSUME NEW s \in Seqs, NEW recipient \in {"parent", "child"},
             NEW c \in Consumers \cup {NoOne}, AckImplicit(s, recipient, c)
      PROVE  TypeOK'
  BY <1>8, AcknowledgedType, RowsAfterAckType DEF AckImplicit, TypeOK
<1>9. ASSUME NEW s \in Seqs, NEW h \in Holders, ClaimOutbox(s, h)
      PROVE  TypeOK'
  BY <1>9, RowUpdate DEF ClaimOutbox, TypeOK
<1>10. ASSUME NEW s \in Seqs, NEW h \in Holders, RenewOutboxLease(s, h)
       PROVE  TypeOK'
  <2>1. LeaseTerm \in 0..LeaseTerm
    OBVIOUS
  <2> QED BY <1>10, <2>1, RowUpdate DEF RenewOutboxLease, TypeOK
<1>11. ASSUME NEW s \in Seqs, NEW h \in Holders, MarkPeerSent(s, h)
       PROVE  TypeOK'
  BY <1>11 DEF MarkPeerSent, TypeOK, RowType
<1>12. ASSUME NEW s \in Seqs, NEW h \in Holders, NEW verdict \in Verdicts, Finish(s, h, verdict)
       PROVE  TypeOK'
  BY <1>12, ReleasedType DEF Finish, TypeOK
<1>13. ASSUME NEW s \in Seqs, NEW state \in PeerSettled, FinishPeerVerification(s, state)
       PROVE  TypeOK'
  BY <1>13 DEF FinishPeerVerification, TypeOK, RowType
<1>14. ASSUME NEW s \in Seqs, RequeuePeerFallback(s)
       PROVE  TypeOK'
  <2>1. [Released(outbox[s], "pending") EXCEPT !.peer = "fallback-queued"] \in RowType
    BY DEF Released, TypeOK, RowType, Unfinished
  <2> QED BY <1>14, <2>1 DEF RequeuePeerFallback, TypeOK
<1>15. ASSUME NEW s \in Seqs, RetryFailedChild(s)
       PROVE  TypeOK'
  BY <1>15, ReleasedType DEF RetryFailedChild, TypeOK
<1>16. ASSUME SupersedeClosedParentDeliveries
       PROVE  TypeOK'
  <2>1. ASSUME NEW s \in Seqs PROVE delivery'[s] \in DeliveryType
    BY <1>16, DeliveryUpdate DEF SupersedeClosedParentDeliveries, TypeOK, Open
  <2>2. ASSUME NEW s \in Seqs PROVE outbox'[s] \in RowType
    <3>1. Closed(outbox[s], "suppressed") \in RowType
      BY ReleasedType DEF TypeOK, Verdicts
    <3>2. [outbox[s] EXCEPT !.peer = "superseded"] \in RowType
      BY DEF TypeOK, RowType
    <3> QED BY <1>16, <3>1, <3>2 DEF SupersedeClosedParentDeliveries, TypeOK
  <2> QED BY <1>16, <2>1, <2>2 DEF SupersedeClosedParentDeliveries, TypeOK
<1>17. ASSUME NEW s \in Seqs, LeaseTick(s)
       PROVE  TypeOK'
  <2>1. outbox[s].lease - 1 \in 0..LeaseTerm
    BY <1>17 DEF LeaseTick, TypeOK, RowType
  <2> QED BY <1>17, <2>1, RowUpdate DEF LeaseTick, TypeOK
<1>18. ASSUME NEW s \in Seqs, CancelNotice(s)
       PROVE  TypeOK'
  <2>1. top + 1 \in Seqs /\ top' \in 0..MaxSeq
    BY <1>18 DEF CancelNotice, TypeOK, Seqs
  <2>2. Closed(outbox[s], "cancelled") \in RowType
    BY ReleasedType DEF TypeOK
  <2> QED BY <1>18, <2>1, <2>2 DEF CancelNotice, TypeOK, MessageType, Notes
<1>19. ASSUME UNCHANGED mailVars
       PROVE  TypeOK'
  BY <1>19 DEF mailVars, TypeOK
<1> QED BY <1>1, <1>2, <1>3, <1>4, <1>5, <1>6, <1>7, <1>8, <1>9, <1>10, <1>11, <1>12,
           <1>13, <1>14, <1>15, <1>16, <1>17, <1>18, <1>19
        DEF Next, FinishOutbox, FinishNotification

(* The mailbox keeps well-formed tables under every operation of the state *)
(* owner: statuses, owners, lease terms and verification records.          *)
THEOREM TypeCorrect == Spec => []TypeOK
<1>1. Init => TypeOK
  BY MailboxAssumption, NewRecords DEF MailboxAssumption, Init, TypeOK, NoMessage, MessageType, Seqs
<1> QED BY <1>1, TypeStep, PTL DEF Spec

----------------------------------------------------------------------------
(* An acknowledgement of deliveries that are open keeps RowAt.              *)
LEMMA AcknowledgedRow ==
  ASSUME TypeOK, NEW t \in Seqs, RowAt(t),
         NEW S \in SUBSET Seqs, \A s \in S : delivery[s].status \in Open,
         NEW c,
         message'[t].type = message[t].type, t > top <=> t > top',
         delivery'[t] = Acknowledged(S, c)[t],
         outbox'[t] = RowsAfterAck(S)[t]
  PROVE  RowAt(t)'
<1> DEFINE r == outbox[t]
<1>1. CASE t \notin S
  <2>1. delivery'[t] = delivery[t] /\ outbox'[t] = r
    BY <1>1 DEF Acknowledged, RowsAfterAck
  <2> QED BY <2>1 DEF RowAt
<1>2. CASE t \in S
  <2>1. delivery'[t].status = "acknowledged"
    BY <1>2 DEF Acknowledged, TypeOK, DeliveryType
  <2>2. delivery[t].status \in Open
    BY <1>2
  <2>3. CASE CarriesSequence(t) /\ r.status \in Unfinished
    <3>1. outbox'[t] = Closed(r, "sent")
      BY <1>2, <2>3 DEF RowsAfterAck
    <3> QED BY <2>1, <2>2, <2>3, <3>1 DEF RowAt, Closed, Open, Unfinished
  <2>4. CASE ~(CarriesSequence(t) /\ r.status \in Unfinished)
    <3>1. outbox'[t] = r
      BY <1>2, <2>4 DEF RowsAfterAck
    <3>2. message[t].type = "supervise" \/ r.status \notin Unfinished
      BY <2>4 DEF CarriesSequence
    <3> QED BY <2>1, <2>2, <3>1, <3>2 DEF RowAt, Open, Unfinished
  <2> QED BY <2>3, <2>4
<1> QED BY <1>1, <1>2

LEMMA RowStep ==
  ASSUME TypeOK, \A s \in Seqs : RowAt(s), [Next]_mailVars, NEW t \in Seqs
  PROVE  RowAt(t)'
<1> USE MailboxAssumption DEF MailboxAssumption
<1> DEFINE m == message[t]
           d == delivery[t]
           r == outbox[t]
<1>0. RowAt(t) /\ m \in [type : MessageType, key : Keys \cup {NoOne}] /\ d \in DeliveryType /\ r \in RowType
  BY DEF TypeOK
<1>1. ASSUME NEW type \in Mail, NEW key \in Keys \cup {NoOne}, AppendChildMail(type, key)
      PROVE  RowAt(t)'
  <2>1. top \in Nat /\ top + 1 \in Seqs /\ top' = top + 1
    BY <1>1 DEF AppendChildMail, TypeOK, Seqs
  <2>2. CASE t = top + 1
    <3>1. type \in ChildMail
      BY DEF ChildMail, Actionable
    <3>2. /\ message'[t].type = type
          /\ delivery'[t] = NewDelivery
          /\ outbox'[t] = IF Pushed(type) THEN NewRow ELSE NoRow
      BY <1>1, <2>1, <2>2 DEF AppendChildMail, TypeOK
    <3>3. delivery'[t].status = "outstanding"
      BY <3>2 DEF NewDelivery, NoDelivery
    <3>4. /\ outbox'[t].status = IF Pushed(type) THEN "pending" ELSE "none"
          /\ outbox'[t].holder = NoOne /\ outbox'[t].lease = 0 /\ outbox'[t].peer = "none"
      BY <3>2 DEF NewRow, NoRow
    <3> QED BY <2>1, <2>2, <3>1, <3>2, <3>3, <3>4 DEF RowAt, Recipient, ChildMail, Actionable, Pushed
  <2>3. CASE t # top + 1
    <3>1. UNCHANGED <<message[t], delivery[t], outbox[t]>>
      BY <1>1, <2>3 DEF AppendChildMail, TypeOK
    <3>2. t > top <=> t > top'
      BY <2>1, <2>3 DEF Seqs
    <3> QED BY <1>0, <3>1, <3>2 DEF RowAt
  <2> QED BY <2>2, <2>3
<1>2. ASSUME NEW supersede \in BOOLEAN, AppendParentReply(supersede)
      PROVE  RowAt(t)'
  <2> DEFINE replaced == Replaced(supersede)
             noted == \E s \in replaced : ~Queued(s)
             reply == IF noted THEN top + 2 ELSE top + 1
  <2>1. top \in Nat /\ reply \in {top + 1, top + 2} /\ reply \in Seqs /\ top' = reply
    <3>1. top \in Nat /\ reply \in {top + 1, top + 2}
      BY DEF TypeOK
    <3>2. reply <= MaxSeq /\ top' = reply
      BY <1>2 DEF AppendParentReply
    <3> HIDE DEF reply
    <3> QED BY <3>1, <3>2 DEF Seqs
  <2>2. /\ message'[t].type = IF t = reply THEN "reply"
                              ELSE IF t = top + 1 /\ noted THEN "withdrawal" ELSE m.type
        /\ delivery'[t] = IF t = reply THEN NewDelivery
                          ELSE IF t \in replaced
                               THEN [d EXCEPT !.superseded = TRUE,
                                              !.status = IF Queued(t) THEN "superseded" ELSE @]
                          ELSE Acknowledged(Answered, NoOne)[t]
        /\ outbox'[t] = IF t = reply THEN NewRow ELSE RowsAfterAck(Answered)[t]
    BY <1>2, <2>1 DEF AppendParentReply, RowsAfterAck
  <2>3. CASE t = reply
    <3>1. delivery'[t].status = "outstanding"
      BY <2>2, <2>3 DEF NewDelivery, NoDelivery
    <3>2. /\ outbox'[t].status = "pending" /\ outbox'[t].holder = NoOne
          /\ outbox'[t].lease = 0 /\ outbox'[t].peer = "none"
      BY <2>2, <2>3 DEF NewRow, NoRow
    <3>3. message'[t].type = "reply" /\ ~(t > top')
      BY <2>1, <2>2, <2>3
    <3> QED BY <3>1, <3>2, <3>3 DEF RowAt, Recipient, Pushed, ChildMail, Actionable
  <2>4. CASE t # reply /\ t = top + 1
    <3>1. noted /\ reply = top + 2
      BY <2>4
    <3>2. message'[t].type = "withdrawal"
      BY <2>2, <2>4, <3>1
    <3>3. m.type = "none" /\ t > top
      BY <1>0, <2>1, <2>4 DEF RowAt
    <3>4. delivery'[t] = d /\ outbox'[t] = r
      BY <2>2, <2>4, <3>3 DEF Replaced, Answered, Acknowledged, RowsAfterAck
    <3> HIDE DEF reply
    <3> QED BY <1>0, <2>1, <2>4, <3>1, <3>2, <3>3, <3>4
            DEF RowAt, Recipient, Pushed, ChildMail, Actionable
  <2>5. CASE t # reply /\ t # top + 1
    <3>1. message'[t].type = m.type
      BY <2>2, <2>5
    <3>2. t > top <=> t > top'
      <4> HIDE DEF reply
      <4> QED BY <2>1, <2>5 DEF Seqs
    <3>3. CASE t \in replaced
      <4>1. outbox'[t] = r
        BY <2>2, <2>5, <3>3 DEF Replaced, Answered, RowsAfterAck
      <4>2. delivery'[t].status = IF Queued(t) THEN "superseded" ELSE d.status
        BY <1>0, <2>2, <2>5, <3>3 DEF DeliveryType
      <4>3. d.status \notin {"none", "cancelled"} /\ m.type = "reply"
        BY <3>3 DEF Replaced
      <4> HIDE DEF reply, replaced, noted
      <4> QED BY <1>0, <3>1, <3>2, <4>1, <4>2, <4>3 DEF RowAt
    <3>4. CASE t \notin replaced
      <4>1. delivery'[t] = Acknowledged(Answered, NoOne)[t] /\ outbox'[t] = RowsAfterAck(Answered)[t]
        BY <2>2, <2>5, <3>4
      <4>2. Answered \in SUBSET Seqs /\ \A s \in Answered : delivery[s].status \in Open
        BY DEF Answered, Open
      <4> HIDE DEF reply, replaced, noted
      <4> QED BY <1>0, <3>1, <3>2, <4>1, <4>2, AcknowledgedRow
    <3> QED BY <3>3, <3>4
  <2> QED BY <2>3, <2>4, <2>5
<1>3. ASSUME NEW s \in Seqs, CancelQueued(s)
      PROVE  RowAt(t)'
  <2>1. top \in Nat /\ top + 1 \in Seqs /\ top' = top + 1 /\ s # top + 1
    <3>1. s <= top
      BY <1>3 DEF CancelQueued, Cancellable, RowAt, TypeOK, Seqs
    <3> QED BY <1>3, <3>1 DEF CancelQueued, TypeOK, Seqs
  <2>2. CASE t = s
    <3>1. message'[t] = m /\ (t > top <=> t > top')
      BY <1>3, <2>1, <2>2 DEF CancelQueued, TypeOK, Seqs
    <3>2. m.type = "reply" /\ r.status \in {"pending", "failed", "suppressed"}
      BY <1>0, <1>3, <2>2
         DEF CancelQueued, Cancellable, RowAt, Pushed, RowType, Unfinished, Verdicts, Open
    <3>3. delivery'[t].status = "cancelled" /\ outbox'[t] = Closed(r, "cancelled")
      BY <1>0, <1>3, <2>2, <3>2 DEF CancelQueued, TypeOK, DeliveryType
    <3> QED BY <1>0, <3>1, <3>2, <3>3 DEF RowAt, Closed, Recipient, Pushed, Unfinished
  <2>3. CASE t = top + 1
    <3>1. message'[t].type = "cancel" /\ delivery'[t] = d /\ outbox'[t] = r
      BY <1>3, <2>1, <2>3 DEF CancelQueued, TypeOK
    <3>2. m.type = "none"
      BY <1>0, <2>1, <2>3 DEF RowAt
    <3> QED BY <1>0, <2>1, <2>3, <3>1, <3>2
            DEF RowAt, Recipient, Pushed, ChildMail, Actionable
  <2>4. CASE t # s /\ t # top + 1
    <3>1. UNCHANGED <<message[t], delivery[t], outbox[t]>>
      BY <1>3, <2>4 DEF CancelQueued, TypeOK
    <3>2. t > top <=> t > top'
      BY <2>1, <2>4 DEF Seqs
    <3> QED BY <1>0, <3>1, <3>2 DEF RowAt
  <2> QED BY <2>2, <2>3, <2>4
<1>4. ASSUME NEW s \in Seqs, NEW transport \in Transports, SetTransport(s, transport)
      PROVE  RowAt(t)'
  BY <1>0, <1>4 DEF SetTransport, RowAt, TypeOK, Released, Closed, RowType, Unfinished, Open, Final
<1>5. ASSUME NEW s \in Seqs, NEW c \in Consumers, NEW g \in Generations, ClaimDelivery(s, c, g)
      PROVE  RowAt(t)'
  BY <1>0, <1>5 DEF ClaimDelivery, RowAt, TypeOK, Released, Closed, RowType, Unfinished, Open, Final
<1>6. ASSUME NEW s \in Seqs, NEW c \in Consumers, NEW g \in Generations, AckDelivery(s, c, g)
      PROVE  RowAt(t)'
  BY <1>0, <1>6, AcknowledgedRow DEF AckDelivery
<1>7. ASSUME NEW s \in Seqs, NEW c \in Consumers, NEW g \in Generations, FenceDelivery(s, c, g)
      PROVE  RowAt(t)'
  BY <1>0, <1>7 DEF FenceDelivery, RowAt, TypeOK, Released, Closed, RowType, Unfinished, Open, Final
<1>8. ASSUME NEW s \in Seqs, NEW recipient \in {"parent", "child"},
             NEW c \in Consumers \cup {NoOne}, AckImplicit(s, recipient, c)
      PROVE  RowAt(t)'
  BY <1>0, <1>8, AcknowledgedRow DEF AckImplicit
<1>9. ASSUME NEW s \in Seqs, NEW h \in Holders, ClaimOutbox(s, h)
      PROVE  RowAt(t)'
  <2>1. CASE t = s
    <3>1. /\ outbox'[t].status = "sending" /\ outbox'[t].holder = h
          /\ outbox'[t].peer = r.peer
      BY <1>0, <1>9, <2>1 DEF ClaimOutbox, TypeOK, RowType
    <3>2. UNCHANGED <<top, message, delivery>> /\ r.status \in Unfinished /\ h # NoOne
      BY <1>9, <2>1 DEF ClaimOutbox, Expired, Unfinished
    <3> QED BY <1>0, <3>1, <3>2 DEF RowAt, Unfinished
  <2>2. CASE t # s
    <3>1. UNCHANGED <<top, message, delivery, outbox[t]>>
      BY <1>9, <2>2 DEF ClaimOutbox, TypeOK
    <3> QED BY <1>0, <3>1 DEF RowAt
  <2> QED BY <2>1, <2>2
<1>10. ASSUME NEW s \in Seqs, NEW h \in Holders, RenewOutboxLease(s, h)
      PROVE  RowAt(t)'
  BY <1>0, <1>10 DEF RenewOutboxLease, RowAt, TypeOK, Released, Closed, RowType, Unfinished, Open, Final
<1>11. ASSUME NEW s \in Seqs, NEW h \in Holders, MarkPeerSent(s, h)
      PROVE  RowAt(t)'
  <2>1. CASE t = s
    <3>1. /\ outbox'[t].status = "sending" /\ outbox'[t].holder = r.holder
          /\ outbox'[t].lease = r.lease /\ outbox'[t].peer = "pending"
      BY <1>0, <1>11, <2>1 DEF MarkPeerSent, HeldBy, TypeOK, RowType
    <3>2. UNCHANGED <<top, message, delivery>> /\ r.status = "sending"
      BY <1>11, <2>1 DEF MarkPeerSent, HeldBy
    <3> QED BY <1>0, <3>1, <3>2 DEF RowAt
  <2>2. CASE t # s
    <3>1. UNCHANGED <<top, message, delivery, outbox[t]>>
      BY <1>11, <2>2 DEF MarkPeerSent, TypeOK
    <3> QED BY <1>0, <3>1 DEF RowAt
  <2> QED BY <2>1, <2>2
<1>12. ASSUME NEW s \in Seqs, NEW h \in Holders, NEW verdict \in Verdicts, Finish(s, h, verdict)
      PROVE  RowAt(t)'
  <2>1. CASE t = s
    <3>1. /\ outbox'[t].status = verdict /\ outbox'[t].holder = NoOne /\ outbox'[t].lease = 0
          /\ outbox'[t].peer = IF verdict = "sent" THEN r.peer ELSE "none"
      BY <1>0, <1>12, <2>1 DEF Finish, TypeOK, Released, Closed
    <3>2. UNCHANGED <<top, message, delivery>> /\ r.status = "sending"
      BY <1>12, <2>1 DEF Finish, HeldBy
    <3> QED BY <1>0, <3>1, <3>2 DEF RowAt, Unfinished, Verdicts
  <2>2. CASE t # s
    <3>1. UNCHANGED <<top, message, delivery, outbox[t]>>
      BY <1>12, <2>2 DEF Finish, TypeOK
    <3> QED BY <1>0, <3>1 DEF RowAt
  <2> QED BY <2>1, <2>2
<1>13. ASSUME NEW s \in Seqs, NEW state \in PeerSettled, FinishPeerVerification(s, state)
      PROVE  RowAt(t)'
  <2>1. CASE t = s
    <3>1. /\ outbox'[t].status = r.status /\ outbox'[t].holder = r.holder
          /\ outbox'[t].lease = r.lease /\ outbox'[t].peer = state
      BY <1>0, <1>13, <2>1 DEF FinishPeerVerification, TypeOK, RowType
    <3>2. UNCHANGED <<top, message, delivery>>
      BY <1>13 DEF FinishPeerVerification
    <3> QED BY <1>0, <3>1, <3>2 DEF RowAt, PeerSettled
  <2>2. CASE t # s
    <3>1. UNCHANGED <<top, message, delivery, outbox[t]>>
      BY <1>13, <2>2 DEF FinishPeerVerification, TypeOK
    <3> QED BY <1>0, <3>1 DEF RowAt
  <2> QED BY <2>1, <2>2
<1>14. ASSUME NEW s \in Seqs, RequeuePeerFallback(s)
      PROVE  RowAt(t)'
  BY <1>0, <1>14 DEF RequeuePeerFallback, RowAt, TypeOK, Released, Closed, RowType, Unfinished, Open, Final
<1>15. ASSUME NEW s \in Seqs, RetryFailedChild(s)
      PROVE  RowAt(t)'
  BY <1>0, <1>15 DEF RetryFailedChild, RowAt, TypeOK, Released, Closed, RowType, Unfinished, Open, Final
<1>16. ASSUME SupersedeClosedParentDeliveries
      PROVE  RowAt(t)'
  BY <1>0, <1>16 DEF SupersedeClosedParentDeliveries, RowAt, TypeOK, Released, Closed, RowType, Unfinished, Open, Final
<1>17. ASSUME NEW s \in Seqs, LeaseTick(s)
      PROVE  RowAt(t)'
  BY <1>0, <1>17 DEF LeaseTick, RowAt, TypeOK, Released, Closed, RowType, Unfinished, Open, Final
<1>18. ASSUME NEW s \in Seqs, CancelNotice(s)
      PROVE  RowAt(t)'
  <2>1. top \in Nat /\ top + 1 \in Seqs /\ top' = top + 1 /\ s # top + 1
    <3>1. s <= top
      BY <1>18 DEF CancelNotice, CarriesSequence, RowAt, TypeOK, Seqs
    <3> QED BY <1>18, <3>1 DEF CancelNotice, TypeOK, Seqs
  <2>2. CASE t = s
    <3>1. message'[t] = m /\ delivery'[t] = d /\ (t > top <=> t > top')
      BY <1>18, <2>1, <2>2 DEF CancelNotice, TypeOK, Seqs
    <3>2. m.type = "supervise" /\ outbox'[t] = Closed(r, "cancelled")
      BY <1>18, <2>2 DEF CancelNotice, CarriesSequence, TypeOK
    <3> QED BY <1>0, <3>1, <3>2
            DEF RowAt, Closed, Recipient, Pushed, ChildMail, Actionable, Unfinished
  <2>3. CASE t = top + 1
    <3>1. message'[t].type = "cancel" /\ delivery'[t] = d /\ outbox'[t] = r
      BY <1>18, <2>1, <2>3 DEF CancelNotice, TypeOK
    <3>2. m.type = "none"
      BY <1>0, <2>1, <2>3 DEF RowAt
    <3> QED BY <1>0, <2>1, <2>3, <3>1, <3>2
            DEF RowAt, Recipient, Pushed, ChildMail, Actionable
  <2>4. CASE t # s /\ t # top + 1
    <3>1. UNCHANGED <<message[t], delivery[t], outbox[t]>>
      BY <1>18, <2>4 DEF CancelNotice, TypeOK
    <3>2. t > top <=> t > top'
      BY <2>1, <2>4 DEF Seqs
    <3> QED BY <1>0, <3>1, <3>2 DEF RowAt
  <2> QED BY <2>2, <2>3, <2>4
<1>19. ASSUME UNCHANGED mailVars
      PROVE  RowAt(t)'
  BY <1>0, <1>19 DEF mailVars, RowAt, TypeOK, Released, Closed, RowType, Unfinished, Open, Final
<1> QED BY <1>1, <1>2, <1>3, <1>4, <1>5, <1>6, <1>7, <1>8, <1>9, <1>10, <1>11, <1>12, <1>13, <1>14, <1>15, <1>16, <1>17, <1>18, <1>19
       DEF Next, FinishOutbox, FinishNotification

----------------------------------------------------------------------------
LEMMA RowsInvariant == Spec => [](TypeOK /\ \A s \in Seqs : RowAt(s))
<1> DEFINE RowInv == TypeOK /\ \A s \in Seqs : RowAt(s)
<1>1. Init => RowInv
  <2> SUFFICES ASSUME Init PROVE RowInv
      OBVIOUS
  <2>1. TypeOK
    BY MailboxAssumption, NewRecords DEF MailboxAssumption, Init, TypeOK, NoMessage, MessageType, Seqs
  <2>2. ASSUME NEW s \in Seqs PROVE RowAt(s)
    BY DEF Init, RowAt, NoMessage, NoDelivery, NoRow, Recipient, Pushed, ChildMail, Actionable, Seqs
  <2> QED BY <2>1, <2>2
<1>2. RowInv /\ [Next]_mailVars => RowInv'
  <2> SUFFICES ASSUME TypeOK, \A s \in Seqs : RowAt(s), [Next]_mailVars PROVE RowInv'
      OBVIOUS
  <2>1. TypeOK'
    BY TypeStep
  <2>2. \A t \in Seqs : RowAt(t)'
    BY RowStep
  <2> QED BY <2>1, <2>2
<1> QED BY <1>1, <1>2, PTL DEF Spec

(* Three theorems that need no more than RowAt.                            *)

(* A row is leased exactly while it is being sent, and a verification      *)
(* record belongs to a row that can use it, whatever claims, finishes,     *)
(* renews or releases it.                                                  *)
THEOREM RowsSafe == Spec => [](LeaseDiscipline /\ PeerRecordFits)
<1>1. TypeOK /\ (\A s \in Seqs : RowAt(s)) => LeaseDiscipline /\ PeerRecordFits
  BY DEF RowAt, CarriesSequence, LeaseDiscipline, PeerRecordFits
<1> QED BY <1>1, RowsInvariant, PTL

(* Mail its reader acknowledged is pushed again only after a peer          *)
(* verification fell back (ackDelivery settles the outbox row with it).    *)
THEOREM AcknowledgedAtRest == Spec => []ReadMailIsNotPushed
<1>1. TypeOK /\ (\A s \in Seqs : RowAt(s)) => ReadMailIsNotPushed
  BY DEF RowAt, CarriesSequence, ReadMailIsNotPushed
<1> QED BY <1>1, RowsInvariant, PTL

(* A cancellation reaches the delivery and its row together, or neither    *)
(* (cancelQueuedMessage against claims and pushes).                        *)
THEOREM CancelsBoth == Spec => []CancelledTogether
<1>1. TypeOK /\ (\A s \in Seqs : RowAt(s)) => CancelledTogether
  BY DEF RowAt, CarriesSequence, CancelledTogether
<1> QED BY <1>1, RowsInvariant, PTL

----------------------------------------------------------------------------
(* What a step does to a message that exists and to its delivery.          *)
KeepsDelivery(t) ==
  /\ message'[t].type = message[t].type
  /\ delivery[t].status \in Final => delivery'[t].status = delivery[t].status
  /\ delivery[t].status # "outstanding" => delivery'[t].status # "outstanding"
  /\ delivery[t].superseded => delivery'[t].superseded
  /\ delivery[t].consumer # NoOne => /\ delivery'[t].consumer = delivery[t].consumer
                                    /\ delivery'[t].generation = delivery[t].generation

LEMMA DeliveryStep ==
  ASSUME TypeOK, \A s \in Seqs : RowAt(s), [Next]_mailVars,
         NEW t \in Seqs, message[t].type # "none"
  PROVE  KeepsDelivery(t)
<1> USE MailboxAssumption DEF MailboxAssumption
<1>0. t <= top /\ top \in Nat /\ delivery[t] \in DeliveryType
  BY DEF RowAt, TypeOK, Seqs
<1>1. ASSUME NEW S \in SUBSET Seqs, \A s \in S : delivery[s].status \in Open, NEW c,
             delivery'[t] = Acknowledged(S, c)[t], message'[t].type = message[t].type
      PROVE  KeepsDelivery(t)
  <2>1. CASE t \notin S
    <3>1. delivery'[t] = delivery[t]
      BY <1>1, <2>1 DEF Acknowledged
    <3> QED BY <1>1, <3>1 DEF KeepsDelivery
  <2>2. CASE t \in S
    <3>1. /\ delivery'[t].status = "acknowledged"
          /\ delivery'[t].superseded = delivery[t].superseded
          /\ delivery'[t].generation = delivery[t].generation
          /\ delivery[t].consumer # NoOne => delivery'[t].consumer = delivery[t].consumer
      BY <1>0, <1>1, <2>2, ZenonT(60) DEF Acknowledged, DeliveryType
    <3>2. delivery[t].status \in Open
      BY <1>1, <2>2
    <3> QED BY <1>1, <3>1, <3>2 DEF KeepsDelivery, Open, Final
  <2> QED BY <2>1, <2>2
<1>2. ASSUME delivery'[t] = delivery[t], message'[t].type = message[t].type
      PROVE  KeepsDelivery(t)
  BY <1>2 DEF KeepsDelivery
<1>3. ASSUME NEW type \in Mail, NEW key \in Keys \cup {NoOne}, AppendChildMail(type, key)
      PROVE  KeepsDelivery(t)
  <2>1. t # top + 1
    BY <1>0 DEF Seqs
  <2> QED BY <1>3, <1>2, <2>1 DEF AppendChildMail, TypeOK
<1>4. ASSUME NEW supersede \in BOOLEAN, AppendParentReply(supersede)
      PROVE  KeepsDelivery(t)
  <2> DEFINE reply == IF \E s \in Replaced(supersede) : ~Queued(s) THEN top + 2 ELSE top + 1
  <2>1. t # top + 1 /\ t # reply
    BY <1>0 DEF Seqs
  <2>2. message'[t].type = message[t].type
    BY <1>4, <2>1 DEF AppendParentReply
  <2>3. CASE t \in Replaced(supersede)
    <3>1. delivery'[t] = [delivery[t] EXCEPT !.superseded = TRUE,
                            !.status = IF Queued(t) THEN "superseded" ELSE @]
      BY <1>4, <2>1, <2>3 DEF AppendParentReply
    <3>2. /\ delivery'[t].superseded
          /\ delivery'[t].status = IF Queued(t) THEN "superseded" ELSE delivery[t].status
          /\ delivery'[t].consumer = delivery[t].consumer
          /\ delivery'[t].generation = delivery[t].generation
      BY <1>0, <3>1 DEF DeliveryType
    <3> QED BY <2>2, <3>2 DEF KeepsDelivery, Queued, Final
  <2>4. CASE t \notin Replaced(supersede)
    <3>1. delivery'[t] = Acknowledged(Answered, NoOne)[t]
      BY <1>4, <2>1, <2>4 DEF AppendParentReply
    <3>2. Answered \in SUBSET Seqs /\ \A s \in Answered : delivery[s].status \in Open
      BY DEF Answered, Open
    <3> QED BY <1>1, <2>2, <3>1, <3>2
  <2> QED BY <2>3, <2>4
<1>5. ASSUME NEW s \in Seqs, CancelQueued(s)
      PROVE  KeepsDelivery(t)
  <2>1. t # top + 1
    BY <1>0 DEF Seqs
  <2>2. message'[t].type = message[t].type
    BY <1>5, <2>1 DEF CancelQueued, TypeOK
  <2>3. CASE t = s
    <3>1. /\ delivery'[t].status = "cancelled" /\ delivery[t].status \in Open
          /\ delivery'[t].superseded = delivery[t].superseded
          /\ delivery'[t].consumer = delivery[t].consumer
          /\ delivery'[t].generation = delivery[t].generation
      BY <1>0, <1>5, <2>3 DEF CancelQueued, Cancellable, TypeOK, DeliveryType
    <3> QED BY <2>2, <3>1 DEF KeepsDelivery, Open, Final
  <2>4. CASE t # s
    BY <1>5, <1>2, <2>2, <2>4 DEF CancelQueued, TypeOK
  <2> QED BY <2>3, <2>4
<1>6. ASSUME NEW s \in Seqs, NEW transport \in Transports, SetTransport(s, transport)
      PROVE  KeepsDelivery(t)
  BY <1>0, <1>6 DEF SetTransport, KeepsDelivery, TypeOK, DeliveryType, Open, Final
<1>7. ASSUME NEW s \in Seqs, NEW c \in Consumers, NEW g \in Generations, ClaimDelivery(s, c, g)
      PROVE  KeepsDelivery(t)
  BY <1>0, <1>7 DEF ClaimDelivery, KeepsDelivery, TypeOK, DeliveryType, Open, Final
<1>8. ASSUME NEW s \in Seqs, NEW c \in Consumers, NEW g \in Generations, AckDelivery(s, c, g)
      PROVE  KeepsDelivery(t)
  BY <1>8, <1>1 DEF AckDelivery
<1>9. ASSUME NEW s \in Seqs, NEW c \in Consumers, NEW g \in Generations, FenceDelivery(s, c, g)
      PROVE  KeepsDelivery(t)
  BY <1>0, <1>9 DEF FenceDelivery, KeepsDelivery, TypeOK, DeliveryType, Open, Final
<1>10. ASSUME NEW s \in Seqs, NEW recipient \in {"parent", "child"},
             NEW c \in Consumers \cup {NoOne}, AckImplicit(s, recipient, c)
      PROVE  KeepsDelivery(t)
  BY <1>10, <1>1 DEF AckImplicit
<1>11. ASSUME SupersedeClosedParentDeliveries
      PROVE  KeepsDelivery(t)
  BY <1>0, <1>11 DEF SupersedeClosedParentDeliveries, KeepsDelivery, DeliveryType, Final
<1>12. ASSUME NEW s \in Seqs, CancelNotice(s)
      PROVE  KeepsDelivery(t)
  <2>1. t # top + 1
    BY <1>0 DEF Seqs
  <2> QED BY <1>2, <1>12, <2>1 DEF CancelNotice, TypeOK
<1>13. ASSUME UNCHANGED <<message, delivery>>
      PROVE  KeepsDelivery(t)
  BY <1>2, <1>13
<1> QED BY <1>3, <1>4, <1>5, <1>6, <1>7, <1>8, <1>9, <1>10, <1>11, <1>12, <1>13
        DEF Next, FinishOutbox, FinishNotification, Finish, ClaimOutbox, RenewOutboxLease,
            MarkPeerSent, FinishPeerVerification, RequeuePeerFallback, RetryFailedChild,
            LeaseTick, mailVars

(* A delivery that was acknowledged, fenced or cancelled stays so, whatever*)
(* the other readers and the parent do.                                    *)
THEOREM DeliveriesStay == Spec => FinalStays
<1> DEFINE RowInv == TypeOK /\ \A s \in Seqs : RowAt(s)
           Stays == \A s \in Seqs : delivery[s].status \in Final
                                      => delivery'[s].status = delivery[s].status
<1>1. RowInv /\ [Next]_mailVars => [Stays]_mailVars
  <2> SUFFICES ASSUME TypeOK, \A s \in Seqs : RowAt(s), [Next]_mailVars
               PROVE  Stays
      OBVIOUS
  <2>1. ASSUME NEW s \in Seqs, message[s].type = "none"
        PROVE  delivery[s].status \notin Final
    BY <2>1 DEF RowAt, Recipient, ChildMail, Actionable, NoDelivery, Final
  <2>2. ASSUME NEW s \in Seqs, message[s].type # "none"
        PROVE  KeepsDelivery(s)
    BY <2>2, DeliveryStep
  <2> QED BY <2>1, <2>2 DEF KeepsDelivery
<1>2. Spec => []RowInv
  BY RowsInvariant
<1> QED BY <1>1, <1>2, PTL DEF Spec, FinalStays

(* The consumer and the generation that claimed a delivery keep it: no     *)
(* later claim or fence takes it over.                                     *)
THEOREM OwnersStay == Spec => OwnerKept
<1> DEFINE RowInv == TypeOK /\ \A s \in Seqs : RowAt(s)
           Kept == \A s \in Seqs : delivery[s].consumer # NoOne
                      => /\ delivery'[s].consumer = delivery[s].consumer
                         /\ delivery'[s].generation = delivery[s].generation
<1>1. RowInv /\ [Next]_mailVars => [Kept]_mailVars
  <2> SUFFICES ASSUME TypeOK, \A s \in Seqs : RowAt(s), [Next]_mailVars
               PROVE  Kept
      OBVIOUS
  <2>1. ASSUME NEW s \in Seqs, message[s].type = "none"
        PROVE  delivery[s].consumer = NoOne
    BY <2>1 DEF RowAt, Recipient, ChildMail, Actionable, NoDelivery
  <2>2. ASSUME NEW s \in Seqs, message[s].type # "none"
        PROVE  KeepsDelivery(s)
    BY <2>2, DeliveryStep
  <2> QED BY <2>1, <2>2 DEF KeepsDelivery
<1>2. Spec => []RowInv
  BY RowsInvariant
<1> QED BY <1>1, <1>2, PTL DEF Spec, OwnerKept

(* A row that is leased keeps its holder while its lease runs, and does    *)
(* not fail once it has run out.                                           *)
Ruled(t) ==
  outbox[t].status = "sending" =>
    IF outbox[t].lease > 0
    THEN outbox'[t].status = "sending" => outbox'[t].holder = outbox[t].holder
    ELSE outbox'[t].status # "failed"

LEMMA LeaseStep ==
  ASSUME TypeOK, NEW t \in Seqs, Next
  PROVE  Ruled(t)
<1>0. top \in 0..MaxSeq /\ outbox \in [Seqs -> RowType] /\ MaxSeq \in Nat
  BY MailboxAssumption DEF TypeOK, MailboxAssumption
<1>1. ASSUME UNCHANGED outbox
      PROVE  Ruled(t)
  BY <1>1 DEF Ruled
<1>2. ASSUME NEW S, outbox' = RowsAfterAck(S)
      PROVE  Ruled(t)
  BY <1>2 DEF RowsAfterAck, Closed, Ruled
<1>3. ASSUME NEW type \in Mail, NEW key \in Keys \cup {NoOne}, AppendChildMail(type, key)
      PROVE  Ruled(t)
  BY <1>0, <1>3 DEF AppendChildMail, NewRow, NoRow, Ruled
<1>4. ASSUME NEW supersede \in BOOLEAN, AppendParentReply(supersede)
      PROVE  Ruled(t)
  <2> DEFINE rows == RowsAfterAck(Answered)
         noted == \E s \in Replaced(supersede) : ~Queued(s)
         reply == IF noted THEN top + 2 ELSE top + 1
  <2>1. outbox' = [rows EXCEPT ![reply] = NewRow]
    BY <1>4 DEF AppendParentReply
  <2>2. rows[t].status # "failed" \/ rows[t] = outbox[t]
    BY DEF RowsAfterAck, Closed
  <2>3. rows[t].status = "sending" => rows[t] = outbox[t]
    BY DEF RowsAfterAck, Closed
  <2>4. outbox'[t] = rows[t] \/ outbox'[t] = NewRow
    BY <2>1 DEF RowsAfterAck
  <2> QED BY <2>2, <2>3, <2>4 DEF NewRow, NoRow, Ruled
<1>5. ASSUME NEW s \in Seqs, CancelQueued(s) \/ CancelNotice(s)
      PROVE  Ruled(t)
  BY <1>0, <1>5 DEF CancelQueued, CancelNotice, Closed, Ruled
<1>6. ASSUME NEW s \in Seqs, NEW h \in Holders,
             \/ ClaimOutbox(s, h) \/ RenewOutboxLease(s, h) \/ MarkPeerSent(s, h)
      PROVE  Ruled(t)
  <2>1. /\ outbox[s].status # "failed" /\ outbox'[s].status = "sending"
        /\ outbox[s].status = "sending" => outbox[s].lease = 0 \/ outbox'[s].holder = outbox[s].holder
        /\ t # s => outbox'[t] = outbox[t]
    BY <1>0, <1>6 DEF ClaimOutbox, RenewOutboxLease, MarkPeerSent, Expired, HeldBy, RowType
  <2> QED BY <2>1 DEF Ruled
<1>7. ASSUME NEW s \in Seqs, NEW h \in Holders, NEW verdict \in Verdicts, Finish(s, h, verdict)
      PROVE  Ruled(t)
  BY <1>0, <1>7 DEF Finish, HeldBy, Released, Closed, Verdicts, Ruled
<1>8. ASSUME NEW s \in Seqs,
             \/ \E state \in PeerSettled : FinishPeerVerification(s, state)
             \/ RequeuePeerFallback(s) \/ RetryFailedChild(s) \/ LeaseTick(s)
      PROVE  Ruled(t)
  BY <1>0, <1>8 DEF FinishPeerVerification, RequeuePeerFallback, RetryFailedChild, LeaseTick,
                    Released, Closed, RowType, Ruled
<1>9. ASSUME SupersedeClosedParentDeliveries
      PROVE  Ruled(t)
  BY <1>0, <1>9 DEF SupersedeClosedParentDeliveries, Closed, Ruled
<1> QED BY <1>1, <1>2, <1>3, <1>4, <1>5, <1>6, <1>7, <1>8, <1>9
        DEF Next, SetTransport, ClaimDelivery, AckDelivery, FenceDelivery, AckImplicit,
            FinishOutbox, FinishNotification

(* No worker is robbed of a row whose lease runs, and none that outlived   *)
(* its lease decides what becomes of the row.                              *)
THEOREM LeasesDecide == Spec => LeaseDecides
<1> DEFINE Decides == \A s \in Seqs : Ruled(s)
<1>1. TypeOK /\ [Next]_mailVars => [Decides]_mailVars
  BY LeaseStep
<1>2. Spec => []TypeOK
  BY TypeCorrect
<1>3. Spec => [][Decides]_mailVars
  BY <1>1, <1>2, PTL DEF Spec
<1> QED BY <1>3 DEF LeaseDecides, Ruled

----------------------------------------------------------------------------
(* Only a reply of the parent makes a reply, or moves the direction.       *)
LEMMA ReplyStep ==
  ASSUME TypeOK, \A s \in Seqs : RowAt(s), [Next]_mailVars,
         NEW t \in Seqs, message[t].type = "none", message'[t].type \in {"reply", "ask"}
  PROVE  \/ /\ message'[t].type = "reply"
            /\ \E supersede \in BOOLEAN : AppendParentReply(supersede) /\ t = top'
         \/ message'[t].type = "ask" /\ t = top' /\ top' = top + 1
<1>1. CASE \E type \in Mail, key \in Keys \cup {NoOne} : AppendChildMail(type, key)
  <2> PICK type \in Mail, key \in Keys \cup {NoOne} : AppendChildMail(type, key)
      BY <1>1
  <2>1. type # "reply"
    BY MailboxAssumption DEF MailboxAssumption
  <2>2. top' = top + 1 /\ message' = [message EXCEPT ![top + 1] = [type |-> type, key |-> key]]
    BY DEF AppendChildMail
  <2> QED BY <2>1, <2>2 DEF TypeOK
<1>2. CASE \E supersede \in BOOLEAN : AppendParentReply(supersede)
  <2> PICK supersede \in BOOLEAN : AppendParentReply(supersede)
      BY <1>2
  <2>1. t = top' /\ message'[t].type = "reply"
    BY DEF AppendParentReply
  <2> QED BY <2>1
<1>3. CASE \E s \in Seqs : CancelQueued(s) \/ CancelNotice(s)
  BY <1>3 DEF CancelQueued, CancelNotice, TypeOK
<1>4. CASE UNCHANGED message
  BY <1>4
<1> QED BY <1>1, <1>2, <1>3, <1>4, ZenonT(60)
        DEF Next, SetTransport, ClaimDelivery, AckDelivery, FenceDelivery, AckImplicit,
            FinishOutbox, FinishNotification, Finish, ClaimOutbox, RenewOutboxLease,
            MarkPeerSent, FinishPeerVerification, RequeuePeerFallback, RetryFailedChild,
            SupersedeClosedParentDeliveries, LeaseTick, mailVars

(* An ask below a reply was answered when the reply was written, and no    *)
(* later step makes it outstanding again.                                  *)
LEMMA AsksStep ==
  ASSUME TypeOK, \A s \in Seqs : RowAt(s), AnsweredAsksSettled, [Next]_mailVars
  PROVE  AnsweredAsksSettled'
<1> SUFFICES ASSUME NEW a \in Seqs, NEW r \in Seqs,
                    message'[a].type = "ask", message'[r].type = "reply", a < r
             PROVE  delivery'[a].status # "outstanding"
    BY DEF AnsweredAsksSettled
<1>1. CASE message[r].type # "none"
  <2>1. message[a].type # "none"
    BY <1>1 DEF RowAt, TypeOK, Seqs
  <2>2. KeepsDelivery(a) /\ KeepsDelivery(r)
    BY <1>1, <2>1, DeliveryStep
  <2> QED BY <2>2 DEF KeepsDelivery, AnsweredAsksSettled
<1>2. CASE message[r].type = "none"
  <2> PICK supersede \in BOOLEAN : AppendParentReply(supersede) /\ r = top'
      BY <1>2, ReplyStep
  <2>1. message[a].type = "ask"
    BY DEF AppendParentReply
  <2>2. KeepsDelivery(a)
    BY <2>1, DeliveryStep
  <2>3. CASE delivery[a].status # "outstanding"
    BY <2>2, <2>3 DEF KeepsDelivery
  <2>4. CASE delivery[a].status = "outstanding"
    <3>1. a \in Answered /\ a \notin Replaced(supersede)
      BY <2>1, <2>4 DEF Answered, Replaced
    <3>2. delivery'[a] = Acknowledged(Answered, NoOne)[a]
      BY <3>1 DEF AppendParentReply
    <3>3. delivery[a] \in DeliveryType
      BY DEF TypeOK
    <3> QED BY <3>1, <3>2, <3>3 DEF Acknowledged, DeliveryType
  <2> QED BY <2>3, <2>4
<1> QED BY <1>1, <1>2

(* A direction older than the last superseding reply is flagged, or no     *)
(* longer outstanding.                                                     *)
LEMMA DirectionStep ==
  ASSUME TypeOK, \A s \in Seqs : RowAt(s), ReplacedAreFlagged, [Next]_mailVars
  PROVE  ReplacedAreFlagged'
<1>0. top \in Nat /\ top' \in Nat /\ direction \in Nat /\ top <= top'
  <2>1. TypeOK'
    BY TypeStep
  <2>2. top \in Nat /\ top' \in Nat /\ direction \in Nat
    BY <2>1 DEF TypeOK
  <2>3. CASE \E supersede \in BOOLEAN : AppendParentReply(supersede)
    <3>1. top' = top + 1 \/ top' = top + 2
      BY <2>3 DEF AppendParentReply
    <3> QED BY <2>2, <3>1
  <2>4. CASE \E type \in Mail, key \in Keys \cup {NoOne} : AppendChildMail(type, key)
    BY <2>2, <2>4 DEF AppendChildMail
  <2>5. CASE \E s \in Seqs : CancelQueued(s) \/ CancelNotice(s)
    BY <2>2, <2>5 DEF CancelQueued, CancelNotice
  <2>6. CASE UNCHANGED top
    BY <2>2, <2>6
  <2> QED
    BY <2>3, <2>4, <2>5, <2>6, ZenonT(60)
       DEF Next, SetTransport, ClaimDelivery, AckDelivery, FenceDelivery, AckImplicit,
           FinishOutbox, FinishNotification, Finish, ClaimOutbox, RenewOutboxLease,
           MarkPeerSent, FinishPeerVerification, RequeuePeerFallback, RetryFailedChild,
           SupersedeClosedParentDeliveries, LeaseTick, mailVars
<1>1. CASE AppendParentReply(TRUE)
  <2>1. direction' = top'
    BY <1>1 DEF AppendParentReply
  <2>2. ASSUME NEW s \in Seqs, s < top', message'[s].type = "reply",
               delivery'[s].status = "outstanding"
        PROVE  delivery'[s].superseded
    <3> DEFINE reply == IF \E q \in Replaced(TRUE) : ~Queued(q) THEN top + 2 ELSE top + 1
    <3>0. s # reply /\ top' = reply
      <4>1. top' = reply
        BY <1>1 DEF AppendParentReply
      <4> HIDE DEF reply
      <4> QED BY <1>0, <2>2, <4>1 DEF Seqs
    <3>1. message[s].type = "reply"
      BY <1>1, <2>2, <3>0 DEF AppendParentReply
    <3>2. KeepsDelivery(s)
      BY <3>1, DeliveryStep
    <3>3. delivery[s].status = "outstanding" /\ delivery[s] \in DeliveryType
      BY <2>2, <3>2 DEF KeepsDelivery, TypeOK
    <3>4. CASE delivery[s].superseded
      BY <3>2, <3>4 DEF KeepsDelivery
    <3>5. CASE ~delivery[s].superseded
      <4>1. s \in Replaced(TRUE)
        BY <3>1, <3>3, <3>5 DEF Replaced
      <4>2. delivery'[s] = [delivery[s] EXCEPT !.superseded = TRUE,
                              !.status = IF Queued(s) THEN "superseded" ELSE @]
        BY <1>1, <3>0, <4>1 DEF AppendParentReply
      <4> QED BY <3>3, <4>2 DEF DeliveryType
    <3> QED BY <3>4, <3>5
  <2> QED BY <1>0, <2>1, <2>2 DEF ReplacedAreFlagged
<1>2. CASE direction' = direction
  <2>1. direction <= top'
    BY <1>0 DEF ReplacedAreFlagged
  <2>2. ASSUME NEW s \in Seqs, s < direction, message'[s].type = "reply",
               delivery'[s].status = "outstanding"
        PROVE  delivery'[s].superseded
    <3>1. message[s].type # "none"
      BY <1>0, <2>2 DEF RowAt, ReplacedAreFlagged, Seqs
    <3>2. KeepsDelivery(s)
      BY <3>1, DeliveryStep
    <3> QED BY <2>2, <3>2 DEF KeepsDelivery, ReplacedAreFlagged
  <2> QED BY <1>2, <2>1, <2>2 DEF ReplacedAreFlagged
<1> QED
  BY <1>1, <1>2, ZenonT(60)
     DEF Next, AppendChildMail, AppendParentReply, CancelQueued, CancelNotice, SetTransport,
         ClaimDelivery, AckDelivery, FenceDelivery, AckImplicit,
         FinishOutbox, FinishNotification, Finish, ClaimOutbox, RenewOutboxLease,
         MarkPeerSent, FinishPeerVerification, RequeuePeerFallback, RetryFailedChild,
         SupersedeClosedParentDeliveries, LeaseTick, mailVars

(* The three tables of the mailbox always describe the same messages: the  *)
(* conjunction of the invariants above is inductive.                       *)
THEOREM MailboxInvariant == Spec => []MailboxInv
<1> DEFINE RowInv == TypeOK /\ \A s \in Seqs : RowAt(s)
           DirInv == AnsweredAsksSettled /\ ReplacedAreFlagged
<1>1. Init => DirInv
  BY DEF Init, NoMessage, AnsweredAsksSettled, ReplacedAreFlagged
<1>2. RowInv /\ DirInv /\ [Next]_mailVars => DirInv'
  BY AsksStep, DirectionStep
<1>3. RowInv /\ DirInv => MailboxInv
  BY DEF MailboxInv
<1>4. Spec => []RowInv
  BY RowsInvariant
<1> QED BY <1>1, <1>2, <1>3, <1>4, PTL DEF Spec

(* Once the parent has replaced its directions, no reader is offered an    *)
(* older one (appendParentReply against claims and cancellations).         *)
THEOREM DirectionsSafe == Spec => []OneDirectionStands
<1>1. TypeOK /\ MailboxInv => OneDirectionStands
  <2> SUFFICES ASSUME TypeOK, ReplacedAreFlagged,
                      NEW c \in Consumers, NEW s \in Shown("child", FALSE, c)
               PROVE  s >= direction
      BY DEF OneDirectionStands, MailboxInv
  <2>1. /\ s \in Seqs /\ message[s].type = "reply"
        /\ delivery[s].status = "outstanding" /\ ~delivery[s].superseded
    BY DEF Shown, Recipient
  <2> QED BY <2>1 DEF ReplacedAreFlagged, TypeOK, Seqs
<1> QED BY <1>1, TypeCorrect, MailboxInvariant, PTL

(* No ask is left outstanding below a reply that answers it.               *)
THEOREM AsksSettled == Spec => []AnsweredAsksSettled
<1>1. MailboxInv => AnsweredAsksSettled
  BY DEF MailboxInv
<1> QED BY <1>1, MailboxInvariant, PTL
=============================================================================
