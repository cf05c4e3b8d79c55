----------------------------- MODULE MCMailbox -----------------------------
(* A small instance of Mailbox for TLC.                                     *)
EXTENDS Mailbox, TLC

(* BOUND: the transport and the key, which tell no two messages apart, are  *)
(* set on the first message only.                                           *)
FirstOnly ==
  \A s \in Seqs : s > 1 => delivery[s].transport = "unset" /\ message[s].key = NoOne

(* BOUND: a peer channel and a lease are used on the first row only; the    *)
(* others are typed.                                                        *)
TypedLater == \A s \in Seqs : s > 1 => outbox[s].peer = "none" /\ outbox[s].holder = NoOne

(* BOUND: the third message is a direction that follows a direction or an   *)
(* ask.                                                                     *)
ThirdDirects ==
  top = 3 => message[3].type = "reply" /\ message[1].type \in {"reply", "ask"}
Symmetry == Permutations(Holders)
============================================================================
