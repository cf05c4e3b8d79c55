------------------------ MODULE MessagePromiseProofs ------------------------
(***************************************************************************)
(* What the promise of the chat daemon comes to, for any set of messages.  *)
(* ChatTurns keeps the promise (PromiseKept in ChatTurnsProofs), so what   *)
(* is proved here holds of every behaviour that theorem is about.          *)
(***************************************************************************)
EXTENDS MessagePromise, TLAPS

PromiseInv ==
  /\ waiting \subseteq known /\ shown \subseteq known
  /\ turns \in Seq(Msgs)
  /\ OneTurnEach

(* Turning a waiting message into a turn keeps every turn a turn of its    *)
(* own: the new one was waiting, and none of the old ones was.             *)
LEMMA TurnKeepsInv ==
  ASSUME NEW m \in Msgs, PromiseInv, Turn(m)
  PROVE  PromiseInv'
<1>1. /\ DOMAIN turns = 1 .. Len(turns) /\ Len(turns) \in Nat
      /\ turns' \in Seq(Msgs)
      /\ DOMAIN turns' = 1 .. Len(turns) + 1
  BY DEF PromiseInv, Turn
<1>2. /\ \A i \in DOMAIN turns : turns'[i] = turns[i]
      /\ turns'[Len(turns) + 1] = m
  BY <1>1 DEF PromiseInv, Turn
<1>3. /\ m \in waiting /\ m \in shown
      /\ waiting' = waiting \ {m} /\ shown' = shown /\ known' = known
  BY DEF Turn
<1>4. \A i \in DOMAIN turns : turns[i] \in shown /\ turns[i] \notin waiting
  BY DEF PromiseInv, OneTurnEach
<1>5. \A i \in DOMAIN turns' : turns'[i] \in shown' \ waiting'
  <2>1. SUFFICES ASSUME NEW i \in 1 .. Len(turns) + 1
                 PROVE  turns'[i] \in shown' \ waiting'
    BY <1>1
  <2>2. CASE i \in DOMAIN turns
    BY <2>2, <1>2, <1>3, <1>4
  <2>3. CASE i = Len(turns) + 1
    BY <2>3, <1>2, <1>3
  <2>4. QED
    BY <2>1, <2>2, <2>3, <1>1
<1>6. \A i, j \in DOMAIN turns' : turns'[i] = turns'[j] => i = j
  <2>1. SUFFICES ASSUME NEW i \in 1 .. Len(turns) + 1, NEW j \in 1 .. Len(turns) + 1,
                        turns'[i] = turns'[j]
                 PROVE  i = j
    BY <1>1
  <2>2. CASE i \in DOMAIN turns /\ j \in DOMAIN turns
    BY <2>1, <2>2, <1>2 DEF PromiseInv, OneTurnEach
  <2>3. CASE i \in DOMAIN turns /\ j = Len(turns) + 1
    BY <2>1, <2>3, <1>2, <1>3, <1>4
  <2>4. CASE i = Len(turns) + 1 /\ j \in DOMAIN turns
    BY <2>1, <2>4, <1>2, <1>3, <1>4
  <2>5. QED
    BY <2>1, <2>2, <2>3, <2>4, <1>1
<1>7. QED
  BY <1>1, <1>3, <1>5, <1>6 DEF PromiseInv, OneTurnEach

(* Whatever the promise allows, a message becomes a turn once at most,     *)
(* after it was shown, and never again.                                    *)
THEOREM TurnsAreOnce == Spec => []OneTurnEach
<1>1. Init => PromiseInv
  BY DEF Init, PromiseInv, OneTurnEach
<1>2. PromiseInv /\ [Next]_vars => PromiseInv'
  <2>1. SUFFICES ASSUME PromiseInv, [Next]_vars PROVE PromiseInv'
    OBVIOUS
  <2>2. CASE \E m \in Msgs : Accept(m)
    BY <2>1, <2>2 DEF Accept, PromiseInv, OneTurnEach
  <2>3. CASE \E m \in Msgs : Show(m)
    BY <2>1, <2>3 DEF Show, PromiseInv, OneTurnEach
  <2>4. CASE \E m \in Msgs : Turn(m)
    BY <2>1, <2>4, TurnKeepsInv
  <2>5. CASE \E m \in Msgs : Remove(m)
    BY <2>1, <2>5 DEF Remove, PromiseInv, OneTurnEach
  <2>6. CASE \E lost \in SUBSET waiting : GiveUp(lost)
    BY <2>1, <2>6 DEF GiveUp, PromiseInv, OneTurnEach
  <2>7. CASE \E lost \in SUBSET waiting : Crash(lost)
    BY <2>1, <2>7 DEF Crash, PromiseInv, OneTurnEach
  <2>8. CASE UNCHANGED vars
    BY <2>1, <2>8 DEF vars, PromiseInv, OneTurnEach
  <2>9. QED
    BY <2>1, <2>2, <2>3, <2>4, <2>5, <2>6, <2>7, <2>8 DEF Next
<1>3. PromiseInv => OneTurnEach
  BY DEF PromiseInv
<1>4. QED
  BY <1>1, <1>2, <1>3, PTL DEF Spec
=============================================================================
