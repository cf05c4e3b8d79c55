-------------------------- MODULE RequestContract --------------------------
(***************************************************************************)
(* What the state owner promises a client that repeats one request under   *)
(* one id until it is answered: whatever processes start, stop and die, the*)
(* operation is committed at most once, and "ok" is said of nothing else.  *)
(***************************************************************************)
EXTENDS Naturals

CONSTANT Requests

VARIABLES
  applied,   \* request -> how often its operation was committed
  answer     \* request -> what its client was told, or "none"

Init ==
  /\ applied = [r \in Requests |-> 0]
  /\ answer = [r \in Requests |-> "none"]

Apply(r) ==
  /\ applied[r] = 0
  /\ applied' = [applied EXCEPT ![r] = 1]
  /\ UNCHANGED answer

(* A failure or a passed deadline says nothing of the database.            *)
Answer(r) ==
  /\ answer[r] = "none"
  /\ \/ applied[r] = 1 /\ answer' = [answer EXCEPT ![r] = "ok"]
     \/ \E a \in {"failed", "unknown"} : answer' = [answer EXCEPT ![r] = a]
  /\ UNCHANGED applied

Next == \E r \in Requests : Apply(r) \/ Answer(r)

Spec == Init /\ [][Next]_<<applied, answer>>
=============================================================================
