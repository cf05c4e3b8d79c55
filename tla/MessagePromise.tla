--------------------------- MODULE MessagePromise ---------------------------
(***************************************************************************)
(* What the chat daemon promises of a message a person gives it.  It waits *)
(* until it is shown, and only the person's removal or a crash ends that.  *)
(* What is shown becomes a turn, once, unless the agent is lost before.    *)
(***************************************************************************)
EXTENDS Naturals, Sequences

CONSTANT Msgs

VARIABLES
  known,     \* messages the daemon has taken
  waiting,   \* those that may still become a turn
  shown,     \* those the transcript shows
  turns,     \* those that became a turn, in order
  removals,  \* how often the person took a message back
  crashes    \* how often the daemon died

Init ==
  /\ known = {} /\ waiting = {} /\ shown = {} /\ turns = <<>>
  /\ removals = 0 /\ crashes = 0

Accept(m) ==
  /\ m \notin known
  /\ known' = known \cup {m} /\ waiting' = waiting \cup {m}
  /\ shown' \in {shown, shown \cup {m}}
  /\ UNCHANGED <<turns, removals, crashes>>

Show(m) ==
  /\ m \in waiting \ shown
  /\ shown' = shown \cup {m}
  /\ UNCHANGED <<known, waiting, turns, removals, crashes>>

Turn(m) ==
  /\ m \in waiting \cap shown
  /\ waiting' = waiting \ {m} /\ turns' = Append(turns, m)
  /\ UNCHANGED <<known, shown, removals, crashes>>

Remove(m) ==
  /\ m \in waiting \ shown
  /\ waiting' = waiting \ {m} /\ removals' = removals + 1
  /\ UNCHANGED <<known, shown, turns, crashes>>

(* The agent that was to answer is gone.                                   *)
GiveUp(lost) ==
  /\ lost \subseteq waiting \cap shown
  /\ waiting' = waiting \ lost
  /\ UNCHANGED <<known, shown, turns, removals, crashes>>

Crash(lost) ==
  /\ lost \subseteq waiting
  /\ waiting' = waiting \ lost /\ crashes' = crashes + 1
  /\ UNCHANGED <<known, shown, turns, removals>>

Next ==
  \/ \E m \in Msgs : Accept(m) \/ Show(m) \/ Turn(m) \/ Remove(m)
  \/ \E lost \in SUBSET waiting : GiveUp(lost) \/ Crash(lost)

vars == <<known, waiting, shown, turns, removals, crashes>>
Spec == Init /\ [][Next]_vars

----------------------------------------------------------------------------
(* A message is a turn at most once, it was shown before, and none that    *)
(* was a turn waits to be one again.                                       *)
OneTurnEach ==
  /\ \A i \in DOMAIN turns : turns[i] \in shown \ waiting
  /\ \A i, j \in DOMAIN turns : turns[i] = turns[j] => i = j
=============================================================================
