---------------------------- MODULE MCChatTurns ----------------------------
(* Small instances of ChatTurns for TLC.  Each names what may happen, and   *)
(* how often; what it does not name does not happen.                        *)
EXTENDS ChatTurns, TLC

Times(counts) == [e \in Events |-> IF e \in DOMAIN counts THEN counts[e] ELSE 0]

CutShort == Times([stop |-> 1, exit |-> 1, mute |-> 1, fail |-> 1, crash |-> 1])
Rushed   == Times([interrupt |-> 1, now |-> 1, edit |-> 1])
Renewed  == Times([drain |-> 2, remove |-> 1, edit |-> 1])

Symmetry == Permutations(Procs) \cup Permutations(Sent) \cup Permutations(Msgs \ Sent)
=============================================================================
