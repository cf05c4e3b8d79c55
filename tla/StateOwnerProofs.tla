-------------------------- MODULE StateOwnerProofs --------------------------
(***************************************************************************)
(* Theorems about StateOwner for any number of owners and requests.        *)
(*                                                                         *)
(* The steps of the lock and the paths change no call; they are treated    *)
(* together.  The inductive invariant is TypeOK /\ LedgerInv.              *)
(***************************************************************************)
EXTENDS StateOwner, TLAPS

(* A step of one process that leaves the requests alone and does not end   *)
(* a listener keeps the types.                                             *)
LEMMA GotoType ==
  ASSUME TypeOK, NEW o \in Owners, NEW step \in Steps, Goto(o, step),
         Listening(o) => step \in {"serve", "drain"},
         conn' = conn
  PROVE  /\ pc' \in [Owners -> Steps]
         /\ \A r \in Requests : conn'[r] # NoOne => Listening(conn[r])'
<1>1. pc' \in [Owners -> Steps]
  BY DEF TypeOK, Goto
<1>2. \A p \in Owners : Listening(p) => Listening(p)'
  BY DEF TypeOK, Goto, Listening
<1>3. \A r \in Requests : conn[r] # NoOne => conn[r] \in Owners /\ Listening(conn[r])
  BY DEF TypeOK
<1> QED BY <1>1, <1>2, <1>3

(* Nobody is connected to a process that has ended.                        *)
LEMMA SilenceType ==
  ASSUME TypeOK, NEW o \in Owners, NEW step \in Steps, Goto(o, step), Silence(o)
  PROVE  /\ pc' \in [Owners -> Steps]
         /\ inbox' \subseteq Owners \X Requests
         /\ cache' \in [Owners -> [Requests -> {"none", "ok", "failed"}]]
         /\ conn' \in [Requests -> Owners \cup {NoOne}]
         /\ \A r \in Requests : conn'[r] # NoOne => Listening(conn[r])'
<1>1. pc' \in [Owners -> Steps]
  BY DEF TypeOK, Goto
<1>2. inbox' \subseteq inbox
  BY DEF Silence
<1>3. cache' \in [Owners -> [Requests -> {"none", "ok", "failed"}]]
  BY DEF TypeOK, Silence, Fresh
<1>4. conn' \in [Requests -> Owners \cup {NoOne}]
  BY DEF TypeOK, Silence, Disconnected
<1>5. ASSUME NEW r \in Requests, conn'[r] # NoOne
      PROVE  Listening(conn[r])'
  <2>1. conn'[r] = conn[r] /\ conn[r] # o
    BY <1>5, OwnerAssumption DEF TypeOK, Silence, Disconnected, OwnerAssumption
  <2>2. conn[r] \in Owners /\ Listening(conn[r])
    BY <1>5, <2>1 DEF TypeOK
  <2> QED BY <2>1, <2>2 DEF TypeOK, Goto, Listening
<1> QED BY <1>1, <1>2, <1>3, <1>4, <1>5 DEF TypeOK

LEMMA StepType == TypeOK /\ [Next]_vars => TypeOK'
<1> SUFFICES ASSUME TypeOK, [Next]_vars PROVE TypeOK'
  OBVIOUS
<1> USE OwnerAssumption DEF OwnerAssumption
<1>1. CASE UNCHANGED vars
  BY <1>1 DEF TypeOK, vars, paths, calls, Listening
<1>2. ASSUME NEW o \in Owners, Starting(o) \/ StartFails(o)
      PROVE  TypeOK'
  <2>1. CASE Launch(o)
    BY <2>1, GotoType DEF Launch, TypeOK, paths, calls, Steps, Listening
  <2>2. CASE OpenLock(o)
    BY <2>2, GotoType DEF OpenLock, TypeOK, calls, Steps, Listening
  <2>3. CASE ReadLock(o)
    BY <2>3, GotoType DEF ReadLock, TypeOK, paths, calls, Steps, Listening
  <2>4. CASE BreakLock(o)
    BY <2>4, GotoType DEF BreakLock, TypeOK, calls, Steps, Listening
  <2>5. CASE ReopenLock(o)
    BY <2>5, GotoType DEF ReopenLock, TypeOK, calls, Steps, Listening
  <2>6. CASE NameLock(o)
    BY <2>6, GotoType DEF NameLock, TypeOK, calls, Steps, Listening
  <2>7. CASE OpenDatabase(o)
    BY <2>7, GotoType DEF OpenDatabase, TypeOK, paths, Steps, Listening
  <2>8. CASE SignalPrevious(o)
    <3>1. /\ pc[pidFile] = "serve"
          /\ pc' = [pc EXCEPT ![pidFile] = "drain"]
      BY <2>8 DEF SignalPrevious
    <3>2. pc' \in [Owners -> Steps]
      BY <3>1 DEF TypeOK, Steps
    <3>3. \A p \in Owners : Listening(p) => Listening(p)'
      BY <3>1 DEF TypeOK, Listening
    <3> QED BY <2>8, <3>2, <3>3 DEF SignalPrevious, TypeOK, paths, calls
  <2>9. CASE PreviousGone(o)
    BY <2>9, GotoType DEF PreviousGone, TypeOK, paths, calls, Steps, Listening
  <2>10. CASE UnlinkSocket(o)
    BY <2>10, GotoType DEF UnlinkSocket, TypeOK, calls, Steps, Listening
  <2>11. CASE Listen(o)
    BY <2>11, GotoType DEF Listen, TypeOK, calls, Steps, Listening
  <2>12. CASE WritePid(o)
    BY <2>12, GotoType DEF WritePid, TypeOK, calls, Steps, Listening
  <2>13. CASE StartFails(o)
    BY <2>13, GotoType DEF StartFails, TypeOK, calls, Steps, Listening
  <2> QED BY <1>2, <2>1, <2>2, <2>3, <2>4, <2>5, <2>6, <2>7, <2>8, <2>9, <2>10,
             <2>11, <2>12, <2>13 DEF Starting
<1>3. ASSUME NEW o \in Owners, Stopping(o) \/ IdleStop(o) \/ Crash(o)
      PROVE  TypeOK'
  <2>1. CASE Lifecycle(o)
    BY <2>1, GotoType DEF Lifecycle, TypeOK, paths, calls, Steps, Listening
  <2>2. CASE IdleStop(o)
    BY <2>2, GotoType DEF IdleStop, TypeOK, paths, calls, Steps, Listening
  <2>3. CASE Close(o)
    <3>1. Goto(o, "closed") /\ Silence(o)
      BY <2>3 DEF Close
    <3> QED BY <2>3, <3>1, SilenceType DEF Close, Silence, TypeOK, paths, Steps
  <2>4. CASE InspectPaths(o)
    BY <2>4, GotoType DEF InspectPaths, TypeOK, paths, calls, Steps, Listening
  <2>5. CASE RemoveSocket(o)
    BY <2>5, GotoType DEF RemoveSocket, TypeOK, calls, Steps, Listening
  <2>6. CASE RemoveLock(o)
    BY <2>6, GotoType DEF RemoveLock, TypeOK, calls, Steps, Listening
  <2>7. CASE Crash(o)
    <3>1. Goto(o, "dead") /\ Silence(o)
      BY <2>7 DEF Crash
    <3> QED BY <2>7, <3>1, SilenceType DEF Crash, Silence, TypeOK, paths, Steps
  <2> QED BY <1>3, <2>1, <2>2, <2>3, <2>4, <2>5, <2>6, <2>7 DEF Stopping
<1>4. ASSUME NEW r \in Requests, Connect(r) \/ Timeout(r) \/ GiveUp(r) \/ Respond(r)
      PROVE  TypeOK'
  <2>1. CASE Connect(r)
    BY <2>1 DEF Connect, TypeOK, paths, Listening
  <2>2. CASE Timeout(r)
    BY <2>2 DEF Timeout, TypeOK, paths, Listening
  <2>3. CASE GiveUp(r)
    BY <2>3 DEF GiveUp, TypeOK, paths, Listening
  <2>4. CASE Respond(r)
    <3>1. conn[r] \in Owners
      BY <2>4 DEF Respond, TypeOK
    <3> QED BY <2>4, <3>1 DEF Respond, TypeOK, paths, Listening
  <2> QED BY <1>4, <2>1, <2>2, <2>3, <2>4
<1>5. ASSUME NEW o \in Owners, NEW r \in Requests, Execute(o, r) \/ Forget(o, r)
      PROVE  TypeOK'
  <2>1. CASE Execute(o, r)
    <3>1. /\ inbox' \subseteq inbox
          /\ UNCHANGED <<paths, pc, owns, conn, answer>>
          /\ ledger' \in {ledger, ledger \cup {r}}
      BY <2>1 DEF Execute
    <3>2. applied' \in [Requests -> Nat]
      BY <2>1 DEF Execute, TypeOK
    <3>3. cache' \in [Owners -> [Requests -> {"none", "ok", "failed"}]]
      <4>1. cache' = cache \/ \E a \in {"ok", "failed"} : cache' = [cache EXCEPT ![o][r] = a]
        BY <2>1 DEF Execute
      <4>2. ASSUME NEW a \in {"ok", "failed"}, cache' = [cache EXCEPT ![o][r] = a]
            PROVE  cache' \in [Owners -> [Requests -> {"none", "ok", "failed"}]]
        <5>1. [cache[o] EXCEPT ![r] = a] \in [Requests -> {"none", "ok", "failed"}]
          BY DEF TypeOK
        <5> QED BY <4>2, <5>1 DEF TypeOK
      <4> QED BY <4>1, <4>2 DEF TypeOK
    <3> QED BY <3>1, <3>2, <3>3 DEF TypeOK, paths, Listening
  <2>2. CASE Forget(o, r)
    BY <2>2 DEF Forget, TypeOK, paths, Listening
  <2> QED BY <1>5, <2>1, <2>2
<1> QED BY <1>1, <1>2, <1>3, <1>4, <1>5 DEF Next

(* Every value stays in its set, and a client is connected to nobody who   *)
(* has stopped listening.                                                  *)
THEOREM TypeCorrect == Spec => []TypeOK
<1>1. Init => TypeOK
  BY OwnerAssumption DEF OwnerAssumption, Init, TypeOK, Steps, Fresh
<1> QED BY <1>1, StepType, PTL DEF Spec

----------------------------------------------------------------------------
(* The steps that change what the ledger's invariant speaks of.            *)

LEMMA PathsKeepCalls ==
  ASSUME NEW o \in Owners, Starting(o) \/ StartFails(o) \/ Stopping(o) \/ IdleStop(o) \/ Crash(o)
  PROVE  UNCHANGED calls \/ OpenDatabase(o) \/ Silence(o)
  BY DEF Starting, StartFails, Stopping, IdleStop, Crash, Launch, OpenLock, ReadLock, BreakLock,
         ReopenLock, NameLock, SignalPrevious, PreviousGone, UnlinkSocket, Listen, WritePid,
         Lifecycle, Close, InspectPaths, RemoveSocket, RemoveLock

LEMMA StepLedger == TypeOK /\ LedgerInv /\ [Next]_vars => LedgerInv'
<1> SUFFICES ASSUME TypeOK, LedgerInv, [Next]_vars, NEW q \in Requests
             PROVE  LedgerAt(q)'
  BY DEF LedgerInv
<1>0. LedgerAt(q)
  BY DEF LedgerInv
<1>1. CASE UNCHANGED calls
  BY <1>0, <1>1 DEF LedgerAt, calls
<1>2. ASSUME NEW o \in Owners, OpenDatabase(o)
      PROVE  LedgerAt(q)'
  <2>1. PICK old \in SUBSET {r \in Requests : Old(r)} : ledger' = ledger \ old
    BY <1>2 DEF OpenDatabase
  <2>2. q \in old => answer[q] # "none" /\ \A p \in Owners : <<p, q>> \notin inbox
    BY DEF Old
  <2> QED BY <1>0, <1>2, <2>1, <2>2 DEF OpenDatabase, LedgerAt
<1>3. ASSUME NEW o \in Owners, Silence(o)
      PROVE  LedgerAt(q)'
  <2>1. /\ inbox' \subseteq inbox
        /\ conn'[q] # NoOne => conn[q] # NoOne
    BY <1>3 DEF Silence, Disconnected, TypeOK
  <2>2. \A p \in Owners : cache'[p][q] = cache[p][q] \/ cache'[p][q] = "none"
    BY <1>3 DEF Silence, TypeOK, Fresh
  <2> QED BY <1>0, <1>3, <2>1, <2>2 DEF Silence, LedgerAt
<1>4. ASSUME NEW r \in Requests, Connect(r) \/ Timeout(r) \/ GiveUp(r)
      PROVE  LedgerAt(q)'
  <2>1. CASE Connect(r)
    <3>1. q # r => \A p \in Owners : <<p, q>> \notin inbox => <<p, q>> \notin inbox'
      BY <2>1 DEF Connect
    <3>2. conn'[q] # NoOne => answer[q] = "none"
      BY <1>0, <2>1 DEF Connect, LedgerAt, TypeOK
    <3> QED BY <1>0, <2>1, <3>1, <3>2 DEF Connect, LedgerAt
  <2>2. CASE Timeout(r)
    BY <1>0, <2>2 DEF Timeout, LedgerAt, TypeOK
  <2>3. CASE GiveUp(r)
    BY <1>0, <2>3 DEF GiveUp, LedgerAt, TypeOK
  <2> QED BY <1>4, <2>1, <2>2, <2>3
<1>5. ASSUME NEW r \in Requests, Respond(r)
      PROVE  LedgerAt(q)'
  <2>1. conn[r] \in Owners
    BY <1>5 DEF Respond, TypeOK
  <2>2. /\ answer'[q] = "ok" => answer[q] = "ok" \/ cache[conn[r]][q] = "ok"
        /\ answer[q] # "none" => answer'[q] # "none"
        /\ conn'[q] # NoOne => conn[q] # NoOne /\ answer'[q] = answer[q]
    BY <1>5 DEF Respond, TypeOK
  <2> QED BY <1>0, <1>5, <2>1, <2>2 DEF Respond, LedgerAt
<1>6. ASSUME NEW o \in Owners, NEW r \in Requests, Execute(o, r)
      PROVE  LedgerAt(q)'
  <2>1. /\ <<o, r>> \in inbox
        /\ inbox' \subseteq inbox
        /\ UNCHANGED <<answer, conn>>
    BY <1>6 DEF Execute
  <2>2. CASE UNCHANGED <<ledger, cache, applied>>
    BY <1>0, <2>1, <2>2 DEF LedgerAt
  <2>3. CASE /\ Recorded(r)
             /\ cache' = [cache EXCEPT ![o][r] = "ok"]
             /\ UNCHANGED <<ledger, applied>>
    <3>1. \A p \in Owners : cache'[p][q] = "ok" => cache[p][q] = "ok" \/ q \in ledger
      BY <2>3 DEF Recorded, TypeOK
    <3> QED BY <1>0, <2>1, <2>3, <3>1 DEF LedgerAt
  <2>4. CASE /\ ~Recorded(r)
             /\ ledger' = ledger \cup {r}
             /\ applied' = [applied EXCEPT ![r] = @ + 1]
             /\ cache' = [cache EXCEPT ![o][r] = "ok"]
    <3>1. CASE q = r
      <4>1. applied[r] = 0
        BY <1>0, <2>1, <2>4, <3>1 DEF LedgerAt, Recorded
      <4>2. applied'[r] = 1
        BY <2>4, <4>1 DEF TypeOK
      <4> QED BY <1>0, <2>1, <2>4, <3>1, <4>2 DEF LedgerAt
    <3>2. CASE q # r
      <4>1. applied'[q] = applied[q] /\ (q \in ledger' <=> q \in ledger)
        BY <2>4, <3>2 DEF TypeOK
      <4>2. \A p \in Owners : cache'[p][q] = cache[p][q]
        BY <2>4, <3>2 DEF TypeOK
      <4> QED BY <1>0, <2>1, <4>1, <4>2 DEF LedgerAt
    <3> QED BY <3>1, <3>2
  <2>5. CASE cache' = [cache EXCEPT ![o][r] = "failed"] /\ UNCHANGED <<ledger, applied>>
    <3>1. \A p \in Owners : cache'[p][q] = "ok" => cache[p][q] = "ok"
      BY <2>5 DEF TypeOK
    <3> QED BY <1>0, <2>1, <2>5, <3>1 DEF LedgerAt
  <2> QED BY <1>6, <2>2, <2>3, <2>4, <2>5 DEF Execute
<1>7. ASSUME NEW o \in Owners, NEW r \in Requests, Forget(o, r)
      PROVE  LedgerAt(q)'
  <2>1. \A p \in Owners : cache'[p][q] = "ok" => cache[p][q] = "ok"
    BY <1>7 DEF Forget, TypeOK
  <2> QED BY <1>0, <1>7, <2>1 DEF Forget, LedgerAt
<1> QED BY <1>1, <1>2, <1>3, <1>4, <1>5, <1>6, <1>7, PathsKeepCalls DEF Next, vars

(* What the ledger knows is what was committed, for as long as a request   *)
(* can still reach an owner.                                               *)
THEOREM LedgerTrue == Spec => []LedgerInv
<1>1. Init => TypeOK /\ LedgerInv
  <2>1. Init => TypeOK
    BY OwnerAssumption DEF OwnerAssumption, Init, TypeOK, Steps, Fresh
  <2>2. Init => LedgerInv
    BY DEF Init, LedgerInv, LedgerAt, Fresh
  <2> QED BY <2>1, <2>2
<1>2. TypeOK /\ LedgerInv /\ [Next]_vars => (TypeOK /\ LedgerInv)'
  BY StepType, StepLedger
<1> QED BY <1>1, <1>2, PTL DEF Spec

----------------------------------------------------------------------------
(* One step of the owners and clients is one step of the contract, or none.*)
LEMMA StepImplements ==
  TypeOK /\ LedgerInv /\ [Next]_vars => [Contract!Next]_<<applied, answer>>
<1> SUFFICES ASSUME TypeOK, LedgerInv, [Next]_vars
             PROVE  [Contract!Next]_<<applied, answer>>
  OBVIOUS
<1>1. CASE UNCHANGED calls
  BY <1>1 DEF calls
<1>2. ASSUME NEW o \in Owners, OpenDatabase(o) \/ Silence(o)
      PROVE  UNCHANGED <<applied, answer>>
  BY <1>2 DEF OpenDatabase, Silence
<1>3. ASSUME NEW r \in Requests, Connect(r) \/ Timeout(r)
      PROVE  UNCHANGED <<applied, answer>>
  BY <1>3 DEF Connect, Timeout
<1>4. ASSUME NEW r \in Requests, GiveUp(r)
      PROVE  Contract!Answer(r)
  BY <1>4 DEF GiveUp, Contract!Answer
<1>5. ASSUME NEW r \in Requests, Respond(r)
      PROVE  Contract!Answer(r) \/ UNCHANGED <<applied, answer>>
  <2>1. conn[r] \in Owners /\ LedgerAt(r)
    BY <1>5 DEF Respond, TypeOK, LedgerInv
  <2>2. /\ cache[conn[r]][r] \in {"ok", "failed"}
        /\ cache[conn[r]][r] = "ok" => applied[r] = 1
        /\ answer[r] = "none"
    BY <1>5, <2>1 DEF Respond, TypeOK, LedgerAt
  <2> QED BY <1>5, <2>1, <2>2 DEF Respond, Contract!Answer
<1>6. ASSUME NEW o \in Owners, NEW r \in Requests, Execute(o, r)
      PROVE  Contract!Apply(r) \/ UNCHANGED <<applied, answer>>
  <2>1. CASE applied' = applied
    BY <1>6, <2>1 DEF Execute
  <2>2. CASE applied' # applied
    <3>1. /\ <<o, r>> \in inbox /\ r \notin ledger /\ answer' = answer
          /\ applied' = [applied EXCEPT ![r] = @ + 1]
      BY <1>6, <2>2 DEF Execute, Recorded
    <3>2. applied[r] = 0
      BY <3>1 DEF LedgerInv, LedgerAt
    <3> QED BY <3>1, <3>2 DEF Contract!Apply
  <2> QED BY <2>1, <2>2
<1>7. ASSUME NEW o \in Owners, NEW r \in Requests, Forget(o, r)
      PROVE  UNCHANGED <<applied, answer>>
  BY <1>7 DEF Forget
<1> QED BY <1>1, <1>2, <1>3, <1>4, <1>5, <1>6, <1>7, PathsKeepCalls DEF Next, vars, Contract!Next

(* The owners, however many race, crash and take over, keep the promise a  *)
(* client that repeats its request relies on.                              *)
THEOREM ContractKept == Spec => Implements
<1>1. Init => Contract!Init
  BY DEF Init, Contract!Init
<1>2. TypeOK /\ LedgerInv /\ [Next]_vars => [Contract!Next]_<<applied, answer>>
  BY StepImplements
<1> QED BY <1>1, <1>2, TypeCorrect, LedgerTrue, PTL DEF Spec, Implements, Contract!Spec
=============================================================================
