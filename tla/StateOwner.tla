----------------------------- MODULE StateOwner -----------------------------
(***************************************************************************)
(* The state owner: the one process that writes the database, started by   *)
(* whichever client finds nobody listening, and the request ledger that    *)
(* makes a retried request take effect once (src/db/state-owner.ts).       *)
(*                                                                         *)
(* Owners name processes; each runs once.  The lock, the socket and the    *)
(* pid file are paths of the file system: a path holds the file of one     *)
(* owner, and who unlinks a path removes whatever file is there.  A        *)
(* transaction of the database is atomic, whoever commits it.              *)
(***************************************************************************)
EXTENDS Naturals

CONSTANTS
  Owners,      \* processes that are started as owner
  Past,        \* owners that died before and left their files behind
  Requests,    \* requests of clients, each with an id of its own
  NoOne

ASSUME OwnerAssumption == NoOne \notin Owners /\ Past \subseteq Owners

VARIABLES
  lock,      \* the owner whose file is at the lock path, or NoOne
  named,     \* the owners that have written their pid into their lock file
  sock,      \* the owner bound to the socket path, or NoOne
  pidFile,   \* the owner named by owner.pid, or NoOne
  pc,        \* owner -> how far its process is
  owns,      \* owner -> what it found to be its own when it cleans up
  ledger,    \* requests recorded in state_owner_requests
  inbox,     \* <<owner, request>> written to the owner's sockets, not yet read
  cache,     \* owner -> request -> the outcome it remembers
  conn,      \* request -> the owner its client is connected to, or NoOne
  answer,    \* request -> what its client was told
  applied    \* history: how often the request's operation was committed

paths == <<lock, named, sock, pidFile>>
calls == <<ledger, inbox, cache, conn, answer, applied>>
vars  == <<paths, pc, owns, calls>>

Alive(o)     == pc[o] \notin {"off", "dead"}
Listening(o) == pc[o] \in {"bound", "serve", "drain"}
LockedByAll(o) == TRUE   \* mutant of LockedBy: the lock is not read
LockedBy(o)  == lock = o /\ o \in named
Fresh        == [r \in Requests |-> "none"]

Init ==
  /\ lock \in Past \cup {NoOne}
  /\ named = Past
  /\ sock \in Past \cup {NoOne}
  /\ pidFile \in Past \cup {NoOne}
  /\ pc = [o \in Owners |-> IF o \in Past THEN "dead" ELSE "off"]
  /\ owns = [o \in Owners |-> {}]
  /\ ledger = {}
  /\ inbox = {}
  /\ cache = [o \in Owners |-> Fresh]
  /\ conn = [r \in Requests |-> NoOne]
  /\ answer = [r \in Requests |-> "none"]
  /\ applied = [r \in Requests |-> 0]

----------------------------------------------------------------------------
(* Starting (startStateOwner).                                             *)

Goto(o, step) == pc' = [pc EXCEPT ![o] = step]

(* A client that is refused starts an owner and goes on trying.            *)
Launch(o) ==
  /\ pc[o] = "off"
  /\ ~(sock # NoOne /\ Listening(sock))
  /\ \E r \in Requests : answer[r] = "none" /\ conn[r] = NoOne
  /\ Goto(o, "open")
  /\ UNCHANGED <<paths, owns, calls>>

OpenLock(o) ==
  /\ pc[o] = "open"
  /\ IF lock = NoOne THEN lock' = o /\ Goto(o, "name") ELSE UNCHANGED lock /\ Goto(o, "read")
  /\ UNCHANGED <<named, sock, pidFile, owns, calls>>

(* The holder lives: give up.  It is dead, or no pid could be read for a   *)
(* second: take its lock away.                                             *)
ReadLock(o) ==
  /\ pc[o] = "read"
  /\ IF lock \in named /\ Alive(lock) THEN Goto(o, "dead") ELSE Goto(o, "break")
  /\ UNCHANGED <<paths, owns, calls>>

BreakLock(o) ==
  /\ pc[o] = "break"
  /\ lock' = NoOne
  /\ Goto(o, "reopen")
  /\ UNCHANGED <<named, sock, pidFile, owns, calls>>

ReopenLock(o) ==
  /\ pc[o] = "reopen"
  /\ IF lock = NoOne THEN lock' = o /\ Goto(o, "name") ELSE UNCHANGED lock /\ Goto(o, "dead")
  /\ UNCHANGED <<named, sock, pidFile, owns, calls>>

NameLock(o) ==
  /\ pc[o] = "name"
  /\ named' = named \cup {o}
  /\ Goto(o, "init")
  /\ UNCHANGED <<lock, sock, pidFile, owns, calls>>

(* The ledger forgets what was applied more than a day ago.  A client      *)
(* gives up after 130 seconds, so no request that old is repeated or still *)
(* waits to be read.                                                       *)
OldAll(r) == r \in ledger   \* mutant of Old: the age is not looked at
Old(r) == r \in ledger /\ answer[r] # "none" /\ \A o \in Owners : <<o, r>> \notin inbox

OpenDatabase(o) ==
  /\ pc[o] = "init"
  /\ \E old \in SUBSET {r \in Requests : Old(r)} : ledger' = ledger \ old
  /\ Goto(o, "await")
  /\ UNCHANGED <<paths, owns, inbox, cache, conn, answer, applied>>

(* The database cannot be opened, or the previous owner does not exit.     *)
StartFails(o) ==
  /\ pc[o] \in {"init", "await"}
  /\ lock' = NoOne
  /\ Goto(o, "dead")
  /\ UNCHANGED <<named, sock, pidFile, owns, calls>>

PreviousAlive(o) == pidFile \notin {NoOne, o} /\ Alive(pidFile)

(* waitForPreviousOwner: whoever owner.pid names is told to stop after two *)
(* seconds, and its socket is taken once it is gone.                       *)
SignalPrevious(o) ==
  /\ pc[o] = "await"
  /\ PreviousAlive(o)
  /\ pc[pidFile] = "serve"
  /\ pc' = [pc EXCEPT ![pidFile] = "drain"]
  /\ UNCHANGED <<paths, owns, calls>>

PreviousGone(o) ==
  /\ pc[o] = "await"
  /\ ~PreviousAlive(o)
  /\ Goto(o, "bind")
  /\ UNCHANGED <<paths, owns, calls>>

UnlinkSocket(o) ==
  /\ pc[o] = "bind"
  /\ sock' = NoOne
  /\ Goto(o, "listen")
  /\ UNCHANGED <<lock, named, pidFile, owns, calls>>

(* Another owner may have bound the path since: the start fails.           *)
Listen(o) ==
  /\ pc[o] = "listen"
  /\ IF sock = NoOne
     THEN sock' = o /\ Goto(o, "bound") /\ UNCHANGED lock
     ELSE lock' = NoOne /\ Goto(o, "dead") /\ UNCHANGED sock
  /\ UNCHANGED <<named, pidFile, owns, calls>>

WritePid(o) ==
  /\ pc[o] = "bound"
  /\ pidFile' = o
  /\ Goto(o, "serve")
  /\ UNCHANGED <<lock, named, sock, owns, calls>>

----------------------------------------------------------------------------
(* Stopping (stopStateOwner).                                              *)

(* Every second an owner looks whether the socket path still exists and    *)
(* the lock is still its own.                                              *)
Lifecycle(o) ==
  /\ pc[o] = "serve"
  /\ sock = NoOne \/ ~LockedBy(o)
  /\ Goto(o, "drain")
  /\ UNCHANGED <<paths, owns, calls>>

IdleStop(o) ==
  /\ pc[o] = "serve"
  /\ \A r \in Requests : conn[r] # o
  /\ Goto(o, "drain")
  /\ UNCHANGED <<paths, owns, calls>>

DisconnectedNever(o) == conn   \* mutant of Disconnected
Disconnected(o) == [r \in Requests |-> IF conn[r] = o THEN NoOne ELSE conn[r]]

(* The process ends what it does for its clients, and forgets it.          *)
Silence(o) ==
  /\ conn' = Disconnected(o)
  /\ inbox' = {m \in inbox : m[1] # o}
  /\ cache' = [cache EXCEPT ![o] = Fresh]
  /\ UNCHANGED <<ledger, answer, applied>>

Close(o) ==
  /\ pc[o] = "drain"
  /\ Goto(o, "closed")
  /\ Silence(o)
  /\ UNCHANGED <<paths, owns>>

(* The lock is read and the socket's identity compared; what was found to  *)
(* be its own is removed afterwards, the socket first.                     *)
InspectPaths(o) ==
  /\ pc[o] = "closed"
  /\ owns' = [owns EXCEPT ![o] = {p \in {"lock", "sock"} :
       (p = "lock" /\ LockedBy(o)) \/ (p = "sock" /\ sock = o)}]
  /\ Goto(o, "remove")
  /\ UNCHANGED <<paths, calls>>

RemoveSocket(o) ==
  /\ pc[o] = "remove"
  /\ sock' = IF "sock" \in owns[o] THEN NoOne ELSE sock
  /\ Goto(o, "release")
  /\ UNCHANGED <<lock, named, pidFile, owns, calls>>

RemoveLock(o) ==
  /\ pc[o] = "release"
  /\ lock' = IF "lock" \in owns[o] THEN NoOne ELSE lock
  /\ pidFile' = IF "lock" \in owns[o] THEN NoOne ELSE pidFile
  /\ Goto(o, "dead")
  /\ UNCHANGED <<named, sock, owns, calls>>

Crash(o) ==
  /\ Alive(o)
  /\ Goto(o, "dead")
  /\ Silence(o)
  /\ UNCHANGED <<paths, owns>>

----------------------------------------------------------------------------
(* Requests (callStateOwner, ownerRequest).                                *)

Connect(r) ==
  /\ answer[r] = "none" /\ conn[r] = NoOne
  /\ sock # NoOne /\ Listening(sock)
  /\ conn' = [conn EXCEPT ![r] = sock]
  /\ inbox' = inbox \cup {<<sock, r>>}
  /\ UNCHANGED <<paths, pc, owns, ledger, cache, answer, applied>>

(* No answer within five seconds: the same request is sent again.          *)
Timeout(r) ==
  /\ conn[r] # NoOne
  /\ conn' = [conn EXCEPT ![r] = NoOne]
  /\ UNCHANGED <<paths, pc, owns, ledger, inbox, cache, answer, applied>>

(* The deadline passed or the connection was reset: the outcome is unknown.*)
GiveUp(r) ==
  /\ answer[r] = "none"
  /\ answer' = [answer EXCEPT ![r] = "unknown"]
  /\ conn' = [conn EXCEPT ![r] = NoOne]
  /\ UNCHANGED <<paths, pc, owns, ledger, inbox, cache, applied>>

RecordedNever(r) == FALSE   \* mutant of Recorded: only the memory is asked
Recorded(r) == r \in ledger

(* An owner remembers a request it has seen; else one transaction finds it *)
(* in the ledger, or applies it and records it, or fails and does neither. *)
Execute(o, r) ==
  /\ <<o, r>> \in inbox
  /\ Listening(o)
  /\ inbox' = inbox \ {<<o, r>>}
  /\ \/ /\ cache[o][r] # "none"
        /\ UNCHANGED <<ledger, cache, applied>>
     \/ /\ cache[o][r] = "none" /\ Recorded(r)
        /\ cache' = [cache EXCEPT ![o][r] = "ok"]
        /\ UNCHANGED <<ledger, applied>>
     \/ /\ cache[o][r] = "none" /\ ~Recorded(r)
        /\ ledger' = ledger \cup {r}
        /\ applied' = [applied EXCEPT ![r] = @ + 1]
        /\ cache' = [cache EXCEPT ![o][r] = "ok"]
     \/ /\ cache[o][r] = "none"
        /\ cache' = [cache EXCEPT ![o][r] = "failed"]
        /\ UNCHANGED <<ledger, applied>>
  /\ UNCHANGED <<paths, pc, owns, conn, answer>>

Respond(r) ==
  LET o == conn[r] IN
  /\ o # NoOne
  /\ <<o, r>> \notin inbox
  /\ cache[o][r] # "none"
  /\ answer' = [answer EXCEPT ![r] = cache[o][r]]
  /\ conn' = [conn EXCEPT ![r] = NoOne]
  /\ UNCHANGED <<paths, pc, owns, ledger, inbox, cache, applied>>

(* A thousand requests later the owner has forgotten an outcome.           *)
Forget(o, r) ==
  /\ cache[o][r] # "none"
  /\ cache' = [cache EXCEPT ![o][r] = "none"]
  /\ UNCHANGED <<paths, pc, owns, ledger, inbox, conn, answer, applied>>

----------------------------------------------------------------------------
Starting(o) ==
  \/ Launch(o) \/ OpenLock(o) \/ ReadLock(o) \/ BreakLock(o) \/ ReopenLock(o)
  \/ NameLock(o) \/ OpenDatabase(o) \/ SignalPrevious(o) \/ PreviousGone(o)
  \/ UnlinkSocket(o) \/ Listen(o) \/ WritePid(o)

Stopping(o) ==
  Lifecycle(o) \/ Close(o) \/ InspectPaths(o) \/ RemoveSocket(o) \/ RemoveLock(o)

Next ==
  \/ \E o \in Owners : Starting(o) \/ StartFails(o) \/ Stopping(o) \/ IdleStop(o) \/ Crash(o)
  \/ \E r \in Requests : Connect(r) \/ Timeout(r) \/ GiveUp(r) \/ Respond(r)
  \/ \E o \in Owners, r \in Requests : Execute(o, r) \/ Forget(o, r)

Spec == Init /\ [][Next]_vars

(* A process that runs gets on and its lifecycle timer fires.  Idleness is *)
(* not fair: work in the outbox keeps an owner from it.                    *)
FairSpec == Spec /\ \A o \in Owners : WF_vars(Starting(o)) /\ WF_vars(Stopping(o))

----------------------------------------------------------------------------
Steps == {"off", "open", "read", "break", "reopen", "name", "init", "await", "bind", "listen",
          "bound", "serve", "drain", "closed", "remove", "release", "dead"}

TypeOK ==
  /\ lock \in Owners \cup {NoOne}
  /\ named \subseteq Owners
  /\ sock \in Owners \cup {NoOne}
  /\ pidFile \in Owners \cup {NoOne}
  /\ pc \in [Owners -> Steps]
  /\ owns \in [Owners -> SUBSET {"lock", "sock"}]
  /\ ledger \subseteq Requests
  /\ inbox \subseteq Owners \X Requests
  /\ cache \in [Owners -> [Requests -> {"none", "ok", "failed"}]]
  /\ conn \in [Requests -> Owners \cup {NoOne}]
  /\ answer \in [Requests -> {"none", "ok", "failed", "unknown"}]
  /\ applied \in [Requests -> Nat]
  /\ \A r \in Requests : conn[r] # NoOne => Listening(conn[r])

(* However often a client repeats a request, whichever owners crash, stop, *)
(* race each other or forget it in between, its operation is committed     *)
(* once at most, and only a committed one is answered with success         *)
(* (ownerRequest, callStateOwner).                                         *)
Contract == INSTANCE RequestContract
Implements == Contract!Spec

(* Why: a commit and its ledger entry are one transaction, and the ledger  *)
(* keeps the entry as long as the request can still reach an owner.        *)
LedgerAt(r) ==
  /\ applied[r] \in {0, 1}
  /\ r \in ledger => applied[r] = 1
  /\ applied[r] = 1 /\ r \notin ledger =>
       answer[r] # "none" /\ \A o \in Owners : <<o, r>> \notin inbox
  /\ \A o \in Owners : cache[o][r] = "ok" => applied[r] = 1
  /\ answer[r] = "ok" => applied[r] = 1
  /\ conn[r] # NoOne => answer[r] = "none"

LedgerInv == \A r \in Requests : LedgerAt(r)

(* Starters that break one stale lock together can leave two owners on one *)
(* state directory; one of them finds its lock gone and stops (the         *)
(* lifecycle timer of startStateOwner).                                    *)
OneOwnerRemains ==
  \A o, p \in Owners :
    o # p => (pc[o] = "serve" /\ pc[p] = "serve" ~> pc[o] # "serve" \/ pc[p] # "serve")
=============================================================================
