--------------------------- MODULE ChatTurnsProofs ---------------------------
(***************************************************************************)
(* Theorems about ChatTurns for any number of messages and agent processes *)
(* and any budget of events.                                               *)
(***************************************************************************)
EXTENDS ChatTurns, TLAPS

(* No message is in the sequence twice.                                    *)
Distinct(s) == \A i, j \in DOMAIN s : s[i] = s[j] => i = j

(* What the operations do to a sequence of messages.                       *)
LEMMA Appended ==
  ASSUME NEW s \in Seq(Msgs), NEW m \in Msgs
  PROVE  /\ Append(s, m) \in Seq(Msgs)
         /\ \A x : In(x, Append(s, m)) <=> In(x, s) \/ x = m
         /\ Distinct(s) /\ ~In(m, s) => Distinct(Append(s, m))
<1>1. /\ Append(s, m) \in Seq(Msgs) /\ Len(s) \in Nat
      /\ DOMAIN s = 1..Len(s) /\ DOMAIN Append(s, m) = 1..Len(s) + 1
      /\ \A i \in 1..Len(s) : Append(s, m)[i] = s[i]
      /\ Append(s, m)[Len(s) + 1] = m
  OBVIOUS
<1>2. \A i : i \in 1..Len(s) + 1 <=> i \in 1..Len(s) \/ i = Len(s) + 1
  BY <1>1
<1> QED BY <1>1, <1>2 DEF In, Distinct

LEMMA Headed ==
  ASSUME NEW s \in Seq(Msgs), s # <<>>
  PROVE  /\ Head(s) \in Msgs /\ In(Head(s), s) /\ Tail(s) \in Seq(Msgs)
         /\ \A x : In(x, Tail(s)) => In(x, s)
         /\ \A x : In(x, s) => In(x, Tail(s)) \/ x = Head(s)
         /\ Distinct(s) => Distinct(Tail(s)) /\ ~In(Head(s), Tail(s))
<1>1. /\ Tail(s) \in Seq(Msgs) /\ Len(s) \in Nat /\ Len(s) > 0
      /\ DOMAIN s = 1..Len(s) /\ DOMAIN Tail(s) = 1..Len(s) - 1
      /\ \A i \in 1..Len(s) - 1 : Tail(s)[i] = s[i + 1]
      /\ Head(s) = s[1] /\ Head(s) \in Msgs
  OBVIOUS
<1>2. /\ \A i \in 1..Len(s) - 1 : i + 1 \in 1..Len(s) /\ i + 1 # 1
      /\ \A i \in 1..Len(s) : i = 1 \/ (i - 1 \in 1..Len(s) - 1 /\ (i - 1) + 1 = i)
      /\ 1 \in 1..Len(s)
      /\ \A i, j \in 1..Len(s) - 1 : i + 1 = j + 1 => i = j
  BY <1>1
<1>3. In(Head(s), s) /\ \A x : In(x, Tail(s)) => In(x, s)
  BY <1>1, <1>2 DEF In
<1>4. ASSUME NEW x, In(x, s), x # Head(s) PROVE In(x, Tail(s))
  <2>1. PICK i \in 1..Len(s) : s[i] = x
    BY <1>1, <1>4 DEF In
  <2>2. i - 1 \in DOMAIN Tail(s) /\ Tail(s)[i - 1] = x
    BY <1>1, <1>2, <1>4, <2>1
  <2> QED BY <2>2 DEF In
<1>5. Distinct(s) => Distinct(Tail(s)) /\ ~In(Head(s), Tail(s))
  BY <1>1, <1>2, SMTT(30) DEF Distinct, In
<1> QED BY <1>1, <1>3, <1>4, <1>5

LEMMA TakenOut ==
  ASSUME NEW s \in Seq(Msgs), NEW m \in Msgs, In(m, s)
  PROVE  /\ Without(s, m) \in Seq(Msgs)
         /\ \A x : In(x, Without(s, m)) => In(x, s)
         /\ \A x : In(x, s) => In(x, Without(s, m)) \/ x = m
         /\ Distinct(s) => Distinct(Without(s, m)) /\ ~In(m, Without(s, m))
<1> DEFINE At == CHOOSE i \in DOMAIN s : s[i] = m
<1>1. /\ Len(s) \in Nat /\ DOMAIN s = 1..Len(s)
      /\ At \in 1..Len(s) /\ s[At] = m
  <2>1. \E i \in DOMAIN s : s[i] = m
    BY DEF In
  <2>2. At \in DOMAIN s /\ s[At] = m
    BY <2>1
  <2>3. Len(s) \in Nat /\ DOMAIN s = 1..Len(s)
    OBVIOUS
  <2> QED BY <2>2, <2>3
<1> HIDE DEF At
<1> PICK at \in 1..Len(s) : at = At
    BY <1>1
<1> DEFINE from(i) == IF i < at THEN i ELSE i + 1
           w == [i \in 1..Len(s) - 1 |-> s[from(i)]]
<1>2. \A i \in 1..Len(s) - 1 : from(i) \in 1..Len(s) /\ from(i) # at
  BY <1>1
<1>3. \A i, j \in 1..Len(s) - 1 : from(i) = from(j) => i = j
  BY <1>1
<1>4. \A i \in 1..Len(s) : i # at => \E j \in 1..Len(s) - 1 : from(j) = i
  <2> SUFFICES ASSUME NEW i \in 1..Len(s), i # at
               PROVE  \E j \in 1..Len(s) - 1 : from(j) = i
      OBVIOUS
  <2>1. CASE i < at
    <3>1. i \in 1..Len(s) - 1 /\ from(i) = i
      BY <1>1, <2>1
    <3> QED BY <3>1
  <2>2. CASE i > at
    <3>1. i - 1 \in 1..Len(s) - 1 /\ from(i - 1) = i
      BY <1>1, <2>2
    <3> QED BY <3>1
  <2> QED BY <2>1, <2>2
<1>5. Without(s, m) = w
  BY <1>1 DEF Without, At
<1> HIDE DEF from
<1>6. w \in Seq(Msgs) /\ DOMAIN w = 1..Len(s) - 1 /\ \A i \in 1..Len(s) - 1 : w[i] = s[from(i)]
  <2>1. Len(s) - 1 \in Nat /\ \A i \in 1..Len(s) - 1 : s[from(i)] \in Msgs
    BY <1>1, <1>2
  <2>2. w \in [1..Len(s) - 1 -> Msgs]
    BY <2>1
  <2> QED BY <2>1, <2>2
<1> HIDE DEF w
<1>7. ASSUME NEW x, In(x, w) PROVE In(x, s)
  BY <1>1, <1>2, <1>6, <1>7 DEF In
<1>8. ASSUME NEW x, In(x, s), x # m PROVE In(x, w)
  <2>1. PICK i \in 1..Len(s) : s[i] = x
    BY <1>1, <1>8 DEF In
  <2>2. PICK j \in 1..Len(s) - 1 : from(j) = i
    BY <1>1, <1>4, <1>8, <2>1
  <2> QED BY <1>6, <2>1, <2>2 DEF In
<1>9. Distinct(s) => Distinct(w) /\ ~In(m, w)
  BY <1>1, <1>2, <1>3, <1>6, SMTT(30) DEF Distinct, In
<1> QED BY <1>5, <1>6, <1>7, <1>8, <1>9

----------------------------------------------------------------------------
(* Types.  The drainer holds an agent and a message while it drains.       *)

DrainFits ==
  drainer.pc \in {"show", "save", "send"} => drainer.proc \in Procs /\ drainer.msg \in Msgs

TypeInv == ChatTypeOK /\ DrainFits

LEMMA CallType ==
  ASSUME NEW step \in Steps
  PROVE  Call(step) \in TaskType
BY DEF Call, TaskType, States

LEMMA AgentStarts ==
  ASSUME NEW stage \in {"off", "up", "term", "gone"}
  PROVE  Agent(stage) \in AgentType
<1>1. <<>> \in Seq(Msgs) /\ <<>> \in Seq({"init", "text", "ok", "err"})
  OBVIOUS
<1> QED BY <1>1 DEF Agent, AgentType, States

LEMMA TaskUpdate ==
  ASSUME ChatTypeOK, NEW t \in Tasks
  PROVE  /\ task[t] \in TaskType
         /\ \A d \in TaskType : [task EXCEPT ![t] = d] \in [Tasks -> TaskType]
BY DEF ChatTypeOK

LEMMA TaskFields ==
  ASSUME NEW d \in TaskType
  PROVE  /\ \A step \in Steps : [d EXCEPT !.pc = step] \in TaskType
         /\ \A step \in Steps, c \in States : [d EXCEPT !.pc = step, !.copy = c] \in TaskType
         /\ \A step \in Steps, p \in Procs \cup {NoOne} : [d EXCEPT !.pc = step, !.proc = p] \in TaskType
         /\ \A step \in Steps, b \in BOOLEAN : /\ [d EXCEPT !.pc = step, !.taken = b] \in TaskType
                                               /\ [d EXCEPT !.pc = step, !.resuming = b] \in TaskType
BY DEF TaskType

(* What a call does to its own entry.                                      *)
LEMMA Tasked ==
  ASSUME ChatTypeOK, NEW t \in Tasks
  PROVE  /\ \A step \in Steps : Goto(t, step) \/ Read(t, step) => task' \in [Tasks -> TaskType]
         /\ End(t) => task' \in [Tasks -> TaskType]
<1>1. rec \in States /\ "done" \in Steps
  BY DEF ChatTypeOK, Steps
<1>2. ASSUME NEW step \in Steps, Goto(t, step) PROVE task' \in [Tasks -> TaskType]
  <2>1. task' = [task EXCEPT ![t] = [task[t] EXCEPT !.pc = step]]
    BY <1>2 DEF Goto
  <2> QED BY <2>1, TaskUpdate, TaskFields
<1>3. ASSUME NEW step \in Steps, Read(t, step) PROVE task' \in [Tasks -> TaskType]
  <2>1. task' = [task EXCEPT ![t] = [task[t] EXCEPT !.pc = step, !.copy = rec]]
    BY <1>3 DEF Read
  <2> QED BY <1>1, <2>1, TaskUpdate, TaskFields
<1>4. End(t) => task' \in [Tasks -> TaskType]
  BY <1>1, TaskUpdate, CallType DEF End
<1> QED BY <1>2, <1>3, <1>4

LEMMA AgentUpdate ==
  ASSUME ChatTypeOK, NEW p \in Procs
  PROVE  /\ agent[p] \in AgentType
         /\ \A d \in AgentType : [agent EXCEPT ![p] = d] \in [Procs -> AgentType]
BY DEF ChatTypeOK

LEMMA AgentFields ==
  ASSUME NEW d \in AgentType
  PROVE  /\ \A l \in {"off", "up", "term", "gone"} : [d EXCEPT !.life = l] \in AgentType
         /\ \A b \in BOOLEAN : [d EXCEPT !.sigint = b] \in AgentType
         /\ \A e \in {"none", "wait", "read", "save", "done"} : [d EXCEPT !.exit = e] \in AgentType
         /\ \A e \in {"none", "wait", "read", "save", "done"}, s \in States :
              [d EXCEPT !.exit = e, !.after = s] \in AgentType
<1>1. \A l \in {"off", "up", "term", "gone"} : [d EXCEPT !.life = l] \in AgentType
  BY DEF AgentType
<1>2. \A b \in BOOLEAN : [d EXCEPT !.sigint = b] \in AgentType
  BY DEF AgentType
<1>3. \A e \in {"none", "wait", "read", "save", "done"} : [d EXCEPT !.exit = e] \in AgentType
  BY DEF AgentType
<1>4. \A e \in {"none", "wait", "read", "save", "done"}, s \in States :
        [d EXCEPT !.exit = e, !.after = s] \in AgentType
  BY DEF AgentType
<1> QED BY <1>1, <1>2, <1>3, <1>4

LEMMA Dropped ==
  ASSUME ChatTypeOK, NEW p \in Procs \cup {NoOne}, Drop(p)
  PROVE  /\ agent' \in [Procs -> AgentType] /\ child' = NoOne
         /\ \A q \in Procs :
              /\ agent'[q].life = IF q = p /\ agent[q].life = "up" THEN "term" ELSE agent[q].life
              /\ agent'[q].exit = agent[q].exit
<1>1. CASE p = NoOne
  BY <1>1, ChatAssumption DEF ChatAssumption, Drop, ChatTypeOK
<1>2. CASE p \in Procs
  <2>1. agent' = Killed(p) /\ child' = NoOne
    BY <1>2, ChatAssumption DEF ChatAssumption, Drop
  <2>2. agent' = [agent EXCEPT ![p] = [agent[p] EXCEPT !.life = IF agent[p].life = "up" THEN "term" ELSE agent[p].life]]
    BY <2>1 DEF Killed
  <2>3. agent[p] \in AgentType /\ agent[p].life \in {"off", "up", "term", "gone"} /\ agent \in [Procs -> AgentType]
    BY <1>2, AgentUpdate DEF AgentType, ChatTypeOK
  <2>4. agent' \in [Procs -> AgentType]
    BY <1>2, <2>2, <2>3, AgentUpdate, AgentFields
  <2>5. ASSUME NEW q \in Procs
        PROVE  /\ agent'[q].life = IF q = p /\ agent[q].life = "up" THEN "term" ELSE agent[q].life
               /\ agent'[q].exit = agent[q].exit
    <3>1. agent[q] \in AgentType
      BY <2>3
    <3> QED BY <1>2, <2>2, <2>3, <3>1 DEF AgentType
  <2> QED BY <2>1, <2>4, <2>5
<1> QED BY <1>1, <1>2

LEMMA Called ==
  ASSUME TypeInv, CallDrain
  PROVE  /\ drains' \in Nat
         /\ drainer' \in [pc : {"off", "read", "show", "save", "send"}, proc : Procs \cup {NoOne}, msg : Msgs \cup {NoOne}]
         /\ DrainFits'
         /\ drainer' = drainer \/ (drainer.pc = "off" /\ drainer'.pc = "read" /\ drainer'.msg = NoOne)
<1> DEFINE Holding == [pc : {"off", "read", "show", "save", "send"}, proc : Procs \cup {NoOne}, msg : Msgs \cup {NoOne}]
<1>1. drains \in Nat /\ drainer \in Holding /\ child \in Procs \cup {NoOne}
  BY DEF TypeInv, ChatTypeOK
<1>2. /\ Reading(child) \in Holding
      /\ Reading(child).pc = "read" /\ Reading(child).msg = NoOne
  <2>1. Off \in Holding /\ Off.msg = NoOne
    BY DEF Off
  <2>2. Reading(child) = [Off EXCEPT !.pc = "read", !.proc = child]
    BY DEF Reading
  <2> HIDE DEF Off
  <2> QED BY <1>1, <2>1, <2>2
<1>3. CASE drainer.pc = "off"
  BY <1>1, <1>2, <1>3 DEF CallDrain, DrainFits
<1>4. CASE drainer.pc # "off"
  BY <1>1, <1>4 DEF CallDrain, DrainFits, TypeInv
<1> QED BY <1>3, <1>4

(* Messages come in.                                                       *)
LEMMA AskTypes ==
  ASSUME TypeInv, NEW m \in Msgs, Asks(m)
  PROVE  TypeInv'
<1> USE DEF disk, flow, starts, drained, history
<1>0. /\ ChatTypeOK /\ DrainFits /\ m \in Tasks /\ {"branch", "done"} \subseteq Steps
      /\ queue \in Seq(Msgs) /\ budget \in [Events -> Nat]
  BY DEF TypeInv, ChatTypeOK, Tasks, Steps
<1>1. Append(queue, m) \in Seq(Msgs)
  BY <1>0, Appended
<1>2. CASE Send(m)
  <2>1. task' \in [Tasks -> TaskType] /\ queue' \in Seq(Msgs)
    BY <1>0, <1>1, <1>2, Tasked DEF Send
  <2> QED BY <1>0, <1>2, <2>1 DEF Send, TypeInv, ChatTypeOK, DrainFits
<1>3. CASE Add(m)
  <2>1. task' \in [Tasks -> TaskType]
    BY <1>0, <1>3, Tasked DEF Add
  <2>2. CallDrain /\ queue' = Append(queue, m)
    BY <1>3 DEF Add
  <2> QED BY <1>0, <1>1, <1>3, <2>1, <2>2, Called DEF Add, TypeInv, ChatTypeOK
<1>4. ASSUME NEW e \in Events, Spend(e) PROVE budget' \in [Events -> Nat]
  BY <1>0, <1>4 DEF Spend
<1>5. CASE SendNow(m)
  <2>1. task' = [task EXCEPT ![m] = [task[m] EXCEPT !.pc = "branch", !.taken = TRUE]]
    BY <1>5 DEF SendNow
  <2>2. task' \in [Tasks -> TaskType]
    BY <1>0, <2>1, TaskUpdate, TaskFields
  <2>3. budget' \in [Events -> Nat]
    BY <1>4, <1>5 DEF SendNow, Events
  <2> QED BY <1>0, <1>5, <2>2, <2>3 DEF SendNow, TypeInv, ChatTypeOK, DrainFits
<1>6. CASE Remove(m) \/ Edit(m)
  <2>1. In(m, queue)
    BY <1>6 DEF Remove, Edit
  <2>2. Without(queue, m) \in Seq(Msgs)
    BY <1>0, <2>1, TakenOut
  <2>3. queue' \in Seq(Msgs)
    BY <1>6, <2>2, Appended DEF Remove, Edit
  <2>4. budget' \in [Events -> Nat]
    BY <1>4, <1>6 DEF Remove, Edit, Events
  <2> QED BY <1>0, <1>6, <2>3, <2>4 DEF Remove, Edit, TypeInv, ChatTypeOK, DrainFits
<1> QED BY <1>2, <1>3, <1>5, <1>6 DEF Asks

(* The calls that take a message to an agent.                              *)
LEMMA DeliverTypes ==
  ASSUME TypeInv, NEW m \in Msgs,
         Branch(m) \/ Take(m) \/ Reread(m) \/ Deliver(m) \/ Show(m)
  PROVE  TypeInv'
<1> USE DEF disk, flow, starts, drained, history
<1>0. /\ ChatTypeOK /\ DrainFits /\ m \in Tasks
      /\ {"away", "deliver", "cut", "reread", "show", "begin"} \subseteq Steps
      /\ queue \in Seq(Msgs) /\ outbox \in Seq(Msgs) /\ task[m] \in TaskType
      /\ task[m].copy \in States /\ cutting \in BOOLEAN
  BY TaskUpdate DEF TypeInv, ChatTypeOK, Tasks, Steps, TaskType
<1>1. CASE Branch(m)
  <2>1. task' \in [Tasks -> TaskType] /\ queue' \in Seq(Msgs)
    BY <1>0, <1>1, Tasked, Appended DEF Branch
  <2> QED BY <1>0, <1>1, <2>1 DEF Branch, TypeInv, ChatTypeOK, DrainFits
<1>2. CASE Take(m)
  <2>1. task' \in [Tasks -> TaskType] /\ queue' \in Seq(Msgs)
    <3>1. CASE life = "up" /\ In(m, queue)
      <4>1. Goto(m, IF rec = "working" THEN "cut" ELSE "reread") /\ queue' = Without(queue, m)
        BY <1>2, <3>1 DEF Take, Left
      <4> QED BY <1>0, <3>1, <4>1, Tasked, TakenOut
    <3>2. CASE ~(life = "up" /\ In(m, queue))
      BY <1>0, <1>2, <3>2, Tasked DEF Take
    <3> QED BY <3>1, <3>2
  <2> QED BY <1>0, <1>2, <2>1 DEF Take, TypeInv, ChatTypeOK, DrainFits
<1>3. CASE Reread(m)
  <2>1. task' \in [Tasks -> TaskType]
    BY <1>0, <1>3, Tasked DEF Reread
  <2> QED BY <1>0, <1>3, <2>1 DEF Reread, TypeInv, ChatTypeOK, DrainFits
<1>4. CASE Deliver(m)
  <2>1. task' \in [Tasks -> TaskType] /\ rec' \in States
    BY <1>0, <1>4, Tasked DEF Deliver
  <2> QED BY <1>0, <1>4, <2>1 DEF Deliver, TypeInv, ChatTypeOK, DrainFits
<1>5. CASE Show(m)
  <2> DEFINE resuming == task[m].copy = "suspended"
             begins == resuming \/ (child = NoOne /\ task[m].copy = "idle")
  <2>1. outbox' \in Seq(Msgs)
    <3>1. <<m>> \in Seq(Msgs)
      OBVIOUS
    <3> QED BY <1>0, <1>5, <3>1, Appended DEF Show
  <2>2. /\ task' \in [Tasks -> TaskType] /\ DrainFits' /\ drains' \in Nat
        /\ drainer' \in [pc : {"off", "read", "show", "save", "send"}, proc : Procs \cup {NoOne}, msg : Msgs \cup {NoOne}]
    <3>1. CASE begins
      <4>1. /\ task' = [task EXCEPT ![m] = [task[m] EXCEPT !.pc = "begin", !.resuming = resuming]]
            /\ UNCHANGED <<drains, drainer>>
        BY <1>5, <3>1 DEF Show
      <4>2. task' \in [Tasks -> TaskType]
        BY <1>0, <4>1, TaskUpdate, TaskFields
      <4> QED BY <1>0, <4>1, <4>2 DEF ChatTypeOK, DrainFits
    <3>2. CASE ~begins
      <4>1. End(m) /\ CallDrain
        BY <1>5, <3>2 DEF Show
      <4> QED BY <1>0, <4>1, Tasked, Called
    <3> QED BY <3>1, <3>2
  <2>3. shown' = shown \cup {m} /\ cutting' \in BOOLEAN
    BY <1>0, <1>5 DEF Show, Published, TaskType
  <2>4. UNCHANGED <<disk, life, child, held, starts, handler, agent, handed, budget>>
    BY <1>5 DEF Show
  <2> QED BY <1>0, <2>1, <2>2, <2>3, <2>4 DEF TypeInv, ChatTypeOK
<1> QED BY <1>1, <1>2, <1>3, <1>4, <1>5

(* An agent is started.                                                    *)
LEMMA StartTypes ==
  ASSUME TypeInv, NEW m \in Msgs,
         Begin(m) \/ Replace(m) \/ (\E p \in Procs : Spawn(m, p)) \/ Spawned(m) \/ Started(m) \/ StartFails(m)
  PROVE  TypeInv'
<1> USE DEF disk, flow, starts, drained, history
<1>0. /\ ChatTypeOK /\ DrainFits /\ m \in Tasks
      /\ {"replace", "prepare", "spawned", "started", "failing"} \subseteq Steps
      /\ {"starting", "idle"} \subseteq States
      /\ child \in Procs \cup {NoOne} /\ rec \in States
  BY DEF TypeInv, ChatTypeOK, Tasks, Steps, States
<1>1. CASE Begin(m)
  <2>1. task' \in [Tasks -> TaskType]
    BY <1>0, <1>1, Tasked DEF Begin
  <2> QED BY <1>0, <1>1, <2>1 DEF Begin, TypeInv, ChatTypeOK, DrainFits
<1>6. CASE Replace(m)
  <2>1. task' = [task EXCEPT ![m] = [task[m] EXCEPT !.pc = "prepare", !.proc = child]]
    BY <1>6 DEF Replace
  <2>2. task' \in [Tasks -> TaskType]
    BY <1>0, <2>1, TaskUpdate, TaskFields
  <2>3. agent' \in [Procs -> AgentType] /\ child' = NoOne
    BY <1>0, <1>6, Dropped DEF Replace
  <2> QED BY <1>0, <1>6, <2>2, <2>3 DEF Replace, TypeInv, ChatTypeOK, DrainFits
<1>2. ASSUME NEW p \in Procs, Spawn(m, p) PROVE TypeInv'
  <2>1. /\ task' = [task EXCEPT ![m] = [task[m] EXCEPT !.pc = "spawned", !.proc = p]]
        /\ agent' = [agent EXCEPT ![p] = [agent[p] EXCEPT !.life = "up"]]
    BY <1>2 DEF Spawn
  <2>2. task' \in [Tasks -> TaskType] /\ agent' \in [Procs -> AgentType]
    BY <1>0, <2>1, TaskUpdate, TaskFields, AgentUpdate, AgentFields
  <2>3. child' \in Procs \cup {NoOne} /\ UNCHANGED <<disk, life, flow, starts, drained, handler, history, budget>>
    BY <1>2 DEF Spawn
  <2> QED BY <1>0, <2>2, <2>3 DEF TypeInv, ChatTypeOK, DrainFits
<1>3. CASE Spawned(m)
  <2>1. task' \in [Tasks -> TaskType]
    BY <1>0, <1>3, Tasked DEF Spawned
  <2>2. /\ rec' \in States /\ seen' \in BOOLEAN
        /\ UNCHANGED <<queue, resumes, life, child, flow, timer, drained, handler, agent, history, budget>>
    BY <1>0, <1>3 DEF Spawned
  <2> QED BY <1>0, <2>1, <2>2 DEF TypeInv, ChatTypeOK, DrainFits
<1>4. CASE Started(m)
  <2>1. task' \in [Tasks -> TaskType] /\ rec' \in States
    BY <1>0, <1>4, Tasked DEF Started
  <2>2. CallDrain
    BY <1>4 DEF Started
  <2> QED BY <1>0, <1>4, <2>1, <2>2, Called DEF Started, TypeInv, ChatTypeOK
<1>5. CASE StartFails(m)
  <2>1. task' \in [Tasks -> TaskType]
    BY <1>0, <1>5, Tasked DEF StartFails
  <2>2. budget' \in [Events -> Nat]
    BY <1>0, <1>5, SMTT(30) DEF StartFails, Spend, Events, ChatTypeOK
  <2>3. agent' \in [Procs -> AgentType] /\ child' \in Procs \cup {NoOne}
    BY <1>0, <1>5, Dropped DEF StartFails, ChatTypeOK
  <2>4. outbox' \in Seq(Msgs) /\ timer' \in Procs \cup {NoOne}
    <3>1. <<>> \in Seq(Msgs)
      OBVIOUS
    <3> QED BY <1>0, <1>5, <3>1 DEF StartFails, ChatTypeOK
  <2> QED BY <1>0, <1>5, <2>1, <2>2, <2>3, <2>4 DEF StartFails, TypeInv, ChatTypeOK, DrainFits
<1> QED BY <1>1, <1>2, <1>3, <1>4, <1>5, <1>6

(* Turns are cut, agents stopped, starts given up.                         *)
LEMMA CutTypes ==
  ASSUME TypeInv,
         \/ \E t \in Tasks : Cutting(t)
         \/ StartTimeout \/ Interrupt \/ Stop \/ StopSave
  PROVE  TypeInv'
<1> USE DEF disk, flow, starts, drained, history
<1>0. /\ ChatTypeOK /\ DrainFits /\ {"person", "timer"} \subseteq Tasks
      /\ {"cut", "signal", "reread", "failing", "stopSave"} \subseteq Steps
      /\ {"starting", "idle", "suspended", "error"} \subseteq States
      /\ child \in Procs \cup {NoOne} /\ timer \in Procs \cup {NoOne} /\ rec \in States
      /\ agent \in [Procs -> AgentType] /\ budget \in [Events -> Nat]
  BY DEF TypeInv, ChatTypeOK, Tasks, Others, Steps, States
<1>1. ASSUME NEW e \in Events, Spend(e) PROVE budget' \in [Events -> Nat]
  BY <1>0, <1>1 DEF Spend
<1>2. <<>> \in Seq(Msgs)
  OBVIOUS
<1>3. ASSUME NEW t \in Tasks, Cut(t) PROVE TypeInv'
  <2>1. task' = [task EXCEPT ![t] = [task[t] EXCEPT !.pc = "signal", !.proc = child]]
    BY <1>3 DEF Cut
  <2>2. task' \in [Tasks -> TaskType]
    BY <1>0, <2>1, TaskUpdate, TaskFields
  <2> QED BY <1>0, <1>3, <2>2 DEF Cut, TypeInv, ChatTypeOK, DrainFits
<1>4. ASSUME NEW t \in Tasks, Signal(t) PROVE TypeInv'
  <2>1. task' \in [Tasks -> TaskType]
    BY <1>0, <1>4, Tasked DEF Signal
  <2>2. agent' \in [Procs -> AgentType]
    <3> DEFINE p == task[t].proc
    <3>1. p \in Procs \cup {NoOne}
      BY <1>0, TaskUpdate DEF TaskType
    <3>2. CASE p # NoOne /\ agent[p].life = "up"
      <4>1. agent' = [agent EXCEPT ![p] = [agent[p] EXCEPT !.sigint = TRUE]]
        BY <1>4, <3>2 DEF Signal
      <4> HIDE DEF p
      <4> QED BY <1>0, <3>1, <3>2, <4>1, AgentUpdate, AgentFields
    <3> QED BY <1>0, <1>4, <3>2 DEF Signal
  <2>3. /\ rec' = "idle"
        /\ UNCHANGED <<queue, resumes, life, child, flow, starts, drained, handler, history, budget>>
    BY <1>4 DEF Signal
  <2> QED BY <1>0, <2>1, <2>2, <2>3 DEF TypeInv, ChatTypeOK, DrainFits
<1>5. ASSUME NEW t \in Tasks, Failing(t) PROVE TypeInv'
  <2>1. task' \in [Tasks -> TaskType] /\ rec' \in States
    BY <1>0, <1>5, Tasked DEF Failing
  <2>2. UNCHANGED <<queue, resumes, life, child, flow, starts, drained, handler, agent, history, budget>>
    BY <1>5 DEF Failing
  <2> QED BY <1>0, <2>1, <2>2 DEF TypeInv, ChatTypeOK, DrainFits
<1>6. CASE StartTimeout
  <2>1. UNCHANGED <<disk, life, flow, seen, drained, handler, history>> /\ timer' = NoOne
    BY <1>6 DEF StartTimeout
  <2>2. /\ task' \in [Tasks -> TaskType] /\ budget' \in [Events -> Nat]
        /\ agent' \in [Procs -> AgentType] /\ child' \in Procs \cup {NoOne}
    <3>1. CASE child = timer /\ ~seen
      <4>1. Drop(child) /\ Goto("timer", "failing") /\ (Spend("mute") \/ UNCHANGED budget)
        BY <1>6, <3>1 DEF StartTimeout
      <4>2. "mute" \in Events
        BY DEF Events
      <4> QED BY <1>0, <1>1, <4>1, <4>2, Dropped, Tasked
    <3>2. CASE ~(child = timer /\ ~seen)
      BY <1>0, <1>6, <3>2 DEF StartTimeout, ChatTypeOK
    <3> QED BY <3>1, <3>2
  <2> QED BY <1>0, <2>1, <2>2 DEF TypeInv, ChatTypeOK, DrainFits
<1>7. CASE Interrupt
  <2>1. task' \in [Tasks -> TaskType] /\ budget' \in [Events -> Nat]
    BY <1>0, <1>1, <1>7, Tasked DEF Interrupt, Events
  <2> QED BY <1>0, <1>7, <2>1 DEF Interrupt, TypeInv, ChatTypeOK, DrainFits
<1>8. CASE Stop
  <2>1. task' \in [Tasks -> TaskType] /\ budget' \in [Events -> Nat]
    BY <1>0, <1>1, <1>8, Tasked DEF Stop, Events
  <2>2. agent' \in [Procs -> AgentType] /\ child' = NoOne
    BY <1>0, <1>8, Dropped DEF Stop
  <2> QED BY <1>0, <1>2, <1>8, <2>1, <2>2 DEF Stop, TypeInv, ChatTypeOK, DrainFits
<1>9. CASE StopSave
  <2>1. task' \in [Tasks -> TaskType]
    BY <1>0, <1>9, Tasked DEF StopSave
  <2> QED BY <1>0, <1>9, <2>1 DEF StopSave, TypeInv, ChatTypeOK, DrainFits
<1> QED BY <1>3, <1>4, <1>5, <1>6, <1>7, <1>8, <1>9 DEF Cutting

(* The drainer at rest, and as it takes a message.                         *)
DrainerType ==
  [pc : {"off", "read", "show", "save", "send"}, proc : Procs \cup {NoOne}, msg : Msgs \cup {NoOne}]
HandlerType == [kind : {"none", "init", "text", "ok", "err"}, copy : States, ahead : Nat]

LEMMA RestTypes ==
  ASSUME TypeInv, Rest
  PROVE  /\ drains' \in Nat /\ drainer' \in DrainerType /\ DrainFits'
         /\ handler' \in HandlerType
         /\ drainer'.msg = NoOne /\ drainer'.pc \in {"off", "read"}
<1>1. drains \in Nat /\ handler \in HandlerType /\ child \in Procs \cup {NoOne}
  BY DEF TypeInv, ChatTypeOK, HandlerType
<1>2. /\ Off \in DrainerType /\ Off.pc = "off" /\ Off.msg = NoOne
      /\ Reading(child) \in DrainerType /\ Reading(child).pc = "read" /\ Reading(child).msg = NoOne
  <2>1. Off \in DrainerType /\ Off.pc = "off" /\ Off.msg = NoOne
    BY DEF Off, DrainerType
  <2>2. Reading(child) = [Off EXCEPT !.pc = "read", !.proc = child]
    BY DEF Reading
  <2> QED BY <1>1, <2>1, <2>2 DEF DrainerType
<1>3. /\ drains' \in Nat /\ drainer' \in DrainerType
      /\ drainer'.msg = NoOne /\ drainer'.pc \in {"off", "read"}
  BY <1>1, <1>2 DEF Rest
<1>4. handler' \in HandlerType
  <2>1. handler.ahead \in Nat
    BY <1>1 DEF HandlerType
  <2>2. (IF handler.ahead > 0 THEN handler.ahead - 1 ELSE 0) \in Nat
    BY <2>1
  <2>3. handler' = [handler EXCEPT !.ahead = IF handler.ahead > 0 THEN handler.ahead - 1 ELSE 0]
    BY DEF Rest
  <2> QED BY <1>1, <2>2, <2>3 DEF HandlerType
<1> QED BY <1>3, <1>4 DEF DrainFits

LEMMA DrainTypes ==
  ASSUME TypeInv, Draining
  PROVE  TypeInv'
<1> USE DEF disk, flow, starts, drained, history
<1>0. /\ ChatTypeOK /\ DrainFits /\ drainer \in DrainerType /\ handler \in HandlerType
      /\ queue \in Seq(Msgs) /\ outbox \in Seq(Msgs) /\ handed \in Seq(Msgs)
      /\ held \in BOOLEAN /\ agent \in [Procs -> AgentType] /\ drains \in Nat
  BY DEF TypeInv, ChatTypeOK, DrainerType, HandlerType
<1>1. ASSUME NEW m \in Msgs, NEW step \in {"show", "save"}, Takes(m, step), drainer.proc # NoOne
      PROVE  drains' \in Nat /\ drainer' \in DrainerType /\ DrainFits' /\ handler' \in HandlerType
  <2>1. /\ drainer' = [drainer EXCEPT !.pc = step, !.msg = m] /\ UNCHANGED <<drains, handler>>
        /\ drainer.proc \in Procs
    BY <1>0, <1>1 DEF Takes, DrainerType
  <2> QED BY <1>0, <2>1 DEF DrainerType, DrainFits
<1>2. CASE DrainRead
  <2>1. /\ drains' \in Nat /\ drainer' \in DrainerType /\ DrainFits' /\ handler' \in HandlerType
        /\ outbox' \in Seq(Msgs) /\ queue' \in Seq(Msgs) /\ held' \in BOOLEAN
    <3>1. CASE Rest /\ UNCHANGED <<outbox, held, queue>>
      BY <1>0, <3>1, RestTypes
    <3>2. CASE /\ drainer.proc # NoOne /\ outbox # <<>>
               /\ Takes(Head(outbox), "save") /\ outbox' = Tail(outbox) /\ held' = FALSE /\ UNCHANGED queue
      <4>1. Head(outbox) \in Msgs /\ Tail(outbox) \in Seq(Msgs)
        BY <1>0, <3>2, Headed
      <4> QED BY <1>0, <1>1, <3>2, <4>1
    <3>3. CASE /\ drainer.proc # NoOne /\ queue # <<>>
               /\ Takes(Head(queue), "show") /\ queue' = Tail(queue) /\ UNCHANGED <<outbox, held>>
      <4>1. Head(queue) \in Msgs /\ Tail(queue) \in Seq(Msgs)
        BY <1>0, <3>3, Headed
      <4> QED BY <1>0, <1>1, <3>3, <4>1
    <3> QED BY <1>2, <3>1, <3>2, <3>3 DEF DrainRead
  <2>2. UNCHANGED <<rec, resumes, life, child, cutting, starts, task, agent, history, budget>>
    BY <1>2 DEF DrainRead
  <2> QED BY <1>0, <2>1, <2>2 DEF TypeInv, ChatTypeOK, DrainerType, HandlerType
<1>3. CASE DrainShow
  <2>1. drainer' \in DrainerType /\ DrainFits' /\ shown' = shown \cup {drainer.msg} /\ drainer.msg \in Msgs
    BY <1>0, <1>3 DEF DrainShow, DrainFits, DrainerType, Published
  <2> QED BY <1>0, <1>3, <2>1 DEF DrainShow, TypeInv, ChatTypeOK, DrainerType
<1>4. CASE DrainSave
  <2>1. drainer' \in DrainerType /\ DrainFits' /\ rec' \in States
    BY <1>0, <1>4 DEF DrainSave, DrainFits, DrainerType, States
  <2> QED BY <1>0, <1>4, <2>1 DEF DrainSave, TypeInv, ChatTypeOK, DrainerType
<1>5. CASE DrainSend
  <2> DEFINE p == drainer.proc
             m == drainer.msg
  <2>1. p \in Procs /\ m \in Msgs /\ Rest
    BY <1>0, <1>5 DEF DrainSend, DrainFits
  <2>2. agent' \in [Procs -> AgentType] /\ handed' \in Seq(Msgs)
    <3>1. CASE agent[p].life = "up"
      <4>1. agent' = [agent EXCEPT ![p] = [agent[p] EXCEPT !.inbox = Append(agent[p].inbox, m)]]
            /\ handed' = Append(handed, m)
        BY <1>5, <3>1 DEF DrainSend
      <4> HIDE DEF p, m
      <4>2. agent[p] \in AgentType /\ agent[p].inbox \in Seq(Msgs)
        BY <1>0, <2>1 DEF AgentType
      <4>3. Append(agent[p].inbox, m) \in Seq(Msgs) /\ Append(handed, m) \in Seq(Msgs)
        BY <1>0, <2>1, <4>2, Appended
      <4>4. [agent[p] EXCEPT !.inbox = Append(agent[p].inbox, m)] \in AgentType
        BY <4>2, <4>3 DEF AgentType
      <4> QED BY <1>0, <2>1, <4>1, <4>3, <4>4, AgentUpdate
    <3> QED BY <1>0, <1>5, <3>1 DEF DrainSend
  <2>3. timer' \in Procs \cup {NoOne} /\ UNCHANGED <<disk, life, child, flow, seen, task, shown, budget>>
    BY <1>0, <1>5, <2>1 DEF DrainSend, ChatTypeOK
  <2> QED BY <1>0, <2>1, <2>2, <2>3, RestTypes DEF TypeInv, ChatTypeOK, DrainerType, HandlerType
<1> QED BY <1>2, <1>3, <1>4, <1>5 DEF Draining

(* What an agent prints and how it ends.                                   *)
Lines == {"init", "text", "ok", "err"}

LEMMA ClaudeTypes ==
  ASSUME TypeInv, NEW p \in Procs, Claude(p) \/ Speaks(p) \/ Exits(p)
  PROVE  TypeInv'
<1> USE DEF disk, flow, starts, drained, history
<1> PICK a \in AgentType : a = agent[p]
    BY AgentUpdate DEF TypeInv
<1>0. /\ ChatTypeOK /\ DrainFits /\ agent \in [Procs -> AgentType] /\ budget \in [Events -> Nat]
      /\ a.inbox \in Seq(Msgs) /\ a.out \in Seq(Lines) /\ a.life \in {"off", "up", "term", "gone"}
      /\ a.sigint \in BOOLEAN
  BY DEF TypeInv, ChatTypeOK, AgentType, Lines
<1>1. \A line \in Lines : Append(a.out, line) \in Seq(Lines)
  BY <1>0
<1>2. ASSUME NEW d \in AgentType, Prints(p, d),
             UNCHANGED <<disk, life, child, flow, drained, handler, task, history, budget>>
      PROVE  TypeInv'
  <2>1. agent' \in [Procs -> AgentType] /\ seen' = TRUE /\ timer' = NoOne
    BY <1>0, <1>2, AgentUpdate DEF Prints
  <2> QED BY <1>0, <1>2, <2>1 DEF TypeInv, ChatTypeOK, DrainFits
<1>3. CASE TurnBegins(p)
  <2> DEFINE d == [a EXCEPT !.turn = Head(a.inbox), !.inbox = Tail(a.inbox), !.out = Append(a.out, "init")]
  <2>1. a.inbox # <<>> /\ Prints(p, d)
        /\ UNCHANGED <<disk, life, child, flow, drained, handler, task, history, budget>>
    BY <1>3 DEF TurnBegins
  <2>2. Head(a.inbox) \in Msgs /\ Tail(a.inbox) \in Seq(Msgs) /\ Append(a.out, "init") \in Seq(Lines)
    BY <1>0, <1>1, <2>1, Headed DEF Lines
  <2>3. d \in AgentType
    BY <2>2 DEF AgentType, Lines
  <2> HIDE DEF d
  <2> QED BY <1>2, <2>1, <2>3
<1>4. CASE Speaks(p)
  <2> DEFINE d == [a EXCEPT !.spoke = TRUE, !.out = Append(a.out, "text")]
  <2>1. Prints(p, d) /\ UNCHANGED <<disk, life, child, flow, drained, handler, task, history, budget>>
    BY <1>4 DEF Speaks
  <2>2. Append(a.out, "text") \in Seq(Lines)
    BY <1>1 DEF Lines
  <2>3. d \in AgentType
    BY <2>2 DEF AgentType, Lines
  <2> HIDE DEF d
  <2> QED BY <1>2, <2>1, <2>3
<1>5. CASE TurnEnds(p)
  <2> DEFINE d(kind) == [a EXCEPT !.turn = NoOne, !.spoke = FALSE, !.out = Append(a.out, kind),
                                  !.sigint = a.sigint /\ kind = "ok"]
  <2>1. PICK kind \in {"ok", "err"} : Prints(p, d(kind))
    BY <1>5 DEF TurnEnds
  <2>2. UNCHANGED <<disk, life, child, flow, drained, handler, task, history, budget>>
    BY <1>5 DEF TurnEnds
  <2>3. Append(a.out, kind) \in Seq(Lines) /\ (a.sigint /\ kind = "ok") \in BOOLEAN
    BY <1>1 DEF Lines
  <2>4. d(kind) \in AgentType
    BY <2>3 DEF AgentType, Lines
  <2> HIDE DEF d
  <2> QED BY <1>2, <2>1, <2>2, <2>4
<1>6. CASE Exits(p)
  <2>1. PICK ok \in BOOLEAN :
          agent' = [agent EXCEPT ![p] = [Agent("gone") EXCEPT !.ok = ok, !.out = a.out,
                                           !.exit = IF Heard(p) THEN "wait" ELSE "done"]]
    BY <1>6 DEF Exits
  <2>2. budget' \in [Events -> Nat]
    <3>1. Spend("exit") \/ UNCHANGED budget
      BY <1>6 DEF Exits
    <3>2. Spend("exit") => budget' \in [Events -> Nat]
      BY <1>0 DEF Spend, Events
    <3> QED BY <1>0, <3>1, <3>2
  <2>3. Agent("gone") \in AgentType
    BY AgentStarts
  <2>4. [Agent("gone") EXCEPT !.ok = ok, !.out = a.out,
                              !.exit = IF Heard(p) THEN "wait" ELSE "done"] \in AgentType
    BY <1>0, <2>3 DEF AgentType, Lines
  <2>5. agent' \in [Procs -> AgentType]
    BY <1>0, <2>1, <2>4, AgentUpdate
  <2>6. UNCHANGED <<disk, life, child, flow, starts, drained, handler, task, history>>
    BY <1>6 DEF Exits
  <2> QED BY <1>0, <2>2, <2>5, <2>6 DEF TypeInv, ChatTypeOK, DrainFits
<1>7. CASE Ignores(p)
  <2>1. agent' = [agent EXCEPT ![p] = [agent[p] EXCEPT !.sigint = FALSE]]
    BY <1>7 DEF Ignores
  <2>2. agent' \in [Procs -> AgentType]
    BY <1>0, <2>1, AgentUpdate, AgentFields
  <2>3. UNCHANGED <<disk, life, child, flow, starts, drained, handler, task, history, budget>>
    BY <1>7 DEF Ignores
  <2> QED BY <1>0, <2>2, <2>3 DEF TypeInv, ChatTypeOK, DrainFits
<1> QED BY <1>3, <1>4, <1>5, <1>6, <1>7 DEF Claude

(* The daemon hears of it.                                                 *)
LEMMA HearTypes ==
  ASSUME TypeInv, Hearing
  PROVE  TypeInv'
<1> USE DEF disk, flow, starts, drained, history
<1>0. /\ ChatTypeOK /\ DrainFits /\ handler \in HandlerType /\ rec \in States
      /\ agent \in [Procs -> AgentType] /\ cutting \in BOOLEAN /\ drains \in Nat
      /\ {"idle", "suspended"} \subseteq States /\ outbox \in Seq(Msgs)
  BY DEF TypeInv, ChatTypeOK, HandlerType, States
<1>1. NoEvent \in HandlerType /\ \A n \in Nat : [NoEvent EXCEPT !.ahead = n] \in HandlerType
  BY <1>0 DEF NoEvent, HandlerType
<1>2. ASSUME NEW p \in Procs, Handle(p) PROVE TypeInv'
  <2> PICK a \in AgentType : a = agent[p]
      BY <1>0
  <2>1. /\ a.out # <<>> /\ agent' = [agent EXCEPT ![p] = [a EXCEPT !.out = Tail(a.out)]]
        /\ UNCHANGED <<disk, life, child, outbox, held, starts, drained, task, history, budget>>
    BY <1>2 DEF Handle
  <2>2. a.out \in Seq(Lines)
    BY DEF AgentType, Lines
  <2>3. Head(a.out) \in Lines /\ Tail(a.out) \in Seq(Lines)
    BY <2>1, <2>2
  <2>4. [a EXCEPT !.out = Tail(a.out)] \in AgentType
    BY <2>3 DEF AgentType, Lines
  <2>5. agent' \in [Procs -> AgentType]
    BY <1>0, <2>1, <2>4, AgentUpdate
  <2>6. handler' \in HandlerType /\ cutting' \in BOOLEAN
    <3>1. \/ cutting' = FALSE /\ UNCHANGED handler
          \/ handler' = [kind |-> Head(a.out), copy |-> rec, ahead |-> 0] /\ UNCHANGED cutting
      BY <1>2 DEF Handle
    <3>2. [kind |-> Head(a.out), copy |-> rec, ahead |-> 0] \in HandlerType
      BY <1>0, <2>3 DEF HandlerType, Lines
    <3> QED BY <1>0, <3>1, <3>2
  <2> QED BY <1>0, <2>1, <2>5, <2>6 DEF TypeInv, ChatTypeOK, DrainFits, HandlerType
<1>3. CASE HandleSave
  <2>1. rec' \in States
    <3>1. handler.copy \in States
      BY <1>0 DEF HandlerType
    <3>2. \A c \in States : Handled(handler.kind, c) \in States
      BY <1>0 DEF Handled
    <3> QED BY <1>3, <3>1, <3>2 DEF HandleSave
  <2>2. /\ cutting' \in BOOLEAN
        /\ UNCHANGED <<queue, resumes, life, child, outbox, held, starts, task, agent, history, budget>>
    BY <1>0, <1>3 DEF HandleSave
  <2>3. /\ handler' \in HandlerType /\ drains' \in Nat /\ drainer' \in DrainerType /\ DrainFits'
    <3>1. CASE handler' = NoEvent /\ UNCHANGED drained
      BY <1>0, <1>1, <3>1 DEF ChatTypeOK, DrainFits, DrainerType
    <3>2. CASE CallDrain /\ handler' = [NoEvent EXCEPT !.ahead = drains + IF drainer.pc = "off" THEN 1 ELSE 2]
      <4>1. (drains + IF drainer.pc = "off" THEN 1 ELSE 2) \in Nat
        BY <1>0
      <4> QED BY <1>1, <3>2, <4>1, Called DEF DrainerType
    <3> QED BY <1>3, <3>1, <3>2 DEF HandleSave
  <2> QED BY <1>0, <2>1, <2>2, <2>3 DEF TypeInv, ChatTypeOK, DrainerType, HandlerType
<1>4. ASSUME NEW p \in Procs, ExitForeign(p) PROVE TypeInv'
  <2>1. agent' = [agent EXCEPT ![p] = [agent[p] EXCEPT !.exit = "done"]]
    BY <1>4 DEF ExitForeign
  <2>2. agent' \in [Procs -> AgentType]
    BY <1>0, <2>1, AgentUpdate, AgentFields
  <2>3. UNCHANGED <<disk, life, child, flow, starts, drained, handler, task, history, budget>>
    BY <1>4 DEF ExitForeign
  <2> QED BY <1>0, <2>2, <2>3 DEF TypeInv, ChatTypeOK, DrainFits
<1>5. ASSUME NEW p \in Procs, ExitSeen(p) PROVE TypeInv'
  <2>1. agent' = [agent EXCEPT ![p] = [agent[p] EXCEPT !.exit = "read"]]
    BY <1>5 DEF ExitSeen
  <2>2. agent' \in [Procs -> AgentType]
    BY <1>0, <2>1, AgentUpdate, AgentFields
  <2>3. /\ child' = NoOne /\ timer' = NoOne
        /\ UNCHANGED <<disk, life, flow, seen, drained, handler, task, history, budget>>
    BY <1>5 DEF ExitSeen
  <2> QED BY <1>0, <2>2, <2>3 DEF TypeInv, ChatTypeOK, DrainFits
<1>7. ASSUME NEW p \in Procs, ExitRead(p) PROVE TypeInv'
  <2>1. PICK state \in States :
          agent' = [agent EXCEPT ![p] = [agent[p] EXCEPT !.exit = "save", !.after = state]]
    BY <1>0, <1>7 DEF ExitRead
  <2>2. agent' \in [Procs -> AgentType]
    BY <1>0, <2>1, AgentUpdate, AgentFields
  <2>3. outbox' \in Seq(Msgs) /\ cutting' \in BOOLEAN
    <3>1. <<>> \in Seq(Msgs)
      OBVIOUS
    <3> QED BY <1>0, <1>7, <3>1 DEF ExitRead
  <2>4. UNCHANGED <<disk, life, child, held, starts, drained, handler, task, history, budget>>
    BY <1>7 DEF ExitRead
  <2> QED BY <1>0, <2>2, <2>3, <2>4 DEF TypeInv, ChatTypeOK, DrainFits
<1>6. ASSUME NEW p \in Procs, ExitSave(p) PROVE TypeInv'
  <2>1. /\ agent' = [agent EXCEPT ![p] = [agent[p] EXCEPT !.exit = "done", !.after = "idle"]]
        /\ rec' = agent[p].after
    BY <1>6 DEF ExitSave
  <2>2. agent' \in [Procs -> AgentType]
    BY <1>0, <2>1, AgentUpdate, AgentFields
  <2>3. rec' \in States
    BY <1>0, <2>1 DEF AgentType
  <2>4. UNCHANGED <<queue, resumes, life, child, flow, starts, drained, handler, task, history, budget>>
    BY <1>6 DEF ExitSave
  <2> QED BY <1>0, <2>2, <2>3, <2>4 DEF TypeInv, ChatTypeOK, DrainFits
<1> QED BY <1>2, <1>3, <1>4, <1>5, <1>6, <1>7 DEF Hearing

(* The daemon drains, dies and starts.                                     *)
LEMMA LeaveTypes ==
  ASSUME TypeInv, Leaving \/ Drain \/ Crash
  PROVE  TypeInv'
<1> USE DEF disk, flow, starts, drained, history
<1>0. /\ ChatTypeOK /\ DrainFits /\ rec \in States /\ resumes \in BOOLEAN /\ queue \in Seq(Msgs)
      /\ task \in [Tasks -> TaskType] /\ agent \in [Procs -> AgentType] /\ budget \in [Events -> Nat]
      /\ {"new", "done", "refused", "deliver"} \subseteq Steps /\ Msgs \subseteq Tasks
  BY DEF TypeInv, ChatTypeOK, Steps, Tasks
<1>1. Suspended(rec) \in States
  BY <1>0 DEF Suspended, States
<1>2. ASSUME Lost, rec' \in States, UNCHANGED <<queue, resumes>>, budget' \in [Events -> Nat]
      PROVE  TypeInv'
  <2>1. task' \in [Tasks -> TaskType]
    <3>1. \A t \in Tasks : task'[t] \in {task[t], Call("done"), Call("refused")}
      BY <1>2 DEF Lost
    <3>2. \A t \in Tasks : task'[t] \in TaskType
      BY <1>0, <3>1, CallType
    <3> QED BY <1>2, <3>2 DEF Lost
  <2>2. agent' \in [Procs -> AgentType]
    <3>1. [Agent("gone") EXCEPT !.exit = "done"] \in AgentType
      BY AgentStarts, AgentFields
    <3> HIDE DEF Agent
    <3> QED BY <1>0, <1>2, <3>1 DEF Lost
  <2>3. Off \in DrainerType /\ Off.pc = "off" /\ NoEvent \in HandlerType
    BY DEF Off, DrainerType, NoEvent, HandlerType, States
  <2>4. <<>> \in Seq(Msgs)
    OBVIOUS
  <2>5. /\ life' = "down" /\ child' = NoOne /\ outbox' = <<>> /\ held' = FALSE /\ cutting' = FALSE
        /\ seen' = FALSE /\ timer' = NoOne /\ drains' = 0 /\ drainer' = Off /\ handler' = NoEvent
        /\ UNCHANGED history
    BY <1>2 DEF Lost
  <2>6. DrainFits'
    BY <2>3, <2>5 DEF DrainFits
  <2> QED BY <1>0, <1>2, <2>1, <2>2, <2>3, <2>4, <2>5, <2>6 DEF TypeInv, ChatTypeOK, DrainerType, HandlerType
<1>3. CASE Drain \/ Crash
  <2>1. budget' \in [Events -> Nat]
    BY <1>0, <1>3 DEF Drain, Crash, Spend, Events
  <2>2. CASE Drain
    BY <1>0, <2>1, <2>2 DEF Drain, TypeInv, ChatTypeOK, DrainFits
  <2>3. CASE Crash
    BY <1>0, <1>2, <2>1, <2>3 DEF Crash
  <2> QED BY <1>3, <2>2, <2>3
<1>4. CASE Leave
  BY <1>0, <1>1, <1>2, <1>4 DEF Leave
<1>5. CASE Quiet
  <2>1. resumes' \in BOOLEAN
    BY <1>0, <1>5 DEF Quiet, LeavesSome
  <2> QED BY <1>0, <1>5, <2>1 DEF Quiet, TypeInv, ChatTypeOK, DrainFits
<1>6. CASE Boot
  <2>1. \A t \in Tasks : task'[t] \in {task[t], Call("new")}
    BY <1>6 DEF Boot
  <2>2. task' \in [Tasks -> TaskType]
    <3>1. \A t \in Tasks : task'[t] \in TaskType
      BY <1>0, <2>1, CallType
    <3> QED BY <1>6, <3>1 DEF Boot
  <2> QED BY <1>0, <1>1, <1>6, <2>2 DEF Boot, TypeInv, ChatTypeOK, DrainFits
<1>7. CASE ReadResumes
  <2>1. /\ life' \in {"resume", "up"}
        /\ UNCHANGED <<rec, queue, child, flow, starts, drained, handler, task, agent, history, budget>>
    BY <1>7 DEF ReadResumes
  <2>2. resumes' \in BOOLEAN
    BY <1>7 DEF ReadResumes
  <2> QED BY <1>0, <2>1, <2>2 DEF TypeInv, ChatTypeOK, DrainFits
<1>8. CASE ResumeQueued
  <2>1. queue' \in Seq(Msgs) /\ task' \in [Tasks -> TaskType]
    <3>1. CASE queue = <<>>
      BY <1>0, <1>8, <3>1 DEF ResumeQueued
    <3>2. CASE queue # <<>>
      <4>1. Head(queue) \in Tasks /\ Tail(queue) \in Seq(Msgs)
        BY <1>0, <3>2, Headed
      <4>2. Call("deliver") \in TaskType
        BY <1>0, CallType
      <4>3. [Call("deliver") EXCEPT !.copy = rec, !.taken = TRUE] \in TaskType
        BY <1>0, <4>2 DEF TaskType
      <4>4. /\ queue' = Tail(queue)
            /\ task' = [task EXCEPT ![Head(queue)] = [Call("deliver") EXCEPT !.copy = rec, !.taken = TRUE]]
        BY <1>8, <3>2 DEF ResumeQueued
      <4> QED BY <1>0, <4>1, <4>3, <4>4, TaskUpdate
    <3> QED BY <3>1, <3>2
  <2>2. /\ life' \in {"up", "sending"}
        /\ UNCHANGED <<rec, resumes, child, flow, starts, drained, handler, agent, history, budget>>
    BY <1>8 DEF ResumeQueued
  <2> QED BY <1>0, <2>1, <2>2 DEF TypeInv, ChatTypeOK, DrainFits
<1>9. CASE Listen
  BY <1>0, <1>9 DEF Listen, TypeInv, ChatTypeOK, DrainFits
<1> QED BY <1>3, <1>4, <1>5, <1>6, <1>7, <1>8, <1>9 DEF Leaving

LEMMA TypeStep == TypeInv /\ [Next]_vars => TypeInv'
<1> SUFFICES ASSUME TypeInv, [Next]_vars
             PROVE  TypeInv'
    OBVIOUS
<1>1. CASE UNCHANGED vars
  BY <1>1 DEF vars, disk, flow, starts, drained, history, TypeInv, ChatTypeOK, DrainFits
<1> QED BY <1>1, AskTypes, DeliverTypes, StartTypes, CutTypes, DrainTypes, ClaudeTypes, HearTypes, LeaveTypes
        DEF Next, Calls

LEMMA TypeStarts == Init => TypeInv
<1> SUFFICES ASSUME Init
             PROVE  TypeInv
    OBVIOUS
<1>1. <<>> \in Seq(Msgs)
  OBVIOUS
<1>2. \A t \in Tasks : task[t] \in TaskType
  BY CallType DEF Init, Steps
<1>3. Agent("off") \in AgentType
  BY AgentStarts
<1>4. Off \in DrainerType /\ Off.pc = "off" /\ NoEvent \in HandlerType
  BY DEF Off, DrainerType, NoEvent, HandlerType, States
<1>5. task \in [Tasks -> TaskType] /\ agent \in [Procs -> AgentType]
  BY <1>2, <1>3 DEF Init
<1>6. budget \in [Events -> Nat]
  BY ChatAssumption DEF ChatAssumption, Init
<1>7. DrainFits
  BY <1>4 DEF Init, DrainFits
<1> QED BY <1>1, <1>4, <1>5, <1>6, <1>7 DEF Init, TypeInv, ChatTypeOK, States, DrainerType, HandlerType

(* Every variable of the chat keeps its type: in particular the record     *)
(* only ever holds a state the chat has, whoever wrote its copy back.      *)
THEOREM ChatTypes == Spec => []ChatTypeOK
<1>1. TypeInv => ChatTypeOK
  BY DEF TypeInv
<1> QED BY <1>1, TypeStarts, TypeStep, PTL DEF Spec

----------------------------------------------------------------------------
(* One turn each.  A message is in one place at a time: in the queue, in    *)
(* the outbox, with the drainer, with an agent, or on its way to one of     *)
(* them in the call that carries it.                                       *)

Carried(m) ==
  \/ task[m].pc \in {"new", "away", "cut", "signal", "reread", "deliver", "show"}
  \/ task[m].pc = "branch" /\ ~task[m].taken

(* The call of a queued message is over, or has only asked to send it now. *)
Resting(m) == task[m].pc = "done" \/ (task[m].pc = "branch" /\ task[m].taken)

InQueue(m)  == In(m, queue) =>
  ~In(m, outbox) /\ drainer.msg # m /\ ~In(m, handed) /\ m \notin shown /\ Resting(m)
InOutbox(m) == In(m, outbox) => drainer.msg # m /\ ~In(m, handed) /\ m \in shown /\ ~Carried(m)
WithDrainer(m) == drainer.msg = m =>
  /\ ~In(m, handed) /\ ~Carried(m)
  /\ drainer.pc \in {"show", "save", "send"}
  /\ drainer.pc = "show" <=> m \notin shown
WithAgent(m) == In(m, handed) => m \in shown /\ ~Carried(m)
OnItsWay(m)  == Carried(m) => m \notin shown

OnePlace(m) == InQueue(m) /\ InOutbox(m) /\ WithDrainer(m) /\ WithAgent(m) /\ OnItsWay(m)

TurnInv ==
  /\ Distinct(queue) /\ Distinct(outbox) /\ Distinct(handed)
  /\ \A m \in Msgs : OnePlace(m)

LEMMA NoneIn == Distinct(<<>>) /\ \A m : ~In(m, <<>>)
BY DEF Distinct, In

LEMMA CarriedNotResting == \A m : Carried(m) => ~Resting(m)
BY DEF Carried, Resting

(* A step that moves no message on: at most one leaves the queue or takes   *)
(* another place in it, the outbox is thrown away, the drainer begins or    *)
(* ends, and calls go on without picking up a message.                      *)
LEMMA Kept ==
  ASSUME TypeInv, TurnInv, UNCHANGED history,
         Distinct(queue)', \A m : In(m, queue)' => In(m, queue),
         outbox' = outbox \/ outbox' = <<>>,
         drainer' = drainer \/ drainer'.msg = NoOne,
         \A m \in Msgs : (Carried(m)' => Carried(m)) /\ (Resting(m) => Resting(m)')
  PROVE  TurnInv'
<1> USE DEF history
<1>1. Distinct(queue)' /\ Distinct(outbox)' /\ Distinct(handed)'
  BY NoneIn DEF TurnInv
<1>2. ASSUME NEW m \in Msgs PROVE OnePlace(m)'
  <2>1. m # NoOne /\ OnePlace(m) /\ (Carried(m)' => Carried(m)) /\ (Resting(m) => Resting(m)')
    BY ChatAssumption DEF ChatAssumption, TurnInv
  <2>2. (In(m, queue)' => In(m, queue)) /\ (In(m, outbox)' => In(m, outbox))
    BY NoneIn
  <2>3. InQueue(m)'
    BY <2>1, <2>2 DEF OnePlace, InQueue
  <2>4. InOutbox(m)' /\ WithAgent(m)' /\ OnItsWay(m)'
    BY <2>1, <2>2 DEF OnePlace, InOutbox, WithAgent, OnItsWay
  <2>5. WithDrainer(m)'
    BY <2>1 DEF OnePlace, WithDrainer
  <2> QED BY <2>3, <2>4, <2>5 DEF OnePlace
<1> QED BY <1>1, <1>2 DEF TurnInv

(* What a call does to itself, and to no other.                            *)
Moves(t, step) ==
  /\ task'[t].pc = step
  /\ \A n \in Msgs : n # t => task'[n] = task[n]

LEMMA Moved ==
  ASSUME TypeInv, NEW t \in Tasks
  PROVE  /\ \A step \in Steps : Goto(t, step) \/ Read(t, step) =>
              Moves(t, step) /\ task'[t].taken = task[t].taken
         /\ End(t) => Moves(t, "done")
<1>1. task \in [Tasks -> TaskType] /\ task[t] \in TaskType /\ Msgs \subseteq Tasks
  BY DEF TypeInv, ChatTypeOK, Tasks
<1>2. ASSUME NEW step \in Steps, Goto(t, step) \/ Read(t, step)
      PROVE  Moves(t, step) /\ task'[t].taken = task[t].taken
  BY <1>1, <1>2 DEF Goto, Read, Moves, TaskType
<1>3. ASSUME End(t) PROVE Moves(t, "done")
  BY <1>1, <1>3 DEF End, Moves, Call
<1> QED BY <1>2, <1>3

(* The other messages stay where they are.                                 *)
LEMMA OthersStay ==
  ASSUME TypeInv, TurnInv, NEW m \in Msgs, \A n \in Msgs : n # m => task'[n] = task[n],
         \A n \in Msgs : n # m =>
           /\ In(n, queue)' => In(n, queue)
           /\ In(n, outbox)' => In(n, outbox)
           /\ In(n, handed)' => In(n, handed)
           /\ n \in shown' <=> n \in shown
           /\ drainer'.msg = n => drainer.msg = n /\ drainer'.pc = drainer.pc
  PROVE  \A n \in Msgs : n # m => OnePlace(n)'
<1> SUFFICES ASSUME NEW n \in Msgs, n # m
             PROVE  OnePlace(n)'
    OBVIOUS
<1>1. OnePlace(n) /\ (Carried(n)' <=> Carried(n)) /\ (Resting(n)' <=> Resting(n))
  BY DEF TurnInv, Carried, Resting
<1>2. InQueue(n)'
  BY <1>1 DEF OnePlace, InQueue
<1>3. InOutbox(n)' /\ WithAgent(n)' /\ OnItsWay(n)'
  BY <1>1 DEF OnePlace, InOutbox, WithAgent, OnItsWay
<1>4. WithDrainer(n)'
  BY <1>1 DEF OnePlace, WithDrainer
<1> QED BY <1>2, <1>3, <1>4 DEF OnePlace

(* A call that carries no message goes on.                                 *)
LEMMA CallKept ==
  ASSUME TypeInv, TurnInv, NEW t \in Tasks, NEW step, Moves(t, step),
         UNCHANGED <<queue, history>>,
         outbox' = outbox \/ outbox' = <<>>,
         drainer' = drainer \/ drainer'.msg = NoOne,
         t \in Msgs => (Carried(t)' => Carried(t)) /\ (Resting(t) => Resting(t)')
  PROVE  TurnInv'
<1>1. Distinct(queue)' /\ \A m : In(m, queue)' => In(m, queue)
  BY DEF TurnInv
<1>2. ASSUME NEW m \in Msgs PROVE (Carried(m)' => Carried(m)) /\ (Resting(m) => Resting(m)')
  <2>1. CASE m = t
    BY <2>1
  <2>2. CASE m # t
    BY <2>2 DEF Moves, Carried, Resting
  <2> QED BY <2>1, <2>2
<1> QED BY <1>1, <1>2, Kept

(* A message that its call carries is put at the end of the queue.         *)
LEMMA Queued ==
  ASSUME TypeInv, TurnInv, NEW m \in Msgs, Carried(m), Moves(m, "done"),
         queue' = Append(queue, m), UNCHANGED <<outbox, history>>,
         drainer' = drainer \/ drainer'.msg = NoOne
  PROVE  TurnInv'
<1> USE DEF history
<1>1. queue \in Seq(Msgs) /\ OnePlace(m) /\ m # NoOne
  BY ChatAssumption DEF ChatAssumption, TypeInv, ChatTypeOK, TurnInv
<1>2. /\ ~In(m, queue) /\ ~In(m, outbox) /\ drainer.msg # m /\ ~In(m, handed) /\ m \notin shown
  BY <1>1, CarriedNotResting DEF OnePlace, InQueue, InOutbox, WithDrainer, WithAgent, OnItsWay
<1>3. Distinct(queue)' /\ \A n : In(n, queue)' <=> In(n, queue) \/ n = m
  BY <1>1, <1>2, Appended DEF TurnInv
<1>4. Resting(m)' /\ ~Carried(m)'
  BY DEF Moves, Resting, Carried
<1>5. OnePlace(m)'
  BY <1>1, <1>2, <1>4 DEF OnePlace, InQueue, InOutbox, WithDrainer, WithAgent, OnItsWay
<1>6. \A n \in Msgs : n # m => OnePlace(n)'
  <2>1. \A n \in Msgs : n # NoOne /\ (n # m => task'[n] = task[n])
    BY ChatAssumption DEF ChatAssumption, Moves
  <2> QED BY <1>3, <2>1, OthersStay
<1> QED BY <1>3, <1>5, <1>6 DEF TurnInv

(* A call picks a message up from the queue.                               *)
LEMMA PickedUp ==
  ASSUME TypeInv, TurnInv, NEW m \in Msgs, In(m, queue), Carried(m)', NEW step, Moves(m, step),
         Distinct(queue)', ~In(m, queue)', \A n : In(n, queue)' => In(n, queue),
         UNCHANGED <<outbox, history, drainer>>
  PROVE  TurnInv'
<1> USE DEF history
<1>1. OnePlace(m)
  BY DEF TurnInv
<1>2. ~In(m, outbox) /\ drainer.msg # m /\ ~In(m, handed) /\ m \notin shown
  BY <1>1 DEF OnePlace, InQueue
<1>3. OnePlace(m)'
  BY <1>2 DEF OnePlace, InQueue, InOutbox, WithDrainer, WithAgent, OnItsWay
<1>4. \A n \in Msgs : n # m => OnePlace(n)'
  BY OthersStay DEF Moves
<1> QED BY <1>3, <1>4 DEF TurnInv

(* Messages come in, and the person moves or removes what is queued.       *)
LEMMA AskPlaces ==
  ASSUME TypeInv, TurnInv, NEW m \in Msgs, Asks(m)
  PROVE  TurnInv'
<1> USE DEF disk, flow, starts, drained
<1>0. /\ m \in Tasks /\ {"branch", "done"} \subseteq Steps /\ queue \in Seq(Msgs) /\ task[m] \in TaskType
      /\ task \in [Tasks -> TaskType] /\ Msgs \subseteq Tasks
  BY DEF TypeInv, ChatTypeOK, Tasks, Steps
<1>1. CASE Send(m)
  <2>1. Carried(m) /\ ~Resting(m)
    BY <1>1 DEF Send, Carried, Resting
  <2>2. CASE Goto(m, "branch") /\ UNCHANGED queue
    <3>1. Moves(m, "branch")
      BY <1>0, <2>2, Moved
    <3>2. UNCHANGED <<history, outbox, drainer>>
      BY <1>1 DEF Send
    <3> QED BY <1>0, <2>1, <2>2, <3>1, <3>2, CallKept
  <2>3. CASE queue' = Append(queue, m) /\ End(m)
    <3>1. Moves(m, "done")
      BY <1>0, <2>3, Moved
    <3>2. UNCHANGED <<history, outbox, drainer>>
      BY <1>1 DEF Send
    <3> QED BY <2>1, <2>3, <3>1, <3>2, Queued
  <2> QED BY <1>1, <2>2, <2>3 DEF Send
<1>2. CASE Add(m)
  <2>1. Carried(m)
    BY <1>2 DEF Add, Carried
  <2>2. queue' = Append(queue, m) /\ UNCHANGED <<history, outbox>> /\ End(m) /\ CallDrain
    BY <1>2 DEF Add
  <2>3. Moves(m, "done") /\ (drainer' = drainer \/ drainer'.msg = NoOne)
    BY <1>0, <2>2, Moved, Called
  <2> QED BY <2>1, <2>2, <2>3, Queued
<1>3. CASE SendNow(m)
  <2>1. task' = [task EXCEPT ![m] = [task[m] EXCEPT !.pc = "branch", !.taken = TRUE]]
    BY <1>3 DEF SendNow
  <2>2. Moves(m, "branch") /\ task'[m].taken
    BY <1>0, <2>1 DEF Moves, TaskType
  <2>3. ~Carried(m)' /\ Resting(m)'
    BY <2>2 DEF Moves, Carried, Resting
  <2>4. UNCHANGED <<queue, history, outbox, drainer>>
    BY <1>3 DEF SendNow
  <2> QED BY <1>0, <2>2, <2>3, <2>4, CallKept
<1>4. CASE Remove(m) \/ Edit(m)
  <2>1. In(m, queue) /\ UNCHANGED <<task, history, outbox, drainer>>
    BY <1>4 DEF Remove, Edit
  <2> PICK left \in Seq(Msgs) : left = Without(queue, m)
    BY <1>0, <2>1, TakenOut
  <2>2. (\A n : In(n, left) => In(n, queue)) /\ Distinct(left) /\ ~In(m, left)
    BY <1>0, <2>1, TakenOut DEF TurnInv
  <2>3. queue' = left \/ queue' = Append(left, m)
    BY <1>4 DEF Remove, Edit
  <2>4. Distinct(queue)' /\ \A n : In(n, queue)' => In(n, queue)
    <3>1. CASE queue' = left
      BY <2>2, <3>1
    <3>2. CASE queue' = Append(left, m)
      <4>1. Distinct(Append(left, m)) /\ \A n : In(n, Append(left, m)) => In(n, queue)
        BY <2>1, <2>2, Appended
      <4> QED BY <3>2, <4>1
    <3> QED BY <2>3, <3>1, <3>2
  <2>5. \A n \in Msgs : (Carried(n)' => Carried(n)) /\ (Resting(n) => Resting(n)')
    BY <2>1 DEF Carried, Resting
  <2> QED BY <2>1, <2>4, <2>5, Kept
<1> QED BY <1>1, <1>2, <1>3, <1>4 DEF Asks

(* The calls that take a message to an agent: one leaves the queue only to  *)
(* be carried, and what is carried is shown once, when it is put in the     *)
(* outbox.                                                                  *)
LEMMA DeliverPlaces ==
  ASSUME TypeInv, TurnInv, NEW m \in Msgs,
         Branch(m) \/ Take(m) \/ Reread(m) \/ Deliver(m) \/ Show(m)
  PROVE  TurnInv'
<1> USE DEF disk, flow, starts, drained
<1>0. /\ m \in Tasks /\ {"away", "deliver", "cut", "reread", "show", "begin", "done"} \subseteq Steps
      /\ queue \in Seq(Msgs) /\ outbox \in Seq(Msgs) /\ task[m] \in TaskType
      /\ task \in [Tasks -> TaskType] /\ Msgs \subseteq Tasks
  BY DEF TypeInv, ChatTypeOK, Tasks, Steps
<1>1. CASE Branch(m)
  <2>1. Carried(m) /\ ~Resting(m)
    BY <1>1 DEF Branch, Carried, Resting
  <2>2. UNCHANGED <<history, outbox, drainer>>
    BY <1>1 DEF Branch
  <2>3. CASE UNCHANGED queue /\ (Goto(m, "away") \/ Read(m, "deliver"))
    <3>1. Moves(m, "away") \/ Moves(m, "deliver")
      BY <1>0, <2>3, Moved
    <3> QED BY <1>0, <2>1, <2>2, <2>3, <3>1, CallKept
  <2>4. CASE queue' = Append(queue, m) /\ End(m)
    <3>1. Moves(m, "done")
      BY <1>0, <2>4, Moved
    <3> QED BY <2>1, <2>2, <2>4, <3>1, Queued
  <2> QED BY <1>1, <2>3, <2>4 DEF Branch
<1>2. CASE Take(m)
  <2>1. UNCHANGED <<history, outbox, drainer>>
    BY <1>2 DEF Take
  <2>2. CASE In(m, queue) /\ queue' = Without(queue, m) /\ (Goto(m, "cut") \/ Goto(m, "reread"))
    <3>1. Distinct(queue)' /\ ~In(m, queue)' /\ \A n : In(n, queue)' => In(n, queue)
      BY <1>0, <2>2, TakenOut DEF TurnInv
    <3>2. Moves(m, "cut") \/ Moves(m, "reread")
      BY <1>0, <2>2, Moved
    <3>3. Carried(m)'
      BY <3>2 DEF Moves, Carried
    <3> QED BY <2>1, <2>2, <3>1, <3>2, <3>3, PickedUp
  <2>3. CASE End(m) /\ UNCHANGED queue
    <3>1. Moves(m, "done")
      BY <1>0, <2>3, Moved
    <3>2. ~Carried(m)' /\ Resting(m)'
      BY <3>1 DEF Moves, Carried, Resting
    <3> QED BY <1>0, <2>1, <2>3, <3>1, <3>2, CallKept
  <2> QED BY <1>2, <2>2, <2>3 DEF Take, Left
<1>3. CASE Reread(m) \/ Deliver(m)
  <2>1. Carried(m) /\ ~Resting(m)
    BY <1>3 DEF Reread, Deliver, Carried, Resting
  <2>2. UNCHANGED <<queue, history, outbox, drainer>> /\ (Read(m, "deliver") \/ Goto(m, "show"))
    BY <1>3 DEF Reread, Deliver
  <2>3. Moves(m, "deliver") \/ Moves(m, "show")
    BY <1>0, <2>2, Moved
  <2> QED BY <1>0, <2>1, <2>2, <2>3, CallKept
<1>4. CASE Show(m)
  <2> DEFINE resuming == task[m].copy = "suspended"
  <2>1. /\ shown' = shown \cup {m} /\ UNCHANGED <<queue, handed>>
        /\ outbox' = IF resuming THEN <<m>> ELSE Append(outbox, m)
    BY <1>4 DEF Show, Published
  <2>2. ~Carried(m)' /\ (\A n \in Msgs : n # m => task'[n] = task[n]) /\ (drainer' = drainer \/ drainer'.msg = NoOne)
    <3>1. CASE task' = [task EXCEPT ![m].pc = "begin", ![m].resuming = resuming] /\ UNCHANGED drained
      <4>1. task' = [task EXCEPT ![m] = [task[m] EXCEPT !.pc = "begin", !.resuming = resuming]]
        BY <3>1
      <4>2. task'[m].pc = "begin"
        BY <1>0, <4>1 DEF TaskType
      <4> QED BY <1>0, <3>1, <4>1, <4>2 DEF Carried
    <3>2. CASE End(m) /\ CallDrain
      <4>1. Moves(m, "done") /\ (drainer' = drainer \/ drainer'.msg = NoOne)
        BY <1>0, <3>2, Moved, Called
      <4> QED BY <4>1 DEF Moves, Carried
    <3> QED BY <1>4, <3>1, <3>2 DEF Show
  <2>3. Carried(m) /\ OnePlace(m) /\ \A n \in Msgs : n # NoOne
    BY <1>4, ChatAssumption DEF ChatAssumption, Show, Carried, TurnInv
  <2>4. /\ ~In(m, queue) /\ ~In(m, outbox) /\ drainer.msg # m /\ ~In(m, handed) /\ m \notin shown
    BY <2>3, CarriedNotResting DEF OnePlace, InQueue, InOutbox, WithDrainer, WithAgent, OnItsWay
  <2>5. Distinct(outbox)' /\ \A n : In(n, outbox)' => In(n, outbox) \/ n = m
    <3>1. CASE outbox' = <<m>>
      BY <3>1 DEF Distinct, In
    <3>2. CASE outbox' = Append(outbox, m)
      BY <1>0, <2>4, <3>2, Appended DEF TurnInv
    <3> QED BY <2>1, <3>1, <3>2
  <2>6. OnePlace(m)'
    BY <2>1, <2>2, <2>3, <2>4 DEF OnePlace, InQueue, InOutbox, WithDrainer, WithAgent, OnItsWay
  <2>7. \A n \in Msgs : n # m => OnePlace(n)'
    BY <2>1, <2>2, <2>3, <2>5, OthersStay
  <2> QED BY <2>1, <2>5, <2>6, <2>7 DEF TurnInv
<1> QED BY <1>1, <1>2, <1>3, <1>4

(* The drainer takes the first message of the outbox, which was shown, or  *)
(* of the queue, which it shows; and lets go of it when it hands it over.  *)
LEMMA DrainPlaces ==
  ASSUME TypeInv, TurnInv, Draining
  PROVE  TurnInv'
<1> USE DEF disk, flow, starts, drained
<1>0. /\ queue \in Seq(Msgs) /\ outbox \in Seq(Msgs) /\ handed \in Seq(Msgs)
      /\ drainer \in DrainerType /\ \A n \in Msgs : n # NoOne
      /\ drainer.pc \in {"show", "save", "send"} => drainer.msg \in Msgs
  BY ChatAssumption DEF ChatAssumption, TypeInv, ChatTypeOK, DrainFits, DrainerType
<1>1. Rest => drainer'.msg = NoOne
  BY RestTypes
<1>2. CASE DrainRead
  <2>1. UNCHANGED <<task, history>>
    BY <1>2 DEF DrainRead
  <2>2. CASE Rest /\ UNCHANGED <<outbox, queue>>
    <3>1. \A n \in Msgs : (Carried(n)' => Carried(n)) /\ (Resting(n) => Resting(n)')
      BY <2>1 DEF Carried, Resting
    <3>2. Distinct(queue)' /\ \A n : In(n, queue)' => In(n, queue)
      BY <2>2 DEF TurnInv
    <3> QED BY <1>1, <2>1, <2>2, <3>1, <3>2, Kept
  <2>3. CASE outbox # <<>> /\ Takes(Head(outbox), "save") /\ outbox' = Tail(outbox) /\ UNCHANGED queue
    <3> PICK m \in Msgs : m = Head(outbox)
        BY <1>0, <2>3, Headed
    <3>1. drainer'.msg = m /\ drainer'.pc = "save"
      BY <1>0, <2>3 DEF Takes, DrainerType
    <3>2. In(m, outbox) /\ Distinct(outbox)' /\ ~In(m, outbox)' /\ \A n : In(n, outbox)' => In(n, outbox)
      BY <1>0, <2>3, Headed DEF TurnInv
    <3>3. OnePlace(m)
      BY DEF TurnInv
    <3>4. ~In(m, queue) /\ ~In(m, handed) /\ m \in shown /\ ~Carried(m)
      BY <3>2, <3>3 DEF OnePlace, InQueue, InOutbox
    <3>5. ~Carried(m)'
      BY <2>1, <3>4 DEF Carried
    <3>6. OnePlace(m)'
      BY <2>1, <2>3, <3>1, <3>2, <3>4, <3>5
         DEF history, OnePlace, InQueue, InOutbox, WithDrainer, WithAgent, OnItsWay
    <3>7. \A n \in Msgs : n # m => OnePlace(n)'
      BY <2>1, <2>3, <3>1, <3>2, OthersStay DEF history
    <3> QED BY <2>1, <2>3, <3>2, <3>6, <3>7 DEF history, TurnInv
  <2>4. CASE queue # <<>> /\ Takes(Head(queue), "show") /\ queue' = Tail(queue) /\ UNCHANGED outbox
    <3> PICK m \in Msgs : m = Head(queue)
        BY <1>0, <2>4, Headed
    <3>1. drainer'.msg = m /\ drainer'.pc = "show"
      BY <1>0, <2>4 DEF Takes, DrainerType
    <3>2. In(m, queue) /\ Distinct(queue)' /\ ~In(m, queue)' /\ \A n : In(n, queue)' => In(n, queue)
      BY <1>0, <2>4, Headed DEF TurnInv
    <3>3. OnePlace(m)
      BY DEF TurnInv
    <3>4. ~In(m, outbox) /\ ~In(m, handed) /\ m \notin shown /\ ~Carried(m)
      BY <3>2, <3>3, CarriedNotResting DEF OnePlace, InQueue
    <3>5. ~Carried(m)'
      BY <2>1, <3>4 DEF Carried
    <3>6. OnePlace(m)'
      BY <2>1, <2>4, <3>1, <3>2, <3>4, <3>5
         DEF history, OnePlace, InQueue, InOutbox, WithDrainer, WithAgent, OnItsWay
    <3>7. \A n \in Msgs : n # m => OnePlace(n)'
      BY <2>1, <2>4, <3>1, <3>2, OthersStay DEF history
    <3> QED BY <2>1, <2>4, <3>2, <3>6, <3>7 DEF history, TurnInv
  <2> QED BY <1>2, <2>2, <2>3, <2>4 DEF DrainRead
<1>3. CASE DrainShow \/ DrainSave
  <2> PICK m \in Msgs : m = drainer.msg
      BY <1>0, <1>3 DEF DrainShow, DrainSave
  <2>1. UNCHANGED <<queue, outbox, handed, task>>
    BY <1>3 DEF DrainShow, DrainSave, history
  <2>2. \/ drainer.pc = "show" /\ shown' = shown \cup {m} /\ drainer' = [drainer EXCEPT !.pc = "save"]
        \/ drainer.pc = "save" /\ shown' = shown /\ drainer' = [drainer EXCEPT !.pc = "send"]
    BY <1>3 DEF DrainShow, DrainSave, Published, history
  <2>3. drainer'.msg = m /\ drainer'.pc \in {"save", "send"}
    BY <1>0, <2>2 DEF DrainerType
  <2>4. OnePlace(m)
    BY DEF TurnInv
  <2>5. m \in shown'
    BY <2>2, <2>4 DEF OnePlace, WithDrainer
  <2>6. ~In(m, queue) /\ ~In(m, outbox) /\ ~In(m, handed) /\ ~Carried(m)
    BY <2>4 DEF OnePlace, InQueue, InOutbox, WithDrainer
  <2>7. ~Carried(m)'
    BY <2>1, <2>6 DEF Carried
  <2>8. OnePlace(m)'
    BY <2>1, <2>3, <2>5, <2>6, <2>7 DEF OnePlace, InQueue, InOutbox, WithDrainer, WithAgent, OnItsWay
  <2>9. \A n \in Msgs : n # m => OnePlace(n)'
    BY <2>1, <2>2, <2>3, OthersStay
  <2> QED BY <2>1, <2>8, <2>9 DEF TurnInv
<1>4. CASE DrainSend
  <2> PICK m \in Msgs : m = drainer.msg
      BY <1>0, <1>4 DEF DrainSend
  <2>1. drainer.pc = "send" /\ UNCHANGED <<queue, outbox, shown, task>> /\ drainer'.msg = NoOne
    BY <1>1, <1>4 DEF DrainSend
  <2>2. CASE UNCHANGED handed
    <3>1. \A n \in Msgs : (Carried(n)' => Carried(n)) /\ (Resting(n) => Resting(n)')
      BY <2>1 DEF Carried, Resting
    <3>2. Distinct(queue)' /\ \A n : In(n, queue)' => In(n, queue)
      BY <2>1 DEF TurnInv
    <3> QED BY <2>1, <2>2, <3>1, <3>2, Kept DEF history
  <2>3. CASE handed' = Append(handed, m)
    <3>1. OnePlace(m)
      BY DEF TurnInv
    <3>2. ~In(m, queue) /\ ~In(m, outbox) /\ ~In(m, handed) /\ ~Carried(m) /\ m \in shown
      BY <2>1, <3>1 DEF OnePlace, InQueue, InOutbox, WithDrainer
    <3>3. ~Carried(m)'
      BY <2>1, <3>2 DEF Carried
    <3>4. Distinct(handed)' /\ \A n : In(n, handed)' => In(n, handed) \/ n = m
      BY <1>0, <2>3, <3>2, Appended DEF TurnInv
    <3>5. OnePlace(m)'
      BY <1>0, <2>1, <3>2, <3>3 DEF OnePlace, InQueue, InOutbox, WithDrainer, WithAgent, OnItsWay
    <3>6. \A n \in Msgs : n # m => OnePlace(n)'
      BY <1>0, <2>1, <3>4, OthersStay
    <3> QED BY <2>1, <3>4, <3>5, <3>6 DEF TurnInv
  <2> QED BY <1>4, <2>2, <2>3 DEF DrainSend
<1> QED BY <1>2, <1>3, <1>4 DEF Draining

LEMMA StartMoves ==
  ASSUME TypeInv, NEW m \in Msgs,
         Begin(m) \/ Replace(m) \/ (\E p \in Procs : Spawn(m, p)) \/ Spawned(m) \/ Started(m) \/ StartFails(m)
  PROVE  \E step \in {"replace", "prepare", "spawned", "started", "failing", "done"} : Moves(m, step)
<1>0. /\ m \in Tasks /\ {"replace", "prepare", "spawned", "started", "failing", "done"} \subseteq Steps
      /\ task \in [Tasks -> TaskType] /\ task[m] \in TaskType /\ Msgs \subseteq Tasks
  BY DEF TypeInv, ChatTypeOK, Tasks, Steps
<1>1. CASE Replace(m)
  <2>1. task' = [task EXCEPT ![m] = [task[m] EXCEPT !.pc = "prepare", !.proc = child]]
    BY <1>1 DEF Replace
  <2> QED BY <1>0, <2>1 DEF Moves, TaskType
<1>2. ASSUME NEW p \in Procs, Spawn(m, p)
      PROVE  Moves(m, "spawned")
  <2>1. task' = [task EXCEPT ![m] = [task[m] EXCEPT !.pc = "spawned", !.proc = p]]
    BY <1>2 DEF Spawn
  <2> QED BY <1>0, <2>1 DEF Moves, TaskType
<1>3. CASE Begin(m) \/ Spawned(m) \/ Started(m) \/ StartFails(m)
  BY <1>0, <1>3, Moved DEF Begin, Spawned, Started, StartFails
<1> QED BY <1>1, <1>2, <1>3

(* What the person and the timer begin is no message's call.               *)
LEMMA OthersCalls ==
  ASSUME TypeInv, StartTimeout \/ Interrupt \/ Stop \/ StopSave, NEW m \in Msgs
  PROVE  task'[m] = task[m]
<1>0. {"failing", "cut", "stopSave", "done"} \subseteq Steps /\ Others \subseteq Tasks
  BY DEF Tasks, Steps
<1>1. \/ \E t \in Others : Goto(t, "failing") \/ Goto(t, "cut") \/ Goto(t, "stopSave") \/ End(t)
      \/ UNCHANGED task
  BY DEF StartTimeout, Interrupt, Stop, StopSave, Others
<1>2. ASSUME NEW t \in Others, Goto(t, "failing") \/ Goto(t, "cut") \/ Goto(t, "stopSave") \/ End(t)
      PROVE  task'[m] = task[m]
  <2>1. t \in Tasks /\ m # t
    BY <1>0, ChatAssumption DEF ChatAssumption
  <2>2. \E step \in Steps : Moves(t, step)
    BY <1>0, <1>2, <2>1, Moved
  <2> QED BY <2>1, <2>2 DEF Moves
<1> QED BY <1>1, <1>2

(* An agent is started: the call carries no message any more.              *)
LEMMA StartPlaces ==
  ASSUME TypeInv, TurnInv, NEW m \in Msgs,
         Begin(m) \/ Replace(m) \/ (\E p \in Procs : Spawn(m, p)) \/ Spawned(m) \/ Started(m) \/ StartFails(m)
  PROVE  TurnInv'
<1> USE DEF disk, flow, starts, drained
<1>0. /\ m \in Tasks /\ {"replace", "prepare", "spawned", "started", "failing", "done"} \subseteq Steps
      /\ task \in [Tasks -> TaskType] /\ task[m] \in TaskType /\ Msgs \subseteq Tasks
  BY DEF TypeInv, ChatTypeOK, Tasks, Steps
<1>1. UNCHANGED <<queue, history>> /\ (outbox' = outbox \/ outbox' = <<>>)
  BY DEF Begin, Replace, Spawn, Spawned, Started, StartFails
<1>2. drainer' = drainer \/ drainer'.msg = NoOne
  BY Called DEF Begin, Replace, Spawn, Spawned, Started, StartFails
<1>3. ~Resting(m)
  BY DEF Begin, Replace, Spawn, Spawned, Started, StartFails, Resting
<1>4. \E step \in {"replace", "prepare", "spawned", "started", "failing", "done"} : Moves(m, step)
  BY StartMoves
<1>5. ~Carried(m)'
  BY <1>4 DEF Moves, Carried
<1> QED BY <1>0, <1>1, <1>2, <1>3, <1>4, <1>5, CallKept

(* A turn is cut, a start fails: send-now goes on carrying its message.    *)
LEMMA CutPlaces ==
  ASSUME TypeInv, TurnInv,
         \/ \E t \in Tasks : Cutting(t)
         \/ StartTimeout \/ Interrupt \/ Stop \/ StopSave
  PROVE  TurnInv'
<1> USE DEF disk, flow, starts, drained
<1>0. /\ {"signal", "reread", "failing", "cut", "stopSave", "done"} \subseteq Steps
      /\ task \in [Tasks -> TaskType] /\ Msgs \subseteq Tasks
      /\ Others \subseteq Tasks /\ "person" \in Others \ Msgs /\ "timer" \in Others \ Msgs
  BY ChatAssumption DEF ChatAssumption, TypeInv, ChatTypeOK, Tasks, Others, Steps
<1>1. ASSUME NEW t \in Tasks, Cutting(t)
      PROVE  TurnInv'
  <2> USE DEF Cutting, Cut, Signal, Failing
  <2>1. UNCHANGED <<queue, history, outbox, drainer>>
    BY <1>1
  <2>2. task[t] \in TaskType
    BY <1>0
  <2>3. CASE Cut(t)
    <3>1. task' = [task EXCEPT ![t] = [task[t] EXCEPT !.pc = "signal", !.proc = child]]
      BY <2>3
    <3>2. Moves(t, "signal")
      BY <1>0, <2>2, <3>1 DEF Moves, TaskType
    <3>3. Carried(t) /\ ~Resting(t)
      BY <2>3 DEF Carried, Resting
    <3> QED BY <2>1, <3>2, <3>3, CallKept
  <2>4. CASE Signal(t)
    <3>1. Moves(t, "reread") \/ Moves(t, "done")
      BY <1>0, <2>4, Moved
    <3>2. Carried(t) /\ ~Resting(t)
      BY <2>4 DEF Carried, Resting
    <3> QED BY <2>1, <3>1, <3>2, CallKept
  <2>5. CASE Failing(t)
    <3>1. Moves(t, "done")
      BY <1>0, <2>5, Moved
    <3>2. ~Carried(t)' /\ Resting(t)'
      BY <3>1 DEF Moves, Carried, Resting
    <3> QED BY <2>1, <3>1, <3>2, CallKept
  <2> QED BY <1>1, <2>3, <2>4, <2>5
<1>2. ASSUME StartTimeout \/ Interrupt \/ Stop \/ StopSave
      PROVE  TurnInv'
  <2>1. UNCHANGED <<queue, history, drainer>> /\ (outbox' = outbox \/ outbox' = <<>>)
    BY <1>2 DEF StartTimeout, Interrupt, Stop, StopSave
  <2>2. \A m \in Msgs : task'[m] = task[m]
    BY <1>2, OthersCalls
  <2>3. \A m \in Msgs : (Carried(m)' => Carried(m)) /\ (Resting(m) => Resting(m)')
    BY <2>2 DEF Carried, Resting
  <2>4. Distinct(queue)' /\ \A m : In(m, queue)' => In(m, queue)
    BY <2>1 DEF TurnInv
  <2> QED BY <2>1, <2>3, <2>4, Kept
<1> QED BY <1>1, <1>2

(* The agent works and the daemon hears of it.                             *)
LEMMA HearPlaces ==
  ASSUME TypeInv, TurnInv, Hearing \/ \E p \in Procs : Claude(p) \/ Speaks(p) \/ Exits(p)
  PROVE  TurnInv'
<1> USE DEF disk, flow, starts, drained
<1>1. UNCHANGED <<queue, task, history>> /\ (outbox' = outbox \/ outbox' = <<>>)
  BY DEF Hearing, HandleSave, Handle, ExitForeign, ExitSeen, ExitRead, ExitSave, Claude, TurnBegins, TurnEnds,
         Ignores, Speaks, Exits
<1>2. drainer' = drainer \/ drainer'.msg = NoOne
  BY Called DEF Hearing, HandleSave, Handle, ExitForeign, ExitSeen, ExitRead, ExitSave, Claude, TurnBegins, TurnEnds,
                Ignores, Speaks, Exits
<1>3. \A m \in Msgs : (Carried(m)' => Carried(m)) /\ (Resting(m) => Resting(m)')
  BY <1>1 DEF Carried, Resting
<1>4. Distinct(queue)' /\ \A m : In(m, queue)' => In(m, queue)
  BY <1>1 DEF TurnInv
<1> QED BY <1>1, <1>2, <1>3, <1>4, Kept

(* The daemon leaves, dies and starts: what it carried is lost or refused,  *)
(* what it left in the queue is where it was.                              *)
LEMMA LeavePlaces ==
  ASSUME TypeInv, TurnInv, Leaving \/ Drain \/ Crash
  PROVE  TurnInv'
<1> USE DEF disk, flow, starts, drained
<1>0. task \in [Tasks -> TaskType] /\ Msgs \subseteq Tasks /\ queue \in Seq(Msgs)
  BY DEF TypeInv, ChatTypeOK, Tasks
<1>1. UNCHANGED queue => Distinct(queue)' /\ \A m : In(m, queue)' => In(m, queue)
  BY DEF TurnInv
<1>2. ASSUME Drain \/ Quiet \/ ReadResumes \/ Listen \/ (ResumeQueued /\ queue = <<>>)
      PROVE  TurnInv'
  <2>1. UNCHANGED <<queue, task, history, outbox, drainer>>
    BY <1>2 DEF Drain, Quiet, ReadResumes, Listen, ResumeQueued
  <2>2. \A m \in Msgs : (Carried(m)' => Carried(m)) /\ (Resting(m) => Resting(m)')
    BY <2>1 DEF Carried, Resting
  <2> QED BY <1>1, <2>1, <2>2, Kept
<1>3. CASE Boot
  <2>1. UNCHANGED <<queue, history, outbox, drainer>>
    BY <1>3 DEF Boot
  <2>2. ASSUME NEW m \in Msgs
        PROVE  (Carried(m)' => Carried(m)) /\ (Resting(m) => Resting(m)')
    <3>1. task'[m] = task[m] \/ task[m].pc = "away"
      BY <1>0, <1>3 DEF Boot
    <3> QED BY <3>1 DEF Carried, Resting
  <2> QED BY <1>1, <2>1, <2>2, Kept
<1>4. CASE Leave \/ Crash
  <2>1. Lost /\ UNCHANGED queue
    BY <1>4 DEF Leave, Crash
  <2>2. UNCHANGED history /\ outbox' = <<>> /\ drainer'.msg = NoOne
    BY <2>1 DEF Lost, Off
  <2>3. ASSUME NEW m \in Msgs
        PROVE  (Carried(m)' => Carried(m)) /\ (Resting(m) => Resting(m)')
    <3>1. task'[m] = IF task[m].pc \in {"new", "away"} THEN task[m]
                     ELSE IF m \in KnownMsgs \cup Others THEN Call("done") ELSE Call("refused")
      BY <1>0, <2>1 DEF Lost
    <3>2. Call("done").pc = "done" /\ Call("refused").pc = "refused"
      BY DEF Call
    <3>3. Resting(m) => m \in KnownMsgs
      BY DEF Resting, KnownMsgs
    <3> QED BY <3>1, <3>2, <3>3 DEF Carried, Resting
  <2> QED BY <1>1, <2>1, <2>2, <2>3, Kept
<1>5. CASE ResumeQueued /\ queue # <<>>
  <2> PICK m \in Msgs : m = Head(queue)
      BY <1>0, <1>5, Headed
  <2>1. /\ queue' = Tail(queue) /\ UNCHANGED <<outbox, history, drainer>>
        /\ task' = [task EXCEPT ![m] = [Call("deliver") EXCEPT !.copy = rec, !.taken = TRUE]]
    BY <1>5 DEF ResumeQueued
  <2>2. In(m, queue) /\ Distinct(queue)' /\ ~In(m, queue)' /\ \A n : In(n, queue)' => In(n, queue)
    BY <1>0, <1>5, <2>1, Headed DEF TurnInv
  <2>3. Moves(m, "deliver")
    BY <1>0, <2>1 DEF Call, Moves
  <2>4. Carried(m)'
    BY <2>3 DEF Moves, Carried
  <2> QED BY <2>1, <2>2, <2>3, <2>4, PickedUp
<1> QED BY <1>2, <1>3, <1>4, <1>5 DEF Leaving

LEMMA TurnStep == TypeInv /\ TurnInv /\ [Next]_vars => TurnInv'
<1> SUFFICES ASSUME TypeInv, TurnInv, [Next]_vars
             PROVE  TurnInv'
    OBVIOUS
<1>1. CASE UNCHANGED vars
  <2>1. UNCHANGED <<queue, task, history, outbox, drainer>>
    BY <1>1 DEF vars, disk, flow, drained
  <2>2. \A m \in Msgs : (Carried(m)' => Carried(m)) /\ (Resting(m) => Resting(m)')
    BY <2>1 DEF Carried, Resting
  <2>3. Distinct(queue)' /\ \A m : In(m, queue)' => In(m, queue)
    BY <2>1 DEF TurnInv
  <2> QED BY <2>1, <2>2, <2>3, Kept
<1> QED BY <1>1, AskPlaces, DeliverPlaces, StartPlaces, CutPlaces, DrainPlaces, HearPlaces, LeavePlaces
        DEF Next, Calls

LEMMA TurnInvariant == Spec => [](TypeInv /\ TurnInv)
<1>1. Init => TypeInv
  BY TypeStarts
<1>2. Init => TurnInv
  <2> SUFFICES ASSUME Init
               PROVE  TurnInv
      OBVIOUS
  <2>1. queue = <<>> /\ outbox = <<>> /\ handed = <<>> /\ shown = {} /\ drainer.msg = NoOne
    BY DEF Init, Off
  <2>2. \A m \in Msgs : m # NoOne
    BY ChatAssumption DEF ChatAssumption
  <2> QED BY <2>1, <2>2, NoneIn DEF TurnInv, OnePlace, InQueue, InOutbox, WithDrainer, WithAgent, OnItsWay
<1> QED BY <1>1, <1>2, TypeStep, TurnStep, PTL DEF Spec

(* Whatever the person sends now, queues, edits, removes and interrupts,   *)
(* and however often the daemon dies: a message is handed to an agent once *)
(* at most, after it was shown, and then waits nowhere else.               *)
THEOREM OneTurnForEach == Spec => []OneTurnEach
<1>1. TypeInv /\ TurnInv => OneTurnEach
  <2> SUFFICES ASSUME TypeInv, TurnInv
               PROVE  OneTurnEach
      OBVIOUS
  <2>1. ASSUME NEW i \in DOMAIN handed
        PROVE  handed[i] \in shown \ WaitingMsgs
    <3> PICK m \in Msgs : m = handed[i]
        BY DEF TypeInv, ChatTypeOK
    <3>1. In(m, handed) /\ OnePlace(m)
      BY DEF In, TurnInv
    <3>2. m \in shown /\ ~Carried(m) /\ ~In(m, queue) /\ ~In(m, outbox) /\ drainer.msg # m
      BY <3>1 DEF OnePlace, InQueue, InOutbox, WithDrainer, WithAgent
    <3>3. ~InCall(m)
      BY <3>2 DEF Carried, InCall
    <3> QED BY <3>2, <3>3 DEF WaitingMsgs
  <2>2. \A i, j \in DOMAIN handed : handed[i] = handed[j] => i = j
    BY DEF TurnInv, Distinct
  <2> QED BY <2>1, <2>2 DEF OneTurnEach, Promise!OneTurnEach
<1> QED BY <1>1, TurnInvariant, PTL

----------------------------------------------------------------------------
(* One agent.  Two starts that wait for the same agent to go both start    *)
(* one; short of that the agent that was not told to go is the chat's.      *)

StartsAlone == \A m \in Msgs : task[m].pc = "prepare" => child = NoOne
EndsGone    == \A p \in Procs : agent[p].exit # "none" => agent[p].life = "gone"

AgentInv == OneAgent /\ StartsAlone /\ EndsGone

(* Calls go on without coming to a start.                                  *)
NoStart == \A m \in Msgs : task'[m].pc = "prepare" => task[m].pc = "prepare"

(* No agent comes to life, none that lives has ended.                      *)
NoneBegins == \A p \in Procs :
  /\ agent'[p].life = "up" => agent[p].life = "up"
  /\ agent'[p].exit # "none" => agent'[p].life = "gone"

LEMMA ChildStays ==
  ASSUME AgentInv, NoStart, NoneBegins, UNCHANGED child
  PROVE  AgentInv'
BY DEF AgentInv, OneAgent, StartsAlone, EndsGone, NoStart, NoneBegins

LEMMA ChildLost ==
  ASSUME AgentInv, NoneBegins, child' = NoOne, \A p \in Procs : agent'[p].life = "up" => p # child
  PROVE  AgentInv'
BY DEF AgentInv, OneAgent, StartsAlone, EndsGone, NoneBegins

LEMMA ChildDropped ==
  ASSUME TypeInv, AgentInv, Drop(child)
  PROVE  AgentInv'
<1>1. ChatTypeOK /\ child \in Procs \cup {NoOne} /\ EndsGone
  BY DEF TypeInv, ChatTypeOK, AgentInv
<1>2. /\ child' = NoOne
      /\ \A q \in Procs :
           /\ agent'[q].life = IF q = child /\ agent[q].life = "up" THEN "term" ELSE agent[q].life
           /\ agent'[q].exit = agent[q].exit
  BY <1>1, Dropped
<1>3. NoneBegins /\ \A p \in Procs : agent'[p].life = "up" => p # child
  BY <1>1, <1>2 DEF EndsGone, NoneBegins
<1> QED BY <1>2, <1>3, ChildLost

LEMMA NoStartMoves ==
  ASSUME NEW t \in Tasks, NEW step, Moves(t, step), step # "prepare"
  PROVE  NoStart
BY DEF Moves, NoStart

(* An agent's entry changes.                                               *)
LEMMA AgentChanges ==
  ASSUME TypeInv, AgentInv, NEW p \in Procs, NEW d \in AgentType, agent' = [agent EXCEPT ![p] = d],
         d.life = "up" => agent[p].life = "up",
         d.exit # "none" => d.life = "gone"
  PROVE  NoneBegins
<1>1. agent \in [Procs -> AgentType]
  BY DEF TypeInv, ChatTypeOK
<1> QED BY <1>1 DEF AgentInv, EndsGone, NoneBegins

LEMMA AgentsStay ==
  ASSUME AgentInv, UNCHANGED agent
  PROVE  NoneBegins
BY DEF AgentInv, EndsGone, NoneBegins

(* The steps that neither start nor touch an agent.                        *)
LEMMA CallsKeepAgent ==
  ASSUME TypeInv, AgentInv, NEW m \in Msgs,
         \/ Asks(m) \/ Branch(m) \/ Take(m) \/ Reread(m) \/ Deliver(m) \/ Show(m)
         \/ Begin(m) \/ Spawned(m) \/ Started(m)
  PROVE  AgentInv'
<1>0. /\ m \in Tasks /\ task \in [Tasks -> TaskType] /\ task[m] \in TaskType /\ Msgs \subseteq Tasks
      /\ {"branch", "away", "deliver", "cut", "reread", "show", "replace", "started", "done"} \subseteq Steps
  BY DEF TypeInv, ChatTypeOK, Tasks, Steps
<1>1. UNCHANGED <<child, agent>>
  BY DEF Asks, Send, Add, SendNow, Remove, Edit, Branch, Take, Reread, Deliver, Show, Begin, Spawned, Started
<1>2. NoStart
  <2>1. CASE \/ UNCHANGED task \/ End(m)
             \/ \E step \in {"branch", "away", "deliver", "cut", "reread", "show", "replace", "started"} :
                  Goto(m, step) \/ Read(m, step)
    <3>1. CASE UNCHANGED task
      BY <3>1 DEF NoStart
    <3>2. CASE End(m)
      BY <1>0, <3>2, Moved, NoStartMoves
    <3>3. ASSUME NEW step \in {"branch", "away", "deliver", "cut", "reread", "show", "replace", "started"},
                 Goto(m, step) \/ Read(m, step)
          PROVE  NoStart
      BY <1>0, <3>3, Moved, NoStartMoves
    <3> QED BY <2>1, <3>1, <3>2, <3>3
  <2>2. CASE SendNow(m)
    <3>1. task' = [task EXCEPT ![m] = [task[m] EXCEPT !.pc = "branch", !.taken = TRUE]]
      BY <2>2 DEF SendNow
    <3>2. Moves(m, "branch")
      BY <1>0, <3>1 DEF Moves, TaskType
    <3> QED BY <1>0, <3>2, NoStartMoves
  <2>3. CASE Show(m)
    <3> DEFINE resuming == task[m].copy = "suspended"
    <3>1. \/ task' = [task EXCEPT ![m] = [task[m] EXCEPT !.pc = "begin", !.resuming = resuming]]
          \/ End(m)
      BY <2>3 DEF Show
    <3>2. CASE End(m)
      BY <2>1, <3>2
    <3>3. CASE task' = [task EXCEPT ![m] = [task[m] EXCEPT !.pc = "begin", !.resuming = resuming]]
      <4>1. Moves(m, "begin")
        BY <1>0, <3>3 DEF Moves, TaskType
      <4> QED BY <1>0, <4>1, NoStartMoves
    <3> QED BY <3>1, <3>2, <3>3
  <2> QED BY <2>1, <2>2, <2>3
          DEF Asks, Send, Add, Remove, Edit, Branch, Take, Reread, Deliver, Begin, Spawned, Started
<1> QED BY <1>1, <1>2, AgentsStay, ChildStays

(* A start: the agent there is is told to go, and the next one comes when  *)
(* it has gone.                                                            *)
LEMMA StartKeepsAgent ==
  ASSUME TypeInv, AgentInv, OneStart, NEW m \in Msgs,
         Replace(m) \/ (\E p \in Procs : Spawn(m, p)) \/ StartFails(m)
  PROVE  AgentInv'
<1>0. /\ m \in Tasks /\ task \in [Tasks -> TaskType] /\ task[m] \in TaskType /\ Msgs \subseteq Tasks
      /\ "failing" \in Steps /\ agent \in [Procs -> AgentType]
      /\ \A p \in Procs : p # NoOne
  BY ChatAssumption DEF ChatAssumption, TypeInv, ChatTypeOK, Tasks, Steps
<1>1. CASE Replace(m)
  BY <1>1, ChildDropped DEF Replace
<1>2. ASSUME NEW p \in Procs, Spawn(m, p)
      PROVE  AgentInv'
  <2>1. /\ task[m].pc = "prepare" /\ child' = p /\ agent[p].life = "off"
        /\ agent' = [agent EXCEPT ![p] = [agent[p] EXCEPT !.life = "up"]]
        /\ task' = [task EXCEPT ![m] = [task[m] EXCEPT !.pc = "spawned", !.proc = p]]
    BY <1>2 DEF Spawn
  <2>2. child = NoOne /\ \A q \in Procs : agent[q].life # "up"
    BY <1>0, <2>1 DEF AgentInv, StartsAlone, OneAgent
  <2>3. agent'[p].life = "up" /\ agent'[p].exit = agent[p].exit
        /\ \A q \in Procs : q # p => agent'[q] = agent[q]
    BY <1>0, <2>1 DEF AgentType
  <2>4. OneAgent'
    BY <2>1, <2>2, <2>3 DEF OneAgent
  <2>5. EndsGone'
    BY <2>1, <2>3 DEF AgentInv, EndsGone
  <2>6. \A n \in Msgs : task'[n].pc # "prepare"
    BY <1>0, <2>1 DEF OneStart, TaskType
  <2> QED BY <2>4, <2>5, <2>6 DEF AgentInv, StartsAlone
<1>3. CASE StartFails(m)
  <2>1. CASE Drop(child)
    BY <2>1, ChildDropped
  <2>2. CASE UNCHANGED <<child, agent>>
    <3>1. Goto(m, "failing")
      BY <1>3 DEF StartFails
    <3>2. NoStart
      BY <1>0, <3>1, Moved, NoStartMoves
    <3> QED BY <2>2, <3>2, AgentsStay, ChildStays
  <2> QED BY <1>3, <2>1, <2>2 DEF StartFails
<1> QED BY <1>1, <1>2, <1>3

LEMMA CutKeepsAgent ==
  ASSUME TypeInv, AgentInv,
         \/ \E t \in Tasks : Cutting(t)
         \/ StartTimeout \/ Interrupt \/ Stop \/ StopSave
  PROVE  AgentInv'
<1>0. /\ {"signal", "reread", "failing", "cut", "stopSave", "done"} \subseteq Steps
      /\ task \in [Tasks -> TaskType] /\ {"person", "timer"} \subseteq Tasks
      /\ ChatTypeOK /\ child \in Procs \cup {NoOne}
  BY DEF TypeInv, ChatTypeOK, Tasks, Others, Steps
<1>1. ASSUME NEW t \in Tasks, Cut(t)
      PROVE  AgentInv'
  <2>1. task' = [task EXCEPT ![t] = [task[t] EXCEPT !.pc = "signal", !.proc = child]] /\ UNCHANGED <<child, agent>>
    BY <1>1 DEF Cut
  <2>2. task[t] \in TaskType /\ Msgs \subseteq Tasks
    BY <1>0 DEF Tasks
  <2>3. Moves(t, "signal")
    BY <1>0, <2>1, <2>2 DEF Moves, TaskType
  <2> QED BY <2>1, <2>3, NoStartMoves, AgentsStay, ChildStays
<1>2. ASSUME NEW t \in Tasks, Signal(t)
      PROVE  AgentInv'
  <2>1. UNCHANGED child
    BY <1>2 DEF Signal
  <2>2. NoStart
    <3>1. Goto(t, "reread") \/ End(t)
      BY <1>2 DEF Signal
    <3> QED BY <1>0, <3>1, Moved, NoStartMoves
  <2>3. NoneBegins
    <3>1. CASE UNCHANGED agent
      BY <3>1, AgentsStay
    <3>2. CASE task[t].proc # NoOne /\ agent' = [agent EXCEPT ![task[t].proc].sigint = TRUE]
      <4> PICK p \in Procs : p = task[t].proc
          BY <1>0, <3>2, TaskUpdate DEF TaskType
      <4> PICK a \in AgentType : a = agent[p]
          BY <1>0, AgentUpdate
      <4>1. agent' = [agent EXCEPT ![p] = [a EXCEPT !.sigint = TRUE]]
        BY <3>2
      <4>2. [a EXCEPT !.sigint = TRUE] \in AgentType
        BY AgentFields
      <4>3. [a EXCEPT !.sigint = TRUE].life = a.life /\ [a EXCEPT !.sigint = TRUE].exit = a.exit
        BY DEF AgentType
      <4>4. a.exit # "none" => a.life = "gone"
        BY DEF AgentInv, EndsGone
      <4> QED BY <4>1, <4>2, <4>3, <4>4, AgentChanges
    <3> QED BY <1>2, <3>1, <3>2 DEF Signal
  <2> QED BY <2>1, <2>2, <2>3, ChildStays
<1>3. ASSUME NEW t \in Tasks, Failing(t)
      PROVE  AgentInv'
  <2>1. End(t) /\ UNCHANGED <<child, agent>>
    BY <1>3 DEF Failing, starts, drained
  <2>2. NoStart
    BY <1>0, <2>1, Moved, NoStartMoves
  <2> QED BY <2>1, <2>2, AgentsStay, ChildStays
<1>4. CASE StartTimeout \/ Stop
  <2>1. CASE Drop(child)
    BY <2>1, ChildDropped
  <2>2. CASE UNCHANGED <<child, agent, task>>
    BY <2>2, AgentsStay, ChildStays DEF NoStart
  <2> QED BY <1>4, <2>1, <2>2 DEF StartTimeout, Stop
<1>5. CASE Interrupt \/ StopSave
  <2>1. UNCHANGED <<child, agent>> /\ (Goto("person", "cut") \/ End("person"))
    BY <1>5 DEF Interrupt, StopSave
  <2>2. NoStart
    BY <1>0, <2>1, Moved, NoStartMoves
  <2> QED BY <2>1, <2>2, AgentsStay, ChildStays
<1> QED BY <1>1, <1>2, <1>3, <1>4, <1>5 DEF Cutting

(* An agent reads, prints and ends; the daemon writes to it and hears of it. *)
LEMMA WorkKeepsAgent ==
  ASSUME TypeInv, AgentInv, NEW p \in Procs,
         \/ (DrainSend /\ drainer.proc = p) \/ Claude(p) \/ Speaks(p) \/ Exits(p)
         \/ Handle(p) \/ ExitForeign(p) \/ ExitRead(p) \/ ExitSave(p)
  PROVE  AgentInv'
<1>0. ChatTypeOK /\ agent \in [Procs -> AgentType] /\ rec \in States
  BY DEF TypeInv, ChatTypeOK
<1> PICK a \in AgentType : a = agent[p]
    BY <1>0
<1>1. UNCHANGED <<child, task>>
  BY DEF DrainSend, Claude, TurnBegins, TurnEnds, Ignores, Speaks, Exits, Handle, ExitForeign, ExitRead, ExitSave
<1>2. (a.exit # "none" => a.life = "gone") /\ \A q \in Procs : agent[q].exit # "none" => agent[q].life = "gone"
  BY DEF AgentInv, EndsGone
<1>3. \/ UNCHANGED agent
      \/ \E d : /\ agent' = [agent EXCEPT ![p] = d]
               /\ d.life = a.life
               /\ (d.exit = a.exit \/ a.exit # "none")
      \/ \E d : agent' = [agent EXCEPT ![p] = d] /\ d.life = "gone"
  <2>1. CASE DrainSend /\ drainer.proc = p
    <3>1. UNCHANGED agent \/ agent' = [agent EXCEPT ![p] = [a EXCEPT !.inbox = Append(a.inbox, drainer.msg)]]
      BY <2>1 DEF DrainSend
    <3>2. [a EXCEPT !.inbox = Append(a.inbox, drainer.msg)].life = a.life
          /\ [a EXCEPT !.inbox = Append(a.inbox, drainer.msg)].exit = a.exit
      BY DEF AgentType
    <3> QED BY <3>1, <3>2
  <2>2. CASE TurnBegins(p)
    <3> DEFINE d == [a EXCEPT !.turn = Head(a.inbox), !.inbox = Tail(a.inbox), !.out = Append(a.out, "init")]
    <3>1. agent' = [agent EXCEPT ![p] = d]
      BY <2>2 DEF TurnBegins, Prints
    <3>2. d.life = a.life /\ d.exit = a.exit
      BY DEF AgentType
    <3> HIDE DEF d
    <3> QED BY <3>1, <3>2
  <2>3. CASE Speaks(p)
    <3> DEFINE d == [a EXCEPT !.spoke = TRUE, !.out = Append(a.out, "text")]
    <3>1. agent' = [agent EXCEPT ![p] = d]
      BY <2>3 DEF Speaks, Prints
    <3>2. d.life = a.life /\ d.exit = a.exit
      BY DEF AgentType
    <3> HIDE DEF d
    <3> QED BY <3>1, <3>2
  <2>4. CASE TurnEnds(p)
    <3> DEFINE d(kind) == [a EXCEPT !.turn = NoOne, !.spoke = FALSE, !.out = Append(a.out, kind),
                                    !.sigint = a.sigint /\ kind = "ok"]
    <3>1. PICK kind : agent' = [agent EXCEPT ![p] = d(kind)]
      BY <2>4 DEF TurnEnds, Prints
    <3>2. d(kind).life = a.life /\ d(kind).exit = a.exit
      BY DEF AgentType
    <3> HIDE DEF d
    <3> QED BY <3>1, <3>2
  <2>5. CASE Ignores(p)
    <3> DEFINE d == [a EXCEPT !.sigint = FALSE]
    <3>1. agent' = [agent EXCEPT ![p] = d]
      BY <2>5 DEF Ignores
    <3>2. d.life = a.life /\ d.exit = a.exit
      BY DEF AgentType
    <3> HIDE DEF d
    <3> QED BY <3>1, <3>2
  <2>6. CASE Exits(p)
    <3> DEFINE d(ok) == [Agent("gone") EXCEPT !.ok = ok, !.out = a.out,
                                              !.exit = IF Heard(p) THEN "wait" ELSE "done"]
    <3>1. PICK ok : agent' = [agent EXCEPT ![p] = d(ok)]
      BY <2>6 DEF Exits
    <3>2. d(ok).life = "gone"
      BY DEF Agent
    <3> HIDE DEF d
    <3> QED BY <3>1, <3>2
  <2>7. CASE Handle(p)
    <3> DEFINE d == [a EXCEPT !.out = Tail(a.out)]
    <3>1. agent' = [agent EXCEPT ![p] = d]
      BY <2>7 DEF Handle
    <3>2. d.life = a.life /\ d.exit = a.exit
      BY DEF AgentType
    <3> HIDE DEF d
    <3> QED BY <3>1, <3>2
  <2>8. CASE ExitForeign(p)
    <3> DEFINE d == [a EXCEPT !.exit = "done"]
    <3>1. a.exit # "none" /\ agent' = [agent EXCEPT ![p] = d]
      BY <2>8 DEF ExitForeign
    <3>2. d.life = a.life
      BY DEF AgentType
    <3> HIDE DEF d
    <3> QED BY <3>1, <3>2
  <2>9. CASE ExitSave(p)
    <3> DEFINE d == [a EXCEPT !.exit = "done", !.after = "idle"]
    <3>1. a.exit # "none" /\ agent' = [agent EXCEPT ![p] = d]
      BY <2>9 DEF ExitSave
    <3>2. d.life = a.life
      BY DEF AgentType
    <3> HIDE DEF d
    <3> QED BY <3>1, <3>2
  <2>10. CASE ExitRead(p)
    <3> DEFINE state == IF rec = "suspended" THEN rec ELSE IF cutting \/ a.ok THEN "idle" ELSE "suspended"
               d == [a EXCEPT !.exit = "save", !.after = state]
    <3>1. a.exit # "none" /\ agent' = [agent EXCEPT ![p] = d]
      BY <2>10 DEF ExitRead
    <3>2. d.life = a.life
      BY DEF AgentType
    <3> HIDE DEF d
    <3> QED BY <3>1, <3>2
  <2> QED BY <2>1, <2>2, <2>3, <2>4, <2>5, <2>6, <2>7, <2>8, <2>9, <2>10 DEF Claude
<1>4. NoneBegins
  <2>1. CASE UNCHANGED agent
    BY <2>1, AgentsStay
  <2>2. ASSUME NEW d, agent' = [agent EXCEPT ![p] = d],
               d.life = "gone" \/ (d.life = a.life /\ (d.exit = a.exit \/ a.exit # "none"))
        PROVE  NoneBegins
    <3>1. agent'[p] = d /\ \A q \in Procs : q # p => agent'[q] = agent[q]
      BY <1>0, <2>2
    <3> QED BY <1>2, <2>2, <3>1 DEF NoneBegins
  <2> QED BY <1>3, <2>1, <2>2
<1>5. NoStart
  BY <1>1 DEF NoStart
<1> QED BY <1>1, <1>4, <1>5, ChildStays

LEMMA LeavingKeepsAgent ==
  ASSUME TypeInv, AgentInv,
         \/ DrainRead \/ DrainShow \/ DrainSave \/ HandleSave \/ Leaving \/ Drain \/ Crash
         \/ \E p \in Procs : ExitSeen(p)
  PROVE  AgentInv'
<1> USE DEF disk, flow, starts, drained
<1>0. agent \in [Procs -> AgentType] /\ task \in [Tasks -> TaskType] /\ Msgs \subseteq Tasks /\ queue \in Seq(Msgs)
  BY DEF TypeInv, ChatTypeOK, Tasks
<1>1. CASE DrainRead \/ DrainShow \/ DrainSave \/ HandleSave \/ Quiet \/ ReadResumes \/ Listen \/ Drain
  <2>1. UNCHANGED <<child, agent, task>>
    BY <1>1 DEF DrainRead, DrainShow, DrainSave, HandleSave, Quiet, ReadResumes, Listen, Drain
  <2> QED BY <2>1, AgentsStay, ChildStays DEF NoStart
<1>2. CASE Boot \/ ResumeQueued
  <2>1. UNCHANGED <<child, agent>>
    BY <1>2 DEF Boot, ResumeQueued
  <2>2. NoStart
    <3>1. CASE Boot
      <4>1. \A m \in Msgs : task'[m] = Call("new") \/ task'[m] = task[m]
        BY <1>0, <3>1 DEF Boot
      <4> QED BY <4>1 DEF NoStart, Call
    <3>2. CASE ResumeQueued /\ queue = <<>>
      BY <3>2 DEF ResumeQueued, NoStart
    <3>3. CASE ResumeQueued /\ queue # <<>>
      <4> PICK m \in Msgs : m = Head(queue)
          BY <1>0, <3>3, Headed
      <4>1. task' = [task EXCEPT ![m] = [Call("deliver") EXCEPT !.copy = rec, !.taken = TRUE]]
        BY <3>3 DEF ResumeQueued
      <4>2. Moves(m, "deliver")
        BY <1>0, <4>1 DEF Call, Moves
      <4> QED BY <1>0, <4>2, NoStartMoves
    <3> QED BY <1>2, <3>1, <3>2, <3>3
  <2> QED BY <2>1, <2>2, AgentsStay, ChildStays
<1>3. CASE Leave \/ Crash
  <2>1. Lost
    BY <1>3 DEF Leave, Crash
  <2>2. child' = NoOne /\ \A p \in Procs :
          agent'[p] = IF agent[p].life = "off" THEN agent[p] ELSE [Agent("gone") EXCEPT !.exit = "done"]
    BY <2>1 DEF Lost
  <2>3. [Agent("gone") EXCEPT !.exit = "done"].life = "gone"
    BY DEF Agent
  <2>4. \A p \in Procs : agent[p].exit # "none" => agent[p].life = "gone"
    BY DEF AgentInv, EndsGone
  <2>5. NoneBegins /\ \A p \in Procs : agent'[p].life # "up"
    BY <2>2, <2>3, <2>4 DEF NoneBegins
  <2> QED BY <2>2, <2>5, ChildLost
<1>4. ASSUME NEW p \in Procs, ExitSeen(p)
      PROVE  AgentInv'
  <2>1. /\ child = p /\ child' = NoOne /\ agent[p].exit = "wait"
        /\ agent' = [agent EXCEPT ![p] = [agent[p] EXCEPT !.exit = "read"]]
    BY <1>4 DEF ExitSeen
  <2>2. agent[p].life = "gone" /\ \A q \in Procs : agent[q].exit # "none" => agent[q].life = "gone"
    BY <2>1 DEF AgentInv, EndsGone
  <2>3. agent'[p].life = "gone" /\ \A q \in Procs : q # p => agent'[q] = agent[q]
    BY <1>0, <2>1, <2>2 DEF AgentType
  <2>4. NoneBegins /\ \A q \in Procs : agent'[q].life = "up" => q # child
    BY <2>1, <2>2, <2>3 DEF NoneBegins
  <2> QED BY <2>1, <2>4, ChildLost
<1> QED BY <1>1, <1>2, <1>3, <1>4 DEF Leaving

LEMMA AgentStep == TypeInv /\ AgentInv /\ OneStart /\ [Next]_vars => AgentInv'
<1> SUFFICES ASSUME TypeInv, AgentInv, OneStart, [Next]_vars
             PROVE  AgentInv'
    OBVIOUS
<1>1. CASE UNCHANGED vars
  BY <1>1, AgentsStay, ChildStays DEF vars, NoStart
<1>2. CASE \E m \in Msgs : Asks(m) \/ Calls(m) \/ StartFails(m)
  BY <1>2, CallsKeepAgent, StartKeepsAgent DEF Calls
<1>3. CASE Draining \/ Hearing
  <2>1. DrainSend => drainer.proc \in Procs
    BY DEF TypeInv, DrainFits, DrainSend
  <2> QED BY <1>3, <2>1, WorkKeepsAgent, LeavingKeepsAgent DEF Draining, Hearing
<1> QED BY <1>1, <1>2, <1>3, CutKeepsAgent, WorkKeepsAgent, LeavingKeepsAgent DEF Next

(* Interrupts, stops, failed and silent starts, exits and crashes may meet *)
(* a start in any order: as long as no second start waits beside it, the   *)
(* only agent that was not told to go is the one the daemon counts as the  *)
(* chat's.                                                                 *)
THEOREM OneAgentPerChat == Spec /\ []OneStart => []OneAgent
<1>1. Init => AgentInv
  <2> SUFFICES ASSUME Init
               PROVE  AgentInv
      OBVIOUS
  <2>1. child = NoOne /\ \A p \in Procs : agent[p].life = "off" /\ agent[p].exit = "none"
    BY DEF Init, Agent
  <2> QED BY <2>1 DEF AgentInv, OneAgent, StartsAlone, EndsGone
<1>2. AgentInv => OneAgent
  BY DEF AgentInv
<1> QED BY <1>1, <1>2, TypeStarts, TypeStep, AgentStep, PTL DEF Spec

----------------------------------------------------------------------------
(* The promise.  Only what was taken from the queue is cut in for, and what *)
(* comes in was not taken before.                                          *)

CallsFit == \A m \in Msgs :
  /\ task[m].pc \in {"new", "away"} => ~task[m].taken
  /\ task[m].pc \in {"cut", "signal", "reread"} => task[m].taken

LEMMA FitsOn ==
  ASSUME CallsFit, NEW t, NEW step, Moves(t, step),
         \/ step \notin {"new", "away", "cut", "signal", "reread"}
         \/ t \notin Msgs
         \/ step = "away" /\ ~task'[t].taken
         \/ step \in {"cut", "signal", "reread"} /\ task'[t].taken
  PROVE  CallsFit'
<1> SUFFICES ASSUME NEW m \in Msgs
             PROVE  /\ task'[m].pc \in {"new", "away"} => ~task'[m].taken
                    /\ task'[m].pc \in {"cut", "signal", "reread"} => task'[m].taken
    BY DEF CallsFit
<1>1. CASE m # t
  BY <1>1 DEF CallsFit, Moves
<1>2. CASE m = t
  BY <1>2 DEF Moves
<1> QED BY <1>1, <1>2

LEMMA AskFits ==
  ASSUME TypeInv, CallsFit, NEW m \in Msgs, Asks(m) \/ Branch(m) \/ Take(m) \/ Reread(m) \/ Deliver(m) \/ Show(m)
  PROVE  CallsFit'
<1>0. /\ m \in Tasks /\ task \in [Tasks -> TaskType] /\ task[m] \in TaskType /\ Msgs \subseteq Tasks
      /\ {"branch", "away", "deliver", "cut", "reread", "show", "done"} \subseteq Steps
  BY DEF TypeInv, ChatTypeOK, Tasks, Steps
<1>1. CASE UNCHANGED task
  BY <1>1 DEF CallsFit
<1>2. CASE End(m)
  BY <1>0, <1>2, Moved, FitsOn
<1>3. CASE Goto(m, "branch") \/ Goto(m, "show") \/ Read(m, "deliver")
  <2>1. Moves(m, "branch") \/ Moves(m, "show") \/ Moves(m, "deliver")
    BY <1>0, <1>3, Moved
  <2> QED BY <2>1, FitsOn
<1>4. CASE Branch(m) /\ Goto(m, "away")
  <2>1. Moves(m, "away") /\ ~task'[m].taken
    BY <1>0, <1>4, Moved DEF Branch
  <2> QED BY <2>1, FitsOn
<1>5. CASE Take(m) /\ (Goto(m, "cut") \/ Goto(m, "reread"))
  <2>1. task[m].taken
    BY <1>5 DEF Take
  <2>2. (Moves(m, "cut") \/ Moves(m, "reread")) /\ task'[m].taken
    BY <1>0, <1>5, <2>1, Moved
  <2> QED BY <2>2, FitsOn
<1>6. CASE task' = [task EXCEPT ![m] = [task[m] EXCEPT !.pc = "branch", !.taken = TRUE]]
  <2>1. Moves(m, "branch")
    BY <1>0, <1>6 DEF Moves, TaskType
  <2> QED BY <2>1, FitsOn
<1>7. ASSUME NEW b, task' = [task EXCEPT ![m] = [task[m] EXCEPT !.pc = "begin", !.resuming = b]]
      PROVE  CallsFit'
  <2>1. Moves(m, "begin")
    BY <1>0, <1>7 DEF Moves, TaskType
  <2> QED BY <2>1, FitsOn
<1>8. CASE Asks(m)
  BY <1>1, <1>2, <1>3, <1>6, <1>8 DEF Asks, Send, Add, SendNow, Remove, Edit
<1>9. CASE Show(m)
  <2> DEFINE resuming == task[m].copy = "suspended"
  <2>1. \/ task' = [task EXCEPT ![m] = [task[m] EXCEPT !.pc = "begin", !.resuming = resuming]]
        \/ End(m)
    BY <1>9 DEF Show
  <2> QED BY <1>2, <1>7, <2>1
<1> QED BY <1>2, <1>3, <1>4, <1>5, <1>8, <1>9 DEF Branch, Take, Reread, Deliver

LEMMA StartFits ==
  ASSUME TypeInv, CallsFit, NEW m \in Msgs,
         Begin(m) \/ Replace(m) \/ (\E p \in Procs : Spawn(m, p)) \/ Spawned(m) \/ Started(m) \/ StartFails(m)
  PROVE  CallsFit'
<1>1. \E step \in {"replace", "prepare", "spawned", "started", "failing", "done"} : Moves(m, step)
  BY StartMoves
<1> QED BY <1>1, FitsOn

LEMMA CutFits ==
  ASSUME TypeInv, CallsFit,
         \/ \E t \in Tasks : Cutting(t)
         \/ StartTimeout \/ Interrupt \/ Stop \/ StopSave
  PROVE  CallsFit'
<1>0. /\ {"signal", "reread", "done"} \subseteq Steps
      /\ task \in [Tasks -> TaskType] /\ Msgs \subseteq Tasks
  BY DEF TypeInv, ChatTypeOK, Tasks, Steps
<1>1. ASSUME NEW t \in Tasks, Cutting(t)
      PROVE  CallsFit'
  <2>1. task[t] \in TaskType
    BY <1>0
  <2>2. task[t].pc \in {"cut", "signal"} /\ t \in Msgs => task[t].taken
    BY DEF CallsFit
  <2>3. CASE Cut(t)
    <3>1. task' = [task EXCEPT ![t] = [task[t] EXCEPT !.pc = "signal", !.proc = child]] /\ task[t].pc = "cut"
      BY <2>3 DEF Cut
    <3>2. Moves(t, "signal") /\ task'[t].taken = task[t].taken
      BY <1>0, <2>1, <3>1 DEF Moves, TaskType
    <3> QED BY <2>2, <3>1, <3>2, FitsOn
  <2>4. CASE Signal(t)
    <3>1. task[t].pc = "signal" /\ (Goto(t, "reread") \/ End(t))
      BY <2>4 DEF Signal
    <3>2. (Moves(t, "reread") /\ task'[t].taken = task[t].taken) \/ Moves(t, "done")
      BY <1>0, <3>1, Moved
    <3> QED BY <2>2, <3>1, <3>2, FitsOn
  <2>5. CASE Failing(t)
    <3>1. Moves(t, "done")
      BY <1>0, <2>5, Moved DEF Failing
    <3> QED BY <3>1, FitsOn
  <2> QED BY <1>1, <2>3, <2>4, <2>5 DEF Cutting
<1>2. ASSUME StartTimeout \/ Interrupt \/ Stop \/ StopSave
      PROVE  CallsFit'
  <2>1. \A m \in Msgs : task'[m] = task[m]
    BY <1>2, OthersCalls
  <2> QED BY <2>1 DEF CallsFit
<1> QED BY <1>1, <1>2

LEMMA LeaveFits ==
  ASSUME TypeInv, CallsFit, Leaving \/ Drain \/ Crash
  PROVE  CallsFit'
<1>0. task \in [Tasks -> TaskType] /\ Msgs \subseteq Tasks /\ queue \in Seq(Msgs)
  BY DEF TypeInv, ChatTypeOK, Tasks
<1>1. CASE Boot \/ Leave \/ Crash
  <2>1. ASSUME NEW m \in Msgs
        PROVE  task'[m] = task[m] \/ \E step \in {"new", "done", "refused"} : task'[m] = Call(step)
    BY <1>0, <1>1 DEF Boot, Leave, Crash, Lost
  <2>2. \A step : Call(step).pc = step /\ ~Call(step).taken
    BY DEF Call
  <2> QED BY <2>1, <2>2 DEF CallsFit
<1>2. CASE ResumeQueued /\ queue # <<>>
  <2> PICK m \in Msgs : m = Head(queue)
      BY <1>0, <1>2, Headed
  <2>1. task' = [task EXCEPT ![m] = [Call("deliver") EXCEPT !.copy = rec, !.taken = TRUE]]
    BY <1>2 DEF ResumeQueued
  <2>2. Moves(m, "deliver")
    BY <1>0, <2>1 DEF Call, Moves
  <2> QED BY <2>2, FitsOn
<1>3. CASE \/ Drain \/ Quiet \/ ReadResumes \/ Listen \/ (ResumeQueued /\ queue = <<>>)
  <2>1. UNCHANGED task
    BY <1>3 DEF Drain, Quiet, ReadResumes, Listen, ResumeQueued
  <2> QED BY <2>1 DEF CallsFit
<1> QED BY <1>1, <1>2, <1>3 DEF Leaving

LEMMA FitStep == TypeInv /\ CallsFit /\ [Next]_vars => CallsFit'
<1> SUFFICES ASSUME TypeInv, CallsFit, [Next]_vars
             PROVE  CallsFit'
    OBVIOUS
<1>1. ASSUME UNCHANGED vars \/ Draining \/ Hearing \/ \E p \in Procs : Claude(p) \/ Speaks(p) \/ Exits(p)
      PROVE  CallsFit'
  <2>1. UNCHANGED task
    BY <1>1 DEF vars, Draining, DrainRead, DrainShow, DrainSave, DrainSend, Hearing, HandleSave, Handle,
                ExitForeign, ExitSeen, ExitRead, ExitSave, Claude, TurnBegins, TurnEnds, Ignores, Speaks, Exits
  <2> QED BY <2>1 DEF CallsFit
<1> QED BY <1>1, AskFits, StartFits, CutFits, LeaveFits DEF Next, Calls

PromiseInv == TypeInv /\ TurnInv /\ CallsFit

(* Nothing is taken back and the daemon does not die.                      *)
NoCount == budget'["remove"] = budget["remove"] /\ budget'["crash"] = budget["crash"]

LEMMA Counts ==
  ASSUME TypeInv,
         \/ UNCHANGED budget
         \/ \E e \in {"interrupt", "stop", "now", "edit", "exit", "mute", "fail", "drain"} : Spend(e)
  PROVE  NoCount
<1>1. budget \in [Events -> Nat] /\ {"remove", "crash"} \subseteq Events
  BY DEF TypeInv, ChatTypeOK, Events
<1> QED BY <1>1 DEF NoCount, Spend

LEMMA SameCall ==
  ASSUME NEW m \in Msgs, task'[m] = task[m]
  PROVE  (m \in KnownMsgs' <=> m \in KnownMsgs) /\ (InCall(m)' <=> InCall(m))
BY DEF KnownMsgs, InCall

(* Whom the daemon knows and who waits, message by message.                *)
SameKnown == \A m \in Msgs : m \in KnownMsgs' <=> m \in KnownMsgs

LEMMA Waits ==
  ASSUME NEW m \in Msgs
  PROVE  /\ m \in WaitingMsgs <=> In(m, queue) \/ In(m, outbox) \/ drainer.msg = m \/ InCall(m)
         /\ m \in WaitingMsgs' <=> In(m, queue)' \/ In(m, outbox)' \/ drainer'.msg = m \/ InCall(m)'
BY DEF WaitingMsgs

LEMMA GivesUp ==
  ASSUME SameKnown, NoCount, UNCHANGED history,
         \A m \in Msgs : m \in WaitingMsgs' => m \in WaitingMsgs,
         \A m \in Msgs : m \in WaitingMsgs /\ m \notin WaitingMsgs' => m \in shown
  PROVE  Promise!Next
<1> DEFINE lost == WaitingMsgs \ WaitingMsgs'
<1>1. KnownMsgs \subseteq Msgs /\ KnownMsgs' \subseteq Msgs /\ WaitingMsgs \subseteq Msgs /\ WaitingMsgs' \subseteq Msgs
  BY DEF KnownMsgs, WaitingMsgs
<1>2. KnownMsgs' = KnownMsgs
  BY <1>1 DEF SameKnown
<1>3. lost \subseteq WaitingMsgs \cap shown /\ WaitingMsgs' = WaitingMsgs \ lost
  BY <1>1
<1>4. Promise!GiveUp(lost)
  BY <1>2, <1>3 DEF Promise!GiveUp, NoCount, history
<1> QED BY <1>3, <1>4 DEF Promise!Next

(* A step that moves no message, and at most throws the outbox away.       *)
LEMMA Stays ==
  ASSUME PromiseInv, NoCount, UNCHANGED history, SameKnown,
         \A m \in Msgs : In(m, queue)' <=> In(m, queue),
         outbox' = outbox \/ outbox' = <<>>,
         \A m \in Msgs : drainer'.msg = m <=> drainer.msg = m,
         \A m \in Msgs : InCall(m)' <=> InCall(m)
  PROVE  Promise!Next
<1>1. ASSUME NEW m \in Msgs
      PROVE  /\ m \in WaitingMsgs' => m \in WaitingMsgs
             /\ m \in WaitingMsgs /\ m \notin WaitingMsgs' => m \in shown
  <2>1. In(m, outbox)' => In(m, outbox)
    BY NoneIn
  <2>2. In(m, outbox) => m \in shown
    BY DEF PromiseInv, TurnInv, OnePlace, InOutbox
  <2>3. CASE outbox' = outbox
    BY <2>1, <2>3, Waits
  <2>4. CASE outbox' # outbox
    BY <2>1, <2>2, Waits
  <2> QED BY <2>3, <2>4
<1> QED BY <1>1, GivesUp

(* A call goes on and takes its message along.                             *)
LEMMA CallStays ==
  ASSUME PromiseInv, NoCount, UNCHANGED <<queue, history>>,
         outbox' = outbox \/ outbox' = <<>>,
         \A m \in Msgs : drainer'.msg = m <=> drainer.msg = m,
         NEW t \in Tasks, NEW step, Moves(t, step),
         t \in Msgs => (t \in KnownMsgs' <=> t \in KnownMsgs) /\ (InCall(t)' <=> InCall(t))
  PROVE  Promise!Next
<1>1. ASSUME NEW m \in Msgs
      PROVE  (m \in KnownMsgs' <=> m \in KnownMsgs) /\ (InCall(m)' <=> InCall(m))
  <2>1. CASE m = t
    BY <2>1
  <2>2. CASE m # t
    BY <2>2, SameCall DEF Moves
  <2> QED BY <2>1, <2>2
<1>2. SameKnown
  BY <1>1 DEF SameKnown
<1>3. \A m \in Msgs : In(m, queue)' <=> In(m, queue)
  OBVIOUS
<1> QED BY <1>1, <1>2, <1>3, Stays

LEMMA DrainerWaits ==
  ASSUME PromiseInv
  PROVE  /\ UNCHANGED drainer \/ CallDrain => \A m \in Msgs : drainer'.msg = m <=> drainer.msg = m
         /\ drainer.pc \in {"off", "read"} => \A m \in Msgs : drainer.msg # m
<1>1. drainer.pc \in {"off", "read"} => \A m \in Msgs : drainer.msg # m
  BY DEF PromiseInv, TurnInv, OnePlace, WithDrainer
<1>2. CallDrain => drainer' = drainer \/ (drainer.pc = "off" /\ drainer'.msg = NoOne)
  BY Called DEF PromiseInv
<1>3. \A m \in Msgs : m # NoOne
  BY ChatAssumption DEF ChatAssumption
<1> QED BY <1>1, <1>2, <1>3

(* The daemon takes a message over.                                        *)
LEMMA Accepts ==
  ASSUME PromiseInv, NoCount, UNCHANGED handed, NEW m \in Msgs, NEW step, Moves(m, step),
         m \notin KnownMsgs, m \in KnownMsgs', m \in WaitingMsgs',
         shown' \in {shown, shown \cup {m}},
         \A n \in Msgs : n # m => (n \in WaitingMsgs' <=> n \in WaitingMsgs)
  PROVE  Promise!Next
<1>1. KnownMsgs \subseteq Msgs /\ KnownMsgs' \subseteq Msgs /\ WaitingMsgs \subseteq Msgs /\ WaitingMsgs' \subseteq Msgs
  BY DEF KnownMsgs, WaitingMsgs
<1>2. \A n \in Msgs : n # m => (n \in KnownMsgs' <=> n \in KnownMsgs)
  BY SameCall DEF Moves
<1>3. KnownMsgs' = KnownMsgs \cup {m} /\ WaitingMsgs' = WaitingMsgs \cup {m}
  BY <1>1, <1>2
<1>4. Promise!Accept(m)
  BY <1>3 DEF Promise!Accept, NoCount
<1> QED BY <1>4 DEF Promise!Next

LEMMA QueuedAccepts ==
  ASSUME PromiseInv, NoCount, UNCHANGED <<outbox, history>>, NEW m \in Msgs, Moves(m, "done"),
         m \notin KnownMsgs, queue' = Append(queue, m),
         \A n \in Msgs : drainer'.msg = n <=> drainer.msg = n
  PROVE  Promise!Next
<1>1. queue \in Seq(Msgs)
  BY DEF PromiseInv, TypeInv, ChatTypeOK
<1>2. \A n : In(n, queue)' <=> In(n, queue) \/ n = m
  BY <1>1, Appended
<1>3. m \in KnownMsgs'
  BY DEF Moves, KnownMsgs
<1>4. ASSUME NEW n \in Msgs, n # m
      PROVE  n \in WaitingMsgs' <=> n \in WaitingMsgs
  BY <1>2, <1>4, SameCall, Waits DEF Moves
<1>5. m \in WaitingMsgs'
  BY <1>2, Waits
<1> QED BY <1>3, <1>4, <1>5, Accepts DEF history

(* Messages come in, and the person moves or removes what is queued.       *)
LEMMA AskKeepsPromise ==
  ASSUME PromiseInv, NEW m \in Msgs, Asks(m)
  PROVE  Promise!Next
<1> USE DEF disk, flow, starts, drained
<1>0. /\ TypeInv /\ m \in Tasks /\ {"branch", "done"} \subseteq Steps /\ queue \in Seq(Msgs)
      /\ task \in [Tasks -> TaskType] /\ task[m] \in TaskType /\ Msgs \subseteq Tasks
      /\ budget \in [Events -> Nat] /\ {"remove", "crash"} \subseteq Events
      /\ OnePlace(m)
  BY DEF PromiseInv, TypeInv, TurnInv, ChatTypeOK, Tasks, Steps, Events
<1>1. ASSUME task[m].pc = "new"
      PROVE  m \notin KnownMsgs /\ ~task[m].taken /\ ~InCall(m)
  BY <1>1 DEF KnownMsgs, PromiseInv, CallsFit, InCall
<1>2. CASE Send(m)
  <2>1. task[m].pc = "new" /\ UNCHANGED <<history, outbox, drainer, budget>>
    BY <1>2 DEF Send
  <2>2. CASE Goto(m, "branch") /\ UNCHANGED queue
    <3>1. Moves(m, "branch") /\ task'[m].taken = task[m].taken
      BY <1>0, <2>2, Moved
    <3>2. m \notin KnownMsgs' /\ ~InCall(m)'
      BY <1>1, <2>1, <3>1 DEF Moves, KnownMsgs, InCall
    <3> QED BY <1>0, <1>1, <2>1, <2>2, <3>1, <3>2, CallStays, Counts
  <2>3. CASE queue' = Append(queue, m) /\ End(m)
    <3>1. Moves(m, "done")
      BY <1>0, <2>3, Moved
    <3> QED BY <1>0, <1>1, <2>1, <2>3, <3>1, QueuedAccepts, Counts
  <2> QED BY <1>2, <2>2, <2>3 DEF Send
<1>3. CASE Add(m)
  <2>1. task[m].pc = "new" /\ UNCHANGED <<history, outbox, budget>> /\ CallDrain
        /\ queue' = Append(queue, m) /\ End(m)
    BY <1>3 DEF Add
  <2>2. Moves(m, "done")
    BY <1>0, <2>1, Moved
  <2> QED BY <1>0, <1>1, <2>1, <2>2, QueuedAccepts, Counts, DrainerWaits
<1>4. CASE SendNow(m)
  <2>1. /\ task[m].pc = "done" /\ Spend("now") /\ UNCHANGED <<queue, history, outbox, drainer>>
        /\ task' = [task EXCEPT ![m] = [task[m] EXCEPT !.pc = "branch", !.taken = TRUE]]
    BY <1>4 DEF SendNow
  <2>2. Moves(m, "branch") /\ task'[m].taken
    BY <1>0, <2>1 DEF Moves, TaskType
  <2>3. m \in KnownMsgs /\ m \in KnownMsgs' /\ ~InCall(m) /\ ~InCall(m)'
    BY <2>1, <2>2 DEF Moves, KnownMsgs, InCall
  <2> QED BY <1>0, <2>1, <2>2, <2>3, CallStays, Counts
<1>5. CASE Remove(m) \/ Edit(m)
  <2>1. In(m, queue) /\ UNCHANGED <<task, history, outbox, drainer>>
    BY <1>5 DEF Remove, Edit
  <2>2. \A n \in Msgs : (n \in KnownMsgs' <=> n \in KnownMsgs) /\ (InCall(n)' <=> InCall(n))
    BY <2>1, SameCall
  <2> PICK left \in Seq(Msgs) : left = Without(queue, m)
      BY <1>0, <2>1, TakenOut
  <2>3. (\A n : In(n, left) => In(n, queue)) /\ \A n : In(n, queue) => In(n, left) \/ n = m
    BY <1>0, <2>1, TakenOut
  <2>4. ~In(m, left)
    BY <1>0, <2>1, TakenOut DEF PromiseInv, TurnInv
  <2>5. CASE Remove(m)
    <3>1. queue' = left /\ Spend("remove")
      BY <2>5 DEF Remove
    <3>2. ~In(m, outbox) /\ drainer.msg # m /\ m \notin shown /\ ~InCall(m)
      BY <1>0, <2>1, CarriedNotResting DEF OnePlace, InQueue, Carried, InCall
    <3>3. ASSUME NEW n \in Msgs PROVE n \in WaitingMsgs' <=> n \in WaitingMsgs /\ n # m
      <4>1. CASE n = m
        BY <2>1, <2>2, <2>4, <3>1, <3>2, <4>1, Waits
      <4>2. CASE n # m
        BY <2>1, <2>2, <2>3, <3>1, <4>2, Waits
      <4> QED BY <4>1, <4>2
    <3>4. m \in WaitingMsgs
      BY <2>1, Waits
    <3>5. WaitingMsgs' = WaitingMsgs \ {m} /\ KnownMsgs' = KnownMsgs
      <4>1. KnownMsgs \subseteq Msgs /\ KnownMsgs' \subseteq Msgs
            /\ WaitingMsgs \subseteq Msgs /\ WaitingMsgs' \subseteq Msgs
        BY DEF KnownMsgs, WaitingMsgs
      <4> QED BY <2>2, <3>3, <4>1
    <3>6. /\ Budget["remove"] - budget'["remove"] = Budget["remove"] - budget["remove"] + 1
          /\ budget'["crash"] = budget["crash"]
      <4>1. Budget["remove"] \in Nat /\ budget["remove"] \in Nat
        BY <1>0, ChatAssumption DEF ChatAssumption
      <4>2. budget'["remove"] = budget["remove"] - 1 /\ budget'["crash"] = budget["crash"]
        BY <1>0, <3>1 DEF Spend
      <4> QED BY <4>1, <4>2
    <3>7. Promise!Remove(m)
      BY <2>1, <3>2, <3>4, <3>5, <3>6 DEF Promise!Remove, history
    <3> QED BY <3>7 DEF Promise!Next
  <2>6. CASE Edit(m)
    <3>1. queue' = Append(left, m) /\ Spend("edit")
      BY <2>6 DEF Edit
    <3>2. \A n : In(n, Append(left, m)) <=> In(n, left) \/ n = m
      BY Appended
    <3>3. \A n \in Msgs : In(n, queue)' <=> In(n, queue)
      BY <2>1, <2>3, <3>1, <3>2
    <3>4. SameKnown
      BY <2>2 DEF SameKnown
    <3> QED BY <1>0, <2>1, <2>2, <3>1, <3>3, <3>4, Stays, Counts
  <2> QED BY <1>5, <2>5, <2>6
<1> QED BY <1>2, <1>3, <1>4, <1>5 DEF Asks

(* A message that a call takes from the queue waits in that call.          *)
LEMMA PickedUpWaits ==
  ASSUME PromiseInv, NoCount, UNCHANGED <<outbox, history, drainer>>,
         NEW m \in Msgs, NEW step, Moves(m, step), m \in KnownMsgs, m \in KnownMsgs',
         In(m, queue), InCall(m)',
         \A n : In(n, queue)' => In(n, queue), \A n : In(n, queue) => In(n, queue)' \/ n = m
  PROVE  Promise!Next
<1>1. ASSUME NEW n \in Msgs
      PROVE  (n \in KnownMsgs' <=> n \in KnownMsgs) /\ (n \in WaitingMsgs' <=> n \in WaitingMsgs)
  <2>1. CASE n = m
    BY <2>1, Waits
  <2>2. CASE n # m
    BY <2>2, SameCall, Waits DEF Moves
  <2> QED BY <2>1, <2>2
<1>2. SameKnown
  BY <1>1 DEF SameKnown
<1> QED BY <1>1, <1>2, GivesUp

(* The calls that take a message to an agent.                              *)
LEMMA DeliverKeepsPromise ==
  ASSUME PromiseInv, NEW m \in Msgs,
         \/ Branch(m) \/ Take(m) \/ Reread(m) \/ Deliver(m)
  PROVE  Promise!Next
<1> USE DEF disk, flow, starts, drained
<1>0. /\ TypeInv /\ m \in Tasks /\ {"away", "deliver", "cut", "reread", "show", "done"} \subseteq Steps
      /\ queue \in Seq(Msgs) /\ UNCHANGED <<outbox, history, drainer, budget>>
  BY DEF PromiseInv, TypeInv, ChatTypeOK, Tasks, Steps, Branch, Take, Reread, Deliver
<1>1. CASE Branch(m)
  <2>1. m \notin KnownMsgs /\ ~InCall(m) /\ ~task[m].taken
    BY <1>1 DEF Branch, KnownMsgs, InCall
  <2>2. CASE UNCHANGED queue /\ (Goto(m, "away") \/ Read(m, "deliver"))
    <3>1. (Moves(m, "away") \/ Moves(m, "deliver")) /\ task'[m].taken = task[m].taken
      BY <1>0, <2>2, Moved
    <3>2. m \notin KnownMsgs' /\ ~InCall(m)'
      BY <2>1, <3>1 DEF Moves, KnownMsgs, InCall
    <3> QED BY <1>0, <2>1, <2>2, <3>1, <3>2, CallStays, Counts
  <2>3. CASE queue' = Append(queue, m) /\ End(m)
    <3>1. Moves(m, "done")
      BY <1>0, <2>3, Moved
    <3> QED BY <1>0, <2>1, <2>3, <3>1, QueuedAccepts, Counts
  <2> QED BY <1>1, <2>2, <2>3 DEF Branch
<1>2. CASE Take(m)
  <2>1. task[m].pc = "branch" /\ task[m].taken /\ m \in KnownMsgs /\ ~InCall(m)
    BY <1>2 DEF Take, KnownMsgs, InCall
  <2>2. CASE In(m, queue) /\ queue' = Without(queue, m) /\ (Goto(m, "cut") \/ Goto(m, "reread"))
    <3>1. (\A n : In(n, queue)' => In(n, queue)) /\ \A n : In(n, queue) => In(n, queue)' \/ n = m
      BY <1>0, <2>2, TakenOut
    <3>2. (Moves(m, "cut") \/ Moves(m, "reread")) /\ task'[m].taken
      BY <1>0, <2>1, <2>2, Moved
    <3>3. m \in KnownMsgs' /\ InCall(m)'
      BY <3>2 DEF Moves, KnownMsgs, InCall
    <3> QED BY <1>0, <2>1, <2>2, <3>1, <3>2, <3>3, PickedUpWaits, Counts
  <2>3. CASE End(m) /\ UNCHANGED queue
    <3>1. Moves(m, "done")
      BY <1>0, <2>3, Moved
    <3>2. m \in KnownMsgs' /\ ~InCall(m)'
      BY <3>1 DEF Moves, KnownMsgs, InCall
    <3> QED BY <1>0, <2>1, <2>3, <3>1, <3>2, CallStays, Counts
  <2> QED BY <1>2, <2>2, <2>3 DEF Take, Left
<1>3. CASE Reread(m) \/ Deliver(m)
  <2>1. /\ task[m].pc \in {"reread", "deliver"}
        /\ task[m].pc = "reread" => task[m].taken
        /\ UNCHANGED queue /\ (Read(m, "deliver") \/ Goto(m, "show"))
    BY <1>3 DEF Reread, Deliver, PromiseInv, CallsFit
  <2>2. (Moves(m, "deliver") \/ Moves(m, "show")) /\ task'[m].taken = task[m].taken
    BY <1>0, <2>1, Moved
  <2>3. (m \in KnownMsgs' <=> m \in KnownMsgs) /\ (InCall(m)' <=> InCall(m))
    BY <2>1, <2>2 DEF Moves, KnownMsgs, InCall
  <2> QED BY <1>0, <2>1, <2>2, <2>3, CallStays, Counts
<1> QED BY <1>1, <1>2, <1>3

(* What would be lost beside that: a message that left the queue and is not *)
(* shown yet when the daemon leaves.                                       *)
LeavesQueued ==
  life = "leaving" => \A m \in WaitingMsgs : In(m, queue) \/ m \in shown

(* The person's line: what was not known till then is taken over with it.  *)
LEMMA ShowKeepsPromise ==
  ASSUME PromiseInv, ResumesAlone, NEW m \in Msgs, Show(m)
  PROVE  Promise!Next
<1> USE DEF disk, flow, starts, drained
<1> DEFINE resuming == task[m].copy = "suspended"
<1>0. /\ TypeInv /\ m \in Tasks /\ outbox \in Seq(Msgs)
      /\ task \in [Tasks -> TaskType] /\ task[m] \in TaskType /\ Msgs \subseteq Tasks
      /\ OnePlace(m) /\ Carried(m)
  BY DEF PromiseInv, TypeInv, ChatTypeOK, TurnInv, Tasks, Show, Carried
<1>1. /\ task[m].pc = "show" /\ shown' = shown \cup {m} /\ UNCHANGED <<queue, handed, budget>>
      /\ outbox' = IF resuming THEN <<m>> ELSE Append(outbox, m)
      /\ resuming => outbox = <<>>
  BY DEF Show, Published, ResumesAlone
<1>2. PICK step \in {"begin", "done"} : Moves(m, step)
  <2>1. CASE task' = [task EXCEPT ![m] = [task[m] EXCEPT !.pc = "begin", !.resuming = resuming]]
    <3>1. Moves(m, "begin")
      BY <1>0, <2>1 DEF Moves, TaskType
    <3> QED BY <3>1
  <2>2. CASE End(m)
    BY <1>0, <2>2, Moved
  <2> QED BY <2>1, <2>2 DEF Show
<1>3. \A n \in Msgs : drainer'.msg = n <=> drainer.msg = n
  <2>1. UNCHANGED drainer \/ CallDrain
    BY DEF Show
  <2> QED BY <2>1, DrainerWaits
<1>4. \A n \in Msgs : In(n, outbox)' <=> In(n, outbox) \/ n = m
  <2>1. CASE resuming
    BY <1>1, <2>1, NoneIn DEF In
  <2>2. CASE ~resuming
    <3>1. \A n : In(n, Append(outbox, m)) <=> In(n, outbox) \/ n = m
      BY <1>0, Appended
    <3> QED BY <1>1, <2>2, <3>1
  <2> QED BY <2>1, <2>2
<1>5. \A n \in Msgs : n # m => (n \in WaitingMsgs' <=> n \in WaitingMsgs)
  BY <1>1, <1>2, <1>3, <1>4, SameCall, Waits DEF Moves
<1>6. m \in WaitingMsgs' /\ m \in KnownMsgs'
  <2>1. m \in WaitingMsgs'
    BY <1>4, Waits
  <2>2. m \in KnownMsgs'
    BY <1>2 DEF Moves, KnownMsgs
  <2> QED BY <2>1, <2>2
<1>7. NoCount
  BY <1>0, <1>1, Counts
<1>8. CASE ~task[m].taken
  <2>1. m \notin KnownMsgs
    BY <1>1, <1>8 DEF KnownMsgs
  <2> QED BY <1>1, <1>2, <1>5, <1>6, <1>7, <2>1, Accepts
<1>9. CASE task[m].taken
  <2>1. m \in KnownMsgs /\ m \in WaitingMsgs /\ m \notin shown
    <3>1. m \in KnownMsgs /\ InCall(m)
      BY <1>1, <1>9 DEF KnownMsgs, InCall
    <3>2. m \notin shown
      BY <1>0 DEF OnePlace, OnItsWay
    <3> QED BY <3>1, <3>2, Waits
  <2>2. WaitingMsgs' = WaitingMsgs /\ KnownMsgs' = KnownMsgs
    <3>1. KnownMsgs \subseteq Msgs /\ KnownMsgs' \subseteq Msgs
          /\ WaitingMsgs \subseteq Msgs /\ WaitingMsgs' \subseteq Msgs
      BY DEF KnownMsgs, WaitingMsgs
    <3>2. \A n \in Msgs : n # m => (n \in KnownMsgs' <=> n \in KnownMsgs)
      BY <1>2, SameCall DEF Moves
    <3> QED BY <1>5, <1>6, <2>1, <3>1, <3>2
  <2>3. Promise!Show(m)
    BY <1>1, <1>7, <2>1, <2>2 DEF Promise!Show, NoCount
  <2> QED BY <2>3 DEF Promise!Next
<1> QED BY <1>8, <1>9

LEMMA StartKeepsPromise ==
  ASSUME PromiseInv, NEW m \in Msgs,
         Begin(m) \/ Replace(m) \/ (\E p \in Procs : Spawn(m, p)) \/ Spawned(m) \/ Started(m) \/ StartFails(m)
  PROVE  Promise!Next
<1> USE DEF disk, flow, starts, drained
<1>1. UNCHANGED <<queue, history>> /\ (outbox' = outbox \/ outbox' = <<>>)
  BY DEF Begin, Replace, Spawn, Spawned, Started, StartFails
<1>2. UNCHANGED drainer \/ CallDrain
  BY DEF Begin, Replace, Spawn, Spawned, Started, StartFails
<1>3. NoCount
  <2>1. UNCHANGED budget \/ Spend("fail")
    BY DEF Begin, Replace, Spawn, Spawned, Started, StartFails
  <2> QED BY <2>1, Counts DEF PromiseInv
<1>4. PICK step \in {"replace", "prepare", "spawned", "started", "failing", "done"} : Moves(m, step)
  BY StartMoves DEF PromiseInv
<1>5. task[m].pc \in {"begin", "replace", "prepare", "spawned", "started"}
  BY DEF Begin, Replace, Spawn, Spawned, Started, StartFails
<1>6. (m \in KnownMsgs' <=> m \in KnownMsgs) /\ (InCall(m)' <=> InCall(m))
  BY <1>4, <1>5 DEF Moves, KnownMsgs, InCall
<1> QED BY <1>1, <1>2, <1>3, <1>4, <1>6, CallStays, DrainerWaits DEF Tasks

LEMMA CutKeepsPromise ==
  ASSUME PromiseInv,
         \/ \E t \in Tasks : Cutting(t)
         \/ StartTimeout \/ Interrupt \/ Stop \/ StopSave
  PROVE  Promise!Next
<1> USE DEF disk, flow, starts, drained
<1>0. /\ {"signal", "reread", "done"} \subseteq Steps /\ TypeInv
      /\ task \in [Tasks -> TaskType] /\ Msgs \subseteq Tasks
  BY DEF PromiseInv, TypeInv, ChatTypeOK, Tasks, Steps
<1>1. ASSUME NEW t \in Tasks, Cutting(t)
      PROVE  Promise!Next
  <2>1. UNCHANGED <<queue, history, outbox, drainer, budget>>
    BY <1>1 DEF Cutting, Cut, Signal, Failing
  <2>2. t \in Msgs /\ task[t].pc \in {"cut", "signal"} => task[t].taken
    BY DEF PromiseInv, CallsFit
  <2>3. task[t] \in TaskType
    BY <1>0
  <2>4. CASE Cut(t)
    <3>1. task' = [task EXCEPT ![t] = [task[t] EXCEPT !.pc = "signal", !.proc = child]] /\ task[t].pc = "cut"
      BY <2>4 DEF Cut
    <3>2. Moves(t, "signal") /\ task'[t].taken = task[t].taken
      BY <1>0, <2>3, <3>1 DEF Moves, TaskType
    <3>3. t \in Msgs => (t \in KnownMsgs' <=> t \in KnownMsgs) /\ (InCall(t)' <=> InCall(t))
      BY <3>1, <3>2 DEF Moves, KnownMsgs, InCall
    <3> QED BY <1>0, <2>1, <3>2, <3>3, CallStays, Counts
  <2>5. CASE Signal(t) /\ t \in Msgs
    <3>1. task[t].pc = "signal" /\ Goto(t, "reread")
      BY <2>5 DEF Signal
    <3>2. Moves(t, "reread") /\ task'[t].taken = task[t].taken
      BY <1>0, <3>1, Moved
    <3>3. (t \in KnownMsgs' <=> t \in KnownMsgs) /\ (InCall(t)' <=> InCall(t))
      BY <2>5, <3>1, <3>2 DEF Moves, KnownMsgs, InCall
    <3> QED BY <1>0, <2>1, <3>2, <3>3, CallStays, Counts
  <2>6. CASE Failing(t) \/ (Signal(t) /\ t \notin Msgs)
    <3>1. task[t].pc = "failing" \/ t \notin Msgs
      BY <2>6 DEF Failing
    <3>2. Moves(t, "done")
      BY <1>0, <2>6, Moved DEF Failing, Signal
    <3>3. t \in Msgs => (t \in KnownMsgs' <=> t \in KnownMsgs) /\ (InCall(t)' <=> InCall(t))
      BY <3>1, <3>2 DEF Moves, KnownMsgs, InCall
    <3> QED BY <1>0, <2>1, <3>2, <3>3, CallStays, Counts
  <2> QED BY <1>1, <2>4, <2>5, <2>6 DEF Cutting
<1>2. ASSUME StartTimeout \/ Interrupt \/ Stop \/ StopSave
      PROVE  Promise!Next
  <2>1. UNCHANGED <<queue, history, drainer>> /\ (outbox' = outbox \/ outbox' = <<>>)
    BY <1>2 DEF StartTimeout, Interrupt, Stop, StopSave
  <2>2. NoCount
    <3>1. UNCHANGED budget \/ \E e \in {"mute", "interrupt", "stop"} : Spend(e)
      BY <1>2 DEF StartTimeout, Interrupt, Stop, StopSave
    <3> QED BY <1>0, <3>1, Counts
  <2>3. \A m \in Msgs : (m \in KnownMsgs' <=> m \in KnownMsgs) /\ (InCall(m)' <=> InCall(m))
    BY <1>0, <1>2, OthersCalls, SameCall
  <2>4. SameKnown
    BY <2>3 DEF SameKnown
  <2>5. \A m \in Msgs : In(m, queue)' <=> In(m, queue)
    BY <2>1
  <2> QED BY <2>1, <2>2, <2>3, <2>4, <2>5, Stays
<1> QED BY <1>1, <1>2

(* The drainer: what it takes still waits, what it hands over is a turn,   *)
(* what it cannot hand over was shown.                                      *)
LEMMA DrainKeepsPromise ==
  ASSUME PromiseInv, TurnInv', Draining
  PROVE  Promise!Next
<1> USE DEF disk, flow, starts, drained
<1>0. /\ TypeInv /\ queue \in Seq(Msgs) /\ outbox \in Seq(Msgs)
      /\ drainer \in DrainerType /\ \A n \in Msgs : n # NoOne
      /\ drainer.pc \in {"show", "save", "send"} => drainer.msg \in Msgs
  BY ChatAssumption DEF ChatAssumption, PromiseInv, TypeInv, ChatTypeOK, DrainFits, DrainerType
<1>1. UNCHANGED <<task, budget>> /\ NoCount
  <2>1. UNCHANGED <<task, budget>>
    BY DEF Draining, DrainRead, DrainShow, DrainSave, DrainSend
  <2> QED BY <1>0, <2>1, Counts
<1>2. SameKnown /\ \A n \in Msgs : InCall(n)' <=> InCall(n)
  BY <1>1, SameCall DEF SameKnown
<1>3. CASE DrainRead
  <2>1. drainer.pc = "read" /\ UNCHANGED history
    BY <1>3 DEF DrainRead
  <2>2. \A n \in Msgs : drainer.msg # n
    BY <2>1, DrainerWaits
  <2>3. \A n \in Msgs : n \in WaitingMsgs' <=> n \in WaitingMsgs
    <3>1. CASE Rest /\ UNCHANGED <<outbox, queue>>
      <4>1. \A n \in Msgs : drainer'.msg # n
        BY <1>0, <3>1, RestTypes
      <4> QED BY <1>2, <2>2, <3>1, <4>1, Waits
    <3>2. CASE outbox # <<>> /\ Takes(Head(outbox), "save") /\ outbox' = Tail(outbox) /\ UNCHANGED queue
      <4>1. drainer'.msg = Head(outbox)
        BY <1>0, <3>2 DEF Takes, DrainerType
      <4>2. In(Head(outbox), outbox) /\ \A n : In(n, outbox)' \/ n = Head(outbox) <=> In(n, outbox)
        BY <1>0, <3>2, Headed
      <4> QED BY <1>2, <2>2, <3>2, <4>1, <4>2, Waits
    <3>3. CASE queue # <<>> /\ Takes(Head(queue), "show") /\ queue' = Tail(queue) /\ UNCHANGED outbox
      <4>1. drainer'.msg = Head(queue)
        BY <1>0, <3>3 DEF Takes, DrainerType
      <4>2. In(Head(queue), queue) /\ \A n : In(n, queue)' \/ n = Head(queue) <=> In(n, queue)
        BY <1>0, <3>3, Headed
      <4> QED BY <1>2, <2>2, <3>3, <4>1, <4>2, Waits
    <3> QED BY <1>3, <3>1, <3>2, <3>3 DEF DrainRead
  <2> QED BY <1>1, <1>2, <2>1, <2>3, GivesUp
<1>4. CASE DrainSave
  <2>1. /\ UNCHANGED <<queue, outbox, history>> /\ drainer' = [drainer EXCEPT !.pc = "send"]
    BY <1>4 DEF DrainSave
  <2>2. drainer'.msg = drainer.msg
    BY <1>0, <2>1 DEF DrainerType
  <2>3. \A n \in Msgs : In(n, queue)' <=> In(n, queue)
    BY <2>1
  <2> QED BY <1>1, <1>2, <2>1, <2>2, <2>3, Stays
<1>5. CASE DrainShow
  <2> PICK m \in Msgs : m = drainer.msg
      BY <1>0, <1>5 DEF DrainShow
  <2>1. /\ drainer.pc = "show" /\ shown' = shown \cup {m} /\ UNCHANGED <<queue, outbox, handed>>
        /\ drainer' = [drainer EXCEPT !.pc = "save"]
    BY <1>5 DEF DrainShow, Published
  <2>2. drainer'.msg = m
    BY <1>0, <2>1 DEF DrainerType
  <2>3. m \in WaitingMsgs
    BY Waits
  <2>4. m \notin shown
    BY <2>1 DEF PromiseInv, TurnInv, OnePlace, WithDrainer
  <2>5. WaitingMsgs' = WaitingMsgs /\ KnownMsgs' = KnownMsgs
    <3>1. KnownMsgs \subseteq Msgs /\ KnownMsgs' \subseteq Msgs
          /\ WaitingMsgs \subseteq Msgs /\ WaitingMsgs' \subseteq Msgs
      BY DEF KnownMsgs, WaitingMsgs
    <3>2. \A n \in Msgs : n \in WaitingMsgs' <=> n \in WaitingMsgs
      BY <1>2, <2>1, <2>2, Waits
    <3> QED BY <1>2, <3>1, <3>2 DEF SameKnown
  <2>6. Promise!Show(m)
    BY <1>1, <2>1, <2>3, <2>4, <2>5 DEF Promise!Show, NoCount
  <2> QED BY <2>6 DEF Promise!Next
<1>6. CASE DrainSend
  <2> PICK m \in Msgs : m = drainer.msg
      BY <1>0, <1>6 DEF DrainSend
  <2>1. drainer.pc = "send" /\ UNCHANGED <<queue, outbox, shown>> /\ drainer'.msg = NoOne
    BY <1>0, <1>6, RestTypes DEF DrainSend
  <2>2. m \in WaitingMsgs /\ m \in shown
    <3>1. m \in shown
      BY <2>1 DEF PromiseInv, TurnInv, OnePlace, WithDrainer
    <3> QED BY <3>1, Waits
  <2>3. \A n \in Msgs : n # m => (n \in WaitingMsgs' <=> n \in WaitingMsgs)
    BY <1>0, <1>2, <2>1, Waits
  <2>4. CASE UNCHANGED handed
    <3>1. m \in WaitingMsgs' => m \in WaitingMsgs
      BY <2>2
    <3> QED BY <1>1, <1>2, <2>1, <2>2, <2>3, <2>4, <3>1, GivesUp DEF history
  <2>5. CASE handed' = Append(handed, m)
    <3>1. In(m, handed)'
      <4>1. handed \in Seq(Msgs)
        BY <1>0 DEF TypeInv, ChatTypeOK
      <4>2. In(m, Append(handed, m))
        BY <4>1, Appended
      <4> QED BY <2>5, <4>2
    <3>2. OnePlace(m)'
      BY DEF TurnInv
    <3>3. ~In(m, queue)' /\ ~In(m, outbox)' /\ ~Carried(m)'
      BY <3>1, <3>2 DEF OnePlace, InQueue, InOutbox, WithAgent
    <3>4. m \notin WaitingMsgs'
      BY <1>0, <2>1, <3>3, Waits DEF Carried, InCall
    <3>5. WaitingMsgs' = WaitingMsgs \ {m} /\ KnownMsgs' = KnownMsgs
      <4>1. KnownMsgs \subseteq Msgs /\ KnownMsgs' \subseteq Msgs
            /\ WaitingMsgs \subseteq Msgs /\ WaitingMsgs' \subseteq Msgs
        BY DEF KnownMsgs, WaitingMsgs
      <4> QED BY <1>2, <2>3, <3>4, <4>1 DEF SameKnown
    <3>6. Promise!Turn(m)
      BY <1>1, <2>1, <2>2, <2>5, <3>5 DEF Promise!Turn, NoCount
    <3> QED BY <3>6 DEF Promise!Next
  <2> QED BY <1>6, <2>4, <2>5 DEF DrainSend
<1> QED BY <1>3, <1>4, <1>5, <1>6 DEF Draining

LEMMA HearKeepsPromise ==
  ASSUME PromiseInv, Hearing \/ \E p \in Procs : Claude(p) \/ Speaks(p) \/ Exits(p)
  PROVE  Promise!Next
<1> USE DEF disk, flow, starts, drained
<1>1. UNCHANGED <<queue, task, history>> /\ (outbox' = outbox \/ outbox' = <<>>)
  BY DEF Hearing, HandleSave, Handle, ExitForeign, ExitSeen, ExitRead, ExitSave, Claude, TurnBegins, TurnEnds,
         Ignores, Speaks, Exits
<1>2. UNCHANGED drainer \/ CallDrain
  BY DEF Hearing, HandleSave, Handle, ExitForeign, ExitSeen, ExitRead, ExitSave, Claude, TurnBegins, TurnEnds,
         Ignores, Speaks, Exits
<1>3. NoCount
  <2>1. UNCHANGED budget \/ Spend("exit")
    BY DEF Hearing, HandleSave, Handle, ExitForeign, ExitSeen, ExitRead, ExitSave, Claude, TurnBegins, TurnEnds,
           Ignores, Speaks, Exits
  <2> QED BY <2>1, Counts DEF PromiseInv
<1>4. SameKnown /\ \A m \in Msgs : InCall(m)' <=> InCall(m)
  BY <1>1, SameCall DEF SameKnown
<1>5. (\A m \in Msgs : drainer'.msg = m <=> drainer.msg = m) /\ \A m \in Msgs : In(m, queue)' <=> In(m, queue)
  BY <1>1, <1>2, DrainerWaits
<1> QED BY <1>1, <1>3, <1>4, <1>5, Stays

(* The daemon leaves, dies and starts.                                     *)
LEMMA LeaveKeepsPromise ==
  ASSUME PromiseInv, LeavesQueued, Leaving \/ Drain \/ Crash
  PROVE  Promise!Next
<1> USE DEF disk, flow, starts, drained
<1>0. /\ TypeInv /\ task \in [Tasks -> TaskType] /\ Msgs \subseteq Tasks /\ queue \in Seq(Msgs)
      /\ budget \in [Events -> Nat] /\ {"remove", "crash"} \subseteq Events
      /\ \A m \in Msgs : m # NoOne
  BY ChatAssumption DEF ChatAssumption, PromiseInv, TypeInv, ChatTypeOK, Tasks, Events
<1>1. ASSUME Drain \/ Quiet \/ ReadResumes \/ Listen \/ (ResumeQueued /\ queue = <<>>)
      PROVE  Promise!Next
  <2>1. UNCHANGED <<queue, task, history, outbox, drainer>> /\ (UNCHANGED budget \/ Spend("drain"))
    BY <1>1 DEF Drain, Quiet, ReadResumes, Listen, ResumeQueued
  <2>2. NoCount /\ SameKnown /\ \A m \in Msgs : InCall(m)' <=> InCall(m)
    BY <1>0, <2>1, Counts, SameCall DEF SameKnown
  <2>3. \A m \in Msgs : In(m, queue)' <=> In(m, queue)
    BY <2>1
  <2> QED BY <2>1, <2>2, <2>3, Stays
<1>2. CASE Boot
  <2>1. UNCHANGED <<queue, history, outbox, drainer, budget>>
    BY <1>2 DEF Boot
  <2>2. ASSUME NEW m \in Msgs
        PROVE  (m \in KnownMsgs' <=> m \in KnownMsgs) /\ (InCall(m)' <=> InCall(m))
    <3>1. task'[m] = IF task[m].pc = "away" THEN Call("new") ELSE task[m]
      BY <1>0, <1>2 DEF Boot
    <3>2. Call("new").pc = "new"
      BY DEF Call
    <3> QED BY <3>1, <3>2 DEF KnownMsgs, InCall
  <2>3. NoCount /\ SameKnown
    BY <1>0, <2>1, <2>2, Counts DEF SameKnown
  <2>4. \A m \in Msgs : In(m, queue)' <=> In(m, queue)
    BY <2>1
  <2> QED BY <2>1, <2>2, <2>3, <2>4, Stays
<1>3. ASSUME Lost, UNCHANGED queue
      PROVE  /\ SameKnown /\ UNCHANGED history
             /\ \A m \in Msgs : m \in WaitingMsgs' <=> In(m, queue)
  <2>1. UNCHANGED history /\ outbox' = <<>> /\ drainer'.msg = NoOne
    BY <1>3 DEF Lost, Off
  <2>2. ASSUME NEW m \in Msgs
        PROVE  (m \in KnownMsgs' <=> m \in KnownMsgs) /\ ~InCall(m)'
    <3>1. task'[m] = IF task[m].pc \in {"new", "away"} THEN task[m]
                     ELSE IF m \in KnownMsgs \cup Others THEN Call("done") ELSE Call("refused")
      BY <1>0, <1>3 DEF Lost
    <3>2. Call("done").pc = "done" /\ Call("refused").pc = "refused" /\ m \notin Others
      BY ChatAssumption DEF ChatAssumption, Call
    <3>3. CASE task[m].pc \in {"new", "away"}
      BY <3>1, <3>3 DEF KnownMsgs, InCall
    <3>4. CASE task[m].pc \notin {"new", "away"} /\ m \in KnownMsgs
      <4>1. task'[m].pc = "done"
        BY <3>1, <3>2, <3>4
      <4> QED BY <3>4, <4>1 DEF KnownMsgs, InCall
    <3>5. CASE task[m].pc \notin {"new", "away"} /\ m \notin KnownMsgs
      <4>1. task'[m].pc = "refused"
        BY <3>1, <3>2, <3>5
      <4> QED BY <3>5, <4>1 DEF KnownMsgs, InCall
    <3> QED BY <3>3, <3>4, <3>5
  <2>3. \A m \in Msgs : m \in WaitingMsgs' <=> In(m, queue)
    BY <1>0, <1>3, <2>1, <2>2, NoneIn, Waits
  <2> QED BY <2>1, <2>2, <2>3 DEF SameKnown
<1>4. CASE Leave
  <2>1. Lost /\ UNCHANGED <<queue, budget>> /\ life = "leaving"
    BY <1>4 DEF Leave
  <2>2. \A m \in Msgs : In(m, queue) => m \in WaitingMsgs
    BY Waits
  <2>3. \A m \in WaitingMsgs : In(m, queue) \/ m \in shown
    BY <2>1 DEF LeavesQueued
  <2> QED BY <1>0, <1>3, <2>1, <2>2, <2>3, GivesUp, Counts
<1>5. CASE Crash
  <2> DEFINE lost == WaitingMsgs \ WaitingMsgs'
  <2>1. Lost /\ UNCHANGED queue /\ Spend("crash")
    BY <1>5 DEF Crash
  <2>2. \A m \in Msgs : m \in WaitingMsgs' => m \in WaitingMsgs
    BY <1>3, <2>1, Waits
  <2>3. KnownMsgs' = KnownMsgs /\ WaitingMsgs' = WaitingMsgs \ lost /\ lost \subseteq WaitingMsgs
    <3>1. KnownMsgs \subseteq Msgs /\ KnownMsgs' \subseteq Msgs
          /\ WaitingMsgs \subseteq Msgs /\ WaitingMsgs' \subseteq Msgs
      BY DEF KnownMsgs, WaitingMsgs
    <3> QED BY <1>3, <2>1, <2>2, <3>1 DEF SameKnown
  <2>4. /\ Budget["crash"] - budget'["crash"] = Budget["crash"] - budget["crash"] + 1
        /\ budget'["remove"] = budget["remove"]
    <3>1. Budget["crash"] \in Nat /\ budget["crash"] \in Nat
      BY <1>0, ChatAssumption DEF ChatAssumption
    <3>2. budget'["crash"] = budget["crash"] - 1 /\ budget'["remove"] = budget["remove"]
      BY <1>0, <2>1 DEF Spend
    <3> QED BY <3>1, <3>2
  <2>5. Promise!Crash(lost)
    BY <1>3, <2>1, <2>3, <2>4 DEF Promise!Crash, history
  <2> QED BY <2>3, <2>5 DEF Promise!Next
<1>6. CASE ResumeQueued /\ queue # <<>>
  <2> PICK m \in Msgs : m = Head(queue)
      BY <1>0, <1>6, Headed
  <2>1. /\ queue' = Tail(queue) /\ UNCHANGED <<outbox, history, drainer, budget>>
        /\ task' = [task EXCEPT ![m] = [Call("deliver") EXCEPT !.copy = rec, !.taken = TRUE]]
    BY <1>6 DEF ResumeQueued
  <2>2. /\ In(m, queue) /\ \A n : In(n, queue)' => In(n, queue)
        /\ \A n : In(n, queue) => In(n, queue)' \/ n = m
    BY <1>0, <1>6, <2>1, Headed
  <2>3. Moves(m, "deliver") /\ task'[m].taken
    BY <1>0, <2>1 DEF Call, Moves
  <2>4. Resting(m)
    BY <2>2 DEF PromiseInv, TurnInv, OnePlace, InQueue
  <2>5. m \in KnownMsgs /\ m \in KnownMsgs' /\ InCall(m)'
    BY <2>3, <2>4 DEF Resting, Moves, KnownMsgs, InCall
  <2> QED BY <1>0, <2>1, <2>2, <2>3, <2>5, PickedUpWaits, Counts
<1> QED BY <1>1, <1>2, <1>4, <1>5, <1>6 DEF Leaving

LEMMA StepKeepsPromise ==
  PromiseInv /\ TurnInv' /\ ResumesAlone /\ LeavesQueued /\ [Next]_vars => [Promise!Next]_(Promise!vars)
<1> SUFFICES ASSUME PromiseInv, TurnInv', ResumesAlone, LeavesQueued, [Next]_vars
             PROVE  Promise!Next \/ UNCHANGED Promise!vars
    OBVIOUS
<1>1. CASE UNCHANGED vars
  <2>1. KnownMsgs' = KnownMsgs /\ WaitingMsgs' = WaitingMsgs /\ UNCHANGED <<shown, handed, budget>>
    BY <1>1 DEF vars, disk, flow, drained, history, KnownMsgs, WaitingMsgs, InCall
  <2> QED BY <2>1 DEF Promise!vars
<1> QED BY <1>1, AskKeepsPromise, DeliverKeepsPromise, ShowKeepsPromise, StartKeepsPromise, CutKeepsPromise,
           DrainKeepsPromise, HearKeepsPromise, LeaveKeepsPromise DEF Next, Calls

(* ChatTurns implements MessagePromise, whatever is sent, cut, edited,     *)
(* removed and restarted, but for two losses: an agent's start that        *)
(* replaces the outbox under other messages, and a daemon that leaves with *)
(* a message that it took from the queue and did not show yet.             *)
THEOREM PromiseKept == Spec /\ []ResumesAlone /\ []LeavesQueued => KeepsPromise
<1>1. Init => CallsFit
  BY DEF Init, CallsFit, Call, Tasks
<1>2. Init => Promise!Init
  <2> SUFFICES ASSUME Init
               PROVE  Promise!Init
      OBVIOUS
  <2>1. queue = <<>> /\ outbox = <<>> /\ handed = <<>> /\ shown = {} /\ drainer.msg = NoOne /\ budget = Budget
    BY DEF Init, Off
  <2>2. ASSUME NEW m \in Msgs
        PROVE  m \notin KnownMsgs /\ m \notin WaitingMsgs
    <3>1. task[m].pc = "new" /\ m # NoOne
      BY ChatAssumption DEF ChatAssumption, Init, Call, Tasks
    <3>2. m \notin KnownMsgs /\ ~InCall(m)
      BY <3>1 DEF KnownMsgs, InCall
    <3> QED BY <2>1, <3>1, <3>2, NoneIn, Waits
  <2>3. KnownMsgs = {} /\ WaitingMsgs = {}
    <3>1. KnownMsgs \subseteq Msgs /\ WaitingMsgs \subseteq Msgs
      BY DEF KnownMsgs, WaitingMsgs
    <3> QED BY <2>2, <3>1
  <2>4. Budget["remove"] - budget["remove"] = 0 /\ Budget["crash"] - budget["crash"] = 0
    <3>1. Budget["remove"] \in Nat /\ Budget["crash"] \in Nat
      BY ChatAssumption DEF ChatAssumption, Events
    <3> QED BY <2>1, <3>1
  <2> QED BY <2>1, <2>3, <2>4 DEF Promise!Init
<1>3. Spec => []CallsFit
  <2>1. Spec => []TypeInv
    BY TypeStarts, TypeStep, PTL DEF Spec
  <2> QED BY <1>1, <2>1, FitStep, PTL DEF Spec
<1>4. TypeInv /\ TurnInv /\ CallsFit => PromiseInv
  BY DEF PromiseInv
<1> QED BY <1>2, <1>3, <1>4, TurnInvariant, StepKeepsPromise, PTL DEF Spec, KeepsPromise, Promise!Spec
=============================================================================
