--------------------- MODULE AppContainerManagerProofs ---------------------
(***************************************************************************)
(* Proofs about AppContainerManager for every set of names, every bound    *)
(* and every setting of its switches.                                      *)
(***************************************************************************)
EXTENDS AppContainerManager, SequenceLemmas

\* The value of cur for a thread outside a call is one a call can have.
LEMMA NoCallType == NoCall \in Call
<1>1. (CHOOSE n \in Names : TRUE) \in Names
  BY ManagerAssumption
<1>2. QED
  BY <1>1 DEF NoCall, Call, NoId

\* Only the docker instance of a call changes while it runs.
LEMMA CallWithId ==
  ASSUME NEW c \in Call, NEW i \in Nat
  PROVE  [c EXCEPT !.id = i] \in Call
BY DEF Call

\* Where a thread may go.
LEMMA GotoType ==
  ASSUME TypeOK, NEW t \in Threads, NEW label \in Pc, Goto(t, label)
  PROVE  pc' \in [Threads -> Pc]
BY DEF TypeOK, Goto

\* A return leaves the four variables it touches well typed.
LEMMA ReturnType ==
  ASSUME TypeOK, NEW t \in Threads, NEW o \in {"none", "ok", "400"} \cup Errors, Return(t, o)
  PROVE  /\ pc' \in [Threads -> Pc]
         /\ outcome' \in [Threads -> {"none", "ok", "400"} \cup Errors]
         /\ cur' \in [Threads -> Call]
         /\ lock' \in Threads \cup {Free}
<1>1. "idle" \in Pc
  BY DEF Pc
<1>2. QED
  BY <1>1, NoCallType, GotoType DEF TypeOK, Return

\* So does the beginning of a call.
LEMMA BeginType ==
  ASSUME TypeOK, NEW t \in Threads, NEW n \in Names, NEW w \in BOOLEAN, NEW label \in Pc,
         Begin(t, n, w, label)
  PROVE  TypeOK'
<1>1. [name |-> n, wait |-> w, id |-> NoId] \in Call
  BY DEF Call, NoId
<1>2. QED
  BY <1>1, GotoType DEF TypeOK, Begin, tables

\* The variables have their types in every state, with any number of containers.
THEOREM TypeCorrect == Spec => []TypeOK
<1>1. Init => TypeOK
  <2> SUFFICES ASSUME Init PROVE TypeOK
    OBVIOUS
  <2>1. queue \in Seq(Instance) /\ appcontainers \in Seq(Names)
    BY EmptySeq DEF Init
  <2>2. cur \in [Threads -> Call] /\ pc \in [Threads -> Pc]
    BY NoCallType DEF Init, Threads, Pc
  <2>3. Gone \in [id : Nat, state : {"absent", "created", "running", "exited", "removing"}]
    BY DEF Gone, NoId
  <2>4. lock \in Threads \cup {Free} /\ nameMap \in [Names -> Nat] /\ lastId \in Nat
    BY DEF Init, NoId
  <2>5. daemon \in [Names -> [id : Nat, state : {"absent", "created", "running", "exited", "removing"}]]
    BY <2>3 DEF Init
  <2>6. stopIdx \in Nat \ {0} /\ calls \in [Threads -> Nat]
    BY DEF Init
  <2>7. outcome \in [Threads -> {"none", "ok", "400"} \cup Errors]
    BY DEF Init
  <2>8. disturbed \in BOOLEAN
    BY DEF Init
  <2>9. QED
    BY <2>1, <2>2, <2>4, <2>5, <2>6, <2>7, <2>8 DEF TypeOK
<1>2. TypeOK /\ [Next]_vars => TypeOK'
  <2> SUFFICES ASSUME TypeOK, [Next]_vars PROVE TypeOK'
    OBVIOUS
  <2>a. Pc = {"off", "idle", "mon", "stop", "stopped", "add", "remove", "check", "list", "create",
              "start", "exists", "get", "running", "append", "enter", "show", "lookup", "removed",
              "dequeue", "unlist", "forget", "find", "read"}
    BY DEF Pc, Critical, AddPc, RemovePc, EntryPoint
  <2>b. {"none", "ok", "400"} \cup Errors = {"none", "ok", "400", "ValueError", "KeyError",
          "InvalidDockerArgs", "AttributeError", "APIError", "NotFound"}
    BY DEF Errors
  <2>c. "main" \in Threads /\ "httpd" \in Threads /\ Threads \subseteq Threads \cup {Free}
    BY DEF Threads
  <2>1. ASSUME NEW t \in Threads, Acquire(t) PROVE TypeOK'
    BY <2>1, <2>a, GotoType DEF Acquire, TypeOK, tables, EntryPoint
  <2>2. ASSUME NEW t \in Threads, CallAdd(t) PROVE TypeOK'
    BY <2>2, <2>a, BeginType DEF CallAdd
  <2>3. ASSUME NEW t \in Threads, UnknownHost(t) PROVE TypeOK'
    BY <2>3, <2>b, ReturnType DEF UnknownHost, TypeOK, tables
  <2>4. ASSUME NEW t \in Threads, Create(t) PROVE TypeOK'
    <3> DEFINE n == cur[t].name
    <3>1. n \in Names /\ lastId + 1 \in Nat
      BY DEF TypeOK, Call
    <3>2. [id |-> lastId + 1, state |-> "created"]
            \in [id : Nat, state : {"absent", "created", "running", "exited", "removing"}]
      BY <3>1
    <3>3. cur[t] \in Call /\ [cur[t] EXCEPT !.id = lastId + 1] \in Call
      <4>1. cur[t] \in Call
        BY DEF TypeOK
      <4>2. QED
        BY <3>1, <4>1, CallWithId
    <3>4. pc' \in [Threads -> Pc]
      BY <2>4, <2>a, GotoType DEF Create
    <3>5. daemon' \in [Names -> [id : Nat, state : {"absent", "created", "running", "exited", "removing"}]]
      BY <2>4, <3>1, <3>2 DEF Create, TypeOK
    <3>6. cur' \in [Threads -> Call]
      BY <2>4, <3>3 DEF Create, TypeOK
    <3>7. QED
      BY <2>4, <3>1, <3>4, <3>5, <3>6 DEF Create, TypeOK, tables
  <2>5. ASSUME NEW t \in Threads, CreateFails(t) PROVE TypeOK'
    BY <2>5, <2>b, ReturnType DEF CreateFails, TypeOK, tables
  <2>6. ASSUME NEW t \in Threads, Start(t) PROVE TypeOK'
    BY <2>6, <2>a, GotoType DEF Start, TypeOK, tables
  <2>7. ASSUME NEW t \in Threads, StartFails(t) PROVE TypeOK'
    BY <2>7, <2>b, ReturnType DEF StartFails, TypeOK, tables
  <2>8. ASSUME NEW t \in Threads, WaitExists(t) PROVE TypeOK'
    BY <2>8, <2>a, GotoType DEF WaitExists, TypeOK, tables
  <2>9. ASSUME NEW t \in Threads, WaitGet(t) PROVE TypeOK'
    BY <2>9, <2>b, ReturnType, <2>a, GotoType DEF WaitGet, TypeOK, tables
  <2>10. ASSUME NEW t \in Threads, WaitRunning(t) PROVE TypeOK'
    BY <2>10, <2>b, ReturnType, <2>a, GotoType DEF WaitRunning, TypeOK, tables
  <2>11. ASSUME NEW t \in Threads, AppendToQueue(t) \/ EnterInMap(t) \/ ShowInList(t) PROVE TypeOK'
    <3>1. cur[t].name \in Names /\ cur[t].id \in Nat
      BY DEF TypeOK, Call
    <3>2. [name |-> cur[t].name, id |-> cur[t].id] \in Instance
      BY <3>1 DEF Instance
    <3>3. CASE AppendToQueue(t)
      <4>1. queue' \in Seq(Instance)
        BY <3>2, <3>3, AppendProperties DEF AppendToQueue, TypeOK
      <4>2. QED
        BY <2>a, <3>3, <4>1, GotoType DEF AppendToQueue, TypeOK
    <3>4. CASE EnterInMap(t)
      <4>1. nameMap' \in [Names -> Nat]
        BY <3>1, <3>4 DEF EnterInMap, TypeOK
      <4>2. QED
        BY <2>a, <3>4, <4>1, GotoType DEF EnterInMap, TypeOK
    <3>5. CASE ShowInList(t)
      <4>1. appcontainers' \in Seq(Names)
        BY <3>1, <3>5, AppendProperties DEF ShowInList, TypeOK
      <4>2. QED
        BY <2>b, <3>5, <4>1, ReturnType DEF ShowInList, TypeOK
    <3>6. QED
      BY <2>11, <3>3, <3>4, <3>5
  <2>12. ASSUME NEW t \in Threads, Find(t) PROVE TypeOK'
    BY <2>12, <2>b, ReturnType, <2>a, GotoType DEF Find, TypeOK, tables
  <2>13. ASSUME NEW t \in Threads, Lookup(t) PROVE TypeOK'
    <3> DEFINE n == cur[t].name
    <3>1. n \in Names /\ nameMap[n] \in Nat
      BY DEF TypeOK, Call
    <3>2. cur[t] \in Call /\ [cur[t] EXCEPT !.id = nameMap[n]] \in Call
      <4>1. cur[t] \in Call
        BY DEF TypeOK
      <4>2. QED
        BY <3>1, <4>1, CallWithId
    <3>3. pc' \in [Threads -> Pc]
      BY <2>13, <2>a, GotoType DEF Lookup
    <3>4. daemon' \in [Names -> [id : Nat, state : {"absent", "created", "running", "exited", "removing"}]]
      BY <2>13, <3>1 DEF Lookup, TypeOK
    <3>5. cur' \in [Threads -> Call]
      BY <2>13, <3>2 DEF Lookup, TypeOK
    <3>6. QED
      BY <2>13, <3>3, <3>4, <3>5 DEF Lookup, TypeOK, tables
  <2>14. ASSUME NEW t \in Threads, LookupFails(t) PROVE TypeOK'
    BY <2>14, <2>b, ReturnType DEF LookupFails, TypeOK, tables, RemoveError
  <2>15. ASSUME NEW t \in Threads, WaitRemoved(t) PROVE TypeOK'
    BY <2>15, <2>a, GotoType DEF WaitRemoved, TypeOK, tables
  <2>16. ASSUME NEW t \in Threads, RemoveFromQueue(t) \/ RemoveFromList(t) \/ DeleteFromMap(t)
         PROVE  TypeOK'
    <3>1. CASE RemoveFromQueue(t)
      BY <2>a, <3>1, GotoType, RemoveFirstType DEF RemoveFromQueue, TypeOK
    <3>2. CASE RemoveFromList(t)
      BY <2>a, <3>2, GotoType, RemoveFirstType DEF RemoveFromList, TypeOK
    <3>3. CASE DeleteFromMap(t)
      BY <2>b, <3>3, ReturnType DEF DeleteFromMap, TypeOK, Call, NoId
    <3>4. QED
      BY <2>16, <3>1, <3>2, <3>3
  <2>17. ASSUME NEW t \in Threads, CallList(t) PROVE TypeOK'
    BY <2>17, <2>a, BeginType DEF CallList
  <2>18. ASSUME NEW t \in Threads, Read(t) PROVE TypeOK'
    BY <2>18, <2>b, ReturnType DEF Read, TypeOK, tables
  <2>19. CASE CallRemove
    BY <2>19, <2>a, BeginType, <2>c DEF CallRemove
  <2>20. CASE CallMonitor
    <3>1. PICK n \in Names :
            IF nameMap[n] = NoId
            THEN Return("main", "ValueError")
            ELSE /\ Goto("main", "mon")
                 /\ cur' = [cur EXCEPT !["main"] = [name |-> n, wait |-> TRUE, id |-> nameMap[n]]]
                 /\ UNCHANGED <<lock, outcome>>
      BY <2>20 DEF CallMonitor
    <3>2. calls' \in [Threads -> Nat]
      BY <2>20, <2>c DEF CallMonitor, TypeOK
    <3>3. CASE nameMap[n] = NoId
      BY <2>20, <2>b, <2>c, <3>1, <3>2, <3>3, ReturnType DEF CallMonitor, TypeOK, tables
    <3>4. CASE nameMap[n] # NoId
      <4>1. [name |-> n, wait |-> TRUE, id |-> nameMap[n]] \in Call
        BY DEF TypeOK, Call
      <4>2. Goto("main", "mon") /\ UNCHANGED <<lock, outcome>>
        BY <3>1, <3>4
      <4>3. cur' \in [Threads -> Call]
        BY <3>1, <3>4, <4>1, <2>c DEF TypeOK
      <4>4. pc' \in [Threads -> Pc]
        BY <2>a, <2>c, <4>2, GotoType
      <4>5. QED
        BY <2>20, <3>2, <4>2, <4>3, <4>4 DEF CallMonitor, TypeOK, tables
    <3>5. QED
      BY <3>3, <3>4
  <2>21. CASE Monitor
    BY <2>21, <2>b, ReturnType, <2>c DEF Monitor, TypeOK, tables
  <2>22. CASE RunRESTServerThread
    BY <2>22, <2>a, GotoType, <2>c DEF RunRESTServerThread, TypeOK, tables
  <2>23. CASE CallStop
    BY <2>23, <2>a, GotoType, <2>c DEF CallStop, TypeOK, tables
  <2>24. CASE StopRemove
    <3> DEFINE c == queue[stopIdx]
    <3>1. c \in Instance
      BY <2>24, ElementOfSeq, LenProperties DEF StopRemove, TypeOK
    <3>2. CASE Alive(c.name, c.id) /\ daemon[c.name].state # "removing"
      <4>1. daemon' = [daemon EXCEPT ![c.name].state = "removing"] /\ stopIdx' = stopIdx + 1
            /\ disturbed' = TRUE /\ UNCHANGED <<lock, pc, cur, outcome, tables, lastId, calls>>
        BY <2>24, <3>2 DEF StopRemove
      <4>2. c.name \in Names
        BY <3>1 DEF Instance
      <4>3. daemon' \in [Names -> [id : Nat, state : {"absent", "created", "running", "exited", "removing"}]]
        BY <4>1, <4>2 DEF TypeOK
      <4> HIDE DEF c
      <4>4. stopIdx' \in Nat \ {0} /\ disturbed' \in BOOLEAN
        BY <4>1 DEF TypeOK
      <4>5. QED
        BY <4>1, <4>3, <4>4 DEF TypeOK, tables
    <3>3. CASE ~(Alive(c.name, c.id) /\ daemon[c.name].state # "removing")
      <4>1. RemoveError(c.name, c.id) \in {"none", "ok", "400"} \cup Errors
        BY <2>b DEF RemoveError
      <4>2. Return("main", RemoveError(c.name, c.id)) /\ UNCHANGED <<daemon, stopIdx, disturbed>>
        BY <2>24, <3>3 DEF StopRemove
      <4>3. QED
        BY <2>24, <2>c, <4>1, <4>2, ReturnType DEF StopRemove, TypeOK, tables
    <3>4. QED
      BY <3>2, <3>3
  <2>25. CASE StopEnd
    BY <2>25, <2>a, GotoType, <2>c DEF StopEnd, TypeOK, tables
  <2>26. CASE CallDelete
    BY <2>26, <2>a, BeginType, <2>c DEF CallDelete
  <2>27. CASE BadRequest
    BY <2>27, <2>b, ReturnType, <2>c DEF BadRequest, TypeOK, tables
  <2>28. ASSUME NEW n \in Names, ContainerExits(n) PROVE TypeOK'
    BY <2>28 DEF ContainerExits, TypeOK, tables
  <2>29. ASSUME NEW n \in Names, RemovalDone(n) PROVE TypeOK'
    BY <2>29 DEF RemovalDone, TypeOK, tables, Gone, NoId
  <2>30. ASSUME NEW n \in Names, CliRemove(n) PROVE TypeOK'
    BY <2>30 DEF CliRemove, TypeOK, tables
  <2>31. CASE UNCHANGED vars
    BY <2>31 DEF TypeOK, vars, tables
  <2>32. QED
    BY <2>1, <2>2, <2>3, <2>4, <2>5, <2>6, <2>7, <2>8, <2>9, <2>10, <2>11, <2>12, <2>13, <2>14,
       <2>15, <2>16, <2>17, <2>18, <2>19, <2>20, <2>21, <2>22, <2>23, <2>24, <2>25, <2>26, <2>27,
       <2>28, <2>29, <2>30, <2>31
    DEF Next, Thread, Add, RemoveContainer, MainOnly, HttpdOnly, Daemon
<1>3. QED
  BY <1>1, <1>2, PTL DEF Spec

----------------------------------------------------------------------------
\* The tables.  TableInv is inductive together with TypeOK.

Created == {"start", "exists", "get", "running", "append"}
Added == {"enter", "show"}
Removing == {"removed", "dequeue"}
Leaving == {"unlist", "forget"}
Writing == Added \cup Leaving

\* The program counters, written out.
LEMMA Labels ==
  /\ Critical = {"create", "start", "exists", "get", "running", "append", "enter", "show", "lookup",
                 "removed", "dequeue", "unlist", "forget", "find", "read"}
  /\ Writing = {"enter", "show", "unlist", "forget"}
  /\ DOMAIN EntryPoint = {"add", "remove", "check", "list"}
  /\ \A l \in DOMAIN EntryPoint : EntryPoint[l] \in {"create", "lookup", "find", "read"}
BY DEF Writing, Added, Leaving, Critical, AddPc, RemovePc, EntryPoint

\* At most one thread is in a critical section.
LEMMA Exclusive ==
  ASSUME TableInv, NEW t \in Threads, NEW u \in Threads, pc[t] \in Critical, pc[u] \in Critical
  PROVE  t = u
BY DEF TableInv

\* A step with which no table is written, and no thread comes to or leaves a place between two
\* writes.
Calm ==
  /\ UNCHANGED tables
  /\ \A u \in Threads :
       /\ \A l \in Writing : pc'[u] = l <=> pc[u] = l
       /\ pc[u] \in Writing => cur'[u] = cur[u]

\* A thread that moves elsewhere is calm.
LEMMA GotoIsCalm ==
  ASSUME TypeOK, NEW t \in Threads, NEW label, Goto(t, label), UNCHANGED tables,
         pc[t] \notin Writing, label \notin Writing,
         \A u \in Threads : u # t => cur'[u] = cur[u]
  PROVE  Calm
<1>1. \A u \in Threads : pc'[u] = (IF u = t THEN label ELSE pc[u])
  BY DEF Goto, TypeOK
<1>2. QED
  BY <1>1 DEF Calm

\* So is one whose call ends.
LEMMA ReturnIsCalm ==
  ASSUME TypeOK, NEW t \in Threads, NEW o, Return(t, o), UNCHANGED tables, pc[t] \notin Writing
  PROVE  Calm
<1>1. Goto(t, "idle") /\ \A u \in Threads : u # t => cur'[u] = cur[u]
  BY DEF Return, TypeOK
<1>2. "idle" \notin Writing
  BY Labels
<1>3. QED
  BY <1>1, <1>2, GotoIsCalm

\* So is one that begins a call.
LEMMA BeginIsCalm ==
  ASSUME TypeOK, NEW t \in Threads, NEW n \in Names, NEW w \in BOOLEAN,
         NEW label \in DOMAIN EntryPoint, Begin(t, n, w, label)
  PROVE  Calm
<1>1. Goto(t, label) /\ UNCHANGED tables /\ \A u \in Threads : u # t => cur'[u] = cur[u]
  BY DEF Begin, TypeOK
<1>2. pc[t] \notin Writing /\ label \notin Writing
  BY Labels DEF Begin
<1>3. QED
  BY <1>1, <1>2, GotoIsCalm

\* The six writes.
Writes(t) ==
  \/ AppendToQueue(t) \/ EnterInMap(t) \/ ShowInList(t)
  \/ RemoveFromQueue(t) \/ RemoveFromList(t) \/ DeleteFromMap(t)

\* Every other step is calm.
LEMMA CalmSteps ==
  ASSUME TypeOK, [Next]_vars, \A t \in Threads : ~Writes(t)
  PROVE  Calm
<1>0. "main" \in Threads /\ "httpd" \in Threads
  BY DEF Threads
<1>1. ASSUME NEW t \in Threads, CallAdd(t) \/ CallList(t) PROVE Calm
  BY <1>1, BeginIsCalm, Labels DEF CallAdd, CallList
<1>2. ASSUME CallRemove \/ CallDelete PROVE Calm
  BY <1>0, <1>2, BeginIsCalm, Labels DEF CallRemove, CallDelete
<1>3. ASSUME NEW t \in Threads,
             UnknownHost(t) \/ CreateFails(t) \/ StartFails(t) \/ LookupFails(t) \/ Read(t)
      PROVE  Calm
  BY <1>3, ReturnIsCalm, Labels DEF UnknownHost, CreateFails, StartFails, LookupFails, Read
<1>4. ASSUME NEW t \in Threads, Acquire(t) PROVE Calm
  <2>1. EntryPoint[pc[t]] \in {"create", "lookup", "find", "read"} /\ pc[t] \in DOMAIN EntryPoint
    BY <1>4, Labels DEF Acquire
  <2>2. Goto(t, EntryPoint[pc[t]]) /\ UNCHANGED <<tables, cur>>
    BY <1>4 DEF Acquire
  <2>3. QED
    BY <2>1, <2>2, GotoIsCalm, Labels
<1>5. ASSUME NEW t \in Threads, Create(t) \/ Lookup(t) PROVE Calm
  <2>1. UNCHANGED tables /\ pc[t] \in {"create", "lookup"}
        /\ (Goto(t, "start") \/ Goto(t, "removed") \/ Goto(t, "dequeue"))
    BY <1>5 DEF Create, Lookup
  <2>2. \A u \in Threads : u # t => cur'[u] = cur[u]
    BY <1>5 DEF Create, Lookup, TypeOK
  <2>3. QED
    BY <2>1, <2>2, GotoIsCalm, Labels
<1>6. ASSUME NEW t \in Threads, Start(t) \/ WaitExists(t) \/ WaitRemoved(t) PROVE Calm
  <2>1. UNCHANGED <<tables, cur>> /\ pc[t] \in {"start", "exists", "removed"}
        /\ (Goto(t, "exists") \/ Goto(t, "append") \/ Goto(t, "get") \/ Goto(t, "dequeue"))
    BY <1>6 DEF Start, WaitExists, WaitRemoved
  <2>2. QED
    BY <2>1, GotoIsCalm, Labels
<1>7. ASSUME NEW t \in Threads, WaitGet(t) \/ WaitRunning(t) \/ Find(t) PROVE Calm
  <2>1. UNCHANGED tables /\ pc[t] \in {"get", "running", "find"}
        /\ \/ \E o : Return(t, o)
           \/ UNCHANGED cur /\ (Goto(t, "append") \/ Goto(t, "running") \/ Goto(t, "remove"))
    BY <1>7 DEF WaitGet, WaitRunning, Find
  <2>2. QED
    BY <2>1, GotoIsCalm, ReturnIsCalm, Labels
<1>8. ASSUME CallMonitor PROVE Calm
  <2>1. UNCHANGED tables /\ pc["main"] = "idle"
        /\ \/ \E o : Return("main", o)
           \/ Goto("main", "mon") /\ \A u \in Threads : u # "main" => cur'[u] = cur[u]
    BY <1>8 DEF CallMonitor, TypeOK
  <2>2. QED
    BY <1>0, <2>1, GotoIsCalm, ReturnIsCalm, Labels
<1>9. ASSUME Monitor \/ BadRequest PROVE Calm
  BY <1>0, <1>9, ReturnIsCalm, Labels DEF Monitor, BadRequest
<1>10. ASSUME RunRESTServerThread \/ CallStop \/ StopEnd PROVE Calm
  <2>1. UNCHANGED <<tables, cur>>
        /\ \/ pc["httpd"] = "off" /\ Goto("httpd", "idle")
           \/ pc["main"] \in {"idle", "stop"} /\ (Goto("main", "stop") \/ Goto("main", "stopped"))
    BY <1>10 DEF RunRESTServerThread, CallStop, StopEnd
  <2>2. QED
    BY <1>0, <2>1, GotoIsCalm, Labels
<1>11. ASSUME StopRemove PROVE Calm
  <2>1. UNCHANGED tables /\ pc["main"] = "stop"
        /\ (UNCHANGED <<pc, cur>> \/ \E o : Return("main", o))
    BY <1>11 DEF StopRemove
  <2>2. QED
    BY <1>0, <2>1, ReturnIsCalm, Labels DEF Calm
<1>12. ASSUME NEW n \in Names, Daemon(n) \/ CliRemove(n) PROVE Calm
  BY <1>12 DEF Daemon, ContainerExits, RemovalDone, CliRemove, Calm
<1>13. ASSUME UNCHANGED vars PROVE Calm
  BY <1>13 DEF vars, Calm
<1>14. QED
  BY <1>1, <1>2, <1>3, <1>4, <1>5, <1>6, <1>7, <1>8, <1>9, <1>10, <1>11, <1>12, <1>13
  DEF Next, Thread, Add, RemoveContainer, MainOnly, HttpdOnly, Writes

\* What a thread between two writes is doing, is what it was doing before.
LEMMA CalmAt ==
  ASSUME Calm, NEW labels \in SUBSET Writing, NEW n, NEW i
  PROVE  (\E u \in Threads : pc'[u] \in labels /\ cur'[u].name = n /\ cur'[u].id = i) <=> At(labels, n, i)
BY DEF Calm, At

LEMMA CalmAtName ==
  ASSUME Calm, NEW labels \in SUBSET Writing, NEW n
  PROVE  (\E u \in Threads : pc'[u] \in labels /\ cur'[u].name = n) <=> AtName(labels, n)
BY DEF Calm, AtName

\* A calm step keeps the map and the order of the queue.
LEMMA CalmKeepsTables ==
  ASSUME TableInv, Calm
  PROVE  CreationOrder' /\ MapIsOfQueue'
<1>1. UNCHANGED <<queue, nameMap>>
  BY DEF Calm, tables
<1>2. CreationOrder'
  BY <1>1 DEF TableInv, CreationOrder
<1>3. MapInQueue'
  <2> SUFFICES ASSUME NEW n \in Names, nameMap[n] # NoId
               PROVE  \/ [name |-> n, id |-> nameMap[n]] \in ToSet(queue)
                      \/ \E u \in Threads : pc'[u] \in {"unlist", "forget"} /\ cur'[u].name = n
                                            /\ cur'[u].id = nameMap[n]
    BY <1>1 DEF MapInQueue, At
  <2>1. {"unlist", "forget"} \in SUBSET Writing
    BY Labels
  <2>2. \/ [name |-> n, id |-> nameMap[n]] \in ToSet(queue)
        \/ At({"unlist", "forget"}, n, nameMap[n])
    BY DEF TableInv, MapIsOfQueue, MapInQueue
  <2>3. QED
    BY <2>1, <2>2, CalmAt
<1>4. MapLeadsToYoungest'
  <2> SUFFICES ASSUME NEW k \in DOMAIN queue
               PROVE  \/ nameMap[queue[k].name] = NoId
                      \/ nameMap[queue[k].name] >= queue[k].id
                      \/ \E u \in Threads : pc'[u] \in {"enter"} /\ cur'[u].name = queue[k].name
                                            /\ cur'[u].id = queue[k].id
    BY <1>1 DEF MapLeadsToYoungest, At
  <2>1. {"enter"} \in SUBSET Writing
    BY Labels
  <2>2. \/ nameMap[queue[k].name] = NoId
        \/ nameMap[queue[k].name] >= queue[k].id
        \/ At({"enter"}, queue[k].name, queue[k].id)
    BY DEF TableInv, MapIsOfQueue, MapLeadsToYoungest
  <2>3. QED
    BY <2>1, <2>2, CalmAt
<1>5. QED
  BY <1>2, <1>3, <1>4 DEF MapIsOfQueue

\* So does it keep all of TableInv, if no thread gets the lock or anything to register or remove.
LEMMA CalmKeeps ==
  ASSUME TableInv, Calm, UNCHANGED lastId,
         \A u \in Threads : /\ pc'[u] \in Critical => lock' = u
                            /\ pc'[u] \in Created => pc[u] \in Created
                            /\ pc'[u] \in Removing => pc[u] \in Removing
                            /\ pc'[u] \in Created \cup Removing => cur'[u] = cur[u]
  PROVE  TableInv'
<1>1. CreationOrder' /\ MapIsOfQueue' /\ UNCHANGED <<queue, nameMap>>
  BY CalmKeepsTables DEF Calm, tables
<1>2. \A u \in Threads : pc'[u] \in Created =>
        /\ cur'[u].id = lastId' /\ lastId' # NoId
        /\ \A k \in DOMAIN queue' : queue'[k].id < lastId'
  BY <1>1 DEF TableInv, Created
<1>3. \A u \in Threads : pc'[u] \in {"enter", "show"} =>
        /\ cur'[u].id = lastId' /\ lastId' # NoId
        /\ [name |-> cur'[u].name, id |-> cur'[u].id] \in ToSet(queue')
        /\ pc'[u] = "show" => nameMap'[cur'[u].name] = cur'[u].id
  BY <1>1, Labels DEF TableInv, Calm
<1>4. \A u \in Threads : pc'[u] \in {"removed", "dequeue", "unlist", "forget"} =>
        cur'[u].id # NoId /\ nameMap'[cur'[u].name] = cur'[u].id
  <2> SUFFICES ASSUME NEW u \in Threads, pc'[u] \in {"removed", "dequeue", "unlist", "forget"}
               PROVE  cur'[u].id # NoId /\ nameMap'[cur'[u].name] = cur'[u].id
    OBVIOUS
  <2>1. CASE pc'[u] \in Removing
    BY <1>1, <2>1 DEF TableInv, Removing
  <2>2. CASE pc'[u] \in {"unlist", "forget"}
    BY <1>1, <2>2, Labels DEF TableInv, Calm
  <2>3. QED
    BY <2>1, <2>2 DEF Removing
<1>5. \A u \in Threads : pc'[u] \in {"unlist", "forget"} =>
        cur'[u].id <= lastId' /\ cur'[u].id \notin QueueIds'
  BY <1>1, Labels DEF TableInv, Calm, QueueIds
<1>6. \A k \in DOMAIN queue' : queue'[k].id <= lastId'
  BY <1>1 DEF TableInv
<1>7. QED
  BY <1>1, <1>2, <1>3, <1>4, <1>5, <1>6 DEF TableInv, Created

\* A thread that leaves its call, without a change to the tables, disturbs nothing.
LEMMA ReturnKeeps ==
  ASSUME TypeOK, TableInv, NEW t \in Threads, NEW o, Return(t, o), UNCHANGED <<tables, lastId>>,
         pc[t] \notin Writing
  PROVE  TableInv'
<1>1. Calm
  BY ReturnIsCalm
<1>2. \A u \in Threads : pc'[u] = (IF u = t THEN "idle" ELSE pc[u])
                         /\ (u # t => cur'[u] = cur[u])
  BY DEF Return, Goto, TypeOK
<1>3. "idle" \notin Critical /\ "idle" \notin Created /\ "idle" \notin Removing
  BY Labels DEF Removing, Created
<1>4. ASSUME NEW u \in Threads, pc'[u] \in Critical PROVE lock' = u
  <2>1. u # t /\ pc[u] \in Critical
    BY <1>2, <1>3, <1>4
  <2>2. QED
    BY <2>1 DEF Return, TableInv
<1>5. QED
  BY <1>1, <1>2, <1>3, <1>4, CalmKeeps

\* A thread that goes on to a label of the same section keeps what it knew.
LEMMA GotoKeeps ==
  ASSUME TypeOK, TableInv, NEW t \in Threads, NEW label, Goto(t, label),
         UNCHANGED <<tables, lastId, lock, cur>>, pc[t] \notin Writing, label \notin Writing,
         label \in Critical => pc[t] \in Critical,
         label \in Created => pc[t] \in Created,
         label \in Removing => pc[t] \in Removing
  PROVE  TableInv'
<1>1. Calm
  BY GotoIsCalm
<1>2. \A u \in Threads : pc'[u] = (IF u = t THEN label ELSE pc[u])
  BY DEF Goto, TypeOK
<1>3. \A u \in Threads : pc'[u] \in Critical => lock' = u
  BY <1>2 DEF TableInv
<1>4. QED
  BY <1>1, <1>2, <1>3, CalmKeeps

\* So does a thread that begins a call.
LEMMA BeginKeeps ==
  ASSUME TypeOK, TableInv, NEW t \in Threads, NEW n \in Names, NEW w \in BOOLEAN,
         NEW label \in DOMAIN EntryPoint, Begin(t, n, w, label)
  PROVE  TableInv'
<1>1. Calm
  BY BeginIsCalm
<1>2. \A u \in Threads : pc'[u] = (IF u = t THEN label ELSE pc[u])
                         /\ (u # t => cur'[u] = cur[u])
  BY DEF Begin, Goto, TypeOK
<1>3. label \notin Critical /\ label \notin Created /\ label \notin Removing
  BY Labels DEF Removing, Created
<1>4. UNCHANGED <<lastId, lock>>
  BY DEF Begin
<1>5. QED
  BY <1>1, <1>2, <1>3, <1>4, CalmKeeps DEF TableInv

\* A step that leaves threads and tables alone.
LEMMA StutterKeeps ==
  ASSUME TableInv, UNCHANGED <<tables, lastId, lock, cur, pc>>
  PROVE  TableInv'
BY CalmKeeps DEF Calm, TableInv

\* In a critical section a thread is alone; whatever it does, the others stay outside.
LEMMA Alone ==
  ASSUME TypeOK, TableInv, NEW t \in Threads, NEW label, Goto(t, label), pc[t] \in Critical
  PROVE  /\ pc'[t] = label
         /\ \A u \in Threads : u # t => pc'[u] = pc[u] /\ pc'[u] \notin Critical
<1>1. \A u \in Threads : pc'[u] = (IF u = t THEN label ELSE pc[u])
  BY DEF Goto, TypeOK
<1>2. QED
  BY <1>1, Exclusive

\* The entries of the queue, by name and id.
LEMMA QueueEntry ==
  ASSUME TypeOK, NEW k \in DOMAIN queue
  PROVE  /\ queue[k] \in Instance /\ queue[k].name \in Names /\ queue[k].id \in Nat
         /\ queue[k] = [name |-> queue[k].name, id |-> queue[k].id]
<1>1. queue[k] \in Instance
  BY ElementOfSeq, LenProperties DEF TypeOK
<1>2. QED
  BY <1>1 DEF Instance

\* The call of a thread names a container.
LEMMA CurType ==
  ASSUME TypeOK, NEW t \in Threads
  PROVE  cur[t].name \in Names /\ cur[t].id \in Nat /\ cur[t].wait \in BOOLEAN
BY DEF TypeOK, Call

\* The id given to a new container is younger than every registered one.
LEMMA CreateKeeps ==
  ASSUME TypeOK, TableInv, NEW t \in Threads, Create(t), Calm
  PROVE  TableInv'
<1>1. CreationOrder' /\ MapIsOfQueue'
  BY CalmKeepsTables
<1>2. pc[t] = "create" /\ pc[t] \in Critical /\ Goto(t, "start")
  BY Labels DEF Create
<1>3. pc'[t] = "start" /\ \A u \in Threads : u # t => pc'[u] = pc[u] /\ pc'[u] \notin Critical
  BY <1>2, Alone
<1>4. lastId \in Nat /\ lastId' = lastId + 1 /\ UNCHANGED <<queue, nameMap, lock>>
  BY DEF Create, TypeOK, tables
<1>5. \A k \in DOMAIN queue : queue[k].id \in Nat /\ queue[k].id < lastId'
  BY <1>4, QueueEntry DEF TableInv
<1>6. cur'[t].id = lastId' /\ lastId' # NoId
  BY <1>4 DEF Create, TypeOK, Call, NoId
<1>7. lock' = t
  BY <1>2, <1>4 DEF TableInv
<1>8. \A u \in Threads : pc'[u] \in Critical => u = t
  BY <1>3
<1>9. QED
  BY <1>1, <1>3, <1>4, <1>5, <1>6, <1>7, <1>8, Labels DEF TableInv

\* Ids are given in the order of the queue, so that an id stands for one entry.
LEMMA IdsDiffer ==
  ASSUME TypeOK, TableInv, NEW i \in DOMAIN queue, NEW j \in DOMAIN queue, queue[i].id = queue[j].id
  PROVE  i = j
<1>1. i \in Nat /\ j \in Nat
  BY LenProperties DEF TypeOK
<1>2. ~(i < j) /\ ~(j < i)
  BY QueueEntry DEF TableInv, CreationOrder
<1>3. QED
  BY <1>1, <1>2

\* The first write of a registration appends the youngest container.
LEMMA AppendKeeps ==
  ASSUME TypeOK, TableInv, NEW t \in Threads, AppendToQueue(t)
  PROVE  TableInv'
<1> DEFINE n == cur[t].name
           e == [name |-> n, id |-> cur[t].id]
<1>1. /\ pc[t] = "append" /\ pc[t] \in Critical /\ Goto(t, "enter") /\ queue' = Append(queue, e)
      /\ UNCHANGED <<nameMap, lastId, lock, cur>>
  BY Labels DEF AppendToQueue
<1>2. cur[t].id = lastId /\ lastId # NoId /\ \A k \in DOMAIN queue : queue[k].id < lastId
  BY <1>1 DEF TableInv
<1>3. pc'[t] = "enter" /\ \A u \in Threads : u # t => pc'[u] = pc[u] /\ pc'[u] \notin Critical
  BY <1>1, Alone
<1>4. n \in Names /\ e \in Instance /\ e.name = n /\ e.id = lastId
  BY <1>2, CurType DEF Instance
<1>5. /\ Len(queue) \in Nat /\ DOMAIN queue = 1..Len(queue)
      /\ DOMAIN queue' = 1..(Len(queue) + 1)
      /\ \A k \in 1..Len(queue) : queue'[k] = queue[k]
      /\ queue'[Len(queue) + 1] = e
  BY <1>1, <1>4, AppendProperties, LenProperties DEF TypeOK
<1>6. lastId \in Nat /\ \A k \in DOMAIN queue : queue[k].id \in Nat
  BY QueueEntry DEF TypeOK
<1>7. \A k \in DOMAIN queue' : k = Len(queue) + 1 \/ (k \in DOMAIN queue /\ queue'[k] = queue[k])
  BY <1>5
<1>8. e \in ToSet(queue')
  BY <1>5 DEF ToSet
<1>9. \A u \in Threads : pc[u] \notin Writing
  BY <1>1, Exclusive, Labels
<1> HIDE DEF e
<1>10. CreationOrder'
  <2> SUFFICES ASSUME NEW i \in DOMAIN queue', NEW j \in DOMAIN queue', i < j
               PROVE  queue'[i].id < queue'[j].id
    BY DEF CreationOrder
  <2>1. CASE j = Len(queue) + 1
    <3>1. i \in 1..Len(queue) /\ queue'[i] = queue[i] /\ queue'[j] = e
      BY <1>5, <2>1
    <3>2. QED
      BY <1>2, <1>4, <1>5, <3>1
  <2>2. CASE j # Len(queue) + 1
    <3>1. /\ i \in 1..Len(queue) /\ j \in 1..Len(queue)
          /\ queue'[i] = queue[i] /\ queue'[j] = queue[j]
      BY <1>5, <2>2
    <3>2. QED
      BY <1>5, <3>1 DEF TableInv, CreationOrder
  <2>3. QED
    BY <2>1, <2>2
<1>11. MapInQueue'
  <2> SUFFICES ASSUME NEW m \in Names, nameMap[m] # NoId
               PROVE  [name |-> m, id |-> nameMap[m]] \in ToSet(queue')
    BY <1>1 DEF MapInQueue
  <2>1. ~At({"unlist", "forget"}, m, nameMap[m])
    BY <1>9, Labels DEF At
  <2>2. PICK k \in DOMAIN queue : queue[k] = [name |-> m, id |-> nameMap[m]]
    BY <2>1 DEF TableInv, MapIsOfQueue, MapInQueue, ToSet
  <2>3. k \in DOMAIN queue' /\ queue'[k] = queue[k]
    BY <1>5
  <2>4. QED
    BY <2>2, <2>3 DEF ToSet
<1>12. MapLeadsToYoungest'
  <2> SUFFICES ASSUME NEW k \in DOMAIN queue'
               PROVE  \/ nameMap'[queue'[k].name] = NoId
                      \/ nameMap'[queue'[k].name] >= queue'[k].id
                      \/ \E u \in Threads : pc'[u] \in {"enter"} /\ cur'[u].name = queue'[k].name
                                            /\ cur'[u].id = queue'[k].id
    BY DEF MapLeadsToYoungest, At
  <2>1. CASE k = Len(queue) + 1
    <3>1. queue'[k].name = cur'[t].name /\ queue'[k].id = cur'[t].id
      BY <1>1, <1>2, <1>4, <1>5, <2>1
    <3>2. QED
      BY <1>3, <3>1
  <2>2. CASE k \in DOMAIN queue /\ queue'[k] = queue[k]
    <3>1. ~At({"enter"}, queue[k].name, queue[k].id)
      BY <1>9, Labels DEF At
    <3>2. QED
      BY <1>1, <2>2, <3>1 DEF TableInv, MapIsOfQueue, MapLeadsToYoungest
  <2>3. QED
    BY <1>7, <2>1, <2>2
<1>13. \A k \in DOMAIN queue' : queue'[k].id <= lastId'
  <2> SUFFICES ASSUME NEW k \in DOMAIN queue' PROVE queue'[k].id <= lastId
    BY <1>1
  <2>1. CASE k = Len(queue) + 1
    BY <1>4, <1>5, <1>6, <2>1
  <2>2. CASE k \in DOMAIN queue /\ queue'[k] = queue[k]
    BY <1>2, <1>6, <2>2
  <2>3. QED
    BY <1>7, <2>1, <2>2
<1>14. [name |-> cur'[t].name, id |-> cur'[t].id] \in ToSet(queue')
  BY <1>1, <1>8 DEF e
<1>15. \A u \in Threads : pc'[u] \in Critical => u = t
  BY <1>3
<1>16. lock' = t
  BY <1>1 DEF TableInv
<1>17. QED
  BY <1>1, <1>2, <1>3, <1>10, <1>11, <1>12, <1>13, <1>14, <1>15, <1>16, Labels DEF TableInv, MapIsOfQueue

\* The second makes the map lead to it.
LEMMA EnterKeeps ==
  ASSUME TypeOK, TableInv, NEW t \in Threads, EnterInMap(t)
  PROVE  TableInv'
<1> DEFINE n == cur[t].name
<1>1. /\ pc[t] = "enter" /\ pc[t] \in Critical /\ Goto(t, "show")
      /\ nameMap' = [nameMap EXCEPT ![n] = cur[t].id]
      /\ UNCHANGED <<queue, lastId, lock, cur>>
  BY Labels DEF EnterInMap
<1>2. cur[t].id = lastId /\ lastId # NoId /\ [name |-> n, id |-> cur[t].id] \in ToSet(queue)
  BY <1>1 DEF TableInv
<1>3. pc'[t] = "show" /\ \A u \in Threads : u # t => pc'[u] = pc[u] /\ pc'[u] \notin Critical
  BY <1>1, Alone
<1>4. n \in Names /\ \A m \in Names : nameMap'[m] = IF m = n THEN cur[t].id ELSE nameMap[m]
  BY <1>1, CurType DEF TypeOK
<1>5. \A u \in Threads : pc[u] \notin Leaving
  BY <1>1, Exclusive, Labels DEF Leaving
<1> HIDE DEF n
<1>6. MapInQueue'
  <2> SUFFICES ASSUME NEW m \in Names, nameMap'[m] # NoId
               PROVE  [name |-> m, id |-> nameMap'[m]] \in ToSet(queue)
    BY <1>1 DEF MapInQueue
  <2>1. CASE m = n
    BY <1>2, <1>4, <2>1
  <2>2. CASE m # n
    <3>1. nameMap'[m] = nameMap[m] /\ ~At({"unlist", "forget"}, m, nameMap[m])
      BY <1>4, <1>5, <2>2 DEF At, Leaving
    <3>2. QED
      BY <3>1 DEF TableInv, MapIsOfQueue, MapInQueue
  <2>3. QED
    BY <2>1, <2>2
<1>7. MapLeadsToYoungest'
  <2> SUFFICES ASSUME NEW k \in DOMAIN queue
               PROVE  \/ nameMap'[queue[k].name] = NoId
                      \/ nameMap'[queue[k].name] >= queue[k].id
    BY <1>1 DEF MapLeadsToYoungest
  <2>1. queue[k].name \in Names /\ queue[k].id \in Nat /\ queue[k].id <= lastId /\ lastId \in Nat
    BY QueueEntry DEF TableInv, TypeOK
  <2>2. CASE queue[k].name = n
    BY <1>2, <1>4, <2>1, <2>2
  <2>3. CASE queue[k].name # n
    <3>1. ~At({"enter"}, queue[k].name, queue[k].id)
      BY <1>1, <2>3, Exclusive, Labels DEF At, n
    <3>2. QED
      BY <1>4, <2>1, <2>3, <3>1 DEF TableInv, MapIsOfQueue, MapLeadsToYoungest
  <2>4. QED
    BY <2>2, <2>3
<1>8. CreationOrder' /\ \A k \in DOMAIN queue' : queue'[k].id <= lastId'
  BY <1>1 DEF TableInv, CreationOrder
<1>9. [name |-> cur'[t].name, id |-> cur'[t].id] \in ToSet(queue') /\ nameMap'[cur'[t].name] = cur'[t].id
  BY <1>1, <1>2, <1>4 DEF n
<1>10. \A u \in Threads : pc'[u] \in Critical => u = t
  BY <1>3
<1>11. lock' = t
  BY <1>1 DEF TableInv
<1>12. QED
  BY <1>1, <1>2, <1>3, <1>6, <1>7, <1>8, <1>9, <1>10, <1>11, Labels DEF TableInv, MapIsOfQueue

\* After a return nobody is in a critical section.
LEMMA ReturnFrees ==
  ASSUME TypeOK, TableInv, NEW t \in Threads, NEW o, Return(t, o), pc[t] \in Critical
  PROVE  \A u \in Threads : pc'[u] \notin Critical
<1>1. \A u \in Threads : pc'[u] = (IF u = t THEN "idle" ELSE pc[u])
  BY DEF Return, Goto, TypeOK
<1>2. QED
  BY <1>1, Exclusive, Labels

\* The third does not concern queue and map.
LEMMA ShowKeeps ==
  ASSUME TypeOK, TableInv, NEW t \in Threads, ShowInList(t)
  PROVE  TableInv'
<1>1. pc[t] = "show" /\ pc[t] \in Critical /\ Return(t, "ok") /\ UNCHANGED <<queue, nameMap, lastId>>
  BY Labels DEF ShowInList
<1>2. \A u \in Threads : pc'[u] \notin Critical
  BY <1>1, ReturnFrees
<1>3. \A u \in Threads : pc[u] \notin {"enter", "unlist", "forget"}
  BY <1>1, Exclusive, Labels
<1>4. MapInQueue'
  BY <1>1, <1>3 DEF TableInv, MapIsOfQueue, MapInQueue, At
<1>5. MapLeadsToYoungest'
  BY <1>1, <1>3 DEF TableInv, MapIsOfQueue, MapLeadsToYoungest, At
<1>6. CreationOrder' /\ \A k \in DOMAIN queue' : queue'[k].id <= lastId'
  BY <1>1 DEF TableInv, CreationOrder
<1>7. QED
  BY <1>2, <1>4, <1>5, <1>6, Labels DEF TableInv, MapIsOfQueue

\* What the holder of the lock is about to take out is in the queue.
LEMMA RemovedIsThere ==
  ASSUME TypeOK, TableInv, NEW t \in Threads, pc[t] \in Removing
  PROVE  /\ cur[t].name \in Names /\ cur[t].id \in Nat
         /\ [name |-> cur[t].name, id |-> cur[t].id] \in ToSet(queue)
         /\ \E a \in DOMAIN queue : queue[a] = [name |-> cur[t].name, id |-> cur[t].id]
<1>1. cur[t].id # NoId /\ nameMap[cur[t].name] = cur[t].id
  BY DEF TableInv, Removing
<1>2. \A u \in Threads : pc[u] \notin {"unlist", "forget"}
  BY Exclusive, Labels DEF Removing
<1>3. [name |-> cur[t].name, id |-> cur[t].id] \in ToSet(queue)
  BY <1>1, <1>2, CurType DEF TableInv, MapIsOfQueue, MapInQueue, At
<1>4. QED
  BY <1>3, CurType DEF ToSet

\* The first write of a removal takes one entry out: the others keep their order.
LEMMA Dequeued ==
  ASSUME TypeOK, TableInv, NEW t \in Threads, RemoveFromQueue(t)
  PROVE  LET e == [name |-> cur[t].name, id |-> cur[t].id] IN
         /\ queue \in Seq(Instance) /\ \E i \in 1..Len(queue) : queue[i] = e
         /\ \A x \in ToSet(queue) : x # e => x \in ToSet(queue')
         /\ ToSet(queue') \subseteq ToSet(queue)
         /\ e \notin ToSet(queue')
         /\ \A k \in DOMAIN queue' : \E a \in DOMAIN queue : queue'[k] = queue[a] /\ queue[a] # e
                                                             /\ queue[a].id # cur[t].id
<1> DEFINE e == [name |-> cur[t].name, id |-> cur[t].id]
<1>1. pc[t] \in Removing /\ queue' = RemoveFirst(queue, e)
  BY DEF RemoveFromQueue, Removing
<1>2. queue \in Seq(Instance) /\ \E i \in 1..Len(queue) : queue[i] = e
  BY <1>1, RemovedIsThere, LenProperties DEF TypeOK
<1>3. \A i, j \in 1..Len(queue) : queue[i] = queue[j] => i = j
  BY <1>2, IdsDiffer, LenProperties
<1>4. /\ \A x \in ToSet(queue) : x # e => x \in ToSet(queue')
      /\ ToSet(queue') \subseteq ToSet(queue)
      /\ e \notin ToSet(queue')
  BY <1>1, <1>2, <1>3, RemoveFirstProperties, RemoveFirstLast
<1>5. PICK b \in DOMAIN queue : queue[b] = e
  BY <1>1, RemovedIsThere
<1>6. ASSUME NEW k \in DOMAIN queue'
      PROVE  \E a \in DOMAIN queue : queue'[k] = queue[a] /\ queue[a] # e /\ queue[a].id # cur[t].id
  <2>1. queue'[k] \in ToSet(queue')
    BY DEF ToSet
  <2>2. queue'[k] \in ToSet(queue) /\ queue'[k] # e
    BY <1>4, <2>1
  <2>3. PICK a \in DOMAIN queue : queue'[k] = queue[a]
    BY <2>2 DEF ToSet
  <2>4. queue[b].id = cur[t].id
    BY <1>5
  <2>5. a # b
    BY <1>5, <2>2, <2>3
  <2>6. QED
    BY <2>2, <2>3, <2>4, <2>5, IdsDiffer
<1>7. QED
  BY <1>2, <1>4, <1>6

LEMMA DequeueKeeps ==
  ASSUME TypeOK, TableInv, NEW t \in Threads, RemoveFromQueue(t)
  PROVE  TableInv'
<1> DEFINE n == cur[t].name
           e == [name |-> n, id |-> cur[t].id]
<1>1. /\ pc[t] = "dequeue" /\ pc[t] \in Critical /\ Goto(t, "unlist")
      /\ queue' = RemoveFirst(queue, e) /\ UNCHANGED <<nameMap, lastId, lock, cur>>
  BY Labels DEF RemoveFromQueue
<1>2. n \in Names /\ cur[t].id # NoId /\ nameMap[n] = cur[t].id
  BY <1>1, CurType DEF TableInv
<1>3. pc'[t] = "unlist" /\ \A u \in Threads : u # t => pc'[u] = pc[u] /\ pc'[u] \notin Critical
  BY <1>1, Alone
<1>4. /\ queue \in Seq(Instance) /\ \E i \in 1..Len(queue) : queue[i] = e
      /\ \A x \in ToSet(queue) : x # e => x \in ToSet(queue')
      /\ \A k \in DOMAIN queue' : \E a \in DOMAIN queue : queue'[k] = queue[a] /\ queue[a].id # cur[t].id
  BY Dequeued
<1>5. \A u \in Threads : pc[u] \notin Writing
  BY <1>1, Exclusive, Labels
<1>6. CreationOrder'
  <2> SUFFICES ASSUME NEW i \in DOMAIN queue', NEW j \in DOMAIN queue', i < j
               PROVE  queue'[i].id < queue'[j].id
    BY DEF CreationOrder
  <2> HIDE DEF e
  <2>1. PICK a \in DOMAIN queue, b \in DOMAIN queue :
               a < b /\ queue'[i] = queue[a] /\ queue'[j] = queue[b]
    BY <1>1, <1>4, RemoveFirstOrder
  <2>2. QED
    BY <2>1 DEF TableInv, CreationOrder
<1>7. MapInQueue'
  <2> SUFFICES ASSUME NEW m \in Names, nameMap[m] # NoId
               PROVE  \/ [name |-> m, id |-> nameMap[m]] \in ToSet(queue')
                      \/ \E u \in Threads : pc'[u] \in {"unlist", "forget"} /\ cur'[u].name = m
                                            /\ cur'[u].id = nameMap[m]
    BY <1>1 DEF MapInQueue, At
  <2>1. CASE m = n
    BY <1>1, <1>2, <1>3, <2>1
  <2>2. CASE m # n
    <3>1. [name |-> m, id |-> nameMap[m]] \in ToSet(queue)
      BY <1>5, Labels DEF TableInv, MapIsOfQueue, MapInQueue, At
    <3>2. [name |-> m, id |-> nameMap[m]] # e
      BY <2>2
    <3>3. QED
      BY <1>4, <3>1, <3>2
  <2>3. QED
    BY <2>1, <2>2
<1>8. MapLeadsToYoungest'
  <2> SUFFICES ASSUME NEW k \in DOMAIN queue'
               PROVE  \/ nameMap[queue'[k].name] = NoId
                      \/ nameMap[queue'[k].name] >= queue'[k].id
    BY <1>1 DEF MapLeadsToYoungest
  <2>1. PICK a \in DOMAIN queue : queue'[k] = queue[a]
    BY <1>4
  <2>2. ~At({"enter"}, queue[a].name, queue[a].id)
    BY <1>5, Labels DEF At
  <2>3. QED
    BY <2>1, <2>2 DEF TableInv, MapIsOfQueue, MapLeadsToYoungest
<1>9. \A k \in DOMAIN queue' : queue'[k].id <= lastId'
  <2> SUFFICES ASSUME NEW k \in DOMAIN queue' PROVE queue'[k].id <= lastId
    BY <1>1
  <2>1. PICK a \in DOMAIN queue : queue'[k] = queue[a]
    BY <1>4
  <2>2. QED
    BY <2>1 DEF TableInv
<1>10. cur'[t].id <= lastId' /\ cur'[t].id \notin QueueIds'
  <2>1. cur[t].id <= lastId
    <3>1. PICK a \in DOMAIN queue : queue[a] = e
      BY <1>1, RemovedIsThere DEF Removing
    <3>2. QED
      BY <3>1 DEF TableInv
  <2>2. \A k \in DOMAIN queue' : queue'[k].id # cur[t].id
    BY <1>4
  <2>3. QED
    BY <1>1, <2>1, <2>2 DEF QueueIds
<1>11. \A u \in Threads : pc'[u] \in Critical => u = t
  BY <1>3
<1>12. lock' = t /\ cur'[t].id # NoId /\ nameMap'[cur'[t].name] = cur'[t].id
  BY <1>1, <1>2 DEF TableInv
<1>13. QED
  BY <1>3, <1>6, <1>7, <1>8, <1>9, <1>10, <1>11, <1>12, Labels DEF TableInv, MapIsOfQueue

\* The second does not concern queue and map.
LEMMA UnlistKeeps ==
  ASSUME TypeOK, TableInv, NEW t \in Threads, RemoveFromList(t)
  PROVE  TableInv'
<1>1. /\ pc[t] = "unlist" /\ pc[t] \in Critical /\ Goto(t, "forget")
      /\ UNCHANGED <<queue, nameMap, lastId, lock, cur>>
  BY Labels DEF RemoveFromList
<1>2. pc'[t] = "forget" /\ \A u \in Threads : u # t => pc'[u] = pc[u] /\ pc'[u] \notin Critical
  BY <1>1, Alone
<1>3. \A u \in Threads : pc[u] \in {"unlist", "forget"} => pc'[u] \in {"unlist", "forget"}
  BY <1>1, <1>2
<1>4. \A u \in Threads : pc[u] # "enter"
  BY <1>1, Exclusive, Labels
<1>5. MapInQueue'
  <2> SUFFICES ASSUME NEW m \in Names, nameMap[m] # NoId
               PROVE  \/ [name |-> m, id |-> nameMap[m]] \in ToSet(queue)
                      \/ \E u \in Threads : pc'[u] \in {"unlist", "forget"} /\ cur'[u].name = m
                                            /\ cur'[u].id = nameMap[m]
    BY <1>1 DEF MapInQueue, At
  <2>1. \/ [name |-> m, id |-> nameMap[m]] \in ToSet(queue)
        \/ At({"unlist", "forget"}, m, nameMap[m])
    BY DEF TableInv, MapIsOfQueue, MapInQueue
  <2>2. QED
    BY <1>1, <1>3, <2>1 DEF At
<1>6. MapLeadsToYoungest'
  <2> SUFFICES ASSUME NEW k \in DOMAIN queue
               PROVE  nameMap[queue[k].name] = NoId \/ nameMap[queue[k].name] >= queue[k].id
    BY <1>1 DEF MapLeadsToYoungest
  <2>1. ~At({"enter"}, queue[k].name, queue[k].id)
    BY <1>4 DEF At
  <2>2. QED
    BY <2>1 DEF TableInv, MapIsOfQueue, MapLeadsToYoungest
<1>7. CreationOrder' /\ \A k \in DOMAIN queue' : queue'[k].id <= lastId'
  BY <1>1 DEF TableInv, CreationOrder
<1>8. /\ cur'[t].id # NoId /\ nameMap'[cur'[t].name] = cur'[t].id
      /\ cur'[t].id <= lastId' /\ cur'[t].id \notin QueueIds' /\ lock' = t
  BY <1>1 DEF TableInv, QueueIds
<1>9. \A u \in Threads : pc'[u] \in Critical => u = t
  BY <1>2
<1>10. QED
  BY <1>2, <1>5, <1>6, <1>7, <1>8, <1>9, Labels DEF TableInv, MapIsOfQueue

\* The third makes the map forget what the queue has forgotten.
LEMMA ForgetKeeps ==
  ASSUME TypeOK, TableInv, NEW t \in Threads, DeleteFromMap(t)
  PROVE  TableInv'
<1> DEFINE n == cur[t].name
<1>1. /\ pc[t] = "forget" /\ pc[t] \in Critical /\ Return(t, "ok")
      /\ nameMap' = [nameMap EXCEPT ![n] = NoId] /\ UNCHANGED <<queue, lastId>>
  BY Labels DEF DeleteFromMap
<1>2. \A u \in Threads : pc'[u] \notin Critical
  BY <1>1, ReturnFrees
<1>3. n \in Names /\ \A m \in Names : nameMap'[m] = IF m = n THEN NoId ELSE nameMap[m]
  BY <1>1, CurType DEF TypeOK
<1>4. \A u \in Threads : u # t => pc[u] \notin Writing
  BY <1>1, Exclusive, Labels
<1>5. MapInQueue'
  <2> SUFFICES ASSUME NEW m \in Names, nameMap'[m] # NoId
               PROVE  [name |-> m, id |-> nameMap'[m]] \in ToSet(queue)
    BY <1>1 DEF MapInQueue
  <2>1. m # n /\ nameMap'[m] = nameMap[m]
    BY <1>3
  <2>2. ~At({"unlist", "forget"}, m, nameMap[m])
    BY <1>4, <2>1, Labels DEF At
  <2>3. QED
    BY <2>1, <2>2 DEF TableInv, MapIsOfQueue, MapInQueue
<1>6. MapLeadsToYoungest'
  <2> SUFFICES ASSUME NEW k \in DOMAIN queue
               PROVE  \/ nameMap'[queue[k].name] = NoId
                      \/ nameMap'[queue[k].name] >= queue[k].id
    BY <1>1 DEF MapLeadsToYoungest
  <2>1. ~At({"enter"}, queue[k].name, queue[k].id)
    BY <1>1, <1>4, Labels DEF At
  <2>2. QED
    BY <1>3, <2>1, QueueEntry DEF TableInv, MapIsOfQueue, MapLeadsToYoungest
<1>7. CreationOrder' /\ \A k \in DOMAIN queue' : queue'[k].id <= lastId'
  BY <1>1 DEF TableInv, CreationOrder
<1>8. QED
  BY <1>2, <1>5, <1>6, <1>7, Labels DEF TableInv, MapIsOfQueue

\* The lookup of a removal notes the id that the map holds.
LEMMA LookupKeeps ==
  ASSUME TypeOK, TableInv, NEW t \in Threads, Lookup(t), Calm
  PROVE  TableInv'
<1> DEFINE n == cur[t].name
           label == IF cur[t].wait THEN "removed" ELSE "dequeue"
<1>1. /\ pc[t] = "lookup" /\ pc[t] \in Critical /\ nameMap[n] # NoId
      /\ UNCHANGED <<queue, nameMap, lastId, lock>>
      /\ cur' = [cur EXCEPT ![t].id = nameMap[n]] /\ Goto(t, label)
  BY Labels DEF Lookup, tables
<1>2. CreationOrder' /\ MapIsOfQueue'
  BY CalmKeepsTables
<1>3. cur'[t].id = nameMap[n] /\ cur'[t].name = n
  BY <1>1 DEF TypeOK, Call
<1>4. pc'[t] \in {"removed", "dequeue"}
      /\ \A u \in Threads : u # t => pc'[u] = pc[u] /\ pc'[u] \notin Critical
  BY <1>1, Alone
<1>5. lock' = t /\ \A k \in DOMAIN queue' : queue'[k].id <= lastId'
  BY <1>1 DEF TableInv
<1>6. \A u \in Threads : pc'[u] \in Critical => u = t
  BY <1>4
<1>7. QED
  BY <1>1, <1>2, <1>3, <1>4, <1>5, <1>6, Labels DEF TableInv

\* A thread gets the lock only when it is free, so nobody is in a critical section.
LEMMA AcquireKeeps ==
  ASSUME TypeOK, TableInv, NEW t \in Threads, Acquire(t), Calm
  PROVE  TableInv'
<1>1. /\ pc[t] \in DOMAIN EntryPoint /\ lock = Free /\ lock' = t /\ Goto(t, EntryPoint[pc[t]])
      /\ UNCHANGED <<lastId, cur>>
  BY DEF Acquire
<1>2. \A u \in Threads : pc[u] \notin Critical
  BY <1>1 DEF TableInv, Free, Threads
<1>3. \A u \in Threads : pc'[u] = (IF u = t THEN EntryPoint[pc[t]] ELSE pc[u])
  BY <1>1 DEF Goto, TypeOK
<1>4. EntryPoint[pc[t]] \in {"create", "lookup", "find", "read"}
  BY <1>1, Labels
<1>5. EntryPoint[pc[t]] \notin Created /\ EntryPoint[pc[t]] \notin Removing
  BY <1>4 DEF Created, Removing
<1>6. QED
  BY <1>1, <1>2, <1>3, <1>5, CalmKeeps

\* monResourceStats is in no critical section.
LEMMA MonitorKeeps ==
  ASSUME TypeOK, TableInv, CallMonitor, Calm
  PROVE  TableInv'
<1>0. "main" \in Threads /\ UNCHANGED <<tables, lastId>> /\ pc["main"] = "idle"
  BY DEF CallMonitor, Threads
<1>1. \/ Return("main", "ValueError")
      \/ Goto("main", "mon") /\ UNCHANGED lock /\ \A u \in Threads : u # "main" => cur'[u] = cur[u]
  BY DEF CallMonitor, TypeOK
<1>2. CASE Return("main", "ValueError")
  BY <1>0, <1>2, ReturnKeeps, Labels
<1>3. CASE Goto("main", "mon") /\ UNCHANGED lock /\ \A u \in Threads : u # "main" => cur'[u] = cur[u]
  <2>1. \A u \in Threads : pc'[u] = (IF u = "main" THEN "mon" ELSE pc[u])
    BY <1>0, <1>3 DEF Goto, TypeOK
  <2>2. "mon" \notin Critical /\ "mon" \notin Created /\ "mon" \notin Removing
    BY Labels DEF Removing, Created
  <2>3. QED
    BY <1>0, <1>3, <2>1, <2>2, CalmKeeps DEF TableInv
<1>4. QED
  BY <1>1, <1>2, <1>3

\* do_DELETE has found the container and gives the lock back.
LEMMA FindKeeps ==
  ASSUME TypeOK, TableInv, NEW t \in Threads, Find(t), Calm
  PROVE  TableInv'
<1>1. UNCHANGED <<tables, lastId>> /\ pc[t] = "find" /\ pc[t] \in Critical
  BY Labels DEF Find
<1>2. CASE Return(t, "400")
  BY <1>1, <1>2, ReturnKeeps, Labels
<1>3. CASE Goto(t, "remove") /\ lock' = Free /\ UNCHANGED <<cur, outcome>>
  <2>1. pc'[t] = "remove" /\ \A u \in Threads : u # t => pc'[u] = pc[u] /\ pc'[u] \notin Critical
    BY <1>1, <1>3, Alone
  <2>2. \A u \in Threads : pc'[u] \notin Critical
    BY <2>1, Labels
  <2>3. \A l \in Created \cup Removing : l \in Critical
    BY Labels DEF Created, Removing
  <2>4. QED
    BY <1>1, <2>2, <2>3, CalmKeeps
<1>4. QED
  BY <1>2, <1>3 DEF Find

\* The critical sections keep the tables in order at every single write, whatever the daemon,
\* the users of the docker CLI and stop() do meanwhile.
THEOREM TablesCorrect == Spec => []TableInv
<1>1. Init => TableInv
  <2> SUFFICES ASSUME Init PROVE TableInv
    OBVIOUS
  <2>1. DOMAIN queue = {}
    BY EmptySeq DEF Init
  <2>2. \A t \in Threads : pc[t] \in {"idle", "off"}
    BY DEF Init, Threads
  <2>3. \A n \in Names : nameMap[n] = NoId
    BY DEF Init
  <2>4. QED
    BY <2>1, <2>2, <2>3, Labels DEF TableInv, CreationOrder, MapIsOfQueue, MapInQueue, MapLeadsToYoungest
<1>2. TypeOK /\ TableInv /\ [Next]_vars => TableInv'
  <2> SUFFICES ASSUME TypeOK, TableInv, [Next]_vars PROVE TableInv'
    OBVIOUS
  <2>a. "main" \in Threads /\ "httpd" \in Threads
    BY DEF Threads
  <2>1. ASSUME NEW t \in Threads, Writes(t) PROVE TableInv'
    BY <2>1, AppendKeeps, EnterKeeps, ShowKeeps, DequeueKeeps, UnlistKeeps, ForgetKeeps DEF Writes
  <2>2. ASSUME Calm PROVE TableInv'
    <3>1. ASSUME NEW t \in Threads, CallAdd(t) \/ CallList(t) PROVE TableInv'
      BY <3>1, BeginKeeps, Labels DEF CallAdd, CallList
    <3>2. CASE CallRemove \/ CallDelete
      BY <2>a, <3>2, BeginKeeps, Labels DEF CallRemove, CallDelete
    <3>3. ASSUME NEW t \in Threads,
                 UnknownHost(t) \/ CreateFails(t) \/ StartFails(t) \/ LookupFails(t) \/ Read(t)
          PROVE  TableInv'
      BY <3>3, ReturnKeeps, Labels DEF UnknownHost, CreateFails, StartFails, LookupFails, Read
    <3>4. ASSUME NEW t \in Threads, Start(t) \/ WaitExists(t) PROVE TableInv'
      <4>1. /\ UNCHANGED <<tables, lastId, lock, cur>> /\ pc[t] \in {"start", "exists"}
            /\ Goto(t, "exists") \/ Goto(t, "append") \/ Goto(t, "get")
        BY <3>4 DEF Start, WaitExists
      <4>2. QED
        BY <4>1, GotoKeeps, Labels DEF Created, Removing
    <3>5. ASSUME NEW t \in Threads, WaitGet(t) \/ WaitRunning(t) PROVE TableInv'
      <4>1. /\ UNCHANGED <<tables, lastId>> /\ pc[t] \in {"get", "running"}
            /\ \/ \E o : Return(t, o)
               \/ UNCHANGED <<lock, cur>> /\ (Goto(t, "append") \/ Goto(t, "running"))
        BY <3>5 DEF WaitGet, WaitRunning
      <4>2. QED
        BY <4>1, GotoKeeps, ReturnKeeps, Labels DEF Created, Removing
    <3>6. ASSUME NEW t \in Threads, WaitRemoved(t) PROVE TableInv'
      BY <3>6, GotoKeeps, Labels DEF WaitRemoved, Created, Removing
    <3>7. CASE Monitor \/ BadRequest
      BY <2>a, <3>7, ReturnKeeps, Labels DEF Monitor, BadRequest
    <3>8. CASE RunRESTServerThread
      BY <2>a, <3>8, GotoKeeps, Labels DEF RunRESTServerThread, Created, Removing
    <3>9. CASE CallStop \/ StopEnd
      <4>1. /\ UNCHANGED <<tables, lastId, lock, cur>> /\ pc["main"] \in {"idle", "stop"}
            /\ Goto("main", "stop") \/ Goto("main", "stopped")
        BY <3>9 DEF CallStop, StopEnd
      <4>2. QED
        BY <2>a, <4>1, GotoKeeps, Labels DEF Created, Removing
    <3>10. CASE StopRemove
      <4>1. /\ UNCHANGED <<tables, lastId>> /\ pc["main"] = "stop"
            /\ UNCHANGED <<lock, pc, cur>> \/ \E o : Return("main", o)
        BY <3>10 DEF StopRemove
      <4>2. QED
        BY <2>a, <4>1, ReturnKeeps, StutterKeeps, Labels
    <3>11. ASSUME NEW n \in Names, ContainerExits(n) \/ RemovalDone(n) \/ CliRemove(n) PROVE TableInv'
      BY <3>11, StutterKeeps DEF ContainerExits, RemovalDone, CliRemove
    <3>12. CASE UNCHANGED vars
      BY <3>12, StutterKeeps DEF vars
    <3>13. QED
      BY <2>1, <2>2, <3>1, <3>2, <3>3, <3>4, <3>5, <3>6, <3>7, <3>8, <3>9, <3>10, <3>11, <3>12,
         AcquireKeeps, CreateKeeps, LookupKeeps, MonitorKeeps, FindKeeps
      DEF Next, Thread, Add, RemoveContainer, MainOnly, HttpdOnly, Daemon, Writes
  <2>3. QED
    BY <2>1, <2>2, CalmSteps
<1>3. QED
  BY <1>1, <1>2, TypeCorrect, PTL DEF Spec

\* Containers are registered in the order of their creation, by any two threads.
THEOREM CreationOrderHolds == Spec => []CreationOrder
<1>1. TableInv => CreationOrder
  BY DEF TableInv
<1>2. QED
  BY <1>1, TablesCorrect, PTL

\* The fast map leads to the youngest container of a name in the queue, or to the one that is
\* leaving it.
THEOREM MapIsOfQueueHolds == Spec => []MapIsOfQueue
<1>1. TableInv => MapIsOfQueue
  BY DEF TableInv
<1>2. QED
  BY <1>1, TablesCorrect, PTL

\* Only the first write of a registration and of a removal touch the queue.
LEMMA QueueSteps ==
  ASSUME TypeOK, [Next]_vars, queue' # queue
  PROVE  \E t \in Threads : AppendToQueue(t) \/ RemoveFromQueue(t)
<1>1. ~Calm
  BY DEF Calm, tables
<1>2. PICK t \in Threads : Writes(t)
  BY <1>1, CalmSteps
<1>3. QED
  BY <1>2 DEF Writes, EnterInMap, ShowInList, RemoveFromList, DeleteFromMap

\* addContainer registers, at the end of the queue, the container that it created itself.
THEOREM RegisteredOnceHolds == Spec => RegisteredOnce
<1>1. TypeOK /\ TableInv /\ [Next]_vars => [AppendsYoungest]_vars
  <2> SUFFICES ASSUME TypeOK, TableInv, [Next]_vars,
                      NEW k \in DOMAIN queue', queue'[k].id \notin QueueIds
               PROVE  queue'[k].id = lastId /\ k = Len(queue')
    BY DEF AppendsYoungest
  <2>1. queue' # queue
    BY DEF QueueIds
  <2>2. PICK t \in Threads : AppendToQueue(t) \/ RemoveFromQueue(t)
    BY <2>1, QueueSteps
  <2>3. CASE AppendToQueue(t)
    <3> DEFINE e == [name |-> cur[t].name, id |-> cur[t].id]
    <3>1. queue' = Append(queue, e) /\ pc[t] = "append"
      BY <2>3 DEF AppendToQueue
    <3>2. e \in Instance /\ e.id = lastId
      BY <3>1, CurType DEF TableInv, Instance
    <3>3. /\ Len(queue) \in Nat /\ DOMAIN queue = 1..Len(queue)
          /\ DOMAIN queue' = 1..(Len(queue) + 1) /\ Len(queue') = Len(queue) + 1
          /\ \A i \in 1..Len(queue) : queue'[i] = queue[i]
          /\ queue'[Len(queue) + 1] = e
      BY <3>1, <3>2, AppendProperties, LenProperties DEF TypeOK
    <3>4. k \notin 1..Len(queue)
      BY <3>3 DEF QueueIds
    <3>5. QED
      BY <3>2, <3>3, <3>4
  <2>4. CASE RemoveFromQueue(t)
    <3>1. PICK a \in DOMAIN queue : queue'[k] = queue[a]
      BY <2>4, Dequeued
    <3>2. QED
      BY <3>1 DEF QueueIds
  <2>5. QED
    BY <2>2, <2>3, <2>4
<1>2. QED
  BY <1>1, TypeCorrect, TablesCorrect, PTL DEF Spec, RegisteredOnce

----------------------------------------------------------------------------
\* The daemon.  What the tables say about it is inductive together with TypeOK and TableInv.

\* The daemon d has a container under this name, with this id, that nobody has begun to remove.
Up == {"created", "running", "exited"}
Held(d, n, i) == d[n].id = i /\ d[n].state \in Up

BeingRemoved(i) == \E t \in Threads : pc[t] \in Removing /\ cur[t].id = i

\* What a thread takes out of the tables is not held by the daemon any more, and gone if the
\* thread has waited for that.
RemovedIsLetGo ==
  \A t \in Threads :
    /\ pc[t] \in Removing \cup Leaving => ~Held(daemon, cur[t].name, cur[t].id)
    /\ pc[t] \in {"dequeue"} \cup Leaving /\ cur[t].wait => daemon[cur[t].name].state = "absent"

\* What monResourceStats samples is in the queue, or was removed and never comes back, as its
\* id is not given again.
SampleIsTracked ==
  LET c == cur["main"] IN
  pc["main"] = "mon" =>
    /\ c.id <= lastId
    /\ [name |-> c.name, id |-> c.id] \in ToSet(queue) \/ ~Held(daemon, c.name, c.id)

IdsAreGiven == lastId <= MaxId /\ \A k \in DOMAIN queue : queue[k].id # NoId

\* A name has one entry in the queue.  It is the one in the map, as soon as it is entered, and held
\* unless a thread is removing it.
NamesDiffer == \A j, k \in DOMAIN queue : queue[j].name = queue[k].name => j = k
EntriesAgree ==
  /\ NamesDiffer
  /\ \A k \in DOMAIN queue :
       LET c == queue[k] IN
       /\ nameMap[c.name] = c.id \/ At({"enter"}, c.name, c.id)
       /\ Held(daemon, c.name, c.id) \/ BeingRemoved(c.id)

\* What a thread has created and will register is held, and its name is not in the queue.
NewIsHeld ==
  \A t \in Threads : pc[t] \in Created =>
    cur[t].name \notin QueueNames /\ Held(daemon, cur[t].name, cur[t].id)

DaemonInv ==
  /\ RemovedIsLetGo
  /\ SampleIsTracked
  /\ IdsAreGiven
  /\ ~disturbed => EntriesAgree /\ NewIsHeld

\* A step by which no thread creates, writes to queue or map, or removes: the daemon gets no new
\* container, and loses none unless that is on record.
Quiet ==
  /\ UNCHANGED <<queue, nameMap, lastId>>
  /\ \A n \in Names : daemon[n].state = "absent" => daemon'[n].state = "absent"
  /\ \A n \in Names, i \in Nat : Held(daemon', n, i) => Held(daemon, n, i)
  /\ ~disturbed' => ~disturbed /\ \A n \in Names, i \in Nat : Held(daemon, n, i) => Held(daemon', n, i)
  /\ \A u \in Threads :
       /\ pc'[u] \in Removing <=> pc[u] \in Removing
       /\ pc'[u] \in Leaving => pc[u] \in Leaving
       /\ pc'[u] = "enter" <=> pc[u] = "enter"
       /\ pc'[u] \in Created => pc[u] \in Created
       /\ pc'[u] = "mon" => pc[u] = "mon"
       /\ pc'[u] \in Removing \cup Leaving \cup Created \cup {"mon", "enter"} => cur'[u] = cur[u]
       /\ pc'[u] = "dequeue" => pc[u] = "dequeue" \/ daemon[cur[u].name].state = "absent"

\* Such a step keeps all of it.
LEMMA QuietKeeps ==
  ASSUME TypeOK, DaemonInv, Quiet
  PROVE  DaemonInv'
<1>0. "main" \in Threads
  BY DEF Threads
<1>1. RemovedIsLetGo'
  <2> SUFFICES ASSUME NEW t \in Threads
               PROVE /\ pc'[t] \in Removing \cup Leaving => ~Held(daemon', cur'[t].name, cur'[t].id)
                     /\ pc'[t] \in {"dequeue"} \cup Leaving /\ cur'[t].wait
                          => daemon'[cur'[t].name].state = "absent"
    BY DEF RemovedIsLetGo
  <2>1. cur[t].name \in Names /\ cur[t].id \in Nat
    BY CurType
  <2>2. ASSUME pc'[t] \in Removing \cup Leaving PROVE ~Held(daemon', cur'[t].name, cur'[t].id)
    <3>1. pc[t] \in Removing \cup Leaving /\ cur'[t] = cur[t]
      BY <2>2 DEF Quiet
    <3>2. ~Held(daemon, cur[t].name, cur[t].id)
      BY <3>1 DEF DaemonInv, RemovedIsLetGo
    <3>3. ~Held(daemon', cur[t].name, cur[t].id)
      BY <2>1, <3>1, <3>2 DEF Quiet, Held
    <3>4. QED
      BY <3>1, <3>3 DEF Held
  <2>3. ASSUME pc'[t] \in {"dequeue"} \cup Leaving, cur'[t].wait
        PROVE  daemon'[cur'[t].name].state = "absent"
    <3>1. cur'[t] = cur[t]
      BY <2>3 DEF Quiet, Removing
    <3>2. \/ pc[t] \in {"dequeue"} \cup Leaving
          \/ daemon[cur[t].name].state = "absent"
      BY <2>3 DEF Quiet
    <3>3. daemon[cur[t].name].state = "absent"
      BY <2>3, <3>1, <3>2 DEF DaemonInv, RemovedIsLetGo
    <3>4. QED
      BY <2>1, <3>1, <3>3 DEF Quiet
  <2>4. QED
    BY <2>2, <2>3
<1>2. SampleIsTracked'
  <2> SUFFICES ASSUME pc'["main"] = "mon"
               PROVE LET c == cur'["main"] IN
                     /\ c.id <= lastId'
                     /\ [name |-> c.name, id |-> c.id] \in ToSet(queue') \/ ~Held(daemon', c.name, c.id)
    BY DEF SampleIsTracked, Held
  <2>1. pc["main"] = "mon" /\ cur'["main"] = cur["main"]
    BY <1>0 DEF Quiet
  <2>2. cur["main"].name \in Names /\ cur["main"].id \in Nat
    BY <1>0, CurType
  <2>3. QED
    BY <2>1, <2>2 DEF DaemonInv, SampleIsTracked, Quiet, Held
<1>3. IdsAreGiven'
  BY DEF DaemonInv, IdsAreGiven, Quiet
<1>4. ASSUME ~disturbed' PROVE EntriesAgree'
  <2> SUFFICES ASSUME NEW k \in DOMAIN queue'
               PROVE LET c == queue'[k] IN
                     /\ \/ nameMap'[c.name] = c.id
                        \/ \E t \in Threads : pc'[t] \in {"enter"} /\ cur'[t].name = c.name /\ cur'[t].id = c.id
                     /\ \/ Held(daemon', c.name, c.id)
                        \/ \E t \in Threads : pc'[t] \in Removing /\ cur'[t].id = c.id
    <3>1. NamesDiffer'
      BY <1>4 DEF DaemonInv, EntriesAgree, NamesDiffer, Quiet
    <3>2. QED
      BY <3>1 DEF EntriesAgree, Held, BeingRemoved, At
  <2>1. queue' = queue /\ nameMap' = nameMap /\ k \in DOMAIN queue
    BY DEF Quiet
  <2>2. queue[k].name \in Names /\ queue[k].id \in Nat
    BY <2>1, QueueEntry
  <2>3. /\ nameMap[queue[k].name] = queue[k].id \/ At({"enter"}, queue[k].name, queue[k].id)
        /\ Held(daemon, queue[k].name, queue[k].id) \/ BeingRemoved(queue[k].id)
    BY <1>4, <2>1 DEF DaemonInv, EntriesAgree, Quiet
  <2>4. ASSUME At({"enter"}, queue[k].name, queue[k].id)
        PROVE  \E t \in Threads : pc'[t] \in {"enter"} /\ cur'[t].name = queue[k].name /\ cur'[t].id = queue[k].id
    BY <2>4 DEF Quiet, At
  <2>5. ASSUME Held(daemon, queue[k].name, queue[k].id) PROVE Held(daemon', queue[k].name, queue[k].id)
    BY <1>4, <2>2, <2>5 DEF Quiet
  <2>6. ASSUME BeingRemoved(queue[k].id)
        PROVE  \E t \in Threads : pc'[t] \in Removing /\ cur'[t].id = queue[k].id
    BY <2>6 DEF Quiet, BeingRemoved
  <2>7. QED
    BY <2>1, <2>3, <2>4, <2>5, <2>6
<1>5. ASSUME ~disturbed' PROVE NewIsHeld'
  <2> SUFFICES ASSUME NEW t \in Threads, pc'[t] \in Created
               PROVE cur'[t].name \notin QueueNames' /\ Held(daemon', cur'[t].name, cur'[t].id)
    BY DEF NewIsHeld, Held
  <2>1. pc[t] \in Created /\ cur'[t] = cur[t] /\ queue' = queue /\ ~disturbed
    BY <1>5 DEF Quiet
  <2>2. cur[t].name \notin QueueNames /\ Held(daemon, cur[t].name, cur[t].id)
    BY <2>1 DEF DaemonInv, NewIsHeld
  <2>3. Held(daemon', cur[t].name, cur[t].id)
    BY <1>5, <2>1, <2>2, CurType DEF Quiet, Held
  <2>4. QED
    BY <2>1, <2>2, <2>3 DEF QueueNames, Held
<1>6. QED
  BY <1>1, <1>2, <1>3, <1>4, <1>5 DEF DaemonInv

\* A thread that leaves a call without removing, or moves on outside, touches nothing.
LEMMA ReturnIsQuiet ==
  ASSUME TypeOK, NEW t \in Threads, NEW o, Return(t, o), pc[t] \notin Removing \cup {"enter"},
         UNCHANGED <<queue, nameMap, lastId, daemon, disturbed>>
  PROVE  Quiet
<1>1. \A u \in Threads : pc'[u] = (IF u = t THEN "idle" ELSE pc[u])
                         /\ (u # t => cur'[u] = cur[u])
  BY DEF Return, Goto, TypeOK
<1>2. "idle" \notin Created /\ "idle" \notin Removing /\ "idle" \notin Leaving
  BY DEF Created, Removing, Leaving
<1>3. QED
  BY <1>1, <1>2 DEF Quiet

\* Nor does a thread that goes on to a label where it knows no more than before.
LEMMA GotoIsQuiet ==
  ASSUME TypeOK, NEW t \in Threads, NEW label, Goto(t, label),
         UNCHANGED <<queue, nameMap, lastId, daemon, disturbed, cur>>,
         label \in Created => pc[t] \in Created,
         label \in Removing <=> pc[t] \in Removing,
         label \in Leaving => pc[t] \in Leaving,
         label = "enter" <=> pc[t] = "enter",
         label # "mon",
         label = "dequeue" => daemon[cur[t].name].state = "absent"
  PROVE  Quiet
<1>1. \A u \in Threads : pc'[u] = (IF u = t THEN label ELSE pc[u])
  BY DEF Goto, TypeOK
<1>2. QED
  BY <1>1 DEF Quiet

\* Nor does a thread that begins a call.
LEMMA BeginIsQuiet ==
  ASSUME TypeOK, NEW t \in Threads, NEW n \in Names, NEW w \in BOOLEAN,
         NEW label \in DOMAIN EntryPoint, Begin(t, n, w, label)
  PROVE  Quiet
<1>1. \A u \in Threads : pc'[u] = (IF u = t THEN label ELSE pc[u])
                         /\ (u # t => cur'[u] = cur[u])
  BY DEF Begin, Goto, TypeOK
<1>2. label \notin Created \cup Removing \cup Leaving /\ label # "mon" /\ label # "enter" /\ label # "dequeue"
  BY Labels DEF Created, Removing, Leaving
<1>3. pc[t] \notin Removing /\ pc[t] # "enter"
  BY DEF Begin, Removing
<1>4. UNCHANGED <<queue, nameMap, lastId, daemon, disturbed>>
  BY DEF Begin, tables
<1>5. QED
  BY <1>1, <1>2, <1>3, <1>4 DEF Quiet

\* The daemon changes one container, by itself or because somebody asked for it.
LEMMA DaemonIsQuiet ==
  ASSUME TypeOK, NEW n \in Names, NEW d, daemon' = [daemon EXCEPT ![n] = d],
         UNCHANGED <<queue, nameMap, lastId, cur, pc>>,
         daemon[n].state = "absent" => d.state = "absent",
         d.state \in Up => d.id = daemon[n].id /\ daemon[n].state \in Up,
         ~disturbed' => ~disturbed /\ (daemon[n].state \in Up => d.state \in Up /\ d.id = daemon[n].id)
  PROVE  Quiet
<1>1. \A m \in Names : daemon'[m] = IF m = n THEN d ELSE daemon[m]
  BY DEF TypeOK
<1>2. QED
  BY <1>1 DEF Quiet, Held

\* In a critical section a thread knows that no other one creates or removes.
LEMMA OnlyOne ==
  ASSUME TableInv, NEW t \in Threads, pc[t] \in Critical, NEW u \in Threads, u # t
  PROVE  pc[u] \notin Created /\ pc[u] \notin Removing /\ pc[u] \notin Writing
BY Exclusive, Labels DEF Created, Removing

\* A container that is created is younger than all, and its name was in no entry.
LEMMA CreateIsKept ==
  ASSUME TypeOK, TableInv, DaemonInv, NEW t \in Threads, Create(t)
  PROVE  DaemonInv'
<1> DEFINE n == cur[t].name
<1>1. /\ pc[t] = "create" /\ daemon[n].state = "absent" /\ lastId < MaxId /\ lastId' = lastId + 1
      /\ daemon' = [daemon EXCEPT ![n] = [id |-> lastId + 1, state |-> "created"]]
      /\ cur' = [cur EXCEPT ![t].id = lastId + 1]
      /\ UNCHANGED <<queue, nameMap, disturbed>>
  BY DEF Create, tables
<1>2. \A u \in Threads : pc'[u] = (IF u = t THEN "start" ELSE pc[u])
                         /\ (u # t => cur'[u] = cur[u])
  BY DEF Create, Goto, TypeOK
<1>3. n \in Names /\ cur'[t].name = n /\ cur'[t].id = lastId + 1 /\ lastId \in Nat
  BY <1>1 DEF TypeOK, Call
<1>4. \A u \in Threads : pc'[u] \notin Removing \cup Leaving
  BY <1>1, <1>2, OnlyOne, Labels DEF Removing, Leaving
<1>5. \A u \in Threads : pc[u] \notin Removing /\ pc[u] \notin Writing
  BY <1>1, OnlyOne, Labels DEF Removing
<1>6. \A m \in Names : daemon'[m] = IF m = n THEN [id |-> lastId + 1, state |-> "created"] ELSE daemon[m]
  BY <1>1 DEF TypeOK
<1> HIDE DEF n
<1>7. RemovedIsLetGo'
  BY <1>4 DEF RemovedIsLetGo, Removing, Leaving
<1>8. SampleIsTracked'
  <2> DEFINE c == cur["main"]
  <2> SUFFICES ASSUME pc'["main"] = "mon"
               PROVE /\ cur'["main"].id <= lastId'
                     /\ \/ [name |-> cur'["main"].name, id |-> cur'["main"].id] \in ToSet(queue')
                        \/ ~Held(daemon', cur'["main"].name, cur'["main"].id)
    BY DEF SampleIsTracked
  <2>1. "main" \in Threads
    BY DEF Threads
  <2>2. pc["main"] = "mon" /\ cur'["main"] = c
    BY <1>2, <2>1
  <2>3. c.name \in Names /\ c.id \in Nat
    BY <2>1, CurType
  <2>4. c.id <= lastId /\ ([name |-> c.name, id |-> c.id] \in ToSet(queue) \/ ~Held(daemon, c.name, c.id))
    BY <2>2 DEF DaemonInv, SampleIsTracked
  <2> HIDE DEF c
  <2>5. c.name = n => ~Held(daemon', c.name, c.id)
    BY <1>3, <1>6, <2>3, <2>4 DEF Held
  <2>6. QED
    BY <1>1, <1>3, <1>6, <2>2, <2>3, <2>4, <2>5 DEF Held
<1>9. IdsAreGiven'
  BY <1>1, <1>3, ManagerAssumption DEF DaemonInv, IdsAreGiven
<1>10. ASSUME ~disturbed', NEW k \in DOMAIN queue
       PROVE  queue[k].name # n /\ nameMap[queue[k].name] = queue[k].id
              /\ Held(daemon', queue[k].name, queue[k].id)
  <2>1. nameMap[queue[k].name] = queue[k].id /\ Held(daemon, queue[k].name, queue[k].id)
    BY <1>1, <1>5, <1>10, Labels DEF DaemonInv, EntriesAgree, BeingRemoved, At
  <2>2. queue[k].name # n
    BY <1>1, <2>1 DEF Held, Up
  <2>3. QED
    BY <1>6, <2>1, <2>2, QueueEntry DEF Held
<1>11. ASSUME ~disturbed' PROVE EntriesAgree' /\ NewIsHeld'
  <2>1. EntriesAgree'
    BY <1>1, <1>10, <1>11 DEF EntriesAgree, NamesDiffer, DaemonInv
  <2>2. n \notin QueueNames'
    BY <1>1, <1>10, <1>11 DEF QueueNames
  <2>3. Held(daemon', n, lastId + 1)
    BY <1>3, <1>6 DEF Held, Up
  <2>4. \A u \in Threads : pc'[u] \in Created => u = t
    BY <1>1, <1>2, OnlyOne, Labels
  <2>5. QED
    BY <1>3, <2>1, <2>2, <2>3, <2>4 DEF NewIsHeld
<1>12. QED
  BY <1>7, <1>8, <1>9, <1>11 DEF DaemonInv

\* A container that starts is still the one that was created.
LEMMA StartIsQuiet ==
  ASSUME TypeOK, NEW t \in Threads, Start(t)
  PROVE  Quiet
<1> DEFINE n == cur[t].name
           label == IF cur[t].wait THEN "exists" ELSE "append"
<1>1. /\ pc[t] = "start" /\ daemon[n].state = "created" /\ Goto(t, label)
      /\ daemon' = [daemon EXCEPT ![n].state = "running"]
      /\ UNCHANGED <<queue, nameMap, lastId, cur, disturbed>>
  BY DEF Start, tables
<1>2. \A u \in Threads : pc'[u] = (IF u = t THEN label ELSE pc[u])
  BY <1>1 DEF Goto, TypeOK
<1>3. \A m \in Names : daemon'[m] = IF m = n THEN [daemon[n] EXCEPT !.state = "running"] ELSE daemon[m]
  BY <1>1 DEF TypeOK
<1>4. daemon[n] \in [id : Nat, state : {"absent", "created", "running", "exited", "removing"}]
  BY CurType DEF TypeOK
<1>5. \A m \in Names, i \in Nat : Held(daemon', m, i) <=> Held(daemon, m, i)
  BY <1>1, <1>3, <1>4 DEF Held, Up
<1>6. \A m \in Names : daemon[m].state = "absent" => daemon'[m].state = "absent"
  BY <1>1, <1>3
<1>7. /\ pc[t] \in Created /\ label \in Created /\ pc[t] \notin Removing /\ pc[t] # "enter"
      /\ label \notin Removing \cup Leaving \cup {"mon", "enter", "dequeue"}
  BY <1>1 DEF Created, Removing, Leaving
<1> HIDE DEF label, n
<1>8. QED
  BY <1>1, <1>2, <1>5, <1>6, <1>7 DEF Quiet

\* The entry that a registration appends is the container that was created, under a new name.
LEMMA AppendIsKept ==
  ASSUME TypeOK, TableInv, DaemonInv, NEW t \in Threads, AppendToQueue(t)
  PROVE  DaemonInv'
<1> DEFINE n == cur[t].name
           e == [name |-> n, id |-> cur[t].id]
<1>1. /\ pc[t] = "append" /\ Goto(t, "enter") /\ queue' = Append(queue, e)
      /\ UNCHANGED <<nameMap, cur, daemon, lastId, disturbed>>
  BY DEF AppendToQueue
<1>2. \A u \in Threads : pc'[u] = (IF u = t THEN "enter" ELSE pc[u])
  BY <1>1 DEF Goto, TypeOK
<1>3. pc[t] \in Created /\ pc[t] \in Critical
  BY <1>1, Labels DEF Created
<1>4. n \in Names /\ cur[t].id \in Nat /\ e \in Instance /\ cur[t].id # NoId
  BY <1>3, CurType DEF Instance, TableInv, Created
<1>5. /\ Len(queue) \in Nat /\ DOMAIN queue = 1..Len(queue)
      /\ DOMAIN queue' = 1..(Len(queue) + 1)
      /\ \A k \in 1..Len(queue) : queue'[k] = queue[k]
      /\ queue'[Len(queue) + 1] = e
  BY <1>1, <1>4, AppendProperties, LenProperties DEF TypeOK
<1>6. \A u \in Threads : /\ pc[u] \notin Removing /\ pc[u] \notin Writing
                         /\ pc'[u] \notin Removing \cup Leaving
                         /\ pc'[u] \notin Created
  BY <1>1, <1>2, <1>3, OnlyOne, Labels DEF Created, Removing, Leaving
<1>7. \A k \in DOMAIN queue' : k = Len(queue) + 1 \/ (k \in DOMAIN queue /\ queue'[k] = queue[k])
  BY <1>5
<1>8. e.name = n /\ e.id = cur[t].id
  OBVIOUS
<1> HIDE DEF e, n
<1>9. RemovedIsLetGo'
  BY <1>6 DEF RemovedIsLetGo, Removing
<1>10. SampleIsTracked'
  <2>1. "main" \in Threads
    BY DEF Threads
  <2>2. ToSet(queue) \subseteq ToSet(queue')
    BY <1>5 DEF ToSet
  <2>3. pc'["main"] = "mon" => pc["main"] = "mon"
    BY <1>2, <2>1
  <2>4. QED
    BY <1>1, <2>2, <2>3 DEF DaemonInv, SampleIsTracked
<1>11. IdsAreGiven'
  BY <1>1, <1>4, <1>5, <1>7, <1>8 DEF DaemonInv, IdsAreGiven
<1>12. ASSUME ~disturbed' PROVE EntriesAgree'
  <2>1. n \notin QueueNames /\ Held(daemon, n, cur[t].id)
    BY <1>1, <1>3, <1>12 DEF DaemonInv, NewIsHeld, n
  <2>2. \A k \in DOMAIN queue : queue[k].name # n
    BY <2>1 DEF QueueNames
  <2>3. NamesDiffer'
    <3> SUFFICES ASSUME NEW j \in DOMAIN queue', NEW k \in DOMAIN queue', queue'[j].name = queue'[k].name
                 PROVE  j = k
      BY DEF NamesDiffer
    <3>1. CASE j = Len(queue) + 1 \/ k = Len(queue) + 1
      BY <1>5, <1>7, <1>8, <2>2, <3>1
    <3>2. CASE j \in DOMAIN queue /\ k \in DOMAIN queue
      BY <1>1, <1>5, <1>12, <3>2 DEF DaemonInv, EntriesAgree, NamesDiffer
    <3>3. QED
      BY <1>7, <3>1, <3>2
  <2> SUFFICES ASSUME NEW k \in DOMAIN queue'
               PROVE  /\ \/ nameMap'[queue'[k].name] = queue'[k].id
                         \/ \E u \in Threads : pc'[u] \in {"enter"} /\ cur'[u].name = queue'[k].name
                                               /\ cur'[u].id = queue'[k].id
                      /\ Held(daemon', queue'[k].name, queue'[k].id)
    BY <2>3 DEF EntriesAgree, At
  <2>4. CASE k = Len(queue) + 1
    <3>1. queue'[k].name = cur'[t].name /\ queue'[k].id = cur'[t].id /\ pc'[t] = "enter"
      BY <1>1, <1>2, <1>5, <1>8, <2>4 DEF n
    <3>2. QED
      BY <1>1, <2>1, <3>1 DEF n
  <2>5. CASE k \in DOMAIN queue /\ queue'[k] = queue[k]
    <3>1. nameMap[queue[k].name] = queue[k].id /\ Held(daemon, queue[k].name, queue[k].id)
      BY <1>1, <1>6, <1>12, <2>5, Labels DEF DaemonInv, EntriesAgree, BeingRemoved, At
    <3>2. QED
      BY <1>1, <2>5, <3>1
  <2>6. QED
    BY <1>7, <2>4, <2>5
<1>13. NewIsHeld'
  BY <1>6 DEF NewIsHeld
<1>14. QED
  BY <1>9, <1>10, <1>11, <1>12, <1>13 DEF DaemonInv

\* The second write makes the map lead to that entry, the only one of its name.
LEMMA EnterIsKept ==
  ASSUME TypeOK, TableInv, DaemonInv, NEW t \in Threads, EnterInMap(t)
  PROVE  DaemonInv'
<1> DEFINE n == cur[t].name
<1>1. /\ pc[t] = "enter" /\ pc[t] \in Critical /\ Goto(t, "show")
      /\ nameMap' = [nameMap EXCEPT ![n] = cur[t].id]
      /\ UNCHANGED <<queue, cur, daemon, lastId, disturbed>>
  BY Labels DEF EnterInMap
<1>2. \A u \in Threads : pc'[u] = (IF u = t THEN "show" ELSE pc[u])
  BY <1>1 DEF Goto, TypeOK
<1>3. \A u \in Threads : /\ pc[u] \notin Removing /\ (u # t => pc[u] # "enter")
                         /\ pc'[u] \notin Removing \cup Leaving
                         /\ pc'[u] \notin Created
  BY <1>1, <1>2, OnlyOne, Labels DEF Created, Removing, Leaving
<1>4. n \in Names /\ \A m \in Names : nameMap'[m] = IF m = n THEN cur[t].id ELSE nameMap[m]
  BY <1>1, CurType DEF TypeOK
<1>5. PICK b \in DOMAIN queue : queue[b] = [name |-> n, id |-> cur[t].id]
  BY <1>1 DEF TableInv, ToSet
<1>6. queue[b].name = n /\ queue[b].id = cur[t].id
  BY <1>5
<1>7. RemovedIsLetGo'
  BY <1>3 DEF RemovedIsLetGo, Removing
<1>8. SampleIsTracked'
  <2>1. "main" \in Threads
    BY DEF Threads
  <2>2. pc'["main"] = "mon" => pc["main"] = "mon"
    BY <1>2, <2>1
  <2>3. QED
    BY <1>1, <2>2 DEF DaemonInv, SampleIsTracked
<1>9. IdsAreGiven'
  BY <1>1 DEF DaemonInv, IdsAreGiven
<1>10. ASSUME ~disturbed' PROVE EntriesAgree'
  <2>1. NamesDiffer'
    BY <1>1, <1>10 DEF DaemonInv, EntriesAgree, NamesDiffer
  <2> SUFFICES ASSUME NEW k \in DOMAIN queue
               PROVE  /\ nameMap'[queue[k].name] = queue[k].id
                      /\ Held(daemon, queue[k].name, queue[k].id)
    BY <1>1, <2>1 DEF EntriesAgree
  <2>2. /\ nameMap[queue[k].name] = queue[k].id \/ At({"enter"}, queue[k].name, queue[k].id)
        /\ Held(daemon, queue[k].name, queue[k].id)
    BY <1>1, <1>3, <1>10 DEF DaemonInv, EntriesAgree, BeingRemoved
  <2>3. CASE queue[k].name = n
    <3>1. k = b
      BY <1>1, <1>6, <1>10, <2>3 DEF DaemonInv, EntriesAgree, NamesDiffer
    <3>2. QED
      BY <1>4, <1>6, <2>2, <3>1
  <2>4. CASE queue[k].name # n
    <3>1. ~At({"enter"}, queue[k].name, queue[k].id)
      BY <1>3, <2>4 DEF At
    <3>2. QED
      BY <1>4, <2>2, <2>4, <3>1, QueueEntry
  <2>5. QED
    BY <2>3, <2>4
<1>11. NewIsHeld'
  BY <1>3 DEF NewIsHeld
<1>12. QED
  BY <1>7, <1>8, <1>9, <1>10, <1>11 DEF DaemonInv

\* The last write concerns the list of the CLI only.
LEMMA ShowIsQuiet ==
  ASSUME TypeOK, NEW t \in Threads, ShowInList(t)
  PROVE  Quiet
BY ReturnIsQuiet DEF ShowInList, Removing

\* The daemon begins to remove the container the map leads to.
LEMMA LookupIsKept ==
  ASSUME TypeOK, TableInv, DaemonInv, NEW t \in Threads, Lookup(t)
  PROVE  DaemonInv'
<1> DEFINE n == cur[t].name
           i == nameMap[n]
           label == IF cur[t].wait THEN "removed" ELSE "dequeue"
<1>1. /\ pc[t] = "lookup" /\ Goto(t, label)
      /\ daemon' = [daemon EXCEPT ![n].state = "removing"]
      /\ cur' = [cur EXCEPT ![t].id = i]
      /\ UNCHANGED <<queue, nameMap, lastId, disturbed>>
  BY DEF Lookup, tables
<1>2. n \in Names /\ cur'[t].name = n /\ cur'[t].id = i /\ cur'[t].wait = cur[t].wait
  BY <1>1, CurType DEF TypeOK, Call
<1>3. \A u \in Threads : pc'[u] = (IF u = t THEN label ELSE pc[u])
                         /\ (u # t => cur'[u] = cur[u])
  BY <1>1 DEF Goto, TypeOK
<1>4. label \in Removing /\ label \notin Created \cup Leaving /\ label # "mon"
  BY DEF Created, Removing, Leaving
<1>5. \A u \in Threads : /\ pc[u] \notin Removing /\ pc[u] \notin Writing
                         /\ pc'[u] \notin Created
                         /\ u # t => pc'[u] \notin Removing \cup Leaving
  BY <1>1, <1>3, <1>4, OnlyOne, Labels DEF Created, Removing, Leaving
<1>6. \A m \in Names, j \in Nat : Held(daemon', m, j) <=> m # n /\ Held(daemon, m, j)
  BY <1>1 DEF TypeOK, Held, Up
<1>7. i \in Nat
  BY <1>2 DEF TypeOK
<1> HIDE DEF i, n
<1>8. RemovedIsLetGo'
  <2> SUFFICES ASSUME NEW u \in Threads, pc'[u] \in Removing \cup Leaving
               PROVE /\ ~Held(daemon', cur'[u].name, cur'[u].id)
                     /\ pc'[u] \in {"dequeue"} \cup Leaving => ~cur'[u].wait
    BY DEF RemovedIsLetGo, Removing
  <2>1. u = t
    BY <1>5
  <2>2. pc'[u] \in {"dequeue"} \cup Leaving => ~cur[t].wait
    BY <1>3, <1>4, <2>1
  <2>3. QED
    BY <1>2, <1>3, <1>6, <1>7, <2>1, <2>2
<1>9. SampleIsTracked'
  <2>1. "main" \in Threads
    BY DEF Threads
  <2>2. pc'["main"] = "mon" => pc["main"] = "mon" /\ cur'["main"] = cur["main"]
    BY <1>3, <1>4, <2>1
  <2>3. cur["main"].name \in Names /\ cur["main"].id \in Nat
    BY <2>1, CurType
  <2>4. QED
    BY <1>1, <1>6, <2>2, <2>3 DEF DaemonInv, SampleIsTracked
<1>10. IdsAreGiven'
  BY <1>1 DEF DaemonInv, IdsAreGiven
<1>11. ASSUME ~disturbed' PROVE EntriesAgree'
  <2>1. NamesDiffer'
    BY <1>1, <1>11 DEF DaemonInv, EntriesAgree, NamesDiffer
  <2> SUFFICES ASSUME NEW k \in DOMAIN queue'
               PROVE  nameMap'[queue'[k].name] = queue'[k].id
                      /\ (Held(daemon', queue'[k].name, queue'[k].id)
                          \/ \E u \in Threads : pc'[u] \in Removing /\ cur'[u].id = queue'[k].id)
    BY <2>1 DEF EntriesAgree, BeingRemoved
  <2>2. k \in DOMAIN queue /\ queue' = queue /\ nameMap' = nameMap
    BY <1>1
  <2>3. nameMap[queue[k].name] = queue[k].id /\ Held(daemon, queue[k].name, queue[k].id)
    BY <1>1, <1>5, <1>11, <2>2, Labels DEF DaemonInv, EntriesAgree, BeingRemoved, At
  <2>4. CASE queue[k].name = n
    BY <1>2, <1>3, <1>4, <2>2, <2>3, <2>4 DEF i
  <2>5. CASE queue[k].name # n
    BY <1>6, <2>2, <2>3, <2>5, QueueEntry
  <2>6. QED
    BY <2>2, <2>3, <2>4, <2>5
<1>12. NewIsHeld'
  BY <1>5 DEF NewIsHeld
<1>13. QED
  BY <1>8, <1>9, <1>10, <1>11, <1>12 DEF DaemonInv

\* What leaves the queue was let go before.
LEMMA DequeueIsKept ==
  ASSUME TypeOK, TableInv, DaemonInv, NEW t \in Threads, RemoveFromQueue(t)
  PROVE  DaemonInv'
<1> DEFINE n == cur[t].name
           e == [name |-> n, id |-> cur[t].id]
<1>1. /\ pc[t] = "dequeue" /\ Goto(t, "unlist") /\ queue' = RemoveFirst(queue, e)
      /\ UNCHANGED <<nameMap, cur, daemon, lastId, disturbed>>
  BY DEF RemoveFromQueue
<1>2. \A u \in Threads : pc'[u] = (IF u = t THEN "unlist" ELSE pc[u])
  BY <1>1 DEF Goto, TypeOK
<1>3. \A u \in Threads : /\ u # t => pc[u] \notin Removing /\ pc'[u] \notin Leaving
                         /\ pc[u] \notin Writing
                         /\ pc'[u] \notin Created /\ pc'[u] \notin Removing
  BY <1>1, <1>2, OnlyOne, Labels DEF Created, Removing, Leaving
<1>4. /\ queue \in Seq(Instance) /\ \E i \in 1..Len(queue) : queue[i] = e
      /\ \A x \in ToSet(queue) : x # e => x \in ToSet(queue')
      /\ \A k \in DOMAIN queue' : \E a \in DOMAIN queue : queue'[k] = queue[a] /\ queue[a] # e
                                                          /\ queue[a].id # cur[t].id
  BY Dequeued
<1>5. /\ ~Held(daemon, n, cur[t].id)
      /\ cur[t].wait => daemon[n].state = "absent"
  BY <1>1 DEF DaemonInv, RemovedIsLetGo, Removing
<1>6. RemovedIsLetGo'
  <2> SUFFICES ASSUME NEW u \in Threads, pc'[u] \in Removing \cup Leaving
               PROVE /\ ~Held(daemon', cur'[u].name, cur'[u].id)
                     /\ cur'[u].wait => daemon'[cur'[u].name].state = "absent"
    BY DEF RemovedIsLetGo, Removing
  <2>1. u = t
    BY <1>3
  <2>2. QED
    BY <1>1, <1>5, <2>1 DEF Held
<1>7. SampleIsTracked'
  <2> SUFFICES ASSUME pc'["main"] = "mon"
               PROVE /\ cur'["main"].id <= lastId'
                     /\ \/ [name |-> cur'["main"].name, id |-> cur'["main"].id] \in ToSet(queue')
                        \/ ~Held(daemon', cur'["main"].name, cur'["main"].id)
    BY DEF SampleIsTracked
  <2> DEFINE c == cur["main"]
  <2>1. "main" \in Threads
    BY DEF Threads
  <2>2. pc["main"] = "mon" /\ cur'["main"] = c
    BY <1>1, <1>2, <2>1
  <2>3. c.id <= lastId /\ ([name |-> c.name, id |-> c.id] \in ToSet(queue) \/ ~Held(daemon, c.name, c.id))
    BY <2>2 DEF DaemonInv, SampleIsTracked
  <2>4. CASE [name |-> c.name, id |-> c.id] = e
    <3>1. c.name = n /\ c.id = cur[t].id
      BY <2>4
    <3>2. QED
      BY <1>1, <1>5, <2>2, <2>3, <3>1
  <2>5. CASE [name |-> c.name, id |-> c.id] # e
    BY <1>1, <1>4, <2>2, <2>3, <2>5
  <2>6. QED
    BY <2>4, <2>5
<1>8. IdsAreGiven'
  <2> SUFFICES ASSUME NEW k \in DOMAIN queue' PROVE queue'[k].id # NoId
    BY <1>1 DEF DaemonInv, IdsAreGiven
  <2>1. PICK a \in DOMAIN queue : queue'[k] = queue[a]
    BY <1>4
  <2>2. QED
    BY <2>1 DEF DaemonInv, IdsAreGiven
<1>9. ASSUME ~disturbed' PROVE EntriesAgree'
  <2>1. NamesDiffer'
    <3> SUFFICES ASSUME NEW j \in DOMAIN queue', NEW k \in DOMAIN queue', j < k
                 PROVE  queue'[j].name # queue'[k].name
      <4>1. queue' \in Seq(Instance)
        BY <1>1, <1>4, RemoveFirstType
      <4>2. \A j, k \in DOMAIN queue' : j \in Nat /\ k \in Nat
        BY <4>1, LenProperties
      <4>3. \A j, k \in DOMAIN queue' : j = k \/ j < k \/ k < j
        BY <4>2
      <4>4. QED
        BY <4>3 DEF NamesDiffer
    <3> HIDE DEF e
    <3>1. PICK a \in DOMAIN queue, b \in DOMAIN queue :
                 a < b /\ queue'[j] = queue[a] /\ queue'[k] = queue[b]
      BY <1>1, <1>4, RemoveFirstOrder
    <3>2. a # b
      BY <1>4, <3>1, LenProperties
    <3>3. QED
      BY <1>1, <1>9, <3>1, <3>2 DEF DaemonInv, EntriesAgree, NamesDiffer
  <2> SUFFICES ASSUME NEW k \in DOMAIN queue'
               PROVE  /\ nameMap[queue'[k].name] = queue'[k].id
                      /\ Held(daemon, queue'[k].name, queue'[k].id)
    BY <1>1, <2>1 DEF EntriesAgree
  <2>2. PICK a \in DOMAIN queue : queue'[k] = queue[a] /\ queue[a].id # cur[t].id
    BY <1>4
  <2>3. ~At({"enter"}, queue[a].name, queue[a].id) /\ ~BeingRemoved(queue[a].id)
    BY <1>3, <2>2, Labels DEF At, BeingRemoved
  <2>4. QED
    BY <1>1, <1>9, <2>2, <2>3 DEF DaemonInv, EntriesAgree
<1>10. NewIsHeld'
  BY <1>3 DEF NewIsHeld
<1>11. QED
  BY <1>6, <1>7, <1>8, <1>9, <1>10 DEF DaemonInv

\* The next one concerns the list of the CLI only.
LEMMA UnlistIsQuiet ==
  ASSUME TypeOK, NEW t \in Threads, RemoveFromList(t)
  PROVE  Quiet
<1>1. /\ pc[t] = "unlist" /\ Goto(t, "forget")
      /\ UNCHANGED <<queue, nameMap, lastId, daemon, disturbed, cur>>
  BY DEF RemoveFromList
<1>2. QED
  BY <1>1, GotoIsQuiet DEF Created, Removing, Leaving

\* What leaves the map is in no entry of the queue.
LEMMA ForgetIsKept ==
  ASSUME TypeOK, TableInv, DaemonInv, NEW t \in Threads, DeleteFromMap(t)
  PROVE  DaemonInv'
<1> DEFINE n == cur[t].name
<1>1. /\ pc[t] = "forget" /\ pc[t] \in Critical /\ Return(t, "ok")
      /\ nameMap' = [nameMap EXCEPT ![n] = NoId]
      /\ UNCHANGED <<queue, daemon, lastId, disturbed>>
  BY Labels DEF DeleteFromMap
<1>2. \A u \in Threads : pc'[u] = (IF u = t THEN "idle" ELSE pc[u])
                         /\ (u # t => cur'[u] = cur[u])
  BY <1>1 DEF Return, Goto, TypeOK
<1>3. \A u \in Threads : /\ pc[u] \notin Removing /\ pc[u] # "enter"
                         /\ pc'[u] \notin Removing \cup Leaving
                         /\ pc'[u] \notin Created
  BY <1>1, <1>2, OnlyOne, Labels DEF Created, Removing, Leaving
<1>4. nameMap[n] = cur[t].id /\ cur[t].id \notin QueueIds
  BY <1>1 DEF TableInv
<1>5. RemovedIsLetGo'
  BY <1>3 DEF RemovedIsLetGo, Removing
<1>6. SampleIsTracked'
  <2>1. "main" \in Threads
    BY DEF Threads
  <2>2. pc'["main"] = "mon" => pc["main"] = "mon" /\ cur'["main"] = cur["main"]
    BY <1>2, <2>1
  <2>3. QED
    BY <1>1, <2>2 DEF DaemonInv, SampleIsTracked
<1>7. IdsAreGiven'
  BY <1>1 DEF DaemonInv, IdsAreGiven
<1>8. ASSUME ~disturbed' PROVE EntriesAgree'
  <2>1. NamesDiffer'
    BY <1>1, <1>8 DEF DaemonInv, EntriesAgree, NamesDiffer
  <2> SUFFICES ASSUME NEW k \in DOMAIN queue
               PROVE  /\ nameMap'[queue[k].name] = queue[k].id
                      /\ Held(daemon, queue[k].name, queue[k].id)
    BY <1>1, <2>1 DEF EntriesAgree
  <2>2. nameMap[queue[k].name] = queue[k].id /\ Held(daemon, queue[k].name, queue[k].id)
    BY <1>1, <1>3, <1>8 DEF DaemonInv, EntriesAgree, BeingRemoved, At
  <2>3. queue[k].name # n
    BY <1>4, <2>2 DEF QueueIds
  <2>4. QED
    BY <1>1, <2>2, <2>3, QueueEntry DEF TypeOK
<1>9. NewIsHeld'
  BY <1>3 DEF NewIsHeld
<1>10. QED
  BY <1>5, <1>6, <1>7, <1>8, <1>9 DEF DaemonInv

\* monResourceStats takes what the map leads to: it is in the queue, or on its way out and let go.
LEMMA MonitorIsKept ==
  ASSUME TypeOK, TableInv, DaemonInv, CallMonitor
  PROVE  DaemonInv'
<1>0. "main" \in Threads /\ pc["main"] = "idle"
      /\ UNCHANGED <<queue, nameMap, lastId, daemon, disturbed>>
  BY DEF CallMonitor, Threads, tables
<1>1. PICK n \in Names :
        IF nameMap[n] = NoId
        THEN Return("main", "ValueError")
        ELSE /\ Goto("main", "mon")
             /\ cur' = [cur EXCEPT !["main"] = [name |-> n, wait |-> TRUE, id |-> nameMap[n]]]
             /\ UNCHANGED <<lock, outcome>>
  BY DEF CallMonitor
<1>2. CASE nameMap[n] = NoId
  BY <1>0, <1>1, <1>2, ReturnIsQuiet, QuietKeeps DEF Removing
<1>3. CASE nameMap[n] # NoId
  <2>1. \A u \in Threads : pc'[u] = (IF u = "main" THEN "mon" ELSE pc[u])
                           /\ (u # "main" => cur'[u] = cur[u])
    BY <1>0, <1>1, <1>3 DEF Goto, TypeOK
  <2>2. cur'["main"].name = n /\ cur'["main"].id = nameMap[n]
    BY <1>0, <1>1, <1>3 DEF TypeOK
  <2>3. "mon" \notin Created \cup Removing \cup Leaving /\ pc["main"] \notin Removing \cup {"enter"}
    BY <1>0 DEF Created, Removing, Leaving
  <2>4. RemovedIsLetGo'
    <3> SUFFICES ASSUME NEW u \in Threads, pc'[u] \in Removing \cup Leaving
                 PROVE /\ ~Held(daemon', cur'[u].name, cur'[u].id)
                       /\ pc'[u] \in {"dequeue"} \cup Leaving /\ cur'[u].wait
                            => daemon'[cur'[u].name].state = "absent"
      BY DEF RemovedIsLetGo, Removing
    <3>1. pc'[u] = pc[u] /\ cur'[u] = cur[u]
      BY <2>1, <2>3
    <3>2. QED
      BY <1>0, <3>1 DEF DaemonInv, RemovedIsLetGo, Held
  <2>5. SampleIsTracked'
    <3> SUFFICES nameMap[n] <= lastId
                 /\ ([name |-> n, id |-> nameMap[n]] \in ToSet(queue) \/ ~Held(daemon, n, nameMap[n]))
      BY <1>0, <2>2 DEF SampleIsTracked, Held
    <3>1. CASE [name |-> n, id |-> nameMap[n]] \in ToSet(queue)
      <4>1. PICK k \in DOMAIN queue : queue[k] = [name |-> n, id |-> nameMap[n]]
        BY <3>1 DEF ToSet
      <4>2. queue[k].id <= lastId /\ queue[k].id = nameMap[n]
        BY <4>1 DEF TableInv
      <4>3. QED
        BY <3>1, <4>2
    <3>2. CASE At({"unlist", "forget"}, n, nameMap[n])
      <4>1. PICK u \in Threads : pc[u] \in Leaving /\ cur[u].name = n /\ cur[u].id = nameMap[n]
        BY <3>2 DEF At, Leaving
      <4>2. cur[u].id <= lastId
        BY <4>1 DEF TableInv, Leaving
      <4>3. ~Held(daemon, n, nameMap[n])
        BY <4>1 DEF DaemonInv, RemovedIsLetGo
      <4>4. QED
        BY <4>1, <4>2, <4>3
    <3>3. QED
      BY <1>3, <3>1, <3>2 DEF TableInv, MapIsOfQueue, MapInQueue
  <2>6. IdsAreGiven'
    BY <1>0 DEF DaemonInv, IdsAreGiven
  <2>7. ASSUME ~disturbed' PROVE EntriesAgree' /\ NewIsHeld'
    <3>1. \A i : BeingRemoved(i) => \E u \in Threads : pc'[u] \in Removing /\ cur'[u].id = i
      BY <1>0, <2>1, <2>3 DEF BeingRemoved
    <3>2. \A m, i : At({"enter"}, m, i) =>
            \E u \in Threads : pc'[u] \in {"enter"} /\ cur'[u].name = m /\ cur'[u].id = i
      BY <1>0, <2>1 DEF At
    <3>3. NamesDiffer'
      BY <1>0, <2>7 DEF DaemonInv, EntriesAgree, NamesDiffer
    <3>4. EntriesAgree'
      <4> SUFFICES ASSUME NEW k \in DOMAIN queue
                   PROVE  /\ \/ nameMap[queue[k].name] = queue[k].id
                             \/ \E u \in Threads : pc'[u] \in {"enter"} /\ cur'[u].name = queue[k].name
                                                   /\ cur'[u].id = queue[k].id
                          /\ \/ Held(daemon, queue[k].name, queue[k].id)
                             \/ \E u \in Threads : pc'[u] \in Removing /\ cur'[u].id = queue[k].id
        BY <1>0, <3>3 DEF EntriesAgree, BeingRemoved, At, Held
      <4>1. /\ nameMap[queue[k].name] = queue[k].id \/ At({"enter"}, queue[k].name, queue[k].id)
            /\ Held(daemon, queue[k].name, queue[k].id) \/ BeingRemoved(queue[k].id)
        BY <1>0, <2>7 DEF DaemonInv, EntriesAgree
      <4>2. QED
        BY <3>1, <3>2, <4>1
    <3>5. NewIsHeld'
      BY <1>0, <2>1, <2>3, <2>7 DEF DaemonInv, NewIsHeld, QueueNames
    <3>6. QED
      BY <3>4, <3>5
  <2>8. QED
    BY <2>4, <2>5, <2>6, <2>7 DEF DaemonInv
<1>4. QED
  BY <1>2, <1>3

\* stop() asks the daemon for a removal that stays out of the tables, or raises.
LEMMA StopIsQuiet ==
  ASSUME TypeOK, StopRemove
  PROVE  Quiet
<1> DEFINE c == queue[stopIdx]
<1>1. /\ "main" \in Threads /\ pc["main"] = "stop" /\ stopIdx \in DOMAIN queue
      /\ UNCHANGED <<queue, nameMap, lastId>>
  BY LenProperties DEF StopRemove, Threads, TypeOK, tables
<1>2. c.name \in Names
  BY <1>1, QueueEntry
<1>3. CASE Alive(c.name, c.id) /\ daemon[c.name].state # "removing"
  <2>1. /\ daemon[c.name].state # "absent" /\ disturbed' = TRUE /\ UNCHANGED <<pc, cur>>
        /\ daemon' = [daemon EXCEPT ![c.name].state = "removing"]
    BY <1>3 DEF StopRemove, Alive
  <2> HIDE DEF c
  <2>2. daemon' = [daemon EXCEPT ![c.name] = [daemon[c.name] EXCEPT !.state = "removing"]]
    BY <2>1
  <2>3. [daemon[c.name] EXCEPT !.state = "removing"].state = "removing"
    BY <1>2 DEF TypeOK
  <2>4. QED
    BY <1>1, <1>2, <2>1, <2>2, <2>3, DaemonIsQuiet DEF Up
<1>4. CASE ~(Alive(c.name, c.id) /\ daemon[c.name].state # "removing")
  <2>1. Return("main", RemoveError(c.name, c.id)) /\ UNCHANGED <<daemon, disturbed>>
    BY <1>4 DEF StopRemove
  <2> HIDE DEF c
  <2>2. QED
    BY <1>1, <2>1, ReturnIsQuiet DEF Removing
<1>5. QED
  BY <1>3, <1>4

\* The steps that are not quiet: they create, write to queue or map, remove or sample.
LEMMA QuietSteps ==
  ASSUME TypeOK, [Next]_vars
  PROVE  \/ Quiet
         \/ CallMonitor
         \/ \E t \in Threads : \/ Create(t) \/ AppendToQueue(t) \/ EnterInMap(t)
                               \/ Lookup(t) \/ RemoveFromQueue(t) \/ DeleteFromMap(t)
<1>a. "main" \in Threads /\ "httpd" \in Threads
  BY DEF Threads
<1>b. /\ Created = {"start", "exists", "get", "running", "append"}
      /\ Removing = {"removed", "dequeue"} /\ Leaving = {"unlist", "forget"}
  BY DEF Created, Removing, Leaving
<1>1. ASSUME NEW t \in Threads, CallAdd(t) \/ CallList(t) PROVE Quiet
  BY <1>1, BeginIsQuiet, Labels DEF CallAdd, CallList
<1>2. ASSUME CallRemove \/ CallDelete PROVE Quiet
  BY <1>a, <1>2, BeginIsQuiet, Labels DEF CallRemove, CallDelete
<1>3. ASSUME NEW t \in Threads,
             UnknownHost(t) \/ CreateFails(t) \/ StartFails(t) \/ LookupFails(t) \/ Read(t)
      PROVE  Quiet
  <2>1. /\ UNCHANGED <<queue, nameMap, lastId, daemon, disturbed>> /\ \E o : Return(t, o)
        /\ pc[t] \in {"add", "create", "start", "lookup", "read"}
    BY <1>3 DEF UnknownHost, CreateFails, StartFails, LookupFails, Read, tables
  <2>2. QED
    BY <1>b, <2>1, ReturnIsQuiet
<1>5. ASSUME NEW t \in Threads, Acquire(t) PROVE Quiet
  <2>1. /\ EntryPoint[pc[t]] \in {"create", "lookup", "find", "read"}
        /\ pc[t] \in {"add", "remove", "check", "list"}
    BY <1>5, Labels DEF Acquire
  <2>2. Goto(t, EntryPoint[pc[t]]) /\ UNCHANGED <<queue, nameMap, lastId, daemon, disturbed, cur>>
    BY <1>5 DEF Acquire, tables
  <2>3. QED
    BY <1>b, <2>1, <2>2, GotoIsQuiet
<1>6. ASSUME NEW t \in Threads, WaitExists(t) PROVE Quiet
  BY <1>b, <1>6, GotoIsQuiet DEF WaitExists, tables
<1>7. ASSUME NEW t \in Threads, WaitGet(t) \/ WaitRunning(t) \/ Find(t) PROVE Quiet
  <2>1. UNCHANGED <<queue, nameMap, lastId, daemon, disturbed>> /\ pc[t] \in {"get", "running", "find"}
    BY <1>7 DEF WaitGet, WaitRunning, Find, tables
  <2>2. CASE \E o : Return(t, o)
    BY <1>b, <2>1, <2>2, ReturnIsQuiet
  <2>3. CASE UNCHANGED cur /\ pc[t] \in {"get", "running"} /\ (Goto(t, "append") \/ Goto(t, "running"))
    BY <1>b, <2>1, <2>3, GotoIsQuiet
  <2>4. CASE UNCHANGED cur /\ pc[t] = "find" /\ Goto(t, "remove")
    BY <1>b, <2>1, <2>4, GotoIsQuiet
  <2>5. QED
    BY <1>7, <2>2, <2>3, <2>4 DEF WaitGet, WaitRunning, Find
<1>11. ASSUME NEW t \in Threads, WaitRemoved(t) PROVE Quiet
  BY <1>b, <1>11, GotoIsQuiet DEF WaitRemoved, tables
<1>12. ASSUME BadRequest \/ Monitor PROVE Quiet
  BY <1>a, <1>b, <1>12, ReturnIsQuiet DEF BadRequest, Monitor, tables
<1>14. ASSUME RunRESTServerThread PROVE Quiet
  BY <1>a, <1>b, <1>14, GotoIsQuiet DEF RunRESTServerThread, tables
<1>15. ASSUME CallStop PROVE Quiet
  BY <1>a, <1>b, <1>15, GotoIsQuiet DEF CallStop, tables
<1>16. ASSUME StopEnd PROVE Quiet
  BY <1>a, <1>b, <1>16, GotoIsQuiet DEF StopEnd, tables
<1>17. ASSUME NEW n \in Names, ContainerExits(n) \/ RemovalDone(n) \/ CliRemove(n) PROVE Quiet
  <2>1. UNCHANGED <<queue, nameMap, lastId, cur, pc>>
    BY <1>17 DEF ContainerExits, RemovalDone, CliRemove, tables
  <2>2. \A s : [daemon[n] EXCEPT !.state = s].state = s /\ [daemon[n] EXCEPT !.state = s].id = daemon[n].id
    BY DEF TypeOK
  <2>3. CASE ContainerExits(n)
    <3>1. daemon' = [daemon EXCEPT ![n] = [daemon[n] EXCEPT !.state = "exited"]]
      BY <2>3 DEF ContainerExits
    <3>2. QED
      BY <2>1, <2>2, <2>3, <3>1, DaemonIsQuiet DEF ContainerExits, Up
  <2>4. CASE RemovalDone(n)
    BY <2>1, <2>4, DaemonIsQuiet DEF RemovalDone, Up, Gone
  <2>5. CASE CliRemove(n)
    <3>1. daemon' = [daemon EXCEPT ![n] = [daemon[n] EXCEPT !.state = "removing"]]
      BY <2>5 DEF CliRemove
    <3>2. QED
      BY <2>1, <2>2, <2>5, <3>1, DaemonIsQuiet DEF CliRemove, Up
  <2>6. QED
    BY <1>17, <2>3, <2>4, <2>5
<1>18. ASSUME UNCHANGED vars PROVE Quiet
  BY <1>18 DEF vars, tables, Quiet, Held
<1>19. QED
  BY <1>1, <1>2, <1>3, <1>5, <1>6, <1>7, <1>11, <1>12, <1>14, <1>15, <1>16, <1>17, <1>18,
     StartIsQuiet, StopIsQuiet, ShowIsQuiet, UnlistIsQuiet
  DEF Next, Thread, Add, RemoveContainer, MainOnly, HttpdOnly, Daemon

\* What the tables say about the daemon is kept by every step of every thread and of everybody
\* else, until somebody else removes a container.
THEOREM DaemonCorrect == Spec => []DaemonInv
<1>1. Init => DaemonInv
  <2> SUFFICES ASSUME Init PROVE DaemonInv
    OBVIOUS
  <2>1. DOMAIN queue = {} /\ QueueNames = {}
    BY EmptySeq DEF Init, QueueNames
  <2>2. \A t \in Threads : pc[t] \in {"idle", "off"}
    BY DEF Init, Threads
  <2>3. pc["main"] = "idle" /\ lastId <= MaxId
    BY ManagerAssumption DEF Init, NoId
  <2>4. QED
    BY <2>1, <2>2, <2>3
    DEF DaemonInv, RemovedIsLetGo, SampleIsTracked, IdsAreGiven, EntriesAgree, NamesDiffer, NewIsHeld,
        Removing, Leaving, Created
<1>2. TypeOK /\ TableInv /\ DaemonInv /\ [Next]_vars => DaemonInv'
  <2> SUFFICES ASSUME TypeOK, TableInv, DaemonInv, [Next]_vars PROVE DaemonInv'
    OBVIOUS
  <2>1. QED
    BY QuietSteps, QuietKeeps, CreateIsKept, AppendIsKept, EnterIsKept, LookupIsKept, DequeueIsKept,
       ForgetIsKept, MonitorIsKept
<1>3. QED
  BY <1>1, <1>2, TypeCorrect, TablesCorrect, PTL DEF Spec

\* Until somebody else removes containers, the queue, the map and the daemon agree.
THEOREM DaemonAgreesHolds == Spec => []DaemonAgrees
<1>1. TypeOK /\ TableInv /\ DaemonInv => DaemonAgrees
  <2> SUFFICES ASSUME TypeOK, TableInv, DaemonInv, ~disturbed PROVE DaemonAgrees
    BY DEF DaemonAgrees, OneContainerPerName, TrackedExists
  <2>1. OneContainerPerName
    BY DEF OneContainerPerName, DaemonInv, EntriesAgree, NamesDiffer
  <2>2. ASSUME NEW k \in DOMAIN queue
        PROVE  \/ Alive(queue[k].name, queue[k].id)
               \/ lock # Free /\ pc[lock] \in Removing /\ cur[lock].id = queue[k].id
    <3>1. Held(daemon, queue[k].name, queue[k].id) \/ BeingRemoved(queue[k].id)
      BY DEF DaemonInv, EntriesAgree
    <3>2. CASE Held(daemon, queue[k].name, queue[k].id)
      BY <3>2 DEF Held, Up, Alive
    <3>3. CASE BeingRemoved(queue[k].id)
      <4>1. PICK t \in Threads : pc[t] \in Removing /\ cur[t].id = queue[k].id
        BY <3>3 DEF BeingRemoved
      <4>2. lock = t /\ t # Free
        BY <4>1, Labels DEF TableInv, Removing, Threads, Free
      <4>3. QED
        BY <4>1, <4>2
    <3>4. QED
      BY <3>1, <3>2, <3>3
  <2>3. QED
    BY <2>1, <2>2 DEF DaemonAgrees, TrackedExists, Removing
<1>2. QED
  BY <1>1, TypeCorrect, TablesCorrect, DaemonCorrect, PTL

\* A name that removeContainer(wait=True) has taken out of the tables is free in the daemon.
THEOREM RemovedNameIsFreeHolds == Spec => RemovedNameIsFree
<1>1. TypeOK /\ DaemonInv /\ [Next]_vars =>
        [\A t \in Threads :
           pc[t] = "forget" /\ pc'[t] = "idle" /\ cur[t].wait =>
             daemon[cur[t].name].state = "absent"]_vars
  BY DEF DaemonInv, RemovedIsLetGo, Leaving
<1>2. QED
  BY <1>1, TypeCorrect, DaemonCorrect, PTL DEF Spec, RemovedNameIsFree

----------------------------------------------------------------------------
\* stop().  What it has gone by stays let go, and is in no other thread's hands.

Stopping == pc["main"] \in {"stop", "stopped"}

StopInv ==
  Stopping =>
    /\ stopIdx <= Len(queue) + 1
    /\ \A k \in DOMAIN queue : k < stopIdx =>
         ~Held(daemon, queue[k].name, queue[k].id) /\ ~BeingRemoved(queue[k].id)

\* Who moves the loop, and how stop() is entered.
LEMMA StopSteps ==
  ASSUME TypeOK, [Next]_vars, pc'["main"] \in {"stop", "stopped"}
  PROVE  CallStop \/ (Stopping /\ (StopRemove \/ stopIdx' = stopIdx))
<1>0. "main" \in Threads /\ "httpd" \in Threads
  BY DEF Threads
<1>1. ASSUME NEW t \in Threads, NEW label, Goto(t, label), label \notin {"stop", "stopped"}
      PROVE  Stopping
  BY <1>0, <1>1 DEF Goto, TypeOK, Stopping
<1>2. ASSUME NEW t \in Threads, Thread(t) PROVE Stopping /\ stopIdx' = stopIdx
  <2>1. stopIdx' = stopIdx
    BY <1>2 DEF Thread, Acquire, Add, CallAdd, Begin, UnknownHost, Create, CreateFails, Start,
                StartFails, WaitExists, WaitGet, WaitRunning, AppendToQueue, EnterInMap, ShowInList,
                RemoveContainer, Find, Lookup, LookupFails, WaitRemoved, RemoveFromQueue,
                RemoveFromList, DeleteFromMap, CallList, Read
  <2>2. \E label : Goto(t, label) /\ label \notin {"stop", "stopped"}
    BY <1>2, Labels
    DEF Thread, Acquire, Add, CallAdd, Begin, UnknownHost, Create, CreateFails, Start,
        StartFails, WaitExists, WaitGet, WaitRunning, AppendToQueue, EnterInMap, ShowInList,
        RemoveContainer, Find, Lookup, LookupFails, WaitRemoved, RemoveFromQueue,
        RemoveFromList, DeleteFromMap, CallList, Read, Return
  <2>3. QED
    BY <1>1, <2>1, <2>2
<1>3. CASE CallRemove \/ CallMonitor \/ Monitor \/ RunRESTServerThread
  <2>1. stopIdx' = stopIdx
    BY <1>3 DEF CallRemove, Begin, CallMonitor, Monitor, RunRESTServerThread
  <2>2. \E t \in Threads : \E label : Goto(t, label) /\ label \notin {"stop", "stopped"}
    BY <1>0, <1>3 DEF CallRemove, Begin, CallMonitor, Monitor, RunRESTServerThread, Return
  <2>3. QED
    BY <1>1, <2>1, <2>2
<1>4. CASE StopRemove \/ StopEnd
  BY <1>4 DEF StopRemove, StopEnd, Stopping
<1>5. CASE HttpdOnly
  <2>1. stopIdx' = stopIdx /\ \E label : Goto("httpd", label) /\ label \notin {"stop", "stopped"}
    BY <1>5 DEF HttpdOnly, CallDelete, BadRequest, Begin, Return
  <2>2. QED
    BY <1>0, <1>1, <2>1
<1>6. CASE UNCHANGED vars \/ \E n \in Names : Daemon(n) \/ CliRemove(n)
  BY <1>6 DEF vars, Daemon, ContainerExits, RemovalDone, CliRemove, Stopping
<1>7. QED
  BY <1>2, <1>3, <1>4, <1>5, <1>6 DEF Next, MainOnly

\* A step that leaves the queue and the loop alone, and brings nothing of the queue back.
LEMMA StopStays ==
  ASSUME TypeOK, StopInv, Stopping, UNCHANGED <<queue, stopIdx>>,
         \A k \in DOMAIN queue : Held(daemon', queue[k].name, queue[k].id)
                                   => Held(daemon, queue[k].name, queue[k].id),
         \A u \in Threads : pc'[u] \in Removing => pc[u] \in Removing /\ cur'[u] = cur[u]
  PROVE  StopInv'
<1>1. \A i : (\E u \in Threads : pc'[u] \in Removing /\ cur'[u].id = i) => BeingRemoved(i)
  BY DEF BeingRemoved
<1>2. QED
  BY <1>1 DEF StopInv, Stopping, BeingRemoved, Held

\* A container is taken out of the queue from behind the loop's position only, so that list
\* positions before it do not move.
LEMMA DequeueKeepsStop ==
  ASSUME TypeOK, TypeOK', TableInv, DaemonInv, StopInv, Stopping, stopIdx' = stopIdx,
         NEW t \in Threads, RemoveFromQueue(t)
  PROVE  StopInv'
<1> DEFINE e == [name |-> cur[t].name, id |-> cur[t].id]
<1>1. /\ pc[t] = "dequeue" /\ pc[t] \in Removing /\ Goto(t, "unlist") /\ queue' = RemoveFirst(queue, e)
      /\ UNCHANGED <<cur, daemon>>
  BY DEF RemoveFromQueue, Removing
<1>2. queue \in Seq(Instance) /\ \E i \in 1..Len(queue) : queue[i] = e
  BY Dequeued
<1>3. \A u \in Threads : pc'[u] = (IF u = t THEN "unlist" ELSE pc[u])
  BY <1>1 DEF Goto, TypeOK
<1>4. \A u \in Threads : pc'[u] \in Removing => pc[u] \in Removing /\ cur'[u] = cur[u]
  BY <1>1, <1>3
<1>5. stopIdx \in Nat /\ Len(queue) \in Nat /\ DOMAIN queue = 1..Len(queue)
  BY <1>2, LenProperties DEF TypeOK
<1> HIDE DEF e
<1>6. PICK p \in 1..Len(queue) : queue[p] = e /\ queue' = RemoveAt(queue, p)
  BY <1>1, <1>2, RemoveFirstIsRemoveAt
<1>7. BeingRemoved(queue[p].id)
  BY <1>1, <1>6 DEF BeingRemoved, e
<1>8. p >= stopIdx
  BY <1>5, <1>7 DEF StopInv
<1>9. /\ Len(queue') = Len(queue) - 1 /\ DOMAIN queue' = 1..(Len(queue) - 1)
      /\ \A k \in 1..(Len(queue) - 1) : k < p => queue'[k] = queue[k]
  <2>1. queue' \in Seq(Instance) /\ Len(queue') = Len(queue) - 1
    BY <1>2, <1>6, RemoveAtProperties
  <2>2. \A k \in 1..(Len(queue) - 1) : k < p => queue'[k] = queue[k]
    BY <1>2, <1>6, RemoveAtProperties
  <2>3. QED
    BY <2>1, <2>2, LenProperties
<1>10. \A i : (\E u \in Threads : pc'[u] \in Removing /\ cur'[u].id = i) => BeingRemoved(i)
  BY <1>4 DEF BeingRemoved
<1>11. ASSUME NEW k \in DOMAIN queue', k < stopIdx
       PROVE  k \in DOMAIN queue /\ queue'[k] = queue[k]
  BY <1>5, <1>8, <1>9, <1>11
<1>12. stopIdx <= Len(queue') + 1
  BY <1>5, <1>8, <1>9
<1>13. QED
  BY <1>1, <1>10, <1>11, <1>12 DEF StopInv, BeingRemoved

\* What a registration appends is not among what stop() has gone by.
LEMMA AppendKeepsStop ==
  ASSUME TypeOK, StopInv, Stopping, stopIdx' = stopIdx, NEW t \in Threads, AppendToQueue(t)
  PROVE  StopInv'
<1> DEFINE e == [name |-> cur[t].name, id |-> cur[t].id]
<1>1. queue' = Append(queue, e) /\ Goto(t, "enter") /\ UNCHANGED <<cur, daemon>>
  BY DEF AppendToQueue
<1>2. e \in Instance
  BY CurType DEF Instance
<1>3. /\ Len(queue) \in Nat /\ DOMAIN queue = 1..Len(queue)
      /\ Len(queue') = Len(queue) + 1 /\ DOMAIN queue' = 1..(Len(queue) + 1)
      /\ \A k \in 1..Len(queue) : queue'[k] = queue[k]
  BY <1>1, <1>2, AppendProperties, LenProperties DEF TypeOK
<1>4. \A u \in Threads : pc'[u] \in Removing => pc[u] \in Removing
  BY <1>1 DEF Goto, TypeOK, Removing
<1>5. \A i : (\E u \in Threads : pc'[u] \in Removing /\ cur'[u].id = i) => BeingRemoved(i)
  BY <1>1, <1>4 DEF BeingRemoved
<1>6. stopIdx \in Nat /\ stopIdx <= Len(queue) + 1
  BY DEF StopInv, TypeOK
<1>7. \A k \in DOMAIN queue' : k < stopIdx => k \in DOMAIN queue /\ queue'[k] = queue[k]
  BY <1>3, <1>6
<1>8. stopIdx <= Len(queue') + 1
  BY <1>3, <1>6
<1>9. ASSUME NEW k \in DOMAIN queue', k < stopIdx
      PROVE  /\ ~Held(daemon', queue'[k].name, queue'[k].id)
             /\ ~\E u \in Threads : pc'[u] \in Removing /\ cur'[u].id = queue'[k].id
  <2>1. k \in DOMAIN queue /\ queue'[k] = queue[k] /\ daemon' = daemon
    BY <1>1, <1>7, <1>9
  <2>2. ~Held(daemon, queue[k].name, queue[k].id) /\ ~BeingRemoved(queue[k].id)
    BY <1>9, <2>1 DEF StopInv
  <2>3. QED
    BY <1>5, <2>1, <2>2
<1>10. QED
  BY <1>8, <1>9 DEF StopInv, BeingRemoved

\* Nobody begins to remove what stop() has gone by: the daemon would refuse it.
LEMMA LookupKeepsStop ==
  ASSUME TypeOK, TableInv, StopInv, Stopping, stopIdx' = stopIdx, NEW t \in Threads, Lookup(t)
  PROVE  StopInv'
<1> DEFINE n == cur[t].name
           i == nameMap[n]
<1>1. /\ pc[t] = "lookup" /\ pc[t] \in Critical /\ i # NoId /\ Alive(n, i) /\ daemon[n].state # "removing"
      /\ daemon' = [daemon EXCEPT ![n].state = "removing"] /\ cur' = [cur EXCEPT ![t].id = i]
      /\ \E label : Goto(t, label)
      /\ queue' = queue
  BY Labels DEF Lookup, tables
<1>2. n \in Names /\ i \in Nat /\ cur'[t].id = i
  BY <1>1, CurType DEF TypeOK, Call
<1>3. Held(daemon, n, i)
  BY <1>1, <1>2 DEF Alive, Held, Up, TypeOK
<1>4. \A u \in Threads : pc[u] \notin Writing /\ (u # t => pc'[u] = pc[u] /\ cur'[u] = cur[u])
  BY <1>1, Exclusive, Labels DEF Goto, TypeOK
<1>5. [name |-> n, id |-> i] \in ToSet(queue)
  BY <1>1, <1>2, <1>4, Labels DEF TableInv, MapIsOfQueue, MapInQueue, At
<1>6. PICK b \in DOMAIN queue : queue[b] = [name |-> n, id |-> i]
  BY <1>5 DEF ToSet
<1>7. queue[b].name = n /\ queue[b].id = i
  BY <1>6
<1>8. \A m \in Names, j \in Nat : Held(daemon', m, j) => Held(daemon, m, j)
  BY <1>1 DEF TypeOK, Held, Up
<1> HIDE DEF n, i
<1>9. ASSUME NEW k \in DOMAIN queue, k < stopIdx
      PROVE  /\ ~Held(daemon', queue[k].name, queue[k].id)
             /\ ~\E u \in Threads : pc'[u] \in Removing /\ cur'[u].id = queue[k].id
  <2>1. ~Held(daemon, queue[k].name, queue[k].id) /\ ~BeingRemoved(queue[k].id)
    BY <1>9 DEF StopInv
  <2>2. queue[k].id # i
    BY <1>3, <1>7, <2>1, IdsDiffer
  <2>3. QED
    BY <1>2, <1>4, <1>8, <2>1, <2>2, QueueEntry DEF BeingRemoved
<1>10. QED
  BY <1>1, <1>9 DEF StopInv, BeingRemoved

\* stop() goes by a container that it has itself begun to remove.
LEMMA PassKeepsStop ==
  ASSUME TypeOK, TableInv, DaemonInv, StopInv, StopRemove, pc'["main"] \in {"stop", "stopped"}
  PROVE  StopInv'
<1> DEFINE c == queue[stopIdx]
<1>1. /\ "main" \in Threads /\ pc["main"] = "stop" /\ Stopping /\ queue' = queue
      /\ stopIdx \in DOMAIN queue /\ stopIdx \in Nat /\ Len(queue) \in Nat /\ DOMAIN queue = 1..Len(queue)
  BY LenProperties DEF StopRemove, Threads, TypeOK, tables, Stopping
<1>2. CASE Alive(c.name, c.id) /\ daemon[c.name].state # "removing"
  <2>1. /\ daemon' = [daemon EXCEPT ![c.name].state = "removing"] /\ stopIdx' = stopIdx + 1
        /\ UNCHANGED <<pc, cur>>
    BY <1>2 DEF StopRemove
  <2>2. c.name \in Names /\ c.id \in Nat
    BY <1>1, QueueEntry
  <2>3. Held(daemon, c.name, c.id)
    BY <1>2, <2>2 DEF Alive, Held, Up, TypeOK
  <2>4. ~BeingRemoved(c.id)
    <3> SUFFICES ASSUME NEW u \in Threads, pc[u] \in Removing, cur[u].id = c.id PROVE FALSE
      BY DEF BeingRemoved
    <3>1. PICK a \in DOMAIN queue : queue[a] = [name |-> cur[u].name, id |-> cur[u].id]
      BY RemovedIsThere
    <3>2. queue[a].id = queue[stopIdx].id /\ queue[a].name = cur[u].name
      BY <3>1
    <3>3. a = stopIdx
      BY <1>1, <3>2, IdsDiffer
    <3>4. QED
      BY <2>3, <3>2, <3>3 DEF DaemonInv, RemovedIsLetGo
  <2>5. /\ ~Held(daemon', c.name, c.id)
        /\ \A m \in Names, j \in Nat : Held(daemon', m, j) => Held(daemon, m, j)
    BY <2>1, <2>2 DEF TypeOK, Held, Up
  <2> HIDE DEF c
  <2>6. ASSUME NEW k \in DOMAIN queue, k < stopIdx'
        PROVE  /\ ~Held(daemon', queue[k].name, queue[k].id)
               /\ ~\E u \in Threads : pc'[u] \in Removing /\ cur'[u].id = queue[k].id
    <3>1. k = stopIdx \/ k < stopIdx
      BY <1>1, <2>1, <2>6
    <3>2. CASE k = stopIdx
      BY <2>1, <2>4, <2>5, <3>2 DEF BeingRemoved, c
    <3>3. CASE k < stopIdx
      BY <1>1, <2>1, <2>5, <3>3, QueueEntry DEF StopInv, BeingRemoved
    <3>4. QED
      BY <3>1, <3>2, <3>3
  <2>7. stopIdx' <= Len(queue) + 1
    BY <1>1, <2>1
  <2>8. QED
    BY <1>1, <2>6, <2>7 DEF StopInv, BeingRemoved
<1>3. CASE ~(Alive(c.name, c.id) /\ daemon[c.name].state # "removing")
  <2>1. Goto("main", "idle")
    BY <1>3 DEF StopRemove, Return
  <2>2. QED
    BY <1>1, <2>1 DEF Goto, TypeOK
<1>4. QED
  BY <1>2, <1>3

\* Whatever the other thread adds and removes while stop() walks the queue, no container before the
\* loop's position is left standing.
THEOREM StopSkipsNoneHolds == Spec => []StopSkipsNone
<1>1. Init => StopInv
  BY DEF Init, StopInv, Stopping
<1>2. TypeOK /\ TypeOK' /\ TableInv /\ DaemonInv /\ StopInv /\ [Next]_vars => StopInv'
  <2> SUFFICES ASSUME TypeOK, TypeOK', TableInv, DaemonInv, StopInv, [Next]_vars,
                      pc'["main"] \in {"stop", "stopped"}
               PROVE  StopInv'
    BY DEF StopInv, Stopping
  <2>0. "main" \in Threads
    BY DEF Threads
  <2>1. CASE CallStop
    <3>1. stopIdx' = 1 /\ queue' = queue /\ Len(queue) \in Nat /\ DOMAIN queue = 1..Len(queue)
      BY <2>1, LenProperties DEF CallStop, tables, TypeOK
    <3>2. QED
      BY <3>1 DEF StopInv
  <2>2. CASE StopRemove
    BY <2>2, PassKeepsStop
  <2>3. CASE Stopping /\ stopIdx' = stopIdx
    <3>1. CASE Quiet
      <4>1. \A k \in DOMAIN queue : Held(daemon', queue[k].name, queue[k].id)
                                      => Held(daemon, queue[k].name, queue[k].id)
        BY <3>1, QueueEntry DEF Quiet
      <4>2. \A u \in Threads : pc'[u] \in Removing => pc[u] \in Removing /\ cur'[u] = cur[u]
        BY <3>1 DEF Quiet
      <4>3. queue' = queue
        BY <3>1 DEF Quiet
      <4>4. QED
        BY <2>3, <4>1, <4>2, <4>3, StopStays
    <3>2. ~CallMonitor
      BY <2>3 DEF CallMonitor, Stopping
    <3>3. ASSUME NEW t \in Threads, Create(t) PROVE StopInv'
      <4>1. /\ Goto(t, "start") /\ UNCHANGED queue /\ cur' = [cur EXCEPT ![t].id = lastId + 1]
            /\ daemon' = [daemon EXCEPT ![cur[t].name] = [id |-> lastId + 1, state |-> "created"]]
        BY <3>3 DEF Create, tables
      <4>2. \A u \in Threads : pc'[u] \in Removing => pc[u] \in Removing /\ cur'[u] = cur[u]
        BY <4>1 DEF Goto, TypeOK, Removing
      <4>3. \A m \in Names, i \in Nat : i <= lastId /\ Held(daemon', m, i) => Held(daemon, m, i)
        BY <4>1 DEF TypeOK, Held
      <4>4. \A k \in DOMAIN queue : Held(daemon', queue[k].name, queue[k].id)
                                      => Held(daemon, queue[k].name, queue[k].id)
        BY <4>3, QueueEntry DEF TableInv
      <4>5. QED
        BY <2>3, <4>1, <4>2, <4>4, StopStays
    <3>4. ASSUME NEW t \in Threads, EnterInMap(t) \/ DeleteFromMap(t) PROVE StopInv'
      <4>1. /\ UNCHANGED <<queue, daemon>>
            /\ Goto(t, "show") \/ Goto(t, "idle")
            /\ \A u \in Threads : u # t => cur'[u] = cur[u]
        BY <3>4 DEF EnterInMap, DeleteFromMap, Return, TypeOK
      <4>2. \A u \in Threads : pc'[u] \in Removing => pc[u] \in Removing /\ cur'[u] = cur[u]
        BY <4>1 DEF Goto, TypeOK, Removing
      <4>3. \A k \in DOMAIN queue : Held(daemon', queue[k].name, queue[k].id)
                                      => Held(daemon, queue[k].name, queue[k].id)
        BY <4>1
      <4>4. UNCHANGED <<queue, stopIdx>>
        BY <2>3, <4>1
      <4>5. QED
        BY <2>3, <4>2, <4>3, <4>4, StopStays
    <3>5. QED
      BY <2>3, <3>1, <3>2, <3>3, <3>4, QuietSteps, AppendKeepsStop, LookupKeepsStop, DequeueKeepsStop
  <2>4. QED
    BY <2>1, <2>2, <2>3, StopSteps
<1>3. TypeOK /\ StopInv => StopSkipsNone
  <2> SUFFICES ASSUME TypeOK, StopInv, Stopping, NEW k \in DOMAIN queue, k < stopIdx
               PROVE  ~Alive(queue[k].name, queue[k].id) \/ daemon[queue[k].name].state = "removing"
    BY DEF StopSkipsNone, Stopping
  <2>1. ~Held(daemon, queue[k].name, queue[k].id)
    BY DEF StopInv
  <2>2. daemon[queue[k].name].state \in Up \cup {"absent", "removing"}
    BY QueueEntry DEF TypeOK, Up
  <2>3. QED
    BY <2>1, <2>2 DEF Held, Alive
<1>4. QED
  BY <1>1, <1>2, <1>3, TypeCorrect, TablesCorrect, DaemonCorrect, PTL DEF Spec

----------------------------------------------------------------------------
\* The readers without the lock: the CLI's list counts the names of the queue.

\* The entries of the queue under the name n.
Entries(n) == {c \in Instance : c.name = n}

\* Both sides of CliListMirrorsQueue count the places where a sequence has something.
LEMMA CountsAreOfPositions ==
  ASSUME TypeOK, NEW n \in Names
  PROVE  /\ Occurrences(appcontainers, n) = Cardinality(Positions(appcontainers, {n}))
         /\ {k \in DOMAIN queue : queue[k].name = n} = Positions(queue, Entries(n))
<1>1. {k \in DOMAIN appcontainers : appcontainers[k] = n} = Positions(appcontainers, {n})
  BY DEF Positions
<1>2. QED
  BY <1>1, QueueEntry DEF Occurrences, Positions, Entries

\* The holder of the lock is the only one between two writes.
LEMMA WriterOfName ==
  ASSUME TableInv, NEW t \in Threads, pc[t] \in Critical, NEW n, NEW labels \in SUBSET Writing
  PROVE  AtName(labels, n) <=> pc[t] \in labels /\ cur[t].name = n
BY Exclusive, Labels DEF AtName

\* At every write of addContainer and removeContainer the list of the CLI and the queue differ by
\* what the holder of the lock is about, so that list.remove always finds what it is to take out.
THEOREM CliListHolds == Spec => []CliListMirrorsQueue
<1>1. Init => CliListMirrorsQueue
  <2> SUFFICES ASSUME Init, NEW n \in Names
               PROVE  /\ Occurrences(appcontainers, n) = 0
                      /\ Cardinality({k \in DOMAIN queue : queue[k].name = n}) = 0
                      /\ ~AtName({"enter", "show"}, n) /\ ~AtName({"unlist"}, n)
    BY DEF CliListMirrorsQueue
  <2>1. DOMAIN queue = {} /\ DOMAIN appcontainers = {}
    BY EmptySeq DEF Init
  <2>2. {k \in DOMAIN queue : queue[k].name = n} = {} /\ {k \in DOMAIN appcontainers : appcontainers[k] = n} = {}
    BY <2>1
  <2>3. ~AtName({"enter", "show"}, n) /\ ~AtName({"unlist"}, n)
    BY DEF Init, AtName, Threads
  <2>4. QED
    BY <2>2, <2>3, FS_EmptySet DEF Occurrences
<1>2. TypeOK /\ TypeOK' /\ TableInv /\ TableInv' /\ CliListMirrorsQueue /\ [Next]_vars => CliListMirrorsQueue'
  <2> SUFFICES ASSUME TypeOK, TypeOK', TableInv, TableInv', CliListMirrorsQueue, [Next]_vars, NEW n \in Names
               PROVE  Occurrences(appcontainers', n)
                        + (IF \E u \in Threads : pc'[u] \in {"enter", "show"} /\ cur'[u].name = n
                           THEN 1 ELSE 0)
                      = Cardinality({k \in DOMAIN queue' : queue'[k].name = n})
                        + (IF \E u \in Threads : pc'[u] \in {"unlist"} /\ cur'[u].name = n
                           THEN 1 ELSE 0)
    BY DEF CliListMirrorsQueue, Occurrences, AtName
  <2> DEFINE PA == Positions(appcontainers, {n})
             PQ == Positions(queue, Entries(n))
             PA1 == Positions(appcontainers', {n})
             PQ1 == Positions(queue', Entries(n))
             Coming == AtName({"enter", "show"}, n)
             Going == AtName({"unlist"}, n)
             Coming1 == \E u \in Threads : pc'[u] \in {"enter", "show"} /\ cur'[u].name = n
             Going1 == \E u \in Threads : pc'[u] \in {"unlist"} /\ cur'[u].name = n
  <2>1. queue \in Seq(Instance) /\ appcontainers \in Seq(Names) /\ queue' \in Seq(Instance)
    BY DEF TypeOK
  <2>2. Cardinality(PA) \in Nat /\ Cardinality(PQ) \in Nat
    BY <2>1, PositionsFinite
  <2>3. Cardinality(PA) + (IF Coming THEN 1 ELSE 0) = Cardinality(PQ) + (IF Going THEN 1 ELSE 0)
    BY CountsAreOfPositions DEF CliListMirrorsQueue
  <2>4. Occurrences(appcontainers', n) = Cardinality(PA1)
    <3>1. {k \in DOMAIN appcontainers' : appcontainers'[k] = n} = PA1
      BY DEF Positions
    <3>2. QED
      BY <3>1 DEF Occurrences
  <2>5. {k \in DOMAIN queue' : queue'[k].name = n} = PQ1
    BY <2>1, ElementOfSeq, LenProperties DEF Positions, Entries
  <2>a. {"enter", "show"} \in SUBSET Writing /\ {"unlist"} \in SUBSET Writing
    BY Labels
  <2> SUFFICES Cardinality(PA1) + (IF Coming1 THEN 1 ELSE 0) = Cardinality(PQ1) + (IF Going1 THEN 1 ELSE 0)
    BY <2>4, <2>5
  <2>6. ASSUME Calm PROVE PA1 = PA /\ PQ1 = PQ /\ (Coming1 <=> Coming) /\ (Going1 <=> Going)
    <3>1. queue' = queue /\ appcontainers' = appcontainers
      BY <2>6 DEF Calm, tables
    <3>2. (Coming1 <=> Coming) /\ (Going1 <=> Going)
      BY <2>6, <2>a, CalmAtName
    <3>3. QED
      BY <3>1, <3>2
  <2>7. ASSUME NEW t \in Threads, pc[t] \in Critical, NEW label, Goto(t, label), cur' = cur
        PROVE  /\ Coming <=> pc[t] \in {"enter", "show"} /\ cur[t].name = n
               /\ Going <=> pc[t] = "unlist" /\ cur[t].name = n
               /\ Coming1 <=> label \in {"enter", "show"} /\ cur[t].name = n
               /\ Going1 <=> label = "unlist" /\ cur[t].name = n
    <3>1. (Coming <=> pc[t] \in {"enter", "show"} /\ cur[t].name = n) /\ (Going <=> pc[t] = "unlist" /\ cur[t].name = n)
      BY <2>7, <2>a, WriterOfName
    <3>2. pc'[t] = label /\ \A u \in Threads : u # t => pc'[u] \notin Critical
      BY <2>7, Alone
    <3>3. \A u \in Threads : pc'[u] \in {"enter", "show", "unlist"} => u = t
      BY <3>2, Labels
    <3>4. QED
      BY <2>7, <3>1, <3>2, <3>3
  <2>8. ASSUME NEW t \in Threads, pc[t] \in Critical, Return(t, "ok")
        PROVE  /\ Coming <=> pc[t] \in {"enter", "show"} /\ cur[t].name = n
               /\ Going <=> pc[t] = "unlist" /\ cur[t].name = n
               /\ ~Coming1 /\ ~Going1
    <3>1. (Coming <=> pc[t] \in {"enter", "show"} /\ cur[t].name = n) /\ (Going <=> pc[t] = "unlist" /\ cur[t].name = n)
      BY <2>8, <2>a, WriterOfName
    <3>2. \A u \in Threads : pc'[u] \notin Critical
      BY <2>8, ReturnFrees
    <3>3. QED
      BY <3>1, <3>2, Labels
  <2> HIDE DEF PA, PQ, PA1, PQ1, Coming, Going, Coming1, Going1
  <2>9. ASSUME NEW t \in Threads, AppendToQueue(t)
        PROVE  Cardinality(PA1) + (IF Coming1 THEN 1 ELSE 0) = Cardinality(PQ1) + (IF Going1 THEN 1 ELSE 0)
    <3> DEFINE e == [name |-> cur[t].name, id |-> cur[t].id]
    <3>1. /\ queue' = Append(queue, e) /\ appcontainers' = appcontainers /\ cur' = cur
          /\ pc[t] = "append" /\ pc[t] \in Critical /\ Goto(t, "enter")
      BY <2>9, Labels DEF AppendToQueue
    <3>2. e \in Instance /\ (e \in Entries(n) <=> cur[t].name = n)
      BY CurType DEF Instance, Entries
    <3> HIDE DEF e
    <3>3. Cardinality(PQ1) = Cardinality(PQ) + (IF e \in Entries(n) THEN 1 ELSE 0)
      BY <2>1, <3>1, <3>2, AppendPositions DEF PQ, PQ1
    <3>4. PA1 = PA
      BY <3>1 DEF PA, PA1
    <3>5. ~Coming /\ ~Going /\ ~Going1 /\ (Coming1 <=> cur[t].name = n)
      BY <3>1, <2>7
    <3>6. QED
      BY <2>2, <2>3, <3>2, <3>3, <3>4, <3>5
  <2>10. ASSUME NEW t \in Threads, EnterInMap(t)
         PROVE  Cardinality(PA1) + (IF Coming1 THEN 1 ELSE 0) = Cardinality(PQ1) + (IF Going1 THEN 1 ELSE 0)
    <3>1. /\ queue' = queue /\ appcontainers' = appcontainers /\ cur' = cur
          /\ pc[t] = "enter" /\ pc[t] \in Critical /\ Goto(t, "show")
      BY <2>10, Labels DEF EnterInMap
    <3>2. PA1 = PA /\ PQ1 = PQ
      BY <3>1 DEF PA, PA1, PQ, PQ1
    <3>3. (Coming1 <=> Coming) /\ ~Going /\ ~Going1
      BY <3>1, <2>7
    <3>4. QED
      BY <2>3, <3>2, <3>3
  <2>11. ASSUME NEW t \in Threads, ShowInList(t)
         PROVE  Cardinality(PA1) + (IF Coming1 THEN 1 ELSE 0) = Cardinality(PQ1) + (IF Going1 THEN 1 ELSE 0)
    <3>1. /\ queue' = queue /\ appcontainers' = Append(appcontainers, cur[t].name)
          /\ pc[t] = "show" /\ pc[t] \in Critical /\ Return(t, "ok")
      BY <2>11, Labels DEF ShowInList
    <3>2. PQ1 = PQ
      BY <3>1 DEF PQ, PQ1
    <3>3. Cardinality(PA1) = Cardinality(PA) + (IF cur[t].name \in {n} THEN 1 ELSE 0)
      BY <2>1, <3>1, CurType, AppendPositions DEF PA, PA1
    <3>4. (Coming <=> cur[t].name = n) /\ ~Going /\ ~Coming1 /\ ~Going1
      BY <3>1, <2>8
    <3>5. QED
      BY <2>2, <2>3, <3>2, <3>3, <3>4
  <2>12. ASSUME NEW t \in Threads, RemoveFromQueue(t)
         PROVE  Cardinality(PA1) + (IF Coming1 THEN 1 ELSE 0) = Cardinality(PQ1) + (IF Going1 THEN 1 ELSE 0)
    <3> DEFINE e == [name |-> cur[t].name, id |-> cur[t].id]
    <3>1. /\ queue' = RemoveFirst(queue, e) /\ appcontainers' = appcontainers /\ cur' = cur
          /\ pc[t] = "dequeue" /\ pc[t] \in Critical /\ Goto(t, "unlist")
      BY <2>12, Labels DEF RemoveFromQueue
    <3>2. e \in Instance /\ (e \in Entries(n) <=> cur[t].name = n)
      BY CurType DEF Instance, Entries
    <3>3. \E i \in 1..Len(queue) : queue[i] = e
      BY <2>12, Dequeued
    <3> HIDE DEF e
    <3>4. Cardinality(PQ1) = Cardinality(PQ) - (IF e \in Entries(n) THEN 1 ELSE 0)
      BY <2>1, <3>1, <3>3, RemoveFirstPositions DEF PQ, PQ1
    <3>5. PA1 = PA
      BY <3>1 DEF PA, PA1
    <3>6. ~Coming /\ ~Going /\ ~Coming1 /\ (Going1 <=> cur[t].name = n)
      BY <3>1, <2>7
    <3>7. QED
      BY <2>2, <2>3, <3>2, <3>4, <3>5, <3>6
  <2>13. ASSUME NEW t \in Threads, RemoveFromList(t)
         PROVE  Cardinality(PA1) + (IF Coming1 THEN 1 ELSE 0) = Cardinality(PQ1) + (IF Going1 THEN 1 ELSE 0)
    <3> DEFINE m == cur[t].name
    <3>1. /\ queue' = queue /\ appcontainers' = RemoveFirst(appcontainers, m) /\ cur' = cur
          /\ pc[t] = "unlist" /\ pc[t] \in Critical /\ Goto(t, "forget") /\ m \in Names
      BY <2>13, Labels, CurType DEF RemoveFromList
    <3>2. PQ1 = PQ
      BY <3>1 DEF PQ, PQ1
    <3>3. \E i \in 1..Len(appcontainers) : appcontainers[i] = m
      <4>1. ~AtName({"enter", "show"}, m) /\ AtName({"unlist"}, m)
        BY <3>1, <2>a, WriterOfName
      <4>2. Cardinality(Positions(queue, Entries(m))) \in Nat
        BY <2>1, PositionsFinite
      <4>3. Cardinality(Positions(appcontainers, {m})) \in Nat
        BY <2>1, PositionsFinite
      <4>4. Cardinality(Positions(appcontainers, {m})) + 0 = Cardinality(Positions(queue, Entries(m))) + 1
        BY <3>1, <4>1, CountsAreOfPositions DEF CliListMirrorsQueue
      <4>5. Cardinality(Positions(appcontainers, {m})) # 0
        BY <4>2, <4>3, <4>4
      <4>6. Positions(appcontainers, {m}) # {}
        BY <4>5, FS_EmptySet
      <4>7. QED
        BY <2>1, <4>6, LenProperties DEF Positions
    <3> HIDE DEF m
    <3>4. Cardinality(PA1) = Cardinality(PA) - (IF m \in {n} THEN 1 ELSE 0)
      BY <2>1, <3>1, <3>3, RemoveFirstPositions DEF PA, PA1
    <3>5. ~Coming /\ (Going <=> m = n) /\ ~Coming1 /\ ~Going1
      BY <3>1, <2>7 DEF m
    <3>6. QED
      BY <2>2, <2>3, <3>2, <3>4, <3>5
  <2>14. ASSUME NEW t \in Threads, DeleteFromMap(t)
         PROVE  Cardinality(PA1) + (IF Coming1 THEN 1 ELSE 0) = Cardinality(PQ1) + (IF Going1 THEN 1 ELSE 0)
    <3>1. /\ queue' = queue /\ appcontainers' = appcontainers
          /\ pc[t] = "forget" /\ pc[t] \in Critical /\ Return(t, "ok")
      BY <2>14, Labels DEF DeleteFromMap
    <3>2. PA1 = PA /\ PQ1 = PQ
      BY <3>1 DEF PA, PA1, PQ, PQ1
    <3>3. ~Coming /\ ~Going /\ ~Coming1 /\ ~Going1
      BY <3>1, <2>8
    <3>4. QED
      BY <2>3, <3>2, <3>3
  <2>15. ASSUME Calm
         PROVE  Cardinality(PA1) + (IF Coming1 THEN 1 ELSE 0) = Cardinality(PQ1) + (IF Going1 THEN 1 ELSE 0)
    BY <2>3, <2>6, <2>15
  <2>16. QED
    BY <2>9, <2>10, <2>11, <2>12, <2>13, <2>14, <2>15, CalmSteps DEF Writes
<1>3. QED
  BY <1>1, <1>2, TypeCorrect, TablesCorrect, PTL DEF Spec

\* A sample that monResourceStats takes without the lock is of a container that is registered,
\* also after stop() and users of the docker CLI have removed containers.
THEOREM ReadersAgreeHolds == Spec => []ReadersAgree
<1>1. TypeOK /\ DaemonInv /\ CliListMirrorsQueue => ReadersAgree
  <2> SUFFICES ASSUME TypeOK, DaemonInv, pc["main"] = "mon", Running(cur["main"].name, cur["main"].id)
               PROVE  cur["main"].id \in QueueIds
    BY DEF ReadersAgree, SampledIsRegistered
  <2>1. Held(daemon, cur["main"].name, cur["main"].id)
    BY DEF Running, Held, Up
  <2>2. [name |-> cur["main"].name, id |-> cur["main"].id] \in ToSet(queue)
    BY <2>1 DEF DaemonInv, SampleIsTracked
  <2>3. QED
    BY <2>2 DEF ToSet, QueueIds
<1>2. QED
  BY <1>1, TypeCorrect, DaemonCorrect, CliListHolds, PTL

----------------------------------------------------------------------------
\* The registry that the manager implements.

\* Whether a label belongs to an addition, to a removal or to another call: one that has written to
\* the queue is over.
Kind(l) ==
  IF l \in Writing THEN "nothing"
  ELSE IF l \in AddPc \cup {"add"} THEN "add"
  ELSE IF l \in RemovePc \cup {"remove", "check", "find"} THEN "remove"
  ELSE "nothing"

Wants == [t \in Threads |-> Wish(t)]
Ends == [t \in Threads |-> IF Done(t) THEN "ok" ELSE outcome[t]]
Outcomes == {"none", "ok", "400"} \cup Errors

\* The kinds of the labels.
LEMMA Kinds ==
  /\ \A l \in {"add", "create", "start", "exists", "get", "running", "append"} : Kind(l) = "add"
  /\ \A l \in {"remove", "check", "find", "lookup", "removed", "dequeue"} : Kind(l) = "remove"
  /\ \A l \in {"off", "idle", "mon", "list", "read", "enter", "show", "unlist", "forget"} : Kind(l) = "nothing"
  /\ \A l : Kind(l) # "nothing" => l \notin Writing
BY Labels DEF Kind, AddPc, RemovePc

\* The call of a thread in the registry: its kind and its name, and how it ended.
LEMMA WishIs ==
  ASSUME NEW t \in Threads
  PROVE  /\ Kind(pc[t]) \in {"add", "remove", "nothing"}
         /\ Kind(pc[t]) = "nothing" => Wish(t) = <<"nothing">>
         /\ Kind(pc[t]) # "nothing" => Wish(t) = <<Kind(pc[t]), cur[t].name>> /\ Wish(t) # <<"nothing">>
         /\ Kind(pc'[t]) = "nothing" => Wish(t)' = <<"nothing">>
         /\ Kind(pc'[t]) # "nothing" => Wish(t)' = <<Kind(pc'[t]), cur'[t].name>>
         /\ Done(t) <=> pc[t] \in Writing
         /\ Done(t)' <=> pc'[t] \in Writing
BY Labels DEF Kind, Wish, Done

\* A step that leaves the queue alone, every thread in its call and every end as it was, is no step
\* of the registry.
LEMMA SameCalls ==
  ASSUME UNCHANGED queue,
         \A u \in Threads : /\ Kind(pc'[u]) = Kind(pc[u])
                            /\ Kind(pc[u]) # "nothing" => cur'[u].name = cur[u].name
                            /\ (IF pc'[u] \in Writing THEN "ok" ELSE outcome'[u])
                                 = (IF pc[u] \in Writing THEN "ok" ELSE outcome[u])
  PROVE  UNCHANGED Registry!vars
<1>1. \A u \in Threads : Wish(u)' = Wish(u)
  BY WishIs
<1>2. Wants' = Wants
  BY <1>1 DEF Wants
<1>3. Ends' = Ends
  BY WishIs DEF Ends
<1>4. QED
  BY <1>2, <1>3 DEF Registry!vars, Wants, Ends

\* So is a thread that goes on.
LEMMA GotoSame ==
  ASSUME TypeOK, NEW t \in Threads, NEW label, Goto(t, label), UNCHANGED <<queue, outcome>>,
         Kind(label) = Kind(pc[t]), label \in Writing <=> pc[t] \in Writing,
         \A u \in Threads : Kind(pc[u]) # "nothing" => cur'[u].name = cur[u].name
  PROVE  UNCHANGED Registry!vars
<1>1. \A u \in Threads : pc'[u] = (IF u = t THEN label ELSE pc[u])
  BY DEF Goto, TypeOK
<1>2. QED
  BY <1>1, SameCalls

\* The writes that follow the one to the queue change nothing in the registry.
LEMMA CompletionSame ==
  ASSUME TypeOK, NEW t \in Threads,
         EnterInMap(t) \/ ShowInList(t) \/ RemoveFromList(t) \/ DeleteFromMap(t)
  PROVE  UNCHANGED Registry!vars
<1>1. pc[t] \in Writing /\ Kind(pc[t]) = "nothing" /\ UNCHANGED queue
  BY Labels, Kinds DEF EnterInMap, ShowInList, RemoveFromList, DeleteFromMap
<1>2. CASE EnterInMap(t) \/ RemoveFromList(t)
  <2>1. (Goto(t, "show") \/ Goto(t, "forget")) /\ UNCHANGED <<queue, outcome, cur>>
    BY <1>2 DEF EnterInMap, RemoveFromList
  <2>2. QED
    BY <1>1, <2>1, GotoSame, Labels, Kinds
<1>3. CASE ShowInList(t) \/ DeleteFromMap(t)
  <2>1. Return(t, "ok")
    BY <1>3 DEF ShowInList, DeleteFromMap
  <2>2. \A u \in Threads : /\ pc'[u] = (IF u = t THEN "idle" ELSE pc[u])
                           /\ u # t => cur'[u] = cur[u] /\ outcome'[u] = outcome[u]
    BY <2>1 DEF Return, Goto, TypeOK
  <2>3. outcome'[t] = "ok" /\ "idle" \notin Writing /\ Kind("idle") = "nothing"
    BY <2>1, Labels, Kinds DEF Return, TypeOK
  <2>4. QED
    BY <1>1, <2>2, <2>3, SameCalls
<1>4. QED
  BY <1>2, <1>3

\* A thread that begins an addition or a removal invokes it, and one that begins to read does
\* nothing to the registry.
LEMMA BeginInvokes ==
  ASSUME TypeOK, NEW t \in Threads, NEW n \in Names, NEW w \in BOOLEAN,
         NEW label \in DOMAIN EntryPoint, Begin(t, n, w, label)
  PROVE  [Registry!Next]_(Registry!vars)
<1>1. /\ pc[t] = "idle" /\ Goto(t, label) /\ UNCHANGED <<queue, outcome>>
      /\ cur' = [cur EXCEPT ![t] = [name |-> n, wait |-> w, id |-> NoId]]
  BY DEF Begin, tables
<1>2. \A u \in Threads : pc'[u] = (IF u = t THEN label ELSE pc[u])
                         /\ (u # t => cur'[u] = cur[u])
  BY <1>1 DEF Goto, TypeOK
<1>3. cur'[t].name = n
  BY <1>1 DEF TypeOK
<1>4. CASE label = "list"
  BY <1>1, <1>2, <1>4, Kinds, GotoSame, Labels
<1>5. CASE label # "list"
  <2>1. Kind(label) \in {"add", "remove"}
    BY <1>5, Kinds, Labels
  <2>2. Wish(t) = <<"nothing">> /\ Wish(t)' = <<Kind(label), n>>
    BY <1>1, <1>2, <1>3, <2>1, WishIs, Kinds
  <2>3. \A u \in Threads : u # t => Wish(u)' = Wish(u)
    BY <1>2, WishIs
  <2>4. Wants' = [Wants EXCEPT ![t] = <<Kind(label), n>>] /\ Wants[t] = <<"nothing">>
    BY <2>2, <2>3 DEF Wants
  <2>5. <<Kind(label), n>> \in {"add", "remove"} \X Names
    BY <2>1
  <2>6. Ends' = Ends
    <3>1. label \notin Writing /\ pc[t] \notin Writing /\ UNCHANGED outcome
      BY <1>1, Labels
    <3>2. QED
      BY <1>2, <3>1, WishIs DEF Ends
  <2>7. Registry!Invoke(t)
    BY <1>1, <2>4, <2>5, <2>6 DEF Registry!Invoke, Registry!Wish, Registry!Nothing, Wants, Ends
  <2>8. QED
    BY <2>7 DEF Registry!Next
<1>6. QED
  BY <1>4, <1>5

\* A thread whose call is over is answered: with its return, or with the write to the queue.
LEMMA EndAnswers ==
  ASSUME TypeOK, NEW t \in Threads, NEW o, NEW label, Goto(t, label), Kind(label) = "nothing",
         \A u \in Threads : u # t => cur'[u] = cur[u] /\ outcome'[u] = outcome[u],
         IF label \in Writing THEN o = "ok" ELSE outcome'[t] = o
  PROVE  Registry!Answer(t, o)
<1>1. \A u \in Threads : pc'[u] = (IF u = t THEN label ELSE pc[u])
  BY DEF Goto, TypeOK
<1>2. Wish(t)' = <<"nothing">> /\ \A u \in Threads : u # t => Wish(u)' = Wish(u)
  BY <1>1, WishIs
<1>3. Wants' = [Wants EXCEPT ![t] = <<"nothing">>]
  BY <1>2 DEF Wants
<1>4. Ends' = [Ends EXCEPT ![t] = o]
  BY <1>1, WishIs DEF Ends
<1>5. QED
  BY <1>3, <1>4 DEF Registry!Answer, Registry!Nothing, Wants, Ends

LEMMA ReturnAnswers ==
  ASSUME TypeOK, NEW t \in Threads, NEW o, Return(t, o)
  PROVE  Registry!Answer(t, o)
<1>1. /\ Goto(t, "idle") /\ outcome'[t] = o
      /\ \A u \in Threads : u # t => cur'[u] = cur[u] /\ outcome'[u] = outcome[u]
  BY DEF Return, TypeOK
<1>2. Kind("idle") = "nothing" /\ "idle" \notin Writing
  BY Labels, Kinds
<1>3. QED
  BY <1>1, <1>2, EndAnswers

\* It is refused when it returns an error in an addition or a removal.
LEMMA ErrorRefuses ==
  ASSUME TypeOK, NEW t \in Threads, NEW o \in Outcomes \ {"none", "ok"}, Return(t, o),
         UNCHANGED queue, Kind(pc[t]) # "nothing",
         o \in {"ValueError", "400"} => Kind(pc[t]) = "remove" /\ cur[t].name \notin QueueNames
  PROVE  Registry!Next
<1>1. Wants[t] # <<"nothing">> /\ Wants[t] = <<Kind(pc[t]), cur[t].name>>
  BY WishIs DEF Wants
<1>2. o \in {"ValueError", "400"} => Wants[t][1] = "remove" /\ ~Registry!Holds(Wants[t][2])
  BY <1>1 DEF Registry!Holds, QueueNames
<1>3. Registry!Refuse(t)
  BY <1>1, <1>2, ReturnAnswers DEF Registry!Refuse, Registry!Nothing, Wants, Outcomes
<1>4. QED
  BY <1>3 DEF Registry!Next

\* And a call that only reads has inspected.
LEMMA ReturnInspects ==
  ASSUME TypeOK, NEW t \in Threads, NEW o \in Outcomes, Return(t, o),
         UNCHANGED queue, Kind(pc[t]) = "nothing"
  PROVE  Registry!Next
<1>1. Wants[t] = <<"nothing">>
  BY WishIs DEF Wants
<1>2. Wants' = Wants /\ Ends' = [Ends EXCEPT ![t] = o]
  BY <1>1, ReturnAnswers DEF Registry!Answer, Registry!Nothing, Wants, Ends
<1>3. Registry!Inspect(t)
  BY <1>1, <1>2 DEF Registry!Inspect, Registry!Nothing, Wants, Ends, Outcomes
<1>4. QED
  BY <1>3 DEF Registry!Next

\* The write to the queue adds a container whose name nobody holds, and which is younger than all.
LEMMA AppendAdds ==
  ASSUME TypeOK, TableInv, DaemonInv, ~disturbed, NEW t \in Threads, AppendToQueue(t)
  PROVE  Registry!Next
<1>1. /\ pc[t] = "append" /\ Goto(t, "enter") /\ UNCHANGED <<cur, outcome>>
      /\ queue' = Append(queue, [name |-> cur[t].name, id |-> cur[t].id])
  BY DEF AppendToQueue
<1>2. pc[t] \in Created
  BY <1>1 DEF Created
<1>3. cur[t].name \in Names /\ Wants[t] = <<"add", cur[t].name>>
  BY <1>1, CurType, WishIs, Kinds DEF Wants
<1>4. ~Registry!Holds(cur[t].name)
  BY <1>2 DEF DaemonInv, NewIsHeld, QueueNames, Registry!Holds
<1>5. cur[t].id \in 1..MaxId /\ \A k \in DOMAIN queue : queue[k].id < cur[t].id
  BY <1>1, ManagerAssumption DEF TableInv, DaemonInv, IdsAreGiven, TypeOK, NoId
<1>6. Registry!Answer(t, "ok")
  BY <1>1, EndAnswers, Kinds, Labels
<1>7. Registry!AddContainer(t)
  BY <1>1, <1>3, <1>4, <1>5, <1>6 DEF Registry!AddContainer, Wants
<1>8. QED
  BY <1>7 DEF Registry!Next

\* The write to the queue of removeContainer takes out the one entry of that name.
LEMMA DequeueRemoves ==
  ASSUME TypeOK, TableInv, NEW t \in Threads, RemoveFromQueue(t)
  PROVE  Registry!Next
<1> DEFINE e == [name |-> cur[t].name, id |-> cur[t].id]
<1>1. /\ pc[t] = "dequeue" /\ Goto(t, "unlist") /\ queue' = RemoveFirst(queue, e)
      /\ UNCHANGED <<cur, outcome>>
  BY DEF RemoveFromQueue
<1>2. queue \in Seq(Instance) /\ \E i \in 1..Len(queue) : queue[i] = e
  BY Dequeued
<1>3. PICK k \in 1..Len(queue) : queue[k] = e /\ queue' = RemoveAt(queue, k)
  BY <1>1, <1>2, RemoveFirstIsRemoveAt
<1>4. k \in DOMAIN queue /\ queue[k].name = cur[t].name
  BY <1>2, <1>3, LenProperties
<1>5. Wants[t] = <<"remove", queue[k].name>>
  BY <1>1, <1>4, WishIs, Kinds DEF Wants
<1>6. queue' = Registry!RemoveAt(queue, k)
  BY <1>3 DEF RemoveAt, Registry!RemoveAt
<1>7. Registry!Answer(t, "ok")
  BY <1>1, EndAnswers, Kinds, Labels
<1>8. Registry!RemoveContainer(t)
  BY <1>4, <1>5, <1>6, <1>7 DEF Registry!RemoveContainer, Wants
<1>9. QED
  BY <1>8 DEF Registry!Next

\* removeContainer says that a container does not exist only if no entry has its name.
LEMMA LookupFailsRefuses ==
  ASSUME TypeOK, TableInv, DaemonInv, ~disturbed, NEW t \in Threads, LookupFails(t)
  PROVE  Registry!Next
<1> DEFINE n == cur[t].name
           o == RemoveError(n, nameMap[n])
<1>1. pc[t] = "lookup" /\ Return(t, o) /\ UNCHANGED queue
  BY DEF LookupFails, tables
<1>2. o \in {"ValueError", "APIError", "NotFound"} /\ (o = "ValueError" => nameMap[n] = NoId)
  BY DEF RemoveError
<1>3. nameMap[n] = NoId => n \notin QueueNames
  <2>1. \A u \in Threads : pc[u] # "enter"
    BY <1>1, Exclusive, Labels
  <2>2. QED
    BY <2>1 DEF DaemonInv, IdsAreGiven, EntriesAgree, QueueNames, At
<1> HIDE DEF o
<1>4. QED
  BY <1>1, <1>2, <1>3, ErrorRefuses, Kinds DEF Outcomes, Errors

\* When neither a user of the docker CLI nor stop() removes containers.
Undisturbed == ~disturbed /\ pc["main"] # "stop"

\* Then the record of such removals stays empty.
LEMMA NobodyDisturbs ==
  ASSUME ~CliRemoves, ~MainStops
  PROVE  Spec => []Undisturbed
<1>1. Init => Undisturbed
  BY DEF Init, Undisturbed
<1>2. TypeOK /\ Undisturbed /\ [Next]_vars => Undisturbed'
  <2> SUFFICES ASSUME TypeOK, Undisturbed, [Next]_vars PROVE ~disturbed' /\ pc'["main"] # "stop"
    BY DEF Undisturbed
  <2>0. "main" \in Threads /\ "httpd" \in Threads
    BY DEF Threads
  <2>1. ASSUME NEW t \in Threads, NEW label, Goto(t, label), label # "stop" PROVE pc'["main"] # "stop"
    BY <2>0, <2>1 DEF Goto, TypeOK, Undisturbed
  <2>2. ASSUME NEW t \in Threads, Thread(t) PROVE ~disturbed' /\ pc'["main"] # "stop"
    <3>1. disturbed' = disturbed
      BY <2>2 DEF Thread, Acquire, Add, CallAdd, Begin, UnknownHost, Create, CreateFails, Start,
                  StartFails, WaitExists, WaitGet, WaitRunning, AppendToQueue, EnterInMap, ShowInList,
                  RemoveContainer, Find, Lookup, LookupFails, WaitRemoved, RemoveFromQueue,
                  RemoveFromList, DeleteFromMap, CallList, Read
    <3>2. \E label : Goto(t, label) /\ label # "stop"
      BY <2>2, Labels
      DEF Thread, Acquire, Add, CallAdd, Begin, UnknownHost, Create, CreateFails, Start,
                  StartFails, WaitExists, WaitGet, WaitRunning, AppendToQueue, EnterInMap, ShowInList,
                  RemoveContainer, Find, Lookup, LookupFails, WaitRemoved, RemoveFromQueue,
                  RemoveFromList, DeleteFromMap, CallList, Read, Return
    <3>3. QED
      BY <2>1, <3>1, <3>2 DEF Undisturbed
  <2>3. CASE MainOnly
    <3>1. ~CallStop /\ ~StopRemove /\ ~StopEnd
      BY DEF CallStop, StopRemove, StopEnd, Undisturbed
    <3>2. disturbed' = disturbed
      BY <2>3, <3>1 DEF MainOnly, CallRemove, Begin, CallMonitor, Monitor, RunRESTServerThread
    <3>3. \E t \in Threads : \E label : Goto(t, label) /\ label # "stop"
      BY <2>0, <2>3, <3>1 DEF MainOnly, CallRemove, Begin, CallMonitor, Monitor, RunRESTServerThread, Return
    <3>4. QED
      BY <2>1, <3>2, <3>3 DEF Undisturbed
  <2>4. CASE HttpdOnly
    <3>1. disturbed' = disturbed /\ \E label : Goto("httpd", label) /\ label # "stop"
      BY <2>4 DEF HttpdOnly, CallDelete, BadRequest, Begin, Return
    <3>2. QED
      BY <2>0, <2>1, <3>1 DEF Undisturbed
  <2>5. ASSUME NEW n \in Names, Daemon(n) \/ CliRemove(n) PROVE UNCHANGED <<disturbed, pc>>
    BY <2>5 DEF Daemon, ContainerExits, RemovalDone, CliRemove
  <2>6. QED
    BY <2>2, <2>3, <2>4, <2>5 DEF Next, vars, Undisturbed
<1>3. QED
  BY <1>1, <1>2, TypeCorrect, PTL DEF Spec

\* With nobody but its two threads at the daemon, the manager is the registry: every call has its
\* whole effect in one step, the write to the queue if it succeeds, and reports what that step did.
THEOREM ManagerImplementsRegistry ==
  ASSUME ~CliRemoves, ~MainStops
  PROVE  Spec => ImplementsRegistry
<1>1. Init => Registry!Init
  <2> SUFFICES ASSUME Init PROVE Registry!Init
    OBVIOUS
  <2>1. \A t \in Threads : Wish(t) = <<"nothing">>
    BY WishIs, Kinds DEF Init, Threads
  <2>2. \A t \in Threads : ~Done(t)
    BY DEF Init, Threads, Done
  <2>3. QED
    BY <2>1, <2>2 DEF Init, Registry!Init, Registry!Nothing
<1>2. TypeOK /\ TableInv /\ DaemonInv /\ Undisturbed /\ [Next]_vars
        => [Registry!Next]_(Registry!vars)
  <2> SUFFICES ASSUME TypeOK, TableInv, DaemonInv, Undisturbed, [Next]_vars
               PROVE  [Registry!Next]_(Registry!vars)
    OBVIOUS
  <2>0. ~disturbed /\ "main" \in Threads /\ "httpd" \in Threads
    BY DEF Undisturbed, Threads
  <2>1. ASSUME NEW t \in Threads, CallAdd(t) \/ CallList(t) PROVE [Registry!Next]_(Registry!vars)
    BY <2>1, BeginInvokes, Labels DEF CallAdd, CallList
  <2>2. CASE CallRemove \/ CallDelete
    BY <2>0, <2>2, BeginInvokes, Labels DEF CallRemove, CallDelete
  <2>3. ASSUME NEW t \in Threads, Acquire(t) PROVE UNCHANGED Registry!vars
    <3>1. /\ pc[t] \in {"add", "remove", "check", "list"} /\ Goto(t, EntryPoint[pc[t]])
          /\ UNCHANGED <<queue, outcome, cur>>
      BY <2>3, Labels DEF Acquire, tables
    <3>2. Kind(EntryPoint[pc[t]]) = Kind(pc[t])
      BY <3>1, Kinds DEF EntryPoint
    <3>3. QED
      BY <3>1, <3>2, GotoSame, Labels
  <2>4. ASSUME NEW t \in Threads, UnknownHost(t) \/ CreateFails(t) PROVE Registry!Next
    BY <2>4, ErrorRefuses, Kinds DEF UnknownHost, CreateFails, tables, Outcomes, Errors
  <2>5. ASSUME NEW t \in Threads, Create(t) PROVE UNCHANGED Registry!vars
    <3>1. \A u \in Threads : cur'[u].name = cur[u].name
      BY <2>5 DEF Create, TypeOK, Call
    <3>2. pc[t] = "create" /\ Goto(t, "start") /\ UNCHANGED <<queue, outcome>>
      BY <2>5 DEF Create, tables
    <3>3. QED
      BY <3>1, <3>2, GotoSame, Kinds, Labels
  <2>6. ASSUME NEW t \in Threads, Start(t) \/ WaitExists(t) \/ WaitRemoved(t) PROVE UNCHANGED Registry!vars
    BY <2>6, GotoSame, Kinds, Labels DEF Start, WaitExists, WaitRemoved, tables
  <2>7. ASSUME NEW t \in Threads, StartFails(t) PROVE Registry!Next
    BY <2>7, ErrorRefuses, Kinds DEF StartFails, tables, Outcomes, Errors
  <2>8. ASSUME NEW t \in Threads, WaitGet(t) PROVE [Registry!Next]_(Registry!vars)
    <3>1. pc[t] = "get" /\ UNCHANGED queue
      BY <2>8 DEF WaitGet, tables
    <3>2. CASE Return(t, "AttributeError")
      BY <3>1, <3>2, ErrorRefuses, Kinds DEF Outcomes, Errors
    <3>3. CASE UNCHANGED <<cur, outcome>> /\ (Goto(t, "append") \/ Goto(t, "running"))
      BY <3>1, <3>3, GotoSame, Kinds, Labels
    <3>4. QED
      BY <2>8, <3>2, <3>3 DEF WaitGet
  <2>9. ASSUME NEW t \in Threads, WaitRunning(t) PROVE [Registry!Next]_(Registry!vars)
    <3>1. pc[t] = "running" /\ UNCHANGED queue
      BY <2>9 DEF WaitRunning, tables
    <3>2. CASE Return(t, "NotFound")
      BY <3>1, <3>2, ErrorRefuses, Kinds DEF Outcomes, Errors
    <3>3. CASE UNCHANGED <<cur, outcome>> /\ Goto(t, "append")
      BY <3>1, <3>3, GotoSame, Kinds, Labels
    <3>4. QED
      BY <2>9, <3>2, <3>3 DEF WaitRunning
  <2>10. ASSUME NEW t \in Threads, Find(t) PROVE [Registry!Next]_(Registry!vars)
    <3>1. pc[t] = "find" /\ UNCHANGED queue
      BY <2>10 DEF Find, tables
    <3>2. CASE Return(t, "400") /\ cur[t].name \notin QueueNames
      BY <3>1, <3>2, ErrorRefuses, Kinds DEF Outcomes
    <3>3. CASE UNCHANGED <<cur, outcome>> /\ Goto(t, "remove")
      BY <3>1, <3>3, GotoSame, Kinds, Labels
    <3>4. QED
      BY <2>10, <3>2, <3>3 DEF Find
  <2>11. ASSUME NEW t \in Threads, Lookup(t) PROVE UNCHANGED Registry!vars
    <3>1. \A u \in Threads : cur'[u].name = cur[u].name
      BY <2>11 DEF Lookup, TypeOK, Call
    <3>2. pc[t] = "lookup" /\ UNCHANGED <<queue, outcome>> /\ (Goto(t, "removed") \/ Goto(t, "dequeue"))
      BY <2>11 DEF Lookup, tables
    <3>3. QED
      BY <3>1, <3>2, GotoSame, Kinds, Labels
  <2>12. ASSUME NEW t \in Threads, Read(t) PROVE Registry!Next
    BY <2>12, ReturnInspects, Kinds DEF Read, tables, Outcomes
  <2>13. CASE CallMonitor
    <3>1. pc["main"] = "idle" /\ UNCHANGED queue
      BY <2>13 DEF CallMonitor, tables
    <3>2. \/ Return("main", "ValueError")
          \/ Goto("main", "mon") /\ UNCHANGED outcome /\ \A u \in Threads : u # "main" => cur'[u] = cur[u]
      BY <2>13 DEF CallMonitor, TypeOK
    <3>3. QED
      BY <2>0, <3>1, <3>2, ReturnInspects, GotoSame, Kinds, Labels DEF Outcomes, Errors
  <2>14. CASE Monitor
    <3>1. pc["main"] = "mon" /\ UNCHANGED queue /\ \E o \in {"ok", "KeyError", "NotFound"} : Return("main", o)
      BY <2>14 DEF Monitor, tables
    <3>2. QED
      BY <2>0, <3>1, ReturnInspects, Kinds DEF Outcomes, Errors
  <2>15. CASE RunRESTServerThread
    BY <2>0, <2>15, GotoSame, Kinds, Labels DEF RunRESTServerThread, tables
  <2>16. ~CallStop /\ ~StopRemove /\ ~StopEnd
    BY DEF CallStop, StopRemove, StopEnd, Undisturbed
  <2>17. CASE BadRequest
    BY <2>0, <2>17, ReturnInspects, Kinds DEF BadRequest, tables, Outcomes
  <2>18. ASSUME NEW n \in Names, Daemon(n) \/ CliRemove(n) PROVE UNCHANGED Registry!vars
    BY <2>18, SameCalls DEF Daemon, ContainerExits, RemovalDone, CliRemove, tables
  <2>19. CASE UNCHANGED vars
    BY <2>19, SameCalls DEF vars, tables
  <2>20. QED
    BY <2>0, <2>1, <2>2, <2>3, <2>4, <2>5, <2>6, <2>7, <2>8, <2>9, <2>10, <2>11, <2>12, <2>13,
       <2>14, <2>15, <2>16, <2>17, <2>18, <2>19, AppendAdds, DequeueRemoves,
       CompletionSame, LookupFailsRefuses
    DEF Next, Thread, Add, RemoveContainer, MainOnly, HttpdOnly
<1>3. QED
  BY <1>1, <1>2, TypeCorrect, TablesCorrect, DaemonCorrect, NobodyDisturbs, PTL
  DEF Spec, ImplementsRegistry, Registry!Spec

=============================================================================
