------------------------ MODULE AppContainerManager ------------------------
(***************************************************************************)
(* comnetsemu/net.py: the APPContainerManager, called by the main thread   *)
(* of an emulation script and by the one thread of its REST server, over   *)
(* the Docker daemon.  A call is split where another thread, the daemon or *)
(* a user of the docker CLI can act or look: at the acquisition of         *)
(* _container_queue_lock, at each request to the daemon, at each write to  *)
(* a table (some readers take no lock) and at the return.                  *)
(***************************************************************************)
EXTENDS Naturals, Sequences, SequencesExt

CONSTANTS
  Names,           \* the names callers give to app containers
  MaxId,           \* bound: containers the daemon ever creates
  MaxCalls,        \* bound: calls one thread makes
  CliRemoves,      \* may a user remove containers with the docker CLI?
  ContainersExit,  \* may the command of a running container end by itself?
  MainStops        \* may the script call stop()?

ASSUME ManagerAssumption ==
  /\ Names # {}
  /\ MaxId \in Nat
  /\ MaxCalls \in Nat
  /\ CliRemoves \in BOOLEAN
  /\ ContainersExit \in BOOLEAN
  /\ MainStops \in BOOLEAN

VARIABLES
  lock,           \* the thread that holds _container_queue_lock, or Free
  pc,             \* where each thread is
  cur,            \* the name, wait flag and docker instance of its call
  queue,          \* _container_queue: APPContainers, by name and docker id
  nameMap,        \* _name_container_map: name -> docker id, or NoId
  appcontainers,  \* net._appcontainers: the names the CLI lists
  daemon,         \* the Docker daemon: the container that owns each name
  lastId,         \* the docker id given last
  stopIdx,        \* the position of stop()'s loop over the queue
  calls,          \* how many calls each thread has made
  outcome,        \* how the last call of each thread ended
  disturbed       \* has a container been removed that stays in the tables?

tables == <<queue, nameMap, appcontainers>>
vars == <<lock, pc, cur, tables, daemon, lastId, stopIdx, calls, outcome, disturbed>>

Threads == {"main", "httpd"}
Free == "free"
NoId == 0
Gone == [id |-> NoId, state |-> "absent"]
NoCall == [name |-> CHOOSE n \in Names : TRUE, wait |-> TRUE, id |-> NoId]

\* The program counters at which a thread wants the lock, and where it goes on.
EntryPoint == [add |-> "create", remove |-> "lookup", check |-> "find", list |-> "read"]
AddPc == {"create", "start", "exists", "get", "running", "append", "enter", "show"}
RemovePc == {"lookup", "removed", "dequeue", "unlist", "forget"}
Critical == AddPc \cup RemovePc \cup {"find", "read"}
Pc == {"off", "idle", "mon", "stop", "stopped"} \cup DOMAIN EntryPoint \cup Critical
Errors == {"ValueError", "KeyError", "InvalidDockerArgs", "AttributeError", "APIError", "NotFound"}

\* Is the container that got docker id i still known to the daemon under n?
Alive(n, i) == daemon[n].id = i /\ daemon[n].state # "absent"
Running(n, i) == daemon[n].id = i /\ daemon[n].state = "running"
QueueIds == {queue[k].id : k \in DOMAIN queue}
QueueNames == {queue[k].name : k \in DOMAIN queue}

Init ==
  /\ lock = Free
  /\ pc = [main |-> "idle", httpd |-> "off"]
  /\ cur = [t \in Threads |-> NoCall]
  /\ queue = <<>>
  /\ nameMap = [n \in Names |-> NoId]
  /\ appcontainers = <<>>
  /\ daemon = [n \in Names |-> Gone]
  /\ lastId = NoId
  /\ stopIdx = 1
  /\ calls = [t \in Threads |-> 0]
  /\ outcome = [t \in Threads |-> "none"]
  /\ disturbed = FALSE

----------------------------------------------------------------------------
\* Moves of a thread that several calls share.

Goto(t, label) == pc' = [pc EXCEPT ![t] = label]

\* Faulty variant: lock.release() after the body, without with or finally.
ReturnReleasesOnSuccess(t, o) ==
  /\ Goto(t, "idle")
  /\ outcome' = [outcome EXCEPT ![t] = o]
  /\ cur' = [cur EXCEPT ![t] = NoCall]
  /\ lock' = IF lock = t /\ o \notin Errors THEN Free ELSE lock

\* The call ends; a with statement releases the lock on every way out of it.
Return(t, o) ==
  /\ Goto(t, "idle")
  /\ outcome' = [outcome EXCEPT ![t] = o]
  /\ cur' = [cur EXCEPT ![t] = NoCall]
  /\ lock' = IF lock = t THEN Free ELSE lock

\* Thread t starts a call for the container n and goes to label.
Begin(t, n, w, label) ==
  /\ pc[t] = "idle"
  /\ calls[t] < MaxCalls
  /\ calls' = [calls EXCEPT ![t] = @ + 1]
  /\ cur' = [cur EXCEPT ![t] = [name |-> n, wait |-> w, id |-> NoId]]
  /\ Goto(t, label)
  /\ UNCHANGED <<lock, tables, daemon, lastId, stopIdx, outcome, disturbed>>

\* Faulty variant: the critical sections do not exclude each other.
AcquireUnguarded(t) ==
  /\ pc[t] \in DOMAIN EntryPoint
  /\ lock' = t
  /\ Goto(t, EntryPoint[pc[t]])
  /\ UNCHANGED <<cur, tables, daemon, lastId, stopIdx, calls, outcome, disturbed>>

\* with self._container_queue_lock: one thread at a time, in any order.
Acquire(t) ==
  /\ pc[t] \in DOMAIN EntryPoint
  /\ lock = Free
  /\ lock' = t
  /\ Goto(t, EntryPoint[pc[t]])
  /\ UNCHANGED <<cur, tables, daemon, lastId, stopIdx, calls, outcome, disturbed>>

----------------------------------------------------------------------------
\* addContainer, of the script or of do_POST (whose JSON may hold a "wait" too).

CallAdd(t) == \E n \in Names, w \in BOOLEAN : Begin(t, n, w, "add")

\* net.get(dhost) raises before the lock is taken.
UnknownHost(t) ==
  /\ pc[t] = "add"
  /\ Return(t, "KeyError")
  /\ UNCHANGED <<tables, daemon, lastId, stopIdx, calls, disturbed>>

Create(t) ==
  LET n == cur[t].name IN
  /\ pc[t] = "create"
  /\ daemon[n].state = "absent"
  /\ lastId < MaxId
  /\ lastId' = lastId + 1
  /\ daemon' = [daemon EXCEPT ![n] = [id |-> lastId + 1, state |-> "created"]]
  /\ cur' = [cur EXCEPT ![t].id = lastId + 1]
  /\ Goto(t, "start")
  /\ UNCHANGED <<lock, tables, stopIdx, calls, outcome, disturbed>>

\* A reserved argument, a missing image, or a name that is taken: nothing is created.
CreateFails(t) ==
  /\ pc[t] = "create"
  /\ \E e \in {"InvalidDockerArgs", "APIError"} : Return(t, e)
  /\ UNCHANGED <<tables, daemon, lastId, stopIdx, calls, disturbed>>

Start(t) ==
  LET n == cur[t].name IN
  /\ pc[t] = "start"
  /\ daemon[n] = [id |-> cur[t].id, state |-> "created"]
  /\ daemon' = [daemon EXCEPT ![n].state = "running"]
  /\ Goto(t, IF cur[t].wait THEN "exists" ELSE "append")
  /\ UNCHANGED <<lock, cur, tables, lastId, stopIdx, calls, outcome, disturbed>>

\* dins.start() raises (the command cannot be run, or the container is gone) and
\* addContainer does not remove what it created.
StartFails(t) ==
  /\ pc[t] = "start"
  /\ Return(t, IF Alive(cur[t].name, cur[t].id) THEN "APIError" ELSE "NotFound")
  /\ UNCHANGED <<tables, daemon, lastId, stopIdx, calls, disturbed>>

\* _waitContainerStart, first loop: until a container of that name exists.
WaitExists(t) ==
  /\ pc[t] = "exists"
  /\ daemon[cur[t].name].state # "absent"
  /\ Goto(t, "get")
  /\ UNCHANGED <<lock, cur, tables, daemon, lastId, stopIdx, calls, outcome, disturbed>>

\* The second _getDockerIns: None has no attrs.
WaitGet(t) ==
  LET n == cur[t].name IN
  /\ pc[t] = "get"
  /\ IF daemon[n].state = "absent"
     THEN Return(t, "AttributeError")
     ELSE /\ Goto(t, IF daemon[n].state = "running" THEN "append" ELSE "running")
          /\ UNCHANGED <<lock, cur, outcome>>
  /\ UNCHANGED <<tables, daemon, lastId, stopIdx, calls, disturbed>>

\* Second loop: reload() until State.Running; it goes round for a container that
\* has exited, and raises for one that is gone.
WaitRunning(t) ==
  LET n == cur[t].name IN
  /\ pc[t] = "running"
  /\ \/ /\ Running(n, cur[t].id)
        /\ Goto(t, "append")
        /\ UNCHANGED <<lock, cur, outcome>>
     \/ /\ ~Alive(n, cur[t].id)
        /\ Return(t, "NotFound")
  /\ UNCHANGED <<tables, daemon, lastId, stopIdx, calls, disturbed>>

\* The three writes of a registration, one after the other.
AppendToQueue(t) ==
  /\ pc[t] = "append"
  /\ queue' = Append(queue, [name |-> cur[t].name, id |-> cur[t].id])
  /\ Goto(t, "enter")
  /\ UNCHANGED <<lock, cur, nameMap, appcontainers, daemon, lastId, stopIdx, calls, outcome, disturbed>>

\* Faulty variant: the map keeps the entry it has for that name.
EnterInMapOnce(t) ==
  /\ pc[t] = "enter"
  /\ nameMap' = [nameMap EXCEPT ![cur[t].name] = IF @ = NoId THEN cur[t].id ELSE @]
  /\ Goto(t, "show")
  /\ UNCHANGED <<lock, cur, queue, appcontainers, daemon, lastId, stopIdx, calls, outcome, disturbed>>

EnterInMap(t) ==
  /\ pc[t] = "enter"
  /\ nameMap' = [nameMap EXCEPT ![cur[t].name] = cur[t].id]
  /\ Goto(t, "show")
  /\ UNCHANGED <<lock, cur, queue, appcontainers, daemon, lastId, stopIdx, calls, outcome, disturbed>>

ShowInList(t) ==
  /\ pc[t] = "show"
  /\ appcontainers' = Append(appcontainers, cur[t].name)
  /\ Return(t, "ok")
  /\ UNCHANGED <<queue, nameMap, daemon, lastId, stopIdx, calls, disturbed>>

----------------------------------------------------------------------------
\* removeContainer, of the script or of do_DELETE.

CallRemove == \E n \in Names, w \in BOOLEAN : Begin("main", n, w, "remove")

\* do_DELETE first asks for the container in a critical section of its own.
CallDelete == \E n \in Names : Begin("httpd", n, TRUE, "check")

Find(t) ==
  /\ pc[t] = "find"
  /\ IF cur[t].name \in QueueNames
     THEN /\ Goto(t, "remove")
          /\ lock' = Free
          /\ UNCHANGED <<cur, outcome>>
     ELSE Return(t, "400")
  /\ UNCHANGED <<tables, daemon, lastId, stopIdx, calls, disturbed>>

\* Faulty variant: the tables are cleared, and the container is left running.
LookupForgets(t) ==
  LET n == cur[t].name IN
  /\ pc[t] = "lookup"
  /\ nameMap[n] # NoId
  /\ cur' = [cur EXCEPT ![t].id = nameMap[n]]
  /\ Goto(t, "dequeue")
  /\ UNCHANGED <<lock, tables, daemon, lastId, stopIdx, calls, outcome, disturbed>>

\* Faulty variant: a container the daemon does not know any more is taken for removed.
LookupTolerates(t) ==
  LET n == cur[t].name
      i == nameMap[n] IN
  /\ pc[t] = "lookup"
  /\ i # NoId
  /\ Alive(n, i) => daemon[n].state # "removing"
  /\ daemon' = IF Alive(n, i) THEN [daemon EXCEPT ![n].state = "removing"] ELSE daemon
  /\ cur' = [cur EXCEPT ![t].id = i]
  /\ Goto(t, IF cur[t].wait THEN "removed" ELSE "dequeue")
  /\ UNCHANGED <<lock, tables, lastId, stopIdx, calls, outcome, disturbed>>

\* container.dins.remove(force=True) of the APPContainer the map holds.
Lookup(t) ==
  LET n == cur[t].name
      i == nameMap[n] IN
  /\ pc[t] = "lookup"
  /\ i # NoId
  /\ Alive(n, i)
  /\ daemon[n].state # "removing"
  /\ daemon' = [daemon EXCEPT ![n].state = "removing"]
  /\ cur' = [cur EXCEPT ![t].id = i]
  /\ Goto(t, IF cur[t].wait THEN "removed" ELSE "dequeue")
  /\ UNCHANGED <<lock, tables, lastId, stopIdx, calls, outcome, disturbed>>

\* How the removal of docker instance i of name n is refused.
RemoveError(n, i) ==
  IF i = NoId THEN "ValueError" ELSE IF Alive(n, i) THEN "APIError" ELSE "NotFound"

\* The name is unknown to the manager, the container is unknown to the daemon, or
\* its removal is already in progress: the exception leaves the tables alone.
LookupFails(t) ==
  LET n == cur[t].name
      i == nameMap[n] IN
  /\ pc[t] = "lookup"
  /\ i # NoId => ~Alive(n, i) \/ daemon[n].state = "removing"
  /\ Return(t, RemoveError(n, i))
  /\ UNCHANGED <<tables, daemon, lastId, stopIdx, calls, disturbed>>

\* Faulty variant: nobody waits for the daemon.
WaitRemovedSkipped(t) ==
  /\ pc[t] = "removed"
  /\ Goto(t, "dequeue")
  /\ UNCHANGED <<lock, cur, tables, daemon, lastId, stopIdx, calls, outcome, disturbed>>

\* _waitContainerRemoved looks the name up until the daemon does not know it.
WaitRemoved(t) ==
  /\ pc[t] = "removed"
  /\ daemon[cur[t].name].state = "absent"
  /\ Goto(t, "dequeue")
  /\ UNCHANGED <<lock, cur, tables, daemon, lastId, stopIdx, calls, outcome, disturbed>>

\* The three writes of a removal.  list.remove takes out the APPContainer itself,
RemoveFromQueue(t) ==
  /\ pc[t] = "dequeue"
  /\ queue' = RemoveFirst(queue, [name |-> cur[t].name, id |-> cur[t].id])
  /\ Goto(t, "unlist")
  /\ UNCHANGED <<lock, cur, nameMap, appcontainers, daemon, lastId, stopIdx, calls, outcome, disturbed>>

\* the first equal name,
RemoveFromList(t) ==
  /\ pc[t] = "unlist"
  /\ appcontainers' = RemoveFirst(appcontainers, cur[t].name)
  /\ Goto(t, "forget")
  /\ UNCHANGED <<lock, cur, queue, nameMap, daemon, lastId, stopIdx, calls, outcome, disturbed>>

\* and del the key.
DeleteFromMap(t) ==
  /\ pc[t] = "forget"
  /\ nameMap' = [nameMap EXCEPT ![cur[t].name] = NoId]
  /\ Return(t, "ok")
  /\ UNCHANGED <<queue, appcontainers, daemon, lastId, stopIdx, calls, disturbed>>

----------------------------------------------------------------------------
\* The other calls.

\* getAllContainers, getContainersDhost and getContainerInstance; do_GET.
CallList(t) == \E n \in Names : Begin(t, n, TRUE, "list")

Read(t) ==
  /\ pc[t] = "read"
  /\ Return(t, "ok")
  /\ UNCHANGED <<tables, daemon, lastId, stopIdx, calls, disturbed>>

\* A request with a wrong path, no body or a missing key.
BadRequest ==
  /\ pc["httpd"] = "idle"
  /\ calls["httpd"] < MaxCalls
  /\ calls' = [calls EXCEPT !["httpd"] = @ + 1]
  /\ Return("httpd", "400")
  /\ UNCHANGED <<tables, daemon, lastId, stopIdx, disturbed>>

\* monResourceStats reads the map without the lock and keeps the APPContainer.
CallMonitor ==
  /\ pc["main"] = "idle"
  /\ calls["main"] < MaxCalls
  /\ calls' = [calls EXCEPT !["main"] = @ + 1]
  /\ \E n \in Names :
       IF nameMap[n] = NoId
       THEN Return("main", "ValueError")
       ELSE /\ Goto("main", "mon")
            /\ cur' = [cur EXCEPT !["main"] = [name |-> n, wait |-> TRUE, id |-> nameMap[n]]]
            /\ UNCHANGED <<lock, outcome>>
  /\ UNCHANGED <<tables, daemon, lastId, stopIdx, disturbed>>

\* The last of its samples, or the first that raises; the ones before change nothing.
Monitor ==
  LET c == cur["main"] IN
  /\ pc["main"] = "mon"
  /\ Return("main", CASE Running(c.name, c.id) -> "ok"
                      [] Alive(c.name, c.id) -> "KeyError"
                      [] OTHER -> "NotFound")
  /\ UNCHANGED <<tables, daemon, lastId, stopIdx, calls, disturbed>>

RunRESTServerThread ==
  /\ pc["main"] = "idle"
  /\ pc["httpd"] = "off"
  /\ Goto("httpd", "idle")
  /\ UNCHANGED <<lock, cur, tables, daemon, lastId, stopIdx, calls, outcome, disturbed>>

\* stop() walks the live queue without the lock and leaves the tables as they are.
CallStop ==
  /\ MainStops
  /\ pc["main"] = "idle"
  /\ Goto("main", "stop")
  /\ stopIdx' = 1
  /\ UNCHANGED <<lock, cur, tables, daemon, lastId, calls, outcome, disturbed>>

StopRemove ==
  /\ pc["main"] = "stop"
  /\ stopIdx <= Len(queue)
  /\ LET c == queue[stopIdx] IN
       IF Alive(c.name, c.id) /\ daemon[c.name].state # "removing"
       THEN /\ daemon' = [daemon EXCEPT ![c.name].state = "removing"]
            /\ stopIdx' = stopIdx + 1
            /\ disturbed' = TRUE
            /\ UNCHANGED <<lock, pc, cur, outcome>>
       ELSE /\ Return("main", RemoveError(c.name, c.id))
            /\ UNCHANGED <<daemon, stopIdx, disturbed>>
  /\ UNCHANGED <<tables, lastId, calls>>

StopEnd ==
  /\ pc["main"] = "stop"
  /\ stopIdx > Len(queue)
  /\ Goto("main", "stopped")
  /\ outcome' = [outcome EXCEPT !["main"] = "ok"]
  /\ UNCHANGED <<lock, cur, tables, daemon, lastId, stopIdx, calls, disturbed>>

----------------------------------------------------------------------------
\* The daemon and the user of the docker CLI.

ContainerExits(n) ==
  /\ ContainersExit
  /\ daemon[n].state = "running"
  /\ daemon' = [daemon EXCEPT ![n].state = "exited"]
  /\ UNCHANGED <<lock, pc, cur, tables, lastId, stopIdx, calls, outcome, disturbed>>

RemovalDone(n) ==
  /\ daemon[n].state = "removing"
  /\ daemon' = [daemon EXCEPT ![n] = Gone]
  /\ UNCHANGED <<lock, pc, cur, tables, lastId, stopIdx, calls, outcome, disturbed>>

CliRemove(n) ==
  /\ CliRemoves
  /\ daemon[n].state \in {"created", "running", "exited"}
  /\ daemon' = [daemon EXCEPT ![n].state = "removing"]
  /\ disturbed' = TRUE
  /\ UNCHANGED <<lock, pc, cur, tables, lastId, stopIdx, calls, outcome>>

----------------------------------------------------------------------------
Add(t) ==
  \/ CallAdd(t) \/ UnknownHost(t) \/ Create(t) \/ CreateFails(t) \/ Start(t) \/ StartFails(t)
  \/ WaitExists(t) \/ WaitGet(t) \/ WaitRunning(t)
  \/ AppendToQueue(t) \/ EnterInMap(t) \/ ShowInList(t)

RemoveContainer(t) ==
  \/ Find(t) \/ Lookup(t) \/ LookupFails(t) \/ WaitRemoved(t)
  \/ RemoveFromQueue(t) \/ RemoveFromList(t) \/ DeleteFromMap(t)

Thread(t) == Acquire(t) \/ Add(t) \/ RemoveContainer(t) \/ CallList(t) \/ Read(t)

MainOnly ==
  \/ CallRemove \/ CallMonitor \/ Monitor \/ RunRESTServerThread
  \/ CallStop \/ StopRemove \/ StopEnd

HttpdOnly == CallDelete \/ BadRequest

Daemon(n) == ContainerExits(n) \/ RemovalDone(n)

Next ==
  \/ \E t \in Threads : Thread(t)
  \/ MainOnly
  \/ HttpdOnly
  \/ \E n \in Names : Daemon(n) \/ CliRemove(n)

Spec == Init /\ [][Next]_vars

\* Inside a call a thread runs on, and the daemon completes a removal it accepted.
\* Nothing obliges a caller to call, a container to exit or a user to use the CLI.
InCall(t) ==
  \/ Acquire(t) \/ Create(t) \/ CreateFails(t) \/ Start(t) \/ StartFails(t) \/ WaitExists(t)
  \/ WaitGet(t) \/ WaitRunning(t) \/ AppendToQueue(t) \/ EnterInMap(t) \/ ShowInList(t)
  \/ RemoveContainer(t) \/ Read(t)

FairSpec ==
  /\ Spec
  /\ \A t \in Threads : WF_vars(InCall(t))
  /\ WF_vars(Monitor) /\ WF_vars(StopRemove) /\ WF_vars(StopEnd)
  /\ \A n \in Names : WF_vars(RemovalDone(n))
----------------------------------------------------------------------------
\* Properties.

Instance == [name : Names, id : Nat]
Call == [name : Names, wait : BOOLEAN, id : Nat]

\* Every variable holds a value of its type.
TypeOK ==
  /\ lock \in Threads \cup {Free}
  /\ pc \in [Threads -> Pc]
  /\ cur \in [Threads -> Call]
  /\ queue \in Seq(Instance)
  /\ nameMap \in [Names -> Nat]
  /\ appcontainers \in Seq(Names)
  /\ daemon \in [Names -> [id : Nat, state : {"absent", "created", "running", "exited", "removing"}]]
  /\ lastId \in Nat
  /\ stopIdx \in Nat \ {0}
  /\ calls \in [Threads -> Nat]
  /\ outcome \in [Threads -> {"none", "ok", "400"} \cup Errors]
  /\ disturbed \in BOOLEAN

\* The queue lists the containers in the order the daemon created them, although two
\* threads add: the lock is held from the creation to the registration
\* (test_net.py:203, "Test the lock: c2 must be created earlier than c1").
CreationOrder ==
  \A i, j \in DOMAIN queue : i < j => queue[i].id < queue[j].id

\* Is the thread that works on the tables (there is one, the holder of the lock) at one of
\* these labels with container i of name n?
At(labels, n, i) == \E t \in Threads : pc[t] \in labels /\ cur[t].name = n /\ cur[t].id = i
AtName(labels, n) == \E t \in Threads : pc[t] \in labels /\ cur[t].name = n

\* What a reader finds in the map without the lock is in the queue, or was just taken out of
\* it by the removal that will delete it from the map.
MapInQueue ==
  \A n \in Names : nameMap[n] # NoId =>
    \/ [name |-> n, id |-> nameMap[n]] \in ToSet(queue)
    \/ At({"unlist", "forget"}, n, nameMap[n])

\* When a user of the docker CLI removes a container and its name is added again, the queue
\* holds the name twice: the map then leads to the younger one, or nowhere.
MapLeadsToYoungest ==
  \A k \in DOMAIN queue :
    LET c == queue[k] IN
      \/ nameMap[c.name] = NoId
      \/ nameMap[c.name] >= c.id
      \/ At({"enter"}, c.name, c.id)

\* removeContainer never removes an object the list operations do not show, nor an older one
\* than they show, and a reader without the lock meets at most one that is on its way out.
MapIsOfQueue == MapInQueue /\ MapLeadsToYoungest

Occurrences(s, n) == Cardinality({k \in DOMAIN s : s[k] = n})

\* net._appcontainers, which the CLI command appcontainers prints without the lock, holds each
\* name as often as the queue does, but for the one container that the holder of the lock has
\* put into or taken out of one of them only: list.remove finds what it removes.
CliListMirrorsQueue ==
  \A n \in Names :
    Occurrences(appcontainers, n) + (IF AtName({"enter", "show"}, n) THEN 1 ELSE 0)
      = Cardinality({k \in DOMAIN queue : queue[k].name = n}) + (IF AtName({"unlist"}, n) THEN 1 ELSE 0)

\* Until the CLI or stop() removes a container, a name stands in the queue once and the map
\* leads to that entry, as soon as it is entered: getContainerInstance and removeContainer
\* mean one container.
OneContainerPerName ==
  ~disturbed =>
    /\ \A j, k \in DOMAIN queue : queue[j].name = queue[k].name => j = k
    /\ \A k \in DOMAIN queue :
         LET c == queue[k] IN nameMap[c.name] = c.id \/ At({"enter"}, c.name, c.id)

\* Until the CLI or stop() removes a container, each one of the queue exists, but
\* for the one that the holder of the lock is removing.
TrackedExists ==
  ~disturbed =>
    \A k \in DOMAIN queue :
      LET c == queue[k] IN
        \/ Alive(c.name, c.id)
        \/ /\ lock # Free
           /\ pc[lock] \in {"removed", "dequeue"}
           /\ cur[lock].id = c.id

\* monResourceStats works on an APPContainer it looked up without the lock.  A sample
\* that succeeds is of a container that is still registered: removal takes the container
\* from the daemon before it takes it from the tables.
SampledIsRegistered ==
  pc["main"] = "mon" /\ Running(cur["main"].name, cur["main"].id) =>
    cur["main"].id \in QueueIds

\* The daemon agrees with the tables until someone else removes containers (net.py:346-382).
DaemonAgrees == OneContainerPerName /\ TrackedExists

\* So do those who read without the lock between any two writes: the CLI (cli.py:50) and
\* monResourceStats (net.py:423).
ReadersAgree == CliListMirrorsQueue /\ SampledIsRegistered

\* stop() walks the live queue while the other thread adds and removes.  An iterator over a
\* list skips an element when one it has passed is taken out: it does not happen here, so each
\* container that stop() has gone by is removed or being removed.
StopSkipsNone ==
  pc["main"] \in {"stop", "stopped"} =>
    \A k \in DOMAIN queue : k < stopIdx =>
      ~Alive(queue[k].name, queue[k].id) \/ daemon[queue[k].name].state = "removing"

\* When removeContainer(wait=True) returns, the daemon has let go of that name: an
\* addContainer that follows cannot meet the old container.
RemovedNameIsFree ==
  [][\A t \in Threads :
       pc[t] = "forget" /\ pc'[t] = "idle" /\ cur[t].wait =>
         daemon[cur[t].name].state = "absent"]_vars

\* What makes the order and the map inductive: a thread in a critical section holds the
\* lock; what it creates is the youngest container there is, and last in the queue once it
\* is there; what it removes is in the map until the last write, and in no entry after the first.
TableInv ==
  /\ \A t \in Threads : pc[t] \in Critical => lock = t
  /\ \A k \in DOMAIN queue : queue[k].id <= lastId
  /\ \A t \in Threads :
       pc[t] \in {"start", "exists", "get", "running", "append"} =>
         /\ cur[t].id = lastId /\ lastId # NoId
         /\ \A k \in DOMAIN queue : queue[k].id < lastId
  /\ \A t \in Threads :
       pc[t] \in {"enter", "show"} =>
         /\ cur[t].id = lastId /\ lastId # NoId
         /\ [name |-> cur[t].name, id |-> cur[t].id] \in ToSet(queue)
         /\ pc[t] = "show" => nameMap[cur[t].name] = cur[t].id
  /\ \A t \in Threads :
       pc[t] \in {"removed", "dequeue", "unlist", "forget"} =>
         cur[t].id # NoId /\ nameMap[cur[t].name] = cur[t].id
  /\ \A t \in Threads :
       pc[t] \in {"unlist", "forget"} => cur[t].id <= lastId /\ cur[t].id \notin QueueIds
  /\ CreationOrder
  /\ MapIsOfQueue

\* A container that is new in the queue is the last one created, and last in the queue.
AppendsYoungest ==
  \A k \in DOMAIN queue' : queue'[k].id \notin QueueIds =>
    queue'[k].id = lastId /\ k = Len(queue')

\* Each addContainer registers the container it created: the id the thread got from the
\* daemon, which no other call may have replaced or registered in the meantime.
RegisteredOnce == [][AppendsYoungest]_vars

\* Does the holder of the lock wait for a container that has ended to run?
Hangs(t) ==
  pc[t] = "running" /\ daemon[cur[t].name].state = "exited"

\* Every call returns, also when the other thread calls at the same time, unless
\* _waitContainerStart goes round for ever with the lock in its hand.
CallsReturn ==
  \A t \in Threads :
    pc[t] \notin {"off", "idle", "stopped"} ~>
      pc[t] \in {"idle", "stopped"} \/ \E u \in Threads : Hangs(u)

\* The call a thread is in, in the words of the abstract registry.  It is over for the
\* registry with the write to the queue; the writes that follow only complete the other tables.
Done(t) == pc[t] \in {"enter", "show", "unlist", "forget"}
Wish(t) ==
  IF Done(t) THEN <<"nothing">>
  ELSE IF pc[t] \in AddPc \cup {"add"} THEN <<"add", cur[t].name>>
  ELSE IF pc[t] \in RemovePc \cup {"remove", "check", "find"} THEN <<"remove", cur[t].name>>
  ELSE <<"nothing">>

Registry == INSTANCE ContainerRegistry WITH
  entries <- queue,
  wants <- [t \in Threads |-> Wish(t)],
  outcome <- [t \in Threads |-> IF Done(t) THEN "ok" ELSE outcome[t]],
  Ids <- 1..MaxId,
  Outcomes <- {"none", "ok", "400"} \cup Errors

\* With nobody but its two threads at the daemon, the manager is that registry: each call has
\* its whole effect in one step, the write to the queue, which comes before it returns.
ImplementsRegistry == Registry!Spec

\* do_DELETE's check (net.py:157) and test_net.py:209-210: the answer to a DELETE of a
\* container that does not exist is 400.
DeleteOfMissingGets400 ==
  [][pc["httpd"] = "lookup" /\ pc'["httpd"] = "idle" /\ nameMap[cur["httpd"].name] = NoId =>
       outcome'["httpd"] = "400"]_vars

=============================================================================
