------------------------------ MODULE EdgeCloud ------------------------------
(***************************************************************************)
(* The mobile edge cloud of app/realizing_mobile_edge_clouds: an agent     *)
(* probes all servers through the switches, the controller takes the time  *)
(* of their answers and announces the fastest one, and the orchestrator    *)
(* edgecloud.py moves the application container there.                     *)
(*                                                                         *)
(* Times are in units of 10 ms.  Tick goes to the next arrival; packets    *)
(* that arrive together are handled in any order, each handler at once, as *)
(* Ryu runs one at a time.  A switch sends a probe on once for each server *)
(* it knows of, so copies multiply on their way down, and a server answers *)
(* all of them one after the other.  Copies that are on the same link at   *)
(* the same time are one element of wire, and copies counts them.  No rule *)
(* of the controller concerns these packets: the one it installs matches   *)
(* unicast packets of the client, which sends broadcasts.  The ARP times,  *)
(* only logged, are left out.                                              *)
(***************************************************************************)
EXTENDS Integers, Sequences, FiniteSets, SequencesExt

CONSTANTS
  Servers,    \* the servers that take part
  Work,       \* what the loop of a probing server may take
  MaxProbes,  \* bound: probes of the agent
  Limit,      \* the number of deployments after which the next one is the last
  MaxRuns,    \* bound: runs of edgecloud.py under one controller
  NoServer

ASSUME EdgeCloudAssumption ==
  /\ Servers \subseteq {"server1", "server2", "server3", "server4"}
  /\ Work \subseteq Nat /\ Work # {}
  /\ MaxProbes \in Nat /\ Limit \in Nat /\ MaxRuns \in Nat \ {0}

VARIABLES
  known,      \* hosts whose address every switch has seen (mac_to_port)
  started,    \* msg_cnt > 80
  age,        \* the time since self.time[1] was set
  latency,    \* self.latency[1], a dictionary in order of insertion
  optimal,    \* optimal_host
  wire,       \* packets on their way: where to, from which server (or probe), when
  copies,     \* how many copies of the probe are at or on their way to each switch
  busy,       \* the time each server still needs for what has been sent to it
  sock,       \* datagrams in the socket of the orchestrator
  phase,      \* where the orchestrator is
  wanted,     \* the server it read last
  placed,     \* where server_container runs
  active,     \* active_container
  cnt,        \* deployments of this run
  decided,    \* history: the best server changed during this run
  whole,      \* history: the last probe was answered before the next one and no answer was lost
  response,   \* history: when the last answer of each server to the last probe was due
  probes, runs  \* counters of the bounds

controller == <<known, started, age, latency, optimal>>
network == <<wire, copies, busy, whole, response, probes>>
orchestrator == <<phase, wanted, placed, active, cnt, runs>>
vars == <<controller, network, orchestrator, sock, decided>>

----------------------------------------------------------------------------
(* The tree, with full_tree = False.                                       *)

Client == "client1"
Probe == "probe1"
Root == "switch1"
Switches == {"switch1", "switch11", "switch111", "switch112"}
Up == [w \in Switches \ {Root} |-> IF w = "switch11" THEN Root ELSE "switch11"]
Leaf == [server1 |-> "switch111", server2 |-> "switch111",
         server3 |-> "switch112", server4 |-> "switch112"]
Delay == [server1 |-> 10, server2 |-> 15, server3 |-> 20, server4 |-> 25]
Hop == 1

Children(w) == {v \in DOMAIN Up : Up[v] = w}
Below(w) == {s \in Servers : w \in {Leaf[s], Up[Leaf[s]], Root}}
AtLeaf(w) == {s \in Servers : Leaf[s] = w}

----------------------------------------------------------------------------
(* The controller.                                                         *)

\* Faulty variant: an entry, once there, is kept.
UpdatedOnce(table, s, ms) ==
  IF \E i \in DOMAIN table : table[i].mac = s
  THEN table ELSE Append(table, [mac |-> s, ms |-> ms])

\* A dictionary entry that is overwritten keeps its place.
Updated(table, s, ms) ==
  IF \E i \in DOMAIN table : table[i].mac = s
  THEN [i \in DOMAIN table |-> IF table[i].mac = s THEN [mac |-> s, ms |-> ms] ELSE table[i]]
  ELSE Append(table, [mac |-> s, ms |-> ms])

\* The first of the smallest, as list.index finds it.
Fastest(table) ==
  LET first == CHOOSE i \in DOMAIN table : \A j \in DOMAIN table :
                 table[i].ms < table[j].ms \/ (table[i].ms = table[j].ms /\ i <= j)
  IN table[first].mac

\* Every packet the controller sees counts for the end of the start-up.
Counts == started' \in {started, TRUE}

Running == phase \notin {"ended", "raised"}
Due(w, from) == [at |-> w, from |-> from, due |-> 0] \in wire
Others(w, from) == wire \ {[at |-> w, from |-> from, due |-> 0]}

Init ==
  /\ known = {} /\ started = FALSE /\ age = 0 /\ latency = <<>> /\ optimal = NoServer
  /\ wire = {} /\ whole = FALSE /\ probes = 0
  /\ copies = [w \in Switches |-> 0] /\ busy = [s \in Servers |-> 0]
  /\ response = [s \in Servers |-> 0]
  /\ phase = "start" /\ wanted = NoServer /\ placed = NoServer /\ active = FALSE
  /\ cnt = 0 /\ runs = 1
  /\ sock = <<>> /\ decided = FALSE

\* pingAll, before any container runs: the broadcasts of those whose pings get through.
PingAll ==
  /\ phase = "start"
  /\ phase' = "settle"
  /\ \E heard \in SUBSET (Servers \cup {Client}) : known' = known \cup heard
  /\ Counts
  /\ UNCHANGED <<age, latency, optimal, network, wanted, placed, active, cnt, runs, sock, decided>>

\* A request of the client is a broadcast, flooded by every switch.
Request ==
  /\ Running /\ phase # "start"
  /\ known' = known \cup {Client}
  /\ Counts
  /\ UNCHANGED <<age, latency, optimal, network, orchestrator, sock, decided>>

\* The agent's datagram reaches the first switch.  Its sleep of five seconds is enough for the one
\* before to reach the servers, not for them to answer.
ProbeSends ==
  /\ Running /\ phase # "start"
  /\ probes < MaxProbes
  /\ \A m \in wire : m.from # Probe
  /\ probes' = probes + 1
  /\ wire' = wire \cup {[at |-> Root, from |-> Probe, due |-> 0]}
  /\ copies' = [copies EXCEPT ![Root] = 1]
  /\ whole' = (wire = {})
  /\ UNCHANGED <<controller, busy, response, orchestrator, sock, decided>>

\* Time goes on to the next arrival.
Tick ==
  /\ wire # {}
  /\ \A m \in wire : m.due > 0
  /\ LET step == CHOOSE d \in {m.due : m \in wire} : \A m \in wire : d <= m.due IN
     /\ wire' = {[m EXCEPT !.due = @ - step] : m \in wire}
     /\ busy' = [s \in Servers |-> IF busy[s] > step THEN busy[s] - step ELSE 0]
     /\ age' = age + step
  /\ UNCHANGED <<known, started, latency, optimal, copies, whole, response, probes, orchestrator, sock, decided>>

\* When a server has sent its answer to a copy that its switch sends to it now: it takes one
\* after the other, each with a loop of a length of its own.
Sent(s, work) == (IF busy[s] > Delay[s] THEN busy[s] ELSE Delay[s]) + work

\* One copy of a probe at a switch: it goes on once for each known server, except back to where
\* it came from.
ProbeAtSwitch(w) ==
  /\ Due(w, Probe)
  /\ Counts
  /\ age' = IF known \cap Servers = {} THEN age ELSE 0
  /\ copies' = [v \in Switches |->
       IF v = w THEN copies[w] - 1
       ELSE IF v \in Children(w) THEN copies[v] + Cardinality(Below(v) \cap known) ELSE copies[v]]
  /\ \E work \in [AtLeaf(w) \cap known -> Work] :
       LET took == [s \in DOMAIN work |-> Sent(s, work[s]) + Delay[s]] IN
       /\ wire' = (IF copies[w] > 1 THEN wire ELSE Others(w, Probe))
            \cup {[at |-> v, from |-> Probe, due |-> Hop] :
                   v \in {c \in Children(w) : Below(c) \cap known # {}}}
            \cup {[at |-> w, from |-> s, due |-> took[s]] : s \in DOMAIN work}
       /\ busy' = [s \in Servers |-> IF s \in DOMAIN work THEN Sent(s, work[s]) ELSE busy[s]]
       /\ response' = [s \in Servers |-> IF s \in DOMAIN work THEN took[s] ELSE response[s]]
  /\ UNCHANGED <<known, latency, optimal, whole, probes, orchestrator, sock, decided>>

\* Faulty variant: the rule is installed before the announcement.
ReplyRuleFirst(s, w) ==
  /\ latency' = Updated(latency, s, age)
  /\ LET best == Fastest(latency')
         changed == started' /\ best # optimal
         raises == started' /\ Client \notin known
     IN /\ optimal' = IF changed THEN best ELSE optimal
        /\ sock' = IF changed /\ ~raises THEN Append(sock, best) ELSE sock
        /\ decided' = (decided \/ changed)
        /\ whole' = (whole /\ ~raises)
        /\ wire' = Others(w, s) \cup
             (IF w = Root \/ raises THEN {} ELSE {[at |-> Up[w], from |-> s, due |-> Hop]})

\* What a packet that answers a probe changes: the table, and after the start-up the best server
\* with its announcement.  The ports of the rule raise if the client was never seen, and the
\* packet is lost; otherwise it goes on towards the agent.
Reply(s, w) ==
  /\ latency' = Updated(latency, s, age)
  /\ LET best == Fastest(latency')
         changed == started' /\ best # optimal
     IN /\ optimal' = IF changed THEN best ELSE optimal
        /\ sock' = IF changed THEN Append(sock, best) ELSE sock
        /\ decided' = (decided \/ changed)
  /\ whole' = (whole /\ (started' => Client \in known))
  /\ wire' = Others(w, s) \cup
       (IF w = Root \/ (started' /\ Client \notin known) THEN {}
        ELSE {[at |-> Up[w], from |-> s, due |-> Hop]})

ReplyAtSwitch(s, w) ==
  /\ Due(w, s)
  /\ Counts
  /\ Reply(s, w)
  /\ UNCHANGED <<known, age, copies, busy, response, probes, orchestrator>>

----------------------------------------------------------------------------
(* The orchestrator.                                                       *)

\* Hosts, links and containers are up, and the sleeps before the loop are over.
Listen ==
  /\ phase = "settle"
  /\ phase' = "wait"
  /\ UNCHANGED <<controller, network, wanted, placed, active, cnt, runs, sock, decided>>

\* Faulty variant: the container in place is forgotten.
ReceiveNoRemoval ==
  /\ phase = "wait" /\ sock # <<>>
  /\ wanted' = Head(sock)
  /\ sock' = Tail(sock)
  /\ phase' = "pause"
  /\ UNCHANGED <<controller, network, placed, active, cnt, runs, decided>>

\* An announcement: the container that is in place goes first.
Receive ==
  /\ phase = "wait" /\ sock # <<>>
  /\ wanted' = Head(sock)
  /\ sock' = Tail(sock)
  /\ placed' = IF active THEN NoServer ELSE placed
  /\ phase' = "pause"
  /\ UNCHANGED <<controller, network, active, cnt, runs, decided>>

\* addContainer, which raises as long as the name is taken.
Deploy ==
  /\ phase = "pause"
  /\ placed' = IF placed = NoServer THEN wanted ELSE placed
  /\ phase' = IF placed = NoServer THEN "sleep" ELSE "raised"
  /\ cnt' = cnt + 1
  /\ active' = TRUE
  /\ UNCHANGED <<controller, network, wanted, runs, sock, decided>>

Wake ==
  /\ phase = "sleep"
  /\ phase' = IF cnt > Limit THEN "closing" ELSE "wait"
  /\ UNCHANGED <<controller, network, wanted, placed, active, cnt, runs, sock, decided>>

\* The containers are removed, the network stops, and the rest of the containers is removed.
Close ==
  /\ phase = "closing"
  /\ phase' = "ended"
  /\ placed' = NoServer
  /\ wire' = {} /\ copies' = [w \in Switches |-> 0] /\ busy' = [s \in Servers |-> 0]
  /\ whole' = (whole /\ wire = {})
  /\ UNCHANGED <<controller, response, probes, wanted, active, cnt, runs, sock, decided>>

\* The user runs edgecloud.py once more, under the controller that still runs.
RunAgain ==
  /\ phase = "ended" /\ runs < MaxRuns
  /\ runs' = runs + 1
  /\ phase' = "start" /\ wanted' = NoServer /\ active' = FALSE /\ cnt' = 0
  /\ sock' = <<>> /\ decided' = FALSE
  /\ UNCHANGED <<controller, network, placed>>

Orchestrator == PingAll \/ Listen \/ Receive \/ Deploy \/ Wake \/ Close

Next ==
  \/ Request
  \/ ProbeSends
  \/ Tick
  \/ \E w \in Switches : ProbeAtSwitch(w)
  \/ \E s \in Servers, w \in Switches : ReplyAtSwitch(s, w)
  \/ Orchestrator
  \/ RunAgain

Spec == Init /\ [][Next]_vars

\* The orchestrator goes on where it does not wait for a datagram.
FairSpec == Spec /\ WF_vars(Orchestrator)

----------------------------------------------------------------------------
(* Properties.                                                             *)

\* When all servers have answered a probe before the next one, the best server is one whose last
\* answer came back first (controller.py:144-149, 222-266): copies of a probe multiply, servers
\* answer each, three switches time each answer against a time that each copy overwrites, later
\* answers overwrite earlier ones, and old entries stay in the table.
FastestWins ==
  whole /\ wire = {} /\ optimal # NoServer /\ Servers \subseteq known
    /\ (\A s \in Servers : response[s] > 0)
  => \A s \in Servers : response[optimal] <= response[s]

\* Once the best server has changed during a run, what the orchestrator will have deployed after
\* it has read all announcements is what the controller holds for the best server, although it
\* reads them long after they were sent and the controller never repeats one
\* (controller.py:265-267, edgecloud.py:269-292).
LastWordCounts ==
  decided /\ Running /\ phase # "closing" =>
    optimal = IF sock # <<>> THEN Last(sock)
              ELSE IF phase = "pause" THEN wanted ELSE placed

\* The orchestrator comes to rest: it has ended, or it waits, and has the container where the
\* controller wants it (edgecloud.py:269-310).
Settles ==
  <>[](\/ phase = "ended"
       \/ phase = "wait" /\ sock = <<>> /\ (decided => placed = optimal))

=============================================================================
