-------------------------- MODULE ExperimentScript --------------------------
(***************************************************************************)
(* The scripts of examples/ and app/ that build a network of DockerHosts,  *)
(* deploy application containers on it, and take both down again; and the  *)
(* clean-up of comnetsemu/clean.py (ce -c), which the user runs after a    *)
(* script that left something behind.                                      *)
(*                                                                         *)
(* A script is the sequence of its calls that leave something at the       *)
(* Docker daemon or in the system, in four parts:                          *)
(*   before    outside any try                                             *)
(*   topology  create_topology of the network coding scripts, whose own    *)
(*             try ... except Exception stops the network and goes on      *)
(*   body      inside try, if the script has one                           *)
(*   final     its finally, or simply its end                              *)
(* Any call may raise, at any point of what it does, and the user may      *)
(* press Ctrl-C.  Links, flow rules and commands in hosts are steps "work";*)
(* AppContainerManager and DockerHost say what the calls do inside.        *)
(***************************************************************************)
EXTENDS Integers, Sequences, FiniteSets, SequencesExt

CONSTANTS
  Scripts,    \* the scripts that are run
  MaxRuns,    \* bound: scripts run
  MaxFaults,  \* bound: calls that fail without a reason in the model, and Ctrl-C
  MaxEnds     \* bound: containers and hosts that end by themselves

ASSUME ExperimentScriptAssumption ==
  MaxRuns \in Nat \ {0} /\ MaxFaults \in Nat /\ MaxEnds \in Nat

VARIABLES
  script,     \* the script that runs, or ran last
  part,       \* the part it is in, or "ended"
  pos,        \* the step of the part
  daemon,     \* containers at the daemon: name -> [kind, state]
  ipv6,       \* IPv6 is enabled
  hosts,      \* net.hosts
  queue,      \* the queue of the manager
  orphans,    \* containers left by calls of this run that raised
  kept,       \* hosts that docker refused to remove in this run
  found,      \* containers that were there when the run began
  outcome,    \* of the run: "ok", "caught" (a step raised, the rest was done) or "cut"
  disturbed,  \* history: something was left when the run began, or something went wrong in it
  ce,         \* clean-up: "none", "list", "remove", "done" or "raised"
  listed,     \* what it has listed and not removed yet
  runs, faults, ends  \* counters of the bounds

scriptVars == <<script, part, pos, daemon, ipv6, hosts, queue, orphans, kept, found,
               outcome, disturbed, ce, listed, runs, faults, ends>>
cleanup == <<ce, listed>>

----------------------------------------------------------------------------
(* Steps.                                                                  *)

Host(h) == <<"host", h>>
AddContainer(c, h) == <<"add", c, h>>
RemoveContainer(c) == <<"remove", c>>
Work == <<"work">>
Ipv6(b) == <<"ipv6", b>>
NetStop == <<"netstop">>
MgrStop == <<"mgrstop">>

Hosts(hs) == [i \in DOMAIN hs |-> Host(hs[i])]
Removes(cs) == [i \in DOMAIN cs |-> RemoveContainer(cs[i])]

\* A script without try; its last steps are those of every such script with a manager.
Plain(steps) ==
  [before |-> <<>>, topology |-> <<>>, body |-> steps, final |-> <<NetStop, MgrStop>>, try |-> FALSE]

\* A script that only stops the network, in a finally.
Guarded(hs) ==
  [before |-> Hosts(hs) \o <<Work>>, topology |-> <<>>, body |-> <<Work>>, final |-> <<NetStop>>,
   try |-> TRUE]

\* One without manager and without try.
Bare(hs) == [Guarded(hs) EXCEPT !.try = FALSE]

----------------------------------------------------------------------------
(* The scripts.                                                            *)

\* deploy_coders and remove_coders of multihop_topo.py, with seven hosts and three relays.
DeployCoders ==
  <<AddContainer("recoder_on_h3", "h3"), AddContainer("recoder_on_h4", "h4"), AddContainer("recoder_on_h5", "h5"), Work,
    AddContainer("decoder", "h6"), AddContainer("encoder", "h2")>>

\* Faulty variant: the recoders are forgotten.
RemoveCodersFew == Removes(<<"encoder", "decoder">>)

RemoveCoders ==
  Removes(<<"encoder", "decoder", "recoder_on_h3", "recoder_on_h4", "recoder_on_h5">>)

MultihopTopology == Hosts(<<"h1", "h2", "h3", "h4", "h5", "h6", "h7">>) \o <<Work>>

\* Two rounds: forward and recode.  Work: start, rules, offloading; then iperf and the logs.
MultihopRounds ==
  <<Work, Work>> \o DeployCoders \o <<Work>> \o RemoveCoders \o
  DeployCoders \o <<Work>> \o RemoveCoders

Multihop ==
  [before |-> <<Ipv6(FALSE)>>, topology |-> MultihopTopology, body |-> MultihopRounds,
   final |-> <<NetStop, MgrStop, Ipv6(TRUE)>>, try |-> TRUE]

AdaptiveTopology == Hosts(<<"h1", "h2", "h3", "h4", "h5">>) \o <<Work>>
AdaptiveDeploy == <<AddContainer("decoder", "h4"), AddContainer("encoder", "h2")>>
AdaptiveRemove == Removes(<<"encoder", "decoder">>)

AdaptiveRedundancy ==
  [before |-> <<>>, topology |-> AdaptiveTopology,
   body |-> <<Work>> \o AdaptiveDeploy \o <<Work>> \o AdaptiveRemove,
   final |-> <<NetStop, MgrStop>>, try |-> TRUE]

EchoServer ==
  Plain(Hosts(<<"h1", "h2">>) \o <<Work, AddContainer("srv1", "h1"), AddContainer("srv2", "h2"), Work>> \o
        Removes(<<"srv1", "srv2">>))

\* One of the containers runs ping -c 3 and ends by itself.
DockerInDocker ==
  Plain(Hosts(<<"h1", "h2", "h3">>) \o <<Work, AddContainer("head", "h1"), AddContainer("tail", "h3"), Work>> \o
        Removes(<<"head", "tail">>) \o
        <<AddContainer("stress_app_1", "h1"), AddContainer("stress_app_2", "h2"), AddContainer("stress_app_3", "h3"), Work>> \o
        Removes(<<"stress_app_1", "stress_app_2", "stress_app_3">>))

\* The second srv1_1 is left to mgr.stop().
NetworkMeasurement ==
  Plain(Hosts(<<"h1", "h2">>) \o
        <<Work, AddContainer("srv1_1", "h1"), Work, RemoveContainer("srv1_1"), AddContainer("srv1_1", "h1"), Work>>)

\* srv2_1 is added and srv1_1 removed by requests that h1 sends to the manager.
ManageAppContainer ==
  Plain(Hosts(<<"h1", "h2">>) \o
        <<Work, AddContainer("srv1_1", "h1"), Work, AddContainer("srv2_1", "h2"), RemoveContainer("srv1_1"), Work>>)

SecondTopology ==
  Plain(Hosts(<<"h1", "h2", "h3", "h4", "h5", "h6", "h7", "h8">>) \o
        <<Work, AddContainer("srv4", "h4"), AddContainer("srv7", "h7"), AddContainer("srv8", "h8"), AddContainer("srv1", "h1"),
          AddContainer("srv2", "h2"), AddContainer("srv3", "h3"), AddContainer("srv5", "h5"), AddContainer("srv6", "h6"), Work>> \o
        Removes(<<"srv1", "srv2", "srv3", "srv4", "srv5", "srv6", "srv7", "srv8">>))

MqttDrones ==
  Plain(Hosts(<<"D1", "D2", "D3", "D4", "D5", "D6", "MB", "WS", "WC">>) \o
        <<Work, AddContainer("MQTTBroker", "MB"), AddContainer("dr1", "D1"), AddContainer("dr2", "D2"), AddContainer("dr3", "D3"),
          AddContainer("dr4", "D4"), AddContainer("dr5", "D5"), AddContainer("dr6", "D6"), AddContainer("WebServer", "WS"),
          AddContainer("WebClient", "WC"), Work>> \o
        Removes(<<"dr1", "dr2", "dr3", "dr4", "dr5", "dr6", "MQTTBroker", "WebClient",
                  "WebServer">>))

\* Nothing is removed before mgr.stop().
TestStar ==
  Plain(Hosts(<<"h1", "h2", "h3", "h4", "h5">>) \o
        <<Work, AddContainer("MQTT", "h1"), AddContainer("MSUB", "h3"), AddContainer("MPUB1", "h2"), AddContainer("MPUB2", "h4"),
          AddContainer("MPUB3", "h5"), Work>>)

DroneMqtt ==
  Plain(Hosts(<<"mqttServer", "webServer", "drone", "client">>) \o
        <<Work, AddContainer("srv1", "mqttServer"), AddContainer("srv2", "webServer"), AddContainer("srv3", "drone"),
          AddContainer("srv4", "client"), Work>> \o
        Removes(<<"srv1", "srv2", "srv3", "srv4">>))

PacketFilter1 == Guarded(<<"client", "server", "attacker">>)
PacketFilter2 == Guarded(<<"client", "server">>)
PacketFilter3 == Guarded(<<"router", "internal1", "internal2", "internet">>)
SecureTunnel1 == Guarded(<<"client", "server", "attacker">>)
SecureTunnel2 == Guarded(<<"center", "h2", "h3", "h4">>)

ObjectDetection == Bare(<<"client", "vnf", "server">>)
DpdkChain == Bare(<<"client", "server", "relay">>)

\* run_net, then run_topo with hosts of the same names.
DockerHosts ==
  [Bare(<<"h1", "h2">>) EXCEPT !.body = <<Work, NetStop>> \o Hosts(<<"h1", "h2">>) \o <<Work>>]

Steps ==
  [multihop |-> Multihop, adaptive |-> AdaptiveRedundancy, echo |-> EchoServer,
   dind |-> DockerInDocker, measurement |-> NetworkMeasurement, manage |-> ManageAppContainer,
   second |-> SecondTopology, drones |-> MqttDrones, star |-> TestStar, drone |-> DroneMqtt,
   filter1 |-> PacketFilter1, filter2 |-> PacketFilter2, filter3 |-> PacketFilter3,
   tunnel1 |-> SecureTunnel1, tunnel2 |-> SecureTunnel2, detection |-> ObjectDetection,
   dpdk |-> DpdkChain, dockerhosts |-> DockerHosts]

ASSUME ScriptsAssumption == Scripts \subseteq DOMAIN Steps

\* The except clause of create_topology is a part of its own.
StepsOf(s, p) == IF p = "except" THEN <<NetStop>> ELSE Steps[s][p]
Parts == <<"before", "topology", "body", "final", "ended">>

\* The first part from p on that has steps.
From(s, p) ==
  LET i == CHOOSE j \in DOMAIN Parts : Parts[j] = p
      later == {j \in i .. 5 : j = 5 \/ StepsOf(s, Parts[j]) # <<>>} IN
  Parts[CHOOSE j \in later : \A k \in later : j <= k]

After(p) ==
  CASE p = "before" -> "topology" [] p \in {"topology", "except"} -> "body"
    [] p = "body" -> "final" [] p = "final" -> "ended"

----------------------------------------------------------------------------
Foreign == [n \in {"other"} |-> [kind |-> "other", state |-> "running"]]
Left == DOMAIN daemon \ DOMAIN Foreign

ScriptInit ==
  /\ script \in Scripts /\ part = "ended" /\ pos = 1
  /\ daemon = Foreign /\ ipv6 = TRUE
  /\ hosts = <<>> /\ queue = <<>> /\ orphans = {} /\ kept = {} /\ found = {}
  /\ outcome = "ok" /\ disturbed = FALSE
  /\ ce = "none" /\ listed = {}
  /\ runs = 0 /\ faults = 0 /\ ends = 0

Start ==
  /\ part = "ended" /\ ce \notin {"list", "remove"} /\ runs < MaxRuns
  /\ \E s \in Scripts : script' = s /\ part' = From(s, "before")
  /\ pos' = 1 /\ runs' = runs + 1
  /\ hosts' = <<>> /\ queue' = <<>> /\ orphans' = {} /\ kept' = {} /\ found' = Left
  /\ outcome' = "ok" /\ disturbed' = (Left # {})
  /\ ce' = "none" /\ listed' = {}
  /\ UNCHANGED <<daemon, ipv6, faults, ends>>

Step == StepsOf(script, part)[pos]

GoOn ==
  IF pos < Len(StepsOf(script, part))
  THEN pos' = pos + 1 /\ part' = part
  ELSE pos' = 1 /\ part' = From(script, After(part))

Without(ns) == [n \in DOMAIN daemon \ ns |-> daemon[n]]
With(n, kind, state) ==
  [m \in DOMAIN daemon \cup {n} |-> IF m = n THEN [kind |-> kind, state |-> state] ELSE daemon[m]]
Runs(n) == n \in DOMAIN daemon /\ daemon[n].state = "running"
Free(n) == n \notin DOMAIN daemon

\* terminate() of each of these hosts.  One whose container has ended is passed over, the daemon
\* has removed it; an error of remove is only printed, and the host stays.
Terminated(hs) ==
  \E ks \in SUBSET {h \in ToSet(hs) : Runs(h)} :
    /\ daemon' = Without({h \in ToSet(hs) : Runs(h)} \ ks)
    /\ kept' = kept \cup ks

\* A step that can be done, and is.
DoHost ==
  /\ Step[1] = "host" /\ Free(Step[2])
  /\ daemon' = With(Step[2], "host", "running") /\ hosts' = Append(hosts, Step[2])
  /\ UNCHANGED <<queue, ipv6>>

DoAdd ==
  /\ Step[1] = "add" /\ Free(Step[2]) /\ Runs(Step[3])
  /\ daemon' = With(Step[2], "app", "running") /\ queue' = Append(queue, Step[2])
  /\ UNCHANGED <<hosts, ipv6>>

DoRemove ==
  /\ Step[1] = "remove" /\ Contains(queue, Step[2]) /\ ~Free(Step[2])
  /\ daemon' = Without({Step[2]}) /\ queue' = RemoveFirst(queue, Step[2])
  /\ UNCHANGED <<hosts, ipv6>>

DoNetStop ==
  /\ Step[1] = "netstop"
  /\ Terminated(hosts)
  /\ faults' = faults + Cardinality(kept' \ kept) /\ faults' <= MaxFaults
  /\ disturbed' = (disturbed \/ kept' # kept)
  /\ UNCHANGED <<hosts, queue, ipv6>>

DoMgrStop ==
  /\ Step[1] = "mgrstop" /\ \A c \in ToSet(queue) : ~Free(c)
  /\ daemon' = Without(ToSet(queue))
  /\ UNCHANGED <<hosts, queue, ipv6>>

DoWork == Step[1] = "work" /\ UNCHANGED <<daemon, hosts, queue, ipv6>>
DoIpv6 == Step[1] = "ipv6" /\ ipv6' = Step[2] /\ UNCHANGED <<daemon, hosts, queue>>

Do ==
  /\ part # "ended"
  /\ \/ DoNetStop
     \/ /\ DoHost \/ DoAdd \/ DoRemove \/ DoMgrStop \/ DoWork \/ DoIpv6
        /\ UNCHANGED <<kept, disturbed, faults>>
  /\ GoOn
  /\ UNCHANGED <<script, orphans, found, outcome, cleanup, runs, ends>>

----------------------------------------------------------------------------
(* Failures.                                                               *)

\* Ctrl-C is not an Exception: create_topology does not catch it.
InTry(interrupt) == (part = "topology" /\ ~interrupt) \/ (part = "body" /\ Steps[script].try)

\* Faulty variant: the last part is not in a finally.
RaiseAtOnce(interrupt) ==
  /\ pos' = 1 /\ outcome' = IF InTry(interrupt) THEN "caught" ELSE "cut"
  /\ part' = IF InTry(interrupt) /\ part = "topology" THEN "except" ELSE "ended"

\* Where an exception leads.
Raise(interrupt) ==
  /\ pos' = 1 /\ outcome' = IF InTry(interrupt) THEN "caught" ELSE "cut"
  /\ part' = CASE ~InTry(interrupt) -> "ended"
               [] part = "topology" -> "except"
               [] OTHER -> "final"

\* Steps that must raise; removals stop at the first container that is not there.
Impossible ==
  \/ Step[1] = "host" /\ ~Free(Step[2]) /\ UNCHANGED daemon
  \/ Step[1] = "add" /\ ~Free(Step[2]) /\ UNCHANGED daemon
  \/ /\ Step[1] = "add" /\ Free(Step[2]) /\ ~Runs(Step[3])
     /\ \/ UNCHANGED daemon
        \/ daemon' = With(Step[2], "app", "created")
  \/ Step[1] = "remove" /\ (~Contains(queue, Step[2]) \/ Free(Step[2])) /\ UNCHANGED daemon
  \/ /\ Step[1] = "mgrstop"
     /\ \E i \in DOMAIN queue :
          /\ Free(queue[i]) /\ \A j \in 1 .. i - 1 : ~Free(queue[j])
          /\ daemon' = Without(ToSet(SubSeq(queue, 1, i - 1)))

Fails ==
  /\ part # "ended" /\ Impossible
  /\ orphans' = orphans \cup (DOMAIN daemon' \ DOMAIN daemon)
  /\ Raise(FALSE)
  /\ UNCHANGED <<script, ipv6, hosts, queue, kept, found, disturbed, cleanup, runs, faults, ends>>

\* What a step that raises half-way, or is interrupted, may have done.  A container that was
\* created and perhaps started is not registered; one that was removed stays in the queue.
HalfDone ==
  \/ Step[1] = "netstop" /\ \E k \in 1 .. Len(hosts) : Terminated(SubSeq(hosts, 1, k))
  \/ /\ UNCHANGED kept
     /\ \/ /\ Step[1] = "host" /\ Free(Step[2])
           /\ \E st \in {"created", "running"} : daemon' = With(Step[2], "host", st)
        \/ /\ Step[1] = "add" /\ Free(Step[2]) /\ Runs(Step[3])
           /\ \E st \in {"created", "running", "exited"} : daemon' = With(Step[2], "app", st)
        \/ Step[1] = "remove" /\ Contains(queue, Step[2]) /\ daemon' = Without({Step[2]})
        \/ /\ Step[1] = "mgrstop"
           /\ \E k \in 1 .. Len(queue) :
                /\ \A j \in 1 .. k : ~Free(queue[j])
                /\ daemon' = Without(ToSet(SubSeq(queue, 1, k)))
        \/ UNCHANGED daemon

Breaks ==
  /\ part # "ended" /\ faults < MaxFaults
  /\ HalfDone
  /\ faults' = faults + 1 + Cardinality(kept' \ kept) /\ faults' <= MaxFaults
  /\ disturbed' = TRUE
  /\ \E b \in {ipv6} \cup (IF Step[1] = "ipv6" THEN {Step[2]} ELSE {}) : ipv6' = b
  /\ orphans' = orphans \cup (DOMAIN daemon' \ DOMAIN daemon)
  /\ \E interrupt \in BOOLEAN : Raise(interrupt)
  /\ UNCHANGED <<script, hosts, queue, found, cleanup, runs, ends>>

\* The command of a container ends; a host that ends is removed by the daemon.
Ends(n) ==
  /\ ends < MaxEnds /\ Runs(n) /\ daemon[n].kind \in {"app", "host"}
  /\ ends' = ends + 1
  /\ daemon' = IF daemon[n].kind = "host" THEN Without({n}) ELSE With(n, "app", "exited")
  /\ disturbed' = (disturbed \/ daemon[n].kind = "host")
  /\ UNCHANGED <<script, part, pos, ipv6, hosts, queue, orphans, kept, found, outcome, cleanup, runs, faults>>

----------------------------------------------------------------------------
(* Clean-up, once the script has ended.                                    *)

CeStart ==
  /\ part = "ended" /\ ce \in {"none", "raised"} /\ runs > 0
  /\ ce' = "list"
  /\ UNCHANGED <<script, part, pos, daemon, ipv6, hosts, queue, orphans, kept, found, outcome,
                 disturbed, listed, runs, faults, ends>>

Labelled == {n \in DOMAIN daemon : daemon[n].kind # "other"}

\* Faulty variant: without all=True only running containers are listed.
CeListRunning ==
  /\ ce = "list" /\ ce' = "remove"
  /\ listed' = {[name |-> n, kind |-> daemon[n].kind] : n \in {m \in Labelled : Runs(m)}}
  /\ UNCHANGED <<script, part, pos, daemon, ipv6, hosts, queue, orphans, kept, found, outcome,
                 disturbed, runs, faults, ends>>

CeList ==
  /\ ce = "list" /\ ce' = "remove"
  /\ listed' = {[name |-> n, kind |-> daemon[n].kind] : n \in Labelled}
  /\ UNCHANGED <<script, part, pos, daemon, ipv6, hosts, queue, orphans, kept, found, outcome,
                 disturbed, runs, faults, ends>>

\* Hosts first, then the containers on them, in some order.
NextListed ==
  LET hs == {c \in listed : c.kind = "host"} IN CHOOSE c \in IF hs # {} THEN hs ELSE listed : TRUE

\* remove() raises for a host that the daemon has removed since.
CeRemove ==
  /\ ce = "remove"
  /\ \/ listed = {} /\ ce' = "done" /\ UNCHANGED <<listed, daemon>>
     \/ /\ listed # {} /\ ~Free(NextListed.name)
        /\ daemon' = Without({NextListed.name}) /\ listed' = listed \ {NextListed} /\ ce' = ce
     \/ /\ listed # {} /\ Free(NextListed.name)
        /\ ce' = "raised" /\ listed' = {} /\ UNCHANGED daemon
  /\ UNCHANGED <<script, part, pos, ipv6, hosts, queue, orphans, kept, found, outcome,
                 disturbed, runs, faults, ends>>

ScriptNext ==
  \/ Start \/ Do \/ Fails \/ Breaks \/ (\E n \in DOMAIN daemon : Ends(n))
  \/ CeStart \/ CeList \/ CeRemove

ScriptSpec == ScriptInit /\ [][ScriptNext]_scriptVars

----------------------------------------------------------------------------
\* A run that came to its end, or was thrown out of a try, and whose final part did not raise
\* leaves nothing but what calls created before they raised, and hosts that docker refused to
\* remove, an error net.stop() swallows: all other hosts and the registered containers are taken
\* down wherever the try was left, those of a half-done deploy_coders or create_topology
\* included, and IPv6 is enabled again (create_topology, run_multihop_nc_test, terminate).
OnlyOrphansLeft ==
  part = "ended" /\ runs > 0 /\ outcome # "cut" =>
    /\ Left \ found \subseteq orphans \cup kept
    /\ script = "multihop" => ipv6

\* A run that begins with nothing left and in which nothing goes wrong is not stopped by its
\* own calls: every name it adds is free by then and its host is up, and every container it
\* removes is registered, whatever ran before and was cleaned up
\* (deploy_coders, remove_coders and the bodies of the scripts).
RunsThrough == ~disturbed => outcome = "ok"

\* When cleanup() returns, no container of the emulator is left, running or not, registered or
\* not, and others are not touched (cleanup_docker_containers of clean.py).
CleanupIsExact ==
  /\ ce = "done" => Left = {}
  /\ DOMAIN Foreign \subseteq DOMAIN daemon
=============================================================================
