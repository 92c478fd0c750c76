# TLA+ specifications of ComNetsEmu

ComNetsEmu extends the network emulator Mininet by hosts that are Docker containers and by
application containers that run inside them, and ships the applications of a textbook on
computing in communication networks. These modules model the parts of it that have state worth
worrying about: the manager of application containers, and those applications that are protocols.
`PROJECT.json` maps each definition to the source lines it stands for and lists the runs, the
faulty variants, the hazards, the findings and the theorems.

Paths below are relative to the repository; `NCT` is `app/network_coding_for_transport`, `CC` is
`app/machine_learning_for_congestion_control`, `MLR` is `app/machine_learning_for_routing`, `MEC`
is `app/realizing_mobile_edge_clouds`.

## 1. Inventory

| Component | State | Operations | Interacts with | What is hard | What makes it correct |
|---|---|---|---|---|---|
| `APPContainerManager` (`comnetsemu/net.py`) | queue of app containers, map name to container, list `net._appcontainers`, lock | addContainer, removeContainer, list and get, monResourceStats, REST GET, POST, DELETE, stop | the Docker daemon (asynchronous removal), users of the docker CLI, the REST thread, the Mininet CLI, which reads the list | two threads around one lock, check-then-act, exceptions inside the critical section, polling without timeout, tables that cache the daemon | the tables agree with one another and, while nobody else removes containers, with the daemon; calls are atomic and return |
| `APPContainer` (`comnetsemu/node.py`) | name, host, docker instance | statistics, logs | manager | samples while another thread removes | a sample is of a registered container |
| `DockerHost` (`comnetsemu/node.py`) | container, shell process, pty, pid, waiting flag | create, start shell, sendCmd, pexec, terminate | Docker daemon, the host's shell, Mininet | shells that die, restart, resources left behind | one live shell, nothing left after terminate |
| CLI (`comnetsemu/cli.py`) | none of its own | waitForNode, appcontainers | nodes, manager's list | interrupts while a node waits | the next command does not end on the prompt of an earlier one |
| Clean-up tool (`comnetsemu/clean.py`) and the scripts of `examples/` and `app/` | containers at the daemon, hosts of the network, queue of the manager, IPv6 of the system | create hosts, deploy and remove containers, stop; list and remove | daemon, one another through what they leave behind | exceptions and Ctrl-C at any point of any call, names used again | what a try leaves is taken down; clean-up takes exactly the rest |
| Overrides, helpers | none | one pass each | ip | - | - |
| Service migration (`examples/service_migration`) | counter in each server process, flow at the switch, script | deploy, signal, remove, redirect; count, reply, handle SIGTERM, receive the state; ask | the manager, UDP between hosts, SIGTERM, OpenFlow | a handler between any two statements, lost and late state datagrams, waits without timeout | no request is counted twice, the state taken over is fresh, the script ends |
| Network coding coders (`NCT/encoder.py`, `recoder.py`, `decoder.py`, `common.py`) | symbol storage, coder matrices, generation number, redundancy, undecoded indices | encode, forward, recode, decode, OAM | raw sockets on lossy links | loss, 8-bit generation numbers that start again, deletion from the list under iteration | only packets of the client are delivered, once, in order of generations; without loss, all |
| Redundancy controller (`NCT/adaptive_*.py`) | loss estimates | measure, compute, send OAM | coders | real numbers | - |
| Congestion control source and destination (`CC/source.py`, `destination.py`) | sequence numbers, packets in flight, cwnd, list of windows | send, receive ack, start and end a window, update cwnd | the lossy bottleneck, the learning agent | loss of packets and answers, attribution to windows, a timeout | exact accounting; a window is measured when its packets are settled; the source does not stall |
| Routing controller and learner (`MLR/controller`) | paths per flow, latencies, bandwidths, REST attributes | add, modify, delete flows; measure; learn | switches, learner over REST | asynchronous flow messages, several threads | no loop, no black hole during a change |
| Mobile edge cloud (`MEC`) | probe results, best server, orchestrator's deployments | probe, select, announce, migrate | the manager, servers, clients | stale announcements | the client is served by a deployed server |
| Dynamic slicing (`app/realizing_network_slicing/dynamic_network_slicing`) | emergency flag, rules of two routers | timer with two scripts, packet handler, set-up script | switches | the timer thread and two scripts write the same rules | pairs of hosts stay apart at every line |
| Static and multi-tenant slicing, SDN teaching examples (`app/realizing_network_slicing`, `app/software_defined_networks_examples/ex03`) | rules, learned addresses | packet in, add rule | switches, FlowVisor | rules left by earlier packets, floods on cycles, tables written by hand | a packet stays in its slice, a rule does what the controller would do, no duplicates |
| Object detection, security, IoT, flow compression, SDR, tests, installation | constants or third-party state | scripts | - | - | - |

`PROJECT.json`, "components", gives the status of each and why a part is not modelled; "hazards"
lists what is hard to test, at its line, with the properties that cover it.

## 2. Modules

| Module | Models | Kind |
|---|---|---|
| `AppContainerManager` | the manager, the REST handler, the daemon, the docker CLI | state machine, proved about |
| `ContainerRegistry` | what the manager promises to the threads that call it | abstract specification |
| `SequenceLemmas` | facts about `RemoveFirst`, `RemoveAt`, `ToSet` and increasing sequences | lemmas |
| `AppContainerManagerProofs` | theorems about the manager, and that it implements `ContainerRegistry` | proofs |
| `DockerHost` | a host, its shell and terminal, `waitForNode` | state machine, proved about |
| `ExperimentScript` | eighteen scripts, their exceptions, the clean-up tool | state machine, proved about |
| `DeploymentProofs` | theorems about `DockerHost` and `ExperimentScript` | proofs |
| `ServiceMigration` | script, servers, client, switch, state datagrams | state machine, proved about |
| `ServiceMigrationProofs` | theorems about them | proofs |
| `CodedChain` | encoder, recoder, decoder, lossy links | state machine, proved about |
| `UdpSource` | the congestion-controlled source, its destination, the lossy path | state machine, proved about |
| `TransportProofs` | theorems about `CodedChain` and `UdpSource` | proofs |
| `FlowRerouting` | the controller's rules for a flow, switches that apply them at their own pace | state machine, proved about |
| `FlowReroutingProofs` | theorems about them | proofs |
| `RoutingLearner` | controller and learner and the two pipes between them | state machine, proved about |
| `SlicedNetwork` | nine networks: the slicing scenarios and the teaching switches | state machine, proved about |
| `ControllerProofs` | theorems about `RoutingLearner` and `SlicedNetwork` | proofs |
| `EdgeCloud` | prober, controller and orchestrator of the mobile edge cloud | state machine, proved about |
| `EdgeCloudProofs` | theorems about the choice of the fastest server and its announcement | proofs |

The operators whose comment begins with "Faulty variant" are plausible bugs of the code. No
specification uses them; they show that each property can be violated (section 5).

### AppContainerManager

One action per step of a call between two points at which somebody else can act or look: taking the lock,
each request to the daemon, each round of a polling loop that can end, each write to one of the three tables
(the CLI, stop() and monResourceStats read them without the lock), and the return. `pc[t]` is
where thread `t` is; `cur[t]` is the name, the `wait` flag and the docker instance of its call.

| State in the model | In the code |
|---|---|
| `lock` | `_container_queue_lock` |
| `queue`, `nameMap`, `appcontainers` | `_container_queue`, `_name_container_map`, `net._appcontainers` |
| `daemon[n]` | the container that owns name `n` at the daemon, and its state |
| `stopIdx` | the iterator of `stop()` over the live queue |
| `disturbed` | history: someone other than removeContainer removed a container |

- addContainer (net.py:315-359): `CallAdd`, `UnknownHost`, `Acquire`, `Create` or `CreateFails`,
  `Start` or `StartFails`, `WaitExists`, `WaitGet`, `WaitRunning`, then the writes `AppendToQueue`, `EnterInMap`
  and `ShowInList`.
- removeContainer (361-383): `CallRemove`, `Acquire`, `Lookup` or `LookupFails`, `WaitRemoved`,
  then `RemoveFromQueue`, `RemoveFromList` and `DeleteFromMap`. do_DELETE (161-172) first runs `CallDelete`, `Acquire`, `Find` in a critical
  section of its own.
- The list operations and do_GET: `CallList`, `Acquire`, `Read`. monResourceStats, which takes no
  lock: `CallMonitor`, `Monitor`. stop(): `CallStop`, `StopRemove`, `StopEnd`.
- Environment: `ContainerExits`, `RemovalDone` (the daemon removes asynchronously), `CliRemove`.

`Return` is the way out of a `with` block: it releases the lock on success and on every exception.
The REST server is single-threaded, hence two threads: the script and `httpd`.

`ContainerRegistry` is the same interface with calls that take effect in one step: an add appends
a younger container under a name nobody holds, a removal takes out the one of that name, a refusal
changes nothing and claims absence only if it is so. The refinement maps `entries` to `queue` and
`wants` to the call each thread is in (`Wish`); for the registry a call is over with its write to the queue
(`Done`), as the lock keeps the other thread away from the two writes that follow.

### ServiceMigration

`script` is the position in `topology.py`: a migration adds the new server, sends `Kills` SIGTERMs,
removes the old one, changes the flow, sleeps ten seconds; then it is done once more in the other
direction. `phase[h]` is the process on host `h` (`start`, `recv` in recv_state, `init`, `serve`,
`reply`, `dead`). `TermSignalHandler` may run between any two statements of the loop. A SIGTERM to
a process without a handler ends it (`Kill`), and the next one then makes the script fail
(`KillFails`). Both servers have the same service address: the flow of `s1` decides. `received`
and `atFirst` are history variables.

### CodedChain

A coded symbol is the pair of its coefficients (a set of indices) and the packets it is a sum of.
Coefficients are 0 or 1, a subset of the field binary8 that is closed under addition; every
combination that the random generator may choose is a choice here. The decoder's
loop that deletes from the list it walks is the recursive function inside `Sweep`. The recoder's
reading of one byte of the OAM number is in `OamRecoder`. `InStep` delimits the properties: until
the numbers start again, or, with forwarding only, as long as fewer frames are lost than a
generation has symbols.

### UdpSource

`client` is the `UDPCCClient` object; a window holds the numbers of the packets it sent and of the
answers credited to it. `Counted` is the arithmetic on packets_in_flight, `ReceiveAck` the whole
of receive_ack with end_window and start_new_window. `Receive` is the blocking call at the top
of loop(), `Fill` one round of the inner loop, `FillEnds` its end. cwnd may be a half after slow
start (`0.5 * cwnd`) and is counted in halves. The agent's action is any of 0..10, as its network
may return any; `late` is whether the time of the episode is up.

### DockerHost

`pc` is where the thread of the script or of the CLI is; `shell`, `opened` and `slaves` are the
shell, and the pseudo terminals the emulator holds; `procs`, `starting`, `busy` and `unread` are
the shells at the daemon and the prompts they have printed. `Create`, `StartShell`, `Boot` and `ReadPrompt` are
the constructor and startShell; `Call`, `CheckContainer`, `PollShell`, `Send`, `WaitOutput` and `Return` are sendCmd
with `_check_shell`, and cmd; `Monitor` reads what the shell
printed; `WaitForNode` and `Interrupt` are waitForNode of the CLI; `Terminate`, `RemoveHost` and `Reap` are terminate and cleanup. docker may refuse
the removal (`TryRemove`): the error is only printed, the container stays as it is, and the shell is waited for all the same; `refused`
is a history variable. `ContainerStarts`, `ContainerEnds`, `ShellEnds`
and `Prompt` are the daemon: a shell and the container may end between any two steps. `stack` is there as a restarted shell
sends commands of its own inside the command that found the old one dead.

### ExperimentScript

A script is the sequence of its calls in four parts: before a try, in `create_topology` with its own
`try ... except Exception`, in the body, and in the finally clause. `Do` is the effect of the next call,
`Fails` an exception at its beginning, `Breaks` one, or Ctrl-C, half-way: after the container was
created and before it was registered, or after it was removed and before the tables forgot it. `Raise` is
where control goes then. net.stop() calls terminate() of each host, which swallows an error of the removal (`Terminated`): `kept` are
the hosts docker refused to remove, and the script goes on as if nothing had happened. The clean-up lists, then removes one by one (`CeList`, `CeRemove`). Scripts do
not run at the same time, and clean-up runs while none does.

### FlowRerouting and RoutingLearner

`FlowRerouting` follows one flow: `missed` packets, the path on record, the messages on the `wire`,
which each switch applies in order and the switches in any order. `Added`, `Modified` and
`Deleted` are the case analysis of the code on old and new path (`Follows` is what the loop over the new path
collects, `Leaves` what the loop over the deleted switches does, `Kept` puts either in the order of a path); `Reroute` sends the first and, after its sleep,
`RerouteWakes` the others. `reordered`, `torn` and `up`
are history variables that delimit the properties. `mod_flow` hands OFPFC_MODIFY to the parameter
`flags`, so the message adds the rule; the model does what the switch does with it.

`RoutingLearner` abstracts rules away and keeps the conversation: at most one action per round
from one pipe, reports into the other, both of bounded size with blocking sends; the learner's prediction of
its next state, its reward list, and the flags that REST requests set while the controller works. Q values
and exploration are any choice of an action. It is the configuration of `config.py`; the others fail:
`DIRECT_CHANGE` (learning_module.py:303) calls get_next_state and get_reward_utilization (245) with the wrong
number of arguments, `NO_WEIGHT` divides by zero (771), `FALLING_EPS` takes the logarithm of zero (979).
The learner itself ends by an UnboundLocalError when a reset comes before its first table (`Fails`).

### SlicedNetwork

One set of actions for all networks: a host sends, a switch forwards by its best rule or asks, the controller
decides (`Decision`, one operator per controller), installs a rule and sends the packet on, rules
expire. What differs between the networks is in tables: links in the order of addLink, which numbers
ports, flow spaces of FlowVisor, port tables of the controllers. FlowVisor is taken to be ideal, but that it
refuses packet-outs at switches that slices share, as the README's known issue says: those packets
may be lost. In the dynamic network the timer walks `SosScenario` and `CommonScenario` line by line,
beside the set-up script of `my_network.py`.

### EdgeCloud

Times are those of the links in `edgecloud.py`, in units of 10 ms; `Tick` goes to the next arrival.
`ProbeAtSwitch` is the handler's branch for probes: one copy for each server the switch knows, so that a switch that has two
known servers below its neighbour sends that two copies, and that each of them again; `self.time` is overwritten by each. Copies that
arrive together are one element of `wire`, `copies` counts them. A server answers them one after the other (`Sent`, `busy`). `Reply` is the
branch for answers, which measures at each switch on the way, and after the start-up chooses, announces, looks
up the ports of a rule (and may raise), and forwards. `phase` is where the orchestrator is; `sock` the
datagrams it has not read. `RunAgain` starts the orchestrator again under the same controller.

## 3. Runs

Sizes are of the bounded instances of the `.cfg` files.

| Run | Shows |
|---|---|
| `manager_tables` | the tables with two threads, exiting containers, the docker CLI and stop(): creation order; between any two writes the map leads to the youngest container of a name in the queue, or to the one on its way out (`MapIsOfQueue`), the CLI's list differs from the queue by the container that is being written at most, and samples are of registered containers (`ReadersAgree`); while nobody else removes, one container per name and each one existing (`DaemonAgrees`); stop() passes no container over (`StopSkipsNone`) |
| `manager_calls` | each call returns, unless _waitContainerStart polls for a container that has ended; the manager implements `ContainerRegistry` |
| `delete_race` (violated) | a DELETE that loses against removeContainer raises instead of answering 400 |
| `docker_host` | no output is taken for that of another command, after interrupts and restarts of the shell too; no docker exec is left behind a terminal given up; every call comes back, but for the two ways in `Hangs`: a read from a shell that ended, and the wait for a shell whose container docker did not remove |
| `experiment_scripts` | after an exception anywhere a script leaves only containers its failed calls created and hosts docker refused to remove; undisturbed scripts run through, whatever ran before; clean-up removes all of the emulator's containers and no other |
| `migration` | no request counted twice, fresh state, the script ends, and why it or the client may fail |
| `coded_chain` | delivery of packets only, once and in order, no mixture on the way (`PacketsStayPure`); everything arrives without loss (`LosslessIsComplete`) |
| `udp_source` | packets in flight are exact under losses; answers and losses are attributed to the right window, which ends in order and measured (`WindowsAreExact`); the source stalls only if a whole window is lost |
| `flow_rerouting` | the rules end up on the path on record and nowhere else; a flow that is up stays up while it is moved; in the end it is delivered for good |
| `routing_learner` | the pipes are never both full and nobody waits for ever; the predicted state is the real one; of the rewards for an action those measured before it come first, are at most the pipe's capacity and one per PUT, and none unless a PUT hurried a report (`RewardsAreFresh`); a restart that is requested is reported |
| `sliced_network` | packets stay in their slice, rules agree with the controller, nobody takes a packet twice, and the pairs of the dynamic scenario are apart at every line of the scripts |
| `edge_cloud` | the server chosen is one whose last answer came back first, when all answer each probe before the next (`FastestWins`); what is deployed after the last announcement was read is what the controller holds; the orchestrator comes to rest |

The formulas joined into `MapIsOfQueue`, `DaemonAgrees`, `ReadersAgree`, `FailuresAreExplained`, `PacketsStayPure`,
`WindowsAreExact` and `ShellsAreEnded` stand beside them in the modules.

### Bounds, and why they are enough

- `manager_tables`: two names, three containers, two calls for each thread. The races are between
  two calls on one name, or on two names for the order; a third container lets a name be used
  again after a removal by the CLI, which is when the queue holds a name twice. The proofs remove
  the bounds. `manager_calls` needs no third container.
- `migration`: the script migrates twice, as in the code; three signals as in the code; four
  requests let counts differ before, during and after a migration.
- `coded_chain`: two symbols make a generation, three generation numbers before they start again,
  four generations with forwarding and three with recoding, two losses, which can take all the
  redundancy or the whole of a generation; redundancy 1 from the start and 0 by an OAM message.
  `MaxQueued` 0 lets a coder send when its link is empty, which keeps the frames of one step
  together on a link and loses no order, as links are FIFO.
- `udp_source`: eleven packets and two losses see slow start, the exit from it, a halved window
  that is not an integer, updates by every action, stalls early and late, and a cwnd of seven packets and more.
- `docker_host`: three shells, that is two restarts, one of them inside the commands of another.
- `experiment_scripts`: two runs, of the same or of two different scripts; one call that raises and one
  container or host that ends by itself, each at any point. A removal that docker refuses counts as the fault of that
  instance; a refusal and an exception together are in the proof, which has no bound on either.
- `flow_rerouting`: four switches with five links, which make four paths: two of them share only their ends, others
  pass the same switches in the opposite order; two actions, an end of an iteration, four messages under way.
- `routing_learner`: two flows and two paths; pipes of two messages, the smallest that can fill up while an
  action is under way (the proof of `Outstanding` is for any size); one request. The pipes of the
  operating system are larger, which only makes waiting rarer.
- `sliced_network`: three packets (two in the networks with eight hosts or many kinds), one of which leaves the rule, one that
  meets it and one after it has expired; one emergency while my_network's script may still run. The proofs remove these bounds.
- `edge_cloud`: two servers behind different switches. With both known a probe reaches each of them as four copies; each answer takes
  next to no time or 240 ms, drawn anew, so that the load can reverse the order of the servers within a probe and between two.
  Two probes, which may overlap: entries of the first are in the table at the second. Two deployments end a run, two runs.

`CHECK_DEADLOCK FALSE` is in every configuration because every model stops: calls, requests and
packets are bounded, the script ends, and the source of `UdpSource` really stops.

### Fairness

- `AppContainerManager`: weak fairness of the steps inside a call, together for each thread, and of the
  daemon's completion of a removal it accepted. Nobody is obliged to call, to exit or to use the
  CLI. Weak fairness of `Acquire` is enough as calls are bounded: the other thread cannot take the lock
  for ever.
- `ServiceMigration`: the script goes on; a process that was started starts; a state datagram
  arrives or is lost, and both are left open. Counting, answering and the client are not fair: the
  script waits for none of them. `Sleep` states the timing assumption behind `time.sleep(10)`: by
  then a process has started and no state datagram is on its way.
- `DockerHost`: the emulator goes on where it can, a container that was started comes up, a shell that lives
  prints its prompt, the shells of a container that is gone end, and the user presses a key in the end; nothing
  else has to end.
- `FlowRerouting`: packets of the flow keep coming, `routing_ip` and the end of reroute's sleep come, and switches
  apply what they were sent; actions, reports and REST requests are not fair.
- `RoutingLearner`: probes arrive, and the threads of controller and learner go on where they are not
  blocked; REST requests are not fair.
- `EdgeCloud`: the orchestrator goes on where it does not wait for a datagram; nothing in the network is fair.

## 4. Proofs

Every theorem holds for all values of the constants that satisfy the named assumption of its module
(`ManagerAssumption` and so on), hence without the bounds of the runs. Each invariant is an
inductive one together with the type invariant; `PROJECT.json` lists the theorems. TLC checked each
strengthening on the instance of the run before it was proved. Where one speaks of all packets or
all sequences (`RulesInv` of `ControllerProofs`), TLC had the finite set of them that the run can have.

### AppContainerManagerProofs

- `TypeCorrect`: `Spec => []TypeOK`, by one lemma for each shared move (`GotoType`, `ReturnType`,
  `BeginType`) and one step per action.
- `TablesCorrect`: `Spec => []TableInv`, in the states between two writes as well. Neither `CreationOrder` nor `MapIsOfQueue` is inductive.
  The order needs that what a thread is about to append is younger than everything in the queue:
  its id is `lastId`, and no other thread can have created or appended since, as it holds
  the lock (mutual exclusion is the first conjunct). The map needs that what a thread takes out
  of the queue is what the map holds for that name until the last of the three writes, that what it
  appended is in the queue and is entered in the map before the lock is released, and that ids are unique in
  the queue, which follows from the order. `CreationOrderHolds` and `MapIsOfQueueHolds` are consequences.
- `RegisteredOnceHolds`: the action property that a container new in the queue is the
  one created last, at the end.
- `DaemonCorrect`: `DaemonInv`, what the tables may say of the daemon. An entry of the queue may be one
  whose removal a thread has begun, so agreement needs `BeingRemoved`; a container that was created
  is held until it is registered; one whose removal was waited for is absent. A step that
  creates, registers or removes nothing keeps all of it (`Quiet`, `QuietKeeps`), which leaves `Create`,
  `Lookup` and the writes to the tables, and stop() and the docker CLI, which set `disturbed`.
  `DaemonAgreesHolds` and `RemovedNameIsFreeHolds` follow.
- `CliListHolds`: the CLI's list has each name as often as the queue, but for the one that the holder of the lock has written to
  one of them only. `list.remove` takes the first
  occurrence of a name and the queue loses an instance, so the proof counts positions
  (`Occurrences` and the `Positions` lemmas of `SequenceLemmas`). With `SampleIsTracked` (what is sampled is in the queue or never held
  again) it gives `ReadersAgreeHolds`.
- `StopSkipsNoneHolds`: an iterator over a list passes an element over when one before its position is taken out. What
  stop() has gone by is no longer held by the daemon, and no thread is removing it (`StopInv`): stop() raises at a container whose removal is under
  way, and the other thread takes out of the queue only what it found at the daemon.
- `ManagerImplementsRegistry`: every step maps to a step of `ContainerRegistry` or to a stutter. An add takes effect in
  `AppendToQueue`, a removal in `RemoveFromQueue`, a refusal where the exception leaves the lock. The hypotheses `~CliRemoves` and `~MainStops` are those of the
  run: `ContainerRegistry` describes what add, remove and the reads promise, and has no operation for a user who
  removes containers or for stop(). With the former, a name is added again while the queue still
  holds it; the latter takes containers out without a call of removeContainer.

### DeploymentProofs

`HostCorrect`: `HostInv` says which shell may run (only the last one, behind the terminal the
emulator holds) and counts prompts: outside a command none is due, in a command one is printed or the
shell is busy with it. After an interrupt `waiting` stays set and the count is not known; the invariant
needs none, as sendCmd then refuses the next command by its assertion (`Send`), unless the shell has been replaced, and
the first prompt of the new one clears `waiting`. `OutputIsOwnHolds`, `QuietAtRestHolds` and `ShellsAreEndedHolds` follow.

`ScriptCorrect`: for any of the scripts (`ScriptsAssumption`), run in any order and any number of times, with any number of exceptions and of containers that end, `ScriptInv` accounts for each
container at the daemon: the network knows it as a host, the manager has it in its queue, or it is an orphan, of the script that runs or
of an earlier one, or a host that docker refused to remove (`kept`). A call that breaks half-way makes an orphan or leaves an entry without a
container, a refusal makes a host that stays, and nothing else does either. In the final part of a script the invariant
follows the order of its calls, so that what net.stop() and mgr.stop() have taken down, and what they have not because of an exception, is known
at its end. While the clean-up removes, all that is left is on its list. `OnlyOrphansLeftHolds` and `CleanupIsExactHolds` follow.

### ServiceMigrationProofs

`NeverOvercountsHolds` is inductive with the types only. The others need `MigrationInv`: where both servers are at each
place of the script (`Stages`), that a server has a count only after it received one, that only the old server is
signalled, that only the new one is sent counters, each at least `atFirst` (`SignalsAreOfNow`), and where the client's request is.
`FailuresAreExplainedHolds` and `StateIsFreshHolds` follow, for any number of signals.

### EdgeCloudProofs

`LastWordHolds`: the last announcement not yet read, or the last one read, is what the controller
holds. Inductive with the types alone; the lemmas say that `Fastest` returns a server, of the least time, and what the
last of a queue is when one is added or read.

`TimingCorrect`: `TimingInv` relates the table of times, the copies of the probe and the answers. Each server has at
most one entry and the best server is one of least time. While a probe is answered in time, its copies go down together, so that no
answer moves before the last of them has arrived and set the time (`CopiesTogether`, `ProbedFirst`); `response[s]` is when the last answer of `s`
is due at its switch, no answer of `s` is later than that and a hop for each level (`AnswersAreTimed`, for which a server must be busy as long as an
answer of it has not left, `BusyCovers`), and that last answer is still to be caused, on its way, or in the table with no other to come
(`AnswersCount`). At rest each entry is thus the time of the last answer and two hops. `FastestWinsHolds` follows for any times, probes and runs.

### TransportProofs

`SourceCorrect`: `SourceInv` cuts the sequence numbers in two ways. The windows tile them: each
begins where the one before ends, each but the last two has ended, each but the last was
answered. And what is under way, answered and not read, or lost, is exactly what is awaited (`WireInv`), in the order of
numbers. `packets_in_flight` is then the distance of two numbers. From the tiles and
from the fate of each packet below the next answer follow `InFlightIsExactHolds`,
`WindowsAreExactHolds` and `StallsOnlyOnLostWindowHolds`. That receive_ack finds the window of its answer
first and opens the next one afterwards is what the tiles rest on.

`ChainCorrect`: `ChainInv` is about `CodedChain` for any generation size, redundancy, numbers of packets and of lost frames. Unconditionally, what the encoder holds is a
block of the client's packets (`ChainBase`). While the run is `InStep` and the numbers have not started again, there are packet numbers `d`
and `r` up to which decoder and recoder have followed: each frame on a link stands for a combination of packets of its generation, the numbers on the wire tell generations
apart, and what recoder and decoder store are combinations of packets of one generation (`RecoderInv`, `DecoderInv`). The packets missed are at most
`lostFrames`, which bounds how far apart the ends can be. `PacketsStayPureHolds` follows from what a decoded symbol is then. Without loss and with systematic
symbols, recoder and decoder hold all combinations of the packets of the generation so far (`LosslessInv`): each frame completes one symbol, which the loop finds, and
`LosslessIsCompleteHolds` follows. The deletion loop in
`Sweep` is a recursive function over the positions of the list; `SweepProperties` says what it takes out: nothing that is not ready, and for each
ready symbol that it leaves another that it sends.

### FlowReroutingProofs

- `ReroutingCorrect`: `ReroutingInv` says for each switch what its rule is once it has applied its
  messages (`EndsAt`), in any order of the switches: in the sleep, the rule between both
  paths and the rest of the messages to come; else the one on the path. The lemmas `MoveStarts`, `MoveEnds`,
  `InstallEnds` and `ResetEnds` say so of each list of messages. `FollowsChosenHolds` follows.
- `NeverInterruptedHolds`: with `KeepsUp`, whatever prefix of the messages under way and still to be sent is
  applied, the rules lead the packet out (`SafeFrom`). First the new switches get their rules, which nobody
  reaches yet (`AddedSafe`); then the others are changed from the destination to the source (`ModifiedSafe`), when a packet that enters the new
  path stays on it: the rank of a switch is what is left of the new path, or that length and what is left of the
  old one (`MixedLeads`); the deleted ones are not reached any more. That a walk along falling ranks is out within as many
  hops as there are switches is `LeadsDelivers`.
- `LeavesFollow`, on the way: the loop over the deleted switches (remote_controller.py:711-716) adds nothing that the loop
  over the new path has not, if both paths are simple; it is redundant, not wrong.

`Added`, `Deleted` and `Modified` select by `Kept`, a function recursive over positions, as the standard `SelectSeq` has no
definition the prover can use; `KeptUnfolds` proves its recursion equation, and `WalkUnfolds` that of `Walk`.

### ControllerProofs

About `RoutingLearner`:

- `TypeCorrect`: every variable keeps its type, and no message speaks of a flow without a path.
- `OutstandingHolds`: both pipes are never full at the same time, so the two blocking sends cannot
  wait for each other. The invariant adds that reports and actions together are at most `Capacity`, or one
  more before a report is sent.
- `RewardsAreFreshHolds`: as long as no report was hurried, no reward was measured before the action it counts for (`FreshInv`). When a PUT
  hurries one, stale rewards come, but first and boundedly many: `StaleInv` counts the stale ones in the list and in the pipe, those that may still be sent
  before the action is done, and the room left for them (`Spare`), with `RoomCorrect` on how much of both pipes is taken.
- `PredictionIsRightHolds`: with `FreshInv`, at most one action is under way, so the fold in the property is over
  none or one (`FoldOfNone`, `FoldOfOne`); a report under way names the paths of its flows, as nothing can have moved them since
  (`PredictInv`).

About `SlicedNetwork`: `SlicesCorrect`, for any number of packets and any rules, expiries and emergencies. The networks are those of the
source, so the instance is the code's own and only the bounds of the run go away. `SlicesInv` has five parts:

- `TrafficInv`, on copies of packets. None of `SlicesAreApart` and `TakenOnce` is inductive: that a copy is in the area of its slice says nothing of
  the next switch, nor of the port it comes in at. `Hop` writes down, for each network, the one way the packets of a slice are to go: which switch they
  pass as the i-th, and in at which port. A copy is on that way (`CopyOK`), or FlowVisor has it in no slice and it goes no
  further; a packet has at most one copy that goes further (`OneLiveCopy`); a host that took it is at a switch the live copy has passed (`TakersInv`), so
  no host takes it again.
- That a decision leads on along the way (`Onward`) is one lemma per network (`ServiceStep`, `TopologyStep`, `FirstStep` and so on), over the tables of the
  controller; ports are computed from the order of addLink (`PortsInOrder`, `LinkOf`) and not written down a second time.
- `RulesInv`: every rule was decided by the controller for some packet, or is a line of a script (`RuleOK`). Decisions for any two packets that
  the match cannot tell apart send to the same ports (`ServiceAgrees`, `TableAgrees` and one lemma per network), so the rule sends whatever it catches
  where the controller would: `RulesAgreeHolds`, and why a packet that meets a rule is led on as well. For the learning switches this needs
  `KnownInv`: an address is learned only at the port that leads to it, and is not forgotten.
- `ScriptInv` and `WrittenInv` are about the dynamic network: for each place of the timer's scripts and of the set-up script, which lines are in force
  as rules. A line replaces the rule of its own pair and of no other (`Writing`), both scripts have the same lines but for
  the third pair (`LineFacts`), and so a second writer beside the first changes nothing. `PairsAreApartHolds` follows.

### Only model-checked

- Liveness (`CallsReturn` of the manager and of the host, `Settles`, `ScriptEnds`, `WaitEnds`, `RestartIsHeard`): it needs ENABLED and fairness, which
  are outside the prover.
- `RunsThrough` of `ExperimentScript`: that no call finds a name in use or a container missing depends on every call of each of the
  eighteen scripts, of which the proof would be the enumeration that TLC makes.

## 5. Faulty variants

Every property of a passing run has a variant of a mapped definition that violates it under
the bounds of that run: a lock that does not exclude, an entry of the map that is kept, a wait that is
skipped, a handler that sends another counter, a test for generations without the wrap-around, a
loop before its payload is read, an answer credited before the new window is opened, and so on.

## 6. What is abstracted, and not modelled

- Exceptions are kept by class and by where they leave the code; messages and logs are not kept.
- `AppContainerManager`: arguments of a container other than its name and `wait`; docker_args,
  which decide only whether the creation is refused (that _createContainer writes the reserved keys into the
  caller's dictionary, net.py:243, is not followed). Every request to the daemon may fail where
  the model has a `...Fails` action.
- `ServiceMigration`: the six copies of a datagram are one that arrives or is lost. Requests and
  answers are lost only where nobody is bound to the port; links have no loss in that topology.
- `CodedChain`: header layout, lengths and padding of payloads, the MTU, checksums: so also that
  frame_len grows with each redundant packet (encoder.py:135), and that all symbols one frame makes decodable are
  sent with that frame's payload length (decoder.py:130). Two links, each FIFO and lossy.
- `UdpSource`: times and round trip times, except whether the episode is over. One path in each
  direction, so packets are lost but not overtaken. Each episode starts with an empty socket.
- `FlowRerouting`: one flow, as rules match on both addresses. `RoutingLearner`: Q values are real
  numbers. `filter_possible_paths_by_hops` discards the result of sorted() and deletes from the list it walks; the set of paths is
  any set in the model.
- `SlicedNetwork`: bandwidths, queues and the time rules live.
- `EdgeCloud`: copies of a probe that are on the same link at the same time are one packet with a count; answers of a server that arrive
  at the same time are one. What the loop of a server takes is any of the values of `Work`, for each answer; handling a packet takes the controller
  no time, and the links do not queue. ARP times, which are only logged; the rule for the best server, since no packet matches it
  (section 7); failures of addContainer, which `ExperimentScript` has; a probing server that
  dies, whose last, possibly best, time stays in the table for good.
- Not modelled: neural networks, image and signal processing (object detection, flow compression,
  software radio, notebooks), third-party brokers and firewalls, plots, byte arithmetic of raw sockets, the real-valued
  redundancy formulas, installation. None of them keeps state that a step of another actor can disturb, or
  what they compute is real-valued.

## 7. Where code and text disagree

Kept as a run that TLC must find violated: the race of do_DELETE (net.py:165), `delete_race`.

Found with these models in the same way, and not kept as runs:

- The loop over the undecoded symbols (decoder.py:119-121) deletes from the list it walks, and the iterator passes over the symbol behind each one it
  sends. The comment says "Loop over un-decoded symbols", and on-the-fly coding (app/network_coding_for_transport/README.md:44) hands a symbol out
  as soon as it is decoded. When one frame makes two neighbouring symbols decodable, for which one frame must have been lost and another
  repair it, the second waits for a later frame of the generation and is never delivered if there is none:
  `ToSet(undecoded) \cap Decodable(decoder) = {}` as an invariant of `coded_chain` is violated.
- node.py:201-204 swallows an error of the removal of a host: net.stop() ends normally and the container is left behind (`kept`). The cleanup
  that follows waits for the shell, which lives on in that container (node.py:191), so terminate() may not come back (`Hangs`).
- What the mobile edge cloud compares is not how fast a server answers, but when the last of several answers is back: each switch sends a probe on once for
  each server it knows, so that with n known servers under the root a server gets a multiple of the probe, answers all of it one
  after the other, and each answer overwrites the entry before (controller.py:144-228, 249). A server on a leaf with more
  known servers gets more copies and looks slower.
- A PUT of a flag makes the controller report before enough was measured, or before the action under way is done. With `measurements_for_reward = 1`
  (config.py:56) one reward is all an action gets, and it may then have been measured before that action.
- A container that is being added while stop() ends, without the lock, is registered afterwards and stays.
- net.py:371-375 promises ValueError for a container the user removed by the CLI; the test looks at the
  map, which the CLI does not change. NotFound is raised and the entries stay for good.
- The answer of the migrated service is not "the number of packets received"
  (examples/service_migration/README.md:18): requests between the first signal and the removal are not in the new count (server.py:32).
- recoder.py:121 does not recognise that generation numbers start again at 0, although its comment says that it
  cleans up for a new generation; old and new generations are mixed. The properties of `CodedChain` end there.
- source.py:153 says a timeout prevents a deadlock; settimeout(1) has been undone by setblocking(True) before each
  recvfrom (source.py:149), and the source stalls when a whole window is lost. The last loop of
  `UDPCCClient.loop` (172-177) is never entered.
- The README of the mobile edge cloud says requests go to the best server only once it is known. The rule has
  `eth_dst` of that server (controller.py:268-275), the client sends broadcasts: they are flooded for ever. A
  second run of `edgecloud.py` under the same controller gets no announcement, and deploys nothing, until the
  best server changes (hence `decided` in `LastWordCounts`). While the client is unknown the handler raises after
  measuring and the answer goes no further; entries then compare times taken at different switches.
- The README of dynamic slicing (line 156) says r1 and r2 drop what comes from h3 and h6 outside an emergency;
  `common_scenario.sh` drops only what goes from one to the other, and h3 reaches h1. In the third multi-tenant scenario
  port 5 of s5 is in no slice, as the entries named dpid5-port5 are for dpid 1: h4 receives and cannot send. If the
  script of `my_network.py` runs into an emergency, the third pair may stay closed in it.
- A flow that is rerouted after an iteration has taken its rules away and before it is routed anew may
  be left in a loop (`torn` in `FlowRerouting`).
- multihop_topo.py: Ctrl-C in create_topology is not caught by `except Exception` and lies outside the later try: hosts
  stay, and IPv6 stays disabled; so it does for any exception before the try. A removeContainer that is interrupted
  after the removal leaves its entry in the queue; mgr.stop() then raises NotFound and leaves the later ones, contrary
  to dockerhost_manage_appcontainer.py:112, "the mgr.stop method will remove all remaining app containers".
- `bin/ce` prints "Caught exception. Cleaning up..." and does not clean up. `ovx_test.py` cannot run: addDockerHost without
  docker_args raises TypeError (node.py:84).

## 8. Plan

Done, most important first: `AppContainerManager` with `ContainerRegistry` and the proofs;
`ServiceMigration`; `CodedChain`; `UdpSource`; `DockerHost`; `FlowRerouting`; `RoutingLearner` with its proofs;
`SlicedNetwork`; `ExperimentScript`; `EdgeCloud`; then the proofs about each of them.

Proved: all safety properties of the passing runs but `RunsThrough`, and the refinement of `ContainerRegistry`.

To do next: an operation for stop() in `ContainerRegistry`, and the refinement with it.

## 9. Running

    tlc -workers 2 -config ManagerTables.cfg AppContainerManager
    tlapm AppContainerManagerProofs.tla      # and the other modules named ...Proofs
