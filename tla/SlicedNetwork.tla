---------------------------- MODULE SlicedNetwork ---------------------------
(***************************************************************************)
(* The networks of app/realizing_network_slicing and the switches of       *)
(* app/software_defined_networks_examples/ex03: a controller installs a    *)
(* rule for the first packet of its kind at each switch and sends that     *)
(* packet on.  In the multi-tenant scenarios FlowVisor stands between the  *)
(* switches and one controller per slice; in the dynamic scenario scripts  *)
(* write rules too.                                                        *)
(*                                                                         *)
(* The networks share one set of actions; what differs is in tables, which *)
(* are those of the sources.  Hosts know each other's addresses            *)
(* (autoStaticArp), except with the learning switches, where they also     *)
(* broadcast.  Bandwidths and queues are not modelled.                     *)
(***************************************************************************)
EXTENDS Integers, Sequences, FiniteSets, TLC

CONSTANTS
  Nets,        \* the networks that are checked
  MaxPackets,  \* bound: packets sent; in the dynamic scenario one
  FewPackets,  \* bound: the same in the second and third scenario, with most hosts and kinds
  MaxExpired,  \* bound: rules that expire
  MaxCycles    \* bound: emergencies

ASSUME SlicedNetworkAssumption ==
  /\ Nets \subseteq {"service", "topology", "first", "second", "third", "dynamic",
                      "hub", "switch", "sdn_switch"}
  /\ MaxPackets \in Nat \ {0} /\ FewPackets \in Nat \ {0} /\ MaxExpired \in Nat /\ MaxCycles \in Nat

VARIABLES
  net,        \* the network
  rules,      \* the flow tables
  packets,    \* copies of packets on their way to a switch, or waiting at the controller
  count,      \* packets sent so far
  sent,       \* headers of the packets sent since none was under way
  got,        \* pairs of one of them and a host that took it
  twice,      \* history: a host took a packet again
  learned,    \* mac_to_port of the learning switches
  expired,    \* rules that expired so far
  emergency,  \* the flag of emergency_slicing
  timer,      \* its thread: <<"sleep", n>>, or <<"sos", i>>, <<"common", i>> at line i
  cycles,     \* emergencies so far
  setup       \* my_network: 0 before the network is up, then the line of common_scenario.sh

sliceVars == <<net, rules, packets, count, sent, got, twice, learned, expired, emergency, timer,
               cycles, setup>>
traffic == <<packets, count, sent, got, twice, learned>>
scripts == <<emergency, timer, cycles, setup>>

----------------------------------------------------------------------------
(* The topologies: links in the order of addLink, which numbers the ports. *)

SquareWires ==
  << <<"s1", "s2">>, <<"s2", "s4">>, <<"s1", "s3">>, <<"s3", "s4">>,
     <<"h1", "s1">>, <<"h2", "s1">>, <<"h3", "s4">>, <<"h4", "s4">> >>

LatticeWires ==
  << <<"s1", "s3">>, <<"s1", "s4">>, <<"s2", "s4">>, <<"s2", "s5">>,
     <<"s3", "s6">>, <<"s4", "s6">>, <<"s4", "s7">>, <<"s5", "s7">> >>

FirstWires ==
  LatticeWires \o << <<"h1", "s1">>, <<"h2", "s2">>, <<"h3", "s2">>,
                     <<"h4", "s6">>, <<"h5", "s7">>, <<"h6", "s7">> >>

SecondWires ==
  LatticeWires \o << <<"h1", "s1">>, <<"h2", "s1">>, <<"h3", "s2">>, <<"h4", "s2">>,
                     <<"h5", "s6">>, <<"h6", "s6">>, <<"h7", "s7">>, <<"h8", "s7">> >>

ThirdWires ==
  << <<"s1", "s2">>, <<"s1", "s3">>, <<"s1", "s4">>, <<"s2", "s5">>, <<"s3", "s5">>,
     <<"s4", "s5">>, <<"h1", "s1">>, <<"h2", "s1">>, <<"h3", "s5">>, <<"h4", "s5">> >>

DynamicWires ==
  << <<"r1", "r2">>, <<"h1", "r1">>, <<"h2", "r1">>, <<"h3", "r1">>,
     <<"h4", "r2">>, <<"h5", "r2">>, <<"h6", "r2">> >>

\* The exercises run on a network of mn: two switches in a line.
LineWires == << <<"s1", "s2">>, <<"h1", "s1">>, <<"h2", "s1">>, <<"h3", "s2">> >>

Wires ==
  [service |-> SquareWires, topology |-> SquareWires, first |-> FirstWires,
   second |-> SecondWires, third |-> ThirdWires, dynamic |-> DynamicWires,
   hub |-> LineWires, switch |-> LineWires, sdn_switch |-> LineWires]

AllHosts == {"h1", "h2", "h3", "h4", "h5", "h6", "h7", "h8"}
Nodes(w) == UNION {{w[i][1], w[i][2]} : i \in DOMAIN w}
Joins(w, x) == {i \in DOMAIN w : x \in {w[i][1], w[i][2]}}
PortOf(w, x, i) == Cardinality({j \in Joins(w, x) : j <= i})
Far(w, x, i) == CHOOSE y \in {w[i][1], w[i][2]} : y # x

\* What each port of each switch leads to: the node and the port there.
Peers ==
  [n \in DOMAIN Wires |->
     LET w == Wires[n] IN
     [s \in Nodes(w) |-> [p \in 1 .. Cardinality(Joins(w, s)) |->
        LET i == CHOOSE j \in Joins(w, s) : PortOf(w, s, j) = p IN
        [node |-> Far(w, s, i), port |-> PortOf(w, Far(w, s, i), i)]]]]

Switches(n) == Nodes(Wires[n]) \ AllHosts
Hosts(n) == Nodes(Wires[n]) \cap AllHosts
Ports(n, s) == DOMAIN Peers[n][s]
Router(n, h) == Peers[n][h][1].node

----------------------------------------------------------------------------
(* Slices: whom FlowVisor hands a packet that comes in at a port.          *)

\* 1st-flowvisor_slicing.sh
FirstSlice(s, in) ==
  CASE s \in {"s1", "s3", "s6"} -> "upper"
    [] s = "s2" -> IF in \in {1, 3} THEN "middle" ELSE "lower"
    [] s = "s4" -> IF in \in {1, 3} THEN "upper" ELSE "middle"
    [] s = "s5" -> "lower"
    [] s = "s7" -> IF in \in {1, 3} THEN "middle" ELSE "lower"

\* Faulty variant: the two lines that are commented out are in force.
SecondSliceWhole(s, in) ==
  CASE s \in {"s1", "s3", "s6"} -> "upper"
    [] s = "s4" -> IF in \in {1, 3} THEN "upper" ELSE "lower"
    [] s \in {"s2", "s5", "s7"} -> "lower"

\* 2nd-flowvisor_slicing.sh: two ports of s4 are in no slice.
SecondSlice(s, in) ==
  CASE s \in {"s1", "s3", "s6"} -> "upper"
    [] s = "s4" -> IF in \in {1, 3} THEN "upper" ELSE "none"
    [] s \in {"s2", "s5", "s7"} -> "lower"

Video(p) == p.proto = "tcp" /\ p.port = 9999
Voip(p) == p.proto = "udp" /\ p.port = 9998

\* 3rd-flowvisor_slicing.sh: by port inside the network and by kind at the hosts; the entries
\* meant for port 5 of s5 are made for s1, so that port is in no slice.
ThirdSlice(s, in, p) ==
  CASE s = "s2" -> "upper"
    [] s = "s3" -> "middle"
    [] s = "s4" -> "lower"
    [] s \in {"s1", "s5"} /\ in <= 3 -> <<"upper", "middle", "lower">>[in]
    [] s = "s5" /\ in = 5 -> "none"
    [] OTHER -> IF Video(p) THEN "upper" ELSE IF Voip(p) THEN "middle" ELSE "lower"

Slice(n, p) ==
  CASE n = "first" -> FirstSlice(p.at, p.in)
    [] n = "second" -> SecondSlice(p.at, p.in)
    [] n = "third" -> ThirdSlice(p.at, p.in, p)
    [] OTHER -> "all"

\* The ports of the slice at the switch, to which FlowVisor confines a flood.
SlicePorts(n, p) ==
  IF n = "third" /\ p.at \in {"s1", "s5"} THEN Ports(n, p.at)
  ELSE {q \in Ports(n, p.at) : Slice(n, [p EXCEPT !.in = q]) = Slice(n, p)}

\* Switches of several slices, where FlowVisor may refuse a packet-out (README, Known Issue).
SharedSwitches(n) ==
  CASE n = "first" -> {"s2", "s4", "s7"}
    [] n = "third" -> {"s1", "s5"}
    [] OTHER -> {}

----------------------------------------------------------------------------
(* The controllers: what one does with a packet that meets no rule.        *)

Match(p, fields) == [f \in fields |-> p[f]]

\* A rule is added and the packet is sent the same way.
AddAndSend(p, fields, prio, out, lasting) ==
  {[match |-> Match(p, fields), prio |-> prio, out |-> out, lasting |-> lasting,
    installs |-> TRUE, sends |-> {TRUE}]}

\* Faulty variant: the rule for datagrams of other services does not look at the port.
ServiceDecisionCoarse(n, p, ends, lasting) ==
  IF p.at \notin DOMAIN ends THEN AddAndSend(p, {"in"}, 1, SlicePorts(n, p), lasting)
  ELSE IF p.dst \in DOMAIN ends[p.at] THEN AddAndSend(p, {"dst"}, 1, {ends[p.at][p.dst]}, lasting)
  ELSE IF p.proto = "udp" /\ p.port = 9999
    THEN AddAndSend(p, {"in", "dst", "proto", "port"}, 2, {1}, lasting)
  ELSE AddAndSend(p, {"in", "dst", "src", "proto"}, 1, {2}, lasting)

\* service_slicing.py and the upper slice of the second scenario: the end switches know their
\* hosts; everything else goes to the port of its service; the switches between flood.
ServiceDecision(n, p, ends, lasting) ==
  IF p.at \notin DOMAIN ends THEN AddAndSend(p, {"in"}, 1, SlicePorts(n, p), lasting)
  ELSE IF p.dst \in DOMAIN ends[p.at] THEN AddAndSend(p, {"dst"}, 1, {ends[p.at][p.dst]}, lasting)
  ELSE IF p.proto = "udp" /\ p.port = 9999
    THEN AddAndSend(p, {"in", "dst", "proto", "port"}, 2, {1}, lasting)
  ELSE IF p.proto = "udp"
    THEN AddAndSend(p, {"in", "dst", "src", "proto", "port"}, 1, {2}, lasting)
  ELSE AddAndSend(p, {"in", "dst", "src", "proto"}, 1, {2}, lasting)

ServiceEnds == [s1 |-> [h1 |-> 3, h2 |-> 4], s4 |-> [h3 |-> 3, h4 |-> 4]]
SecondEnds == [s1 |-> [h1 |-> 3, h2 |-> 4], s6 |-> [h5 |-> 3, h6 |-> 4]]

\* slice_to_port: where what comes in at each port goes; 0 is nowhere.
TopologyTable == [s1 |-> <<3, 4, 1, 2>>, s2 |-> <<2, 1>>, s3 |-> <<2, 1>>, s4 |-> <<3, 4, 1, 2>>]
FirstUpper == [s1 |-> <<0, 3, 1>>, s3 |-> <<2, 0>>, s4 |-> <<0, 0, 1, 0>>, s6 |-> <<3, 0, 2>>]
FirstMiddle == [s2 |-> <<3, 0, 1, 0>>, s4 |-> <<0, 4, 0, 2>>, s7 |-> <<3, 0, 1, 0>>]
FirstLower == [s2 |-> <<0, 4, 0, 2>>, s5 |-> <<2, 1>>, s7 |-> <<0, 4, 0, 2>>]

\* topology_slicing.py and the slices of the first scenario.
TableDecision(table, p, prio, lasting) ==
  IF table[p.at][p.in] = 0 THEN {}
  ELSE AddAndSend(p, {"in"}, prio, {table[p.at][p.in]}, lasting)

FirstUpperSlice(p) == TableDecision(FirstUpper, p, 2, FALSE)
FirstMiddleSlice(p) == TableDecision(FirstMiddle, p, 2, TRUE)

\* It does not send the packet itself.
FirstLowerSlice(p) ==
  {[d EXCEPT !.sends = {FALSE}] : d \in TableDecision(FirstLower, p, 2, TRUE)}

FirstDecision(p) ==
  CASE Slice("first", p) = "upper" -> FirstUpperSlice(p)
    [] Slice("first", p) = "middle" -> FirstMiddleSlice(p)
    [] OTHER -> FirstLowerSlice(p)

SecondUpperSlice(p) == ServiceDecision("second", p, SecondEnds, FALSE)

\* It floods, and sends no data: the packet is lost if the switch has not buffered it.
SecondLowerSlice(p) ==
  {[d EXCEPT !.sends = BOOLEAN] : d \in AddAndSend(p, {}, 1, SlicePorts("second", p), FALSE)}

SecondDecision(p) ==
  IF Slice("second", p) = "upper" THEN SecondUpperSlice(p) ELSE SecondLowerSlice(p)

\* Faulty variant: the middle slice uses the port of the upper one.
ThirdEndsShared(port) ==
  LET q == IF port = 2 THEN 1 ELSE port IN
  [s1 |-> [h1 |-> 4, h2 |-> 5, h3 |-> q, h4 |-> q],
   s5 |-> [h3 |-> 4, h4 |-> 5, h1 |-> q, h2 |-> q]]

\* Hosts at their ports, and what is on the other side at the port of the slice.
ThirdEnds(port) ==
  [s1 |-> [h1 |-> 4, h2 |-> 5, h3 |-> port, h4 |-> port],
   s5 |-> [h3 |-> 4, h4 |-> 5, h1 |-> port, h2 |-> port]]

ThirdEnd(p, port, refused, fields) ==
  IF p.at \notin {"s1", "s5"} THEN AddAndSend(p, {"in"}, 1, SlicePorts("third", p), FALSE)
  ELSE IF p.proto \in refused \/ p.dst \notin DOMAIN ThirdEnds(port)[p.at] THEN {}
  ELSE AddAndSend(p, fields, 1, {ThirdEnds(port)[p.at][p.dst]}, FALSE)

ThirdUpperSlice(p) == ThirdEnd(p, 1, {"udp", "icmp"}, {"dst"})
ThirdMiddleSlice(p) == ThirdEnd(p, 2, {"tcp", "icmp"}, {"dst"})
ThirdLowerSlice(p) == ThirdEnd(p, 3, {}, {"in", "dst", "src", "proto"})

ThirdDecision(p) ==
  CASE Slice("third", p) = "upper" -> ThirdUpperSlice(p)
    [] Slice("third", p) = "middle" -> ThirdMiddleSlice(p)
    [] OTHER -> ThirdLowerSlice(p)

\* emergency_slicing.py: the same with and without an emergency.
DynamicEnds ==
  [r1 |-> [h1 |-> 2, h2 |-> 3, h3 |-> 4, h4 |-> 1, h5 |-> 1, h6 |-> 1],
   r2 |-> [h4 |-> 2, h5 |-> 3, h6 |-> 4, h1 |-> 1, h2 |-> 1, h3 |-> 1]]

DynamicDecision(p) == AddAndSend(p, {"dst"}, 1, {DynamicEnds[p.at][p.dst]}, TRUE)

\* hub.py, and switch_13.py: a host is at the port its last packet came in at.
HubDecision(n, p) ==
  {[d EXCEPT !.installs = FALSE] : d \in AddAndSend(p, {}, 1, Ports(n, p.at), TRUE)}

SwitchDecision(n, p, macs) ==
  IF macs[p.at][p.dst] = 0 THEN HubDecision(n, p)
  ELSE {[d EXCEPT !.installs = FALSE] : d \in AddAndSend(p, {}, 1, {macs[p.at][p.dst]}, TRUE)}

\* sdn_switch_13.py: for a known host a rule is added too.
SdnSwitchDecision(n, p, macs) ==
  IF macs[p.at][p.dst] = 0 THEN HubDecision(n, p)
  ELSE AddAndSend(p, {"in", "dst"}, 1, {macs[p.at][p.dst]}, TRUE)

Decision(n, p, macs) ==
  CASE n = "service" -> ServiceDecision(n, p, ServiceEnds, TRUE)
    [] n = "topology" -> TableDecision(TopologyTable, p, 1, TRUE)
    [] n = "first" -> FirstDecision(p)
    [] n = "second" -> SecondDecision(p)
    [] n = "third" -> ThirdDecision(p)
    [] n = "dynamic" -> DynamicDecision(p)
    [] n = "hub" -> HubDecision(n, p)
    [] n = "switch" -> SwitchDecision(n, p, macs)
    [] n = "sdn_switch" -> SdnSwitchDecision(n, p, macs)

----------------------------------------------------------------------------
(* The scripts of the dynamic scenario write rules line by line.           *)

R1Drops == << <<"h1", "h2">>, <<"h1", "h3">>, <<"h1", "h5">>, <<"h1", "h6">>,
              <<"h2", "h1">>, <<"h2", "h3">>, <<"h2", "h4">>, <<"h2", "h6">> >>
R2Drops == << <<"h4", "h5">>, <<"h4", "h6">>, <<"h4", "h2">>, <<"h4", "h3">>,
              <<"h5", "h4">>, <<"h5", "h6">>, <<"h5", "h1">>, <<"h5", "h3">> >>

\* "normal" learns addresses itself and may flood, which reaches no other host.
Lines(r, pairs, out) ==
  [i \in DOMAIN pairs |-> [at |-> r, src |-> pairs[i][1], dst |-> pairs[i][2], out |-> out]]
Opens(r, pairs) == Lines(r, pairs, Ports("dynamic", r))
Drops(r, pairs) == Lines(r, pairs, {})

SosScenario ==
  Opens("r1", << <<"h1", "h4">>, <<"h2", "h5">>, <<"h3", "h6">> >>) \o Drops("r1", R1Drops) \o
  Opens("r2", << <<"h4", "h1">>, <<"h5", "h2">>, <<"h6", "h3">> >>) \o Drops("r2", R2Drops)

CommonScenario ==
  Opens("r1", << <<"h1", "h4">>, <<"h2", "h5">> >>) \o Drops("r1", R1Drops) \o
  Drops("r1", << <<"h3", "h6">> >>) \o
  Opens("r2", << <<"h4", "h1">>, <<"h5", "h2">> >>) \o Drops("r2", R2Drops) \o
  Drops("r2", << <<"h6", "h3">> >>)

SetUp == Len(CommonScenario) + 1

----------------------------------------------------------------------------
\* Adding a rule replaces one with the same match and priority.
Added(rs, r) ==
  {q \in rs : ~(q.at = r.at /\ q.prio = r.prio /\ q.slice = r.slice /\ q.match = r.match)} \cup {r}

\* switch_features_handler of the middle slice.
InitialRules(n) ==
  IF n # "first" THEN {}
  ELSE {[at |-> t[1], slice |-> "middle", match |-> Match([in |-> t[2]], {"in"}), prio |-> 2,
         out |-> {FirstMiddle[t[1]][t[2]]}, lasting |-> TRUE] :
           t \in {u \in (DOMAIN FirstMiddle) \X (1 .. 4) : FirstMiddle[u[1]][u[2]] # 0}}

Learning == {"hub", "switch", "sdn_switch"}

SliceInit ==
  /\ net \in Nets
  /\ rules = InitialRules(net) /\ packets = {} /\ count = 0 /\ sent = <<>> /\ got = {} /\ twice = FALSE
  /\ learned = IF net \in Learning
               THEN [s \in Switches(net) |-> [h \in Hosts(net) \cup {"all"} |-> 0]] ELSE <<>>
  /\ expired = 0
  /\ emergency = FALSE /\ timer = <<"sleep", 1>> /\ cycles = 0
  /\ setup = IF net = "dynamic" THEN 0 ELSE SetUp

\* The kinds of packets of a host that the network tells apart.
Kinds(n, h) ==
  CASE n = "service" \/ (n = "second" /\ h \in {"h1", "h2", "h5", "h6"}) ->
         {<<"udp", 9999>>, <<"udp", 0>>, <<"tcp", 0>>, <<"icmp", 0>>}
    [] n = "third" ->
         {<<"tcp", 9999>>, <<"udp", 9998>>, <<"tcp", 0>>, <<"udp", 0>>, <<"icmp", 0>>}
    [] OTHER -> {<<"udp", 0>>}

\* Several packets are under way at a time only where the controller learns from them;
\* in the dynamic scenario a packet is sent while no script runs.
MaySend ==
  CASE net \in Learning -> count < MaxPackets
    [] net = "dynamic" -> count < 1 /\ setup = SetUp /\ timer[1] = "sleep"
    [] net \in {"second", "third"} -> count < FewPackets /\ packets = {}
    [] OTHER -> count < MaxPackets /\ packets = {}

HostSends ==
  /\ MaySend
  /\ \E h \in Hosts(net) : \E k \in Kinds(net, h),
       d \in (Hosts(net) \cup (IF net \in Learning THEN {"all"} ELSE {})) \ {h} :
       LET to == Peers[net][h][1]
           before == IF packets = {} THEN <<>> ELSE sent IN
       /\ packets' = packets \cup
            {[id |-> Len(before) + 1, src |-> h, dst |-> d, proto |-> k[1], port |-> k[2],
              at |-> to.node, in |-> to.port, asked |-> FALSE]}
       /\ sent' = Append(before, <<h, d, k>>)
       /\ got' = IF packets = {} THEN {} ELSE got
  /\ count' = count + 1
  /\ UNCHANGED <<net, rules, twice, learned, expired, scripts>>

Catches(r, p) ==
  r.at = p.at /\ r.slice = Slice(net, p) /\ \A f \in DOMAIN r.match : r.match[f] = p[f]

\* The rules of highest priority that catch a packet.
Best(p) ==
  LET rs == {r \in rules : Catches(r, p)} IN {r \in rs : \A q \in rs : q.prio <= r.prio}

\* A switch sends a packet out at some ports, never at the one it came in at.
Output(p, out) ==
  LET ends == {Peers[net][p.at][q] : q \in out \ {p.in}}
      taken == {<<p.id, e.node>> : e \in {e \in ends : e.node \in AllHosts /\ p.dst \in {e.node, "all"}}} IN
  /\ packets' = (packets \ {p}) \cup
       {[p EXCEPT !.at = e.node, !.in = e.port, !.asked = FALSE] :
          e \in {e \in ends : e.node \notin AllHosts}}
  /\ got' = got \cup taken
  /\ twice' = (twice \/ taken \cap got # {})

SwitchForwards(p) ==
  /\ ~p.asked
  /\ \E r \in Best(p) : Output(p, r.out)
  /\ UNCHANGED <<net, rules, count, sent, learned, expired, scripts>>

\* The table-miss rule: the packet goes to the controller of its slice, if it has one.
SwitchAsks(p) ==
  /\ ~p.asked /\ Best(p) = {}
  /\ packets' = (packets \ {p}) \cup
       (IF Slice(net, p) = "none" THEN {} ELSE {[p EXCEPT !.asked = TRUE]})
  /\ UNCHANGED <<net, rules, count, sent, got, twice, learned, expired, scripts>>

\* The learning switches note where the sender is.
Learned(p) == IF net \in {"switch", "sdn_switch"} THEN [learned EXCEPT ![p.at][p.src] = p.in] ELSE learned

Installed(p, d) ==
  [at |-> p.at, slice |-> Slice(net, p), match |-> d.match, prio |-> d.prio, out |-> d.out,
   lasting |-> d.lasting]

\* _packet_in_handler, and what FlowVisor makes of its two messages.
PacketInHandler(p) ==
  /\ p.asked
  /\ learned' = Learned(p)
  /\ \/ /\ Decision(net, p, Learned(p)) = {}
        /\ packets' = packets \ {p} /\ UNCHANGED <<rules, got, twice>>
     \/ \E d \in Decision(net, p, Learned(p)) :
          /\ rules' = IF d.installs THEN Added(rules, Installed(p, d)) ELSE rules
          /\ \/ TRUE \in d.sends /\ Output(p, d.out)
             \/ /\ FALSE \in d.sends \/ p.at \in SharedSwitches(net)
                /\ packets' = packets \ {p} /\ UNCHANGED <<got, twice>>
  /\ UNCHANGED <<net, count, sent, expired, scripts>>

\* idle_timeout and hard_timeout
RuleExpires(r) ==
  /\ ~r.lasting /\ expired < MaxExpired
  /\ rules' = rules \ {r} /\ expired' = expired + 1
  /\ UNCHANGED <<net, traffic, scripts>>

----------------------------------------------------------------------------
\* A line fails while the network is not up.
Write(line) ==
  rules' = IF setup = 0 THEN rules
           ELSE Added(rules, [at |-> line.at, slice |-> "all",
                              match |-> Match(line, {"src", "dst"}), prio |-> 65500,
                              out |-> line.out, lasting |-> TRUE])

\* my_network.py: the network starts, and the script runs beside the controller.
NetworkStarts ==
  /\ setup = 0 /\ setup' = 1
  /\ UNCHANGED <<net, rules, traffic, expired, emergency, timer, cycles>>

SetupLine ==
  /\ setup \in DOMAIN CommonScenario
  /\ Write(CommonScenario[setup]) /\ setup' = setup + 1
  /\ UNCHANGED <<net, traffic, expired, emergency, timer, cycles>>

\* timer: the flag first, then the script.
Alarm ==
  /\ net = "dynamic" /\ timer = <<"sleep", 1>> /\ cycles < MaxCycles
  /\ emergency' = TRUE /\ timer' = <<"sos", 1>>
  /\ UNCHANGED <<net, rules, traffic, expired, cycles, setup>>

SosLine ==
  /\ timer[1] = "sos"
  /\ Write(SosScenario[timer[2]])
  /\ timer' = IF timer[2] = Len(SosScenario) THEN <<"sleep", 2>> ELSE <<"sos", timer[2] + 1>>
  /\ UNCHANGED <<net, traffic, expired, emergency, cycles, setup>>

\* Faulty variant: the flag falls before the script has run.
AllClearAtOnce ==
  /\ timer = <<"sleep", 2>> /\ timer' = <<"common", 1>> /\ emergency' = FALSE
  /\ UNCHANGED <<net, rules, traffic, expired, cycles, setup>>

AllClear ==
  /\ timer = <<"sleep", 2>> /\ timer' = <<"common", 1>>
  /\ UNCHANGED <<net, rules, traffic, expired, emergency, cycles, setup>>

CommonLine ==
  /\ timer[1] = "common" /\ timer[2] \in DOMAIN CommonScenario
  /\ Write(CommonScenario[timer[2]])
  /\ timer' = <<"common", timer[2] + 1>>
  /\ UNCHANGED <<net, traffic, expired, emergency, cycles, setup>>

EmergencyEnds ==
  /\ timer = <<"common", SetUp>>
  /\ emergency' = FALSE /\ timer' = <<"sleep", 1>> /\ cycles' = cycles + 1
  /\ UNCHANGED <<net, rules, traffic, expired, setup>>

SliceNext ==
  \/ HostSends
  \/ \E p \in packets : SwitchForwards(p) \/ SwitchAsks(p) \/ PacketInHandler(p)
  \/ \E r \in rules : RuleExpires(r)
  \/ NetworkStarts \/ SetupLine \/ Alarm \/ SosLine \/ AllClear \/ CommonLine \/ EmergencyEnds

SliceSpec == SliceInit /\ [][SliceNext]_sliceVars

----------------------------------------------------------------------------
Group(n, h) ==
  LET groups == CASE n = "topology" -> {{"h1", "h3"}, {"h2", "h4"}}
                  [] n = "first" -> {{"h1", "h4"}, {"h2", "h5"}, {"h3", "h6"}}
                  [] n = "second" -> {{"h1", "h2", "h5", "h6"}, {"h3", "h4", "h7", "h8"}}
                  [] OTHER -> {Hosts(n)} IN
  CHOOSE g \in groups : h \in g

\* The switches of the slice a packet belongs to.
Area(n, p) ==
  CASE n = "service" -> {"s1", "s4"} \cup (IF p.proto = "udp" /\ p.port = 9999 THEN {"s2"} ELSE {"s3"})
    [] n = "topology" -> {"s1", "s4"} \cup (IF p.src \in {"h1", "h3"} THEN {"s2"} ELSE {"s3"})
    [] n = "first" -> IF p.src \in {"h1", "h4"} THEN {"s1", "s3", "s4", "s6"}
                      ELSE IF p.src \in {"h2", "h5"} THEN {"s2", "s4", "s7"} ELSE {"s2", "s5", "s7"}
    [] n = "second" -> IF p.src \in {"h3", "h4", "h7", "h8"} THEN {"s2", "s4", "s5", "s7"}
                       ELSE {"s1", "s6"} \cup (IF p.proto = "udp" /\ p.port = 9999 THEN {"s3"} ELSE {"s4"})
    [] n = "third" -> {"s1", "s5"} \cup
                      (IF Video(p) THEN {"s2"} ELSE IF Voip(p) THEN {"s3"} ELSE {"s4"})
    [] OTHER -> Switches(n)

\* A packet crosses only switches of its slice and is taken only by a host of that slice,
\* whatever rules earlier packets have left and whichever of them have expired (the decisions
\* of the controllers and the granularity of their rules).
SlicesAreApart ==
  /\ \A p \in packets : p.at \in Area(net, p)
  /\ \A t \in got : t[2] \in Group(net, sent[t[1]][1])

\* A packet that finds a rule goes where the controller would send it now: no rule catches
\* packets it was not made for (the match of each add_flow).
RulesAgree ==
  \A p \in packets : \A r \in Best(p) :
    r.prio < 65500 =>
      \E d \in Decision(net, p, Learned(p)) : d.out \ {p.in} = r.out \ {p.in}

\* No host takes a packet twice, although switches flood.
TakenOnce == ~twice

\* In the dynamic scenario, once my_network has run its script: hosts of the first two pairs
\* reach their partners only, while rules are rewritten too; and outside an emergency the
\* third pair is cut off, which takes the flag to rise before the first line of
\* sos_scenario.sh and to fall after the last of common_scenario.sh (timer).
PairsAreApart ==
  LET open(a, b) ==
        \E r \in Best([src |-> a, dst |-> b, at |-> Router(net, a), in |-> 2, proto |-> "udp"]) :
          r.out # {} IN
  net = "dynamic" /\ setup = SetUp =>
    /\ \A a \in {"h1", "h2", "h4", "h5"} : \A b \in Hosts(net) \ {a} :
         open(a, b) <=> {a, b} \in {{"h1", "h4"}, {"h2", "h5"}}
    /\ ~emergency => ~open("h3", "h6") /\ ~open("h6", "h3")
=============================================================================
