--------------------------- MODULE FlowRerouting ---------------------------
(***************************************************************************)
(* app/machine_learning_for_routing/controller: remote_controller.py puts  *)
(* an IPv4 flow on a path when its first packet misses (routing_ip), moves *)
(* it when the learner asks for it (reroute) and takes its rules away when *)
(* an iteration of the experiment ends (checking_updates).  Rules travel   *)
(* to the switches as messages without barriers: each switch applies its   *)
(* own in order, and the switches do not wait for one another.  A packet   *)
(* that misses is not forwarded, and its flow is routed only once.         *)
(*                                                                         *)
(* One flow is modelled: rules match on the two addresses, so flows do not *)
(* disturb one another.                                                    *)
(***************************************************************************)
EXTENDS Integers, Sequences, SequencesExt

CONSTANTS
  Switches, Links,   \* the network: links are sets of two switches
  Src, Dst,          \* the switches of the two hosts
  NoRule, Host,      \* the hop of a switch without a rule, and the one that leaves the network
  MaxActions,        \* bound: actions of the learner
  MaxResets,         \* bound: ends of an iteration
  MaxWire            \* bound: messages under way at a time

ASSUME FlowReroutingAssumption ==
  /\ IsFiniteSet(Switches)
  /\ Src \in Switches /\ Dst \in Switches /\ Src # Dst
  /\ NoRule \notin Switches /\ Host \notin Switches /\ NoRule # Host
  /\ MaxActions \in Nat /\ MaxResets \in Nat /\ MaxWire \in Nat

VARIABLES
  table,      \* the hop of the flow at each switch
  wire,       \* flow messages sent and not applied, oldest first
  missed,     \* a packet-in of the flow waits at the controller
  chosen,     \* chosen_path_per_flow: <<>> before the flow is known
  routed,     \* the flow is in already_routed_ip
  pc,         \* checking_updates: "poll", "sleep" (in reroute) or "report"
  pending,    \* messages reroute sends after its sleep
  asked,      \* reports the learner has not answered
  actions,    \* paths the learner asks for, in the pipe
  issued,     \* actions of the learner so far
  iteration,  \* iteration_flag, set by a PUT request
  resets,     \* times it was set
  reordered,  \* a message overtook an older one since the wire was last empty
  torn,       \* the flow was rerouted while it was not routed
  up          \* the flow was delivered over rules at rest, and not reset since

vars == <<table, wire, missed, chosen, routed, pc, pending, asked, actions, issued,
          iteration, resets, reordered, torn, up>>
learner == <<asked, actions, issued>>

----------------------------------------------------------------------------
(* Paths.                                                                  *)

IsPath(p) ==
  /\ p[1] = Src /\ p[Len(p)] = Dst
  /\ \A i \in 1 .. Len(p) - 1 : {p[i], p[i + 1]} \in Links
  /\ \A i, j \in DOMAIN p : p[i] = p[j] => i = j

\* get_paths: all simple paths between the two switches.
Paths == {p \in UNION {[1 .. n -> Switches] : n \in 2 .. Cardinality(Switches)} : IsPath(p)}

On(p, s) == \E i \in DOMAIN p : p[i] = s
Pos(p, s) == CHOOSE i \in DOMAIN p : p[i] = s
Before(p, s) == p[Pos(p, s) - 1]

NextOn(p, s) == IF Pos(p, s) = Len(p) THEN Host ELSE p[Pos(p, s) + 1]

\* add_ports_to_path and install_path: the hop of each switch of ss on path p.
Forward(p, ss) == [i \in DOMAIN ss |-> [switch |-> ss[i], hop |-> NextOn(p, ss[i])]]
Delete(ss) == [i \in DOMAIN ss |-> [switch |-> ss[i], hop |-> NoRule]]

\* The elements of a list that are in a set, in their order.
Kept(list, set) ==
  LET upTo[n \in 0 .. Len(list)] ==
        IF n = 0 THEN <<>>
        ELSE IF list[n] \in set THEN Append(upTo[n - 1], list[n]) ELSE upTo[n - 1]
  IN upTo[Len(list)]

\* flow_add_list and flow_delete_list of reroute; the latter is made of a set, in any order.
Added(old, new) == Kept(new, {s \in Switches : ~On(old, s)})
Deleted(old, new) == Kept(old, {s \in Switches : ~On(new, s)})

\* The switches before a new one, and those before one that was reached from elsewhere, unless
\* they are new themselves.
Follows(old, new) ==
  {s \in ToSet(new) \ {Dst} : On(old, NextOn(new, s)) =>
                               On(old, s) /\ Before(old, NextOn(new, s)) # s}

\* The switches before a deleted one.
Leaves(old, new) == {s \in ToSet(old) \ {Dst} : On(new, s) /\ ~On(new, NextOn(old, s))}

\* Faulty variant: only switches before a new one are modified.
ModifiedBeforeAdded(old, new) ==
  Reverse(Kept(new, {s \in ToSet(new) \ {Dst} : ~On(old, NextOn(new, s))}))

\* Faulty variant: from the source to the destination.
ModifiedForward(old, new) ==
  Kept(new, Follows(old, new)) \o Kept(old, Leaves(old, new) \ Follows(old, new))

\* flow_mod_list, reversed.
Modified(old, new) ==
  Reverse(Kept(new, Follows(old, new)) \o Kept(old, Leaves(old, new) \ Follows(old, new)))

----------------------------------------------------------------------------
Init ==
  /\ table = [s \in Switches |-> NoRule] /\ wire = <<>>
  /\ missed = FALSE
  /\ chosen = <<>> /\ routed = FALSE
  /\ pc = "poll" /\ pending = <<>>
  /\ asked = 0 /\ actions = <<>> /\ issued = 0
  /\ iteration = FALSE /\ resets = 0 /\ reordered = FALSE /\ torn = FALSE /\ up = FALSE

Send(ms) == Len(wire \o ms) <= MaxWire /\ wire' = wire \o ms

\* Where a packet is after k hops, if no rule changes.
Walk[k \in 0 .. Cardinality(Switches)] ==
  IF k = 0 THEN Src
  ELSE IF Walk[k - 1] \in Switches THEN table[Walk[k - 1]] ELSE Walk[k - 1]

WalkEnd == Walk[Cardinality(Switches)]

Delivers == WalkEnd = Host

\* The host sends a packet, and a switch on its way has no rule for it.
PacketMisses ==
  /\ WalkEnd = NoRule /\ ~missed
  /\ missed' = TRUE
  /\ UNCHANGED <<table, wire, chosen, routed, pc, pending, learner, iteration, resets, reordered,
                 torn, up>>

\* A switch applies its oldest message.
SwitchApplies(i) ==
  /\ \A j \in 1 .. i - 1 : wire[j].switch # wire[i].switch
  /\ table' = [table EXCEPT ![wire[i].switch] = wire[i].hop]
  /\ wire' = RemoveAt(wire, i)
  /\ reordered' = (Len(wire) > 1 /\ (reordered \/ i > 1))
  /\ up' = (up \/ (Len(wire) = 1 /\ routed /\ Delivers'))
  /\ UNCHANGED <<missed, chosen, routed, pc, pending, learner, iteration, resets, torn>>

\* _packet_in_handler and routing_ip: a random path is installed switch by switch, from the
\* source on, unless the flow was routed already; the packet is lost in either case.
RoutingIp ==
  /\ missed /\ missed' = FALSE
  /\ IF routed THEN UNCHANGED <<wire, chosen, routed>>
     ELSE \E p \in Paths : chosen' = p /\ Send(Forward(p, p)) /\ routed' = TRUE
  /\ UNCHANGED <<table, pc, pending, learner, iteration, resets, reordered, torn, up>>

\* checking_updates without an action in the pipe, or with "NoTrans".
NoAction ==
  /\ pc = "poll"
  /\ actions = <<>>
  /\ pc' = "report"
  /\ UNCHANGED <<table, wire, missed, chosen, routed, pending, learner, iteration,
                 resets, reordered, torn, up>>

\* reroute: the path is recorded and the new switches get their rules ...
Reroute ==
  /\ pc = "poll" /\ actions # <<>>
  /\ LET old == chosen new == Head(actions) IN
     /\ chosen' = new
     /\ Send(Forward(new, Added(old, new)))
     /\ pending' = Forward(new, Modified(old, new)) \o Delete(Deleted(old, new))
  /\ actions' = Tail(actions)
  /\ torn' = (torn \/ ~routed)
  /\ pc' = "sleep"
  /\ UNCHANGED <<table, missed, routed, asked, issued, iteration, resets, reordered, up>>

\* ... and after a sleep, in which other threads run, the others are modified or deleted.
RerouteWakes ==
  /\ pc = "sleep" /\ pc' = "report"
  /\ Send(pending) /\ pending' = <<>>
  /\ UNCHANGED <<table, missed, chosen, routed, learner, iteration, resets, reordered,
                 torn, up>>

\* Faulty variant: the flow still counts as routed.
ReportKeepsRouted ==
  /\ pc = "report" /\ pc' = "poll"
  /\ IF iteration THEN Send(Delete(chosen)) ELSE UNCHANGED wire
  /\ asked' \in {asked} \cup (IF chosen # <<>> /\ issued + asked < MaxActions THEN {asked + 1} ELSE {})
  /\ iteration' = FALSE /\ up' = (up /\ ~iteration)
  /\ UNCHANGED <<table, routed, missed, chosen, pending, actions, issued, resets, reordered, torn>>

\* The rest of checking_updates: at the end of an iteration the rules on the chosen path are
\* deleted and the flow counts as not routed, but keeps its chosen path; then the learner gets
\* a report, which is due at the end of an iteration and else may have to wait for fresh
\* measurements.
Report ==
  /\ pc = "report" /\ pc' = "poll"
  /\ IF iteration THEN Send(Delete(chosen)) /\ routed' = FALSE ELSE UNCHANGED <<wire, routed>>
  /\ asked' \in (IF iteration THEN {} ELSE {asked}) \cup
                (IF chosen # <<>> /\ issued + asked < MaxActions THEN {asked + 1}
                 ELSE IF iteration THEN {asked} ELSE {})
  /\ iteration' = FALSE
  /\ up' = (up /\ ~iteration)
  /\ UNCHANGED <<table, missed, chosen, pending, actions, issued, resets, reordered, torn>>

LearnerAnswers ==
  /\ asked > 0 /\ asked' = asked - 1
  /\ issued' = issued + 1
  /\ \/ \E p \in Paths : actions' = Append(actions, p)
     \/ UNCHANGED actions
  /\ UNCHANGED <<table, wire, missed, chosen, routed, pc, pending, iteration, resets,
                 reordered, torn, up>>

PutIterationFlag ==
  /\ resets < MaxResets
  /\ resets' = resets + 1 /\ iteration' = TRUE
  /\ UNCHANGED <<table, wire, missed, chosen, routed, pc, pending, learner, reordered,
                 torn, up>>

Next ==
  \/ PacketMisses \/ \E i \in DOMAIN wire : SwitchApplies(i)
  \/ RoutingIp \/ NoAction \/ Reroute \/ RerouteWakes \/ Report
  \/ LearnerAnswers \/ PutIterationFlag

Fairness ==
  /\ WF_vars(PacketMisses)
  /\ WF_vars(\E i \in DOMAIN wire : SwitchApplies(i))
  /\ WF_vars(RoutingIp) /\ WF_vars(RerouteWakes)

Spec == Init /\ [][Next]_vars /\ Fairness

----------------------------------------------------------------------------
Quiet == wire = <<>> /\ pc # "sleep"

\* Once all messages are applied a routed flow takes the path recorded for it, and no switch
\* off that path has a rule of the flow, whatever order the switches applied them in (reroute).
FollowsChosen ==
  Quiet /\ routed /\ ~torn =>
    \A s \in Switches : table[s] = IF On(chosen, s) THEN NextOn(chosen, s) ELSE NoRule

\* A flow whose first packets have found their rules keeps being delivered while it is moved,
\* however long the switches take: each one that gets the packets of a changed neighbour has
\* its rule before that neighbour is changed (the order of flow_mod_list, and the sleep).
\* Without barriers this holds only while no message overtakes an older one.
NeverInterrupted == up /\ ~reordered /\ ~torn => Delivers

\* In the end the flow is delivered for good: after each end of an iteration a packet that
\* misses routes it anew (already_routed_ip), and nothing that is under way undoes that.
Settles == <>[](torn \/ Delivers)
=============================================================================
