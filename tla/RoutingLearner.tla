--------------------------- MODULE RoutingLearner --------------------------
(***************************************************************************)
(* app/machine_learning_for_routing/controller: the controller             *)
(* (remote_controller.py) and the reinforcement learner                    *)
(* (learning_module.py), two processes joined by a pipe in each direction. *)
(* In each round the controller takes at most one action from its pipe,    *)
(* moves the flow, and reports the paths of all flows with the latencies   *)
(* once they have been measured anew.  The learner counts the rewards of   *)
(* the reports, updates its Q table and sends the next action.  It never   *)
(* reads the state again while the set of flows stays the same: it         *)
(* computes the state its action leads to.                                 *)
(*                                                                         *)
(* The module is the configuration of the repository: one flow per action, *)
(* Q-learning and a random first path (config.py).  Q values, latencies    *)
(* and the exploration are abstracted to any choice of an action.          *)
(* Installing paths is the module FlowRerouting.                           *)
(***************************************************************************)
EXTENDS Integers, Sequences, SequencesExt

CONSTANTS
  Flows, Paths,   \* flows, and the paths each can take
  NoPath,         \* of a flow that is not known yet
  NoTrans,        \* the action that changes nothing
  Capacity,       \* messages that fit into a pipe
  Needed,         \* measurements_for_reward
  SplitUp,        \* split_up_load_levels_flag
  MaxFlags        \* bound: PUT requests

ASSUME RoutingLearnerAssumption ==
  /\ Capacity \in Nat \ {0} /\ Needed \in Nat \ {0} /\ MaxFlags \in Nat
  /\ SplitUp \in BOOLEAN
  /\ NoPath \notin Paths

VARIABLES
  pc,            \* of checking_updates: "poll" or "report"
  chosen,        \* chosen_path_per_flow
  routed,        \* flows in already_routed_ip
  fresh,         \* check_new_measurement: measured since last_state_change
  reset, iteration, stop,  \* the flags, set by PUT requests
  puts,          \* PUT requests so far
  toLearner, toController, \* the two pipes
  status,        \* the learner "runs", has "stopped" or "failed"
  built,         \* it has a Q table
  temp,          \* temp_flows, the flows of that table
  state,         \* current_state: what the learner takes for the chosen paths
  acted,         \* previous_state and previous_action are set
  rewards,       \* rewards_list: for each, whether it was measured before the last action
  measured,      \* history: latencies were measured since the last action was done
  hurried,       \* history: a report was sent while another or an action was under way,
                 \* or without fresh measurements
  strayed        \* history: a flow the learner may know was given another path

cvars == <<pc, chosen, routed, fresh, measured, hurried, strayed>>
flags == <<reset, iteration, stop, puts>>
lvars == <<status, built, temp, state, acted, rewards>>
vars == <<cvars, flags, lvars, toLearner, toController>>

Known(comb) == {f \in Flows : comb[f] # NoPath}
Combinations == [Flows -> Paths \cup {NoPath}]
Actions == (Flows \X Paths) \cup {<<NoTrans>>}
Report == [comb : Combinations, reset : BOOLEAN, iteration : BOOLEAN, stop : BOOLEAN,
           old : BOOLEAN]

Init ==
  /\ pc = "poll" /\ chosen = [f \in Flows |-> NoPath] /\ routed = {} /\ fresh = FALSE
  /\ reset = FALSE /\ iteration = FALSE /\ stop = FALSE /\ puts = 0
  /\ toLearner = <<>> /\ toController = <<>>
  /\ status = "runs" /\ built = FALSE /\ temp = {} /\ state = chosen /\ acted = FALSE
  /\ rewards = <<>>
  /\ measured = FALSE /\ hurried = FALSE /\ strayed = FALSE

----------------------------------------------------------------------------
(* The controller.                                                         *)

\* Sending blocks the whole controller, which runs in one thread.
Blocked == pc = "report" /\ Len(toLearner) >= Capacity /\ (fresh \/ iteration \/ reset)

\* routing_ip: the first packet of a flow that does not count as routed.
PacketIn(f) ==
  /\ ~Blocked /\ f \notin routed
  /\ \E p \in Paths : chosen' = [chosen EXCEPT ![f] = p]
  /\ routed' = routed \cup {f}
  /\ strayed' = (strayed \/ chosen[f] \notin {NoPath, chosen'[f]})
  /\ UNCHANGED <<pc, fresh, measured, hurried, flags, lvars, toLearner, toController>>

\* The probes have crossed every link again since last_state_change.
ProbesArrive ==
  /\ ~Blocked /\ ~(fresh /\ measured)
  /\ fresh' = TRUE /\ measured' = TRUE
  /\ UNCHANGED <<pc, chosen, routed, hurried, strayed, flags, lvars, toLearner, toController>>

Put ==
  /\ ~Blocked /\ puts < MaxFlags
  /\ puts' = puts + 1
  /\ \/ reset' = TRUE /\ UNCHANGED <<iteration, stop>>
     \/ iteration' = TRUE /\ UNCHANGED <<reset, stop>>
     \/ stop' = TRUE /\ UNCHANGED <<reset, iteration>>
  /\ UNCHANGED <<cvars, lvars, toLearner, toController>>

\* get_next_state, of a combination and an action; reroute does the same to chosen.
NextState(comb, a) == IF a = <<NoTrans>> THEN comb ELSE [comb EXCEPT ![a[1]] = a[2]]

\* Faulty variant: actions are taken only when there is nothing to report.
PollUnlessFresh ==
  /\ pc = "poll" /\ pc' = "report"
  /\ IF toController = <<>> \/ fresh THEN UNCHANGED <<chosen, fresh, measured, toController>>
     ELSE /\ chosen' = NextState(chosen, Head(toController))
          /\ toController' = Tail(toController)
          /\ fresh' = FALSE /\ measured' = FALSE
  /\ UNCHANGED <<routed, hurried, strayed, flags, lvars, toLearner>>

\* Faulty variant: last_state_change is not set.
PollKeepsFresh ==
  /\ pc = "poll" /\ pc' = "report"
  /\ IF toController = <<>> THEN UNCHANGED <<chosen, measured, toController>>
     ELSE /\ chosen' = NextState(chosen, Head(toController))
          /\ toController' = Tail(toController)
          /\ measured' = FALSE
  /\ UNCHANGED <<fresh, routed, hurried, strayed, flags, lvars, toLearner>>

\* checking_updates: at most one action is taken from the pipe, and done.
Poll ==
  /\ pc = "poll" /\ pc' = "report"
  /\ IF toController = <<>> THEN UNCHANGED <<chosen, fresh, measured, toController>>
     ELSE /\ chosen' = NextState(chosen, Head(toController))
          /\ toController' = Tail(toController)
          /\ fresh' = FALSE /\ measured' = FALSE
  /\ UNCHANGED <<routed, hurried, strayed, flags, lvars, toLearner>>

Resets == iteration \/ (SplitUp /\ reset)

SendsReport ==
  /\ Len(toLearner) < Capacity
  /\ toLearner' = Append(toLearner,
       [comb |-> chosen, reset |-> reset, iteration |-> iteration, stop |-> stop,
        old |-> ~measured \/ toController # <<>>])
  /\ hurried' = (hurried \/ toLearner # <<>> \/ toController # <<>> \/ ~fresh)

\* Faulty variant: the flags are cleared in every round.
ReportForgets ==
  /\ pc = "report" /\ pc' = "poll"
  /\ routed' = IF Resets THEN {} ELSE routed
  /\ IF fresh THEN SendsReport ELSE UNCHANGED <<toLearner, hurried>>
  /\ reset' = FALSE /\ iteration' = FALSE
  /\ UNCHANGED <<chosen, fresh, measured, strayed, stop, puts, lvars, toController>>

\* The rest of checking_updates: a reset takes the rules of all flows away, and they count as
\* not routed; the report is due when measurements are fresh or a flag is set, and sending it
\* clears the flags, but not stop.
Reports ==
  /\ pc = "report" /\ pc' = "poll"
  /\ routed' = IF Resets THEN {} ELSE routed
  /\ IF fresh \/ iteration \/ reset
     THEN SendsReport /\ reset' = FALSE /\ iteration' = FALSE
     ELSE UNCHANGED <<toLearner, hurried, reset, iteration>>
  /\ UNCHANGED <<chosen, fresh, measured, strayed, stop, puts, lvars, toController>>

----------------------------------------------------------------------------
(* The learner: learning_module handles one report at a time.              *)

Got == Head(toLearner)

Receives == status = "runs" /\ toLearner # <<>> /\ toLearner' = Tail(toLearner)

\* A report without flows is passed over.
Ignores ==
  /\ Receives /\ Known(Got.comb) = {}
  /\ UNCHANGED <<cvars, flags, lvars, toController>>

Stops ==
  /\ Receives /\ Known(Got.comb) # {} /\ Got.stop
  /\ status' = "stopped"
  /\ UNCHANGED <<cvars, flags, built, temp, state, acted, rewards, toController>>

\* The Q table is reset from the paths it was last built of; before it was ever built these
\* are undefined, and the exception ends the learner.
ResetsQ == Got.iteration \/ (SplitUp /\ Got.reset)

Fails ==
  /\ Receives /\ Known(Got.comb) # {} /\ ~Got.stop /\ ResetsQ /\ ~built
  /\ status' = "failed"
  /\ UNCHANGED <<cvars, flags, built, temp, state, acted, rewards, toController>>

\* A new iteration: the flows are forgotten, so that the next report starts the state anew.
Restarts ==
  /\ Receives /\ Known(Got.comb) # {} /\ ~Got.stop /\ Got.iteration /\ built
  /\ temp' = {} /\ rewards' = <<>>
  /\ UNCHANGED <<cvars, flags, status, built, state, acted, toController>>

\* Any report with flows that is none of these may be the last: duration_per_minutes.
TimeGoesOn == status' \in {"runs", "stopped"}

Plain == Receives /\ Known(Got.comb) # {} /\ ~Got.stop /\ ~Got.iteration /\ (ResetsQ => built)
Flowless == temp = {} \/ ResetsQ

\* The first report of an iteration, or of a load level: the table is built, no reward counts.
Builds ==
  /\ Plain /\ Flowless
  /\ built' = TRUE /\ temp' = Known(Got.comb) /\ state' = Got.comb /\ acted' = FALSE
  /\ rewards' = IF ResetsQ THEN <<>> ELSE rewards
  /\ TimeGoesOn
  /\ UNCHANGED <<cvars, flags, toController>>

\* A flow joined: the table and the state are taken from this report.
Joined == Known(Got.comb) # temp
Counted == Append(IF Joined THEN <<>> ELSE rewards, Got.old)
Current == IF Joined THEN Got.comb ELSE state

\* A reward counts, and more are needed.
Counts ==
  /\ Plain /\ ~Flowless
  /\ Len(Counted) < Needed
  /\ rewards' = Counted /\ state' = Current /\ temp' = Known(Got.comb)
  /\ acted' = (acted /\ ~Joined)
  /\ TimeGoesOn
  /\ UNCHANGED <<cvars, flags, built, toController>>

PossibleActions(comb) == {a \in Actions : a = <<NoTrans>> \/ comb[a[1]] \notin {NoPath, a[2]}}

\* Faulty variant: the state is read from the report.
ActsOnReport ==
  /\ status = "runs" /\ toLearner # <<>>
  /\ Known(Got.comb) # {} /\ ~Got.stop /\ ~Got.iteration /\ (ResetsQ => built)
  /\ ~Flowless /\ Len(Counted) >= Needed /\ Len(toController) < Capacity
  /\ \E a \in PossibleActions(Got.comb) : toController' = Append(toController, a) /\ state' = Got.comb
  /\ toLearner' = [i \in DOMAIN Tail(toLearner) |-> [Tail(toLearner)[i] EXCEPT !.old = TRUE]]
  /\ temp' = Known(Got.comb) /\ acted' = TRUE /\ rewards' = <<>>
  /\ TimeGoesOn
  /\ UNCHANGED <<cvars, flags, built>>

\* Enough rewards: the table is updated (if there was an action before), and the next action
\* is sent, which blocks while the pipe is full; current_state is where it leads.  What is
\* still in the pipe was measured before this action.
Acts ==
  /\ status = "runs" /\ toLearner # <<>>
  /\ Known(Got.comb) # {} /\ ~Got.stop /\ ~Got.iteration /\ (ResetsQ => built)
  /\ ~Flowless /\ Len(Counted) >= Needed /\ Len(toController) < Capacity
  /\ \E a \in PossibleActions(Current) :
       /\ toController' = Append(toController, a)
       /\ state' = NextState(Current, a)
  /\ toLearner' = [i \in DOMAIN Tail(toLearner) |-> [Tail(toLearner)[i] EXCEPT !.old = TRUE]]
  /\ temp' = Known(Got.comb) /\ acted' = TRUE /\ rewards' = <<>>
  /\ TimeGoesOn
  /\ UNCHANGED <<cvars, flags, built>>

Learner == Ignores \/ Stops \/ Fails \/ Restarts \/ Builds \/ Counts \/ Acts

Next ==
  \/ \E f \in Flows : PacketIn(f)
  \/ ProbesArrive \/ Put \/ Poll \/ Reports
  \/ Learner

Spec == Init /\ [][Next]_vars
FairSpec == Spec /\ WF_vars(ProbesArrive) /\ WF_vars(Poll) /\ WF_vars(Reports) /\ WF_vars(Learner)

----------------------------------------------------------------------------
\* Types; a flow that counts as routed has a path, as has every flow that is reported or that
\* the learner has in its table.
TypeOK ==
  /\ pc \in {"poll", "report"}
  /\ chosen \in Combinations /\ routed \subseteq Known(chosen)
  /\ {fresh, measured, hurried, strayed, reset, iteration, stop, built, acted} \subseteq BOOLEAN
  /\ toLearner \in Seq(Report) /\ toController \in Seq(Actions)
  /\ \A i \in DOMAIN toLearner : Known(toLearner[i].comb) \subseteq Known(chosen)
  /\ status \in {"runs", "stopped", "failed"}
  /\ temp \subseteq Known(chosen) /\ state \in Combinations
  /\ rewards \in Seq(BOOLEAN) /\ Len(rewards) < Needed

\* Reports and actions under way are at most one more than a pipe holds, however slow either
\* process is: the two never wait for each other with both pipes full (parent_conn, child_conn).
Outstanding == Len(toLearner) + Len(toController) <= Capacity + 1

\* What the learner takes for the current state is the paths of its flows, once the actions
\* under way are done (get_next_state), although it reads them only when a flow joins: unless
\* a report was late, or a flow was routed a second time, at random, after a reset.
PredictionIsRight ==
  ~hurried /\ ~strayed =>
    \A f \in temp : state[f] = FoldLeft(NextState, chosen, toController)[f]

\* The rewards counted since the last action and those under way: which were measured before
\* the action was done?
Due == rewards \o [i \in DOMAIN toLearner |-> toLearner[i].old]

\* Those that were (last_state_change) come first, and are no more than the pipe holds and one
\* for each PUT, whose flag sends a report before it is due; there are none while no report was
\* hurried (remote_controller.py:203-255, learning_module.py:221-258).  Of a reward that is the
\* only one an action gets (measurements_for_reward = 1) this says that it may be a stale one.
RewardsAreFresh ==
  /\ \A i \in DOMAIN Due : Due[i] => i <= Capacity + puts
  /\ \A i, j \in DOMAIN Due : i <= j /\ Due[j] => Due[i]
  /\ ~hurried => \A i \in DOMAIN Due : ~Due[i]

\* The controller waits at a full pipe only while the learner is at work, or for good once
\* the learner has ended.
WaitEnds == Blocked ~> (~Blocked \/ status # "runs")

\* A new iteration that is set while flows are known reaches the learner, even if the flag is
\* put while the controller moves a flow (iteration_flag).
RestartIsHeard == iteration /\ Known(chosen) # {} ~> (temp = {} \/ status # "runs")
=============================================================================
